---------------------------- MODULE OutputProofs ----------------------------
(***************************************************************************)
(* What is proved of Output, for every number of workers, lines, pools and *)
(* connections, and whatever dials, writes and purges do: a connection is  *)
(* in one place, and a line that Write accepted is in a buffer or sent.    *)
(***************************************************************************)
EXTENDS Output, FiniteSetTheorems, SequenceTheorems, TLAPS

-----------------------------------------------------------------------------
(* The inductive invariant.                                                 *)

Before == {"idle", "make", "open"}
Holding == {"reopen", "check", "write", "reset", "done", "failed"}

Worker == [at : Before \cup Holding \cup {"stuck"}, line : Lines \cup {NoLine},
           pool : 0..MaxPools, conn : Conns \cup {NoConn}]

TypeOK ==
    /\ made \in 0..MaxPools /\ outpool \in 0..made
    /\ free \in [Pools -> Seq(Conns)] /\ closed \subseteq Pools
    /\ conn \in [Conns -> {"nil", "up", "shut"}]
    /\ buffer \in [Conns -> SUBSET Lines]
    /\ work \in [Workers -> Worker]
    /\ purge \in [at : {"no", "flush", "close", "panicked", "done"}, pool : 0..MaxPools, i : Nat]
    /\ todo \subseteq Lines /\ accepted \subseteq Lines /\ sent \subseteq Lines

\* A worker has a line from TakeLine on, a connection of its pool from Open to
\* Close, and none before.
WorkersOwn ==
    \A w \in Workers :
        /\ work[w].at \in Before => work[w].conn = NoConn
        /\ work[w].at = "open" => work[w].pool \in 1..made
        /\ work[w].at \in Holding =>
             work[w].conn \in Conns /\ work[w].conn[1] = work[w].pool /\ work[w].pool \in 1..made
        /\ work[w].at = "stuck" => closed # {}
        /\ work[w].at # "idle" => work[w].line \in Lines

\* The channel of a pool has connections of the pool, and only a purge closes it.
InOwnPool ==
    /\ WorkersOwn
    /\ \A p \in Pools : \A i \in DOMAIN free[p] : free[p][i][1] = p /\ p <= made
    /\ purge.at = "no" => closed = {}
    /\ purge.at \in {"flush", "close"} => purge.pool \in Pools

\* The places of a connection, without counting.
OnePlace ==
    \A c \in Conns :
        /\ \A w, v \in Holders(c) : w = v
        /\ \A i, j \in Slots(c) : i = j
        /\ Holders(c) = {} \/ Slots(c) = {}
        /\ c[1] <= made /\ purge.at = "no" => Holders(c) # {} \/ Slots(c) # {}

OutputInv == TypeOK /\ InOwnPool /\ OnePlace /\ AcceptedIsKept

-----------------------------------------------------------------------------
(* What steps do to workers and connections.                                *)

\* Worker w gets to place at, with line l, pool p and connection c.
Moves(w, at, l, p, c) ==
    /\ work' \in [Workers -> Worker]
    /\ \A v \in Workers \ {w} : work'[v] = work[v]
    /\ work'[w].at = at /\ work'[w].line = l /\ work'[w].pool = p /\ work'[w].conn = c

\* A connection is a pool and a number, and no connection is NoConn.
LEMMA ConnTypes ==
    /\ NoConn \notin Conns
    /\ \A c \in Conns : c[1] \in Pools /\ c[2] \in 1..MaxConnections /\ c = <<c[1], c[2]>>
    /\ \A p \in Pools : p \in Nat /\ p \in 0..MaxPools
    /\ MaxPools \in Nat /\ MaxConnections \in Nat
  BY OutputAssumption DEF Conns, Pools, NoConn

\* The fields of a worker.
LEMMA WorkTypes ==
    ASSUME work \in [Workers -> Worker], NEW w \in Workers
    PROVE  /\ work[w] \in Worker /\ work[w].at \in Before \cup Holding \cup {"stuck"}
           /\ work[w].line \in Lines \cup {NoLine} /\ work[w].pool \in 0..MaxPools
           /\ work[w].conn \in Conns \cup {NoConn}
  BY Zenon DEF Worker

\* The ways in which an action of PoolWriter.Write changes its worker.
LEMMA WorkMoves ==
    ASSUME work \in [Workers -> Worker], NEW w \in Workers
    PROVE  /\ \A x \in Worker : work' = [work EXCEPT ![w] = x] => Moves(w, x.at, x.line, x.pool, x.conn)
           /\ \A at \in Before \cup Holding \cup {"stuck"} :
                /\ Goes(w, at) => Moves(w, at, work[w].line, work[w].pool, work[w].conn)
                /\ \A p \in 0..MaxPools :
                     work' = [work EXCEPT ![w].at = at, ![w].pool = p] => Moves(w, at, work[w].line, p, work[w].conn)
                /\ \A c \in Conns :
                     work' = [work EXCEPT ![w].at = at, ![w].conn = c] => Moves(w, at, work[w].line, work[w].pool, c)
  <1>1. ASSUME NEW x \in Worker, work' = [work EXCEPT ![w] = x] PROVE Moves(w, x.at, x.line, x.pool, x.conn)
    BY <1>1, Zenon DEF Moves
  <1> DEFINE y == work[w]
  <1>2. y \in Worker
    OBVIOUS
  <1>3. ASSUME NEW at \in Before \cup Holding \cup {"stuck"}
        PROVE  /\ Goes(w, at) => Moves(w, at, y.line, y.pool, y.conn)
               /\ \A p \in 0..MaxPools :
                    work' = [work EXCEPT ![w].at = at, ![w].pool = p] => Moves(w, at, y.line, p, y.conn)
               /\ \A c \in Conns :
                    work' = [work EXCEPT ![w].at = at, ![w].conn = c] => Moves(w, at, y.line, y.pool, c)
    <2>1. ASSUME Goes(w, at) PROVE Moves(w, at, y.line, y.pool, y.conn)
      <3> DEFINE x == [y EXCEPT !.at = at]
      <3>1. x \in Worker /\ x.at = at /\ x.line = y.line /\ x.pool = y.pool /\ x.conn = y.conn
        BY <1>2, Zenon DEF Worker
      <3>2. work' = [work EXCEPT ![w] = x]
        BY <2>1, Zenon DEF Goes
      <3> HIDE DEF x, y
      <3> QED
        BY <1>1, <3>1, <3>2, Zenon
    <2>2. ASSUME NEW p \in 0..MaxPools, work' = [work EXCEPT ![w].at = at, ![w].pool = p]
          PROVE  Moves(w, at, y.line, p, y.conn)
      <3> DEFINE x == [y EXCEPT !.at = at, !.pool = p]
      <3>1. x \in Worker /\ x.at = at /\ x.line = y.line /\ x.pool = p /\ x.conn = y.conn
        BY <1>2, Zenon DEF Worker
      <3>2. work' = [work EXCEPT ![w] = x]
        BY <2>2, Zenon
      <3> HIDE DEF x, y
      <3> QED
        BY <1>1, <3>1, <3>2, Zenon
    <2>3. ASSUME NEW c \in Conns, work' = [work EXCEPT ![w].at = at, ![w].conn = c]
          PROVE  Moves(w, at, y.line, y.pool, c)
      <3> DEFINE x == [y EXCEPT !.at = at, !.conn = c]
      <3>1. x \in Worker /\ x.at = at /\ x.line = y.line /\ x.pool = y.pool /\ x.conn = c
        BY <1>2, Zenon DEF Worker
      <3>2. work' = [work EXCEPT ![w] = x]
        BY <2>3, Zenon
      <3> HIDE DEF x, y
      <3> QED
        BY <1>1, <3>1, <3>2, Zenon
    <2> QED
      BY <2>1, <2>2, <2>3, Zenon
  <1> QED
    BY <1>1, <1>3, Zenon

\* The workers that have a connection, after worker w has moved.
LEMMA HolderMoves ==
    ASSUME NEW w \in Workers, NEW at, NEW l, NEW p, NEW d, Moves(w, at, l, p, d)
    PROVE  \A c \in Conns :
              /\ \A v \in Workers \ {w} : v \in Holders(c)' <=> v \in Holders(c)
              /\ w \in Holders(c)' <=> at # "stuck" /\ d = c
              /\ Holders(c) \subseteq Workers /\ Holders(c)' \subseteq Workers
  BY Zenon DEF Moves, Holders

\* Open and DestroyAll take the first connection out of the channel.
LEMMA TailSlots ==
    ASSUME TypeOK, NEW p \in Pools, free[p] # <<>>, free' = [free EXCEPT ![p] = Tail(@)]
    PROVE  /\ free' \in [Pools -> Seq(Conns)] /\ Head(free[p]) \in Conns
           /\ 1 \in DOMAIN free[p] /\ Head(free[p]) = free[p][1]
           /\ \A q \in Pools : \A i \in DOMAIN free'[q] : \E j \in DOMAIN free[q] : free'[q][i] = free[q][j]
           /\ \A c \in Conns : \A i : c[1] = p => (i \in Slots(c)' <=> i \in Nat \ {0} /\ i + 1 \in Slots(c))
           /\ \A c \in Conns : c[1] # p => Slots(c)' = Slots(c)
  <1> DEFINE q == free[p]
             n == Len(q)
  <1>1. q \in Seq(Conns) /\ n \in Nat /\ n # 0 /\ DOMAIN q = 1..n /\ \A i \in 1..n : q[i] \in Conns
    <2>1. q \in Seq(Conns)
      BY Zenon DEF TypeOK
    <2> QED
      BY <2>1, LenProperties, EmptySeq, ElementOfSeq, Zenon
  <1>2. /\ Tail(q) \in Seq(Conns) /\ Len(Tail(q)) = n - 1
        /\ DOMAIN Tail(q) = 1..(n - 1)
        /\ \A i \in 1..(n - 1) : Tail(q)[i] = q[i + 1]
    BY <1>1, HeadTailProperties, LenProperties, Zenon
  <1>3. Head(q) = q[1] /\ Head(q) \in Conns /\ 1 \in DOMAIN q
    BY <1>1, HeadTailProperties
  <1>4. free'[p] = Tail(q) /\ \A r \in Pools \ {p} : free'[r] = free[r]
    BY Zenon DEF TypeOK
  <1>5. free' \in [Pools -> Seq(Conns)]
    BY <1>2, Zenon DEF TypeOK
  <1> HIDE DEF q, n
  <1>6. \A r \in Pools : \A i \in DOMAIN free'[r] : \E j \in DOMAIN free[r] : free'[r][i] = free[r][j]
    <2> TAKE r \in Pools
    <2>1. CASE r = p
      <3> SUFFICES ASSUME NEW i \in 1..(n - 1) PROVE \E j \in DOMAIN q : Tail(q)[i] = q[j]
        BY <1>2, <1>4, <2>1 DEF q
      <3>1. i + 1 \in DOMAIN q
        BY <1>1
      <3> QED
        BY <1>2, <3>1, Zenon
    <2>2. CASE r # p
      BY <1>4, <2>2, Zenon
    <2> QED
      BY <2>1, <2>2, Zenon
  <1>7. \A c \in Conns : \A i : c[1] = p => (i \in Slots(c)' <=> i \in Nat \ {0} /\ i + 1 \in Slots(c))
    <2> SUFFICES ASSUME NEW c \in Conns, c[1] = p, NEW i
                 PROVE  i \in Slots(c)' <=> i \in Nat \ {0} /\ i + 1 \in Slots(c)
      OBVIOUS
    <2>1. i \in Slots(c)' <=> i \in 1..(n - 1) /\ Tail(q)[i] = c
      BY <1>2, <1>4, Zenon DEF Slots
    <2>2. i + 1 \in Slots(c) <=> i + 1 \in 1..n /\ q[i + 1] = c
      BY <1>1, Zenon DEF Slots, q
    <2>3. i \in 1..(n - 1) <=> i \in Nat \ {0} /\ i + 1 \in 1..n
      BY <1>1
    <2> QED
      BY <1>2, <2>1, <2>2, <2>3, Zenon
  <1>8. \A c \in Conns : c[1] # p => Slots(c)' = Slots(c)
    BY <1>4, ConnTypes, Zenon DEF Slots
  <1> QED
    BY <1>3, <1>5, <1>6, <1>7, <1>8, Zenon DEF q

\* Close puts a connection into the channel of its pool.
LEMMA AppendSlots ==
    ASSUME TypeOK, NEW d \in Conns, free' = [free EXCEPT ![d[1]] = Append(@, d)]
    PROVE  /\ free' \in [Pools -> Seq(Conns)]
           /\ \A q \in Pools : \A i \in DOMAIN free'[q] :
                 (\E j \in DOMAIN free[q] : free'[q][i] = free[q][j]) \/ (q = d[1] /\ free'[q][i] = d)
           /\ \A c \in Conns \ {d} : Slots(c)' = Slots(c)
           /\ \A c \in Conns : c = d => \E n : Slots(c)' = Slots(c) \cup {n}
  <1> DEFINE p == d[1]
             q == free[p]
             n == Len(q) + 1
  <1>1. p \in Pools /\ q \in Seq(Conns) /\ Len(q) \in Nat /\ DOMAIN q = 1..Len(q)
    <2>1. p \in Pools
      BY ConnTypes, Zenon
    <2>2. q \in Seq(Conns)
      BY <2>1, Zenon DEF TypeOK
    <2> QED
      BY <2>1, <2>2, LenProperties, Zenon
  <1>2. /\ Append(q, d) \in Seq(Conns) /\ DOMAIN Append(q, d) = DOMAIN q \cup {n}
        /\ n \notin DOMAIN q /\ Append(q, d)[n] = d
        /\ \A i \in DOMAIN q : Append(q, d)[i] = q[i]
    <2>1. /\ Append(q, d) \in Seq(Conns) /\ Len(Append(q, d)) = n
          /\ \A i \in 1..Len(q) : Append(q, d)[i] = q[i]
          /\ Append(q, d)[n] = d
      BY <1>1, AppendProperties
    <2>2. DOMAIN Append(q, d) = 1..n
      BY <2>1, LenProperties, Zenon
    <2>3. 1..n = 1..Len(q) \cup {n} /\ n \notin 1..Len(q)
      BY <1>1
    <2> QED
      BY <1>1, <2>1, <2>2, <2>3, Zenon
  <1>3. free'[p] = Append(q, d) /\ \A r \in Pools \ {p} : free'[r] = free[r]
    BY <1>1, Zenon DEF TypeOK
  <1>4. free' \in [Pools -> Seq(Conns)]
    BY <1>1, <1>2, Zenon DEF TypeOK
  <1> HIDE DEF p, q, n
  <1>5. \A r \in Pools : \A i \in DOMAIN free'[r] :
           (\E j \in DOMAIN free[r] : free'[r][i] = free[r][j]) \/ (r = p /\ free'[r][i] = d)
    <2> TAKE r \in Pools
    <2>1. CASE r = p
      <3>1. free'[r] = Append(q, d)
        BY <1>3, <2>1
      <3> QED
        BY <1>2, <2>1, <3>1 DEF q
    <2>2. CASE r # p
      BY <1>3, <2>2, Zenon
    <2> QED
      BY <2>1, <2>2, Zenon
  <1>6. \A c \in Conns \ {d} : Slots(c)' = Slots(c)
    <2> TAKE c \in Conns \ {d}
    <2>1. CASE c[1] = p
      <3>1. Slots(c)' = {i \in DOMAIN q \cup {n} : Append(q, d)[i] = c}
        BY <1>2, <1>3, <2>1, Zenon DEF Slots
      <3>2. Slots(c) = {i \in DOMAIN q : q[i] = c}
        BY <2>1, Zenon DEF Slots, q
      <3> QED
        BY <1>2, <3>1, <3>2, Zenon
    <2>2. CASE c[1] # p
      BY <1>3, <2>2, ConnTypes, Zenon DEF Slots
    <2> QED
      BY <2>1, <2>2, Zenon
  <1>7. Slots(d)' = Slots(d) \cup {n}
    <2>1. Slots(d)' = {i \in DOMAIN q \cup {n} : Append(q, d)[i] = d}
      BY <1>2, <1>3, Zenon DEF Slots, p
    <2>2. Slots(d) = {i \in DOMAIN q : q[i] = d}
      BY Zenon DEF Slots, q, p
    <2> QED
      BY <1>2, <2>1, <2>2, Zenon
  <1> QED
    BY <1>4, <1>5, <1>6, <1>7, Zenon DEF p

\* InitPool fills the channel of a new pool with its connections.
LEMMA NewSlots ==
    ASSUME TypeOK, NEW p \in Pools, free[p] = <<>>,
           free' = [free EXCEPT ![p] = [i \in 1..MaxConnections |-> <<p, i>>]]
    PROVE  /\ free' \in [Pools -> Seq(Conns)]
           /\ \A q \in Pools \ {p} : free'[q] = free[q]
           /\ \A i \in DOMAIN free'[p] : free'[p][i][1] = p
           /\ \A c \in Conns : c[1] # p => Slots(c)' = Slots(c)
           /\ \A c \in Conns : c[1] = p => Slots(c)' = {c[2]} /\ Slots(c) = {}
  <1> DEFINE s == [i \in 1..MaxConnections |-> <<p, i>>]
  <1>1. s \in [1..MaxConnections -> Conns] /\ s \in Seq(Conns)
    BY ConnTypes DEF Conns
  <1>2. free'[p] = s /\ \A q \in Pools \ {p} : free'[q] = free[q]
    BY Zenon DEF TypeOK
  <1>3. free' \in [Pools -> Seq(Conns)]
    BY <1>1, Zenon DEF TypeOK
  <1>4. \A c \in Conns : c[1] # p => Slots(c)' = Slots(c)
    BY <1>2, ConnTypes DEF Slots
  <1>5. ASSUME NEW c \in Conns, c[1] = p PROVE Slots(c)' = {c[2]} /\ Slots(c) = {}
    <2>1. Slots(c) = {}
      BY <1>5, EmptySeq DEF Slots
    <2>2. c = <<p, c[2]>> /\ c[2] \in 1..MaxConnections
      BY <1>5, ConnTypes, Zenon
    <2>3. Slots(c)' = {i \in 1..MaxConnections : <<p, i>> = c}
      BY <1>2, <1>5, Zenon DEF Slots
    <2> QED
      BY <2>1, <2>2, <2>3
  <1>6. \A i \in DOMAIN free'[p] : free'[p][i][1] = p
    BY <1>2
  <1> QED
    BY <1>2, <1>3, <1>4, <1>5, <1>6, Zenon

-----------------------------------------------------------------------------
(* Types, and each connection in its own pool.                              *)

\* At first there is no pool, and every worker is idle.
LEMMA OutputInit == Init => OutputInv
  <1> SUFFICES ASSUME Init PROVE OutputInv
    OBVIOUS
  <1>1. Idle \in Worker /\ Idle.at \in Before /\ Idle.conn = NoConn
    BY ConnTypes DEF Idle, Worker, Before, NoPool
  <1>2. \A p \in Pools : free[p] = <<>> /\ DOMAIN free[p] = {}
    BY EmptySeq DEF Init
  <1>3. \A w \in Workers : work[w] = Idle
    BY Zenon DEF Init
  <1>4. TypeOK
    <2>1. free \in [Pools -> Seq(Conns)]
      BY EmptySeq, Zenon DEF Init
    <2>2. made = 0 /\ outpool = 0 /\ 0 \in 0..MaxPools /\ 0 \in 0..0
      BY ConnTypes DEF Init, NoPool
    <2>3. purge \in [at : {"no", "flush", "close", "panicked", "done"}, pool : 0..MaxPools, i : Nat]
      BY <2>2, Zenon DEF Init, NoPool
    <2> QED
      BY <1>1, <2>1, <2>2, <2>3, Zenon DEF Init, TypeOK
  <1>5. InOwnPool
    BY <1>1, <1>2, <1>3, Zenon DEF Init, InOwnPool, WorkersOwn, Before, Holding, Idle
  <1>6. OnePlace
    <2>1. \A c \in Conns : Holders(c) = {} /\ Slots(c) = {}
      BY <1>1, <1>2, <1>3, ConnTypes, Zenon DEF Holders, Slots
    <2>2. \A c \in Conns : ~(c[1] <= 0)
      BY ConnTypes DEF Pools
    <2> QED
      BY <2>1, <2>2, Zenon DEF Init, OnePlace
  <1>7. AcceptedIsKept
    BY Zenon DEF Init, AcceptedIsKept
  <1> QED
    BY <1>4, <1>5, <1>6, <1>7, Zenon DEF OutputInv

\* Nobody's connection changes hands, or the one that moves keeps it: every
\* connection is where it was.
LEMMA PlacesStay ==
    ASSUME OnePlace, UNCHANGED <<free, made>>, purge'.at = "no" => purge.at = "no",
           \A c \in Conns : Holders(c)' = Holders(c)
    PROVE  OnePlace'
  <1>1. \A c \in Conns : Slots(c)' = Slots(c)
    BY Zenon DEF Slots
  <1> QED
    BY <1>1 DEF OnePlace

\* What worker w has to satisfy at its new place for InOwnPool to hold of every
\* worker again.
LEMMA WorkersFit ==
    ASSUME TypeOK, InOwnPool, NEW w \in Workers, NEW at, NEW l, NEW p, NEW d,
           Moves(w, at, l, p, d), made' \in Nat, made <= made', closed \subseteq closed',
           at \in Before => d = NoConn,
           at = "open" => p \in 1..made',
           at \in Holding => d \in Conns /\ d[1] = p /\ p \in 1..made',
           at = "stuck" => closed' # {},
           at # "idle" => l \in Lines
    PROVE  WorkersOwn'
  <1>1. made \in Nat /\ 1..made \subseteq 1..made'
    BY ConnTypes DEF TypeOK
  <1> SUFFICES ASSUME NEW v \in Workers
               PROVE  /\ work'[v].at \in Before => work'[v].conn = NoConn
                      /\ work'[v].at = "open" => work'[v].pool \in 1..made'
                      /\ work'[v].at \in Holding =>
                           /\ work'[v].conn \in Conns /\ work'[v].conn[1] = work'[v].pool
                           /\ work'[v].pool \in 1..made'
                      /\ work'[v].at = "stuck" => closed' # {}
                      /\ work'[v].at # "idle" => work'[v].line \in Lines
    BY Zenon DEF WorkersOwn
  <1>2. CASE v = w
    BY <1>2, Zenon DEF Moves
  <1>3. CASE v # w
    <2>1. work'[v] = work[v]
      BY <1>3, Zenon DEF Moves
    <2> QED
      BY <1>1, <2>1, Zenon DEF InOwnPool, WorkersOwn
  <1> QED
    BY <1>2, <1>3, Zenon

\* A step of worker w that leaves pools, channels and purge alone, and after
\* which w has the connection it had.
LEMMA WorkerStays ==
    ASSUME OutputInv, NEW w \in Workers, NEW at, NEW l, NEW p, NEW d,
           Moves(w, at, l, p, d), UNCHANGED <<made, free, closed, purge>>,
           at \in Before => d = NoConn,
           at = "open" => p \in 1..made,
           at \in Holding => d \in Conns /\ d[1] = p /\ p \in 1..made,
           at = "stuck" => closed # {},
           at # "idle" => l \in Lines,
           \/ d = NoConn /\ work[w].conn = NoConn
           \/ d = work[w].conn /\ at # "stuck" /\ work[w].at # "stuck"
    PROVE  InOwnPool' /\ OnePlace'
  <1>1. made \in Nat
    BY ConnTypes DEF OutputInv, TypeOK
  <1>2. InOwnPool'
    <2>1. WorkersOwn'
      BY <1>1, WorkersFit DEF OutputInv
    <2> QED
      BY <2>1, Zenon DEF OutputInv, InOwnPool
  <1>3. \A c \in Conns : Holders(c)' = Holders(c)
    <2> TAKE c \in Conns
    <2>1. w \in Holders(c)' <=> w \in Holders(c)
      BY HolderMoves, ConnTypes DEF Holders
    <2> QED
      BY <2>1, HolderMoves
  <1>4. OnePlace'
    BY <1>3, PlacesStay, Zenon DEF OutputInv
  <1> QED
    BY <1>2, <1>4, Zenon

\* A step that leaves workers and channels alone.
LEMMA NobodyMoves ==
    ASSUME OutputInv, UNCHANGED <<made, free, work>>, closed \subseteq closed',
           purge'.at = "no" => purge.at = "no" /\ closed' = {},
           purge'.at \in {"flush", "close"} => purge'.pool \in Pools
    PROVE  InOwnPool' /\ OnePlace'
  <1>1. InOwnPool'
    BY Zenon DEF OutputInv, InOwnPool, WorkersOwn
  <1>2. OnePlace'
    BY PlacesStay, Zenon DEF OutputInv, Holders
  <1> QED
    BY <1>1, <1>2, Zenon

-----------------------------------------------------------------------------
(* Each action keeps the types, the pools and the places.                   *)

Sound == TypeOK /\ InOwnPool /\ OnePlace

\* A worker takes a line, and has no connection before or after.
LEMMA TakeLineStep ==
    ASSUME OutputInv, NEW w \in Workers, TakeLine(w) PROVE Sound'
  <1>1. PICK l \in todo : /\ todo' = todo \ {l}
                          /\ work' = [work EXCEPT ![w] = [Idle EXCEPT !.at = "make", !.line = l]]
    BY Zenon DEF TakeLine
  <1> DEFINE x == [Idle EXCEPT !.at = "make", !.line = l]
  <1>2. /\ x \in Worker /\ x.at = "make" /\ x.line = l /\ x.pool = NoPool /\ x.conn = NoConn
        /\ l \in Lines
    <2>1. l \in Lines /\ NoPool \in 0..MaxPools
      BY ConnTypes DEF OutputInv, TypeOK, NoPool
    <2> QED
      BY <2>1, Zenon DEF Idle, Worker, Before
  <1>3. Moves(w, "make", l, NoPool, NoConn)
    <2> HIDE DEF x
    <2>1. work' = [work EXCEPT ![w] = x]
      BY <1>1, Zenon DEF x
    <2>2. work \in [Workers -> Worker]
      BY Zenon DEF OutputInv, TypeOK
    <2>3. Moves(w, x.at, x.line, x.pool, x.conn)
      BY <1>2, <2>1, <2>2, WorkMoves, Zenon
    <2> QED
      BY <1>2, <2>3, Zenon
  <1>4. work[w].conn = NoConn
    BY Zenon DEF TakeLine, At, OutputInv, InOwnPool, WorkersOwn, Before
  <1>5. InOwnPool' /\ OnePlace'
    BY <1>2, <1>3, <1>4, WorkerStays, Zenon DEF TakeLine, pools, Before, Holding
  <1>6. TypeOK'
    BY <1>1, <1>3, Zenon DEF TakeLine, pools, sockets, OutputInv, TypeOK, Moves
  <1> QED
    BY <1>5, <1>6, Zenon DEF Sound

\* The branch of make_pool that makes one.
MakesPool(w) ==
    /\ make_pool(w) /\ outpool = NoPool /\ made < MaxPools
    /\ made' = made + 1 /\ outpool' = made + 1
    /\ free' = [free EXCEPT ![made + 1] = [i \in 1..MaxConnections |-> <<made + 1, i>>]]
    /\ conn' = [c \in Conns |-> IF c[1] = made + 1 THEN "up" ELSE conn[c]]
    /\ work' = [work EXCEPT ![w].at = "open", ![w].pool = made + 1]

\* InitPool: nobody has a connection of the new pool yet.
LEMMA MakesPoolStep ==
    ASSUME OutputInv, NEW w \in Workers, MakesPool(w)
    PROVE  Sound'
  <1> DEFINE p == made + 1
  <1>1. made \in Nat /\ p \in Nat /\ p \in Pools /\ p \in 0..MaxPools /\ p \in 1..p /\ ~(p <= made)
    BY ConnTypes DEF MakesPool, OutputInv, TypeOK, Pools
  <1>2. /\ UNCHANGED <<todo, closed, buffer, purge, accepted, sent>> /\ work[w].at = "make"
        /\ work[w].conn = NoConn /\ work[w].line \in Lines
    BY Zenon DEF MakesPool, make_pool, At, OutputInv, InOwnPool, WorkersOwn, Before
  <1>3. free[p] = <<>>
    <2>1. free[p] \in Seq(Conns)
      BY <1>1, Zenon DEF OutputInv, TypeOK
    <2>2. DOMAIN free[p] = {}
      BY <1>1, Zenon DEF OutputInv, InOwnPool
    <2>3. Len(free[p]) \in Nat /\ 1..Len(free[p]) = {}
      BY <2>1, <2>2, LenProperties, Zenon
    <2>4. Len(free[p]) = 0
      <3> HIDE DEF p
      <3>1. 1 \notin 1..Len(free[p])
        BY <2>3, Zenon
      <3> QED
        BY <2>3, <3>1
    <2> QED
      BY <2>1, <2>4, EmptySeq, Zenon
  <1>4. Moves(w, "open", work[w].line, p, NoConn)
    BY <1>1, <1>2, WorkMoves, Zenon DEF MakesPool, OutputInv, TypeOK, Before
  <1>5. /\ free' \in [Pools -> Seq(Conns)]
        /\ \A q \in Pools \ {p} : free'[q] = free[q]
        /\ \A i \in DOMAIN free'[p] : free'[p][i][1] = p
        /\ \A c \in Conns : c[1] # p => Slots(c)' = Slots(c)
        /\ \A c \in Conns : c[1] = p => Slots(c)' = {c[2]} /\ Slots(c) = {}
    BY <1>1, <1>3, NewSlots, Zenon DEF MakesPool, OutputInv
  <1>6. TypeOK'
    <2>1. made' \in 0..MaxPools /\ outpool' \in 0..made'
      BY <1>1 DEF MakesPool
    <2>2. conn' \in [Conns -> {"nil", "up", "shut"}]
      BY Zenon DEF MakesPool, OutputInv, TypeOK
    <2> QED
      BY <1>2, <1>4, <1>5, <2>1, <2>2, Zenon DEF OutputInv, TypeOK, Moves
  <1>p. made' = p
    BY Zenon DEF MakesPool
  <1> HIDE DEF p
  <1>7. InOwnPool'
    <2>1. \A q \in Pools : \A i \in DOMAIN free'[q] : free'[q][i][1] = q /\ q <= made'
      <3> SUFFICES ASSUME NEW q \in Pools, NEW i \in DOMAIN free'[q]
                   PROVE  free'[q][i][1] = q /\ q <= made'
        OBVIOUS
      <3>1. CASE q = p
        BY <1>1, <1>5, <1>p, <3>1
      <3>2. CASE q # p
        <4>1. free[q][i][1] = q /\ q <= made /\ q \in Nat
          BY <1>5, <3>2, ConnTypes, Zenon DEF OutputInv, InOwnPool
        <4> QED
          BY <1>1, <1>5, <1>p, <3>2, <4>1 DEF p
      <3> QED
        BY <3>1, <3>2, Zenon
    <2>2. made <= made' /\ made' \in Nat /\ p \in 1..made'
      BY <1>1, <1>p DEF p
    <2>3. WorkersOwn'
      <3>1. closed \subseteq closed' /\ "open" \in Before /\ "open" \notin Holding
        BY <1>2, Zenon DEF Before, Holding
      <3> QED
        BY <1>2, <1>4, <2>2, <3>1, WorkersFit DEF OutputInv
    <2> QED
      BY <1>2, <2>1, <2>3, Zenon DEF OutputInv, InOwnPool
  <1>8. \A c \in Conns : Holders(c)' = Holders(c) /\ (c[1] = p => Holders(c) = {})
    <2> TAKE c \in Conns
    <2>1. Holders(c)' = Holders(c)
      <3>1. w \notin Holders(c)' /\ w \notin Holders(c)
        BY <1>2, <1>4, HolderMoves, ConnTypes DEF Holders
      <3> QED
        BY <1>4, <3>1, HolderMoves
    <2>2. ASSUME c[1] = p, NEW v \in Holders(c) PROVE FALSE
      <3>1. v \in Workers /\ work[v].conn = c /\ work[v].at # "stuck"
        BY <2>2, Zenon DEF Holders
      <3>2. work[v].at \in Holding
        <4>1. work[v].at \notin Before
          BY <3>1, ConnTypes, Zenon DEF OutputInv, InOwnPool, WorkersOwn
        <4> QED
          BY <3>1, <4>1, WorkTypes, Zenon DEF OutputInv, TypeOK
      <3>3. p \in 1..made
        BY <2>2, <3>1, <3>2, Zenon DEF OutputInv, InOwnPool, WorkersOwn
      <3> QED
        BY <1>1, <3>3
    <2> QED
      BY <2>1, <2>2, Zenon
  <1>9. OnePlace'
    <2> SUFFICES ASSUME NEW c \in Conns
                 PROVE  /\ \A v, u \in Holders(c)' : v = u
                        /\ \A i, j \in Slots(c)' : i = j
                        /\ Holders(c)' = {} \/ Slots(c)' = {}
                        /\ c[1] <= made' /\ purge'.at = "no" => Holders(c)' # {} \/ Slots(c)' # {}
      BY Zenon DEF OnePlace
    <2>1. CASE c[1] = p
      BY <1>5, <1>8, <2>1, Zenon
    <2>2. CASE c[1] # p
      <3>1. c[1] <= made' => c[1] <= made
        BY <1>1, <1>p, <2>2, ConnTypes DEF p
      <3> QED
        BY <1>2, <1>5, <1>8, <2>2, <3>1 DEF OutputInv, OnePlace
    <2> QED
      BY <2>1, <2>2, Zenon
  <1> QED
    BY <1>6, <1>7, <1>9, Zenon DEF Sound

\* make_pool finds a pool, makes one, or fails to dial.
LEMMA MakePoolStep ==
    ASSUME OutputInv, NEW w \in Workers, make_pool(w) PROVE Sound'
  <1>1. /\ UNCHANGED <<todo, closed, buffer, purge, accepted, sent>> /\ work[w].at = "make"
        /\ work[w].conn = NoConn /\ work[w].line \in Lines
    BY Zenon DEF make_pool, At, OutputInv, InOwnPool, WorkersOwn, Before
  <1>2. \/ outpool # NoPool /\ work' = [work EXCEPT ![w].at = "open", ![w].pool = outpool]
           /\ UNCHANGED <<made, outpool, free, conn>>
        \/ MakesPool(w)
        \/ UNCHANGED <<made, outpool, free, conn, work>>
    BY Zenon DEF make_pool, MakesPool, pools
  <1>3. CASE /\ outpool # NoPool /\ work' = [work EXCEPT ![w].at = "open", ![w].pool = outpool]
             /\ UNCHANGED <<made, outpool, free, conn>>
    <2>1. outpool \in 0..MaxPools /\ outpool \in 1..made
      BY <1>3, ConnTypes DEF OutputInv, TypeOK, NoPool
    <2>2. Moves(w, "open", work[w].line, outpool, NoConn)
      BY <1>1, <1>3, <2>1, WorkMoves, Zenon DEF OutputInv, TypeOK, Before
    <2>3. InOwnPool' /\ OnePlace'
      <3>1. "open" \in Before /\ "open" \notin Holding
        BY Zenon DEF Before, Holding
      <3>2. UNCHANGED <<made, free, closed, purge>>
        BY <1>1, <1>3, Zenon
      <3> QED
        BY <1>1, <2>1, <2>2, <3>1, <3>2, WorkerStays
    <2>4. TypeOK'
      BY <1>1, <1>3, <2>2, Zenon DEF OutputInv, TypeOK, Moves
    <2> QED
      BY <2>3, <2>4, Zenon DEF Sound
  <1>4. CASE MakesPool(w)
    BY <1>4, MakesPoolStep, Zenon
  <1>5. CASE UNCHANGED <<made, outpool, free, conn, work>>
    <2>1. InOwnPool' /\ OnePlace'
      BY <1>1, <1>5, NobodyMoves, Zenon DEF OutputInv, InOwnPool
    <2>2. TypeOK'
      BY <1>1, <1>5, Zenon DEF OutputInv, TypeOK
    <2> QED
      BY <2>1, <2>2, Zenon DEF Sound
  <1> QED
    BY <1>2, <1>3, <1>4, <1>5, Zenon

\* What a flush and a dial leave of the sockets and the buffers.
LEMMA FlushTypes ==
    ASSUME TypeOK, NEW c \in Conns, Flush(c) \/ FlushClosed(c)
    PROVE  /\ conn' \in [Conns -> {"nil", "up", "shut"}]
           /\ buffer' \in [Conns -> SUBSET Lines] /\ sent' \subseteq Lines
           /\ sent \subseteq sent'
           /\ \A d \in Conns : buffer[d] \subseteq buffer'[d] \cup sent'
  BY Zenon DEF TypeOK, Flush, FlushClosed, NothingToFlush, FlushWrites, FlushTimesOut, FlushError

\* A dial leaves the connection with a new socket or with none.
LEMMA DialTypes ==
    ASSUME TypeOK, NEW c \in Conns, Dial(c)
    PROVE  conn' \in [Conns -> {"nil", "up", "shut"}]
  BY Zenon DEF TypeOK, Dial

\* Open takes the connection out of the channel, and nobody else has it.
LEMMA OpenStep ==
    ASSUME OutputInv, NEW w \in Workers, Open(w) PROVE Sound'
  <1> DEFINE p == work[w].pool
             d == Head(free[p])
  <1>1. /\ UNCHANGED <<todo, outpool, made, closed, purge, accepted>> /\ work[w].at = "open"
        /\ work[w].conn = NoConn /\ work[w].line \in Lines /\ p \in 1..made /\ free[p] # <<>>
    BY Zenon DEF Open, pools, At, OutputInv, InOwnPool, WorkersOwn, Before
  <1>2. p \in Pools /\ p \in Nat
    BY <1>1, ConnTypes DEF OutputInv, TypeOK, Pools
  <1>3. free' = [free EXCEPT ![p] = Tail(@)]
    BY Zenon DEF Open
  <1>4. /\ free' \in [Pools -> Seq(Conns)] /\ d \in Conns
        /\ 1 \in DOMAIN free[p] /\ d = free[p][1]
        /\ \A q \in Pools : \A i \in DOMAIN free'[q] : \E j \in DOMAIN free[q] : free'[q][i] = free[q][j]
        /\ \A c \in Conns : \A i : c[1] = p => (i \in Slots(c)' <=> i \in Nat \ {0} /\ i + 1 \in Slots(c))
        /\ \A c \in Conns : c[1] # p => Slots(c)' = Slots(c)
    BY <1>1, <1>2, <1>3, TailSlots, Zenon DEF OutputInv
  <1>5. d[1] = p
    BY <1>2, <1>4 DEF OutputInv, InOwnPool
  <1> HIDE DEF d
  <1>6. \E at \in {"check", "reopen"} : work' = [work EXCEPT ![w].at = at, ![w].conn = d]
    BY Zenon DEF Open, d
  <1>7. PICK at \in {"check", "reopen"} : Moves(w, at, work[w].line, p, d)
    <2>1. PICK at \in {"check", "reopen"} : work' = [work EXCEPT ![w].at = at, ![w].conn = d]
      BY <1>6, Zenon
    <2>2. at \in Before \cup Holding \cup {"stuck"}
      BY Zenon DEF Holding
    <2> QED
      BY <1>4, <2>1, <2>2, WorkMoves, Zenon DEF OutputInv, TypeOK
  <1>8. TypeOK'
    <2>1. /\ conn' \in [Conns -> {"nil", "up", "shut"}]
          /\ buffer' \in [Conns -> SUBSET Lines] /\ sent' \subseteq Lines
      <3>1. UNCHANGED sockets \/ Flush(d)
        BY Zenon DEF Open, d
      <3>2. CASE UNCHANGED sockets
        BY <3>2, Zenon DEF sockets, OutputInv, TypeOK
      <3>3. CASE Flush(d)
        BY <1>4, <3>3, FlushTypes, Zenon DEF OutputInv
      <3> QED
        BY <3>1, <3>2, <3>3, Zenon
    <2> QED
      BY <1>1, <1>4, <1>7, <2>1, Zenon DEF OutputInv, TypeOK, Moves
  <1>9. InOwnPool'
    <2>1. at \in Holding /\ at \notin Before /\ at # "open" /\ at # "stuck"
      BY Zenon DEF Before, Holding
    <2>2. made \in Nat /\ made <= made' /\ made' \in Nat /\ made' = made
      BY <1>1, ConnTypes DEF OutputInv, TypeOK
    <2>3. closed \subseteq closed'
      BY <1>1, Zenon
    <2>4. WorkersOwn'
      BY <1>1, <1>4, <1>5, <1>7, <2>1, <2>2, <2>3, WorkersFit, Zenon DEF OutputInv
    <2>5. \A q \in Pools : \A i \in DOMAIN free'[q] : free'[q][i][1] = q /\ q <= made'
      <3> TAKE q \in Pools
      <3> TAKE i \in DOMAIN free'[q]
      <3>1. PICK j \in DOMAIN free[q] : free'[q][i] = free[q][j]
        BY <1>4, Zenon
      <3> QED
        BY <2>2, <3>1 DEF OutputInv, InOwnPool
    <2> QED
      BY <1>1, <2>4, <2>5, Zenon DEF OutputInv, InOwnPool
  <1>10. OnePlace'
    <2> SUFFICES ASSUME NEW c \in Conns
                 PROVE  /\ \A v, u \in Holders(c)' : v = u
                        /\ \A i, j \in Slots(c)' : i = j
                        /\ Holders(c)' = {} \/ Slots(c)' = {}
                        /\ c[1] <= made' /\ purge'.at = "no" => Holders(c)' # {} \/ Slots(c)' # {}
      BY Zenon DEF OnePlace
    <2>0. /\ \A v, u \in Holders(c) : v = u
          /\ \A i, j \in Slots(c) : i = j
          /\ Holders(c) = {} \/ Slots(c) = {}
          /\ c[1] <= made /\ purge.at = "no" => Holders(c) # {} \/ Slots(c) # {}
      BY Zenon DEF OutputInv, OnePlace
    <2>1. w \notin Holders(c)
      BY <1>1, ConnTypes, Zenon DEF Holders
    <2>2. CASE c = d
      <3>1. 1 \in Slots(c) /\ Holders(c) = {}
        BY <1>4, <1>5, <2>0, <2>2, Zenon DEF Slots
      <3>2. Slots(c)' = {}
        <4>1. ASSUME NEW i \in Slots(c)' PROVE FALSE
          <5>1. i \in Nat \ {0} /\ i + 1 \in Slots(c)
            BY <1>4, <1>5, <2>2, <4>1, Zenon
          <5>2. i + 1 = 1
            BY <2>0, <3>1, <5>1, Zenon
          <5> QED
            BY <5>1, <5>2
        <4> QED
          BY <4>1, Zenon
      <3>3. Holders(c)' = {w}
        BY <1>7, <2>2, <3>1, HolderMoves
      <3> QED
        BY <3>2, <3>3, Zenon
    <2>3. CASE c # d
      <3>1. Holders(c)' = Holders(c)
        <4>1. w \notin Holders(c)'
          BY <1>7, <2>3, HolderMoves
        <4> QED
          BY <1>7, <2>1, <4>1, HolderMoves
      <3>2. CASE c[1] = p
        <4>1. \A i : i \in Slots(c)' <=> i \in Nat \ {0} /\ i + 1 \in Slots(c)
          BY <1>4, <3>2, Zenon
        <4>2. \A i, j \in Slots(c)' : i = j
          <5> SUFFICES ASSUME NEW i \in Slots(c)', NEW j \in Slots(c)' PROVE i = j
            OBVIOUS
          <5>1. i \in Nat /\ j \in Nat /\ i + 1 \in Slots(c) /\ j + 1 \in Slots(c)
            BY <4>1, Zenon
          <5>2. i + 1 = j + 1
            BY <2>0, <5>1, Zenon
          <5> QED
            BY <5>1, <5>2
        <4>3. Slots(c) # {} <=> Slots(c)' # {}
          <5>1. ASSUME NEW i \in Slots(c) PROVE Slots(c)' # {}
            <6>1. i \in DOMAIN free[p] /\ free[p][i] = c /\ i # 1
              BY <1>4, <2>3, <3>2, <5>1, Zenon DEF Slots
            <6>2. free[p] \in Seq(Conns)
              BY <1>2, Zenon DEF OutputInv, TypeOK
            <6>3. Len(free[p]) \in Nat /\ i \in 1..Len(free[p])
              BY <6>1, <6>2, LenProperties, Zenon
            <6>4. i - 1 \in Nat \ {0} /\ (i - 1) + 1 = i
              BY <6>1, <6>3
            <6> QED
              BY <4>1, <5>1, <6>4, Zenon
          <5> QED
            BY <4>1, <5>1, Zenon
        <4> QED
          BY <1>1, <2>0, <3>1, <4>2, <4>3, Zenon
      <3>3. CASE c[1] # p
        BY <1>1, <1>4, <2>0, <3>1, <3>3, Zenon
      <3> QED
        BY <3>2, <3>3, Zenon
    <2> QED
      BY <2>2, <2>3, Zenon
  <1> QED
    BY <1>8, <1>9, <1>10, Zenon DEF Sound

\* The second half of Open dials and leaves the connection with the worker.
LEMMA ReopenStep ==
    ASSUME OutputInv, NEW w \in Workers, Reopen(w) PROVE Sound'
  <1>1. /\ UNCHANGED <<todo, outpool, made, free, closed, buffer, purge, accepted, sent>>
        /\ work[w].at = "reopen" /\ Dial(work[w].conn) /\ Goes(w, "check")
    BY Zenon DEF Reopen, pools, At
  <1>2. /\ work[w].conn \in Conns /\ work[w].conn[1] = work[w].pool /\ work[w].pool \in 1..made
        /\ work[w].line \in Lines
    BY <1>1, Zenon DEF OutputInv, InOwnPool, WorkersOwn, Holding
  <1>3. Moves(w, "check", work[w].line, work[w].pool, work[w].conn)
    BY <1>1, WorkMoves, Zenon DEF OutputInv, TypeOK, Holding
  <1>4. InOwnPool' /\ OnePlace'
    BY <1>1, <1>2, <1>3, WorkerStays DEF Before
  <1>5. TypeOK'
    BY <1>1, <1>2, <1>3, DialTypes, Zenon DEF OutputInv, TypeOK, Moves
  <1> QED
    BY <1>4, <1>5, Zenon DEF Sound

\* A worker that finds the pool destroyed has no connection.
LEMMA OpenDestroyedStep ==
    ASSUME OutputInv, NEW w \in Workers, OpenDestroyed(w) PROVE Sound'
  <1>1. /\ UNCHANGED <<todo, outpool, made, free, closed, conn, buffer, purge, accepted, sent>>
        /\ work[w].at = "open" /\ closed # {} /\ work[w].conn = NoConn /\ work[w].line \in Lines
    BY Zenon DEF OpenDestroyed, pools, sockets, At, OutputInv, InOwnPool, WorkersOwn, Before
  <1>2. Goes(w, "stuck") \/ UNCHANGED work
    BY Zenon DEF OpenDestroyed
  <1>3. CASE Goes(w, "stuck")
    <2>1. Moves(w, "stuck", work[w].line, work[w].pool, NoConn)
      BY <1>1, <1>3, WorkMoves, Zenon DEF OutputInv, TypeOK
    <2>2. InOwnPool' /\ OnePlace'
      BY <1>1, <2>1, WorkerStays DEF Holding
    <2>3. TypeOK'
      BY <1>1, <2>1, Zenon DEF OutputInv, TypeOK, Moves
    <2> QED
      BY <2>2, <2>3, Zenon DEF Sound
  <1>4. CASE UNCHANGED work
    <2>1. InOwnPool' /\ OnePlace'
      BY <1>1, <1>4, NobodyMoves, Zenon DEF OutputInv, InOwnPool
    <2>2. TypeOK'
      BY <1>1, <1>4, Zenon DEF OutputInv, TypeOK
    <2> QED
      BY <2>1, <2>2, Zenon DEF Sound
  <1> QED
    BY <1>2, <1>3, <1>4, Zenon

\* The test of the socket leaves the connection with the worker.
LEMMA CheckStep ==
    ASSUME OutputInv, NEW w \in Workers, Check(w) PROVE Sound'
  <1>1. /\ UNCHANGED <<todo, outpool, made, free, closed, conn, buffer, purge, accepted, sent>>
        /\ work[w].at = "check"
    BY Zenon DEF Check, pools, sockets, At
  <1>2. /\ work[w].conn \in Conns /\ work[w].conn[1] = work[w].pool /\ work[w].pool \in 1..made
        /\ work[w].line \in Lines
    BY <1>1, Zenon DEF OutputInv, InOwnPool, WorkersOwn, Holding
  <1>3. PICK at \in {"failed", "write"} : Goes(w, at)
    BY Zenon DEF Check
  <1>4. at \in Holding /\ at \notin Before /\ at # "stuck" /\ at # "open"
    BY Zenon DEF Holding, Before
  <1>5. Moves(w, at, work[w].line, work[w].pool, work[w].conn)
    BY <1>3, <1>4, WorkMoves, Zenon DEF OutputInv, TypeOK
  <1>6. InOwnPool' /\ OnePlace'
    BY <1>1, <1>2, <1>4, <1>5, WorkerStays, Zenon
  <1>7. TypeOK'
    BY <1>1, <1>5, Zenon DEF OutputInv, TypeOK, Moves
  <1> QED
    BY <1>6, <1>7, Zenon DEF Sound

\* Write leaves the connection with the worker, whatever becomes of the line.
LEMMA WriteStep ==
    ASSUME OutputInv, NEW w \in Workers, Write(w) PROVE Sound'
  <1>1. /\ UNCHANGED <<todo, outpool, made, free, closed, purge>> /\ work[w].at = "write"
    BY Zenon DEF Write, pools, At
  <1>2. /\ work[w].conn \in Conns /\ work[w].conn[1] = work[w].pool /\ work[w].pool \in 1..made
        /\ work[w].line \in Lines
    BY <1>1, Zenon DEF OutputInv, InOwnPool, WorkersOwn, Holding
  <1>3. PICK at \in {"done", "reset"} : Goes(w, at)
    BY Zenon DEF Write
  <1>4. at \in Holding /\ at \notin Before /\ at # "stuck" /\ at # "open"
    BY Zenon DEF Holding, Before
  <1>5. Moves(w, at, work[w].line, work[w].pool, work[w].conn)
    BY <1>3, <1>4, WorkMoves, Zenon DEF OutputInv, TypeOK
  <1>6. InOwnPool' /\ OnePlace'
    BY <1>1, <1>2, <1>4, <1>5, WorkerStays, Zenon
  <1>7. /\ conn' \in [Conns -> {"nil", "up", "shut"}]
        /\ buffer' \in [Conns -> SUBSET Lines] /\ sent' \subseteq Lines /\ accepted' \subseteq Lines
    <2> DEFINE d == work[w].conn
               l == work[w].line
    <2>1. /\ conn' = conn \/ conn' = [conn EXCEPT ![d] = "nil"]
          /\ buffer' = buffer \/ buffer' = [buffer EXCEPT ![d] = @ \cup {l}] \/ buffer' = [buffer EXCEPT ![d] = {l}]
          /\ sent' = sent \/ sent' = sent \cup buffer[d]
          /\ accepted' = accepted \/ accepted' = accepted \cup {l}
      BY Zenon DEF Write
    <2>2. d \in Conns /\ l \in Lines
      BY <1>2, Zenon
    <2> HIDE DEF d, l
    <2>3. conn' \in [Conns -> {"nil", "up", "shut"}]
      BY <2>1, <2>2, Zenon DEF OutputInv, TypeOK
    <2>4. buffer' \in [Conns -> SUBSET Lines]
      <3>1. buffer \in [Conns -> SUBSET Lines] /\ buffer[d] \subseteq Lines
        BY <2>2, Zenon DEF OutputInv, TypeOK
      <3>2. {l} \in SUBSET Lines /\ buffer[d] \cup {l} \in SUBSET Lines
        BY <2>2, <3>1, Zenon
      <3> QED
        BY <2>1, <3>1, <3>2, Zenon
    <2>5. sent' \subseteq Lines /\ accepted' \subseteq Lines
      BY <2>1, <2>2, Zenon DEF OutputInv, TypeOK
    <2> QED
      BY <2>3, <2>4, <2>5, Zenon
  <1>8. TypeOK'
    BY <1>1, <1>5, <1>7, Zenon DEF OutputInv, TypeOK, Moves
  <1> QED
    BY <1>6, <1>8, Zenon DEF Sound

\* ResetConn leaves it to Close to put the connection back.
LEMMA ResetConnStep ==
    ASSUME OutputInv, NEW w \in Workers, ResetConn(w) PROVE Sound'
  <1>1. /\ UNCHANGED <<todo, outpool, made, free, closed, buffer, purge, accepted, sent>>
        /\ work[w].at = "reset" /\ Dial(work[w].conn) /\ Goes(w, "failed")
    BY Zenon DEF ResetConn, pools, At
  <1>2. /\ work[w].conn \in Conns /\ work[w].conn[1] = work[w].pool /\ work[w].pool \in 1..made
        /\ work[w].line \in Lines
    BY <1>1, Zenon DEF OutputInv, InOwnPool, WorkersOwn, Holding
  <1>3. Moves(w, "failed", work[w].line, work[w].pool, work[w].conn)
    BY <1>1, WorkMoves, Zenon DEF OutputInv, TypeOK, Holding
  <1>4. InOwnPool' /\ OnePlace'
    BY <1>1, <1>2, <1>3, WorkerStays DEF Before
  <1>5. TypeOK'
    BY <1>1, <1>2, <1>3, DialTypes, Zenon DEF OutputInv, TypeOK, Moves
  <1> QED
    BY <1>4, <1>5, Zenon DEF Sound

\* Close puts back the connection that only this worker has.
LEMMA CloseStep ==
    ASSUME OutputInv, NEW w \in Workers, Close(w) PROVE Sound'
  <1> DEFINE p == work[w].pool
             d == work[w].conn
             x == After(w)
  <1>1. /\ UNCHANGED <<todo, outpool, made, closed, conn, buffer, purge, accepted, sent>>
        /\ work[w].at \in {"done", "failed"} /\ work' = [work EXCEPT ![w] = x]
        /\ free' = [free EXCEPT ![p] = Append(@, d)]
    BY Zenon DEF Close, pools, sockets
  <1>2. d \in Conns /\ d[1] = p /\ p \in 1..made /\ work[w].line \in Lines
    BY <1>1, Zenon DEF OutputInv, InOwnPool, WorkersOwn, Holding
  <1>3. /\ free' \in [Pools -> Seq(Conns)]
        /\ \A q \in Pools : \A i \in DOMAIN free'[q] :
              (\E j \in DOMAIN free[q] : free'[q][i] = free[q][j]) \/ (q = d[1] /\ free'[q][i] = d)
        /\ \A c \in Conns \ {d} : Slots(c)' = Slots(c)
        /\ \A c \in Conns : c = d => \E n : Slots(c)' = Slots(c) \cup {n}
    BY <1>1, <1>2, AppendSlots, Zenon DEF OutputInv
  <1>4. /\ x \in Worker /\ x.at \in {"idle", "make"} /\ x.pool = NoPool /\ x.conn = NoConn
        /\ x.at # "idle" => x.line \in Lines
    <2>1. NoPool \in 0..MaxPools
      BY ConnTypes DEF NoPool
    <2>2. Idle \in Worker /\ Idle.at = "idle" /\ Idle.pool = NoPool /\ Idle.conn = NoConn
      BY <2>1, Zenon DEF Idle, Worker, Before
    <2>3. x = Idle \/ x = [Idle EXCEPT !.at = "make", !.line = work[w].line]
      BY Zenon DEF After
    <2>4. CASE x = Idle
      BY <2>2, <2>4, Zenon
    <2>5. CASE x = [Idle EXCEPT !.at = "make", !.line = work[w].line]
      BY <1>2, <2>1, <2>5, Zenon DEF Idle, Worker, Before
    <2> QED
      BY <2>3, <2>4, <2>5, Zenon
  <1> HIDE DEF x
  <1>5. Moves(w, x.at, x.line, NoPool, NoConn)
    BY <1>1, <1>4, WorkMoves, Zenon DEF OutputInv, TypeOK
  <1>6. TypeOK'
    BY <1>1, <1>3, <1>5, Zenon DEF OutputInv, TypeOK, Moves
  <1>7. InOwnPool'
    <2>1. made \in Nat /\ made' = made /\ made <= made' /\ closed \subseteq closed'
      BY <1>1, ConnTypes DEF OutputInv, TypeOK
    <2>2. x.at \in Before /\ x.at \notin Holding /\ x.at # "open" /\ x.at # "stuck"
      BY <1>4, Zenon DEF Before, Holding
    <2>3. WorkersOwn'
      BY <1>4, <1>5, <2>1, <2>2, WorkersFit, Zenon DEF OutputInv
    <2>4. \A q \in Pools : \A i \in DOMAIN free'[q] : free'[q][i][1] = q /\ q <= made'
      <3> TAKE q \in Pools
      <3> TAKE i \in DOMAIN free'[q]
      <3>1. CASE \E j \in DOMAIN free[q] : free'[q][i] = free[q][j]
        BY <2>1, <3>1 DEF OutputInv, InOwnPool
      <3>2. CASE q = d[1] /\ free'[q][i] = d
        BY <1>2, <2>1, <3>2
      <3> QED
        BY <1>3, <3>1, <3>2, Zenon
    <2> QED
      BY <1>1, <2>3, <2>4, Zenon DEF OutputInv, InOwnPool
  <1>8. OnePlace'
    <2> SUFFICES ASSUME NEW c \in Conns
                 PROVE  /\ \A v, u \in Holders(c)' : v = u
                        /\ \A i, j \in Slots(c)' : i = j
                        /\ Holders(c)' = {} \/ Slots(c)' = {}
                        /\ c[1] <= made' /\ purge'.at = "no" => Holders(c)' # {} \/ Slots(c)' # {}
      BY Zenon DEF OnePlace
    <2>0. /\ \A v, u \in Holders(c) : v = u
          /\ \A i, j \in Slots(c) : i = j
          /\ Holders(c) = {} \/ Slots(c) = {}
          /\ c[1] <= made /\ purge.at = "no" => Holders(c) # {} \/ Slots(c) # {}
      BY Zenon DEF OutputInv, OnePlace
    <2>1. /\ \A v \in Workers \ {w} : v \in Holders(c)' <=> v \in Holders(c)
          /\ w \notin Holders(c)'
          /\ Holders(c) \subseteq Workers /\ Holders(c)' \subseteq Workers
      BY <1>5, HolderMoves, ConnTypes
    <2>2. w \in Holders(c) <=> c = d
      BY <1>1, Zenon DEF Holders
    <2>3. CASE c = d
      <3>1. Holders(c)' = {} /\ Slots(c) = {}
        BY <2>0, <2>1, <2>2, <2>3, Zenon
      <3>2. PICK n : Slots(c)' = {n}
        BY <1>3, <2>3, <3>1, Zenon
      <3> QED
        BY <3>1, <3>2, Zenon
    <2>4. CASE c # d
      <3>1. Holders(c)' = Holders(c)
        BY <2>1, <2>2, <2>4
      <3>2. Slots(c)' = Slots(c)
        BY <1>3, <2>4, Zenon
      <3> QED
        BY <1>1, <2>0, <3>1, <3>2, Zenon
    <2> QED
      BY <2>3, <2>4, Zenon
  <1> QED
    BY <1>6, <1>7, <1>8, Zenon DEF Sound

\* The worker keeps the connection for good, which nobody else has.
LEMMA CloseDestroyedStep ==
    ASSUME OutputInv, NEW w \in Workers, CloseDestroyed(w) PROVE Sound'
  <1>1. /\ UNCHANGED <<todo, outpool, made, free, closed, conn, buffer, purge, accepted, sent>>
        /\ work[w].at \in {"done", "failed"} /\ closed # {}
    BY Zenon DEF CloseDestroyed, pools, sockets
  <1>2. Goes(w, "stuck") \/ UNCHANGED work
    BY Zenon DEF CloseDestroyed
  <1>3. CASE Goes(w, "stuck")
    <2>1. Moves(w, "stuck", work[w].line, work[w].pool, work[w].conn)
      BY <1>3, WorkMoves, Zenon DEF OutputInv, TypeOK
    <2>2. work[w].line \in Lines /\ purge.at # "no"
      BY <1>1, Zenon DEF OutputInv, InOwnPool, WorkersOwn
    <2>3. InOwnPool'
      <3>1. made \in Nat /\ made' = made /\ made <= made' /\ closed \subseteq closed'
        BY <1>1, ConnTypes DEF OutputInv, TypeOK
      <3>2. "stuck" \notin Before /\ "stuck" \notin Holding
        BY Zenon DEF Before, Holding
      <3> QED
        <4>1. WorkersOwn'
          BY <1>1, <2>1, <2>2, <3>1, <3>2, WorkersFit, Zenon DEF OutputInv
        <4> QED
          BY <1>1, <4>1, Zenon DEF OutputInv, InOwnPool
    <2>4. OnePlace'
      <3>1. \A c \in Conns : Holders(c)' \subseteq Holders(c) /\ Slots(c)' = Slots(c)
        BY <1>1, <2>1, HolderMoves DEF Slots
      <3> QED
        BY <1>1, <2>2, <3>1 DEF OutputInv, OnePlace
    <2>5. TypeOK'
      BY <1>1, <2>1, Zenon DEF OutputInv, TypeOK, Moves
    <2> QED
      BY <2>3, <2>4, <2>5, Zenon DEF Sound
  <1>4. CASE UNCHANGED work
    <2>1. InOwnPool' /\ OnePlace'
      BY <1>1, <1>4, NobodyMoves, Zenon DEF OutputInv, InOwnPool
    <2>2. TypeOK'
      BY <1>1, <1>4, Zenon DEF OutputInv, TypeOK
    <2> QED
      BY <2>1, <2>2, Zenon DEF Sound
  <1> QED
    BY <1>2, <1>3, <1>4, Zenon

\* The flusher of a connection moves nobody, and neither does time.
LEMMA FlusherStep ==
    ASSUME OutputInv, NEW c \in Conns, periodicFlush(c) \/ periodicFlushEnds(c) \/ DeadlinePasses(c)
    PROVE  Sound'
  <1>1. /\ UNCHANGED <<todo, outpool, made, free, closed, work, purge, accepted>>
        /\ UNCHANGED <<conn, buffer, sent>> \/ Flush(c) \/ FlushClosed(c)
    BY Zenon DEF periodicFlush, periodicFlushEnds, DeadlinePasses, pools, Flush
  <1>2. InOwnPool' /\ OnePlace'
    BY <1>1, NobodyMoves, Zenon DEF OutputInv, InOwnPool
  <1>3. /\ conn' \in [Conns -> {"nil", "up", "shut"}]
        /\ buffer' \in [Conns -> SUBSET Lines] /\ sent' \subseteq Lines
    <2>1. CASE UNCHANGED <<conn, buffer, sent>>
      BY <2>1, Zenon DEF OutputInv, TypeOK
    <2>2. CASE Flush(c) \/ FlushClosed(c)
      BY <2>2, FlushTypes, Zenon DEF OutputInv
    <2> QED
      BY <1>1, <2>1, <2>2, Zenon
  <1>4. TypeOK'
    BY <1>1, <1>3, Zenon DEF OutputInv, TypeOK
  <1> QED
    BY <1>2, <1>4, Zenon DEF Sound

\* Both loops of a purge only take connections out.
LEMMA PopsPlaces ==
    ASSUME OutputInv, NEW c \in Conns, Pops(c), purge.at # "no", purge'.at # "no", purge.pool \in Pools,
           purge'.at \in {"flush", "close"} => purge'.pool \in Pools,
           UNCHANGED <<made, closed, work>>
    PROVE  free' \in [Pools -> Seq(Conns)] /\ InOwnPool' /\ OnePlace'
  <1> DEFINE p == purge.pool
  <1>1. free[p] # <<>>
    <2>1. free[p] \in Seq(Conns) /\ purge.i \in Nat /\ purge.i < Len(free[p])
      BY Zenon DEF Pops, More, OutputInv, TypeOK
    <2>2. Len(free[p]) \in Nat
      BY <2>1, LenProperties, Zenon
    <2>3. Len(free[p]) # 0
      BY <2>1, <2>2
    <2> QED
      BY <2>3, EmptySeq, Zenon
  <1>2. /\ free' \in [Pools -> Seq(Conns)]
        /\ \A q \in Pools : \A i \in DOMAIN free'[q] : \E j \in DOMAIN free[q] : free'[q][i] = free[q][j]
        /\ \A d \in Conns : \A i : d[1] = p => (i \in Slots(d)' <=> i \in Nat \ {0} /\ i + 1 \in Slots(d))
        /\ \A d \in Conns : d[1] # p => Slots(d)' = Slots(d)
    BY <1>1, TailSlots, Zenon DEF Pops, OutputInv
  <1>3. InOwnPool'
    <2>1. \A q \in Pools : \A i \in DOMAIN free'[q] : free'[q][i][1] = q /\ q <= made'
      <3> TAKE q \in Pools
      <3> TAKE i \in DOMAIN free'[q]
      <3>1. PICK j \in DOMAIN free[q] : free'[q][i] = free[q][j]
        BY <1>2, Zenon
      <3> QED
        BY <3>1, Zenon DEF OutputInv, InOwnPool
    <2> QED
      BY <2>1, Zenon DEF OutputInv, InOwnPool, WorkersOwn
  <1>4. OnePlace'
    <2> SUFFICES ASSUME NEW d \in Conns
                 PROVE  /\ \A v, u \in Holders(d)' : v = u
                        /\ \A i, j \in Slots(d)' : i = j
                        /\ Holders(d)' = {} \/ Slots(d)' = {}
      BY Zenon DEF OnePlace
    <2>1. /\ \A v, u \in Holders(d) : v = u
          /\ \A i, j \in Slots(d) : i = j
          /\ Holders(d) = {} \/ Slots(d) = {}
      BY Zenon DEF OutputInv, OnePlace
    <2>2. Holders(d)' = Holders(d)
      BY Zenon DEF Holders
    <2>3. CASE d[1] = p
      <3>1. ASSUME NEW i \in Slots(d)', NEW j \in Slots(d)' PROVE i = j
        <4>1. i \in Nat /\ j \in Nat /\ i + 1 \in Slots(d) /\ j + 1 \in Slots(d)
          BY <1>2, <2>3, <3>1, Zenon
        <4>2. i + 1 = j + 1
          BY <2>1, <4>1, Zenon
        <4> QED
          BY <4>1, <4>2
      <3>2. Slots(d) = {} => Slots(d)' = {}
        BY <1>2, <2>3, Zenon
      <3> QED
        BY <2>1, <2>2, <3>1, <3>2, Zenon
    <2>4. CASE d[1] # p
      BY <1>2, <2>1, <2>2, <2>4, Zenon
    <2> QED
      BY <2>3, <2>4, Zenon
  <1> QED
    BY <1>2, <1>3, <1>4, Zenon

\* A purge takes connections out of the channel and puts none in.
LEMMA PurgeStep ==
    ASSUME OutputInv, purgenode \/ FlushAll \/ DestroyAll PROVE Sound'
  <1> DEFINE Record == [at : {"no", "flush", "close", "panicked", "done"}, pool : 0..MaxPools, i : Nat]
  <1>0. purge \in Record /\ purge.i \in Nat /\ purge.pool \in 0..MaxPools
    BY Zenon DEF OutputInv, TypeOK
  <1>1. CASE purgenode
    <2>1. /\ UNCHANGED <<todo, outpool, made, free, closed, work, conn, buffer, sent, accepted>>
          /\ outpool # NoPool /\ purge.at = "no"
          /\ purge' = [at |-> "flush", pool |-> outpool, i |-> 0]
      BY <1>1, Zenon DEF purgenode, Purging, pools, sockets
    <2>2. outpool \in Pools /\ outpool \in 0..MaxPools
      BY <2>1, ConnTypes DEF OutputInv, TypeOK, NoPool, Pools
    <2>3. purge' \in Record /\ purge'.at = "flush" /\ purge'.pool \in Pools
      BY <2>1, <2>2, Zenon
    <2>4. InOwnPool' /\ OnePlace'
      BY <2>1, <2>3, NobodyMoves, Zenon
    <2>5. TypeOK'
      BY <2>1, <2>3, Zenon DEF OutputInv, TypeOK
    <2> QED
      BY <2>4, <2>5, Zenon DEF Sound
  <1>2. CASE FlushAll
    <2>1. UNCHANGED <<todo, outpool, made, closed, work, accepted>> /\ purge.at = "flush" /\ purge.pool \in Pools
      BY <1>2, Zenon DEF FlushAll, Purging, pools, OutputInv, InOwnPool
    <2>2. \/ \E c \in Conns : Pops(c) /\ Flush(c) /\ purge' = [purge EXCEPT !.i = @ + 1]
          \/ purge' = [purge EXCEPT !.at = "close", !.i = 0] /\ UNCHANGED <<free, conn, buffer, sent>>
      BY <1>2, Zenon DEF FlushAll, sockets
    <2>3. CASE \E c \in Conns : Pops(c) /\ Flush(c) /\ purge' = [purge EXCEPT !.i = @ + 1]
      <3>1. PICK c \in Conns : Pops(c) /\ Flush(c) /\ purge' = [purge EXCEPT !.i = @ + 1]
        BY <2>3, Zenon
      <3>2. purge' \in Record /\ purge'.at = purge.at /\ purge'.pool = purge.pool
        BY <1>0, <3>1
      <3>3. free' \in [Pools -> Seq(Conns)] /\ InOwnPool' /\ OnePlace'
        BY <2>1, <3>1, <3>2, PopsPlaces, Zenon
      <3>4. TypeOK'
        BY <2>1, <3>1, <3>2, <3>3, FlushTypes, Zenon DEF OutputInv, TypeOK
      <3> QED
        BY <3>3, <3>4, Zenon DEF Sound
    <2>4. CASE purge' = [purge EXCEPT !.at = "close", !.i = 0] /\ UNCHANGED <<free, conn, buffer, sent>>
      <3>1. purge' \in Record /\ purge'.at = "close" /\ purge'.pool = purge.pool
        BY <1>0, <2>4, Zenon
      <3>2. InOwnPool' /\ OnePlace'
        BY <2>1, <2>4, <3>1, NobodyMoves, Zenon
      <3>3. TypeOK'
        BY <2>1, <2>4, <3>1, Zenon DEF OutputInv, TypeOK
      <3> QED
        BY <3>2, <3>3, Zenon DEF Sound
    <2> QED
      BY <2>2, <2>3, <2>4, Zenon
  <1>3. CASE DestroyAll
    <2>1. UNCHANGED <<todo, made, buffer, work, accepted, sent>> /\ purge.at = "close" /\ purge.pool \in Pools
      BY <1>3, Zenon DEF DestroyAll, Purging, OutputInv, InOwnPool
    <2>2. \/ \E c \in Conns :
               /\ Pops(c) /\ UNCHANGED <<outpool, closed>>
               /\ \/ purge' = [purge EXCEPT !.at = "panicked"] /\ UNCHANGED conn
                  \/ conn' = [conn EXCEPT ![c] = "shut"] /\ purge' = [purge EXCEPT !.i = @ + 1]
          \/ /\ closed' = closed \cup {purge.pool} /\ outpool' = NoPool
             /\ purge' = [purge EXCEPT !.at = "done"] /\ UNCHANGED <<free, conn>>
      BY <1>3, Zenon DEF DestroyAll
    <2>3. CASE \E c \in Conns :
                 /\ Pops(c) /\ UNCHANGED <<outpool, closed>>
                 /\ \/ purge' = [purge EXCEPT !.at = "panicked"] /\ UNCHANGED conn
                    \/ conn' = [conn EXCEPT ![c] = "shut"] /\ purge' = [purge EXCEPT !.i = @ + 1]
      <3>1. PICK c \in Conns :
                 /\ Pops(c) /\ UNCHANGED <<outpool, closed>>
                 /\ \/ purge' = [purge EXCEPT !.at = "panicked"] /\ UNCHANGED conn
                    \/ conn' = [conn EXCEPT ![c] = "shut"] /\ purge' = [purge EXCEPT !.i = @ + 1]
        BY <2>3, Zenon
      <3>2. purge' \in Record /\ purge'.at \in {"panicked", "close"} /\ purge'.pool = purge.pool
        BY <1>0, <2>1, <3>1
      <3>3. conn' \in [Conns -> {"nil", "up", "shut"}]
        BY <3>1, Zenon DEF OutputInv, TypeOK
      <3>4. free' \in [Pools -> Seq(Conns)] /\ InOwnPool' /\ OnePlace'
        BY <2>1, <3>1, <3>2, PopsPlaces, Zenon
      <3>5. TypeOK'
        BY <2>1, <3>1, <3>2, <3>3, <3>4, Zenon DEF OutputInv, TypeOK
      <3> QED
        BY <3>4, <3>5, Zenon DEF Sound
    <2>4. CASE /\ closed' = closed \cup {purge.pool} /\ outpool' = NoPool
               /\ purge' = [purge EXCEPT !.at = "done"] /\ UNCHANGED <<free, conn>>
      <3>1. purge' \in Record /\ purge'.at = "done"
        BY <1>0, <2>4, Zenon
      <3>2. InOwnPool' /\ OnePlace'
        BY <2>1, <2>4, <3>1, NobodyMoves, Zenon
      <3>3. outpool' \in 0..made'
        BY <2>1, <2>4, ConnTypes DEF OutputInv, TypeOK, NoPool
      <3>4. TypeOK'
        BY <2>1, <2>4, <3>1, <3>3, Zenon DEF OutputInv, TypeOK
      <3> QED
        BY <3>2, <3>4, Zenon DEF Sound
    <2> QED
      BY <2>2, <2>3, <2>4, Zenon
  <1> QED
    BY <1>1, <1>2, <1>3, Zenon

-----------------------------------------------------------------------------
(* Lines that are kept.                                                     *)

\* The lines in all the buffers.
LEMMA KeptWhere ==
    ASSUME NEW b \in [Conns -> SUBSET Lines]
    PROVE  \A x : x \in UNION Range(b) <=> \E c \in Conns : x \in b[c]
  BY Zenon DEF Range

\* A step that empties a buffer only into a socket, and accepts a line only into
\* a buffer.
LEMMA KeptFrame ==
    ASSUME TypeOK, AcceptedIsKept, buffer' \in [Conns -> SUBSET Lines], sent \subseteq sent',
           \A d \in Conns : buffer[d] \subseteq buffer'[d] \cup sent',
           \A x \in accepted' \ accepted : \E d \in Conns : x \in buffer'[d]
    PROVE  AcceptedIsKept'
  <1>1. buffer \in [Conns -> SUBSET Lines]
    BY Zenon DEF TypeOK
  <1> SUFFICES ASSUME NEW x \in accepted' PROVE x \in sent' \/ x \in UNION Range(buffer')
    BY Zenon DEF AcceptedIsKept
  <1>2. CASE x \in accepted
    <2>1. x \in sent \/ x \in UNION Range(buffer)
      BY <1>2, Zenon DEF AcceptedIsKept
    <2>2. CASE x \in sent
      BY <2>2, Zenon
    <2>3. CASE x \in UNION Range(buffer)
      <3>1. PICK c \in Conns : x \in buffer[c]
        BY <1>1, <2>3, KeptWhere, Zenon
      <3> QED
        BY <3>1, KeptWhere, Zenon
    <2> QED
      BY <2>1, <2>2, <2>3, Zenon
  <1>3. CASE x \notin accepted
    BY <1>3, KeptWhere, Zenon
  <1> QED
    BY <1>2, <1>3, Zenon

\* No step loses an accepted line: each one that empties a buffer has written it.
LEMMA KeptStep ==
    ASSUME OutputInv, [Next]_vars, TypeOK' PROVE AcceptedIsKept'
  <1>1. buffer' \in [Conns -> SUBSET Lines]
    BY Zenon DEF TypeOK
  <1>2. CASE UNCHANGED <<buffer, sent, accepted>>
    BY <1>2, Zenon DEF OutputInv, AcceptedIsKept
  <1>3. ASSUME NEW c \in Conns, Flush(c) \/ FlushClosed(c), UNCHANGED accepted PROVE AcceptedIsKept'
    BY <1>1, <1>3, FlushTypes, KeptFrame, Zenon DEF OutputInv
  <1>4. ASSUME NEW w \in Workers, Write(w) PROVE AcceptedIsKept'
    <2> DEFINE d == work[w].conn
               l == work[w].line
    <2>1. \/ UNCHANGED <<buffer, sent, accepted>>
          \/ buffer' = [buffer EXCEPT ![d] = @ \cup {l}] /\ sent' = sent /\ accepted' = accepted \cup {l}
          \/ buffer' = [buffer EXCEPT ![d] = {l}] /\ sent' = sent \cup buffer[d] /\ accepted' = accepted \cup {l}
      BY <1>4, Zenon DEF Write
    <2>2. d \in Conns /\ buffer \in [Conns -> SUBSET Lines]
      BY <1>4, Zenon DEF Write, At, OutputInv, InOwnPool, WorkersOwn, TypeOK, Holding
    <2> HIDE DEF d, l
    <2>3. CASE buffer' = [buffer EXCEPT ![d] = @ \cup {l}] /\ sent' = sent /\ accepted' = accepted \cup {l}
      <3>1. l \in buffer'[d] /\ \A c \in Conns : buffer[c] \subseteq buffer'[c]
        BY <2>2, <2>3, Zenon
      <3> QED
        BY <1>1, <2>2, <2>3, <3>1, KeptFrame, Zenon DEF OutputInv
    <2>4. CASE buffer' = [buffer EXCEPT ![d] = {l}] /\ sent' = sent \cup buffer[d] /\ accepted' = accepted \cup {l}
      <3>1. l \in buffer'[d] /\ \A c \in Conns : buffer[c] \subseteq buffer'[c] \cup sent'
        BY <2>2, <2>4, Zenon
      <3> QED
        BY <1>1, <2>2, <2>4, <3>1, KeptFrame, Zenon DEF OutputInv
    <2> QED
      BY <1>2, <2>1, <2>3, <2>4, Zenon
  <1>5. ASSUME NEW w \in Workers, Open(w) PROVE AcceptedIsKept'
    <2>1. UNCHANGED accepted /\ (UNCHANGED <<buffer, sent>> \/ Flush(Head(free[work[w].pool])))
      BY <1>5, Zenon DEF Open, sockets
    <2>2. Head(free[work[w].pool]) \in Conns
      <3>1. work[w].pool \in Pools /\ free[work[w].pool] # <<>>
        BY <1>5, ConnTypes DEF Open, At, OutputInv, InOwnPool, WorkersOwn, TypeOK, Pools
      <3>2. free[work[w].pool] \in Seq(Conns)
        BY <3>1, Zenon DEF OutputInv, TypeOK
      <3> QED
        BY <3>1, <3>2, HeadTailProperties, Zenon
    <2> QED
      BY <1>2, <1>3, <2>1, <2>2, Zenon
  <1>6. ASSUME NEW w \in Workers, WorkerStep(w) PROVE AcceptedIsKept'
    <2>1. CASE TakeLine(w) \/ make_pool(w) \/ Reopen(w) \/ OpenDestroyed(w) \/ Check(w)
      BY <1>2, <2>1, Zenon DEF TakeLine, make_pool, Reopen, OpenDestroyed, Check, sockets
    <2>2. CASE ResetConn(w) \/ Close(w) \/ CloseDestroyed(w)
      BY <1>2, <2>2, Zenon DEF ResetConn, Close, CloseDestroyed, sockets
    <2> QED
      BY <1>4, <1>5, <1>6, <2>1, <2>2, Zenon DEF WorkerStep
  <1>7. ASSUME NEW c \in Conns, periodicFlush(c) \/ periodicFlushEnds(c) \/ DeadlinePasses(c)
        PROVE  AcceptedIsKept'
    <2>1. UNCHANGED accepted /\ (UNCHANGED <<buffer, sent>> \/ Flush(c) \/ FlushClosed(c))
      BY <1>7, Zenon DEF periodicFlush, periodicFlushEnds, DeadlinePasses, Flush
    <2> QED
      BY <1>2, <1>3, <2>1, Zenon
  <1>8. CASE purgenode \/ FlushAll \/ DestroyAll
    <2>1. UNCHANGED accepted /\ (UNCHANGED <<buffer, sent>> \/ \E c \in Conns : Flush(c))
      BY <1>8, Zenon DEF purgenode, FlushAll, DestroyAll, sockets
    <2> QED
      BY <1>2, <1>3, <2>1, Zenon
  <1>9. CASE UNCHANGED vars
    BY <1>2, <1>9, Zenon DEF vars
  <1> QED
    BY <1>6, <1>7, <1>8, <1>9, Zenon DEF Next

-----------------------------------------------------------------------------

\* Every step of the workers, the flushers and a purge keeps the invariant.
LEMMA OutputStep == OutputInv /\ [Next]_vars => OutputInv'
  <1> SUFFICES ASSUME OutputInv, [Next]_vars PROVE OutputInv'
    OBVIOUS
  <1>1. ASSUME NEW w \in Workers, WorkerStep(w) PROVE Sound'
    BY <1>1, TakeLineStep, MakePoolStep, OpenStep, ReopenStep, OpenDestroyedStep, CheckStep,
       WriteStep, ResetConnStep, CloseStep, CloseDestroyedStep, Zenon DEF WorkerStep
  <1>2. ASSUME UNCHANGED vars PROVE Sound'
    <2>1. InOwnPool' /\ OnePlace'
      BY <1>2, NobodyMoves, Zenon DEF vars, OutputInv, InOwnPool
    <2>2. TypeOK'
      BY <1>2, Zenon DEF vars, OutputInv, TypeOK
    <2> QED
      BY <2>1, <2>2 DEF Sound
  <1>3. Sound'
    <2>1. CASE \E w \in Workers : WorkerStep(w)
      BY <1>1, <2>1, Zenon
    <2>2. CASE \E c \in Conns : periodicFlush(c) \/ periodicFlushEnds(c) \/ DeadlinePasses(c)
      BY <2>2, FlusherStep, Zenon
    <2>3. CASE purgenode \/ FlushAll \/ DestroyAll
      BY <2>3, PurgeStep, Zenon
    <2> QED
      BY <1>2, <2>1, <2>2, <2>3 DEF Next
  <1>4. AcceptedIsKept'
    BY <1>3, KeptStep, Zenon DEF Sound
  <1> QED
    BY <1>3, <1>4, Zenon DEF Sound, OutputInv

\* The invariant holds at all times.
LEMMA OutputHolds == Spec => []OutputInv
  BY OutputInit, OutputStep, PTL DEF Spec

\* A set in which any two members are the same has at most one.
LEMMA AtMostOne ==
    ASSUME NEW S, \A x, y \in S : x = y
    PROVE  (S = {} /\ Cardinality(S) = 0) \/ (S # {} /\ Cardinality(S) = 1)
  <1>1. S = {} \/ \E x : S = {x}
    OBVIOUS
  <1>2. CASE S = {}
    <2>1. Cardinality(S) = 0
      BY <1>2, FS_EmptySet, Zenon
    <2> QED
      BY <1>2, <2>1
  <1>3. CASE \E x : S = {x}
    <2>1. S # {} /\ Cardinality(S) = 1
      BY <1>3, FS_Singleton
    <2> QED
      BY <2>1
  <1> QED
    BY <1>1, <1>2, <1>3

\* At all times a connection is with one worker, or once in the channel of its
\* pool, or in neither, and in neither only after a purge: what Open, ResetConn
\* and the deferred Close of netpool.go keep for any number of workers and
\* connections, whichever dials and writes fail.
THEOREM ConnectionsAreNotShared == Spec => []ConnInOnePlace
  <1>1. OutputInv => ConnInOnePlace
    <2> SUFFICES ASSUME OutputInv, NEW c \in Conns
                 PROVE  LET n == Cardinality(Holders(c)) + Cardinality(Slots(c)) IN
                        n <= 1 /\ (c[1] <= made /\ purge.at = "no" => n = 1)
      BY Zenon DEF ConnInOnePlace
    <2> DEFINE h == Cardinality(Holders(c))
               s == Cardinality(Slots(c))
    <2>1. (Holders(c) = {} /\ h = 0) \/ (Holders(c) # {} /\ h = 1)
      BY AtMostOne, Zenon DEF OutputInv, OnePlace
    <2>2. (Slots(c) = {} /\ s = 0) \/ (Slots(c) # {} /\ s = 1)
      BY AtMostOne, Zenon DEF OutputInv, OnePlace
    <2>3. /\ Holders(c) = {} \/ Slots(c) = {}
          /\ c[1] <= made /\ purge.at = "no" => Holders(c) # {} \/ Slots(c) # {}
      BY Zenon DEF OutputInv, OnePlace
    <2> HIDE DEF h, s
    <2>4. h + s <= 1 /\ (c[1] <= made /\ purge.at = "no" => h + s = 1)
      BY <2>1, <2>2, <2>3
    <2> QED
      BY <2>4, Zenon DEF h, s
  <1> QED
    BY <1>1, OutputHolds, PTL

\* A line whose Write returned nil is in the buffer of a connection or written
\* to a socket, whatever flushes, dials and purges fail: no path of Flush,
\* Write, Open and DestroyAll empties a buffer that no socket has taken.
THEOREM AcceptedLinesAreKept == Spec => []AcceptedIsKept
  <1>1. OutputInv => AcceptedIsKept
    BY Zenon DEF OutputInv
  <1> QED
    BY <1>1, OutputHolds, PTL
=============================================================================
