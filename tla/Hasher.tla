------------------------------- MODULE Hasher -------------------------------
(***************************************************************************)
(* ConstHasher: which backends a key goes to.  Lines look their key up in  *)
(* an LRU cache and, on a miss, on the consistent-hashing ring, while an   *)
(* operator adds and purges backends over HTTP.  The ring is guarded by a  *)
(* readers-writer lock, the cache and the server pool by a mutex each, the *)
(* two maps between hash keys and servers by nothing.                      *)
(*                                                                         *)
(* The ring holds hash keys; the configuration gives every server its own, *)
(* addnode takes any.  The order in which a key meets them on the ring is  *)
(* the constant Order.  The health check is left out: it never takes a     *)
(* server out, since gotTestResponse adds 0 to the count of failures.      *)
(***************************************************************************)
EXTENDS Integers, Sequences, FiniteSets, Functions

CONSTANTS
    Servers, HashKeys,
    Configured,        \* the hash keys of the configuration's servers
    Keys, Order,       \* keys, and the hash keys in the order each key meets them
    Options,           \* the possible pairs of Replicas, the num of GetN, and of
                       \* HashReplicas, the places of a hash key on the ring
    Capacity,          \* of the cache
    Clients, Admins,   \* goroutines that route lines, or serve addnode, purgenode
    MaxCalls,          \* bound: calls of addnode and purgenode
    Nowhere, NoAdmin   \* the empty string; no writer on the ring

Started == DOMAIN Configured
Hashes == HashKeys \cup {Nowhere}
Backends == Servers \cup {Nowhere}

ASSUME HasherAssumption ==
    /\ IsFiniteSet(Servers) /\ IsFiniteSet(HashKeys) /\ Servers # {} /\ Keys # {}
    /\ Started \subseteq Servers /\ Configured \in [Started -> HashKeys]
    /\ \A s, t \in Started : Configured[s] = Configured[t] => s = t
    /\ Options \subseteq (1..Cardinality(Started)) \X (Nat \ {0})
    /\ {Capacity, MaxCalls} \subseteq Nat
    /\ Nowhere \notin Servers \cup HashKeys /\ NoAdmin \notin Admins
    /\ Order \in [Keys -> Seq(Hashes)] /\ \A k \in Keys : Hashes = Range(Order[k])

VARIABLES
    num, vnodes, \* server.Replicas and HashReplicas
    ring,        \* the members of the ring
    count,       \* the field count of the ring
    servers,     \* how often ServerPool.Servers lists each server
    HashKeyToServer, ServerToHashkey,  \* Nowhere for what is not in the map
    cache,       \* the list of the LRU cache, most recent first
    size,        \* its size field
    lookup,      \* each client's GetN
    admin,       \* each operator's call
    writer,      \* who holds or waits for the ring's write lock
    calls,
    crashed,     \* "concurrent map read and map write"
    late,        \* history: clients that read the ring before its last change
    tainted,     \* history: keys such clients have cached since the last Clear
    overlapped,  \* history: two operators' calls have overlapped
    shared       \* history: addnode gave a server the hash key of another

options == <<num, vnodes>>
circle == <<ring, count>>
maps == <<HashKeyToServer, ServerToHashkey>>
router == <<lookup, cache, size>>
history == <<late, tainted, overlapped, shared>>
vars == <<num, vnodes, ring, count, servers, HashKeyToServer, ServerToHashkey, cache, size,
          lookup, admin, writer, calls, crashed, late, tainted, overlapped, shared>>

NoLookup == [at |-> "idle", key |-> CHOOSE k \in Keys : TRUE, val |-> <<>>]
NoCall == [at |-> "idle", op |-> "add", server |-> CHOOSE s \in Servers : TRUE, hash |-> Nowhere]

Init ==
    /\ \E o \in Options : num = o[1] /\ vnodes = o[2]
    /\ ring = Range(Configured) /\ count = Cardinality(Started)
    /\ servers = [s \in Servers |-> IF s \in Started THEN 1 ELSE 0]
    /\ HashKeyToServer = [h \in Hashes |->
          IF h \in Range(Configured) THEN CHOOSE s \in Started : Configured[s] = h ELSE Nowhere]
    /\ ServerToHashkey = [s \in Servers |-> IF s \in Started THEN Configured[s] ELSE Nowhere]
    /\ cache = <<>> /\ size = 0
    /\ lookup = [c \in Clients |-> NoLookup]
    /\ admin = [a \in Admins |-> NoCall]
    /\ writer = NoAdmin /\ calls = 0 /\ crashed = FALSE
    /\ late = {} /\ tainted = {} /\ overlapped = FALSE /\ shared = FALSE

-----------------------------------------------------------------------------
(* The ring and the LRU cache.                                              *)

\* How many members key k meets in the first j places from its own on.
Met(k, j) == Cardinality({Order[k][i] : i \in 1..j} \cap ring)

\* Consistent.GetN: the first members from the key on, each once; as many as
\* it was asked for or the ring counts, or else all there are.
Wanted == IF num < count THEN num ELSE count
Enough == Wanted \in 1..Cardinality(ring)
Routed == IF num = 1 /\ ring # {} THEN 1 ELSE IF Enough THEN Wanted ELSE Cardinality(ring)
Route(k) ==
    [n \in 1..Routed |->
        Order[k][CHOOSE j \in DOMAIN Order[k] : Met(k, j) = n /\ Met(k, j - 1) = n - 1]]

\* HashKeyToServer: a key that is not there gives the empty string.
Translate(val) == [i \in DOMAIN val |-> HashKeyToServer[val[i]]]

\* The list of the cache.
Remove(list, i) == SubSeq(list, 1, i - 1) \o SubSeq(list, i + 1, Len(list))
Back(list) == list[Len(list)]

\* The table of the cache, which has at most one element of the list for a key.
Entries(k) == {i \in DOMAIN cache : cache[i].key = k}
element(k) == CHOOSE i \in Entries(k) : TRUE
Without(k) == IF Entries(k) = {} THEN cache ELSE Remove(cache, element(k))
OldSize(k) == IF Entries(k) = {} THEN 0 ELSE Len(cache[element(k)].val)

\* Mutant: room is made before the new entry is counted.
SetFirstChecks(k, v) ==
    LET evict == size > Capacity
        old == IF evict THEN Remove(Without(k), Len(Without(k))) ELSE Without(k) IN
    /\ cache' = <<[key |-> k, val |-> v]>> \o old
    /\ size' = size + Len(v) - OldSize(k) - (IF evict THEN Len(Back(Without(k)).val) ELSE 0)

\* Set updates the entry or adds one, moves it to the front, and then
\* checkCapacity evicts at most one entry from the back.
Set(k, v) ==
    LET list == <<[key |-> k, val |-> v]>> \o Without(k)
        total == size + Len(v) - OldSize(k) IN
    IF total > Capacity
    THEN cache' = Remove(list, Len(list)) /\ size' = total - Len(Back(list).val)
    ELSE cache' = list /\ size' = total

-----------------------------------------------------------------------------
(* GetN for a line.                                                         *)

CacheGet(c, k) ==
    /\ ~crashed /\ lookup[c].at = "idle"
    /\ IF Entries(k) # {}
       THEN /\ cache' = <<cache[element(k)]>> \o Without(k)
            /\ UNCHANGED lookup
       ELSE /\ lookup' = [lookup EXCEPT ![c] = [at |-> "ring", key |-> k, val |-> <<>>]]
            /\ UNCHANGED cache
    /\ UNCHANGED <<options, circle, servers, maps, size, admin, writer, calls, crashed, history>>

Reads(c) == lookup' = [lookup EXCEPT ![c].at = "set", ![c].val = Route(lookup[c].key)]

\* A circle with members is left to Get if one is asked for or has only one place.
Single == ring # {} /\ (num = 1 \/ (vnodes = 1 /\ Cardinality(ring) = 1))

\* Consistent.GetN takes the read lock, which waits for a waiting writer; Get
\* takes it again.  A walk that cannot meet as many members as it wants ends
\* where it began, but from place 0 it never does: its counter is set to 0 in the
\* loop and incremented before the test.  Which place is the key's is for the
\* hash function to say, so both are possible.
GetN(c) ==
    /\ ~crashed /\ lookup[c].at = "ring" /\ writer = NoAdmin
    /\ \/ Single /\ lookup' = [lookup EXCEPT ![c].at = "inner"]
       \/ ~Single /\ Reads(c)
       \/ ~Single /\ ring # {} /\ ~Enough /\ lookup' = [lookup EXCEPT ![c].at = "spin"]
    /\ UNCHANGED <<options, circle, servers, maps, cache, size, admin, writer, calls,
                   crashed, history>>

Get(c) ==
    /\ ~crashed /\ lookup[c].at = "inner" /\ writer = NoAdmin
    /\ Reads(c)
    /\ UNCHANGED <<options, circle, servers, maps, cache, size, admin, writer, calls,
                   crashed, history>>

\* The real servers are looked up and cached, an empty list too.
CacheSet(c) ==
    LET k == lookup[c].key IN
    /\ ~crashed /\ lookup[c].at = "set"
    /\ Set(k, Translate(lookup[c].val))
    /\ lookup' = [lookup EXCEPT ![c] = NoLookup]
    /\ late' = late \ {c}
    /\ tainted' = IF c \in late THEN tainted \cup {k} ELSE tainted
    /\ UNCHANGED <<options, circle, servers, maps, admin, writer, calls, crashed, overlapped,
                   shared>>

-----------------------------------------------------------------------------
(* addnode and purgenode.                                                   *)

Busy(a) == admin[a].at # "idle"
Goes(a, at) == admin' = [admin EXCEPT ![a].at = at]
\* The mutex of the server pool, which AddServer and PurgeServer hold.
mu == \E a \in Admins : admin[a].at \in {"ring", "clear"}

\* The call op with server s, and for addnode the hash key h.
Starts(a, op, s, h) ==
    /\ ~crashed /\ ~Busy(a) /\ calls < MaxCalls
    /\ (op = "add") = (ServerToHashkey[s] = Nowhere)
    /\ calls' = calls + 1
    /\ admin' = [admin EXCEPT ![a] = [at |-> IF op = "add" THEN "xref" ELSE "pool",
                                      op |-> op, server |-> s, hash |-> h]]
    /\ overlapped' = (overlapped \/ \E b \in Admins : Busy(b))
    /\ UNCHANGED <<options, circle, servers, router, writer, crashed, late, tainted, shared>>

Drops(s) ==
    /\ HashKeyToServer' = [HashKeyToServer EXCEPT ![ServerToHashkey[s]] = Nowhere]
    /\ ServerToHashkey' = [ServerToHashkey EXCEPT ![s] = Nowhere]

\* Mutant: the references of a purged server are dropped at once.
BeginDropsXref(a, op, s, h) ==
    /\ Starts(a, op, s, h)
    /\ IF op = "purge" THEN Drops(s) ELSE UNCHANGED maps

\* AddServer returns if the server is there, PurgeServer if it is not.
Begin(a, op, s, h) == Starts(a, op, s, h) /\ UNCHANGED maps

\* The maps are written: first in AddServer, last in PurgeServer.
WriteXref(a) ==
    LET s == admin[a].server
        h == admin[a].hash IN
    /\ ~crashed /\ admin[a].at = "xref"
    /\ \/ /\ admin[a].op = "add"
          /\ ServerToHashkey' = [ServerToHashkey EXCEPT ![s] = h]
          /\ HashKeyToServer' = [HashKeyToServer EXCEPT ![h] = s]
          /\ shared' = (shared \/ h \in Range(ServerToHashkey))
          /\ Goes(a, "pool")
       \/ /\ admin[a].op = "purge"
          /\ Drops(s)
          /\ admin' = [admin EXCEPT ![a] = NoCall]
          /\ UNCHANGED shared
    /\ UNCHANGED <<options, circle, servers, router, writer, calls, crashed, late, tainted,
                   overlapped>>

\* onServerUp or onServerDown, which looks the hash key up and waits for the
\* ring's write lock.
Notify(a) ==
    /\ admin' = [admin EXCEPT ![a].at = "ring", ![a].hash = ServerToHashkey[admin[a].server]]
    /\ writer' = a

\* The pool's method takes the mutex and tells the hasher.  A server that is not
\* in the pool's list is not taken off the ring.
LockPool(a) ==
    /\ ~crashed /\ admin[a].at = "pool" /\ ~mu
    /\ IF admin[a].op = "purge" /\ servers[admin[a].server] = 0
       THEN Goes(a, "xref") /\ UNCHANGED writer
       ELSE Notify(a)
    /\ UNCHANGED <<options, circle, servers, maps, router, calls, crashed, history>>

Readers == {c \in Clients : lookup[c].at \in {"inner", "spin"}}

\* Add and Remove of the ring: count takes no notice of what was there.
Changes(a) ==
    IF admin[a].op = "add"
    THEN ring' = ring \cup {admin[a].hash} /\ count' = count + 1
    ELSE ring' = ring \ {admin[a].hash} /\ count' = count - 1

\* Mutant: taking the last member off the ring returns without unlocking.
ChangeRingKeepsLock(a) ==
    /\ ~crashed /\ admin[a].at = "ring" /\ Readers = {}
    /\ Changes(a)
    /\ writer' = IF ring' = {} THEN a ELSE NoAdmin
    /\ Goes(a, "clear")
    /\ late' = {c \in Clients : lookup[c].at = "set"}
    /\ UNCHANGED <<options, servers, maps, router, calls, crashed, tainted, overlapped, shared>>

\* The write lock is granted when no reader is left.
ChangeRing(a) ==
    /\ ~crashed /\ admin[a].at = "ring" /\ Readers = {}
    /\ Changes(a)
    /\ writer' = NoAdmin
    /\ Goes(a, "clear")
    /\ late' = {c \in Clients : lookup[c].at = "set"}
    /\ UNCHANGED <<options, servers, maps, router, calls, crashed, tainted, overlapped, shared>>

\* Then the pool's list is changed.  A server that two overlapping calls have
\* listed twice is taken off the ring once for each.
ChangeList(a) ==
    LET s == admin[a].server IN
    \/ /\ admin[a].op = "add"
       /\ servers' = [servers EXCEPT ![s] = @ + 1]
       /\ admin' = [admin EXCEPT ![a] = NoCall]
       /\ UNCHANGED writer
    \/ /\ admin[a].op = "purge"
       /\ servers' = [servers EXCEPT ![s] = @ - 1]
       /\ IF servers[s] > 1 THEN Notify(a) ELSE Goes(a, "xref") /\ UNCHANGED writer

\* Mutant: a server that comes up leaves the cache alone.
ClearOnDown(a) ==
    /\ ~crashed /\ admin[a].at = "clear"
    /\ IF admin[a].op = "add"
       THEN UNCHANGED <<cache, size, tainted>>
       ELSE cache' = <<>> /\ size' = 0 /\ tainted' = {}
    /\ ChangeList(a)
    /\ UNCHANGED <<options, circle, maps, lookup, calls, crashed, late, overlapped, shared>>

\* "evil as this is we must clear the cache".
Clear(a) ==
    /\ ~crashed /\ admin[a].at = "clear"
    /\ cache' = <<>> /\ size' = 0 /\ tainted' = {}
    /\ ChangeList(a)
    /\ UNCHANGED <<options, circle, maps, lookup, calls, crashed, late, overlapped, shared>>

\* The runtime may notice that a map is read or written while it is written.
ConcurrentMap ==
    /\ ~crashed
    /\ \E a \in Admins :
          /\ admin[a].at = "xref"
          /\ \/ \E c \in Clients : lookup[c].at = "set" /\ lookup[c].val # <<>>
             \/ \E b \in Admins \ {a} : Busy(b) /\ admin[b].at # "ring"
    /\ crashed' = TRUE
    /\ UNCHANGED <<options, circle, servers, maps, router, admin, writer, calls, history>>

-----------------------------------------------------------------------------

LookupStep(c) == GetN(c) \/ Get(c) \/ CacheSet(c)
AdminStep(a) == WriteXref(a) \/ LockPool(a) \/ ChangeRing(a) \/ Clear(a)

Next ==
    \/ \E c \in Clients : LookupStep(c) \/ \E k \in Keys : CacheGet(c, k)
    \/ \E a \in Admins :
          \/ AdminStep(a)
          \/ \E s \in Servers : Begin(a, "purge", s, Nowhere) \/ \E h \in HashKeys : Begin(a, "add", s, h)
    \/ ConcurrentMap

Spec == Init /\ [][Next]_vars

\* A goroutine that has begun a lookup or a call is scheduled; a waiting writer
\* keeps new readers out, so neither side can starve the other.
LiveSpec ==
    /\ Spec
    /\ \A c \in Clients : WF_vars(LookupStep(c))
    /\ \A a \in Admins : WF_vars(AdminStep(a))

-----------------------------------------------------------------------------
(* Properties.                                                              *)

\* Between the change of the ring, or of the server of a hash key that is on it,
\* and the Clear that follows.
Changing == \E a \in Admins : admin[a].at = "clear"
Remapping ==
    \E a \in Admins : /\ admin[a].op = "add" /\ admin[a].at \in {"pool", "ring"}
                      /\ ServerToHashkey[admin[a].server] \in ring

\* What is cached is where the ring and the maps send the key now, however
\* lookups and calls interleave, unless the entry was cached by a lookup that had
\* read the ring before it changed: onServerUp and onServerDown change the ring
\* first and clear the cache then.
OnlyLateEntriesAreStale ==
    ~Changing /\ ~Remapping /\ ~overlapped =>
        \A i \in DOMAIN cache :
            cache[i].key \in tainted \/ cache[i].val = Translate(Route(cache[i].key))

\* No key has two elements in the list; the size field counts the backends they
\* list, and does not exceed the capacity, though checkCapacity evicts only one
\* element: the lists have one length, but for those of late lookups and while
\* the ring changes.
Listed == UNION {{e.key} \X DOMAIN e.val : e \in Range(cache)}
CacheWithinCapacity ==
    /\ \A i, j \in DOMAIN cache : cache[i].key = cache[j].key => i = j
    /\ size = Cardinality(Listed)
    /\ (~Changing /\ tainted = {}) => size <= Capacity

\* Once an operator's calls are over, if no two overlapped: the pool lists each
\* server of the maps once, and count counts them; the ring has the hash keys of
\* the maps, and each leads to a server whose key it is; and every listed server
\* can be reached over the ring, unless addnode has given two the same hash key.
\* PurgeServer must "purge from server lis first then remove the xrefs".
Mapped == {s \in Servers : ServerToHashkey[s] # Nowhere}
RingMatchesServers ==
    (\A a \in Admins : ~Busy(a)) /\ ~overlapped =>
        /\ servers = [s \in Servers |-> IF s \in Mapped THEN 1 ELSE 0]
        /\ count = Cardinality(Mapped)
        /\ ring = {h \in Hashes : HashKeyToServer[h] # Nowhere}
        /\ \A h \in ring : HashKeyToServer[h] \in Mapped /\ ServerToHashkey[HashKeyToServer[h]] = h
        /\ ~shared => \A s \in Mapped : ServerToHashkey[s] \in ring /\ HashKeyToServer[ServerToHashkey[s]] = s

\* A reader that waits for a writer that waits for this reader.
Wedged == writer # NoAdmin /\ Readers # {}

\* A lookup and an operator's call end, unless a writer came between the two
\* read locks that GetN takes for one server, or waits for a walk that does not
\* end.
CallsEnd ==
    /\ \A c \in Clients :
          lookup[c].at # "idle" ~> lookup[c].at \in {"idle", "spin"} \/ Wedged \/ crashed
    /\ \A a \in Admins : Busy(a) ~> ~Busy(a) \/ Wedged \/ crashed

\* "add a new hasher node to a server dynamically": a node that addnode begins
\* to add gets onto the ring.
NodeIsAdded ==
    \A a \in Admins : Busy(a) /\ admin[a].op = "add" ~> ~Busy(a) \/ crashed

\* "Hashkeys need to be unique" in the configuration, and addnode does not ask:
\* the hash key of a listed server leads to it.  (Not so: a server that is added
\* with the hash key of another takes its place, and a purge of either takes both
\* off the ring.)
HashkeysAreUnique ==
    (\A a \in Admins : ~Busy(a)) /\ ~overlapped =>
        \A s \in Mapped : HashKeyToServer[ServerToHashkey[s]] = s

\* GetN "returns the N closest distinct elements": its walk ends.  (Not when a
\* hash key is on the ring once and counted twice.)
WalkEnds == \A c \in Clients : lookup[c].at # "spin"
=============================================================================
