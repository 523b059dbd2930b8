------------------------------- MODULE Output -------------------------------
(***************************************************************************)
(* The way a line leaves the relay: a dispatch worker runs PoolWriter.Write*)
(* for one line, takes a connection from the buffered pool of the backend, *)
(* writes into the connection's buffer and puts the connection back.  Each *)
(* connection has a goroutine that flushes its buffer, and an operator may *)
(* purge the backend, which destroys its pool while workers use it.        *)
(*                                                                         *)
(* One backend.  The dispatcher is module Dispatch: here a worker takes a  *)
(* line and keeps retrying it, as its backoff and requeueing do.  Dials and*)
(* socket writes are external: each one may fail, MaxFaults times in all.  *)
(***************************************************************************)
EXTENDS Naturals, Sequences, FiniteSets, Functions

CONSTANTS
    Lines,
    Workers,         \* the workers of the output dispatcher
    MaxConnections,  \* the connections of a pool
    BufferSize,      \* how many lines fit in a write buffer
    MaxPools,        \* bound: how often the pool is made
    MaxFaults,       \* bound: failing dials and writes
    NoLine

ASSUME OutputAssumption ==
    /\ {MaxConnections, BufferSize, MaxPools} \subseteq Nat \ {0}
    /\ MaxFaults \in Nat
    /\ NoLine \notin Lines

Pools == 1..MaxPools
NoPool == 0
Conns == Pools \X (1..MaxConnections)
NoConn == <<0, 0>>

VARIABLES
    todo,      \* lines no worker has taken
    outpool,   \* Outpool[server]: the pool in use, or NoPool
    made,      \* how many pools have been made
    free,      \* the channel of each pool
    closed,    \* pools whose channel is closed, and whose field free is nil
    conn,      \* the socket of each connection: "nil", "up", or "shut" (closed
               \* under it)
    buffer,    \* writebuffer: the lines in it
    deadline,  \* the write deadline of the socket: "none" yet, "ahead" or "past"
    flusher,   \* who holds writeLock in Flush: "no", or the goroutine with a
               \* socket that is "live" or that Open has closed meanwhile
    work,      \* each worker: where it is, its line, pool and connection
    purge,     \* purgenode: where it is, its pool and loop counter
    accepted,  \* lines whose Write returned nil
    sent,      \* lines a socket write has taken
    crashed,   \* a goroutine panicked
    faults

pools == <<outpool, made>>
sockets == <<conn, buffer, deadline, flusher, sent, faults>>
vars == <<todo, outpool, made, free, closed, conn, buffer, deadline, flusher, work,
          purge, accepted, sent, crashed, faults>>

Idle == [at |-> "idle", line |-> NoLine, pool |-> NoPool, conn |-> NoConn]

Init ==
    /\ todo = Lines /\ outpool = NoPool /\ made = 0
    /\ free = [p \in Pools |-> <<>>] /\ closed = {}
    /\ conn = [c \in Conns |-> "nil"] /\ buffer = [c \in Conns |-> {}]
    /\ deadline = [c \in Conns |-> "none"] /\ flusher = [c \in Conns |-> "no"]
    /\ work = [w \in Workers |-> Idle]
    /\ purge = [at |-> "no", pool |-> NoPool, i |-> 0]
    /\ accepted = {} /\ sent = {} /\ crashed = FALSE /\ faults = 0

Fault == faults < MaxFaults /\ faults' = faults + 1
At(w, at) == ~crashed /\ work[w].at = at
Goes(w, at) == work' = [work EXCEPT ![w].at = at]

\* Close of the socket: a flush that holds it is left with a closed socket.
Stale(c) == IF flusher[c] = "live" THEN [flusher EXCEPT ![c] = "stale"] ELSE flusher

-----------------------------------------------------------------------------
(* BufferedNetpoolConn.Flush, under writeLock.                              *)

NothingToFlush(c) ==
    /\ buffer[c] = {} \/ conn[c] = "nil"
    /\ UNCHANGED <<conn, buffer, sent, faults>>

FlushWrites(c) ==
    /\ buffer[c] # {} /\ conn[c] = "up" /\ deadline[c] # "past"
    /\ sent' = sent \cup buffer[c]
    /\ buffer' = [buffer EXCEPT ![c] = {}]
    /\ UNCHANGED <<conn, faults>>

\* Once the deadline has passed every write times out, until SetWriteDeadline.  A
\* timeout keeps the connection and the whole buffer: the part of it that was
\* written is written again.
FlushTimesOut(c) ==
    /\ buffer[c] # {} /\ conn[c] = "up" /\ deadline[c] = "past"
    /\ UNCHANGED <<conn, buffer, sent, faults>>

\* Mutant: the buffer is emptied whatever the write returned.
FlushErrorEmpties(c) ==
    /\ buffer[c] # {} /\ conn[c] = "up" /\ deadline[c] # "past" /\ Fault
    /\ conn' = [conn EXCEPT ![c] = "nil"]
    /\ buffer' = [buffer EXCEPT ![c] = {}]
    /\ UNCHANGED sent

\* Any other error closes the connection and keeps the buffer.
FlushError(c) ==
    /\ buffer[c] # {} /\ conn[c] = "up" /\ deadline[c] # "past" /\ Fault
    /\ conn' = [conn EXCEPT ![c] = "nil"]
    /\ UNCHANGED <<buffer, sent>>

Flush(c) == NothingToFlush(c) \/ FlushWrites(c) \/ FlushTimesOut(c) \/ FlushError(c)

\* Mutant: only a buffer that has outgrown its size is flushed.
periodicFlushFull(c) ==
    /\ ~crashed /\ flusher[c] = "no"
    /\ Cardinality(buffer[c]) > BufferSize /\ conn[c] # "nil"
    /\ flusher' = [flusher EXCEPT ![c] = "live"]
    /\ UNCHANGED <<todo, pools, free, closed, conn, buffer, deadline, work,
                   purge, accepted, sent, crashed, faults>>

\* periodicFlush takes the lock and reads the connection ...
periodicFlush(c) ==
    /\ ~crashed /\ flusher[c] = "no"
    /\ buffer[c] # {} /\ conn[c] # "nil"
    /\ flusher' = [flusher EXCEPT ![c] = "live"]
    /\ UNCHANGED <<todo, pools, free, closed, conn, buffer, deadline, work,
                   purge, accepted, sent, crashed, faults>>

\* ... and then writes.  A socket that was closed in between is an error, and
\* SetConn(nil) drops the connection that Open has made meanwhile.
FlushClosed(c) ==
    /\ flusher[c] = "stale" \/ conn[c] = "shut"
    /\ conn' = [conn EXCEPT ![c] = "nil"]
    /\ UNCHANGED <<buffer, sent, faults>>

periodicFlushEnds(c) ==
    /\ ~crashed /\ flusher[c] # "no"
    /\ \/ flusher[c] = "live" /\ (FlushWrites(c) \/ FlushTimesOut(c) \/ FlushError(c))
       \/ FlushClosed(c)
    /\ flusher' = [flusher EXCEPT ![c] = "no"]
    /\ UNCHANGED <<todo, pools, free, closed, deadline, work, purge, accepted, crashed>>

\* Time: WriteTimeout after the last SetWriteDeadline.  That it runs out on the
\* worker that has set it, on its way to the write, is a fault of the peer.
DeadlinePasses(c) ==
    /\ ~crashed /\ deadline[c] = "ahead"
    /\ deadline' = [deadline EXCEPT ![c] = "past"]
    /\ IF \E w \in Workers : At(w, "write") /\ work[w].conn = c THEN Fault ELSE UNCHANGED faults
    /\ UNCHANGED <<todo, pools, free, closed, conn, buffer, flusher, work, purge,
                   accepted, sent, crashed>>

-----------------------------------------------------------------------------
(* PoolWriter.Write, run by a dispatch worker.                              *)

TakeLine(w) ==
    /\ At(w, "idle")
    /\ \E l \in todo :
          /\ todo' = todo \ {l}
          /\ work' = [work EXCEPT ![w] = [Idle EXCEPT !.at = "make", !.line = l]]
    /\ UNCHANGED <<pools, free, closed, sockets, purge, accepted, crashed>>

\* make_pool, under poolmu, with InitPool: every connection is dialled.
make_pool(w) ==
    /\ At(w, "make")
    /\ \/ /\ outpool # NoPool
          /\ work' = [work EXCEPT ![w].at = "open", ![w].pool = outpool]
          /\ UNCHANGED <<pools, free, conn, faults>>
       \/ /\ outpool = NoPool /\ made < MaxPools
          /\ made' = made + 1 /\ outpool' = made + 1
          /\ free' = [free EXCEPT ![made + 1] = [i \in 1..MaxConnections |-> <<made + 1, i>>]]
          /\ conn' = [c \in Conns |-> IF c[1] = made + 1 THEN "up" ELSE conn[c]]
          /\ work' = [work EXCEPT ![w].at = "open", ![w].pool = made + 1]
          /\ UNCHANGED faults
       \/ outpool = NoPool /\ Fault /\ UNCHANGED <<pools, free, conn, work>>
    /\ UNCHANGED <<todo, closed, buffer, deadline, flusher, purge, accepted, sent, crashed>>

\* Netpool.Open waits for a connection.  One without a socket, or with an old
\* one, is flushed and dialled again.
Open(w) ==
    LET p == work[w].pool
        c == Head(free[p]) IN
    /\ At(w, "open") /\ free[p] # <<>>
    /\ free' = [free EXCEPT ![p] = Tail(@)]
    /\ \/ /\ conn[c] # "nil"
          /\ work' = [work EXCEPT ![w].at = "check", ![w].conn = c]
          /\ UNCHANGED sockets
       \/ /\ flusher[c] = "no" /\ Flush(c)
          /\ work' = [work EXCEPT ![w].at = "reopen", ![w].conn = c]
          /\ UNCHANGED <<deadline, flusher>>
    /\ UNCHANGED <<todo, pools, closed, purge, accepted, crashed>>

Dial(c) ==
    /\ \/ conn' = [conn EXCEPT ![c] = "up"] /\ UNCHANGED faults
       \/ conn' = [conn EXCEPT ![c] = "nil"] /\ Fault
    /\ deadline' = [deadline EXCEPT ![c] = "none"]

\* A dial that fails still leaves the connection with the worker, which will
\* put it back.
Reopen(w) ==
    LET c == work[w].conn IN
    /\ At(w, "reopen")
    /\ Dial(c)
    /\ flusher' = Stale(c)
    /\ Goes(w, "check")
    /\ UNCHANGED <<todo, pools, free, closed, buffer, purge, accepted, sent, crashed>>

\* A pool that was destroyed after make_pool found it: the field free is nil,
\* and the deferred Close waits for ever on a nil channel; a receive that had
\* begun gets no connection and panics.
OpenDestroyed(w) ==
    /\ At(w, "open") /\ work[w].pool \in closed
    /\ \/ Goes(w, "stuck") /\ UNCHANGED crashed
       \/ free[work[w].pool] = <<>> /\ crashed' = TRUE /\ UNCHANGED work
    /\ UNCHANGED <<todo, pools, free, closed, sockets, purge, accepted>>

Check(w) ==
    LET c == work[w].conn IN
    /\ At(w, "check")
    /\ \/ conn[c] = "nil" /\ Goes(w, "failed") /\ UNCHANGED deadline
       \/ conn[c] # "nil" /\ Goes(w, "write") /\ deadline' = [deadline EXCEPT ![c] = "ahead"]
    /\ UNCHANGED <<todo, pools, free, closed, conn, buffer, flusher, purge, accepted, sent,
                   crashed, faults>>

Fits(c) == Cardinality(buffer[c]) + 1 <= BufferSize

\* BufferedNetpoolConn.Write: a full buffer is written first.
Write(w) ==
    LET c == work[w].conn
        l == work[w].line IN
    /\ At(w, "write") /\ flusher[c] = "no"
    /\ \/ /\ Fits(c) \/ conn[c] = "nil"
          /\ buffer' = [buffer EXCEPT ![c] = @ \cup {l}]
          /\ accepted' = accepted \cup {l}
          /\ Goes(w, "done")
          /\ UNCHANGED <<conn, sent, faults>>
       \/ /\ ~Fits(c) /\ conn[c] = "up" /\ deadline[c] # "past"
          /\ sent' = sent \cup buffer[c]
          /\ buffer' = [buffer EXCEPT ![c] = {l}]
          /\ accepted' = accepted \cup {l}
          /\ Goes(w, "done")
          /\ UNCHANGED <<conn, faults>>
       \/ /\ ~Fits(c) /\ conn[c] = "up"
          /\ IF deadline[c] = "past" THEN UNCHANGED faults ELSE Fault
          /\ conn' = [conn EXCEPT ![c] = "nil"]
          /\ Goes(w, "reset")
          /\ UNCHANGED <<buffer, sent, accepted>>
    /\ UNCHANGED <<todo, pools, free, closed, deadline, flusher, purge, crashed>>

\* Mutant: ResetConn puts the connection back itself.
ResetConnPutsBack(w) ==
    /\ At(w, "reset")
    /\ Dial(work[w].conn)
    /\ free' = [free EXCEPT ![work[w].pool] = Append(@, work[w].conn)]
    /\ Goes(w, "failed")
    /\ UNCHANGED <<todo, pools, closed, buffer, flusher, purge, accepted, sent, crashed>>

\* The failed write has already left the connection without a socket.
ResetConn(w) ==
    /\ At(w, "reset")
    /\ Dial(work[w].conn)
    /\ Goes(w, "failed")
    /\ UNCHANGED <<todo, pools, free, closed, buffer, flusher, purge, accepted, sent, crashed>>

\* What the deferred Close leaves the worker with: no line, or the same again.
After(w) == IF work[w].at = "done" THEN Idle ELSE [Idle EXCEPT !.at = "make", !.line = work[w].line]

\* Mutant: only a successful write puts the connection back.
CloseWhenSent(w) ==
    LET p == work[w].pool IN
    /\ ~crashed /\ work[w].at \in {"done", "failed"} /\ p \notin closed
    /\ free' = [free EXCEPT ![p] = IF work[w].at = "done" THEN Append(@, work[w].conn) ELSE @]
    /\ work' = [work EXCEPT ![w] = After(w)]
    /\ UNCHANGED <<todo, pools, closed, sockets, purge, accepted, crashed>>

Close(w) ==
    LET p == work[w].pool IN
    /\ ~crashed /\ work[w].at \in {"done", "failed"} /\ p \notin closed
    /\ free' = [free EXCEPT ![p] = Append(@, work[w].conn)]
    /\ work' = [work EXCEPT ![w] = After(w)]
    /\ UNCHANGED <<todo, pools, closed, sockets, purge, accepted, crashed>>

\* The channel is nil, or was closed before the send.
CloseDestroyed(w) ==
    /\ ~crashed /\ work[w].at \in {"done", "failed"} /\ work[w].pool \in closed
    /\ \/ Goes(w, "stuck") /\ UNCHANGED crashed
       \/ crashed' = TRUE /\ UNCHANGED work
    /\ UNCHANGED <<todo, pools, free, closed, sockets, purge, accepted>>

-----------------------------------------------------------------------------
(* purgenode: BufferedNetpool.DestroyAll, then Netpool.DestroyAll, then the *)
(* entry of Outpool is deleted.  Both loops compare a growing counter with  *)
(* a shrinking channel, and leave connections behind.                       *)

Purging(at) == ~crashed /\ purge.at = at
More == purge.i < Len(free[purge.pool])
Pops(c) ==
    /\ More
    /\ c = Head(free[purge.pool])
    /\ free' = [free EXCEPT ![purge.pool] = Tail(@)]

purgenode ==
    /\ Purging("no") /\ outpool # NoPool
    /\ purge' = [at |-> "flush", pool |-> outpool, i |-> 0]
    /\ UNCHANGED <<todo, pools, free, closed, sockets, work, accepted, crashed>>

FlushAll ==
    /\ Purging("flush")
    /\ \/ \E c \in Conns :
             /\ Pops(c) /\ flusher[c] = "no" /\ Flush(c)
             /\ purge' = [purge EXCEPT !.i = @ + 1]
             /\ UNCHANGED <<deadline, flusher>>
       \/ /\ ~More
          /\ purge' = [purge EXCEPT !.at = "close", !.i = 0]
          /\ UNCHANGED <<free, sockets>>
    /\ UNCHANGED <<todo, pools, closed, work, accepted, crashed>>

\* A connection without a socket makes Conn().Close() panic: net/http recovers,
\* and the pool stays in Outpool with the connections that are left.
DestroyAll ==
    /\ Purging("close")
    /\ \/ \E c \in Conns :
             /\ Pops(c)
             /\ IF conn[c] = "nil"
                THEN purge' = [purge EXCEPT !.at = "panicked"] /\ UNCHANGED conn
                ELSE /\ conn' = [conn EXCEPT ![c] = "shut"]
                     /\ purge' = [purge EXCEPT !.i = @ + 1]
             /\ UNCHANGED <<outpool, closed>>
       \/ /\ ~More
          /\ closed' = closed \cup {purge.pool}
          /\ outpool' = NoPool
          /\ purge' = [purge EXCEPT !.at = "done"]
          /\ UNCHANGED <<free, conn>>
    /\ UNCHANGED <<todo, made, buffer, deadline, flusher, work, accepted, sent, crashed, faults>>

-----------------------------------------------------------------------------

WorkerStep(w) ==
    \/ TakeLine(w) \/ make_pool(w) \/ Open(w) \/ Reopen(w) \/ OpenDestroyed(w) \/ Check(w)
    \/ Write(w) \/ ResetConn(w) \/ Close(w) \/ CloseDestroyed(w)

Next ==
    \/ \E w \in Workers : WorkerStep(w)
    \/ \E c \in Conns : periodicFlush(c) \/ periodicFlushEnds(c) \/ DeadlinePasses(c)
    \/ purgenode \/ FlushAll \/ DestroyAll

Spec == Init /\ [][Next]_vars

\* Goroutines are scheduled: the workers, the flushers and the handler that
\* runs a purge.  A flusher that times out again and again sleeps a second without
\* writeLock each time, so that a Write and a purge that wait for the lock get it.
\* Nobody has to purge, and no deadline has to pass.
LiveSpec ==
    /\ Spec
    /\ \A w \in Workers : WF_vars(WorkerStep(w)) /\ SF_vars(Write(w))
    /\ \A c \in Conns : WF_vars(periodicFlush(c) \/ periodicFlushEnds(c))
    /\ SF_vars(FlushAll) /\ WF_vars(FlushAll \/ DestroyAll)

-----------------------------------------------------------------------------
(* Properties.                                                              *)

Holders(c) == {w \in Workers : work[w].conn = c /\ work[w].at # "stuck"}
Slots(c) == {i \in DOMAIN free[c[1]] : free[c[1]][i] = c}

\* A connection is never with two workers, nor with a worker and in the channel,
\* nor twice in the channel; and as long as nobody purges, it is in one of these
\* places: "let Close do this only" in ResetConn, "we need the connections in
\* the queue even if they are dead" in Open.
ConnInOnePlace ==
    \A c \in Conns :
        LET n == Cardinality(Holders(c)) + Cardinality(Slots(c)) IN
        n <= 1 /\ (c[1] <= made /\ purge.at = "no" => n = 1)

\* A line whose Write returned nil is in the buffer of a connection or has been
\* written to a socket, whatever flushes, dials and purges failed: PoolWriter
\* reports it as sent.
AcceptedIsKept == accepted \subseteq sent \cup UNION Range(buffer)

\* Every line is accepted in the end.  Only a purge may prevent it: by a panic,
\* or by leaving the worker that has the line, or all of them, waiting on the
\* channel of the destroyed pool.
Stuck(w) == work[w].at = "stuck"
LineIsAccepted ==
    \A l \in Lines :
        <>(\/ l \in accepted \/ crashed \/ purge.at = "panicked"
           \/ \E w \in Workers : Stuck(w) /\ work[w].line = l
           \/ \A w \in Workers : Stuck(w))

\* A line in the buffer of a connection that keeps its socket is written, though
\* no other line follows it: periodicFlush.  The one thing that may prevent it is
\* that the deadline of the last line of the connection passes before the flush
\* and that no later line sets another.
FlushedInTime ==
    \A c \in Conns :
        \/ <>[](deadline[c] = "past")
        \/ \A l \in Lines : l \in buffer[c] ~> l \in sent \/ conn[c] # "up" \/ crashed

\* periodicFlush "periodically flush data no matter what": a line in a buffer is
\* written in the end.  (It is not: a flush that fails leaves the connection
\* without a socket, which only the Open of a later line dials; and a flush after
\* the deadline times out, and nothing but a later line sets the deadline.)
FlushedNoMatterWhat ==
    \A l \in Lines : l \in accepted ~> l \in sent \/ crashed \/ purge.at # "no"
=============================================================================
