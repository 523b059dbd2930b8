----------------------------- MODULE StartStop -----------------------------
(***************************************************************************)
(* utils/once.go: StartStop, the guard most components of the server put   *)
(* around their Start and Stop.  It is made of two Onces, start and stop;  *)
(* each runs its function at most once until the other resets it.          *)
(*                                                                         *)
(* Once.Do tests done without the lock, takes the lock, tests again, runs  *)
(* the function, sets done and unlocks.  The function given to start's Do  *)
(* ends by resetting stop, for which it takes stop's lock, and the other   *)
(* way round.                                                              *)
(***************************************************************************)
EXTENDS Naturals

CONSTANTS
    Procs,       \* goroutines calling Start and Stop
    MaxCalls     \* bound: calls by each of them

ASSUME MaxCallsAssumption == MaxCalls \in Nat

Onces == {"start", "stop"}
Other(o) == IF o = "start" THEN "stop" ELSE "start"
Nobody == "nobody"
ASSUME NobodyAssumption == Nobody \notin Procs

VARIABLES
    done,        \* per Once: o.done
    lock,        \* per Once: the holder of o.m
    procAt,      \* per goroutine: "idle", "test", "lock", "retest", "run",
                 \*   "reset", "clear", "finish"
    once,        \* per goroutine: the Once it called Do of
    calls,       \* per goroutine: calls made
    last         \* history: whose function ran last

onceVars == <<done, lock, procAt, once, calls, last>>

OnceInit ==
    /\ done = [o \in Onces |-> FALSE]
    /\ lock = [o \in Onces |-> Nobody]
    /\ procAt = [p \in Procs |-> "idle"] /\ once = [p \in Procs |-> "start"]
    /\ calls = [p \in Procs |-> 0]
    /\ last = "none"

Jump(p, label) == procAt' = [procAt EXCEPT ![p] = label]

-----------------------------------------------------------------------------
\* Start(f) or Stop(f) is called.
Call(p, o) ==
    /\ procAt[p] = "idle" /\ calls[p] < MaxCalls
    /\ calls' = [calls EXCEPT ![p] = @ + 1]
    /\ once' = [once EXCEPT ![p] = o]
    /\ Jump(p, "test")
    /\ UNCHANGED <<done, lock, last>>

\* atomic.LoadUint32(&o.done) == 1
Test(p) ==
    /\ procAt[p] = "test"
    /\ Jump(p, IF done[once[p]] THEN "idle" ELSE "lock")
    /\ UNCHANGED <<done, lock, once, calls, last>>

Lock(p) ==
    /\ procAt[p] = "lock" /\ lock[once[p]] = Nobody
    /\ lock' = [lock EXCEPT ![once[p]] = p]
    /\ Jump(p, "retest")
    /\ UNCHANGED <<done, once, calls, last>>

\* Mutant: done is not tested again under the lock.
RetestSkipped(p) ==
    /\ procAt[p] = "retest"
    /\ Jump(p, "run")
    /\ UNCHANGED <<done, lock, once, calls, last>>

\* o.done == 0, under the lock; the deferred Unlock when it is not
Retest(p) ==
    /\ procAt[p] = "retest"
    /\ IF done[once[p]]
         THEN Jump(p, "idle") /\ lock' = [lock EXCEPT ![once[p]] = Nobody]
         ELSE Jump(p, "run") /\ UNCHANGED lock
    /\ UNCHANGED <<done, once, calls, last>>

\* f()
Run(p) ==
    /\ procAt[p] = "run"
    /\ last' = once[p]
    /\ Jump(p, "reset")
    /\ UNCHANGED <<done, lock, once, calls>>

\* Mutant: Reset does not take the other Once's lock.
ResetUnlocked(p) ==
    /\ procAt[p] = "reset"
    /\ Jump(p, "clear")
    /\ UNCHANGED <<done, lock, once, calls, last>>

\* Reset of the other Once: m.Lock ...
Reset(p) ==
    /\ procAt[p] = "reset" /\ lock[Other(once[p])] = Nobody
    /\ lock' = [lock EXCEPT ![Other(once[p])] = p]
    /\ Jump(p, "clear")
    /\ UNCHANGED <<done, once, calls, last>>

\* ... done = 0, m.Unlock
Clear(p) ==
    /\ procAt[p] = "clear"
    /\ done' = [done EXCEPT ![Other(once[p])] = FALSE]
    /\ lock' = [lock EXCEPT ![Other(once[p])] = Nobody]
    /\ Jump(p, "finish")
    /\ UNCHANGED <<once, calls, last>>

\* the deferred Store of done and Unlock, in this order
Finish(p) ==
    /\ procAt[p] = "finish"
    /\ done' = [done EXCEPT ![once[p]] = TRUE]
    /\ lock' = [lock EXCEPT ![once[p]] = Nobody]
    /\ Jump(p, "idle")
    /\ UNCHANGED <<once, calls, last>>

Step(p) ==
    \/ Test(p) \/ Lock(p) \/ Retest(p) \/ Run(p) \/ Reset(p) \/ Clear(p) \/ Finish(p)
OnceNext == \E p \in Procs : Step(p) \/ \E o \in Onces : Call(p, o)

OnceSpec == OnceInit /\ [][OnceNext]_onceVars
OnceLiveSpec == OnceSpec /\ \A p \in Procs : WF_onceVars(Step(p))

-----------------------------------------------------------------------------
OnceTypeOK ==
    /\ done \in [Onces -> BOOLEAN]
    /\ lock \in [Onces -> Procs \cup {Nobody}]
    /\ procAt \in [Procs -> {"idle", "test", "lock", "retest", "run", "reset", "clear", "finish"}]
    /\ once \in [Procs -> Onces]
    /\ calls \in [Procs -> Nat]
    /\ last \in Onces \cup {"none"}

Runs(p, o) == procAt[p] = "run" /\ once[p] = o

\* Start's function does not run on a component that is already started, nor
\* Stop's on one that is already stopped, however many goroutines call them and
\* in whatever order: between two runs of the one, the other has run.
Alternates == \A p \in Procs : \A o \in Onces : Runs(p, o) => last # o

\* p is inside o's critical section
Holds(p, o) ==
    \/ procAt[p] \in {"retest", "run", "reset", "clear", "finish"} /\ once[p] = o
    \/ procAt[p] = "clear" /\ Other(once[p]) = o

\* p has run the function of o and not returned from o's Do
HasRun(p, o) == procAt[p] \in {"reset", "clear", "finish"} /\ once[p] = o

\* Why they alternate.  The lock of a Once is held by exactly the goroutine in
\* its Do or resetting it.  The Once whose function ran last is done, or on its
\* way to it.  While one is being reset the other's function ran last, unless
\* both functions ran and both goroutines wait for each other's lock.
DoInv ==
    /\ OnceTypeOK
    /\ \A p \in Procs : \A o \in Onces : Holds(p, o) <=> lock[o] = p
    /\ \A p \in Procs : Runs(p, once[p]) => ~done[once[p]]
    /\ \A o \in Onces : last = o => done[o] \/ \E p \in Procs : HasRun(p, o)
    /\ \A p \in Procs : procAt[p] \in {"reset", "clear"} =>
          \/ last = once[p]
          \/ \E q \in Procs : procAt[q] = "reset" /\ once[q] = Other(once[p])

-----------------------------------------------------------------------------
(* What the comments say, where the code differs.                           *)

\* Once is "like sync.Once except we can reset it", a pair of them is to "start/stop
\* once in a group": a call of Start or Stop returns, provided that the function
\* it was given does.
CallReturns == \A p \in Procs : procAt[p] # "idle" ~> procAt[p] = "idle"
=============================================================================
