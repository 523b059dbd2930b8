------------------------------ MODULE JobQueue ------------------------------
(***************************************************************************)
(* What a user of package dispatch counts on: jobs are started in the      *)
(* order they were queued, at most Slots of them run at a time, and a job  *)
(* that fails goes back to the end of the queue.  Nothing is said of when. *)
(***************************************************************************)
EXTENDS Naturals, Sequences, FiniteSets

CONSTANTS
    Jobs,    \* the jobs anyone will ever add
    Slots    \* the worker goroutines

VARIABLES
    unqueued,  \* jobs nobody has added yet
    waiting,   \* jobs added and not started, in order
    running,   \* the job each slot runs; idle slots are not in the domain
    finished   \* jobs whose DoWork returned nil

avars == <<unqueued, waiting, running, finished>>

AInit ==
    /\ unqueued = Jobs /\ waiting = <<>> /\ finished = {}
    /\ running = [s \in {} |-> s]

Queue(j) ==
    /\ j \in unqueued
    /\ unqueued' = unqueued \ {j}
    /\ waiting' = Append(waiting, j)
    /\ UNCHANGED <<running, finished>>

Begin(s) ==
    /\ s \notin DOMAIN running /\ waiting # <<>>
    /\ running' = [t \in DOMAIN running \cup {s} |->
                       IF t = s THEN Head(waiting) ELSE running[t]]
    /\ waiting' = Tail(waiting)
    /\ UNCHANGED <<unqueued, finished>>

\* The slot s is free again.
Leave(s) ==
    /\ s \in DOMAIN running
    /\ running' = [t \in DOMAIN running \ {s} |-> running[t]]
    /\ UNCHANGED unqueued

Complete(s) == Leave(s) /\ finished' = finished \cup {running[s]} /\ UNCHANGED waiting

GiveBack(s) == Leave(s) /\ waiting' = Append(waiting, running[s]) /\ UNCHANGED finished

ANext ==
    \/ \E j \in Jobs : Queue(j)
    \/ \E s \in Slots : Begin(s) \/ Complete(s) \/ GiveBack(s)

ASpec == AInit /\ [][ANext]_avars
=============================================================================
