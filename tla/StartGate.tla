----------------------------- MODULE StartGate -----------------------------
(***************************************************************************)
(* The gate that keeps writes out of a log writer until Start has replayed *)
(* the log: the field okToWrite of CassandraLogMetric and LevelDBLogMetric *)
(* (and of the cassandra indexer).                                         *)
(*                                                                         *)
(* Write reads the field twice, once to compare it with nil and once to    *)
(* receive from it; Start closes the channel and then sets the field to    *)
(* nil.  Neither holds a lock.  A receive from a nil channel never ends.   *)
(***************************************************************************)
EXTENDS Naturals

CONSTANTS
    Writers,     \* goroutines that call Write, each once
    Remakes      \* TRUE: Start makes a new channel (cassandra_log)

ASSUME RemakesAssumption == Remakes \in BOOLEAN

\* The two channels the field ever points to, and nil.
FromNew == "from New"
FromStart == "from Start"
Nil == "nil"

VARIABLES
    okToWrite,   \* the field
    closedChans, \* the channels that are closed
    start,       \* Start: "new", "replay", "closed", "up"
    writerAt,    \* Write: "call", "test", "recv", "wait", "passed"
    waitsOn      \* the channel a waiting Write receives from

gateVars == <<okToWrite, closedChans, start, writerAt, waitsOn>>

\* Mutant: the constructor leaves the field nil.
GateInitNoChannel ==
    /\ okToWrite = Nil /\ closedChans = {} /\ start = "new"
    /\ writerAt = [w \in Writers |-> "call"] /\ waitsOn = [w \in Writers |-> Nil]

GateInit ==
    /\ okToWrite = FromNew /\ closedChans = {} /\ start = "new"
    /\ writerAt = [w \in Writers |-> "call"] /\ waitsOn = [w \in Writers |-> Nil]

-----------------------------------------------------------------------------
(* Start.                                                                   *)

\* Mutant: Start makes a new channel in the writer that keeps the first one.
StartRemakes ==
    /\ start = "new"
    /\ start' = "replay"
    /\ okToWrite' = FromStart
    /\ UNCHANGED <<closedChans, writerAt, waitsOn>>

StartBegins ==
    /\ start = "new"
    /\ start' = "replay"
    /\ okToWrite' = IF Remakes THEN FromStart ELSE okToWrite
    /\ UNCHANGED <<closedChans, writerAt, waitsOn>>

\* close(okToWrite), once getSequences has returned
CloseGate ==
    /\ start = "replay"
    /\ start' = "closed"
    /\ closedChans' = closedChans \cup {okToWrite}
    /\ UNCHANGED <<okToWrite, writerAt, waitsOn>>

ClearGate ==
    /\ start = "closed"
    /\ start' = "up"
    /\ okToWrite' = Nil
    /\ UNCHANGED <<closedChans, writerAt, waitsOn>>

-----------------------------------------------------------------------------
(* Write.                                                                   *)

Move(w, from, to) == writerAt[w] = from /\ writerAt' = [writerAt EXCEPT ![w] = to]

WriteCall(w) == Move(w, "call", "test") /\ UNCHANGED <<okToWrite, closedChans, start, waitsOn>>

WriteTest(w) ==
    /\ Move(w, "test", IF okToWrite = Nil THEN "passed" ELSE "recv")
    /\ UNCHANGED <<okToWrite, closedChans, start, waitsOn>>

\* The operand of the receive is evaluated: the second read of the field.
Receive(w) ==
    /\ Move(w, "recv", "wait")
    /\ waitsOn' = [waitsOn EXCEPT ![w] = okToWrite]
    /\ UNCHANGED <<okToWrite, closedChans, start>>

Pass(w) ==
    /\ waitsOn[w] \in closedChans
    /\ Move(w, "wait", "passed")
    /\ UNCHANGED <<okToWrite, closedChans, start, waitsOn>>

StartStep == StartBegins \/ CloseGate \/ ClearGate
WriteStep(w) == WriteTest(w) \/ Receive(w) \/ Pass(w)
GateNext == StartStep \/ \E w \in Writers : WriteCall(w) \/ WriteStep(w)

GateSpec == GateInit /\ [][GateNext]_gateVars
GateLiveSpec == GateSpec /\ WF_gateVars(StartStep) /\ \A w \in Writers : WF_gateVars(WriteStep(w))

-----------------------------------------------------------------------------
GateTypeOK ==
    /\ okToWrite \in {FromNew, FromStart, Nil}
    /\ closedChans \subseteq {FromNew, FromStart}
    /\ start \in {"new", "replay", "closed", "up"}
    /\ writerAt \in [Writers -> {"call", "test", "recv", "wait", "passed"}]
    /\ waitsOn \in [Writers -> {FromNew, FromStart, Nil}]

\* No point gets into the cache before the replay is over, whichever read of
\* the field a Write is at when Start changes it.
NoEarlyWrite == (\E w \in Writers : writerAt[w] = "passed") => start \in {"closed", "up"}

\* A Write that is waiting on a channel is let through: Start closes every
\* channel the field has pointed to.
WaitingIsReleased ==
    \A w \in Writers : writerAt[w] = "wait" /\ waitsOn[w] # Nil ~> writerAt[w] = "passed"

-----------------------------------------------------------------------------
(* What the comments say, where the code differs.                           *)

\* "block until ready": a Write that is called gets through once Start is
\* ready.
BlocksOnlyUntilReady == \A w \in Writers : writerAt[w] = "test" ~> writerAt[w] = "passed"
=============================================================================
