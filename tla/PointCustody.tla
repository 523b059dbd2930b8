---------------------------- MODULE PointCustody ----------------------------
(***************************************************************************)
(* What a writer promises of the points it accepts, whatever goroutines,   *)
(* chunks, logs and restarts are behind it.  A point is offered, held by   *)
(* the writer, and in the end stored.  It may be gone instead, but only    *)
(* with an excuse, and an excuse takes a mishap: a database call that      *)
(* failed for good, or the end of the process.  What is stored stays       *)
(* stored, and what is gone does not come back.                            *)
(***************************************************************************)
EXTENDS Naturals

CONSTANT Points

VARIABLES
    life,        \* per point: "offered", "held", "stored" or "gone"
    excused,     \* points that may be gone
    mishaps      \* how many there were

vars == <<life, excused, mishaps>>

Init ==
    /\ life = [p \in Points |-> "offered"]
    /\ excused = {}
    /\ mishaps = 0

Move(p) ==
    \/ life[p] = "offered" /\ life'[p] = "held"
    \/ life[p] = "held" /\ life'[p] = "stored"
    \/ life[p] = "held" /\ life'[p] = "gone" /\ p \in excused'
    \/ life'[p] = life[p]

Mishap == mishaps' = mishaps + 1 /\ excused \subseteq excused'

Next ==
    /\ \A p \in Points : Move(p)
    /\ Mishap \/ UNCHANGED <<excused, mishaps>>

Spec == Init /\ [][Next]_vars
=============================================================================
