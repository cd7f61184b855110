---------------------------- MODULE IdealEngine ----------------------------
(***************************************************************************)
(* What the wallet service assumes of the engine's life cycle: the seed is *)
(* given to a worklet only while the engine initializes, a ready engine    *)
(* has been initialized since it was last locked, and an engine that says  *)
(* "locked" has no live worklet that holds the seed.  A fault may strike   *)
(* at any time; a live worklet may exit at any time.                       *)
(***************************************************************************)
VARIABLES
    state,  \* the state the engine shows
    held    \* some live worklet holds the seed

vars == <<state, held>>

Init == state = "locked" /\ held = FALSE

Unlock == state = "locked" /\ ~held /\ state' = "initializing" /\ UNCHANGED held
Arm == state = "initializing" /\ held' = TRUE /\ UNCHANGED state
Ready == state = "initializing" /\ state' = "ready" /\ UNCHANGED held
Seal == state \in {"initializing", "ready"} /\ state' = "locking" /\ UNCHANGED held
Exit == held /\ held' = FALSE /\ UNCHANGED state
Fault == state' = "faulted" /\ UNCHANGED held

Relock ==
    /\ state \in {"initializing", "locking", "faulted"} /\ ~held
    /\ state' = "locked"
    /\ UNCHANGED held

Next == Unlock \/ Arm \/ Ready \/ Seal \/ Exit \/ Fault \/ Relock

Spec == Init /\ [][Next]_vars
=============================================================================
