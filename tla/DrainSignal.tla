---------------------------- MODULE DrainSignal ----------------------------
(***************************************************************************)
(* The coalescing drain signal of runtime/src/drain.rs: one atomic byte    *)
(* through which many threads request a drain, one thread at a time owns   *)
(* it, and a close is final.  As in IngressGate every operation is one     *)
(* atomic step.  `drains' is the set of live, unfinished DrainPermits.     *)
(***************************************************************************)
CONSTANT Drainers     \* who may hold a DrainPermit

VARIABLES
  state,              \* the byte
  drains              \* holders of a live DrainPermit

vars == <<state, drains>>

States == {"Idle", "Pending", "Draining", "DrainingPending", "Closed"}

Init == state = "Idle" /\ drains = {}

(* What DrainSignal::request answers in the current state. *)
RequestOutcome ==
  IF state = "Idle" THEN "Scheduled" ELSE IF state = "Closed" THEN "Closed" ELSE "Coalesced"

(* Mutant: a request during a drain is taken as served by that drain. *)
RequestLostWhileDraining ==
  /\ \/ state = "Idle" /\ state' = "Pending"
     \/ state # "Idle" /\ UNCHANGED state
  /\ UNCHANGED drains

Request ==
  /\ \/ state = "Idle" /\ state' = "Pending"
     \/ state = "Draining" /\ state' = "DrainingPending"
     \/ state \in {"Pending", "DrainingPending", "Closed"} /\ UNCHANGED state
  /\ UNCHANGED drains

(* Mutant: a drain that was requested again may be acquired again. *)
AcquiresTwice(d) ==
  /\ state \in {"Pending", "DrainingPending"}
  /\ state' = "Draining"
  /\ drains' = drains \cup {d}

Acquire(d) ==
  /\ state = "Pending"
  /\ state' = "Draining"
  /\ drains' = drains \cup {d}

Close ==
  /\ state' = "Closed"
  /\ UNCHANGED drains

(* What finish_drain answers: DrainAfter::Idle, Pending or Closed. *)
DrainAfter ==
  IF state = "Draining" THEN "Idle" ELSE IF state = "DrainingPending" THEN "Pending" ELSE "Closed"

(* DrainPermit::finish, finish_in_place and an unfinished permit's drop. *)
FinishDrain(d) ==
  /\ d \in drains
  /\ \/ state = "Draining" /\ state' = "Idle"
     \/ state = "DrainingPending" /\ state' = "Pending"
     \/ state \in {"Closed", "Idle", "Pending"} /\ UNCHANGED state
  /\ drains' = drains \ {d}
============================================================================
