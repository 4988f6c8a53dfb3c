--------------------------- MODULE BoundedMailbox ---------------------------
(***************************************************************************)
(* The bounded mailbox without close of runtime/src/mailbox.rs: an         *)
(* ArrayQueue and a DrainSignal, shared by producer and drain threads.     *)
(* As in ClosableMailbox each action is one atomic access.  The mailbox    *)
(* posts nothing itself: it answers Scheduled (enqueue) or Pending         *)
(* (finish), and `owed' counts those answers against the drains acquired.  *)
(***************************************************************************)
EXTENDS Integers, Sequences

CONSTANTS Producers, Consumers, Payloads, Capacity

ASSUME CapacityAssumption == Capacity \in Nat \ {0}

Threads == Producers \cup Consumers

VARIABLES
  queue,             \* the ArrayQueue
  signal, drains,    \* the DrainSignal and its live permits
  pc,                \* the next access of each thread
  custody,           \* history: where each payload is
  owed               \* history: drains the callers were told to arrange

signalVars == <<signal, drains>>
vars == <<queue, signalVars, pc, custody, owed>>

Signal == INSTANCE DrainSignal WITH state <- signal, drains <- drains, Drainers <- Threads

Init ==
  /\ queue = <<>>
  /\ Signal!Init
  /\ pc = [t \in Threads |-> "idle"]
  /\ custody = [p \in Payloads |-> "unsubmitted"]
  /\ owed = 0

At(t, label)   == pc[t] = label
Goto(t, label) == pc' = [pc EXCEPT ![t] = label]

(* enqueue(value): queue.push hands a payload that does not fit back.      *)
EnqueuePush(t, p) ==
  /\ At(t, "idle") /\ custody[p] = "unsubmitted"
  /\ \/ /\ Len(queue) < Capacity
        /\ queue' = Append(queue, p)
        /\ custody' = [custody EXCEPT ![p] = "retained"]
        /\ Goto(t, "request")
     \/ /\ Len(queue) = Capacity
        /\ custody' = [custody EXCEPT ![p] = "returned"]
        /\ UNCHANGED <<queue, pc>>
  /\ UNCHANGED <<signalVars, owed>>

(* signal.request(): Closed is the unreachable! of line 146. *)
EnqueueRequest(t) ==
  /\ At(t, "request")
  /\ Signal!Request
  /\ Goto(t, IF Signal!RequestOutcome = "Closed" THEN "panic" ELSE "idle")
  /\ owed' = IF Signal!RequestOutcome = "Scheduled" THEN owed + 1 ELSE owed
  /\ UNCHANGED <<queue, custody>>

(* acquire: Idle and Busy change nothing. *)
Acquire(t) ==
  /\ At(t, "idle")
  /\ Signal!Acquire(t)
  /\ Goto(t, "drain")
  /\ owed' = owed - 1
  /\ UNCHANGED <<queue, custody>>

Pop(t) ==
  /\ At(t, "drain") /\ queue # <<>>
  /\ custody' = [custody EXCEPT ![Head(queue)] = "delivered"]
  /\ queue' = Tail(queue)
  /\ UNCHANGED <<signalVars, pc, owed>>

(* finish, or the drop of an unfinished drain: preserve_retained_payloads  *)
(* reads the queue ...                                                     *)
Preserve(t) ==
  /\ At(t, "drain")
  /\ Goto(t, IF queue # <<>> THEN "preserve" ELSE "finish")
  /\ UNCHANGED <<queue, signalVars, custody, owed>>

(* ... and requests a successor (lines 188 and 191 are unreachable!) ...   *)
PreserveRequest(t) ==
  /\ At(t, "preserve")
  /\ Signal!Request
  /\ Goto(t, IF Signal!RequestOutcome = "Coalesced" THEN "finish" ELSE "panic")
  /\ UNCHANGED <<queue, custody, owed>>

(* ... before the permit finishes; Pending asks the host for a successor.  *)
Finish(t) ==
  /\ At(t, "finish")
  /\ Signal!FinishDrain(t)
  /\ Goto(t, "idle")
  /\ owed' = IF Signal!DrainAfter = "Pending" THEN owed + 1 ELSE owed
  /\ UNCHANGED <<queue, custody>>

Enqueue(t) == (\E p \in Payloads : EnqueuePush(t, p)) \/ EnqueueRequest(t)
Drain(t)   == Acquire(t) \/ Pop(t) \/ Preserve(t) \/ PreserveRequest(t) \/ Finish(t)

Next ==
  \/ \E t \in Producers : Enqueue(t)
  \/ \E t \in Consumers : Drain(t)

Spec == Init /\ [][Next]_vars

----------------------------------------------------------------------------
Draining == {"drain", "preserve", "finish"}
Labels   == {"idle", "request", "panic"} \cup Draining

TypeOK ==
  /\ queue \in Seq(Payloads) /\ Len(queue) <= Capacity
  /\ signal \in Signal!States /\ drains \in SUBSET Threads
  /\ pc \in [Threads -> Labels]
  /\ custody \in [Payloads -> {"unsubmitted", "returned", "retained", "delivered"}]
  /\ owed \in Nat

(* The unreachable! assertions of mailbox.rs (146, 161, 188, 191). *)
NoUnreachable == signal # "Closed" /\ \A t \in Threads : ~At(t, "panic")

(* Coalescing (mailbox.rs:129, 175): callers are told of exactly one drain *)
(* to arrange while one is pending, and of none otherwise, at most one     *)
(* drain is live, and so no assertion fails and no bound is exceeded.      *)
OneDrainIsOwed ==
  /\ TypeOK /\ NoUnreachable
  /\ owed = IF signal = "Pending" THEN 1 ELSE 0
  /\ \A t, u \in drains : t = u
  /\ drains # {} <=> signal \in {"Draining", "DrainingPending"}

(* A payload the mailbox retained is delivered, also when drains end early *)
(* or unwind.                                                              *)
RetainedWorkIsDelivered ==
  \A p \in Payloads : custody[p] = "retained" ~> custody[p] = "delivered"
============================================================================
