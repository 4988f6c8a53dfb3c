----------------------- MODULE ClosableMailboxProofs -----------------------
(***************************************************************************)
(* Theorems about ClosableMailbox for any number of threads, payloads and  *)
(* posts and any capacity and word size.  The inductive invariant IInv     *)
(* says which permits a thread holds at each access, and what the two      *)
(* gates, the signal and the terminal state know of each other.            *)
(***************************************************************************)
EXTENDS ClosableMailbox, FiniteSetTheorems, SequenceTheorems, TLAPS

(* IngressGate::new (ingress.rs:97). *)
LEMMA NewGateIsExact == Exact(NewGate) /\ Phase(NewGate) = "Open"
  <1>1. Cardinality({}) = 0 /\ IsFiniteSet({})
    BY FS_EmptySet
  <1>. QED
    BY <1>1, ReservationMaskAssumption
       DEF Exact, NewGate, Phase, PhaseOf, CountOf, OPEN, CLOSING, SEALED, WordSize, Unit

(* reserve (ingress.rs:129): one permit more and one more in the word,     *)
(* never past RESERVATION_MASK into the phase bits.                        *)
LEMMA ReserveIsExact ==
  ASSUME NEW gate, Exact(gate), CanReserve(gate), NEW h, h \notin gate.permits
  PROVE  /\ Exact(Reserve(gate, h))
         /\ Phase(gate) = "Open" /\ Phase(Reserve(gate, h)) = "Open"
         /\ Reserve(gate, h).permits = gate.permits \cup {h}
  <1>. USE ReservationMaskAssumption
  <1>. DEFINE next == Reserve(gate, h)
  <1>1. next.word = gate.word + 1 /\ next.permits = gate.permits \cup {h}
        /\ next = [word |-> next.word, permits |-> next.permits]
    BY DEF Reserve
  <1>2. IsFiniteSet(next.permits) /\ Cardinality(next.permits) = Cardinality(gate.permits) + 1
    BY <1>1, FS_AddElement DEF Exact
  <1>3. /\ gate.word \in 0 .. WordSize - 1 /\ gate.word < CLOSING
        /\ gate.word # ReservationMask /\ gate.word = Cardinality(gate.permits)
        /\ Phase(gate) = "Open"
    BY DEF Exact, CanReserve, Phase, PhaseOf, CountOf, CLOSING, SEALED, WordSize, Unit
  <1>4. next.word \in 0 .. WordSize - 1 /\ next.word < CLOSING
    BY <1>1, <1>3 DEF CLOSING, WordSize, Unit
  <1>5. Phase(next) = "Open" /\ CountOf(next.word) = next.word
    BY <1>4 DEF Phase, PhaseOf, CountOf
  <1>. QED
    BY <1>1, <1>2, <1>3, <1>4, <1>5 DEF Exact

(* begin_close (ingress.rs:163) keeps the count of the permits in flight. *)
LEMMA BeginCloseIsExact ==
  ASSUME NEW gate, Exact(gate)
  PROVE  /\ Exact(BeginClose(gate))
         /\ BeginClose(gate).permits = gate.permits
         /\ Phase(BeginClose(gate)) # "Open"
         /\ Phase(gate) # "Open" => BeginClose(gate) = gate
  <1>. USE ReservationMaskAssumption
  <1>. DEFINE next == BeginClose(gate)
  <1>1. /\ next = [word |-> IF Phase(gate) = "Open" THEN CLOSING + CountOf(gate.word)
                                                    ELSE gate.word,
                   permits |-> gate.permits]
    BY DEF BeginClose, Exact
  <1>2. CASE Phase(gate) = "Open"
    <2>1. next.word = CLOSING + gate.word /\ gate.word \in Nat /\ gate.word < CLOSING
          /\ next.permits = gate.permits
          /\ next = [word |-> next.word, permits |-> next.permits]
      BY <1>1, <1>2 DEF Exact, Phase, PhaseOf, CountOf, CLOSING, SEALED, WordSize, Unit
    <2>2. next.word \in 0 .. WordSize - 1 /\ Phase(next) = "Closing"
          /\ CountOf(next.word) = CountOf(gate.word)
      BY <2>1 DEF Phase, PhaseOf, CountOf, CLOSING, SEALED, WordSize, Unit
    <2>. QED
      BY <2>1, <2>2, <1>2 DEF Exact
  <1>3. CASE Phase(gate) # "Open"
    BY <1>1, <1>3 DEF Exact
  <1>. QED
    BY <1>2, <1>3

(* try_seal (ingress.rs:205) seals only when no permit is in flight. *)
LEMMA SealIsExact ==
  ASSUME NEW gate, Exact(gate), CanSeal(gate)
  PROVE  /\ Exact(Seal(gate))
         /\ gate.permits = {} /\ Seal(gate).permits = {}
         /\ Phase(gate) # "Open" /\ Phase(Seal(gate)) = "Sealed"
  <1>. USE ReservationMaskAssumption
  <1>1. gate.permits = {} /\ Phase(gate) # "Open"
    BY FS_EmptySet DEF CanSeal, Exact
  <1>2. Cardinality({}) = 0 /\ IsFiniteSet({})
    BY FS_EmptySet
  <1>3. Seal(gate) = [word |-> IF Phase(gate) = "Sealed" THEN gate.word ELSE SEALED,
                      permits |-> {}]
    BY <1>1 DEF Seal, Exact
  <1>. QED
    BY <1>1, <1>2, <1>3 DEF Exact, Phase, PhaseOf, CountOf, CLOSING, SEALED, WordSize, Unit

(* settle_reservation (ingress.rs:234): its permit is live, so the count   *)
(* it decrements is positive and the phase bits are not touched.           *)
LEMMA SettleIsExact ==
  ASSUME NEW gate, Exact(gate), NEW h \in gate.permits
  PROVE  /\ Exact(Settle(gate, h))
         /\ Settle(gate, h).permits = gate.permits \ {h}
         /\ Phase(Settle(gate, h)) = Phase(gate) /\ Phase(gate) # "Sealed"
  <1>. USE ReservationMaskAssumption
  <1>. DEFINE next == Settle(gate, h)
  <1>1. /\ next.permits = gate.permits \ {h}
        /\ next.word = IF gate.word = 0 THEN WordSize - 1 ELSE gate.word - 1
        /\ next = [word |-> next.word, permits |-> next.permits]
    BY DEF Settle
  <1>2. /\ IsFiniteSet(next.permits)
        /\ Cardinality(next.permits) = Cardinality(gate.permits) - 1
        /\ Cardinality(gate.permits) \in Nat /\ Cardinality(next.permits) \in Nat
    BY <1>1, FS_RemoveElement, FS_CardinalityType DEF Exact
  <1>3. /\ gate.word \in 0 .. WordSize - 1 /\ CountOf(gate.word) = Cardinality(gate.permits)
        /\ Phase(gate) \in {"Open", "Closing"}
    BY DEF Exact, Phase, PhaseOf
  <1>4. CountOf(gate.word) >= 1
    BY <1>2, <1>3
  <1>5. next.word = gate.word - 1
    BY <1>1, <1>3, <1>4 DEF CountOf, Phase, PhaseOf, CLOSING, SEALED, WordSize, Unit
  <1>6. /\ next.word \in 0 .. WordSize - 1
        /\ Phase(next) = Phase(gate)
        /\ CountOf(next.word) = CountOf(gate.word) - 1
    BY <1>3, <1>4, <1>5 DEF CountOf, Phase, PhaseOf, CLOSING, SEALED, WordSize, Unit
  <1>. QED
    BY <1>1, <1>2, <1>3, <1>6 DEF Exact
----------------------------------------------------------------------------
Producing      == {"push", "request", "post", "settleProducer"}
Draining       == {"drain", "preserve", "finishDrain"}
Normally       == Draining \cup {"retryCheck", "retryPost", "settleNormal", "acquire", "successorPost"}
Owning         == {"terminal", "finishTerminal", "dropTerminal"}
SignalClosed   == Owning \cup {"claim"}
NormalSealed   == SignalClosed \cup {"closeSignal"}
NormalClosing  == NormalSealed \cup {"sealNormal"}
ProducerSealed == NormalClosing \cup {"closeNormal"}

(* Each permit is held by the threads whose next access needs it. *)
PermitsFollowCalls ==
  /\ producer_gate.permits = {t \in Threads : pc[t] \in Producing}
  /\ normal_gate.permits = {t \in Threads : pc[t] \in Normally}
  /\ drains = {t \in Threads : pc[t] \in Draining}

(* How far a close owner has come is visible in the gates and the signal. *)
CloseFollowsCalls ==
  \A t \in Threads :
    /\ pc[t] \in ProducerSealed => Phase(producer_gate) = "Sealed"
    /\ pc[t] \in NormalClosing => Phase(normal_gate) # "Open"
    /\ pc[t] \in NormalSealed => Phase(normal_gate) = "Sealed"
    /\ pc[t] \in SignalClosed => signal = "Closed"
    /\ pc[t] \in Owning => terminal_state = "TerminalActive"
    /\ pc[t] = "finishTerminal" => queue = <<>>
    /\ pc[t] = "push" => arg[t] \in Payloads

(* The terminal phase is entered in one order: producers sealed, normal    *)
(* drains sealed, signal closed, terminal state claimed.                   *)
CloseIsOrdered ==
  /\ Phase(normal_gate) # "Open" => Phase(producer_gate) = "Sealed"
  /\ signal = "Closed" => Phase(normal_gate) = "Sealed"
  /\ terminal_state # "Normal" => signal = "Closed"
  /\ terminal_state = "TerminalClosed" => queue = <<>>

(* One live drain, one terminal owner. *)
OwnersAreUnique ==
  /\ \A t, u \in Threads : pc[t] \in Draining /\ pc[u] \in Draining => t = u
  /\ \A t, u \in Threads : pc[t] \in Owning /\ pc[u] \in Owning => t = u
  /\ signal \in {"Draining", "DrainingPending"} <=> drains # {}

Control == PermitsFollowCalls /\ CloseFollowsCalls /\ CloseIsOrdered /\ OwnersAreUnique

IInv == TypeOK /\ Control /\ NoUnreachable /\ RetainedWorkIsCovered
----------------------------------------------------------------------------
USE DEF Producing, Draining, Normally, Owning, SignalClosed, NormalSealed, NormalClosing,
        ProducerSealed, At, Goto, callVars, gateVars, signalVars, hostVars

(* Accepting or refusing a post keeps the host's account within its bound. *)
LEMMA PostTypes ==
  ASSUME posts \in 0 .. MaxPosts, missed \in BOOLEAN, NEW t \in Threads, PostAccepted(t) \/ PostRefused(t)
  PROVE  posts' \in 0 .. MaxPosts /\ missed' \in BOOLEAN
  <1>1. CASE PostAccepted(t)
    <2>1. posts' \in 0 .. MaxPosts
      BY <1>1, MaxPostsAssumption, SMT DEF PostAccepted
    <2>. QED
      BY <1>1, <2>1 DEF PostAccepted
  <1>2. CASE PostRefused(t)
    <2>1. posts' \in 0 .. MaxPosts
      BY <1>2 DEF PostRefused
    <2>2. missed' \in BOOLEAN
      BY <1>2, Zenon DEF PostRefused
    <2>. QED
      BY <2>1, <2>2
  <1>. QED
    BY <1>1, <1>2

(* ArrayQueue::push on a queue that is not full stays within its capacity. *)
LEMMA PushFits ==
  ASSUME NEW q \in Seq(Payloads), Len(q) < Capacity, NEW p \in Payloads
  PROVE  Append(q, p) \in Seq(Payloads) /\ Len(Append(q, p)) <= Capacity
  <1>1. Append(q, p) \in Seq(Payloads) /\ Len(Append(q, p)) = Len(q) + 1
    BY AppendProperties
  <1>2. Len(q) \in Nat
    BY LenProperties
  <1>. QED
    BY <1>1, <1>2, CapacityAssumption

(* ArrayQueue::pop yields a payload and leaves a shorter queue. *)
LEMMA PopFits ==
  ASSUME NEW q \in Seq(Payloads), Len(q) <= Capacity, q # <<>>
  PROVE  Tail(q) \in Seq(Payloads) /\ Len(Tail(q)) <= Capacity /\ Head(q) \in Payloads
  <1>1. Tail(q) \in Seq(Payloads) /\ Len(Tail(q)) = Len(q) - 1 /\ Head(q) \in Payloads
    BY HeadTailProperties
  <1>2. Len(q) \in Nat
    BY LenProperties
  <1>. QED
    BY <1>1, <1>2, CapacityAssumption

(* A new queue is empty and fits. *)
LEMMA NoneFits == <<>> \in Seq(Payloads) /\ Len(<<>>) <= Capacity
  <1>1. <<>> \in Seq(Payloads) /\ Len(<<>>) = 0
    BY EmptySeq
  <1>. QED
    BY <1>1, CapacityAssumption
----------------------------------------------------------------------------
(* producer_gate.reserve() grants an admission only while the gate is open. *)
LEMMA EnqueueReserveStep ==
  ASSUME IInv, NEW t \in Threads, NEW p \in Payloads, NEW post \in BOOLEAN, EnqueueReserve(t, p, post)
  PROVE  IInv'
  <1>. USE DEF IInv, Control, EnqueueReserve
  <1>1. CASE CanReserve(producer_gate)
    <2>0. /\ Exact(producer_gate') /\ Phase(producer_gate) = "Open" /\ Phase(producer_gate') = "Open"
          /\ producer_gate'.permits = producer_gate.permits \cup {t}
      BY <1>1, ReserveIsExact DEF TypeOK, PermitsFollowCalls
    <2>1. TypeOK'
      BY <1>1, <2>0 DEF TypeOK, Signal!States, Labels, Custodies, PermitsFollowCalls, CloseFollowsCalls
    <2>2. PermitsFollowCalls'
      BY <1>1, <2>0 DEF TypeOK, PermitsFollowCalls, CloseFollowsCalls, CloseIsOrdered, Exact
    <2>3. CloseFollowsCalls' /\ CloseIsOrdered'
      BY <1>1, <2>0 DEF TypeOK, PermitsFollowCalls, CloseFollowsCalls, CloseIsOrdered, OwnersAreUnique, Exact
    <2>4. OwnersAreUnique'
      BY <1>1, <2>0 DEF TypeOK, PermitsFollowCalls, CloseFollowsCalls, CloseIsOrdered, OwnersAreUnique, Exact
    <2>5. NoUnreachable' /\ RetainedWorkIsCovered'
      BY <1>1, <2>0 DEF TypeOK, PermitsFollowCalls, CloseFollowsCalls, CloseIsOrdered, OwnersAreUnique,
            NoUnreachable, RetainedWorkIsCovered, Exact
    <2>. QED
      BY <2>1, <2>2, <2>3, <2>4, <2>5
  <1>2. CASE ~CanReserve(producer_gate)
    <2>1. TypeOK'
      BY <1>2 DEF TypeOK, Signal!States, Labels, Custodies, PermitsFollowCalls, CloseFollowsCalls
    <2>2. PermitsFollowCalls'
      BY <1>2 DEF TypeOK, PermitsFollowCalls, CloseFollowsCalls, CloseIsOrdered, Exact
    <2>3. CloseFollowsCalls' /\ CloseIsOrdered'
      BY <1>2 DEF TypeOK, PermitsFollowCalls, CloseFollowsCalls, CloseIsOrdered, OwnersAreUnique, Exact
    <2>4. OwnersAreUnique'
      BY <1>2 DEF TypeOK, PermitsFollowCalls, CloseFollowsCalls, CloseIsOrdered, OwnersAreUnique, Exact
    <2>5. NoUnreachable' /\ RetainedWorkIsCovered'
      BY <1>2 DEF TypeOK, PermitsFollowCalls, CloseFollowsCalls, CloseIsOrdered, OwnersAreUnique,
            NoUnreachable, RetainedWorkIsCovered, Exact
    <2>. QED
      BY <2>1, <2>2, <2>3, <2>4, <2>5
  <1>. QED
    BY <1>1, <1>2

(* queue.push(value): the pushed payload is covered by the request to come. *)
LEMMA EnqueuePushStep ==
  ASSUME IInv, NEW t \in Threads, EnqueuePush(t)
  PROVE  IInv'
  <1>. USE DEF IInv, Control, EnqueuePush
  <1>1. TypeOK'
    <2>1. queue' \in Seq(Payloads) /\ Len(queue') <= Capacity
      <3>1. CASE Len(queue) < Capacity
        <4>1. queue' = Append(queue, arg[t]) /\ arg[t] \in Payloads
          BY <3>1 DEF TypeOK, CloseFollowsCalls
        <4>. QED
          BY <3>1, <4>1, PushFits DEF TypeOK
      <3>2. CASE Len(queue) = Capacity
        BY <3>2, CapacityAssumption DEF TypeOK
      <3>. QED
        BY <3>1, <3>2
    <2>2. /\ pc' \in [Threads -> Labels] /\ custody' \in [Payloads -> Custodies]
          /\ arg' \in [Threads -> Payloads \cup {NoPayload}]
      BY DEF TypeOK, Labels, Custodies
    <2>. QED
      BY <2>1, <2>2 DEF TypeOK
  <1>2. PermitsFollowCalls'
    BY DEF TypeOK, PermitsFollowCalls, CloseFollowsCalls, CloseIsOrdered, Exact
  <1>3. CloseFollowsCalls' /\ CloseIsOrdered'
    BY DEF TypeOK, PermitsFollowCalls, CloseFollowsCalls, CloseIsOrdered, OwnersAreUnique, Exact
  <1>4. OwnersAreUnique'
    BY DEF TypeOK, PermitsFollowCalls, CloseFollowsCalls, CloseIsOrdered, OwnersAreUnique, Exact
  <1>5. NoUnreachable' /\ RetainedWorkIsCovered'
    BY DEF TypeOK, PermitsFollowCalls, CloseFollowsCalls, CloseIsOrdered, OwnersAreUnique,
          NoUnreachable, RetainedWorkIsCovered, Exact
  <1>. QED
    BY <1>1, <1>2, <1>3, <1>4, <1>5

(* signal.request() under an admission: the signal cannot be closed. *)
LEMMA EnqueueRequestStep ==
  ASSUME IInv, NEW t \in Threads, EnqueueRequest(t)
  PROVE  IInv'
  <1>. USE DEF IInv, Control, EnqueueRequest, Signal!Request, Signal!RequestOutcome
  <1>1. TypeOK'
    BY DEF TypeOK, Signal!States, Labels, Custodies, PermitsFollowCalls, CloseFollowsCalls
  <1>2. PermitsFollowCalls'
    BY DEF TypeOK, PermitsFollowCalls, CloseFollowsCalls, CloseIsOrdered, Exact
  <1>3. CloseFollowsCalls' /\ CloseIsOrdered'
    BY DEF TypeOK, PermitsFollowCalls, CloseFollowsCalls, CloseIsOrdered, OwnersAreUnique, Exact
  <1>4. OwnersAreUnique'
    BY DEF TypeOK, PermitsFollowCalls, CloseFollowsCalls, CloseIsOrdered, OwnersAreUnique, Exact
  <1>5. NoUnreachable' /\ RetainedWorkIsCovered'
    BY DEF TypeOK, PermitsFollowCalls, CloseFollowsCalls, CloseIsOrdered, OwnersAreUnique,
          NoUnreachable, RetainedWorkIsCovered, Exact
  <1>. QED
    BY <1>1, <1>2, <1>3, <1>4, <1>5

(* post() under the producer admission moves only the host's state. *)
LEMMA EnqueuePostStep ==
  ASSUME IInv, NEW t \in Threads, EnqueuePost(t)
  PROVE  IInv'
  <1>. USE DEF IInv, Control, EnqueuePost
  <1>1. TypeOK'
    <2>1. posts' \in 0 .. MaxPosts /\ missed' \in BOOLEAN
      BY PostTypes DEF TypeOK
    <2>. QED
      BY <2>1 DEF TypeOK, Signal!States, Labels, Custodies
  <1>2. PermitsFollowCalls'
    BY DEF TypeOK, PermitsFollowCalls, CloseFollowsCalls, CloseIsOrdered, Exact
  <1>3. CloseFollowsCalls' /\ CloseIsOrdered'
    BY DEF TypeOK, PermitsFollowCalls, CloseFollowsCalls, CloseIsOrdered, OwnersAreUnique, Exact
  <1>4. OwnersAreUnique'
    BY DEF TypeOK, PermitsFollowCalls, CloseFollowsCalls, CloseIsOrdered, OwnersAreUnique, Exact
  <1>5. NoUnreachable' /\ RetainedWorkIsCovered'
    BY DEF TypeOK, PermitsFollowCalls, CloseFollowsCalls, CloseIsOrdered, OwnersAreUnique,
          NoUnreachable, RetainedWorkIsCovered, Exact
  <1>. QED
    BY <1>1, <1>2, <1>3, <1>4, <1>5

(* Dropping the producer admission settles exactly one reservation. *)
LEMMA SettleProducerStep ==
  ASSUME IInv, NEW t \in Threads, SettleProducer(t)
  PROVE  IInv'
  <1>. USE DEF IInv, Control, SettleProducer
  <1>0. /\ Exact(producer_gate') /\ Phase(producer_gate') = Phase(producer_gate) /\ Phase(producer_gate) # "Sealed"
        /\ producer_gate'.permits = producer_gate.permits \ {t}
    BY SettleIsExact DEF TypeOK, PermitsFollowCalls
  <1>1. TypeOK'
    BY <1>0 DEF TypeOK, Signal!States, Labels, Custodies, PermitsFollowCalls, CloseFollowsCalls
  <1>2. PermitsFollowCalls'
    BY <1>0 DEF TypeOK, PermitsFollowCalls, CloseFollowsCalls, CloseIsOrdered, Exact
  <1>3. CloseFollowsCalls' /\ CloseIsOrdered'
    BY <1>0 DEF TypeOK, PermitsFollowCalls, CloseFollowsCalls, CloseIsOrdered, OwnersAreUnique, Exact
  <1>4. OwnersAreUnique'
    BY <1>0 DEF TypeOK, PermitsFollowCalls, CloseFollowsCalls, CloseIsOrdered, OwnersAreUnique, Exact
  <1>5. NoUnreachable' /\ RetainedWorkIsCovered'
    BY <1>0 DEF TypeOK, PermitsFollowCalls, CloseFollowsCalls, CloseIsOrdered, OwnersAreUnique,
          NoUnreachable, RetainedWorkIsCovered, Exact
  <1>. QED
    BY <1>1, <1>2, <1>3, <1>4, <1>5

(* post_pending_with: the admission of a retry. *)
LEMMA RetryReserveStep ==
  ASSUME IInv, NEW t \in Threads, RetryReserve(t)
  PROVE  IInv'
  <1>. USE DEF IInv, Control, RetryReserve
  <1>0. /\ Exact(normal_gate') /\ Phase(normal_gate) = "Open" /\ Phase(normal_gate') = "Open"
        /\ normal_gate'.permits = normal_gate.permits \cup {t}
    BY ReserveIsExact DEF TypeOK, PermitsFollowCalls
  <1>1. TypeOK'
    BY <1>0 DEF TypeOK, Signal!States, Labels, Custodies, PermitsFollowCalls, CloseFollowsCalls
  <1>2. PermitsFollowCalls'
    BY <1>0 DEF TypeOK, PermitsFollowCalls, CloseFollowsCalls, CloseIsOrdered, Exact
  <1>3. CloseFollowsCalls' /\ CloseIsOrdered'
    BY <1>0 DEF TypeOK, PermitsFollowCalls, CloseFollowsCalls, CloseIsOrdered, OwnersAreUnique, Exact
  <1>4. OwnersAreUnique'
    BY <1>0 DEF TypeOK, PermitsFollowCalls, CloseFollowsCalls, CloseIsOrdered, OwnersAreUnique, Exact
  <1>5. NoUnreachable' /\ RetainedWorkIsCovered'
    BY <1>0 DEF TypeOK, PermitsFollowCalls, CloseFollowsCalls, CloseIsOrdered, OwnersAreUnique,
          NoUnreachable, RetainedWorkIsCovered, Exact
  <1>. QED
    BY <1>1, <1>2, <1>3, <1>4, <1>5

(* post_pending_with: is_drain_pending(). *)
LEMMA RetryCheckStep ==
  ASSUME IInv, NEW t \in Threads, RetryCheck(t)
  PROVE  IInv'
  <1>. USE DEF IInv, Control, RetryCheck
  <1>1. TypeOK'
    BY DEF TypeOK, Signal!States, Labels, Custodies, PermitsFollowCalls, CloseFollowsCalls
  <1>2. PermitsFollowCalls'
    BY DEF TypeOK, PermitsFollowCalls, CloseFollowsCalls, CloseIsOrdered, Exact
  <1>3. CloseFollowsCalls' /\ CloseIsOrdered'
    BY DEF TypeOK, PermitsFollowCalls, CloseFollowsCalls, CloseIsOrdered, OwnersAreUnique, Exact
  <1>4. OwnersAreUnique'
    BY DEF TypeOK, PermitsFollowCalls, CloseFollowsCalls, CloseIsOrdered, OwnersAreUnique, Exact
  <1>5. NoUnreachable' /\ RetainedWorkIsCovered'
    BY DEF TypeOK, PermitsFollowCalls, CloseFollowsCalls, CloseIsOrdered, OwnersAreUnique,
          NoUnreachable, RetainedWorkIsCovered, Exact
  <1>. QED
    BY <1>1, <1>2, <1>3, <1>4, <1>5

(* post_pending_with: post() under the normal-drain admission. *)
LEMMA RetryPostStep ==
  ASSUME IInv, NEW t \in Threads, RetryPost(t)
  PROVE  IInv'
  <1>. USE DEF IInv, Control, RetryPost
  <1>1. TypeOK'
    <2>1. posts' \in 0 .. MaxPosts /\ missed' \in BOOLEAN
      BY PostTypes DEF TypeOK
    <2>. QED
      BY <2>1 DEF TypeOK, Signal!States, Labels, Custodies
  <1>2. PermitsFollowCalls'
    BY DEF TypeOK, PermitsFollowCalls, CloseFollowsCalls, CloseIsOrdered, Exact
  <1>3. CloseFollowsCalls' /\ CloseIsOrdered'
    BY DEF TypeOK, PermitsFollowCalls, CloseFollowsCalls, CloseIsOrdered, OwnersAreUnique, Exact
  <1>4. OwnersAreUnique'
    BY DEF TypeOK, PermitsFollowCalls, CloseFollowsCalls, CloseIsOrdered, OwnersAreUnique, Exact
  <1>5. NoUnreachable' /\ RetainedWorkIsCovered'
    BY DEF TypeOK, PermitsFollowCalls, CloseFollowsCalls, CloseIsOrdered, OwnersAreUnique,
          NoUnreachable, RetainedWorkIsCovered, Exact
  <1>. QED
    BY <1>1, <1>2, <1>3, <1>4, <1>5

(* Dropping a normal-drain admission, after the drain permit if any. *)
LEMMA SettleNormalStep ==
  ASSUME IInv, NEW t \in Threads, SettleNormal(t)
  PROVE  IInv'
  <1>. USE DEF IInv, Control, SettleNormal
  <1>0. /\ Exact(normal_gate') /\ Phase(normal_gate') = Phase(normal_gate) /\ Phase(normal_gate) # "Sealed"
        /\ normal_gate'.permits = normal_gate.permits \ {t}
    BY SettleIsExact DEF TypeOK, PermitsFollowCalls
  <1>1. TypeOK'
    BY <1>0 DEF TypeOK, Signal!States, Labels, Custodies, PermitsFollowCalls, CloseFollowsCalls
  <1>2. PermitsFollowCalls'
    BY <1>0 DEF TypeOK, PermitsFollowCalls, CloseFollowsCalls, CloseIsOrdered, Exact
  <1>3. CloseFollowsCalls' /\ CloseIsOrdered'
    BY <1>0 DEF TypeOK, PermitsFollowCalls, CloseFollowsCalls, CloseIsOrdered, OwnersAreUnique, Exact
  <1>4. OwnersAreUnique'
    BY <1>0 DEF TypeOK, PermitsFollowCalls, CloseFollowsCalls, CloseIsOrdered, OwnersAreUnique, Exact
  <1>5. NoUnreachable' /\ RetainedWorkIsCovered'
    BY <1>0 DEF TypeOK, PermitsFollowCalls, CloseFollowsCalls, CloseIsOrdered, OwnersAreUnique,
          NoUnreachable, RetainedWorkIsCovered, Exact
  <1>. QED
    BY <1>1, <1>2, <1>3, <1>4, <1>5

(* acquire: the normal-drain admission, or none once normal draining closed. *)
LEMMA DrainReserveStep ==
  ASSUME IInv, NEW t \in Threads, NEW byTask \in BOOLEAN, DrainReserve(t, byTask)
  PROVE  IInv'
  <1>. USE DEF IInv, Control, DrainReserve
  <1>0. posts' \in 0 .. MaxPosts
    BY MaxPostsAssumption DEF TypeOK
  <1>1. CASE CanReserve(normal_gate)
    <2>0. /\ Exact(normal_gate') /\ Phase(normal_gate) = "Open" /\ Phase(normal_gate') = "Open"
          /\ normal_gate'.permits = normal_gate.permits \cup {t}
      BY <1>1, ReserveIsExact DEF TypeOK, PermitsFollowCalls
    <2>1. TypeOK'
      BY <1>0, <1>1, <2>0 DEF TypeOK, Signal!States, Labels, Custodies, PermitsFollowCalls, CloseFollowsCalls
    <2>2. PermitsFollowCalls'
      BY <1>1, <2>0 DEF TypeOK, PermitsFollowCalls, CloseFollowsCalls, CloseIsOrdered, Exact
    <2>3. CloseFollowsCalls' /\ CloseIsOrdered'
      BY <1>1, <2>0 DEF TypeOK, PermitsFollowCalls, CloseFollowsCalls, CloseIsOrdered, OwnersAreUnique, Exact
    <2>4. OwnersAreUnique'
      BY <1>1, <2>0 DEF TypeOK, PermitsFollowCalls, CloseFollowsCalls, CloseIsOrdered, OwnersAreUnique, Exact
    <2>5. NoUnreachable' /\ RetainedWorkIsCovered'
      BY <1>1, <2>0 DEF TypeOK, PermitsFollowCalls, CloseFollowsCalls, CloseIsOrdered, OwnersAreUnique,
            NoUnreachable, RetainedWorkIsCovered, Exact
    <2>. QED
      BY <2>1, <2>2, <2>3, <2>4, <2>5
  <1>2. CASE ~CanReserve(normal_gate)
    <2>1. TypeOK'
      BY <1>0, <1>2 DEF TypeOK, Signal!States, Labels, Custodies, PermitsFollowCalls, CloseFollowsCalls
    <2>2. PermitsFollowCalls'
      BY <1>2 DEF TypeOK, PermitsFollowCalls, CloseFollowsCalls, CloseIsOrdered, Exact
    <2>3. CloseFollowsCalls' /\ CloseIsOrdered'
      BY <1>2 DEF TypeOK, PermitsFollowCalls, CloseFollowsCalls, CloseIsOrdered, OwnersAreUnique, Exact
    <2>4. OwnersAreUnique'
      BY <1>2 DEF TypeOK, PermitsFollowCalls, CloseFollowsCalls, CloseIsOrdered, OwnersAreUnique, Exact
    <2>5. NoUnreachable' /\ RetainedWorkIsCovered'
      BY <1>2 DEF TypeOK, PermitsFollowCalls, CloseFollowsCalls, CloseIsOrdered, OwnersAreUnique,
            NoUnreachable, RetainedWorkIsCovered, Exact
    <2>. QED
      BY <2>1, <2>2, <2>3, <2>4, <2>5
  <1>. QED
    BY <1>1, <1>2

(* acquire: signal.acquire() makes the caller the only live drain. *)
LEMMA DrainAcquireStep ==
  ASSUME IInv, NEW t \in Threads, DrainAcquire(t)
  PROVE  IInv'
  <1>. USE DEF IInv, Control, DrainAcquire, Signal!Acquire
  <1>1. TypeOK'
    BY DEF TypeOK, Signal!States, Labels, Custodies, PermitsFollowCalls, CloseFollowsCalls
  <1>2. PermitsFollowCalls'
    BY DEF TypeOK, PermitsFollowCalls, CloseFollowsCalls, CloseIsOrdered, Exact
  <1>3. CloseFollowsCalls' /\ CloseIsOrdered'
    BY DEF TypeOK, PermitsFollowCalls, CloseFollowsCalls, CloseIsOrdered, OwnersAreUnique, Exact
  <1>4. OwnersAreUnique'
    BY DEF TypeOK, PermitsFollowCalls, CloseFollowsCalls, CloseIsOrdered, OwnersAreUnique, Exact
  <1>5. NoUnreachable' /\ RetainedWorkIsCovered'
    BY DEF TypeOK, PermitsFollowCalls, CloseFollowsCalls, CloseIsOrdered, OwnersAreUnique,
          NoUnreachable, RetainedWorkIsCovered, Exact
  <1>. QED
    BY <1>1, <1>2, <1>3, <1>4, <1>5

(* pop: the live drain takes the oldest payload and stays live. *)
LEMMA DrainPopStep ==
  ASSUME IInv, NEW t \in Threads, DrainPop(t)
  PROVE  IInv'
  <1>. USE DEF IInv, Control, DrainPop
  <1>1. TypeOK'
    BY PopFits DEF TypeOK, Signal!States, Labels, Custodies, PermitsFollowCalls, CloseFollowsCalls
  <1>2. PermitsFollowCalls'
    BY DEF TypeOK, PermitsFollowCalls, CloseFollowsCalls, CloseIsOrdered, Exact
  <1>3. CloseFollowsCalls' /\ CloseIsOrdered'
    BY DEF TypeOK, PermitsFollowCalls, CloseFollowsCalls, CloseIsOrdered, OwnersAreUnique, Exact
  <1>4. OwnersAreUnique'
    BY DEF TypeOK, PermitsFollowCalls, CloseFollowsCalls, CloseIsOrdered, OwnersAreUnique, Exact
  <1>5. NoUnreachable' /\ RetainedWorkIsCovered'
    BY DEF TypeOK, PermitsFollowCalls, CloseFollowsCalls, CloseIsOrdered, OwnersAreUnique,
          NoUnreachable, RetainedWorkIsCovered, Exact
  <1>. QED
    BY <1>1, <1>2, <1>3, <1>4, <1>5

(* preserve_retained_payloads, first access: is the queue empty? *)
LEMMA DrainPreserveStep ==
  ASSUME IInv, NEW t \in Threads, NEW post \in BOOLEAN, DrainPreserve(t, post)
  PROVE  IInv'
  <1>. USE DEF IInv, Control, DrainPreserve
  <1>1. TypeOK'
    BY DEF TypeOK, Signal!States, Labels, Custodies, PermitsFollowCalls, CloseFollowsCalls
  <1>2. PermitsFollowCalls'
    BY DEF TypeOK, PermitsFollowCalls, CloseFollowsCalls, CloseIsOrdered, Exact
  <1>3. CloseFollowsCalls' /\ CloseIsOrdered'
    BY DEF TypeOK, PermitsFollowCalls, CloseFollowsCalls, CloseIsOrdered, OwnersAreUnique, Exact
  <1>4. OwnersAreUnique'
    BY DEF TypeOK, PermitsFollowCalls, CloseFollowsCalls, CloseIsOrdered, OwnersAreUnique, Exact
  <1>5. NoUnreachable' /\ RetainedWorkIsCovered'
    BY DEF TypeOK, PermitsFollowCalls, CloseFollowsCalls, CloseIsOrdered, OwnersAreUnique,
          NoUnreachable, RetainedWorkIsCovered, Exact
  <1>. QED
    BY <1>1, <1>2, <1>3, <1>4, <1>5

(* preserve_retained_payloads, second access: a live drain is coalesced. *)
LEMMA DrainPreserveRequestStep ==
  ASSUME IInv, NEW t \in Threads, DrainPreserveRequest(t)
  PROVE  IInv'
  <1>. USE DEF IInv, Control, DrainPreserveRequest, Signal!Request, Signal!RequestOutcome
  <1>1. TypeOK'
    BY DEF TypeOK, Signal!States, Labels, Custodies, PermitsFollowCalls, CloseFollowsCalls
  <1>2. PermitsFollowCalls'
    BY DEF TypeOK, PermitsFollowCalls, CloseFollowsCalls, CloseIsOrdered, OwnersAreUnique,
           Exact
  <1>3. CloseFollowsCalls' /\ CloseIsOrdered'
    BY DEF TypeOK, PermitsFollowCalls, CloseFollowsCalls, CloseIsOrdered, OwnersAreUnique, Exact
  <1>4. OwnersAreUnique'
    BY DEF TypeOK, PermitsFollowCalls, CloseFollowsCalls, CloseIsOrdered, OwnersAreUnique, Exact
  <1>5. NoUnreachable' /\ RetainedWorkIsCovered'
    BY DEF TypeOK, PermitsFollowCalls, CloseFollowsCalls, CloseIsOrdered, OwnersAreUnique,
          NoUnreachable, RetainedWorkIsCovered, Exact
  <1>. QED
    BY <1>1, <1>2, <1>3, <1>4, <1>5

(* Finishing the DrainPermit: what is retained stays owed a drain. *)
LEMMA DrainFinishStep ==
  ASSUME IInv, NEW t \in Threads, DrainFinish(t)
  PROVE  IInv'
  <1>. USE DEF IInv, Control, DrainFinish, Signal!FinishDrain, Signal!DrainAfter
  <1>1. TypeOK'
    BY DEF TypeOK, Signal!States, Labels, Custodies, PermitsFollowCalls, CloseFollowsCalls
  <1>2. PermitsFollowCalls'
    BY DEF TypeOK, PermitsFollowCalls, CloseFollowsCalls, CloseIsOrdered, Exact
  <1>3. CloseFollowsCalls' /\ CloseIsOrdered'
    BY DEF TypeOK, PermitsFollowCalls, CloseFollowsCalls, CloseIsOrdered, OwnersAreUnique, Exact
  <1>4. OwnersAreUnique'
    BY DEF TypeOK, PermitsFollowCalls, CloseFollowsCalls, CloseIsOrdered, OwnersAreUnique, Exact
  <1>5. NoUnreachable' /\ RetainedWorkIsCovered'
    BY DEF TypeOK, PermitsFollowCalls, CloseFollowsCalls, CloseIsOrdered, OwnersAreUnique,
          NoUnreachable, RetainedWorkIsCovered, Exact
  <1>. QED
    BY <1>1, <1>2, <1>3, <1>4, <1>5

(* finish_with: the operation runs before the admission is released. *)
LEMMA SuccessorPostStep ==
  ASSUME IInv, NEW t \in Threads, SuccessorPost(t)
  PROVE  IInv'
  <1>. USE DEF IInv, Control, SuccessorPost
  <1>1. TypeOK'
    <2>1. posts' \in 0 .. MaxPosts /\ missed' \in BOOLEAN
      BY PostTypes DEF TypeOK
    <2>. QED
      BY <2>1 DEF TypeOK, Signal!States, Labels, Custodies
  <1>2. PermitsFollowCalls'
    BY DEF TypeOK, PermitsFollowCalls, CloseFollowsCalls, CloseIsOrdered, Exact
  <1>3. CloseFollowsCalls' /\ CloseIsOrdered'
    BY DEF TypeOK, PermitsFollowCalls, CloseFollowsCalls, CloseIsOrdered, OwnersAreUnique, Exact
  <1>4. OwnersAreUnique'
    BY DEF TypeOK, PermitsFollowCalls, CloseFollowsCalls, CloseIsOrdered, OwnersAreUnique, Exact
  <1>5. NoUnreachable' /\ RetainedWorkIsCovered'
    BY DEF TypeOK, PermitsFollowCalls, CloseFollowsCalls, CloseIsOrdered, OwnersAreUnique,
          NoUnreachable, RetainedWorkIsCovered, Exact
  <1>. QED
    BY <1>1, <1>2, <1>3, <1>4, <1>5

(* begin_close on the producer gate, idempotent. *)
LEMMA CloseProducersStep ==
  ASSUME IInv, NEW t \in Threads, CloseProducers(t)
  PROVE  IInv'
  <1>. USE DEF IInv, Control, CloseProducers
  <1>0. /\ Exact(producer_gate') /\ Phase(producer_gate') # "Open" /\ producer_gate'.permits = producer_gate.permits
        /\ Phase(producer_gate) # "Open" => producer_gate' = producer_gate
    BY BeginCloseIsExact DEF TypeOK
  <1>1. TypeOK'
    BY <1>0 DEF TypeOK, Signal!States, Labels, Custodies, PermitsFollowCalls, CloseFollowsCalls
  <1>2. PermitsFollowCalls'
    BY <1>0 DEF TypeOK, PermitsFollowCalls, CloseFollowsCalls, CloseIsOrdered, Exact
  <1>3. CloseFollowsCalls' /\ CloseIsOrdered'
    BY <1>0 DEF TypeOK, PermitsFollowCalls, CloseFollowsCalls, CloseIsOrdered, OwnersAreUnique, Exact
  <1>4. OwnersAreUnique'
    BY <1>0 DEF TypeOK, PermitsFollowCalls, CloseFollowsCalls, CloseIsOrdered, OwnersAreUnique, Exact
  <1>5. NoUnreachable' /\ RetainedWorkIsCovered'
    BY <1>0 DEF TypeOK, PermitsFollowCalls, CloseFollowsCalls, CloseIsOrdered, OwnersAreUnique,
          NoUnreachable, RetainedWorkIsCovered, Exact
  <1>. QED
    BY <1>1, <1>2, <1>3, <1>4, <1>5

(* producer_gate.try_seal() succeeds only with no admission outstanding. *)
LEMMA TerminalSealProducerStep ==
  ASSUME IInv, NEW t \in Threads, TerminalSealProducer(t)
  PROVE  IInv'
  <1>. USE DEF IInv, Control, TerminalSealProducer
  <1>0. /\ Exact(producer_gate') /\ Phase(producer_gate) # "Open" /\ Phase(producer_gate') = "Sealed"
        /\ producer_gate.permits = {} /\ producer_gate'.permits = {}
    BY SealIsExact DEF TypeOK
  <1>1. TypeOK'
    BY <1>0 DEF TypeOK, Signal!States, Labels, Custodies, PermitsFollowCalls, CloseFollowsCalls
  <1>2. PermitsFollowCalls'
    BY <1>0 DEF TypeOK, PermitsFollowCalls, CloseFollowsCalls, CloseIsOrdered, Exact
  <1>3. CloseFollowsCalls' /\ CloseIsOrdered'
    BY <1>0 DEF TypeOK, PermitsFollowCalls, CloseFollowsCalls, CloseIsOrdered, OwnersAreUnique, Exact
  <1>4. OwnersAreUnique'
    BY <1>0 DEF TypeOK, PermitsFollowCalls, CloseFollowsCalls, CloseIsOrdered, OwnersAreUnique, Exact
  <1>5. NoUnreachable' /\ RetainedWorkIsCovered'
    BY <1>0 DEF TypeOK, PermitsFollowCalls, CloseFollowsCalls, CloseIsOrdered, OwnersAreUnique,
          NoUnreachable, RetainedWorkIsCovered, Exact
  <1>. QED
    BY <1>1, <1>2, <1>3, <1>4, <1>5

(* normal_drain_gate.begin_close(), after producers are sealed. *)
LEMMA TerminalCloseNormalStep ==
  ASSUME IInv, NEW t \in Threads, TerminalCloseNormal(t)
  PROVE  IInv'
  <1>. USE DEF IInv, Control, TerminalCloseNormal
  <1>0. /\ Exact(normal_gate') /\ Phase(normal_gate') # "Open" /\ normal_gate'.permits = normal_gate.permits
        /\ Phase(normal_gate) # "Open" => normal_gate' = normal_gate
    BY BeginCloseIsExact DEF TypeOK
  <1>1. TypeOK'
    BY <1>0 DEF TypeOK, Signal!States, Labels, Custodies, PermitsFollowCalls, CloseFollowsCalls
  <1>2. PermitsFollowCalls'
    BY <1>0 DEF TypeOK, PermitsFollowCalls, CloseFollowsCalls, CloseIsOrdered, Exact
  <1>3. CloseFollowsCalls' /\ CloseIsOrdered'
    BY <1>0 DEF TypeOK, PermitsFollowCalls, CloseFollowsCalls, CloseIsOrdered, OwnersAreUnique, Exact
  <1>4. OwnersAreUnique'
    BY <1>0 DEF TypeOK, PermitsFollowCalls, CloseFollowsCalls, CloseIsOrdered, OwnersAreUnique, Exact
  <1>5. NoUnreachable' /\ RetainedWorkIsCovered'
    BY <1>0 DEF TypeOK, PermitsFollowCalls, CloseFollowsCalls, CloseIsOrdered, OwnersAreUnique,
          NoUnreachable, RetainedWorkIsCovered, Exact
  <1>. QED
    BY <1>1, <1>2, <1>3, <1>4, <1>5

(* normal_drain_gate.try_seal(), or NormalDrainsInFlight. *)
LEMMA TerminalSealNormalStep ==
  ASSUME IInv, NEW t \in Threads, TerminalSealNormal(t)
  PROVE  IInv'
  <1>. USE DEF IInv, Control, TerminalSealNormal
  <1>1. CASE CanSeal(normal_gate)
    <2>0. /\ Exact(normal_gate') /\ Phase(normal_gate) # "Open" /\ Phase(normal_gate') = "Sealed"
          /\ normal_gate.permits = {} /\ normal_gate'.permits = {}
      BY <1>1, SealIsExact DEF TypeOK
    <2>1. TypeOK'
      BY <1>1, <2>0 DEF TypeOK, Signal!States, Labels, Custodies, PermitsFollowCalls, CloseFollowsCalls
    <2>2. PermitsFollowCalls'
      BY <1>1, <2>0 DEF TypeOK, PermitsFollowCalls, CloseFollowsCalls, CloseIsOrdered, Exact
    <2>3. CloseFollowsCalls' /\ CloseIsOrdered'
      BY <1>1, <2>0 DEF TypeOK, PermitsFollowCalls, CloseFollowsCalls, CloseIsOrdered, OwnersAreUnique, Exact
    <2>4. OwnersAreUnique'
      BY <1>1, <2>0 DEF TypeOK, PermitsFollowCalls, CloseFollowsCalls, CloseIsOrdered, OwnersAreUnique, Exact
    <2>5. NoUnreachable' /\ RetainedWorkIsCovered'
      BY <1>1, <2>0 DEF TypeOK, PermitsFollowCalls, CloseFollowsCalls, CloseIsOrdered, OwnersAreUnique,
            NoUnreachable, RetainedWorkIsCovered, Exact
    <2>. QED
      BY <2>1, <2>2, <2>3, <2>4, <2>5
  <1>2. CASE ~CanSeal(normal_gate)
    <2>1. TypeOK'
      BY <1>2 DEF TypeOK, Signal!States, Labels, Custodies, PermitsFollowCalls, CloseFollowsCalls
    <2>2. PermitsFollowCalls'
      BY <1>2 DEF TypeOK, PermitsFollowCalls, CloseFollowsCalls, CloseIsOrdered, Exact
    <2>3. CloseFollowsCalls' /\ CloseIsOrdered'
      BY <1>2 DEF TypeOK, PermitsFollowCalls, CloseFollowsCalls, CloseIsOrdered, OwnersAreUnique, Exact
    <2>4. OwnersAreUnique'
      BY <1>2 DEF TypeOK, PermitsFollowCalls, CloseFollowsCalls, CloseIsOrdered, OwnersAreUnique, Exact
    <2>5. NoUnreachable' /\ RetainedWorkIsCovered'
      BY <1>2 DEF TypeOK, PermitsFollowCalls, CloseFollowsCalls, CloseIsOrdered, OwnersAreUnique,
            NoUnreachable, RetainedWorkIsCovered, Exact
    <2>. QED
      BY <2>1, <2>2, <2>3, <2>4, <2>5
  <1>. QED
    BY <1>1, <1>2

(* signal.close() takes the pending obligation over to the terminal path. *)
LEMMA TerminalCloseSignalStep ==
  ASSUME IInv, NEW t \in Threads, TerminalCloseSignal(t)
  PROVE  IInv'
  <1>. USE DEF IInv, Control, TerminalCloseSignal, Signal!Close
  <1>1. TypeOK'
    BY DEF TypeOK, Signal!States, Labels, Custodies, PermitsFollowCalls, CloseFollowsCalls
  <1>2. PermitsFollowCalls'
    BY DEF TypeOK, PermitsFollowCalls, CloseFollowsCalls, CloseIsOrdered, Exact
  <1>3. CloseFollowsCalls' /\ CloseIsOrdered'
    BY DEF TypeOK, PermitsFollowCalls, CloseFollowsCalls, CloseIsOrdered, OwnersAreUnique, Exact
  <1>4. OwnersAreUnique'
    BY DEF TypeOK, PermitsFollowCalls, CloseFollowsCalls, CloseIsOrdered, OwnersAreUnique, Exact
  <1>5. NoUnreachable' /\ RetainedWorkIsCovered'
    BY DEF TypeOK, PermitsFollowCalls, CloseFollowsCalls, CloseIsOrdered, OwnersAreUnique,
          NoUnreachable, RetainedWorkIsCovered, Exact
  <1>. QED
    BY <1>1, <1>2, <1>3, <1>4, <1>5

(* The terminal-state claim admits one owner. *)
LEMMA TerminalClaimStep ==
  ASSUME IInv, NEW t \in Threads, TerminalClaim(t)
  PROVE  IInv'
  <1>. USE DEF IInv, Control, TerminalClaim
  <1>1. TypeOK'
    BY DEF TypeOK, Signal!States, Labels, Custodies, PermitsFollowCalls, CloseFollowsCalls
  <1>2. PermitsFollowCalls'
    BY DEF TypeOK, PermitsFollowCalls, CloseFollowsCalls, CloseIsOrdered, Exact
  <1>3. CloseFollowsCalls' /\ CloseIsOrdered'
    BY DEF TypeOK, PermitsFollowCalls, CloseFollowsCalls, CloseIsOrdered, OwnersAreUnique, Exact
  <1>4. OwnersAreUnique'
    BY DEF TypeOK, PermitsFollowCalls, CloseFollowsCalls, CloseIsOrdered, OwnersAreUnique, Exact
  <1>5. NoUnreachable' /\ RetainedWorkIsCovered'
    BY DEF TypeOK, PermitsFollowCalls, CloseFollowsCalls, CloseIsOrdered, OwnersAreUnique,
          NoUnreachable, RetainedWorkIsCovered, Exact
  <1>. QED
    BY <1>1, <1>2, <1>3, <1>4, <1>5

(* TerminalMailboxDrain::pop. *)
LEMMA TerminalPopStep ==
  ASSUME IInv, NEW t \in Threads, TerminalPop(t)
  PROVE  IInv'
  <1>. USE DEF IInv, Control, TerminalPop
  <1>1. TypeOK'
    BY PopFits DEF TypeOK, Signal!States, Labels, Custodies, PermitsFollowCalls, CloseFollowsCalls
  <1>2. PermitsFollowCalls'
    BY DEF TypeOK, PermitsFollowCalls, CloseFollowsCalls, CloseIsOrdered, Exact
  <1>3. CloseFollowsCalls' /\ CloseIsOrdered'
    BY DEF TypeOK, PermitsFollowCalls, CloseFollowsCalls, CloseIsOrdered, OwnersAreUnique, Exact
  <1>4. OwnersAreUnique'
    BY DEF TypeOK, PermitsFollowCalls, CloseFollowsCalls, CloseIsOrdered, OwnersAreUnique, Exact
  <1>5. NoUnreachable' /\ RetainedWorkIsCovered'
    BY DEF TypeOK, PermitsFollowCalls, CloseFollowsCalls, CloseIsOrdered, OwnersAreUnique,
          NoUnreachable, RetainedWorkIsCovered, Exact
  <1>. QED
    BY <1>1, <1>2, <1>3, <1>4, <1>5

(* TerminalMailboxDrain::finish, first access: is the queue empty? *)
LEMMA TerminalFinishStep ==
  ASSUME IInv, NEW t \in Threads, TerminalFinish(t)
  PROVE  IInv'
  <1>. USE DEF IInv, Control, TerminalFinish
  <1>1. TypeOK'
    BY DEF TypeOK, Signal!States, Labels, Custodies, PermitsFollowCalls, CloseFollowsCalls
  <1>2. PermitsFollowCalls'
    BY DEF TypeOK, PermitsFollowCalls, CloseFollowsCalls, CloseIsOrdered, Exact
  <1>3. CloseFollowsCalls' /\ CloseIsOrdered'
    BY DEF TypeOK, PermitsFollowCalls, CloseFollowsCalls, CloseIsOrdered, OwnersAreUnique, Exact
  <1>4. OwnersAreUnique'
    BY DEF TypeOK, PermitsFollowCalls, CloseFollowsCalls, CloseIsOrdered, OwnersAreUnique, Exact
  <1>5. NoUnreachable' /\ RetainedWorkIsCovered'
    BY DEF TypeOK, PermitsFollowCalls, CloseFollowsCalls, CloseIsOrdered, OwnersAreUnique,
          NoUnreachable, RetainedWorkIsCovered, Exact
  <1>. QED
    BY <1>1, <1>2, <1>3, <1>4, <1>5

(* TerminalMailboxDrain::finish, second access: Active becomes Closed. *)
LEMMA TerminalFinishExchangeStep ==
  ASSUME IInv, NEW t \in Threads, TerminalFinishExchange(t)
  PROVE  IInv'
  <1>. USE DEF IInv, Control, TerminalFinishExchange
  <1>1. TypeOK'
    BY DEF TypeOK, Signal!States, Labels, Custodies, PermitsFollowCalls, CloseFollowsCalls
  <1>2. PermitsFollowCalls'
    BY DEF TypeOK, PermitsFollowCalls, CloseFollowsCalls, CloseIsOrdered, Exact
  <1>3. CloseFollowsCalls' /\ CloseIsOrdered'
    BY DEF TypeOK, PermitsFollowCalls, CloseFollowsCalls, CloseIsOrdered, OwnersAreUnique, Exact
  <1>4. OwnersAreUnique'
    BY DEF TypeOK, PermitsFollowCalls, CloseFollowsCalls, CloseIsOrdered, OwnersAreUnique, Exact
  <1>5. NoUnreachable' /\ RetainedWorkIsCovered'
    BY DEF TypeOK, PermitsFollowCalls, CloseFollowsCalls, CloseIsOrdered, OwnersAreUnique,
          NoUnreachable, RetainedWorkIsCovered, Exact
  <1>. QED
    BY <1>1, <1>2, <1>3, <1>4, <1>5

(* TerminalMailboxDrain::drop returns ownership, Active becomes Pending. *)
LEMMA TerminalDropStep ==
  ASSUME IInv, NEW t \in Threads, TerminalDrop(t)
  PROVE  IInv'
  <1>. USE DEF IInv, Control, TerminalDrop
  <1>1. TypeOK'
    BY DEF TypeOK, Signal!States, Labels, Custodies, PermitsFollowCalls, CloseFollowsCalls
  <1>2. PermitsFollowCalls'
    BY DEF TypeOK, PermitsFollowCalls, CloseFollowsCalls, CloseIsOrdered, Exact
  <1>3. CloseFollowsCalls' /\ CloseIsOrdered'
    BY DEF TypeOK, PermitsFollowCalls, CloseFollowsCalls, CloseIsOrdered, OwnersAreUnique, Exact
  <1>4. OwnersAreUnique'
    BY DEF TypeOK, PermitsFollowCalls, CloseFollowsCalls, CloseIsOrdered, OwnersAreUnique, Exact
  <1>5. NoUnreachable' /\ RetainedWorkIsCovered'
    BY DEF TypeOK, PermitsFollowCalls, CloseFollowsCalls, CloseIsOrdered, OwnersAreUnique,
          NoUnreachable, RetainedWorkIsCovered, Exact
  <1>. QED
    BY <1>1, <1>2, <1>3, <1>4, <1>5
----------------------------------------------------------------------------
(* A new mailbox satisfies the inductive invariant. *)
LEMMA InitIInv == Init => IInv
  <1>. SUFFICES ASSUME Init PROVE IInv
    OBVIOUS
  <1>1. TypeOK
    <2>1. /\ Exact(producer_gate) /\ producer_gate.permits = {}
          /\ Exact(normal_gate) /\ normal_gate.permits = {}
      BY NewGateIsExact DEF Init, NewGate
    <2>2. queue \in Seq(Payloads) /\ Len(queue) <= Capacity
      BY NoneFits DEF Init
    <2>3. posts \in 0 .. MaxPosts
      BY MaxPostsAssumption DEF Init
    <2>. QED
      BY <2>1, <2>2, <2>3 DEF Init, TypeOK, Signal!Init, Signal!States, Labels, Custodies
  <1>2. Control
    BY NewGateIsExact DEF Init, Control, PermitsFollowCalls, CloseFollowsCalls, CloseIsOrdered,
                          OwnersAreUnique, Signal!Init, NewGate
  <1>. QED
    BY <1>1, <1>2 DEF Init, IInv, NoUnreachable, RetainedWorkIsCovered

(* Every access of every thread preserves the inductive invariant. *)
LEMMA NextIInv == IInv /\ [Next]_vars => IInv'
  <1>. SUFFICES ASSUME IInv, [Next]_vars PROVE IInv'
    OBVIOUS
  <1>1. ASSUME NEW t \in Producers, Enqueue(t) PROVE IInv'
    <2>. t \in Threads
      BY DEF Threads
    <2>. QED
      BY <1>1, EnqueueReserveStep, EnqueuePushStep, EnqueueRequestStep, EnqueuePostStep,
         SettleProducerStep DEF Enqueue
  <1>2. ASSUME NEW t \in Consumers, RetryPending(t) PROVE IInv'
    <2>. t \in Threads
      BY DEF Threads
    <2>. QED
      BY <1>2, RetryReserveStep, RetryCheckStep, RetryPostStep, SettleNormalStep DEF RetryPending
  <1>3. ASSUME NEW t \in Consumers, Drain(t) PROVE IInv'
    <2>. t \in Threads
      BY DEF Threads
    <2>. QED
      BY <1>3, DrainReserveStep, DrainAcquireStep, DrainPopStep, DrainPreserveStep,
         DrainPreserveRequestStep, DrainFinishStep, SuccessorPostStep DEF Drain
  <1>4. ASSUME NEW t \in Closers, Terminal(t) PROVE IInv'
    <2>. t \in Threads
      BY DEF Threads
    <2>. QED
      BY <1>4, CloseProducersStep, TerminalSealProducerStep, TerminalCloseNormalStep,
         TerminalSealNormalStep, TerminalCloseSignalStep, TerminalClaimStep, TerminalPopStep,
         TerminalFinishStep, TerminalFinishExchangeStep, TerminalDropStep DEF Terminal
  <1>5. CASE UNCHANGED vars
    BY <1>5 DEF vars, IInv, TypeOK, Control, PermitsFollowCalls, CloseFollowsCalls, CloseIsOrdered,
                OwnersAreUnique, NoUnreachable, RetainedWorkIsCovered
  <1>. QED
    BY <1>1, <1>2, <1>3, <1>4, <1>5 DEF Next

(* The inductive invariant holds of every reachable state of the mailbox. *)
THEOREM InductiveInvariant == Spec => []IInv
  BY InitIInv, NextIInv, PTL DEF Spec

(* Every variable keeps its type, and each gate word counts exactly the    *)
(* permits that are live, for any number of threads.                       *)
THEOREM TypeCorrect == Spec => []TypeOK
  <1>1. IInv => TypeOK
    BY DEF IInv
  <1>. QED
    BY <1>1, InductiveInvariant, PTL

(* The unreachable! assertions of closable_mailbox.rs are never reached. *)
THEOREM UnreachableIsUnreachable == Spec => []NoUnreachable
  <1>1. IInv => NoUnreachable
    BY DEF IInv
  <1>. QED
    BY <1>1, InductiveInvariant, PTL

(* Retained work is always owed a drain: request, coalescing, an abandoned *)
(* drain and a close that takes over never strand the queue.               *)
THEOREM RetainedWorkStaysCovered == Spec => []RetainedWorkIsCovered
  <1>1. IInv => RetainedWorkIsCovered
    BY DEF IInv
  <1>. QED
    BY <1>1, InductiveInvariant, PTL

(* try_begin_terminal_drain: a terminal owner excludes every producer,     *)
(* every normal drain and every other terminal owner.                      *)
THEOREM TerminalExcludesOthers == Spec => []TerminalIsExclusive
  <1>1. ASSUME IInv PROVE TerminalIsExclusive
    <2>. SUFFICES ASSUME NEW t \in Threads, TerminalOwner(t)
                  PROVE  /\ producer_gate.permits = {} /\ normal_gate.permits = {} /\ drains = {}
                         /\ signal = "Closed" /\ terminal_state = "TerminalActive"
                         /\ \A u \in Threads \ {t} : ~TerminalOwner(u)
      BY DEF TerminalIsExclusive
    <2>1. pc[t] \in Owning
      BY DEF TerminalOwner
    <2>2. /\ Phase(producer_gate) = "Sealed" /\ Phase(normal_gate) = "Sealed"
          /\ signal = "Closed" /\ terminal_state = "TerminalActive"
      BY <1>1, <2>1 DEF IInv, Control, CloseFollowsCalls
    <2>3. producer_gate.permits = {} /\ normal_gate.permits = {}
      BY <1>1, <2>2 DEF IInv, TypeOK, Exact
    <2>4. drains = {}
      BY <1>1, <2>2 DEF IInv, Control, OwnersAreUnique, TypeOK, Signal!States
    <2>5. \A u \in Threads \ {t} : ~TerminalOwner(u)
      BY <1>1, <2>1 DEF IInv, Control, OwnersAreUnique, TerminalOwner
    <2>. QED
      BY <2>2, <2>3, <2>4, <2>5
  <1>. QED
    BY <1>1, InductiveInvariant, PTL

(* The host never accepts a drain task once normal draining is sealed: a   *)
(* post runs only under a producer or normal-drain admission, and the      *)
(* seal waits for both.                                                    *)
THEOREM NoPostAfterClaim == Spec => NoPostAfterTerminalClaim
  <1>1. ASSUME IInv, [Next]_vars, posts' > posts
        PROVE  Phase(normal_gate) # "Sealed" /\ terminal_state = "Normal"
    <2>1. PICK t \in Threads : EnqueuePost(t) \/ RetryPost(t) \/ SuccessorPost(t)
      <3>1. posts' # posts
        BY <1>1 DEF IInv, TypeOK
      <3>2. ASSUME NEW t \in Threads, NEW byTask \in BOOLEAN, DrainReserve(t, byTask) PROVE FALSE
        BY <1>1, <3>2, MaxPostsAssumption DEF DrainReserve, IInv, TypeOK
      <3>. QED
        BY <1>1, <3>1, <3>2 DEF Next, vars, hostVars, Threads, Enqueue, RetryPending, Drain, Terminal,
           EnqueueReserve, EnqueuePush, EnqueueRequest, SettleProducer, RetryReserve, RetryCheck,
           SettleNormal, DrainAcquire, DrainPop, DrainPreserve, DrainPreserveRequest, DrainFinish,
           CloseProducers, TerminalSealProducer, TerminalCloseNormal, TerminalSealNormal,
           TerminalCloseSignal, TerminalClaim, TerminalPop, TerminalFinish, TerminalFinishExchange,
           TerminalDrop
    <2>2. t \in producer_gate.permits \/ t \in normal_gate.permits
      BY <1>1, <2>1 DEF IInv, Control, PermitsFollowCalls, EnqueuePost, RetryPost, SuccessorPost
    <2>3. Phase(producer_gate) # "Sealed" \/ Phase(normal_gate) # "Sealed"
      BY <1>1, <2>2 DEF IInv, TypeOK, Exact
    <2>. QED
      BY <1>1, <2>3 DEF IInv, Control, CloseIsOrdered
  <1>2. IInv /\ [Next]_vars
          => [posts' > posts => Phase(normal_gate) # "Sealed" /\ terminal_state = "Normal"]_vars
    BY <1>1
  <1>. QED
    BY <1>2, InductiveInvariant, PTL DEF Spec, NoPostAfterTerminalClaim
----------------------------------------------------------------------------
(* The refinement of WorkCustody.  Where each payload is: a submitted one   *)
(* is the argument of exactly one call that has not pushed yet, and the     *)
(* queue holds retained ones, each once.                                    *)
CustodyFollowsCalls ==
  /\ \A t \in Threads : At(t, "push") => custody[arg[t]] = "submitted"
  /\ \A t, u \in Threads : At(t, "push") /\ At(u, "push") /\ arg[t] = arg[u] => t = u
  /\ \A p \in Payloads : custody[p] = "submitted" => \E t \in Threads : At(t, "push") /\ arg[t] = p

QueueIsRetained ==
  /\ \A i \in 1 .. Len(queue) : custody[queue[i]] = "retained"
  /\ \A i, j \in 1 .. Len(queue) : queue[i] = queue[j] => i = j

CustodyInv == CustodyFollowsCalls /\ QueueIsRetained

(* ArrayQueue::push of a payload that is not in the queue. *)
LEMMA PushKeepsRetained ==
  ASSUME NEW q \in Seq(Payloads), NEW c \in [Payloads -> Custodies], NEW p \in Payloads,
         \A i \in 1 .. Len(q) : c[q[i]] = "retained",
         \A i, j \in 1 .. Len(q) : q[i] = q[j] => i = j,
         c[p] # "retained",
         NEW d, d = [c EXCEPT ![p] = "retained"], NEW r, r = Append(q, p)
  PROVE  /\ \A i \in 1 .. Len(r) : d[r[i]] = "retained"
         /\ \A i, j \in 1 .. Len(r) : r[i] = r[j] => i = j
  <1>1. Len(r) = Len(q) + 1 /\ r[Len(q) + 1] = p /\ \A i \in 1 .. Len(q) : r[i] = q[i]
    BY AppendProperties
  <1>2. Len(q) \in Nat /\ \A i \in 1 .. Len(q) : q[i] \in Payloads
    BY LenProperties, ElementOfSeq
  <1>. QED
    BY <1>1, <1>2

(* ArrayQueue::pop takes the only occurrence of its payload. *)
LEMMA PopKeepsRetained ==
  ASSUME NEW q \in Seq(Payloads), q # <<>>, NEW c \in [Payloads -> Custodies],
         \A i \in 1 .. Len(q) : c[q[i]] = "retained",
         \A i, j \in 1 .. Len(q) : q[i] = q[j] => i = j,
         NEW to, NEW d, d = [c EXCEPT ![Head(q)] = to], NEW r, r = Tail(q)
  PROVE  /\ c[Head(q)] = "retained"
         /\ \A i \in 1 .. Len(r) : d[r[i]] = "retained"
         /\ \A i, j \in 1 .. Len(r) : r[i] = r[j] => i = j
  <1>1. /\ Len(q) \in Nat /\ Len(q) # 0 /\ Head(q) = q[1]
        /\ Len(r) = Len(q) - 1 /\ \A i \in 1 .. Len(r) : r[i] = q[i + 1]
        /\ \A i \in 1 .. Len(q) : q[i] \in Payloads
    BY HeadTailProperties, LenProperties, ElementOfSeq, EmptySeq
  <1>2. \A i \in 1 .. Len(r) : i + 1 \in 1 .. Len(q) /\ q[i + 1] # q[1]
    BY <1>1
  <1>. QED
    BY <1>1, <1>2

(* A step that neither offers, pushes nor pops leaves every payload where  *)
(* it is.                                                                  *)
LEMMA QuietStep ==
  ASSUME IInv, CustodyInv, UNCHANGED <<queue, custody, arg>>,
         \A t \in Threads : pc'[t] = "push" <=> pc[t] = "push"
  PROVE  CustodyInv'
  BY DEF CustodyInv, CustodyFollowsCalls, QueueIsRetained

Simulated == CustodyInv' /\ [Custody!Next]_(Custody!vars)

(* An access that moves no payload and does not change what state()        *)
(* reports is a stutter of WorkCustody.                                    *)
LEMMA QuietIsStutter ==
  ASSUME IInv, CustodyInv, UNCHANGED <<queue, custody, arg>>, State' = State,
         \A t \in Threads : pc'[t] = "push" <=> pc[t] = "push"
  PROVE  Simulated
  BY QuietStep DEF Simulated, Custody!vars

(* Before a terminal claim state() reports the producer gate's phase. *)
LEMMA PermitMeansNormal ==
  ASSUME IInv, NEW t \in Threads, pc[t] \in Producing \cup Normally
  PROVE  terminal_state = "Normal" /\ State \in {"Open", "Closing"}
  <1>1. t \in producer_gate.permits \/ t \in normal_gate.permits
    BY DEF IInv, Control, PermitsFollowCalls
  <1>2. Phase(producer_gate) # "Sealed" \/ Phase(normal_gate) # "Sealed"
    BY <1>1 DEF IInv, TypeOK, Exact
  <1>. QED
    BY <1>2 DEF IInv, Control, CloseIsOrdered, State

(* producer_gate.reserve(): an admission is granted by an open mailbox     *)
(* only, and a refused payload was never in it.                            *)
LEMMA EnqueueReserveCustody ==
  ASSUME IInv, CustodyInv, NEW t \in Threads, NEW p \in Payloads, NEW post \in BOOLEAN,
         EnqueueReserve(t, p, post)
  PROVE  Simulated
  <1>. USE DEF IInv, TypeOK
  <1>1. CASE CanReserve(producer_gate)
    <2>1. /\ Phase(producer_gate) = "Open" /\ Phase(producer_gate') = "Open"
          /\ producer_gate'.permits = producer_gate.permits \cup {t}
      BY <1>1, ReserveIsExact DEF Control, PermitsFollowCalls, EnqueueReserve
    <2>2. State = "Open" /\ State' = "Open"
      BY <1>1, <2>1 DEF Control, CloseIsOrdered, State, EnqueueReserve
    <2>3. Custody!Admit(p)
      BY <1>1, <2>2 DEF Custody!Admit, Custody!Moves, EnqueueReserve
    <2>4. CustodyFollowsCalls'
      <3>1. /\ pc' = [pc EXCEPT ![t] = "push"] /\ arg' = [arg EXCEPT ![t] = p]
            /\ custody' = [custody EXCEPT ![p] = "submitted"] /\ custody[p] = "unsubmitted" /\ pc[t] = "idle"
        BY <1>1 DEF EnqueueReserve
      <3>2. \A u \in Threads : pc[u] = "push" => arg[u] \in Payloads /\ arg[u] # p
        BY <3>1 DEF CustodyInv, CustodyFollowsCalls, Control, CloseFollowsCalls
      <3>3. \A u \in Threads : At(u, "push")' => custody'[arg'[u]] = "submitted"
        BY <3>1, <3>2 DEF CustodyInv, CustodyFollowsCalls
      <3>4. \A u, w \in Threads : At(u, "push")' /\ At(w, "push")' /\ arg'[u] = arg'[w] => u = w
        BY <3>1, <3>2 DEF CustodyInv, CustodyFollowsCalls
      <3>5. \A q \in Payloads : custody'[q] = "submitted" => \E u \in Threads : At(u, "push")' /\ arg'[u] = q
        BY <3>1, <3>2 DEF CustodyInv, CustodyFollowsCalls
      <3>. QED
        BY <3>3, <3>4, <3>5 DEF CustodyFollowsCalls
    <2>5. QueueIsRetained'
      <3>1. \A i \in 1 .. Len(queue) : queue[i] \in Payloads
        BY ElementOfSeq
      <3>. QED
        BY <1>1, <3>1 DEF CustodyInv, QueueIsRetained, EnqueueReserve
    <2>. QED
      BY <2>3, <2>4, <2>5 DEF Simulated, CustodyInv, Custody!Next
  <1>2. CASE ~CanReserve(producer_gate)
    <2>1. State' = State
      BY <1>2 DEF State, EnqueueReserve
    <2>2. Custody!Refuse(p)
      BY <1>2, <2>1 DEF Custody!Refuse, Custody!Moves, EnqueueReserve
    <2>3. CustodyFollowsCalls'
      BY <1>2 DEF CustodyInv, CustodyFollowsCalls, EnqueueReserve, Custodies, Labels, Control, CloseFollowsCalls
    <2>4. QueueIsRetained'
      <3>1. \A i \in 1 .. Len(queue) : queue[i] \in Payloads
        BY ElementOfSeq
      <3>. QED
        BY <1>2, <3>1 DEF CustodyInv, QueueIsRetained, EnqueueReserve
    <2>. QED
      BY <2>2, <2>3, <2>4 DEF Simulated, CustodyInv, Custody!Next
  <1>. QED
    BY <1>1, <1>2

(* queue.push(value): retained behind everything already there, or Full,   *)
(* which returns the payload.  The mailbox cannot be terminal meanwhile.   *)
LEMMA EnqueuePushCustody ==
  ASSUME IInv, CustodyInv, NEW t \in Threads, EnqueuePush(t)
  PROVE  Simulated
  <1>. USE DEF IInv, TypeOK
  <1>. DEFINE p == arg[t]
  <1>1. p \in Payloads /\ custody[p] = "submitted"
    BY DEF EnqueuePush, Control, CloseFollowsCalls, CustodyInv, CustodyFollowsCalls
  <1>2. State \in {"Open", "Closing"} /\ State' = State
    BY PermitMeansNormal DEF EnqueuePush, State
  <1>3. CustodyFollowsCalls'
    BY <1>1 DEF EnqueuePush, Control, CloseFollowsCalls, CustodyInv, CustodyFollowsCalls, Custodies, Labels
  <1>4. CASE Len(queue) < Capacity
    <2>1. queue' = Append(queue, p) /\ custody' = [custody EXCEPT ![p] = "retained"]
      BY <1>4, CapacityAssumption, LenProperties DEF EnqueuePush
    <2>2. Custody!Retain(p)
      BY <1>1, <1>2, <1>4, <2>1 DEF Custody!Retain, Custody!Moves, Custody!Normal
    <2>3. QueueIsRetained'
      BY <1>1, <2>1, PushKeepsRetained DEF CustodyInv, QueueIsRetained
    <2>. QED
      BY <1>1, <1>3, <2>2, <2>3 DEF Simulated, CustodyInv, Custody!Next
  <1>5. CASE ~(Len(queue) < Capacity)
    <2>1. queue' = queue /\ custody' = [custody EXCEPT ![p] = "returned"]
      BY <1>5 DEF EnqueuePush
    <2>2. Custody!Refuse(p)
      BY <1>1, <1>2, <2>1 DEF Custody!Refuse, Custody!Moves
    <2>3. QueueIsRetained'
      <3>1. \A i \in 1 .. Len(queue) : queue[i] \in Payloads
        BY ElementOfSeq
      <3>. QED
        BY <1>1, <2>1, <3>1 DEF CustodyInv, QueueIsRetained
    <2>. QED
      BY <1>1, <1>3, <2>2, <2>3 DEF Simulated, CustodyInv, Custody!Next
  <1>. QED
    BY <1>4, <1>5

(* MailboxDrain::pop delivers the oldest payload, before any terminal claim. *)
LEMMA DrainPopCustody ==
  ASSUME IInv, CustodyInv, NEW t \in Threads, DrainPop(t)
  PROVE  Simulated
  <1>. USE DEF IInv, TypeOK
  <1>1. State \in {"Open", "Closing"} /\ State' = State
    BY PermitMeansNormal DEF DrainPop, State
  <1>2. custody[Head(queue)] = "retained" /\ QueueIsRetained' /\ Head(queue) \in Payloads
    <2>1. custody[Head(queue)] = "retained" /\ QueueIsRetained'
      BY PopKeepsRetained DEF CustodyInv, QueueIsRetained, DrainPop
    <2>. QED
      BY <2>1, PopFits DEF DrainPop
  <1>3. CustodyFollowsCalls'
    BY <1>2 DEF CustodyInv, CustodyFollowsCalls, DrainPop, Custodies, Labels, Control, CloseFollowsCalls
  <1>4. Custody!HandOver(Custody!Normal, "delivered")
    BY <1>1, <1>2 DEF Custody!HandOver, Custody!Moves, Custody!Normal, DrainPop
  <1>. QED
    BY <1>2, <1>3, <1>4 DEF Simulated, CustodyInv, Custody!Next

(* TerminalMailboxDrain::pop hands over what no normal drain took. *)
LEMMA TerminalPopCustody ==
  ASSUME IInv, CustodyInv, NEW t \in Threads, TerminalPop(t)
  PROVE  Simulated
  <1>. USE DEF IInv, TypeOK
  <1>1. State = "TerminalActive" /\ State' = State
    BY DEF Control, CloseFollowsCalls, TerminalPop, State
  <1>2. custody[Head(queue)] = "retained" /\ QueueIsRetained' /\ Head(queue) \in Payloads
    <2>1. custody[Head(queue)] = "retained" /\ QueueIsRetained'
      BY PopKeepsRetained DEF CustodyInv, QueueIsRetained, TerminalPop
    <2>. QED
      BY <2>1, PopFits DEF TerminalPop
  <1>3. CustodyFollowsCalls'
    BY <1>2 DEF CustodyInv, CustodyFollowsCalls, TerminalPop, Custodies, Labels, Control, CloseFollowsCalls
  <1>4. Custody!HandOver({"TerminalActive"}, "residual")
    BY <1>1, <1>2 DEF Custody!HandOver, Custody!Moves, TerminalPop
  <1>. QED
    BY <1>2, <1>3, <1>4 DEF Simulated, CustodyInv, Custody!Next

(* The gate operations behind enqueue's return, begin_close and the two    *)
(* producer-side steps of a terminal claim: only begin_close is visible.   *)
LEMMA GateCustody ==
  ASSUME IInv, CustodyInv, NEW t \in Threads,
         SettleProducer(t) \/ CloseProducers(t) \/ TerminalSealProducer(t)
  PROVE  Simulated
  <1>. USE DEF IInv, TypeOK
  <1>1. UNCHANGED <<queue, custody, arg>> /\ \A u \in Threads : pc'[u] = "push" <=> pc[u] = "push"
    BY DEF SettleProducer, CloseProducers, TerminalSealProducer
  <1>2. CASE SettleProducer(t)
    <2>1. Phase(producer_gate') = Phase(producer_gate)
      BY <1>2, SettleIsExact DEF SettleProducer, Control, PermitsFollowCalls
    <2>2. State' = State
      BY <1>2, <2>1 DEF State, SettleProducer
    <2>. QED
      BY <1>1, <2>2, QuietIsStutter
  <1>3. CASE TerminalSealProducer(t)
    <2>1. Phase(producer_gate) # "Open" /\ Phase(producer_gate') = "Sealed"
      BY <1>3, SealIsExact DEF TerminalSealProducer
    <2>2. State' = State
      BY <1>3, <2>1 DEF State, TerminalSealProducer
    <2>. QED
      BY <1>1, <2>2, QuietIsStutter
  <1>4. CASE CloseProducers(t)
    <2>1. /\ Phase(producer_gate') # "Open"
          /\ Phase(producer_gate) # "Open" => producer_gate' = producer_gate
      BY <1>4, BeginCloseIsExact DEF CloseProducers
    <2>2. CASE State = "Open"
      <3>1. State' = "Closing"
        BY <1>4, <2>1, <2>2 DEF State, CloseProducers
      <3>2. Custody!BeginClose
        BY <1>1, <2>2, <3>1 DEF Custody!BeginClose
      <3>. QED
        BY <1>1, <3>2, QuietStep DEF Simulated, Custody!Next
    <2>3. CASE State # "Open"
      <3>1. State' = State
        BY <1>4, <2>1, <2>3 DEF State, CloseProducers
      <3>. QED
        BY <1>1, <3>1, QuietIsStutter
    <2>. QED
      BY <2>2, <2>3
  <1>. QED
    BY <1>2, <1>3, <1>4

(* The terminal-state exchanges: the claim, finish() and the drop. *)
LEMMA TerminalCustody ==
  ASSUME IInv, CustodyInv, NEW t \in Threads,
         TerminalClaim(t) \/ TerminalFinishExchange(t) \/ TerminalDrop(t)
  PROVE  Simulated
  <1>. USE DEF IInv, TypeOK
  <1>1. UNCHANGED <<queue, custody, arg>> /\ \A u \in Threads : pc'[u] = "push" <=> pc[u] = "push"
    BY DEF TerminalClaim, TerminalFinishExchange, TerminalDrop
  <1>2. CustodyInv'
    BY <1>1, QuietStep
  <1>3. Phase(producer_gate) = "Sealed" /\ UNCHANGED producer_gate
    BY DEF Control, CloseFollowsCalls, TerminalClaim, TerminalFinishExchange, TerminalDrop
  <1>4. CASE terminal_state' = terminal_state
    <2>1. State' = State
      BY <1>3, <1>4 DEF State
    <2>. QED
      BY <1>1, <2>1, QuietIsStutter
  <1>5. CASE terminal_state' # terminal_state
    <2>1. CASE TerminalClaim(t)
      <3>1. State \in {"Closing", "TerminalPending"} /\ State' = "TerminalActive"
        BY <1>3, <1>5, <2>1 DEF State, TerminalClaim
      <3>2. \A p \in Payloads : custody[p] # "submitted"
        <4>1. producer_gate.permits = {}
          BY <1>3 DEF Exact
        <4>2. \A u \in Threads : pc[u] # "push"
          BY <4>1 DEF Control, PermitsFollowCalls
        <4>. QED
          BY <4>2 DEF CustodyInv, CustodyFollowsCalls
      <3>3. Custody!Claim
        BY <1>1, <3>1, <3>2 DEF Custody!Claim
      <3>. QED
        BY <1>2, <3>3 DEF Simulated, Custody!Next
    <2>2. CASE TerminalFinishExchange(t)
      <3>1. State = "TerminalActive" /\ State' = "TerminalClosed" /\ queue = <<>>
        BY <1>3, <1>5, <2>2 DEF State, TerminalFinishExchange, Control, CloseFollowsCalls
      <3>2. Custody!Finish
        BY <1>1, <3>1 DEF Custody!Finish
      <3>. QED
        BY <1>2, <3>2 DEF Simulated, Custody!Next
    <2>3. CASE TerminalDrop(t)
      <3>1. State = "TerminalActive" /\ State' = "TerminalPending"
        BY <1>3, <1>5, <2>3 DEF State, TerminalDrop
      <3>2. Custody!Release
        BY <1>1, <3>1 DEF Custody!Release
      <3>. QED
        BY <1>2, <3>2 DEF Simulated, Custody!Next
    <2>. QED
      BY <2>1, <2>2, <2>3
  <1>. QED
    BY <1>4, <1>5

(* Every other access stutters: requests, posts, retries, drain admission  *)
(* and the normal-drain side of a terminal claim move no payload.          *)
LEMMA OtherCustody ==
  ASSUME IInv, CustodyInv, NEW t \in Threads,
         \/ EnqueueRequest(t) \/ EnqueuePost(t)
         \/ RetryReserve(t) \/ RetryCheck(t) \/ RetryPost(t) \/ SettleNormal(t)
         \/ \E byTask \in BOOLEAN : DrainReserve(t, byTask)
         \/ DrainAcquire(t) \/ DrainPreserveRequest(t) \/ DrainFinish(t) \/ SuccessorPost(t)
         \/ \E post \in BOOLEAN : DrainPreserve(t, post)
         \/ TerminalCloseNormal(t) \/ TerminalSealNormal(t) \/ TerminalCloseSignal(t)
         \/ TerminalFinish(t)
  PROVE  Simulated
  <1>. USE DEF EnqueueRequest, EnqueuePost, RetryReserve, RetryCheck, RetryPost, SettleNormal,
               DrainReserve, DrainAcquire, DrainPreserveRequest, DrainFinish, SuccessorPost,
               DrainPreserve, TerminalCloseNormal, TerminalSealNormal, TerminalCloseSignal,
               TerminalFinish
  <1>1. UNCHANGED <<queue, custody, arg, producer_gate, terminal_state>>
    OBVIOUS
  <1>2. \A u \in Threads : pc'[u] = "push" <=> pc[u] = "push"
    BY DEF IInv, TypeOK
  <1>3. State' = State
    BY <1>1 DEF State
  <1>. QED
    BY <1>1, <1>2, <1>3, QuietIsStutter

(* Each access of each thread is one step of WorkCustody or none. *)
LEMMA NextCustody == IInv /\ CustodyInv /\ [Next]_vars => Simulated
  <1>. SUFFICES ASSUME IInv, CustodyInv, [Next]_vars PROVE Simulated
    OBVIOUS
  <1>1. ASSUME NEW t \in Producers, Enqueue(t) PROVE Simulated
    <2>. t \in Threads
      BY DEF Threads
    <2>. QED
      BY <1>1, EnqueueReserveCustody, EnqueuePushCustody, GateCustody, OtherCustody DEF Enqueue
  <1>2. ASSUME NEW t \in Consumers, RetryPending(t) PROVE Simulated
    <2>. t \in Threads
      BY DEF Threads
    <2>. QED
      BY <1>2, OtherCustody DEF RetryPending
  <1>3. ASSUME NEW t \in Consumers, Drain(t) PROVE Simulated
    <2>. t \in Threads
      BY DEF Threads
    <2>. QED
      BY <1>3, DrainPopCustody, OtherCustody DEF Drain
  <1>4. ASSUME NEW t \in Closers, Terminal(t) PROVE Simulated
    <2>. t \in Threads
      BY DEF Threads
    <2>. QED
      BY <1>4, GateCustody, TerminalCustody, TerminalPopCustody, OtherCustody DEF Terminal
  <1>5. CASE UNCHANGED vars
    <2>1. UNCHANGED <<queue, custody, arg, pc, producer_gate, terminal_state>>
      BY <1>5 DEF vars
    <2>2. State' = State
      BY <2>1 DEF State
    <2>. QED
      BY <2>1, <2>2, QuietIsStutter
  <1>. QED
    BY <1>1, <1>2, <1>3, <1>4, <1>5 DEF Next

(* The mailbox implements WorkCustody for any number of threads, payloads  *)
(* and any capacity: seen through state(), a payload is refused or         *)
(* retained, handed over once and in order, by normal drains before the    *)
(* terminal claim and by the terminal owner after it.                      *)
THEOREM MailboxImplementsCustody == Spec => ImplementsWorkCustody
  <1>1. ASSUME Init PROVE CustodyInv /\ Custody!Init
    <2>1. CustodyFollowsCalls
      BY <1>1 DEF Init, CustodyFollowsCalls
    <2>2. QueueIsRetained
      BY <1>1 DEF Init, QueueIsRetained
    <2>3. State = "Open"
      BY <1>1, NewGateIsExact DEF Init, State
    <2>. QED
      BY <1>1, <2>1, <2>2, <2>3 DEF Init, CustodyInv, Custody!Init
  <1>2. IInv /\ CustodyInv /\ [Next]_vars => CustodyInv' /\ [Custody!Next]_(Custody!vars)
    BY NextCustody DEF Simulated
  <1>. QED
    BY <1>1, <1>2, InductiveInvariant, PTL DEF Spec, ImplementsWorkCustody, Custody!Spec
----------------------------------------------------------------------------
(* A gate on its own, IngressGateSpec: the operations are the mailbox's,    *)
(* for any set of holders.                                                  *)
CONSTANT Holders
VARIABLE gate

Alone == INSTANCE IngressGateSpec

(* The instance is of the same gate, word for word (ingress.rs:97-240). *)
LEMMA SameGate ==
  /\ Alone!NewGate = NewGate
  /\ \A g : /\ Alone!Phase(g) = Phase(g) /\ (Alone!Exact(g) <=> Exact(g))
            /\ (Alone!CanReserve(g) <=> CanReserve(g)) /\ (Alone!CanSeal(g) <=> CanSeal(g))
            /\ Alone!BeginClose(g) = BeginClose(g) /\ Alone!Seal(g) = Seal(g)
  /\ \A g, h : Alone!Reserve(g, h) = Reserve(g, h) /\ Alone!Settle(g, h) = Settle(g, h)
  <1>1. Alone!OPEN = OPEN /\ Alone!CLOSING = CLOSING /\ Alone!SEALED = SEALED
        /\ Alone!Unit = Unit /\ Alone!WordSize = WordSize
    BY DEF Alone!OPEN, Alone!CLOSING, Alone!SEALED, Alone!WordSize, Alone!Unit,
           OPEN, CLOSING, SEALED, WordSize, Unit
  <1>2. \A w : Alone!PhaseOf(w) = PhaseOf(w) /\ Alone!CountOf(w) = CountOf(w)
    BY <1>1 DEF Alone!PhaseOf, Alone!CountOf, PhaseOf, CountOf
  <1>3. \A g : Alone!Phase(g) = Phase(g)
    BY <1>2 DEF Alone!Phase, Phase
  <1>4. Alone!NewGate = NewGate
    BY <1>1 DEF Alone!NewGate, NewGate
  <1>5. \A g : /\ (Alone!Exact(g) <=> Exact(g))
              /\ (Alone!CanReserve(g) <=> CanReserve(g)) /\ (Alone!CanSeal(g) <=> CanSeal(g))
    <2>. TAKE g
    <2>1. /\ Alone!Phase(g) = Phase(g) /\ Alone!CountOf(g.word) = CountOf(g.word)
          /\ Alone!WordSize = WordSize
      BY <1>1, <1>2, <1>3
    <2>2. Alone!IsFiniteSet(g.permits) <=> IsFiniteSet(g.permits)
      BY DEF Alone!IsFiniteSet, IsFiniteSet
    <2>3. Alone!Cardinality(g.permits) = Cardinality(g.permits)
      BY <2>2, Zenon DEF Alone!Cardinality, Cardinality
    <2>4. Alone!Exact(g) <=> Exact(g)
      BY <2>1, <2>2, <2>3 DEF Alone!Exact, Exact
    <2>5. (Alone!CanReserve(g) <=> CanReserve(g)) /\ (Alone!CanSeal(g) <=> CanSeal(g))
      BY <2>1 DEF Alone!CanReserve, CanReserve, Alone!CanSeal, CanSeal
    <2>. QED
      BY <2>4, <2>5
  <1>6. \A g : Alone!BeginClose(g) = BeginClose(g) /\ Alone!Seal(g) = Seal(g)
    <2>. TAKE g
    <2>1. /\ Alone!Phase(g) = Phase(g) /\ Alone!CountOf(g.word) = CountOf(g.word)
          /\ Alone!CLOSING = CLOSING /\ Alone!SEALED = SEALED
      BY <1>1, <1>2, <1>3
    <2>2. Alone!BeginClose(g) = BeginClose(g)
      BY <2>1 DEF Alone!BeginClose, BeginClose
    <2>3. Alone!Seal(g) = Seal(g)
      BY <2>1 DEF Alone!Seal, Seal
    <2>. QED
      BY <2>2, <2>3
  <1>7. \A g, h : Alone!Reserve(g, h) = Reserve(g, h) /\ Alone!Settle(g, h) = Settle(g, h)
    BY <1>1 DEF Alone!Reserve, Reserve, Alone!Settle, Settle
  <1>. QED
    BY <1>3, <1>4, <1>5, <1>6, <1>7

(* The admission word (ingress.rs:129-240) is exact in every reachable     *)
(* state, for every word size and set of holders.                          *)
THEOREM GateStaysExact == Alone!Spec => []Alone!GateIsExact
  <1>1. Alone!Init => Alone!GateIsExact
    BY SameGate, NewGateIsExact DEF Alone!Init, Alone!GateIsExact, NewGate
  <1>2. Alone!GateIsExact /\ [Alone!Next]_gate => Alone!GateIsExact'
    <2>. SUFFICES ASSUME Alone!GateIsExact, [Alone!Next]_gate PROVE Alone!GateIsExact'
      OBVIOUS
    <2>1. ASSUME NEW h \in Holders \ gate.permits, Alone!Granted(h) PROVE Alone!GateIsExact'
      BY <2>1, SameGate, ReserveIsExact DEF Alone!Granted, Alone!GateIsExact
    <2>2. ASSUME NEW h \in gate.permits, Alone!Settled(h) PROVE Alone!GateIsExact'
      BY <2>2, SameGate, SettleIsExact DEF Alone!Settled, Alone!GateIsExact
    <2>3. CASE Alone!Closed
      BY <2>3, SameGate, BeginCloseIsExact DEF Alone!Closed, Alone!GateIsExact
    <2>4. CASE Alone!Sealed
      BY <2>4, SameGate, SealIsExact DEF Alone!Sealed, Alone!GateIsExact
    <2>. QED
      BY <2>1, <2>2, <2>3, <2>4 DEF Alone!Next, Alone!GateIsExact
  <1>. QED
    BY <1>1, <1>2, PTL DEF Alone!Spec

(* begin_close (ingress.rs:159) is final for every word size and set of    *)
(* holders.                                                                *)
THEOREM GateCloseIsFinal == Alone!Spec => Alone!CloseIsFinal
  <1>. DEFINE Forward == /\ Alone!Rank(gate') >= Alone!Rank(gate)
                         /\ Alone!Phase(gate) # "Open" => gate'.permits \subseteq gate.permits
  <1>1. Alone!GateIsExact /\ [Alone!Next]_gate => [Forward]_gate
    <2>. SUFFICES ASSUME Alone!GateIsExact, Alone!Next PROVE Forward
      OBVIOUS
    <2>1. ASSUME NEW h \in Holders \ gate.permits, Alone!Granted(h) PROVE Forward
      BY <2>1, SameGate, ReserveIsExact DEF Alone!Granted, Alone!GateIsExact, Alone!Rank
    <2>2. ASSUME NEW h \in gate.permits, Alone!Settled(h) PROVE Forward
      BY <2>2, SameGate, SettleIsExact DEF Alone!Settled, Alone!GateIsExact, Alone!Rank
    <2>3. CASE Alone!Closed
      BY <2>3, SameGate, BeginCloseIsExact DEF Alone!Closed, Alone!GateIsExact, Alone!Rank
    <2>4. CASE Alone!Sealed
      BY <2>4, SameGate, SealIsExact DEF Alone!Sealed, Alone!GateIsExact, Alone!Rank
    <2>. QED
      BY <2>1, <2>2, <2>3, <2>4 DEF Alone!Next
  <1>. QED
    BY <1>1, GateStaysExact, PTL DEF Alone!Spec, Alone!CloseIsFinal
----------------------------------------------------------------------------
(* The test kit's oracle of closable queues, WorkQueue, makes the same      *)
(* promise.  It is proved of any queue, custody and other state, so it may  *)
(* share the names of the mailbox's.                                        *)
CONSTANT MAX
VARIABLES state, reservations, active_drain, active_terminal_drain,
          next_reservation, next_lease, next_terminal_lease, carries

Oracle == INSTANCE WorkQueue

Reservations == 1 .. Len(carries)

OracleTyped ==
  /\ queue \in Seq(Payloads) /\ Len(queue) <= Capacity
  /\ custody \in [Payloads -> Custodies] /\ carries \in Seq(Payloads)
  /\ state \in {"Open", "Closing", "TerminalDraining", "TerminalPending", "Closed"}
  /\ next_reservation \in 0 .. MAX /\ next_lease \in 0 .. MAX /\ next_terminal_lease \in 0 .. MAX

(* Every reservation that was issued carries a payload of its own, which is *)
(* submitted exactly while the reservation is live.                         *)
ReservationsCarry ==
  /\ Len(carries) = IF next_reservation = 0 THEN MAX ELSE next_reservation - 1
  /\ reservations \subseteq Reservations
  /\ \A r \in Reservations :
       /\ custody[carries[r]] # "unsubmitted"
       /\ r \in reservations <=> custody[carries[r]] = "submitted"
  /\ \A r, s \in Reservations : carries[r] = carries[s] => r = s
  /\ \A p \in Payloads : custody[p] = "submitted" => \E r \in Reservations : carries[r] = p

(* Live tokens belong to their phase. *)
TokensFollowPhases ==
  /\ reservations # {} \/ active_drain # 0 => state \in {"Open", "Closing"}
  /\ active_terminal_drain # 0 => state = "TerminalDraining"

OracleInv == OracleTyped /\ QueueIsRetained /\ ReservationsCarry /\ TokensFollowPhases

OracleSimulates == OracleInv' /\ [Oracle!Custody!Next]_(Oracle!Custody!vars)

(* A payload that is not retained may move without touching the queue. *)
LEMMA QueueStaysRetained ==
  ASSUME OracleInv, UNCHANGED queue, NEW p \in Payloads, custody[p] # "retained", NEW to,
         custody' = [custody EXCEPT ![p] = to]
  PROVE  QueueIsRetained'
  <1>1. \A i \in 1 .. Len(queue) : queue[i] \in Payloads
    BY ElementOfSeq DEF OracleInv, OracleTyped
  <1>. QED
    BY <1>1 DEF OracleInv, OracleTyped, QueueIsRetained

(* A payload that no live reservation carries moves on without them. *)
LEMMA ReservationsStay ==
  ASSUME OracleInv, NEW p \in Payloads, custody[p] # "submitted",
         NEW to \in {"returned", "delivered", "residual"}, custody' = [custody EXCEPT ![p] = to],
         UNCHANGED <<carries, reservations, next_reservation>>
  PROVE  ReservationsCarry'
  <1>1. \A r \in Reservations : carries[r] \in Payloads
    BY ElementOfSeq DEF OracleInv, OracleTyped, Reservations
  <1>. QED
    BY <1>1 DEF OracleInv, OracleTyped, ReservationsCarry, Reservations

(* A live reservation settles, and its payload is submitted no longer. *)
LEMMA ReservationSettles ==
  ASSUME OracleInv, NEW r \in reservations, NEW to \in {"returned", "retained"},
         custody' = [custody EXCEPT ![carries[r]] = to], reservations' = reservations \ {r},
         UNCHANGED <<carries, next_reservation>>
  PROVE  ReservationsCarry' /\ carries[r] \in Payloads /\ custody[carries[r]] = "submitted"
  <1>1. \A s \in Reservations : carries[s] \in Payloads
    BY ElementOfSeq DEF OracleInv, OracleTyped, Reservations
  <1>2. r \in Reservations /\ custody[carries[r]] = "submitted"
    BY DEF OracleInv, ReservationsCarry
  <1>. QED
    BY <1>1, <1>2 DEF OracleInv, OracleTyped, ReservationsCarry, Reservations

(* reserve (work_queue.rs:186): an open queue issues the next reservation.  *)
LEMMA OracleReserve ==
  ASSUME OracleInv, MAX \in Nat \ {0}, NEW p \in Payloads, Oracle!reserve(p)
  PROVE  OracleSimulates
  <1>. USE DEF OracleInv, Oracle!reserve, Oracle!Moves, Oracle!None, Oracle!leases, Oracle!tokens
  <1>1. /\ custody[p] = "unsubmitted" /\ custody' = [custody EXCEPT ![p] = "submitted"] /\ carries' = Append(carries, p)
        /\ state = "Open" /\ UNCHANGED <<state, queue>>
    OBVIOUS
  <1>2. OracleTyped'
    <2>1. Append(carries, p) \in Seq(Payloads)
      BY AppendProperties DEF OracleTyped
    <2>2. custody' \in [Payloads -> Custodies]
      BY <1>1 DEF OracleTyped, Custodies
    <2>3. next_reservation' \in 0 .. MAX
      BY DEF Oracle!Successor, OracleTyped
    <2>. QED
      BY <1>1, <2>1, <2>2, <2>3 DEF OracleTyped
  <1>3. QueueIsRetained'
    BY <1>1, QueueStaysRetained
  <1>4. ReservationsCarry'
    <2>. DEFINE next == Len(carries) + 1
    <2>1. /\ Len(carries') = next /\ Len(carries) \in Nat /\ carries'[next] = p
          /\ \A r \in 1 .. Len(carries) : carries'[r] = carries[r]
          /\ \A r \in 1 .. Len(carries) : carries[r] \in Payloads
      BY <1>1, AppendProperties, LenProperties, ElementOfSeq DEF OracleTyped
    <2>2. /\ next_reservation = next /\ next \in 1 .. MAX
          /\ next_reservation' = IF next < MAX THEN next + 1 ELSE 0
      BY <2>1 DEF ReservationsCarry, OracleTyped, Oracle!Successor
    <2>3. reservations' = reservations \cup {next} /\ Reservations' = Reservations \cup {next} /\ next \notin Reservations
      BY <2>1, <2>2 DEF Reservations
    <2>4. \A r \in Reservations : carries[r] # p
      BY <1>1 DEF ReservationsCarry
    <2>5. Len(carries') = IF next_reservation' = 0 THEN MAX ELSE next_reservation' - 1
      BY <2>1, <2>2
    <2>6. reservations' \subseteq Reservations'
      BY <2>3 DEF ReservationsCarry
    <2>7. ASSUME NEW r \in Reservations'
          PROVE  custody'[carries'[r]] # "unsubmitted" /\ (r \in reservations' <=> custody'[carries'[r]] = "submitted")
      <3>1. CASE r = next
        BY <1>1, <2>1, <2>3, <3>1 DEF OracleTyped
      <3>2. CASE r # next
        <4>1. r \in Reservations /\ carries'[r] = carries[r] /\ carries[r] \in Payloads /\ carries[r] # p
          BY <2>1, <2>3, <2>4, <3>2 DEF Reservations
        <4>2. custody'[carries'[r]] = custody[carries[r]]
          BY <1>1, <4>1 DEF OracleTyped
        <4>. QED
          BY <2>3, <3>2, <4>1, <4>2 DEF ReservationsCarry
      <3>. QED
        BY <3>1, <3>2
    <2>8. \A r, s \in Reservations' : carries'[r] = carries'[s] => r = s
      BY <2>1, <2>3, <2>4 DEF ReservationsCarry, Reservations
    <2>9. ASSUME NEW q \in Payloads, custody'[q] = "submitted" PROVE \E r \in Reservations' : carries'[r] = q
      <3>1. CASE q = p
        BY <2>1, <2>3, <3>1
      <3>2. CASE q # p
        BY <1>1, <2>1, <2>3, <2>9, <3>2 DEF ReservationsCarry, OracleTyped, Reservations
      <3>. QED
        BY <3>1, <3>2
    <2>. QED
      BY <2>5, <2>6, <2>7, <2>8, <2>9 DEF ReservationsCarry
  <1>5. TokensFollowPhases'
    BY <1>1 DEF TokensFollowPhases
  <1>6. Oracle!Custody!Admit(p)
    BY <1>1 DEF Oracle!Custody!Admit, Oracle!Custody!Moves, Oracle!Phase
  <1>. QED
    BY <1>2, <1>3, <1>4, <1>5, <1>6 DEF OracleSimulates, Oracle!Custody!Next

(* publish (work_queue.rs:209): a live reservation settles, with room or     *)
(* without; a settled one gives the payload back.                           *)
LEMMA OraclePublish ==
  ASSUME OracleInv, NEW p \in Payloads, NEW r, Oracle!publish(r, p)
  PROVE  OracleSimulates
  <1>. USE DEF OracleInv, Oracle!Moves, Oracle!leases, Oracle!tokens
  <1>1. CASE r \in reservations /\ p = carries[r] /\ Oracle!Publishes(r, p)
    <2>. USE DEF Oracle!Publishes
    <2>1. /\ UNCHANGED <<carries, next_reservation, next_lease, next_terminal_lease, state>>
          /\ UNCHANGED <<active_drain, active_terminal_drain>> /\ reservations' = reservations \ {r}
      BY <1>1
    <2>2. custody[p] = "submitted"
      BY <1>1 DEF ReservationsCarry
    <2>3. state \in {"Open", "Closing"} /\ TokensFollowPhases'
      BY <1>1, <2>1 DEF TokensFollowPhases
    <2>4. CASE Len(queue) = Capacity
      <3>1. custody' = [custody EXCEPT ![p] = "returned"] /\ UNCHANGED queue
        BY <1>1, <2>4
      <3>2. OracleTyped'
        BY <2>1, <3>1 DEF OracleTyped, Custodies
      <3>3. QueueIsRetained' /\ ReservationsCarry'
        BY <1>1, <2>1, <2>2, <3>1, QueueStaysRetained, ReservationSettles
      <3>4. Oracle!Custody!Refuse(p)
        BY <2>1, <2>2, <3>1 DEF Oracle!Custody!Refuse, Oracle!Custody!Moves, Oracle!Phase
      <3>. QED
        BY <2>3, <3>2, <3>3, <3>4 DEF OracleSimulates, Oracle!Custody!Next
    <2>5. CASE Len(queue) # Capacity
      <3>1. custody' = [custody EXCEPT ![p] = "retained"] /\ queue' = Append(queue, p)
        BY <1>1, <2>5
      <3>2. Len(queue) \in Nat /\ Len(queue) < Capacity
        BY <2>5, LenProperties, CapacityAssumption DEF OracleTyped
      <3>3. OracleTyped'
        <4>1. Append(queue, p) \in Seq(Payloads) /\ Len(Append(queue, p)) = Len(queue) + 1
          BY AppendProperties DEF OracleTyped
        <4>2. Len(Append(queue, p)) <= Capacity
          BY <3>2, <4>1, CapacityAssumption
        <4>3. custody' \in [Payloads -> Custodies]
          BY <3>1 DEF OracleTyped, Custodies
        <4>. QED
          BY <2>1, <3>1, <4>1, <4>2, <4>3 DEF OracleTyped
      <3>4. ReservationsCarry'
        BY <1>1, <2>1, <3>1, ReservationSettles
      <3>5. QueueIsRetained'
        BY <2>2, <3>1, PushKeepsRetained DEF OracleTyped, QueueIsRetained
      <3>6. Oracle!Custody!Retain(p)
        BY <2>1, <2>2, <2>3, <3>1, <3>2
           DEF Oracle!Custody!Retain, Oracle!Custody!Normal, Oracle!Custody!Moves, Oracle!Phase
      <3>. QED
        BY <2>3, <3>3, <3>4, <3>5, <3>6 DEF OracleSimulates, Oracle!Custody!Next
    <2>. QED
      BY <2>4, <2>5
  <1>2. CASE /\ r \notin reservations /\ custody[p] = "unsubmitted" /\ Oracle!Moves(p, "returned")
             /\ UNCHANGED <<state, queue, reservations, Oracle!leases, Oracle!tokens, carries>>
    <2>1. OracleTyped' /\ TokensFollowPhases'
      BY <1>2 DEF OracleTyped, TokensFollowPhases, Custodies
    <2>2. QueueIsRetained' /\ ReservationsCarry'
      BY <1>2, QueueStaysRetained, ReservationsStay
    <2>3. Oracle!Custody!Refuse(p)
      BY <1>2 DEF Oracle!Custody!Refuse, Oracle!Custody!Moves, Oracle!Phase
    <2>. QED
      BY <2>1, <2>2, <2>3 DEF OracleSimulates, Oracle!Custody!Next
  <1>. QED
    BY <1>1, <1>2 DEF Oracle!publish

(* abandon (work_queue.rs:230): the payload was never retained. *)
LEMMA OracleAbandon ==
  ASSUME OracleInv, NEW r, Oracle!abandon(r)
  PROVE  OracleSimulates
  <1>. USE DEF OracleInv, Oracle!abandon, Oracle!Moves, Oracle!leases, Oracle!tokens
  <1>1. /\ r \in reservations /\ custody' = [custody EXCEPT ![carries[r]] = "returned"]
        /\ reservations' = reservations \ {r} /\ UNCHANGED <<state, queue, carries, next_reservation>>
    OBVIOUS
  <1>2. ReservationsCarry' /\ carries[r] \in Payloads /\ custody[carries[r]] = "submitted"
    BY <1>1, ReservationSettles
  <1>3. QueueIsRetained'
    BY <1>1, <1>2, QueueStaysRetained
  <1>4. OracleTyped' /\ TokensFollowPhases'
    BY <1>1 DEF OracleTyped, TokensFollowPhases, Custodies
  <1>5. Oracle!Custody!Refuse(carries[r])
    BY <1>1, <1>2 DEF Oracle!Custody!Refuse, Oracle!Custody!Moves, Oracle!Phase
  <1>. QED
    BY <1>2, <1>3, <1>4, <1>5 DEF OracleSimulates, Oracle!Custody!Next

(* pop and pop_terminal (work_queue.rs:283, 344) give the oldest payload to  *)
(* whom the live lease is of.                                               *)
LEMMA OraclePops ==
  ASSUME OracleInv, NEW to \in {"delivered", "residual"}, Oracle!PopsTo(to),
         to = "delivered" => state \in {"Open", "Closing"},
         to = "residual" => state = "TerminalDraining"
  PROVE  OracleSimulates
  <1>. USE DEF OracleInv, Oracle!PopsTo, Oracle!Moves, Oracle!leases, Oracle!tokens
  <1>1. /\ queue \in Seq(Payloads) /\ queue # <<>> /\ queue' = Tail(queue)
        /\ custody' = [custody EXCEPT ![Head(queue)] = to]
        /\ UNCHANGED <<state, reservations, carries, active_drain, active_terminal_drain>>
        /\ UNCHANGED <<next_reservation, next_lease, next_terminal_lease>>
    BY DEF OracleTyped
  <1>2. custody[Head(queue)] = "retained" /\ QueueIsRetained'
    BY <1>1, PopKeepsRetained DEF OracleTyped, QueueIsRetained
  <1>3. /\ Head(queue) \in Payloads /\ Tail(queue) \in Seq(Payloads) /\ Len(Tail(queue)) <= Capacity
    BY <1>1, HeadTailProperties, LenProperties, EmptySeq, CapacityAssumption DEF OracleTyped
  <1>4. OracleTyped'
    BY <1>1, <1>3 DEF OracleTyped, Custodies
  <1>5. ReservationsCarry'
    BY <1>1, <1>2, <1>3, ReservationsStay
  <1>6. TokensFollowPhases'
    BY <1>1 DEF TokensFollowPhases
  <1>7. \/ Oracle!Custody!HandOver(Oracle!Custody!Normal, "delivered")
        \/ Oracle!Custody!HandOver({"TerminalActive"}, "residual")
    BY <1>1, <1>2 DEF Oracle!Custody!HandOver, Oracle!Custody!Normal, Oracle!Custody!Moves, Oracle!Phase
  <1>. QED
    BY <1>2, <1>4, <1>5, <1>6, <1>7 DEF OracleSimulates, Oracle!Custody!Next

(* Closing, leases and the terminal phase move no payload. *)
LEMMA OracleLeases ==
  ASSUME OracleInv, UNCHANGED <<queue, custody, carries, reservations, next_reservation>>,
         OracleTyped', TokensFollowPhases',
         \/ UNCHANGED state
         \/ state = "Open" /\ state' = "Closing"
         \/ state \in {"Closing", "TerminalPending"} /\ reservations = {} /\ state' = "TerminalDraining"
         \/ state = "TerminalDraining" /\ state' = "TerminalPending"
         \/ state = "TerminalDraining" /\ queue = <<>> /\ state' = "Closed"
  PROVE  OracleSimulates
  <1>1. QueueIsRetained' /\ ReservationsCarry'
    BY DEF OracleInv, QueueIsRetained, ReservationsCarry, Reservations
  <1>2. reservations = {} => \A p \in Payloads : custody[p] # "submitted"
    BY DEF OracleInv, ReservationsCarry
  <1>3. [Oracle!Custody!Next]_(Oracle!Custody!vars)
    BY <1>2 DEF Oracle!Custody!Next, Oracle!Custody!vars, Oracle!Custody!BeginClose, Oracle!Custody!Claim,
                Oracle!Custody!Release, Oracle!Custody!Finish, Oracle!Phase
  <1>. QED
    BY <1>1, <1>3 DEF OracleSimulates, OracleInv

(* Every operation, with any token that was ever issued. *)
LEMMA OracleNext ==
  ASSUME OracleInv, MAX \in Nat \ {0}, [Oracle!Next]_(Oracle!vars)
  PROVE  OracleSimulates
  <1>. USE DEF Oracle!None, Oracle!leases, Oracle!tokens
  <1>1. CASE UNCHANGED Oracle!vars
    BY <1>1, OracleLeases DEF Oracle!vars, OracleInv, OracleTyped, TokensFollowPhases
  <1>2. CASE Oracle!begin_close
    BY <1>2, OracleLeases DEF Oracle!begin_close, OracleInv, OracleTyped, TokensFollowPhases
  <1>3. CASE Oracle!begin_drain
    <2>1. next_lease' \in 0 .. MAX
      BY <1>3 DEF Oracle!begin_drain, Oracle!Successor, OracleInv, OracleTyped
    <2>. QED
      BY <1>3, <2>1, OracleLeases DEF Oracle!begin_drain, OracleInv, OracleTyped, TokensFollowPhases
  <1>4. CASE Oracle!begin_terminal_drain
    <2>1. next_terminal_lease' \in 0 .. MAX
      BY <1>4 DEF Oracle!begin_terminal_drain, Oracle!Successor, OracleInv, OracleTyped
    <2>2. reservations = {} /\ active_drain = 0
      BY <1>4 DEF Oracle!begin_terminal_drain, OracleInv, TokensFollowPhases
    <2>. QED
      BY <1>4, <2>1, <2>2, OracleLeases
         DEF Oracle!begin_terminal_drain, Oracle!Terminal, OracleInv, OracleTyped, TokensFollowPhases
  <1>5. ASSUME NEW lease \in Oracle!Issued(next_lease), Oracle!pop(lease) \/ Oracle!finish_drain(lease)
        PROVE  OracleSimulates
    <2>1. lease # 0
      BY DEF Oracle!Issued, OracleInv, OracleTyped
    <2>2. CASE Oracle!pop(lease)
      BY <2>1, <2>2, OraclePops DEF Oracle!pop, Oracle!require_active_drain, OracleInv, TokensFollowPhases
    <2>3. CASE Oracle!finish_drain(lease)
      BY <2>3, OracleLeases DEF Oracle!finish_drain, OracleInv, OracleTyped, TokensFollowPhases
    <2>. QED
      BY <1>5, <2>2, <2>3
  <1>6. ASSUME NEW lease \in Oracle!Issued(next_terminal_lease),
               Oracle!pop_terminal(lease) \/ Oracle!finish_terminal_drain(lease) \/ Oracle!release_terminal_drain(lease)
        PROVE  OracleSimulates
    <2>1. lease # 0
      BY DEF Oracle!Issued, OracleInv, OracleTyped
    <2>2. active_terminal_drain = lease /\ state = "TerminalDraining"
      BY <1>6, <2>1 DEF Oracle!pop_terminal, Oracle!finish_terminal_drain, Oracle!release_terminal_drain,
                        Oracle!require_active_terminal_drain, OracleInv, TokensFollowPhases
    <2>3. CASE Oracle!pop_terminal(lease)
      BY <2>2, <2>3, OraclePops DEF Oracle!pop_terminal
    <2>4. CASE Oracle!finish_terminal_drain(lease)
      BY <2>2, <2>4, OracleLeases
         DEF Oracle!finish_terminal_drain, Oracle!Terminal, OracleInv, OracleTyped, TokensFollowPhases
    <2>5. CASE Oracle!release_terminal_drain(lease)
      BY <2>2, <2>5, OracleLeases
         DEF Oracle!release_terminal_drain, Oracle!Terminal, OracleInv, OracleTyped, TokensFollowPhases
    <2>. QED
      BY <1>6, <2>3, <2>4, <2>5
  <1>. QED
    BY <1>1, <1>2, <1>3, <1>4, <1>5, <1>6, OracleReserve, OraclePublish, OracleAbandon DEF Oracle!Next

(* work_queue.rs:186-388: the oracle too refuses a payload or retains it    *)
(* and hands it over once, in order, and to the terminal owner only when no *)
(* reservation is live, for any payloads and capacity, and whichever stale  *)
(* reservations and leases it is given.                                     *)
THEOREM OracleImplementsCustody ==
  ASSUME MAX \in Nat \ {0}
  PROVE  Oracle!Spec => Oracle!ImplementsWorkCustody
  <1>1. Oracle!Init => OracleInv /\ Oracle!Custody!Init
    <2>. SUFFICES ASSUME Oracle!Init PROVE OracleInv /\ Oracle!Custody!Init
      OBVIOUS
    <2>. USE DEF Oracle!Init, Oracle!None
    <2>1. Len(queue) = 0 /\ Len(carries) = 0 /\ queue \in Seq(Payloads) /\ carries \in Seq(Payloads)
      BY EmptySeq
    <2>2. OracleTyped
      BY <2>1, CapacityAssumption DEF OracleTyped, Custodies
    <2>3. QueueIsRetained /\ ReservationsCarry /\ TokensFollowPhases
      BY <2>1 DEF QueueIsRetained, ReservationsCarry, TokensFollowPhases, Reservations
    <2>4. Oracle!Custody!Init
      BY DEF Oracle!Custody!Init, Oracle!Phase
    <2>. QED
      BY <2>2, <2>3, <2>4 DEF OracleInv
  <1>2. OracleInv /\ [Oracle!Next]_(Oracle!vars) => OracleInv' /\ [Oracle!Custody!Next]_(Oracle!Custody!vars)
    BY OracleNext DEF OracleSimulates
  <1>. QED
    BY <1>1, <1>2, PTL DEF Oracle!Spec, Oracle!ImplementsWorkCustody, Oracle!Custody!Spec
=============================================================================
