-------------------------- MODULE ClosableMailbox --------------------------
(***************************************************************************)
(* The closable bounded mailbox of runtime/src/closable_mailbox.rs, shared *)
(* by producer threads, drain threads and close owners.                    *)
(*                                                                         *)
(* Its five pieces of shared state are a bounded FIFO of payloads, a       *)
(* DrainSignal, two IngressGates (one admits producers, the other normal   *)
(* drains) and the terminal state.  No lock covers them: each action below *)
(* is ONE atomic access of ONE of them, and `pc' says which access a       *)
(* thread's current call makes next.  `custody' is the history of each     *)
(* payload, `posts' the drain tasks the host has accepted and not yet run  *)
(* (DrainPoster, host/src/post.rs: Ok means accepted, nothing more).       *)
(***************************************************************************)
EXTENDS Integers, Sequences, FiniteSets, IngressGate

CONSTANTS
  Producers,         \* threads that call enqueue and enqueue_and_post
  Consumers,         \* threads that acquire drains and retry posts
  Closers,           \* threads that begin close and claim terminal ownership
  Payloads,          \* each is offered at most once
  NoPayload,         \* stands for the absence of one
  Capacity,          \* ArrayQueue capacity, a NonZeroUsize
  MaxPosts           \* drain tasks the host holds before it refuses one

ASSUME NoPayloadAssumption == NoPayload \notin Payloads
ASSUME CapacityAssumption  == Capacity \in Nat \ {0}
ASSUME MaxPostsAssumption  == MaxPosts \in Nat

Threads   == Producers \cup Consumers \cup Closers

VARIABLES
  queue,             \* the ArrayQueue
  signal,            \* the DrainSignal
  drains,            \*   and its live DrainPermits
  producer_gate,     \* the IngressGate that admits producers
  normal_gate,       \* the IngressGate that admits normal drains
  terminal_state,
  pc,                \* the next access of each thread, "idle" between calls
  arg,               \* the payload a producer's call still owns
  posting,           \* whether the thread's call was given a post callback
  custody,           \* history: where each payload is
  posts,             \* the host's accepted and not yet run drain tasks
  missed             \* history: a caller was told to post and did not, or was
                     \* refused, and no post or acquisition has made up for it

signalVars   == <<signal, drains>>
gateVars     == <<producer_gate, normal_gate>>
callVars     == <<arg, posting>>
hostVars     == <<posts, missed>>
vars == <<queue, signalVars, gateVars, terminal_state, pc, callVars, custody, hostVars>>

Signal   == INSTANCE DrainSignal WITH state <- signal, drains <- drains, Drainers <- Threads

Init ==
  /\ queue = <<>>
  /\ Signal!Init
  /\ producer_gate = NewGate
  /\ normal_gate = NewGate
  /\ terminal_state = "Normal"
  /\ pc = [t \in Threads |-> "idle"]
  /\ arg = [t \in Threads |-> NoPayload]
  /\ posting = [t \in Threads |-> FALSE]
  /\ custody = [p \in Payloads |-> "unsubmitted"]
  /\ posts = 0
  /\ missed = FALSE

At(t, label)   == pc[t] = label
Goto(t, label) == pc' = [pc EXCEPT ![t] = label]
----------------------------------------------------------------------------
(* enqueue (posting = FALSE) and enqueue_and_post (posting = TRUE). *)

(* producer_gate.reserve(); a closed or exhausted gate returns the payload. *)
EnqueueReserve(t, p, post) ==
  /\ At(t, "idle")
  /\ custody[p] = "unsubmitted"
  /\ \/ /\ CanReserve(producer_gate) /\ producer_gate' = Reserve(producer_gate, t)
        /\ Goto(t, "push")
        /\ arg' = [arg EXCEPT ![t] = p]
        /\ posting' = [posting EXCEPT ![t] = post]
        /\ custody' = [custody EXCEPT ![p] = "submitted"]
     \/ /\ ~CanReserve(producer_gate)
        /\ custody' = [custody EXCEPT ![p] = "returned"]
        /\ UNCHANGED <<producer_gate, pc, callVars>>
  /\ UNCHANGED <<queue, signalVars, normal_gate, terminal_state, hostVars>>

(* queue.push(value): Full hands the payload back and schedules nothing. *)
EnqueuePush(t) ==
  /\ At(t, "push")
  /\ \/ /\ Len(queue) < Capacity
        /\ queue' = Append(queue, arg[t])
        /\ custody' = [custody EXCEPT ![arg[t]] = "retained"]
        /\ Goto(t, "request")
     \/ /\ Len(queue) = Capacity
        /\ custody' = [custody EXCEPT ![arg[t]] = "returned"]
        /\ Goto(t, "settleProducer")
        /\ UNCHANGED queue
  /\ arg' = [arg EXCEPT ![t] = NoPayload]
  /\ UNCHANGED <<signalVars, gateVars, terminal_state, posting, hostVars>>

(* signal.request(): Closed is the unreachable! of lines 234 and 271. *)
EnqueueRequest(t) ==
  /\ At(t, "request")
  /\ Signal!Request
  /\ Goto(t, IF Signal!RequestOutcome = "Closed" THEN "panic"
             ELSE IF Signal!RequestOutcome = "Scheduled" /\ posting[t] THEN "post"
             ELSE "settleProducer")
  /\ missed' = (missed \/ (Signal!RequestOutcome = "Scheduled" /\ ~posting[t]))
  /\ UNCHANGED <<queue, gateVars, terminal_state, callVars, custody, posts>>

(* A post callback: the host accepts a drain task, or refuses it. *)
PostAccepted(t) ==
  /\ posts < MaxPosts
  /\ posts' = posts + 1
  /\ missed' = FALSE

PostRefused(t) ==
  /\ missed' = (missed \/ signal = "Pending")
  /\ UNCHANGED posts

(* post() runs while the producer admission is still held. *)
EnqueuePost(t) ==
  /\ At(t, "post")
  /\ PostAccepted(t) \/ PostRefused(t)
  /\ Goto(t, "settleProducer")
  /\ UNCHANGED <<queue, signalVars, gateVars, terminal_state, callVars, custody>>

(* Dropping the admission, on every path out of the call. *)
SettleProducer(t) ==
  /\ At(t, "settleProducer")
  /\ producer_gate' = Settle(producer_gate, t)
  /\ Goto(t, "idle")
  /\ posting' = [posting EXCEPT ![t] = FALSE]
  /\ UNCHANGED <<queue, signalVars, normal_gate, terminal_state, arg, custody, hostVars>>
----------------------------------------------------------------------------
(* post_pending_with: a host retry of a refused post. *)

RetryReserve(t) ==
  /\ At(t, "idle")
  /\ CanReserve(normal_gate) /\ normal_gate' = Reserve(normal_gate, t)
  /\ Goto(t, "retryCheck")
  /\ UNCHANGED <<queue, signalVars, producer_gate, terminal_state, callVars, custody, hostVars>>

RetryCheck(t) ==
  /\ At(t, "retryCheck")
  /\ Goto(t, IF signal = "Pending" THEN "retryPost" ELSE "settleNormal")
  /\ UNCHANGED <<queue, signalVars, gateVars, terminal_state, callVars, custody, hostVars>>

RetryPost(t) ==
  /\ At(t, "retryPost")
  /\ PostAccepted(t) \/ PostRefused(t)
  /\ Goto(t, "settleNormal")
  /\ UNCHANGED <<queue, signalVars, gateVars, terminal_state, callVars, custody>>

(* Dropping a normal-drain admission: the last step of a retry and of a    *)
(* drain, whose fields drop in the order permit, admission.                *)
SettleNormal(t) ==
  /\ At(t, "settleNormal")
  /\ normal_gate' = Settle(normal_gate, t)
  /\ Goto(t, "idle")
  /\ posting' = [posting EXCEPT ![t] = FALSE]
  /\ UNCHANGED <<queue, signalVars, producer_gate, terminal_state, arg, custody, hostVars>>
----------------------------------------------------------------------------
(* acquire, and the drain it may return. *)

(* normal_drain_gate.reserve().  The caller is a drain task of the host,   *)
(* which running consumes (byTask), or any other code with a reference.    *)
DrainReserve(t, byTask) ==
  /\ At(t, "idle")
  /\ IF byTask THEN posts > 0 /\ posts' = posts - 1 ELSE UNCHANGED posts
  /\ \/ CanReserve(normal_gate) /\ normal_gate' = Reserve(normal_gate, t) /\ Goto(t, "acquire")
     \/ byTask /\ ~CanReserve(normal_gate) /\ UNCHANGED <<normal_gate, pc>>
  /\ UNCHANGED <<queue, signalVars, producer_gate, terminal_state, callVars, custody, missed>>

(* signal.acquire(): Acquired, or Idle, Busy or Closed. *)
DrainAcquire(t) ==
  /\ At(t, "acquire")
  /\ \/ Signal!Acquire(t) /\ Goto(t, "drain") /\ missed' = FALSE
     \/ signal # "Pending" /\ Goto(t, "settleNormal") /\ UNCHANGED <<signalVars, missed>>
  /\ UNCHANGED <<queue, gateVars, terminal_state, callVars, custody, posts>>

(* Mutant: a drain pops the newest payload. *)
DrainPopsNewest(t) ==
  /\ At(t, "drain")
  /\ queue # <<>>
  /\ custody' = [custody EXCEPT ![queue[Len(queue)]] = "delivered"]
  /\ queue' = SubSeq(queue, 1, Len(queue) - 1)
  /\ UNCHANGED <<signalVars, gateVars, terminal_state, pc, callVars, hostVars>>

DrainPop(t) ==
  /\ At(t, "drain")
  /\ queue # <<>>
  /\ custody' = [custody EXCEPT ![Head(queue)] = "delivered"]
  /\ queue' = Tail(queue)
  /\ UNCHANGED <<signalVars, gateVars, terminal_state, pc, callVars, hostVars>>

(* Mutant: an abandoned drain does not look at the queue. *)
DrainPreservesNothing(t, post) ==
  /\ At(t, "drain")
  /\ posting' = [posting EXCEPT ![t] = post]
  /\ Goto(t, "finishDrain")
  /\ UNCHANGED <<queue, signalVars, gateVars, terminal_state, arg, custody, hostVars>>

(* finish_with(post), finish() or an unfinished drain's drop: each begins  *)
(* with preserve_retained_payloads, which reads the queue ...              *)
DrainPreserve(t, post) ==
  /\ At(t, "drain")
  /\ posting' = [posting EXCEPT ![t] = post]
  /\ Goto(t, IF queue # <<>> THEN "preserve" ELSE "finishDrain")
  /\ UNCHANGED <<queue, signalVars, gateVars, terminal_state, arg, custody, hostVars>>

(* ... and requests a successor drain for what it saw there: Scheduled and *)
(* Closed are the unreachable! of lines 398 and 401.                       *)
DrainPreserveRequest(t) ==
  /\ At(t, "preserve")
  /\ Signal!Request
  /\ Goto(t, IF Signal!RequestOutcome = "Coalesced" THEN "finishDrain" ELSE "panic")
  /\ UNCHANGED <<queue, gateVars, terminal_state, callVars, custody, hostVars>>

DrainFinish(t) ==
  /\ At(t, "finishDrain")
  /\ Signal!FinishDrain(t)
  /\ Goto(t, IF Signal!DrainAfter = "Pending" /\ posting[t]
             THEN "successorPost" ELSE "settleNormal")
  /\ missed' = (missed \/ (Signal!DrainAfter = "Pending" /\ ~posting[t]))
  /\ UNCHANGED <<queue, gateVars, terminal_state, callVars, custody, posts>>

(* The operation finish_with runs before it releases the admission. *)
SuccessorPost(t) ==
  /\ At(t, "successorPost")
  /\ PostAccepted(t) \/ PostRefused(t)
  /\ Goto(t, "settleNormal")
  /\ UNCHANGED <<queue, signalVars, gateVars, terminal_state, callVars, custody>>
----------------------------------------------------------------------------
(* begin_close, try_begin_terminal_drain and the terminal drain. *)

CloseProducers(t) ==
  /\ At(t, "idle")
  /\ producer_gate' = BeginClose(producer_gate)
  /\ UNCHANGED <<queue, signalVars, normal_gate, terminal_state, pc, callVars, custody, hostVars>>

(* Mutant: terminal ownership without waiting for admitted producers. *)
TerminalSkipsProducers(t) ==
  /\ At(t, "idle")
  /\ Phase(producer_gate) # "Open"
  /\ Goto(t, "closeNormal")
  /\ UNCHANGED <<queue, signalVars, gateVars, terminal_state, callVars, custody, hostVars>>

(* producer_gate.try_seal(); an error leaves everything as it was. *)
TerminalSealProducer(t) ==
  /\ At(t, "idle")
  /\ CanSeal(producer_gate) /\ producer_gate' = Seal(producer_gate)
  /\ Goto(t, "closeNormal")
  /\ UNCHANGED <<queue, signalVars, normal_gate, terminal_state, callVars, custody, hostVars>>

TerminalCloseNormal(t) ==
  /\ At(t, "closeNormal")
  /\ normal_gate' = BeginClose(normal_gate)
  /\ Goto(t, "sealNormal")
  /\ UNCHANGED <<queue, signalVars, producer_gate, terminal_state, callVars, custody, hostVars>>

TerminalSealNormal(t) ==
  /\ At(t, "sealNormal")
  /\ \/ CanSeal(normal_gate) /\ normal_gate' = Seal(normal_gate) /\ Goto(t, "closeSignal")
     \/ ~CanSeal(normal_gate) /\ Goto(t, "idle") /\ UNCHANGED normal_gate
  /\ UNCHANGED <<queue, signalVars, producer_gate, terminal_state, callVars, custody, hostVars>>

TerminalCloseSignal(t) ==
  /\ At(t, "closeSignal")
  /\ Signal!Close
  /\ Goto(t, "claim")
  /\ UNCHANGED <<queue, gateVars, terminal_state, callVars, custody, hostVars>>

(* Mutant: the claim succeeds although another owner is active. *)
TerminalClaimsAgain(t) ==
  /\ At(t, "claim")
  /\ terminal_state' = "TerminalActive"
  /\ Goto(t, "terminal")
  /\ UNCHANGED <<queue, signalVars, gateVars, callVars, custody, hostVars>>

TerminalClaim(t) ==
  /\ At(t, "claim")
  /\ IF terminal_state \in {"Normal", "TerminalPending"}
     THEN terminal_state' = "TerminalActive" /\ Goto(t, "terminal")
     ELSE Goto(t, "idle") /\ UNCHANGED terminal_state
  /\ UNCHANGED <<queue, signalVars, gateVars, callVars, custody, hostVars>>

TerminalPop(t) ==
  /\ At(t, "terminal")
  /\ queue # <<>>
  /\ custody' = [custody EXCEPT ![Head(queue)] = "residual"]
  /\ queue' = Tail(queue)
  /\ UNCHANGED <<signalVars, gateVars, terminal_state, pc, callVars, hostVars>>

(* finish() reads the queue's length first; PayloadsRemain falls through   *)
(* to the drop, which any owner may also take at once.                     *)
TerminalFinish(t) ==
  /\ At(t, "terminal")
  /\ Goto(t, IF queue = <<>> THEN "finishTerminal" ELSE "dropTerminal")
  /\ UNCHANGED <<queue, signalVars, gateVars, terminal_state, callVars, custody, hostVars>>

TerminalFinishExchange(t) ==
  /\ At(t, "finishTerminal")
  /\ IF terminal_state = "TerminalActive"
     THEN terminal_state' = "TerminalClosed" /\ Goto(t, "idle")
     ELSE Goto(t, "dropTerminal") /\ UNCHANGED terminal_state
  /\ UNCHANGED <<queue, signalVars, gateVars, callVars, custody, hostVars>>

(* Mutant: a dropped owner does not return its ownership. *)
TerminalDropKeepsOwnership(t) ==
  /\ At(t, "terminal") \/ At(t, "dropTerminal")
  /\ Goto(t, "idle")
  /\ UNCHANGED <<queue, signalVars, gateVars, terminal_state, callVars, custody, hostVars>>

TerminalDrop(t) ==
  /\ At(t, "terminal") \/ At(t, "dropTerminal")
  /\ terminal_state' = IF terminal_state = "TerminalActive"
                       THEN "TerminalPending" ELSE terminal_state
  /\ Goto(t, "idle")
  /\ UNCHANGED <<queue, signalVars, gateVars, callVars, custody, hostVars>>
----------------------------------------------------------------------------
Enqueue(t) ==
  \/ \E p \in Payloads, post \in BOOLEAN : EnqueueReserve(t, p, post)
  \/ EnqueuePush(t)
  \/ EnqueueRequest(t)
  \/ EnqueuePost(t)
  \/ SettleProducer(t)

RetryPending(t) == RetryReserve(t) \/ RetryCheck(t) \/ RetryPost(t) \/ SettleNormal(t)

Drain(t) ==
  \/ \E byTask \in BOOLEAN : DrainReserve(t, byTask)
  \/ DrainAcquire(t)
  \/ DrainPop(t)
  \/ \E post \in BOOLEAN : DrainPreserve(t, post)
  \/ DrainPreserveRequest(t)
  \/ DrainFinish(t)
  \/ SuccessorPost(t)

Terminal(t) ==
  \/ CloseProducers(t)
  \/ TerminalSealProducer(t)
  \/ TerminalCloseNormal(t)
  \/ TerminalSealNormal(t)
  \/ TerminalCloseSignal(t)
  \/ TerminalClaim(t)
  \/ TerminalPop(t)
  \/ TerminalFinish(t)
  \/ TerminalFinishExchange(t)
  \/ TerminalDrop(t)

Next ==
  \/ \E t \in Producers : Enqueue(t)
  \/ \E t \in Consumers : RetryPending(t) \/ Drain(t)
  \/ \E t \in Closers : Terminal(t)

Spec == Init /\ [][Next]_vars

(* ClosableMailbox::state.  It loads terminal_state and then the producer   *)
(* phase, both of which only move forward from the values it reports.      *)
State ==
  IF terminal_state # "Normal" THEN terminal_state
  ELSE IF Phase(producer_gate) = "Open" THEN "Open"
  ELSE "Closing"
----------------------------------------------------------------------------
(* Fairness.  A call that has begun is run on; the rest is what a host     *)
(* that wants progress does: it runs the tasks it accepted, its drains pop *)
(* (dispatch_next in a loop), it retries a missed post until one is        *)
(* accepted, and a close owner retries, pops and finishes.                 *)
Continue(t) == pc[t] # "idle" /\ (Enqueue(t) \/ RetryPending(t) \/ Drain(t) \/ Terminal(t))

HostFairness ==
  /\ SF_vars(\E t \in Consumers : DrainReserve(t, TRUE))
  /\ SF_vars(\E t \in Consumers : DrainPop(t))
  /\ SF_vars(\E t \in Consumers : missed /\ RetryReserve(t))
  /\ SF_vars(\E t \in Consumers : RetryPost(t) /\ PostAccepted(t))

CloserFairness ==
  /\ SF_vars(\E t \in Closers : TerminalSealProducer(t))
  /\ SF_vars(\E t \in Closers : TerminalPop(t))
  /\ SF_vars(\E t \in Closers : TerminalFinish(t) /\ queue = <<>>)

FairSpec ==
  /\ Spec
  /\ \A t \in Threads : WF_vars(Continue(t))
  /\ HostFairness
  /\ CloserFairness
----------------------------------------------------------------------------
Labels ==
  {"idle", "push", "request", "post", "settleProducer",
   "retryCheck", "retryPost", "settleNormal",
   "acquire", "drain", "preserve", "finishDrain", "successorPost",
   "closeNormal", "sealNormal", "closeSignal", "claim",
   "terminal", "finishTerminal", "dropTerminal", "panic"}

Custodies == {"unsubmitted", "submitted", "returned", "retained", "delivered", "residual"}

TypeOK ==
  /\ queue \in Seq(Payloads) /\ Len(queue) <= Capacity
  /\ signal \in Signal!States
  /\ drains \in SUBSET Threads
  /\ Exact(producer_gate) /\ producer_gate.permits \subseteq Threads
  /\ Exact(normal_gate) /\ normal_gate.permits \subseteq Threads
  /\ terminal_state \in {"Normal", "TerminalPending", "TerminalActive", "TerminalClosed"}
  /\ pc \in [Threads -> Labels]
  /\ arg \in [Threads -> Payloads \cup {NoPayload}]
  /\ posting \in [Threads -> BOOLEAN]
  /\ custody \in [Payloads -> Custodies]
  /\ posts \in 0 .. MaxPosts
  /\ missed \in BOOLEAN

(* The unreachable! assertions of enqueue, enqueue_and_post and            *)
(* preserve_retained_payloads (closable_mailbox.rs:234, 271, 398, 401) are *)
(* never reached: no admitted producer or drain meets a closed signal, and *)
(* no live drain finds its own signal idle.                                *)
NoUnreachable == \A t \in Threads : ~At(t, "panic")

TerminalOwner(t) == pc[t] \in {"terminal", "finishTerminal", "dropTerminal"}

(* try_begin_terminal_drain (closable_mailbox.rs:312): while a             *)
(* TerminalMailboxDrain is live no producer can publish, no normal drain   *)
(* is live, and there is no second terminal owner.                         *)
TerminalIsExclusive ==
  \A t \in Threads : TerminalOwner(t) =>
    /\ producer_gate.permits = {} /\ normal_gate.permits = {} /\ drains = {}
    /\ signal = "Closed"
    /\ terminal_state = "TerminalActive"
    /\ \A u \in Threads \ {t} : ~TerminalOwner(u)

(* No payload is stranded: whenever the queue holds one, the signal still  *)
(* carries the obligation to drain it, or a thread that will restore it is *)
(* between its two accesses (push and request, or the live drain before it *)
(* looks at the queue for the last time), or the terminal path owes it.    *)
RetainedWorkIsCovered ==
  queue # <<>> =>
    \/ signal \in {"Pending", "DrainingPending"}
    \/ signal # "Closed" /\ \E t \in Threads : At(t, "request")
    \/ signal = "Draining" /\ \E t \in drains : At(t, "drain") \/ At(t, "preserve")
    \/ /\ signal = "Closed" /\ terminal_state # "TerminalClosed"
       /\ Phase(producer_gate) = "Sealed" /\ Phase(normal_gate) = "Sealed"

(* enqueue_and_post, post_pending_with, finish_with: the host never accepts *)
(* a drain task after a terminal owner has sealed normal draining.         *)
NoPostAfterTerminalClaim ==
  [][posts' > posts => Phase(normal_gate) # "Sealed" /\ terminal_state = "Normal"]_vars

(* Custody (the contract of ClosableMailboxEnqueueError, pop and            *)
(* TerminalMailboxDrain): seen through state(), the mailbox implements     *)
(* WorkCustody, so a payload is handed over once, in order, and to the     *)
(* terminal owner only after every producer and normal drain.              *)
Custody == INSTANCE WorkCustody WITH line <- queue, phase <- State

ImplementsWorkCustody == Custody!Spec

(* Accepted work is not stranded by coalescing, refused posts, abandoned   *)
(* drains or a racing close: it is eventually handed to some owner.        *)
RetainedWorkIsHandedOver ==
  \A p \in Payloads : custody[p] = "retained" ~> custody[p] \in {"delivered", "residual"}

(* begin_close never waits, yet once it is called a retrying close owner   *)
(* gets the mailbox closed, whatever producers and drains were in flight.  *)
ClosingCompletes == Phase(producer_gate) # "Open" ~> terminal_state = "TerminalClosed"
============================================================================
