---------------------------- MODULE NativeState ----------------------------
(***************************************************************************)
(* Rust state owned by JavaScript wrappers,                                *)
(* backend-jsc/src/experimental/native_state.rs: the generational registry *)
(* of the runtime's thread, and the lock-free queue through which JSC's    *)
(* finalizers, on any thread, tell it which wrappers are gone.             *)
(*                                                                         *)
(* Each wrapper owns one boxed FinalizerToken.  Tokens are named by their  *)
(* address, so an address is used again once its box is freed.  Finalizer  *)
(* threads take one action per atomic access of the queue; the registry    *)
(* belongs to the runtime's thread and changes only there.                 *)
(***************************************************************************)
EXTENDS Integers, Sequences, FiniteSets, SequencesExt

CONSTANTS
  Finalizers,        \* threads on which JSC finalizes wrappers
  Tokens,            \* addresses of boxed tokens
  States,            \* application states, each installed at most once
  NoState, Null, Closed,
  Limit,             \* registrations admitted, NativeStateLimits
  MaxGeneration      \* u64::MAX in the code

ASSUME NativeStateAssumption ==
  /\ NoState \notin States /\ Null \notin Tokens /\ Closed \notin Tokens /\ Null # Closed
  /\ Limit \in Nat /\ MaxGeneration \in Nat \ {0, 1}

VARIABLES
  slots,             \* NativeRegistry: generation and value of each slot
  free,              \*   slots to use again, a stack
  live,              \*   occupied slots
  head,              \* FinalizerQueue: top of the stack, or the closed sentinel
  pending,           \*   signals handed over and not settled
  place,             \* where each token is
  id,                \*   the registration it names
  next,              \*   and its link
  pc, holding, expected, \* of each finalizer thread
  owner,             \* what the runtime's thread is in the middle of
  cursor,            \*   and the rest of the list it detached
  handle,            \* NativeObject: the registration each state was given
  lease,             \* NativeLease: the state a running operation borrows
  drops              \* history: how often each state's destructor ran

registryVars == <<slots, free, live>>
queueVars    == <<head, pending>>
tokenVars    == <<place, id, next>>
threadVars   == <<pc, holding, expected>>
stateVars    == <<handle, lease, drops>>
vars == <<registryVars, queueVars, tokenVars, threadVars, owner, cursor, stateVars>>

NoId == [slot |-> 0, generation |-> 0]

Init ==
  /\ slots = <<>> /\ free = <<>> /\ live = 0
  /\ head = Null /\ pending = 0
  /\ place = [t \in Tokens |-> "unallocated"]
  /\ id = [t \in Tokens |-> NoId]
  /\ next = [t \in Tokens |-> Null]
  /\ pc = [f \in Finalizers |-> "idle"]
  /\ holding = [f \in Finalizers |-> Null]
  /\ expected = [f \in Finalizers |-> Null]
  /\ owner = "active" /\ cursor = Null
  /\ handle = [s \in States |-> NoId] /\ lease = NoState
  /\ drops = [s \in States |-> 0]
----------------------------------------------------------------------------
(* NativeRegistry::insert, below its limit. *)
InsertId ==
  IF free # <<>> THEN [slot |-> Last(free), generation |-> slots[Last(free)].generation]
  ELSE [slot |-> Len(slots) + 1, generation |-> 1]

Inserted(s) ==
  /\ live' = live + 1
  /\ IF free # <<>>
     THEN slots' = [slots EXCEPT ![Last(free)].value = s] /\ free' = Front(free)
     ELSE slots' = Append(slots, [generation |-> 1, value |-> s]) /\ UNCHANGED free

(* NativeRegistry::get *)
Get(i) ==
  IF i.slot \in DOMAIN slots /\ slots[i.slot].generation = i.generation
  THEN slots[i.slot].value ELSE NoState

Admits == live < Limit

(* Mutant: the operation borrows the state and does not own it. *)
DroppedUnderLease(s) == [drops EXCEPT ![s] = @ + 1]

(* drop_state: one owner less.  The destructor runs, its panic contained,   *)
(* unless an operation still leases the state.                              *)
Dropped(s) == [drops EXCEPT ![s] = @ + IF s = lease THEN 0 ELSE 1]

NextGeneration(g) == IF g = MaxGeneration THEN g ELSE g + 1   \* saturating_add(1)

(* Mutant: a slot is used again at its last generation. *)
ReusesLastGeneration(i) ==
  IF Get(i) = NoState THEN UNCHANGED <<registryVars, drops>>
  ELSE /\ slots' = [slots EXCEPT ![i.slot] =
                      [generation |-> NextGeneration(i.generation), value |-> NoState]]
       /\ live' = live - 1
       /\ free' = Append(free, i.slot)
       /\ drops' = Dropped(Get(i))

(* NativeRegistry::remove, and the drop of what it returns.  A slot at its  *)
(* last generation is never used again.                                    *)
Removed(i) ==
  IF Get(i) = NoState THEN UNCHANGED <<registryVars, drops>>
  ELSE LET g == NextGeneration(i.generation) IN
       /\ slots' = [slots EXCEPT ![i.slot] = [generation |-> g, value |-> NoState]]
       /\ live' = live - 1
       /\ free' = IF g # MaxGeneration THEN Append(free, i.slot) ELSE free
       /\ drops' = Dropped(Get(i))
----------------------------------------------------------------------------
(* try_install_native_state.  The registry accepts the state first; then   *)
(* the token and the wrapper are made, and the wrapper stays rooted while  *)
(* its property is published, which may run JavaScript and collect others. *)
Install(s, t) ==
  /\ owner = "active"
  /\ lease = NoState
  /\ handle[s] = NoId /\ drops[s] = 0 /\ Admits
  /\ place[t] = "unallocated"
  /\ Inserted(s)
  /\ handle' = [handle EXCEPT ![s] = InsertId]
  /\ id' = [id EXCEPT ![t] = InsertId]
  /\ next' = [next EXCEPT ![t] = Null]
  /\ place' = [place EXCEPT ![t] = "rooted"]
  /\ owner' = "publishing"
  /\ UNCHANGED <<queueVars, threadVars, cursor, lease, drops>>

(* install_native_state consumes a state that the full registry rejects;    *)
(* try_install_native_state gives it back, and nothing has happened.        *)
InstallRejected(s) ==
  /\ owner = "active" /\ lease = NoState
  /\ handle[s] = NoId /\ drops[s] = 0 /\ ~Admits
  /\ drops' = Dropped(s)
  /\ UNCHANGED <<registryVars, queueVars, tokenVars, threadVars, owner, cursor, handle, lease>>

Published(t) ==
  /\ owner = "publishing" /\ place[t] = "rooted"
  /\ place' = [place EXCEPT ![t] = "engine"]
  /\ owner' = "active"
  /\ UNCHANGED <<registryVars, queueVars, id, next, threadVars, cursor, stateVars>>

(* rollback_native_object, and the failures before a wrapper exists: the   *)
(* token is Rust's again and the state is removed and dropped.  When the   *)
(* wrapper keeps its private data, both are left to its finalizer.         *)
RolledBack(t) ==
  /\ owner = "publishing" /\ place[t] = "rooted"
  /\ \/ Removed(id[t]) /\ place' = [place EXCEPT ![t] = "unallocated"]
     \/ place' = [place EXCEPT ![t] = "engine"] /\ UNCHANGED <<registryVars, drops>>
  /\ owner' = "active"
  /\ UNCHANGED <<queueVars, id, next, threadVars, cursor, handle, lease>>
----------------------------------------------------------------------------
(* with_native_state: a live handle's state is leased for one operation;    *)
(* a handle that is no longer in the registry is stale.  The registry is    *)
(* not borrowed meanwhile, so finalized states can be reclaimed under it.   *)
StartOperation(s) ==
  /\ owner = "active" /\ lease = NoState
  /\ handle[s] # NoId /\ Get(handle[s]) # NoState
  /\ lease' = Get(handle[s])
  /\ UNCHANGED <<registryVars, queueVars, tokenVars, threadVars, owner, cursor, handle, drops>>

(* NativeLease::drop, on return and on unwinding: the operation may be the  *)
(* last owner.                                                             *)
EndOperation ==
  /\ owner = "active" /\ lease # NoState
  /\ lease' = NoState
  /\ drops' = [drops EXCEPT ![lease] = @ + IF Get(handle[lease]) = lease THEN 0 ELSE 1]
  /\ UNCHANGED <<registryVars, queueVars, tokenVars, threadVars, owner, cursor, handle>>
----------------------------------------------------------------------------
(* native_state_finalize: JSC hands the token of a dead wrapper over.      *)
Finalize(f, t) ==
  /\ pc[f] = "idle" /\ place[t] = "engine"
  /\ place' = [place EXCEPT ![t] = "handed"]
  /\ holding' = [holding EXCEPT ![f] = t]
  /\ pc' = [pc EXCEPT ![f] = "count"]
  /\ UNCHANGED <<registryVars, queueVars, id, next, expected, owner, cursor, stateVars>>

(* push: pending.fetch_add(1), before anything is published. *)
PushCount(f) ==
  /\ pc[f] = "count"
  /\ pending' = pending + 1
  /\ pc' = [pc EXCEPT ![f] = "load"]
  /\ UNCHANGED <<registryVars, head, tokenVars, holding, expected, owner, cursor, stateVars>>

(* push: load head, and link the token to it unless the queue is closed. *)
PushLoad(f) ==
  /\ pc[f] = "load"
  /\ \/ /\ head = Closed
        /\ pc' = [pc EXCEPT ![f] = "discard"]
        /\ UNCHANGED <<next, expected>>
     \/ /\ head # Closed
        /\ next' = [next EXCEPT ![holding[f]] = head]
        /\ expected' = [expected EXCEPT ![f] = head]
        /\ pc' = [pc EXCEPT ![f] = "exchange"]
  /\ UNCHANGED <<registryVars, queueVars, place, id, holding, owner, cursor, stateVars>>

(* Mutant: the head is stored without comparing it. *)
PushStores(f) ==
  /\ pc[f] = "exchange"
  /\ head' = holding[f]
  /\ place' = [place EXCEPT ![holding[f]] = "linked"]
  /\ holding' = [holding EXCEPT ![f] = Null]
  /\ pc' = [pc EXCEPT ![f] = "idle"]
  /\ UNCHANGED <<registryVars, pending, id, next, expected, owner, cursor, stateVars>>

(* push: compare_exchange_weak, which may also fail for no reason. *)
PushExchange(f) ==
  /\ pc[f] = "exchange"
  /\ \/ /\ head = expected[f]
        /\ head' = holding[f]
        /\ place' = [place EXCEPT ![holding[f]] = "linked"]
        /\ holding' = [holding EXCEPT ![f] = Null]
        /\ pc' = [pc EXCEPT ![f] = "idle"]
     \/ pc' = [pc EXCEPT ![f] = "load"] /\ UNCHANGED <<head, place, holding>>
  /\ UNCHANGED <<registryVars, pending, id, next, expected, owner, cursor, stateVars>>

Settled(count) == IF count = 0 THEN 0 ELSE count - 1   \* settle_pending

(* push on a closed queue frees the token itself, and then settles. *)
PushDiscard(f) ==
  /\ pc[f] = "discard"
  /\ place' = [place EXCEPT ![holding[f]] = "unallocated"]
  /\ pending' = Settled(pending)
  /\ holding' = [holding EXCEPT ![f] = Null]
  /\ pc' = [pc EXCEPT ![f] = "idle"]
  /\ UNCHANGED <<registryVars, head, id, next, expected, owner, cursor, stateVars>>
----------------------------------------------------------------------------
(* The tokens of the list that starts at one: those in every set of tokens  *)
(* that has its first token and, with a token, the one that follows it.     *)
Follows(S) == \A u \in S : next[u] \in Tokens => next[u] \in S

ListFrom(t) ==
  {u \in Tokens : \A S \in SUBSET Tokens : Follows(S) /\ (t \in Tokens => t \in S) => u \in S}

Detached(t) == [u \in Tokens |-> IF u \in ListFrom(t) THEN "detached" ELSE place[u]]

(* FinalizerQueue::take on entry and on exit of with_context. *)
TakeFinalized ==
  /\ owner = "active"
  /\ head # Closed
  /\ cursor' = head /\ head' = Null
  /\ place' = Detached(head)
  /\ owner' = "reclaiming"
  /\ UNCHANGED <<registryVars, pending, id, next, threadVars, stateVars>>

(* FinalizerQueue::close in teardown: a swap. *)
CloseFinalizers ==
  /\ owner = "active" /\ lease = NoState
  /\ cursor' = head /\ head' = Closed
  /\ place' = Detached(head)
  /\ owner' = "closing"
  /\ UNCHANGED <<registryVars, pending, id, next, threadVars, stateVars>>

(* Mutant: a reclaimed token leaves its state in the registry. *)
ReclaimForgetsState ==
  /\ owner \in {"reclaiming", "closing"} /\ cursor # Null
  /\ cursor' = next[cursor]
  /\ pending' = Settled(pending)
  /\ place' = [place EXCEPT ![cursor] = "unallocated"]
  /\ UNCHANGED <<registryVars, head, id, next, threadVars, owner, stateVars>>

(* reclaim_finalized, one token: its state is removed, the signal settled, *)
(* the box freed and the state dropped.                                    *)
ReclaimOne ==
  /\ owner \in {"reclaiming", "closing"} /\ cursor # Null
  /\ cursor' = next[cursor]
  /\ Removed(id[cursor])
  /\ pending' = Settled(pending)
  /\ place' = [place EXCEPT ![cursor] = "unallocated"]
  /\ UNCHANGED <<head, id, next, threadVars, owner, handle, lease>>

ReclaimEnd ==
  /\ owner \in {"reclaiming", "closing"} /\ cursor = Null
  /\ owner' = IF owner = "reclaiming" THEN "active" ELSE "closed"
  /\ UNCHANGED <<registryVars, queueVars, tokenVars, threadVars, cursor, stateVars>>

(* The stack that NativeRegistry::drain refills, slot after slot. *)
Refilled ==
  LET upto[i \in 0 .. Len(slots)] ==
        IF i = 0 THEN <<>>
        ELSE IF NextGeneration(slots[i].generation) # MaxGeneration
             THEN Append(upto[i - 1], i) ELSE upto[i - 1]
  IN upto[Len(slots)]

(* retire_native_states: NativeRegistry::drain and the drop of each state. *)
RetireStates ==
  /\ owner = "closed"
  /\ slots' = [i \in DOMAIN slots |->
                 [generation |-> NextGeneration(slots[i].generation), value |-> NoState]]
  /\ free' = Refilled
  /\ live' = 0
  /\ drops' = [s \in States |->
                 drops[s] + IF \E i \in DOMAIN slots : slots[i].value = s THEN 1 ELSE 0]
  /\ owner' = "destroyed"
  /\ UNCHANGED <<queueVars, tokenVars, threadVars, cursor, handle, lease>>

Owner ==
  \/ \E s \in States : InstallRejected(s) \/ StartOperation(s) \/ \E t \in Tokens : Install(s, t)
  \/ EndOperation
  \/ \E t \in Tokens : Published(t) \/ RolledBack(t)
  \/ TakeFinalized \/ CloseFinalizers \/ ReclaimOne \/ ReclaimEnd
  \/ RetireStates

Push(f) == PushCount(f) \/ PushLoad(f) \/ PushExchange(f) \/ PushDiscard(f)

Next == Owner \/ \E f \in Finalizers : Push(f) \/ \E t \in Tokens : Finalize(f, t)

Spec == Init /\ [][Next]_vars

(* Fairness: a finalizer that runs finishes its push (its exchange does     *)
(* not fail for ever), operations return though they may drain any finite   *)
(* number of times, and the runtime is entered again or torn down.          *)
FairSpec ==
  /\ Spec
  /\ \A f \in Finalizers :
       /\ WF_vars(Push(f))
       /\ SF_vars(PushExchange(f) /\ head' # head)
  /\ WF_vars(\E t \in Tokens : Published(t) \/ RolledBack(t))
  /\ SF_vars(head # Null /\ (TakeFinalized \/ CloseFinalizers))
  /\ WF_vars(ReclaimOne \/ ReclaimEnd)
  /\ WF_vars(RetireStates)
  /\ SF_vars(EndOperation)
----------------------------------------------------------------------------
Places == {"unallocated", "rooted", "engine", "handed", "linked", "detached"}
Ids    == [slot : 0 .. Len(slots), generation : 0 .. MaxGeneration]

TypeOK ==
  /\ slots \in Seq([generation : 1 .. MaxGeneration, value : States \cup {NoState}])
  /\ free \in Seq(DOMAIN slots)
  /\ live \in 0 .. Limit
  /\ head \in Tokens \cup {Null, Closed} /\ pending \in Nat
  /\ place \in [Tokens -> Places] /\ id \in [Tokens -> Ids]
  /\ next \in [Tokens -> Tokens \cup {Null}]
  /\ pc \in [Finalizers -> {"idle", "count", "load", "exchange", "discard"}]
  /\ holding \in [Finalizers -> Tokens \cup {Null}]
  /\ expected \in [Finalizers -> Tokens \cup {Null}]
  /\ owner \in {"active", "publishing", "reclaiming", "closing", "closed", "destroyed"}
  /\ cursor \in Tokens \cup {Null}
  /\ handle \in [States -> Ids] /\ lease \in States \cup {NoState} /\ drops \in [States -> Nat]

Placed(w)   == {t \in Tokens : place[t] \in w}

(* push, take and close (native_state.rs:193-243) lose no token and hand   *)
(* none over twice, although addresses are used again: the queue's list    *)
(* is exactly the linked tokens, the owner's exactly the detached ones,    *)
(* neither comes back to a token, and each token in a finalizer's hands is *)
(* in one finalizer's hands.                                               *)
TokensAreOwnedOnce ==
  /\ ListFrom(head) = Placed({"linked"})
  /\ ListFrom(cursor) = Placed({"detached"})
  /\ \A t \in Placed({"linked", "detached"}) : t \notin ListFrom(next[t])
  /\ {holding[f] : f \in Finalizers} \ {Null} = Placed({"handed"})
  /\ \A f, g \in Finalizers : holding[f] = holding[g] /\ holding[f] # Null => f = g

(* pending_count (native_state.rs:184): a signal counts from before it is   *)
(* published until its token is reclaimed or discarded, so settling never   *)
(* finds the counter at zero.                                               *)
PendingIsExact ==
  pending = Cardinality(Placed({"linked", "detached"}))
              + Cardinality({f \in Finalizers : pc[f] \in {"load", "exchange", "discard"}})

(* The list of finalized tokens and the counter beside it are both exact.   *)
QueueIsExact == TokensAreOwnedOnce /\ PendingIsExact

(* A NativeObject reaches the state it was given or none (StaleHandle),     *)
(* whatever slots were used again since; so does a token, so that no        *)
(* finalizer retires another wrapper's state.                               *)
HandlesNeverAlias ==
  /\ \A s \in States : handle[s] # NoId => Get(handle[s]) \in {s, NoState}
  /\ \A t, u \in Tokens : t # u /\ place[t] # "unallocated" /\ place[u] # "unallocated" => id[t] # id[u]
  /\ \A s \in States, r \in States : s # r /\ handle[s] # NoId => handle[s] # handle[r]

(* NativeRegistry (native_state.rs:277-342): handles never alias, live      *)
(* counts the occupied slots, the free stack holds each reusable empty slot *)
(* once, and a slot at its last generation is not one of them; types and    *)
(* bounds hold.                                                             *)
RegistryIsExact ==
  /\ TypeOK /\ HandlesNeverAlias
  /\ live = Cardinality({i \in DOMAIN slots : slots[i].value # NoState})
  /\ IsInjective(free)
  /\ {free[i] : i \in DOMAIN free}
       = {i \in DOMAIN slots : slots[i].value = NoState /\ slots[i].generation # MaxGeneration}

(* Every state's destructor runs exactly once: after its finalizer, its     *)
(* rollback, its rejection or teardown, whichever comes first, and after    *)
(* the operation that leases it (native_state.rs:92-101), never before.     *)
StatesDropOnce ==
  \A s \in States :
    /\ drops[s] <= 1
    /\ handle[s] # NoId => drops[s] = IF s \in {Get(handle[s]), lease} THEN 0 ELSE 1
    /\ handle[s] # NoId /\ owner = "destroyed" => drops[s] = 1

(* A wrapper JSC has finalized does not keep its state: the next entry or   *)
(* the teardown drops it.                                                   *)
FinalizedStatesDrop ==
  \A s \in States :
    (\E t \in Tokens : place[t] \in {"handed", "linked"} /\ id[t] = handle[s]) ~> drops[s] = 1
============================================================================
