---------------------------- MODULE RootRegistry ----------------------------
(***************************************************************************)
(* The persistent roots of one JSC attachment, RootRegistry and RootLease  *)
(* in backend-jsc/src/experimental.rs.                                     *)
(*                                                                         *)
(* A root protects a value until it is released: at once, through a JscRoot *)
(* (a copyable handle, so also a second time), or when the last clone of a *)
(* Persistent is dropped, which happens anywhere on the runtime's thread   *)
(* and only queues the slot, because unprotecting needs an engine entry.   *)
(* The queue is linked through the slots themselves.                       *)
(***************************************************************************)
EXTENDS Integers, Sequences, FiniteSets, SequencesExt

CONSTANTS
  Values,            \* JavaScript values, each persisted at most once
  NoValue,
  Limit,             \* RootLimits::persistent_slots
  MaxGeneration      \* u64::MAX in the code

ASSUME RootRegistryAssumption ==
  /\ NoValue \notin Values /\ Limit \in Nat /\ MaxGeneration \in Nat \ {0, 1}

VARIABLES
  slots,             \* generation, value and release of each slot
  free,              \* slots to use again, a stack
  pending_head,      \* last slot queued, 0 for None
  live, pending,     \* occupied slots, and those of them that are queued
  entry,             \* what the runtime's thread is doing
  handle,            \* the RootId each value was persisted under
  kind,              \*   in a "lease" (Persistent), a "copy" (JscRoot), or not at all
  queued,            \* history: the queued slots, oldest first
  unprotects         \* history: how often each value was unprotected

registryVars == <<slots, free, pending_head, live, pending>>
vars == <<registryVars, entry, handle, kind, queued, unprotects>>

NoId    == [slot |-> 0, generation |-> 0]
Live    == [state |-> "live", next |-> 0]
Pending(n) == [state |-> "pending", next |-> n]

Init ==
  /\ slots = <<>> /\ free = <<>> /\ pending_head = 0
  /\ live = 0 /\ pending = 0
  /\ entry = "outside"
  /\ handle = [v \in Values |-> NoId]
  /\ kind = [v \in Values |-> "none"]
  /\ queued = <<>>
  /\ unprotects = [v \in Values |-> 0]
----------------------------------------------------------------------------
(* RootRegistry::get *)
Get(id) ==
  IF /\ id.slot \in DOMAIN slots
     /\ slots[id.slot].generation = id.generation
     /\ slots[id.slot].release = Live
  THEN slots[id.slot].value ELSE NoValue

NextGeneration(g) == IF g = MaxGeneration THEN g ELSE g + 1   \* saturating_add(1)

(* RootRegistry::insert counts slots, so neither a queued root nor a slot   *)
(* that ran out of generations gives its place back.                       *)
CanInsert == free # <<>> \/ Len(slots) < Limit

Insert(v) ==
  /\ CanInsert
  /\ live' = live + 1
  /\ IF free # <<>>
     THEN /\ slots' = [slots EXCEPT ![Last(free)].value = v]
          /\ free' = Front(free)
          /\ handle' = [handle EXCEPT ![v] =
                          [slot |-> Last(free), generation |-> slots[Last(free)].generation]]
     ELSE /\ slots' = Append(slots, [generation |-> 1, value |-> v, release |-> Live])
          /\ handle' = [handle EXCEPT ![v] = [slot |-> Len(slots) + 1, generation |-> 1]]
          /\ UNCHANGED free

(* RootRegistry::remove of the live slot i, whose value is unprotected.     *)
RemoveRoot(i) ==
  LET g == NextGeneration(slots[i].generation) IN
  /\ slots' = [slots EXCEPT ![i] = [generation |-> g, value |-> NoValue, release |-> Live]]
  /\ live' = live - 1
  /\ free' = IF g # MaxGeneration THEN Append(free, i) ELSE free
  /\ unprotects' = [unprotects EXCEPT ![slots[i].value] = @ + 1]
----------------------------------------------------------------------------
(* with_context and with_backend: an entry first drains the queue ...      *)
Enter ==
  /\ entry = "outside"
  /\ entry' = "entering"
  /\ UNCHANGED <<registryVars, handle, kind, queued, unprotects>>

(* drain_root_releases: RootRegistry::take_pending, once. *)
TakePending ==
  /\ entry \in {"entering", "leaving"} /\ pending_head # 0
  /\ pending_head' = slots[pending_head].release.next
  /\ pending' = pending - 1
  /\ RemoveRoot(pending_head)
  /\ queued' = Front(queued)
  /\ UNCHANGED <<entry, handle, kind>>

DrainEnds ==
  /\ entry \in {"entering", "leaving"} /\ pending_head = 0
  /\ entry' = IF entry = "entering" THEN "inside" ELSE "outside"
  /\ UNCHANGED <<registryVars, handle, kind, queued, unprotects>>

(* ... then runs the operation, and drains again unless it unwinds.         *)
Leave ==
  /\ entry = "inside"
  /\ entry' \in {"leaving", "outside"}
  /\ UNCHANGED <<registryVars, handle, kind, queued, unprotects>>

(* Context::persist and RootBackend::persist *)
Persist(v, k) ==
  /\ entry = "inside" /\ handle[v] = NoId
  /\ Insert(v)
  /\ kind' = [kind EXCEPT ![v] = k]
  /\ UNCHANGED <<pending_head, pending, entry, queued, unprotects>>

(* RootBackend::release; a stale copy is refused and changes nothing.       *)
Release(v) ==
  /\ entry = "inside" /\ kind[v] = "copy"
  /\ Get(handle[v]) # NoValue
  /\ RemoveRoot(handle[v].slot)
  /\ UNCHANGED <<pending_head, pending, entry, handle, kind, queued>>

(* Mutant: the queued slot is not linked to the one queued before. *)
RequestedUnlinked(id) ==
  IF Get(id) = NoValue THEN UNCHANGED <<slots, pending_head, pending, queued>>
  ELSE /\ slots' = [slots EXCEPT ![id.slot].release = Pending(0)]
       /\ pending_head' = id.slot /\ pending' = pending + 1
       /\ queued' = Append(queued, id.slot)

(* RootRegistry::request_release *)
Requested(id) ==
  IF Get(id) = NoValue THEN UNCHANGED <<slots, pending_head, pending, queued>>
  ELSE /\ slots' = [slots EXCEPT ![id.slot].release = Pending(pending_head)]
       /\ pending_head' = id.slot /\ pending' = pending + 1
       /\ queued' = Append(queued, id.slot)

(* Mutant: a lease dropped between entries is forgotten. *)
DropLeaseInsideOnly(v) ==
  /\ entry \in {"outside", "inside", "destroyed"} /\ kind[v] = "lease"
  /\ kind' = [kind EXCEPT ![v] = "none"]
  /\ IF entry = "inside" THEN Requested(handle[v]) ELSE UNCHANGED <<slots, pending_head, pending, queued>>
  /\ UNCHANGED <<free, live, entry, handle, unprotects>>

(* RootLease::drop; after teardown there is nothing to release any more.    *)
DropLease(v) ==
  /\ entry \in {"outside", "inside", "destroyed"} /\ kind[v] = "lease"
  /\ kind' = [kind EXCEPT ![v] = "none"]
  /\ IF entry # "destroyed" THEN Requested(handle[v]) ELSE UNCHANGED <<slots, pending_head, pending, queued>>
  /\ UNCHANGED <<free, live, entry, handle, unprotects>>

(* The stack that RootRegistry::drain refills, slot after slot. *)
Refilled ==
  LET upto[i \in 0 .. Len(slots)] ==
        IF i = 0 THEN <<>>
        ELSE IF NextGeneration(slots[i].generation) # MaxGeneration
             THEN Append(upto[i - 1], i) ELSE upto[i - 1]
  IN upto[Len(slots)]

(* Mutant: teardown leaves queued roots to an entry that never comes. *)
DrainSkipsQueued ==
  /\ entry = "outside"
  /\ slots' = [i \in DOMAIN slots |->
                 [generation |-> NextGeneration(slots[i].generation),
                  value |-> NoValue, release |-> Live]]
  /\ free' = Refilled
  /\ pending_head' = 0 /\ live' = 0 /\ pending' = 0
  /\ unprotects' = [v \in Values |->
                      IF \E i \in DOMAIN slots : slots[i].value = v /\ slots[i].release = Live
                      THEN unprotects[v] + 1 ELSE unprotects[v]]
  /\ queued' = <<>>
  /\ entry' = "destroyed"
  /\ UNCHANGED <<handle, kind>>

(* release_engine_resources: RootRegistry::drain, every value unprotected.  *)
Drain ==
  /\ entry = "outside"
  /\ slots' = [i \in DOMAIN slots |->
                 [generation |-> NextGeneration(slots[i].generation),
                  value |-> NoValue, release |-> Live]]
  /\ free' = Refilled
  /\ pending_head' = 0 /\ live' = 0 /\ pending' = 0
  /\ unprotects' = [v \in Values |->
                      IF \E i \in DOMAIN slots : slots[i].value = v
                      THEN unprotects[v] + 1 ELSE unprotects[v]]
  /\ queued' = <<>>
  /\ entry' = "destroyed"
  /\ UNCHANGED <<handle, kind>>

Next ==
  \/ Enter \/ Leave \/ TakePending \/ DrainEnds \/ Drain
  \/ \E v \in Values : DropLease(v) \/ Release(v) \/ \E k \in {"lease", "copy"} : Persist(v, k)

Spec == Init /\ [][Next]_vars

(* Fairness: an entry runs its maintenance and ends, and the runtime is     *)
(* entered again or torn down.                                             *)
FairSpec ==
  /\ Spec
  /\ WF_vars(TakePending \/ DrainEnds) /\ WF_vars(Leave)
  /\ WF_vars(Enter \/ Drain)
----------------------------------------------------------------------------
Ids == [slot : 0 .. Limit, generation : 0 .. MaxGeneration]

TypeOK ==
  /\ slots \in Seq([generation : 1 .. MaxGeneration, value : Values \cup {NoValue},
                    release : [state : {"live", "pending"}, next : 0 .. Limit]])
  /\ Len(slots) <= Limit
  /\ free \in Seq(1 .. Limit)
  /\ pending_head \in 0 .. Limit
  /\ live \in 0 .. Limit /\ pending \in 0 .. Limit
  /\ entry \in {"outside", "entering", "inside", "leaving", "destroyed"}
  /\ handle \in [Values -> Ids]
  /\ kind \in [Values -> {"none", "lease", "copy"}]
  /\ queued \in Seq(1 .. Limit)
  /\ unprotects \in [Values -> Nat]

(* The queue threaded through the slots (experimental.rs:1810-1840) is      *)
(* exactly the roots whose leases are gone, newest first, whatever was      *)
(* inserted and released in between; so take_pending never meets the live   *)
(* slot it calls unreachable.                                              *)
PendingListIsExact ==
  /\ pending = Len(queued)
  /\ pending_head = IF queued = <<>> THEN 0 ELSE Last(queued)
  /\ \A n \in DOMAIN queued :
       slots[queued[n]].release = Pending(IF n = 1 THEN 0 ELSE queued[n - 1])
  /\ {queued[n] : n \in DOMAIN queued} = {i \in DOMAIN slots : slots[i].release # Live}

(* live counts the protected values; every slot that is neither occupied    *)
(* nor out of generations is on the free stack once.                       *)
CapacityIsExact ==
  /\ live = Cardinality({i \in DOMAIN slots : slots[i].value # NoValue})
  /\ Len(free) = Cardinality({free[n] : n \in DOMAIN free})
  /\ {free[n] : n \in DOMAIN free}
       = {i \in DOMAIN slots : slots[i].value = NoValue /\ slots[i].generation # MaxGeneration}

(* A Persistent that exists resolves to its own value until teardown; any   *)
(* other handle resolves to its own value or is stale, even after its slot  *)
(* was used again (StaleHandle).                                           *)
HandlesNeverAlias ==
  \A v \in Values : handle[v] # NoId =>
    /\ Get(handle[v]) \in {v, NoValue}
    /\ kind[v] = "lease" /\ entry # "destroyed" => Get(handle[v]) = v

(* Types and bounds, the queue, the accounting of slots and the handles     *)
(* together: what insert, remove, take_pending and drain (experimental.rs:  *)
(* 1748-1846) must leave as they found it, or capacity is lost and a stale  *)
(* handle reaches another value.                                            *)
RegistryIsExact == TypeOK /\ PendingListIsExact /\ CapacityIsExact /\ HandlesNeverAlias

(* Every protection is balanced once: a value occupies a slot until it is   *)
(* unprotected, by release, by the queue or by teardown, and none is        *)
(* unprotected twice although copies outlive their root.                   *)
ProtectionIsBalanced ==
  \A v \in Values :
    /\ unprotects[v] <= 1
    /\ handle[v] # NoId =>
         (unprotects[v] = 0 <=> \E i \in DOMAIN slots : slots[i].value = v)
    /\ entry = "destroyed" /\ handle[v] # NoId => unprotects[v] = 1

(* A dropped Persistent does not protect its value for ever: the next entry *)
(* or the teardown gives it back.                                          *)
DroppedLeaseIsReleased ==
  \A v \in Values : kind[v] = "none" /\ handle[v] # NoId ~> unprotects[v] = 1
============================================================================
