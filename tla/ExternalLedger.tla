--------------------------- MODULE ExternalLedger ---------------------------
(***************************************************************************)
(* Rust bytes moved into JavaScript ArrayBuffers, and the ledger that      *)
(* bounds them: external_buffer.rs of the JavaScriptCore backend, with its *)
(* two callers, Context::install_external_buffer and JscScope::externalize.*)
(*                                                                         *)
(* The runtime's thread reserves and reports; JSC runs the deallocator of  *)
(* each buffer on any thread, several at once.  Allocations and bytes are  *)
(* two atomics, and an action here is one access of one of them.           *)
(***************************************************************************)
EXTENDS Naturals, FiniteSets, FiniteSetsExt

CONSTANTS
  Buffers,           \* allocations, each transferred at most once
  Sizes,             \* their lengths
  AllocationLimit, ByteLimit    \* ExternalBufferLimits

ASSUME LimitsAssumption ==
  Sizes \subseteq Nat /\ AllocationLimit \in Nat /\ ByteLimit \in Nat

VARIABLES
  live_allocations, live_bytes, deallocations, \* ExternalLedger
  observed,          \* ExternalObservation::deallocations of each buffer
  origin, on_owner,  \*   and whether its two flags are stored
  size,              \* the length of each buffer
  stage,             \* the next step about each buffer
  reach,             \* buffers that JavaScript or a caller's frame can reach
  result,            \* what the caller was told about its bytes
  owner,             \* what the runtime's thread is in the middle of
  report             \* the last two counts it reported

ledgerVars == <<live_allocations, live_bytes, deallocations>>
observationVars == <<observed, origin, on_owner>>
callVars == <<reach, result>>
vars == <<ledgerVars, observationVars, size, stage, callVars, owner, report>>

Init ==
  /\ live_allocations = 0 /\ live_bytes = 0 /\ deallocations = 0
  /\ observed = [b \in Buffers |-> 0]
  /\ origin = [b \in Buffers |-> FALSE] /\ on_owner = [b \in Buffers |-> FALSE]
  /\ size \in [Buffers -> Sizes]
  /\ stage = [b \in Buffers |-> "rust"]
  /\ reach = {} /\ result = [b \in Buffers |-> "none"]
  /\ owner = "idle"
  /\ report = [allocations |-> 0, bytes |-> 0]

Step(b, from, to) == stage[b] = from /\ stage' = [stage EXCEPT ![b] = to]
----------------------------------------------------------------------------
Answer(b, answer) == result[b] = "none" /\ result' = [result EXCEPT ![b] = answer]

(* An inactive runtime, a name that is no string, a full local budget or a *)
(* full ledger: the bytes are still Rust's.                                *)
Reject(b) ==
  /\ owner = "idle" /\ stage[b] = "rust"
  /\ Answer(b, "Rejected") /\ UNCHANGED <<ledgerVars, observationVars, size, stage, reach, owner, report>>

(* reserve: the allocation first ... *)
ReserveAllocation(b) ==
  /\ owner = "idle" /\ owner' = "transferring"
  /\ live_allocations < AllocationLimit
  /\ result[b] = "none" /\ Step(b, "rust", "counted")
  /\ live_allocations' = live_allocations + 1
  /\ UNCHANGED <<live_bytes, deallocations, observationVars, size, callVars, report>>

(* ... then the bytes, or the allocation goes back. *)
ReserveBytes(b) ==
  /\ \/ /\ live_bytes + size[b] <= ByteLimit
        /\ Step(b, "counted", "reserved") /\ live_bytes' = live_bytes + size[b]
     \/ /\ live_bytes + size[b] > ByteLimit
        /\ Step(b, "counted", "refund") /\ UNCHANGED live_bytes
  /\ UNCHANGED <<live_allocations, deallocations, observationVars, size, callVars, owner, report>>

(* Mutant: a refused buffer keeps its allocation. *)
RefundForgotten(b) ==
  /\ Step(b, "refund", "rust") /\ owner' = "idle" /\ Answer(b, "Rejected")
  /\ UNCHANGED <<ledgerVars, observationVars, size, reach, report>>

Refund(b) ==
  /\ Step(b, "refund", "rust") /\ owner' = "idle" /\ Answer(b, "Rejected")
  /\ live_allocations' = live_allocations - 1
  /\ UNCHANGED <<live_bytes, deallocations, observationVars, size, reach, report>>

(* make_external_object: JSC has the bytes from here on, even if it throws *)
(* or returns null instead of a buffer.                                    *)
MakeBuffer(b) ==
  /\ Step(b, "reserved", "engine")
  /\ \/ reach' = reach \cup {b} /\ UNCHANGED <<result, owner>>
     \/ Answer(b, "Accepted") /\ owner' = "idle" /\ UNCHANGED reach
  /\ UNCHANGED <<ledgerVars, observationVars, size, report>>

Transferring(b) == owner = "transferring" /\ stage[b] = "engine" /\ b \in reach /\ result[b] = "none"

(* Mutant: a buffer that fails inspection is handed back as if it were     *)
(* Rust's.                                                                 *)
InspectFailsRejected(b) ==
  /\ Transferring(b)
  /\ Answer(b, "Rejected") /\ reach' = reach \ {b} /\ owner' = "idle"
  /\ UNCHANGED <<ledgerVars, observationVars, size, stage, report>>

(* A length or a backing store that cannot be read or is another: the      *)
(* object is dropped, and its bytes are JSC's to free.                     *)
InspectFails(b) ==
  /\ Transferring(b)
  /\ Answer(b, "Accepted") /\ reach' = reach \ {b} /\ owner' = "idle"
  /\ UNCHANGED <<ledgerVars, observationVars, size, stage, report>>

(* externalize roots the buffer in its scope. *)
Externalized(b) ==
  /\ Transferring(b)
  /\ Answer(b, "Ok") /\ owner' = "idle"
  /\ UNCHANGED <<ledgerVars, observationVars, size, stage, reach, report>>

(* install_external_buffer stores it in the global object: a setter may    *)
(* throw, and may have kept the buffer before it did.                      *)
Publish(b) ==
  /\ Transferring(b) /\ owner' = "idle"
  /\ \/ Answer(b, "Ok") /\ UNCHANGED reach
     \/ Answer(b, "Accepted") /\ reach' \in {reach, reach \ {b}}
  /\ UNCHANGED <<ledgerVars, observationVars, size, stage, report>>

(* JavaScript drops its last reference, or the scope closes. *)
Unreach(b) ==
  /\ b \in reach /\ result[b] # "none"
  /\ reach' = reach \ {b} /\ UNCHANGED <<ledgerVars, observationVars, size, stage, result, owner, report>>

(* resource_snapshot, and the report of a detach: allocations, then bytes. *)
ReportAllocations ==
  /\ owner = "idle" /\ owner' = "reporting"
  /\ report' = [report EXCEPT !.allocations = live_allocations]
  /\ UNCHANGED <<ledgerVars, observationVars, size, stage, callVars>>

ReportBytes ==
  /\ owner = "reporting" /\ owner' = "idle"
  /\ report' = [report EXCEPT !.bytes = live_bytes]
  /\ UNCHANGED <<ledgerVars, observationVars, size, stage, callVars>>
----------------------------------------------------------------------------
(* external_bytes_deallocator, on any thread, once nothing reaches the     *)
(* buffer: the observation's flags, then its count ...                     *)
StoreOrigin(b) ==
  /\ b \notin reach /\ Step(b, "engine", "origin stored")
  /\ origin' = [origin EXCEPT ![b] = TRUE]
  /\ UNCHANGED <<ledgerVars, observed, on_owner, size, callVars, owner, report>>

StoreThread(b) ==
  /\ Step(b, "origin stored", "flags stored")
  /\ on_owner' = [on_owner EXCEPT ![b] = TRUE]
  /\ UNCHANGED <<ledgerVars, observed, origin, size, callVars, owner, report>>

Observe(b) ==
  /\ Step(b, "flags stored", "observed")
  /\ observed' = [observed EXCEPT ![b] = @ + 1]
  /\ UNCHANGED <<ledgerVars, origin, on_owner, size, callVars, owner, report>>

(* ... then release: bytes, allocation, and the count of deallocations.    *)
ReleaseBytes(b) ==
  /\ Step(b, "observed", "bytes released")
  /\ live_bytes' = live_bytes - size[b]
  /\ UNCHANGED <<live_allocations, deallocations, observationVars, size, callVars, owner, report>>

ReleaseAllocation(b) ==
  /\ Step(b, "bytes released", "allocation released")
  /\ live_allocations' = live_allocations - 1
  /\ UNCHANGED <<live_bytes, deallocations, observationVars, size, callVars, owner, report>>

CountDeallocation(b) ==
  /\ Step(b, "allocation released", "released")
  /\ deallocations' = deallocations + 1
  /\ UNCHANGED <<live_allocations, live_bytes, observationVars, size, callVars, owner, report>>

(* Mutant: release gives the allocation back before the bytes. *)
ReleaseAllocationFirst(b) ==
  \/ /\ Step(b, "observed", "bytes released")
     /\ live_allocations' = live_allocations - 1
     /\ UNCHANGED <<live_bytes, deallocations, observationVars, size, callVars, owner, report>>
  \/ /\ Step(b, "bytes released", "allocation released")
     /\ live_bytes' = live_bytes - size[b]
     /\ UNCHANGED <<live_allocations, deallocations, observationVars, size, callVars, owner, report>>
  \/ CountDeallocation(b)

Release(b) == ReleaseBytes(b) \/ ReleaseAllocation(b) \/ CountDeallocation(b)

Deallocate(b) == StoreOrigin(b) \/ StoreThread(b) \/ Observe(b) \/ Release(b)

Next ==
  \/ ReportAllocations \/ ReportBytes
  \/ \E b \in Buffers :
       \/ Reject(b) \/ ReserveAllocation(b) \/ ReserveBytes(b) \/ Refund(b)
       \/ MakeBuffer(b) \/ InspectFails(b) \/ Externalized(b) \/ Publish(b)
       \/ Unreach(b) \/ Deallocate(b)

Spec == Init /\ [][Next]_vars
----------------------------------------------------------------------------
Stages == {"rust", "counted", "refund", "reserved", "engine", "origin stored", "flags stored",
           "observed", "bytes released", "allocation released", "released"}

TypeOK ==
  /\ live_allocations \in 0 .. AllocationLimit /\ live_bytes \in 0 .. ByteLimit
  /\ deallocations \in Nat
  /\ observed \in [Buffers -> Nat]
  /\ origin \in [Buffers -> BOOLEAN] /\ on_owner \in [Buffers -> BOOLEAN]
  /\ size \in [Buffers -> Sizes] /\ stage \in [Buffers -> Stages]
  /\ reach \subseteq Buffers /\ result \in [Buffers -> {"none", "Ok", "Rejected", "Accepted"}]
  /\ owner \in {"idle", "transferring", "reporting"}
  /\ report \in [allocations : 0 .. AllocationLimit, bytes : 0 .. ByteLimit]

Unreleased == {b \in Buffers : stage[b] \in {"reserved", "engine", "origin stored", "flags stored", "observed"}}

(* The two counters (external_buffer.rs:107-132) are exact at every step of *)
(* every overlapping reservation, refund and release, and no fetch_sub goes *)
(* below zero or a fetch_add beyond its limit.                             *)
LedgerIsExact ==
  /\ TypeOK
  /\ live_bytes = MapThenSumSet(LAMBDA b : size[b], Unreleased)
  /\ live_allocations
       = Cardinality(Unreleased \cup {b \in Buffers : stage[b] \in {"counted", "refund", "bytes released"}})

(* A report that says no allocation remains (attachment.rs:359-360) reports *)
(* no bytes either, whichever deallocators run while it is made.           *)
ReportIsPlausible ==
  owner = "idle" /\ report.allocations = 0 => report.bytes = 0

(* The caller knows whose bytes they are (OwnershipTransferError, and       *)
(* external_buffer.rs:239-328): rejected bytes were never JSC's and are not *)
(* charged, all others are freed by the deallocator alone, once, when       *)
(* nothing reaches them.  is_deallocated comes with both facts about the    *)
(* deallocation (external_buffer.rs:68-93) before the quota is given back.  *)
TransferIsHonest ==
  \A b \in Buffers :
    /\ result[b] = "Rejected" => stage[b] = "rust"
    /\ result[b] \in {"Ok", "Accepted"} => stage[b] \notin {"rust", "counted", "refund", "reserved"}
    /\ observed[b] <= 1
    /\ observed[b] = 1 => b \notin reach /\ origin[b] /\ on_owner[b]
    /\ stage[b] \in {"bytes released", "allocation released", "released"} => observed[b] = 1
=============================================================================
