---------------------------- MODULE JscTeardown ----------------------------
(***************************************************************************)
(* The JSC runtimes of one thread: entry, refusal of crossed entries,      *)
(* teardown and its reports, backend-jsc/src/experimental.rs and           *)
(* attachment.rs, common.rs and host_adapter.rs of experimental/.          *)
(*                                                                         *)
(* One runtime at a time is entered (ACTIVE_RUNTIME).  Application code    *)
(* runs inside an entry and inside every destructor that teardown calls,   *)
(* so a runtime may be dropped while another is entered or half torn down. *)
(* When the entered context shares its group, the drop is deferred until   *)
(* the entry ends.  The stack holds what the thread is in the middle of.   *)
(*                                                                         *)
(* A runtime's protected values and its functions are one resource here    *)
(* (RootRegistry has the details), its native states another (NativeState  *)
(* has those), and its gate only keeps what an exclusive borrow leaves of  *)
(* EntryGate.                                                              *)
(***************************************************************************)
EXTENDS Integers, Sequences, SequencesExt

CONSTANTS
  Owned,             \* standalone Runtimes, which own their context
  Adopted,           \* Attachments to a context of the host
  Group,             \* context group of each
  NoRuntime

Runtimes == Owned \cup Adopted
Policies == {"Guaranteed", "BestEffort", "Unavailable"}

ASSUME RuntimesAssumption ==
  /\ Owned \cap Adopted = {} /\ NoRuntime \notin Runtimes
  /\ Runtimes \subseteq DOMAIN Group

VARIABLES
  held,              \* the Runtime or Attachment value exists
  policy,            \* FinalEntryPolicy, Guaranteed for a standalone runtime
  gate,              \* Shared::gate
  resources,         \* "held", "settled" in the engine, or left "unresolved"
  native,            \* native states in the registry
  final_entry,       \* what the gate recorded of the final entry
  report,            \* the last DetachReport of each attachment
  accounted,         \* history: resources in all reports of each attachment
  context,           \* the global context, as far as RustJSI is concerned
  active,            \* ACTIVE_RUNTIME
  deferred,          \* DEFERRED_OWNED_DROPS
  stack              \* frames of the thread, innermost last

teardownVars == <<gate, resources, native, final_entry, report, accounted>>
vars == <<held, policy, teardownVars, context, active, deferred, stack>>

NoReport == [final_entry |-> "None", settled |-> 0, unresolved |-> 0]

Init ==
  /\ held = [r \in Runtimes |-> TRUE]
  /\ policy \in [Runtimes -> Policies] /\ \A r \in Owned : policy[r] = "Guaranteed"
  /\ gate = [r \in Runtimes |-> "Active"]
  /\ resources = [r \in Runtimes |-> "held"] /\ native = [r \in Runtimes |-> 1]
  /\ final_entry = [r \in Runtimes |-> "None"]
  /\ report = [r \in Adopted |-> NoReport] /\ accounted = [r \in Adopted |-> 0]
  /\ context = [r \in Runtimes |-> "live"]
  /\ active = NoRuntime
  /\ deferred = <<>>
  /\ stack = <<>>
----------------------------------------------------------------------------
(* A frame; a teardown counts in it what it settles and leaves unresolved. *)
Frame(at, r) ==
  [at |-> at, runtime |-> r, previous |-> active, settled |-> 0, unresolved |-> 0]

Top(at)       == stack # <<>> /\ Last(stack).at = at
Push(at, r)   == stack' = Append(stack, Frame(at, r))
Above(below, frame) == stack' = Append(below, frame)

(* The stack once the host has called the operation it was given. *)
HostCalled    == Append(Front(stack), [Last(stack) EXCEPT !.at = "host"])

(* Application code runs: nothing, an entry's operation, or a destructor.  *)
UserCode == stack = <<>> \/ Top("operation") \/ Top("callbacks") \/ Top("states")

(* The value can be used: it exists and no frame borrows it.  So its gate   *)
(* has no entries and no cleanup.                                          *)
Usable(r) == held[r] /\ \A i \in DOMAIN stack : stack[i].runtime # r

(* ensure_entry_compatible, and the exception invalidate makes of it.       *)
Compatible(r) == active \in {NoRuntime, r}

(* Mutant: a runtime of the entered group counts as independent too. *)
AlwaysIndependent(r) == active # NoRuntime

(* context_group_is_independent_from_active_entry *)
Independent(r) == active # NoRuntime /\ Group[active] # Group[r]
----------------------------------------------------------------------------
(* ActiveEntryFrame::enter *)
Enter(r) ==
  /\ UserCode /\ Usable(r)
  /\ gate[r] = "Active"
  /\ Compatible(r)
  /\ active' = r
  /\ Push("operation", r)
  /\ UNCHANGED <<held, policy, teardownVars, context, deferred>>

(* Runtime::with_context, and Attachment::with_context in the context that  *)
(* the host lends; what an entry does first and last is in NativeState and  *)
(* RootRegistry.                                                            *)
EnterOwned(r)    == r \in Owned /\ Enter(r)
EnterAttached(r) == r \in Adopted /\ Enter(r)

(* Mutant: the drops deferred by an entry wait for another entry. *)
LeaveWithoutDrain ==
  /\ Top("operation")
  /\ active' = Last(stack).previous
  /\ stack' = Front(stack)
  /\ UNCHANGED <<held, policy, teardownVars, context, deferred>>

(* ActiveEntryFrame::drop, after a return and on unwinding alike. *)
Leave ==
  /\ Top("operation")
  /\ active' = Last(stack).previous
  /\ stack' = IF active' = NoRuntime
              THEN Append(Front(stack), [Frame("drain", NoRuntime) EXCEPT !.previous = NoRuntime])
              ELSE Front(stack)
  /\ UNCHANGED <<held, policy, teardownVars, context, deferred>>
----------------------------------------------------------------------------
(* The first half of destroy_owned_runtime and of detach_with_context:      *)
(* request_drain, try_begin_cleanup, and release_engine_resources up to the *)
(* destructors of the callbacks.                                           *)
Held(r) == IF resources[r] = "held" THEN 1 ELSE 0

ReleaseOn(below, r) ==
  /\ gate' = [gate EXCEPT ![r] = "Draining"]
  /\ resources' = [resources EXCEPT ![r] = "settled"]
  /\ Above(below, [Frame("callbacks", r) EXCEPT !.settled = Held(r)])
  /\ UNCHANGED <<native, final_entry, report, accounted>>

Release(r) == ReleaseOn(stack, r)

(* Runtime::invalidate *)
Invalidate(r) ==
  /\ UserCode /\ r \in Owned /\ Usable(r)
  /\ gate[r] # "Destroyed"
  /\ Compatible(r) \/ Independent(r)
  /\ Release(r)
  /\ UNCHANGED <<held, policy, context, active, deferred>>

(* Runtime::drop *)
Drop(r) ==
  /\ UserCode /\ r \in Owned /\ Usable(r)
  /\ held' = [held EXCEPT ![r] = FALSE]
  /\ \/ /\ gate[r] = "Destroyed"
        /\ UNCHANGED <<teardownVars, stack, deferred>>
     \/ /\ gate[r] # "Destroyed" /\ (Compatible(r) \/ Independent(r))
        /\ Release(r) /\ UNCHANGED deferred
     \/ /\ gate[r] # "Destroyed" /\ ~Compatible(r) /\ ~Independent(r)
        /\ deferred' = Append(deferred, r) /\ UNCHANGED <<teardownVars, stack>>
  /\ UNCHANGED <<policy, context, active>>

(* drain_deferred_owned_drops: the last deferred runtime goes first. *)
DrainOne ==
  /\ Top("drain") /\ deferred # <<>>
  /\ deferred' = Front(deferred)
  /\ Release(Last(deferred))
  /\ UNCHANGED <<held, policy, context, active>>

DrainEnds ==
  /\ Top("drain") /\ deferred = <<>>
  /\ stack' = Front(stack)
  /\ UNCHANGED <<held, policy, teardownVars, context, active, deferred>>
----------------------------------------------------------------------------
(* A refused teardown leaves the gate closed. *)
RefusedOn(below, r) ==
  /\ gate' = [gate EXCEPT ![r] = "Draining"]
  /\ stack' = below
  /\ UNCHANGED <<resources, native, final_entry, report, accounted>>

(* detach_with_context: a host without final entries is refused cleanup.    *)
DetachOn(below, r) ==
  IF policy[r] = "Unavailable" THEN RefusedOn(below, r) ELSE ReleaseOn(below, r)

DetachWith(r) ==
  /\ UserCode /\ r \in Adopted /\ Usable(r)
  /\ Compatible(r) /\ gate[r] # "Destroyed"
  /\ DetachOn(stack, r)
  /\ UNCHANGED <<held, policy, context, active, deferred>>

(* Mutant: an abandoned attachment ignores its promised final entry. *)
AbandonAnyPolicy(r) ==
  /\ gate' = [gate EXCEPT ![r] = "Invalid"]
  /\ resources' = [resources EXCEPT ![r] = "unresolved"]
  /\ native' = [native EXCEPT ![r] = 0]
  /\ final_entry' = [final_entry EXCEPT ![r] = "Unavailable"]
  /\ Above(stack, [Frame("states", r) EXCEPT !.settled = native[r], !.unresolved = Held(r)])
  /\ UNCHANGED <<report, accounted>>

(* request_drain, finish_drain and abandon_engine_resources: what is        *)
(* protected stays so, until the host destroys the context.  The           *)
(* destructors of callbacks and of states follow one another here.         *)
Abandon(r) ==
  LET refused == policy[r] = "Guaranteed" IN
  /\ gate' = [gate EXCEPT ![r] = IF refused THEN "Draining" ELSE "Invalid"]
  /\ resources' = [resources EXCEPT ![r] = "unresolved"]
  /\ native' = [native EXCEPT ![r] = 0]
  /\ final_entry' = [final_entry EXCEPT ![r] = IF refused THEN @ ELSE "Unavailable"]
  /\ Above(stack, [Frame("states", r) EXCEPT !.settled = native[r], !.unresolved = Held(r)])
  /\ UNCHANGED <<report, accounted>>

(* detach_without_context: Guaranteed rejects it. *)
DetachWithout(r) ==
  /\ UserCode /\ r \in Adopted /\ Usable(r)
  /\ gate[r] # "Destroyed"
  /\ IF policy[r] = "Guaranteed" THEN RefusedOn(stack, r) ELSE Abandon(r)
  /\ UNCHANGED <<held, policy, context, active, deferred>>

(* Attachment::drop: Guaranteed gives up its resources but never reports    *)
(* their destruction.                                                      *)
DropAttachment(r) ==
  /\ UserCode /\ r \in Adopted /\ Usable(r)
  /\ held' = [held EXCEPT ![r] = FALSE]
  /\ IF gate[r] = "Destroyed" THEN UNCHANGED <<teardownVars, stack>> ELSE Abandon(r)
  /\ UNCHANGED <<policy, context, active, deferred>>

(* Attachment::report *)
Reported(r, settled, unresolved) ==
  /\ report' = [report EXCEPT ![r] =
       [final_entry |-> final_entry[r], settled |-> settled, unresolved |-> unresolved]]
  /\ accounted' = [accounted EXCEPT ![r] = @ + settled + unresolved]

(* A detach repeated: empty_report tells the outcome again and counts       *)
(* nothing.                                                                *)
DetachAgain(r) ==
  /\ UserCode /\ r \in Adopted /\ Usable(r)
  /\ gate[r] = "Destroyed"
  /\ Reported(r, 0, 0)
  /\ UNCHANGED <<held, policy, gate, resources, native, final_entry, context, active, deferred, stack>>
----------------------------------------------------------------------------
(* JscAttachedHost::with_backend and detach_with_entry: the foreign host    *)
(* (external) is asked for a legal entry, which it may refuse, and then     *)
(* calls the attachment back, holding its own lock meanwhile.               *)
HostEnter(r, purpose) ==
  /\ UserCode /\ r \in Adopted /\ Usable(r)
  /\ purpose = "host_detach" => gate[r] # "Destroyed"
  /\ Compatible(r)
  /\ Push(purpose, r)
  /\ UNCHANGED <<held, policy, teardownVars, context, active, deferred>>

(* Attachment::with_backend inside the host's entry. *)
HostBackend ==
  /\ Top("host_backend")
  /\ LET r == Last(stack).runtime IN
       IF gate[r] = "Active" /\ Compatible(r)
       THEN active' = r /\ Above(HostCalled, Frame("operation", r))
       ELSE stack' = HostCalled /\ UNCHANGED active
  /\ UNCHANGED <<held, policy, teardownVars, context, deferred>>

(* Attachment::detach_with_context inside the host's entry. *)
HostDetach ==
  /\ Top("host_detach")
  /\ LET r == Last(stack).runtime IN
       IF Compatible(r) THEN DetachOn(HostCalled, r)
       ELSE stack' = HostCalled /\ UNCHANGED teardownVars
  /\ UNCHANGED <<held, policy, context, active, deferred>>

HostEnds ==
  /\ Top("host")
  /\ stack' = Front(stack)
  /\ UNCHANGED <<held, policy, teardownVars, context, active, deferred>>
----------------------------------------------------------------------------
(* The second half: cleanup completes, finish_drain, and a standalone       *)
(* runtime releases its context; retire_native_states runs destructors.     *)
CallbacksEnd ==
  /\ Top("callbacks")
  /\ LET r == Last(stack).runtime IN
       /\ gate' = [gate EXCEPT ![r] = "Invalid"]
       /\ final_entry' = [final_entry EXCEPT ![r] = "Completed"]
       /\ context' = [context EXCEPT ![r] = IF r \in Owned THEN "released" ELSE @]
       /\ native' = [native EXCEPT ![r] = 0]
       /\ Above(Front(stack), [Last(stack) EXCEPT !.at = "states", !.settled = @ + native[r]])
  /\ UNCHANGED <<held, policy, resources, report, accounted, active, deferred>>

(* mark_destroyed, which fails unless the drain finished; a detach then     *)
(* reports.                                                                *)
StatesEnd ==
  /\ Top("states")
  /\ LET frame == Last(stack)  r == frame.runtime IN
       /\ gate' = [gate EXCEPT ![r] = IF @ = "Invalid" THEN "Destroyed" ELSE @]
       /\ IF r \in Adopted /\ held[r] THEN Reported(r, frame.settled, frame.unresolved)
          ELSE UNCHANGED <<report, accounted>>
  /\ stack' = Front(stack)
  /\ UNCHANGED <<held, policy, resources, native, final_entry, context, active, deferred>>

Next ==
  \/ Leave \/ DrainOne \/ DrainEnds \/ CallbacksEnd \/ StatesEnd
  \/ HostBackend \/ HostDetach \/ HostEnds
  \/ \E r \in Runtimes :
       \/ EnterOwned(r) \/ EnterAttached(r) \/ Invalidate(r) \/ Drop(r)
       \/ DetachWith(r) \/ DetachWithout(r) \/ DetachAgain(r) \/ DropAttachment(r)
       \/ \E purpose \in {"host_backend", "host_detach"} : HostEnter(r, purpose)

Spec == Init /\ [][Next]_vars

(* Fairness: operations and destructors return, though what they call may   *)
(* enter and leave other runtimes meanwhile, any finite number of times.    *)
FairSpec ==
  /\ Spec
  /\ SF_vars(Leave) /\ SF_vars(CallbacksEnd) /\ SF_vars(StatesEnd)
  /\ WF_vars(DrainOne) /\ WF_vars(DrainEnds)
  /\ WF_vars(HostBackend) /\ WF_vars(HostDetach) /\ WF_vars(HostEnds)
----------------------------------------------------------------------------
Frames == [at : {"operation", "callbacks", "states", "drain", "host_backend", "host_detach", "host"},
           runtime : Runtimes \cup {NoRuntime}, previous : Runtimes \cup {NoRuntime},
           settled : 0 .. 2, unresolved : 0 .. 1]
Outcomes == {"None", "Completed", "Unavailable"}

TypeOK ==
  /\ held \in [Runtimes -> BOOLEAN]
  /\ policy \in [Runtimes -> Policies]
  /\ gate \in [Runtimes -> {"Active", "Draining", "Invalid", "Destroyed"}]
  /\ resources \in [Runtimes -> {"held", "settled", "unresolved"}]
  /\ native \in [Runtimes -> 0 .. 1] /\ final_entry \in [Runtimes -> Outcomes]
  /\ report \in [Adopted -> [final_entry : Outcomes, settled : 0 .. 2, unresolved : 0 .. 1]]
  /\ accounted \in [Adopted -> 0 .. 2]
  /\ context \in [Runtimes -> {"live", "released"}]
  /\ active \in Runtimes \cup {NoRuntime}
  /\ deferred \in Seq(Owned)
  /\ stack \in Seq(Frames)

Operations == {i \in DOMAIN stack : stack[i].at = "operation"}

HostFrames == {i \in DOMAIN stack : stack[i].at \in {"host_backend", "host_detach", "host"}}

(* ACTIVE_RUNTIME names the runtime whose operation is on the stack: there  *)
(* is at most one, whatever destructors ran and entered in between, so a    *)
(* callback always finds its own runtime (experimental.rs:1982).  A foreign *)
(* host is never asked for its lock from inside an entry of another runtime *)
(* (host_adapter.rs:152), though a detach holding it may enter others.      *)
ActiveIsTheEntry ==
  /\ \A i, j \in Operations : i = j
  /\ active = NoRuntime <=> Operations = {}
  /\ \A i \in Operations : stack[i].runtime = active /\ gate[active] = "Active"
  /\ \A i \in HostFrames, j \in Operations : i < j

(* The entry that is on the stack is the only one, and teardown touches the  *)
(* engine only where no entry of its context group is on the stack           *)
(* (experimental.rs:840, 1626, 1880; host_adapter.rs:152), whatever          *)
(* destructors and hosts call in between.                                    *)
EntriesStayApart ==
  /\ []ActiveIsTheEntry
  /\ [][\A r \in Runtimes :
          (resources'[r] = "settled" /\ resources[r] # "settled") \/ context'[r] # context[r]
          => active = NoRuntime \/ Group[active] # Group[r]]_vars

(* What a destroyed gate reports of its engine resources is true: owned     *)
(* runtimes and guaranteed attachments settled theirs in a final entry, the *)
(* context was released after that and only by its owner, and an attachment *)
(* abandoned without its promised entry is never called destroyed.  The     *)
(* reports of a detach (attachment.rs:331-367), however often it is refused *)
(* and repeated, account for every resource once, and for those settled     *)
(* as settled.                                                             *)
DestroyedIsHonest ==
  /\ TypeOK
  /\ \A r \in Runtimes :
       /\ gate[r] \in {"Invalid", "Destroyed"} /\ policy[r] = "Guaranteed"
            => resources[r] = "settled"
       /\ gate[r] = "Destroyed" => resources[r] # "held" /\ native[r] = 0
       /\ gate[r] = "Destroyed" => (context[r] = "released" <=> r \in Owned)
       /\ context[r] = "released" => resources[r] = "settled" /\ gate[r] \in {"Invalid", "Destroyed"}
  /\ \A r \in Adopted :
       /\ accounted[r] = IF gate[r] = "Destroyed" /\ report[r].final_entry # "None" THEN 2 ELSE 0
       /\ gate[r] = "Destroyed" /\ held[r] => report[r].final_entry # "None"
       /\ report[r].final_entry = "Completed" => resources[r] = "settled" /\ report[r].unresolved = 0
       /\ report[r].final_entry = "Unavailable" => resources[r] = "unresolved" /\ report[r].settled < 2

(* Every dropped standalone runtime is destroyed in the end. *)
DroppedIsDestroyed == \A r \in Owned : ~held[r] ~> gate[r] = "Destroyed"
============================================================================
