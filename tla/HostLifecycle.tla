--------------------------- MODULE HostLifecycle ----------------------------
(***************************************************************************)
(* A host and its oracle: the entry gate of EntryGate, as ModelHost of     *)
(* testkit/src/model_host.rs drives it, in lockstep with LifecycleModel of *)
(* testkit/src/lifecycle.rs, the pure model that host tests compare hosts  *)
(* with.  The gate counts guards; the oracle names each entry and keeps a  *)
(* trace.  Oracle operations are functions of its state that leave it      *)
(* alone when they are refused.                                            *)
(***************************************************************************)
EXTENDS EntryGate, FiniteSets, Sequences

CONSTANT MAX             \* u64::MAX, of entry sequences

ASSUME MaxAssumption == MAX \in Nat \ {0}

VARIABLES
  oracle,                \* LifecycleModel
  lost                   \* entries whose guard was forgotten

allVars == <<gateVars, oracle, lost>>
----------------------------------------------------------------------------
(* AttachmentId: the one installed here, and one of another epoch or runtime. *)
Own   == 1
Other == 2

NewLifecycle == [attachment |-> Own, state |-> "Active", next_entry |-> 1, live |-> {}, events |-> <<>>]

Event(kind) == [kind |-> kind, entry |-> 0]

Tell(o, event) == [o EXCEPT !.events = Append(@, event)]

enter(o) ==
  IF o.state # "Active" \/ o.next_entry = MAX THEN o
  ELSE Tell([o EXCEPT !.next_entry = @ + 1, !.live = @ \cup {o.next_entry}],
            [kind |-> "Entered", entry |-> o.next_entry])

(* Mutant: an entry that leaves a draining runtime stays registered. *)
ExitKeepsEntry(o, e) ==
  IF e \notin o.live THEN o
  ELSE Tell([o EXCEPT !.live = IF o.state = "Active" THEN @ \ {e} ELSE @], [kind |-> "Exited", entry |-> e])

(* What both an exit and a request of invalidation end with. *)
AnnounceReady(o) == IF o.state = "Draining" /\ o.live = {} THEN Tell(o, Event("DrainReady")) ELSE o

exit(o, e) ==
  IF e \notin o.live THEN o
  ELSE AnnounceReady(Tell([o EXCEPT !.live = @ \ {e}], [kind |-> "Exited", entry |-> e]))

request_invalidate(o) ==
  IF o.state # "Active" THEN o
  ELSE AnnounceReady(Tell([o EXCEPT !.state = "Draining"], Event("DrainRequested")))

finish_drain(o) ==
  IF o.state # "Draining" \/ o.live # {} THEN o
  ELSE Tell([o EXCEPT !.state = "Invalid"], Event("Invalidated"))

validate_work(o, attachment) == attachment = o.attachment /\ o.state = "Active"

destroy(o) ==
  IF o.state # "Invalid" THEN o
  ELSE Tell([o EXCEPT !.state = "Destroyed"], Event("Destroyed"))
----------------------------------------------------------------------------
HostInit == GateInit /\ oracle = NewLifecycle /\ lost = {}

Enter ==
  /\ oracle.next_entry < MAX
  /\ TryEnter /\ oracle' = enter(oracle) /\ UNCHANGED lost

Exit(e) == e \notin lost /\ ExitEntry /\ oracle' = exit(oracle, e) /\ UNCHANGED lost

(* A forgotten guard leaves its entry registered for good. *)
Forget(e) == e \notin lost /\ ForgetEntry /\ lost' = lost \cup {e} /\ UNCHANGED oracle

Invalidate == RequestDrain /\ oracle' = request_invalidate(oracle) /\ UNCHANGED lost

(* The oracle does not know final entries: they are the host's business. *)
Cleans == (TryBeginCleanup \/ CompleteCleanup \/ DropCleanup \/ ForgetCleanup) /\ UNCHANGED <<oracle, lost>>

EndDrain == FinishDrain /\ oracle' = finish_drain(oracle) /\ UNCHANGED lost

Destroy == MarkDestroyed /\ oracle' = destroy(oracle) /\ UNCHANGED lost

HostNext ==
  \/ Enter \/ \E e \in oracle.live : Exit(e) \/ Forget(e)
  \/ Invalidate \/ Cleans \/ EndDrain \/ Destroy

(* EntryGate's fairness, over the steps of both. *)
HostSpec ==
  /\ HostInit /\ [][HostNext]_allVars
  /\ WF_allVars(\E e \in oracle.live : Exit(e) \/ Forget(e))
  /\ WF_allVars(Cleans /\ TryBeginCleanup)
  /\ WF_allVars(Cleans /\ cleaner = "live")
  /\ SF_allVars(Cleans /\ CompleteCleanup)
  /\ WF_allVars(EndDrain)
  /\ WF_allVars(state = "Invalid" /\ Destroy)
----------------------------------------------------------------------------
Positions(events, kind) == {i \in DOMAIN events : events[i].kind = kind}

Before(events, first, second) ==
  \A i \in Positions(events, first), j \in Positions(events, second) : i < j

(* events() (lifecycle.rs:144-147) tells the history: every transition is   *)
(* announced once, the drain is ready exactly when the last entry has left, *)
(* by whichever call that became true, and nothing enters after a request.  *)
TraceIsComplete ==
  LET Count(kind) == Cardinality(Positions(oracle.events, kind))
      Once(kind, happened) == Count(kind) = IF happened THEN 1 ELSE 0
      Order(first, second) == Before(oracle.events, first, second)
  IN  /\ Once("DrainRequested", state # "Active")
      /\ Once("DrainReady", state # "Active" /\ entries = 0)
      /\ Once("Invalidated", state \in {"Invalid", "Destroyed"})
      /\ Once("Destroyed", state = "Destroyed")
      /\ Order("Entered", "DrainRequested") /\ Order("Exited", "DrainReady")
      /\ Order("DrainRequested", "DrainReady") /\ Order("DrainReady", "Invalidated")
      /\ Order("Invalidated", "Destroyed")
      /\ Count("Entered") - Count("Exited") = entries

(* Host and oracle agree (model_host.rs:49-69 against lifecycle.rs:153-256) *)
(* on the state, on the number of entries, and on what they would admit     *)
(* next: an entry or work of this attachment below the gate's depth, and    *)
(* the end of a drain when no final entry is pending.                       *)
OracleAgrees ==
  /\ TraceIsComplete
  /\ oracle.state = state /\ Cardinality(oracle.live) = entries
  /\ entries < Limit /\ oracle.next_entry < MAX => (MayEnter <=> enter(oracle) # oracle)
  /\ entries < Limit =>
       \A id \in {Own, Other} : validate_work(oracle, id) <=> id = Own /\ MayEnter
  /\ final_entry_policy = "BestEffort" /\ ~cleanup =>
       (MayFinish <=> finish_drain(oracle) # oracle)
=============================================================================
