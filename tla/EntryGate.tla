----------------------------- MODULE EntryGate -----------------------------
(***************************************************************************)
(* The entry gate of one host attachment, host/src/entry.rs.               *)
(*                                                                         *)
(* The gate is thread-affine: its operations never overlap, but the guards *)
(* they return live on, nest, drop in any order, and may be forgotten      *)
(* (mem::forget), which keeps the gate busy for good.  The gate sees only  *)
(* its own counters; `held', `forgotten' and `cleaner' say which guards    *)
(* really exist, and `completions' how many host cleanups completed.       *)
(***************************************************************************)
EXTENDS Integers

CONSTANT Limit             \* largest number of simultaneous entries, a NonZeroU32

ASSUME LimitAssumption == Limit \in Nat \ {0}

VARIABLES
  state,                   \* Cell<HostState>
  entries,                 \* Cell<u32>
  cleanup,                 \* Cell<bool>
  final_entry,             \* Cell<Option<FinalEntryOutcome>>
  final_entry_policy,      \* fixed for the attachment
  held,                    \* EntryGuards that will be dropped
  forgotten,               \*   and those that never will
  cleaner,                 \* the CleanupGuard: none, live or forgotten
  completions              \* history: how often CleanupGuard::complete has run

guardVars == <<held, forgotten, cleaner, completions>>
gateVars == <<state, entries, cleanup, final_entry, final_entry_policy, guardVars>>

States   == {"Active", "Draining", "Invalid", "Destroyed"}
Policies == {"Guaranteed", "BestEffort", "Unavailable"}
Outcomes == {"None", "Completed", "Unavailable"}

GateInit ==
  /\ state = "Active"
  /\ entries = 0
  /\ cleanup = FALSE
  /\ final_entry = "None"
  /\ final_entry_policy \in Policies
  /\ held = 0 /\ forgotten = 0
  /\ cleaner = "none"
  /\ completions = 0

(* try_enter answers NotActive or DepthLimit otherwise. *)
MayEnter == state = "Active" /\ entries < Limit

TryEnter ==
  /\ MayEnter
  /\ entries' = entries + 1
  /\ held' = held + 1
  /\ UNCHANGED <<state, cleanup, final_entry, final_entry_policy, forgotten, cleaner, completions>>

(* EntryGuard::drop, in whatever order the guards go. *)
ExitEntry ==
  /\ held > 0
  /\ held' = held - 1
  /\ entries' = entries - 1
  /\ UNCHANGED <<state, cleanup, final_entry, final_entry_policy, forgotten, cleaner, completions>>

ForgetEntry ==
  /\ held > 0
  /\ held' = held - 1
  /\ forgotten' = forgotten + 1
  /\ UNCHANGED <<state, entries, cleanup, final_entry, final_entry_policy, cleaner, completions>>

RequestDrain ==
  /\ state' = IF state = "Active" THEN "Draining" ELSE state
  /\ UNCHANGED <<entries, cleanup, final_entry, final_entry_policy, guardVars>>

(* Mutant: cleanup may start while entries remain. *)
BeginsCleanupBesideEntries ==
  /\ state = "Draining"
  /\ final_entry_policy # "Unavailable"
  /\ final_entry = "None"
  /\ ~cleanup
  /\ cleanup' = TRUE
  /\ cleaner' = "live"
  /\ UNCHANGED <<state, entries, final_entry, final_entry_policy, held, forgotten, completions>>

TryBeginCleanup ==
  /\ state = "Draining"
  /\ entries = 0
  /\ final_entry_policy # "Unavailable"
  /\ final_entry = "None"
  /\ ~cleanup
  /\ cleanup' = TRUE
  /\ cleaner' = "live"
  /\ UNCHANGED <<state, entries, final_entry, final_entry_policy, held, forgotten, completions>>

(* CleanupGuard::complete records the outcome and then drops the guard. *)
CompleteCleanup ==
  /\ cleaner = "live"
  /\ final_entry' = "Completed"
  /\ cleanup' = FALSE
  /\ cleaner' = "none"
  /\ completions' = completions + 1
  /\ UNCHANGED <<state, entries, final_entry_policy, held, forgotten>>

(* Mutant: only complete() releases the cleanup guard. *)
DropCleanupKeepsFlag ==
  /\ cleaner = "live"
  /\ cleaner' = "none"
  /\ UNCHANGED <<state, entries, cleanup, final_entry, final_entry_policy, held, forgotten, completions>>

(* A drop without completion, as an unwinding cleanup does. *)
DropCleanup ==
  /\ cleaner = "live"
  /\ cleanup' = FALSE
  /\ cleaner' = "none"
  /\ UNCHANGED <<state, entries, final_entry, final_entry_policy, held, forgotten, completions>>

ForgetCleanup ==
  /\ cleaner = "live"
  /\ cleaner' = "forgotten"
  /\ UNCHANGED <<state, entries, cleanup, final_entry, final_entry_policy, held, forgotten, completions>>

(* When finish_drain ends the drain.  In Invalid it only reports the        *)
(* outcome again; otherwise it answers why not.                             *)
MayFinish ==
  /\ ~cleanup
  /\ state = "Draining"
  /\ entries = 0
  /\ final_entry_policy = "Guaranteed" => final_entry # "None"

(* Mutant: finish_drain forgets the promise of a guaranteed policy. *)
FinishesWithoutPromisedEntry ==
  /\ ~cleanup
  /\ state = "Draining"
  /\ entries = 0
  /\ final_entry' = IF final_entry = "None" THEN "Unavailable" ELSE final_entry
  /\ state' = "Invalid"
  /\ UNCHANGED <<entries, cleanup, final_entry_policy, guardVars>>

FinishDrain ==
  /\ MayFinish
  /\ final_entry' = IF final_entry = "None" THEN "Unavailable" ELSE final_entry
  /\ state' = "Invalid"
  /\ UNCHANGED <<entries, cleanup, final_entry_policy, guardVars>>

MarkDestroyed ==
  /\ state \in {"Invalid", "Destroyed"}
  /\ state' = "Destroyed"
  /\ UNCHANGED <<entries, cleanup, final_entry, final_entry_policy, guardVars>>

GateNext ==
  \/ TryEnter \/ ExitEntry \/ ForgetEntry
  \/ RequestDrain
  \/ TryBeginCleanup \/ CompleteCleanup \/ DropCleanup \/ ForgetCleanup
  \/ FinishDrain
  \/ MarkDestroyed

GateSpec == GateInit /\ [][GateNext]_gateVars

(* Fairness of the host: guards it holds drop in the end, and a host that  *)
(* drains retries cleanup until one completes, then finishes and destroys. *)
GateFairSpec ==
  /\ GateSpec
  /\ WF_gateVars(held > 0 /\ (ExitEntry \/ ForgetEntry))
  /\ WF_gateVars(TryBeginCleanup)
  /\ WF_gateVars(cleaner = "live" /\ (CompleteCleanup \/ DropCleanup \/ ForgetCleanup))
  /\ SF_gateVars(CompleteCleanup)
  /\ WF_gateVars(FinishDrain)
  /\ WF_gateVars(state = "Invalid" /\ MarkDestroyed)
----------------------------------------------------------------------------
(* The gate's counters are the guards that really exist. *)
GateTypeOK ==
  /\ state \in States
  /\ entries \in 0 .. Limit
  /\ cleanup \in BOOLEAN
  /\ final_entry \in Outcomes
  /\ final_entry_policy \in Policies
  /\ held \in Nat /\ forgotten \in Nat /\ entries = held + forgotten
  /\ cleaner \in {"none", "live", "forgotten"} /\ (cleanup <=> cleaner # "none")
  /\ completions \in Nat

(* Engine access ends before the gate says so (entry.rs:285): no entry, no  *)
(* cleanup and no forgotten guard survives into Invalid or Destroyed, and   *)
(* cleanup runs alone, while draining.                                      *)
NoAccessAfterDrain ==
  /\ state \in {"Invalid", "Destroyed"} => held + forgotten = 0 /\ cleaner = "none"
  /\ cleaner # "none" => state = "Draining" /\ held + forgotten = 0

(* final_entry_outcome (entry.rs:203) reports Completed exactly when a host *)
(* cleanup did complete; a guaranteed final entry has happened before the   *)
(* engine is invalid, and a policy of Unavailable never admits one.         *)
OutcomeIsHonest ==
  /\ final_entry = "Completed" <=> completions > 0
  /\ completions <= 1
  /\ completions = 1 => final_entry_policy # "Unavailable"
  /\ state \in {"Invalid", "Destroyed"} =>
       /\ final_entry # "None"
       /\ final_entry_policy = "Guaranteed" => completions = 1

Rank(s) == IF s = "Active" THEN 0 ELSE IF s = "Draining" THEN 1 ELSE IF s = "Invalid" THEN 2 ELSE 3

(* A gate is never reactivated (entry.rs:63), entries only return once a    *)
(* drain is requested, and a reported outcome is never rewritten.           *)
TeardownIsOneWay ==
  [][/\ Rank(state') >= Rank(state)
     /\ state # "Active" => entries' <= entries
     /\ final_entry # "None" => final_entry' = final_entry]_gateVars

(* A requested drain destroys the attachment unless a guard was forgotten   *)
(* (entry.rs:97, 126: forgetting blocks completion).                        *)
DrainCompletes ==
  state = "Draining" ~> state = "Destroyed" \/ forgotten > 0 \/ cleaner = "forgotten"
============================================================================
