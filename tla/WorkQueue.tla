----------------------------- MODULE WorkQueue ------------------------------
(***************************************************************************)
(* WorkQueueModel of testkit/src/work_queue.rs, the sequential oracle for  *)
(* bounded work queues: admission by one-shot reservations, one drain at a *)
(* time, and a terminal owner that takes what is left.                     *)
(*                                                                         *)
(* Reservations and leases are plain copies, so every operation is tried   *)
(* with every token that was ever issued.  An operation that is refused    *)
(* changes nothing unless it hands a payload back.                         *)
(***************************************************************************)
EXTENDS Naturals, Sequences

CONSTANTS
  Payloads,      \* each is submitted at most once
  Capacity,      \* NonZeroUsize
  MAX            \* u64::MAX, the last sequence of each kind of token

ASSUME WorkQueueAssumption == Capacity \in Nat \ {0} /\ MAX \in Nat \ {0}

VARIABLES
  state, queue, reservations,
  active_drain, active_terminal_drain,       \* a sequence, or None
  next_reservation, next_lease, next_terminal_lease,   \* None once used up
  carries,       \* reservation -> the payload its producer wants to submit
  custody        \* history: where each payload is

tokens == <<next_reservation, next_lease, next_terminal_lease>>
leases == <<active_drain, active_terminal_drain>>
vars == <<state, queue, reservations, leases, tokens, carries, custody>>

None == 0

Init ==
  /\ state = "Open" /\ queue = <<>> /\ reservations = {}
  /\ active_drain = None /\ active_terminal_drain = None
  /\ next_reservation = 1 /\ next_lease = 1 /\ next_terminal_lease = 1
  /\ carries = <<>> /\ custody = [p \in Payloads |-> "unsubmitted"]

(* checked_add(1).and_then(NonZeroU64::new) *)
Successor(sequence) == IF sequence < MAX THEN sequence + 1 ELSE None

(* Every token of a kind that has been issued, dead or alive. *)
Issued(next) == IF next = None THEN 1 .. MAX ELSE 1 .. next - 1

Moves(p, to) == custody' = [custody EXCEPT ![p] = to]

reserve(p) ==
  /\ state = "Open" /\ next_reservation # None /\ custody[p] = "unsubmitted"
  /\ reservations' = reservations \cup {next_reservation}
  /\ carries' = Append(carries, p) /\ Moves(p, "submitted")
  /\ next_reservation' = Successor(next_reservation)
  /\ UNCHANGED <<state, queue, leases, next_lease, next_terminal_lease>>

(* The reservation settles, whether or not there is room. *)
Publishes(r, p) ==
  /\ reservations' = reservations \ {r}
  /\ IF Len(queue) = Capacity
     THEN Moves(p, "returned") /\ UNCHANGED queue
     ELSE Moves(p, "retained") /\ queue' = Append(queue, p)
  /\ UNCHANGED <<state, leases, tokens, carries>>

(* Mutant: a settled reservation publishes again. *)
PublishAgain(r, p) == (p = carries[r] \/ custody[p] = "unsubmitted") /\ Publishes(r, p)

publish(r, p) ==
  \/ r \in reservations /\ p = carries[r] /\ Publishes(r, p)
  \/ r \notin reservations /\ custody[p] = "unsubmitted" /\ Moves(p, "returned")
     /\ UNCHANGED <<state, queue, reservations, leases, tokens, carries>>

abandon(r) ==
  /\ r \in reservations
  /\ reservations' = reservations \ {r} /\ Moves(carries[r], "returned")
  /\ UNCHANGED <<state, queue, leases, tokens, carries>>

begin_close ==
  /\ state = "Open" /\ state' = "Closing"
  /\ UNCHANGED <<queue, reservations, leases, tokens, carries, custody>>

begin_drain ==
  /\ state \in {"Open", "Closing"} /\ active_drain = None /\ queue # <<>> /\ next_lease # None
  /\ active_drain' = next_lease /\ next_lease' = Successor(next_lease)
  /\ UNCHANGED <<state, queue, reservations, active_terminal_drain, next_reservation, next_terminal_lease, carries, custody>>

require_active_drain(lease)          == active_drain = lease
require_active_terminal_drain(lease) == active_terminal_drain = lease

PopsTo(to) ==
  /\ queue # <<>> /\ queue' = Tail(queue) /\ Moves(Head(queue), to)
  /\ UNCHANGED <<state, reservations, leases, tokens, carries>>

pop(lease) == require_active_drain(lease) /\ PopsTo("delivered")

finish_drain(lease) ==
  /\ require_active_drain(lease) /\ active_drain' = None
  /\ UNCHANGED <<state, queue, reservations, active_terminal_drain, tokens, carries, custody>>

Terminal(sequence, next) ==
  /\ active_terminal_drain' = sequence /\ state' = next
  /\ UNCHANGED <<queue, reservations, active_drain, next_reservation, next_lease, carries, custody>>

begin_terminal_drain ==
  /\ state \in {"Closing", "TerminalPending"} /\ next_terminal_lease # None
  /\ state = "Closing" => reservations = {} /\ active_drain = None
  /\ Terminal(next_terminal_lease, "TerminalDraining") /\ next_terminal_lease' = Successor(next_terminal_lease)

pop_terminal(lease) == require_active_terminal_drain(lease) /\ PopsTo("residual")

finish_terminal_drain(lease) ==
  /\ require_active_terminal_drain(lease) /\ queue = <<>>
  /\ Terminal(None, "Closed") /\ UNCHANGED next_terminal_lease

release_terminal_drain(lease) ==
  /\ require_active_terminal_drain(lease)
  /\ Terminal(None, "TerminalPending") /\ UNCHANGED next_terminal_lease

Next ==
  \/ \E p \in Payloads : reserve(p) \/ \E r \in Issued(next_reservation) : publish(r, p)
  \/ \E r \in Issued(next_reservation) : abandon(r)
  \/ begin_close \/ begin_drain \/ begin_terminal_drain
  \/ \E lease \in Issued(next_lease) : pop(lease) \/ finish_drain(lease)
  \/ \E lease \in Issued(next_terminal_lease) :
       pop_terminal(lease) \/ finish_terminal_drain(lease) \/ release_terminal_drain(lease)

Spec == Init /\ [][Next]_vars
----------------------------------------------------------------------------
(* Its states, under the names of ClosableMailboxState. *)
Phase ==
  IF state = "TerminalDraining" THEN "TerminalActive"
  ELSE IF state = "Closed" THEN "TerminalClosed" ELSE state

(* The oracle makes the promise that ClosableMailbox makes: with stale      *)
(* tokens tried at every point, a payload is still refused, or retained and *)
(* handed over once, in order (work_queue.rs:209-236, 283-286, 344-369).    *)
Custody == INSTANCE WorkCustody WITH line <- queue, phase <- Phase

ImplementsWorkCustody == Custody!Spec
=============================================================================
