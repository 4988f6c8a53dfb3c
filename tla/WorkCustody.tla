---------------------------- MODULE WorkCustody ----------------------------
(***************************************************************************)
(* What a closable work queue promises about the payloads it accepts: the  *)
(* abstract specification that ClosableMailbox implements.                 *)
(*                                                                         *)
(* A payload is refused, or retained in arrival order and then handed to   *)
(* exactly one owner, a normal drain before the terminal phase or the      *)
(* terminal owner in it.  Phases are those ClosableMailboxState reports.   *)
(***************************************************************************)
EXTENDS Naturals, Sequences

CONSTANTS Payloads, Capacity

VARIABLES
  line,      \* retained payloads, oldest first
  custody,   \* where each payload is
  phase

vars == <<line, custody, phase>>

Normal == {"Open", "Closing"}

Init ==
  /\ line = <<>>
  /\ custody = [p \in Payloads |-> "unsubmitted"]
  /\ phase = "Open"

Moves(p, from, to) ==
  /\ custody[p] \in from
  /\ custody' = [custody EXCEPT ![p] = to]

(* A producer is admitted only while the queue is open. *)
Admit(p) == phase = "Open" /\ Moves(p, {"unsubmitted"}, "submitted") /\ UNCHANGED <<line, phase>>

(* A refused payload returns to its caller and was never retained. *)
Refuse(p) == Moves(p, {"unsubmitted", "submitted"}, "returned") /\ UNCHANGED <<line, phase>>

Retain(p) ==
  /\ phase \in Normal
  /\ Len(line) < Capacity
  /\ Moves(p, {"submitted"}, "retained")
  /\ line' = Append(line, p)
  /\ UNCHANGED phase

HandOver(phases, to) ==
  /\ phase \in phases
  /\ line # <<>>
  /\ Moves(Head(line), {"retained"}, to)
  /\ line' = Tail(line)
  /\ UNCHANGED phase

BeginClose == phase = "Open" /\ phase' = "Closing" /\ UNCHANGED <<line, custody>>

(* Terminal ownership waits for every admitted producer. *)
Claim ==
  /\ phase \in {"Closing", "TerminalPending"}
  /\ \A p \in Payloads : custody[p] # "submitted"
  /\ phase' = "TerminalActive"
  /\ UNCHANGED <<line, custody>>

Release ==
  /\ phase = "TerminalActive"
  /\ phase' = "TerminalPending"
  /\ UNCHANGED <<line, custody>>

Finish ==
  /\ phase = "TerminalActive"
  /\ line = <<>>
  /\ phase' = "TerminalClosed"
  /\ UNCHANGED <<line, custody>>

Next ==
  \/ \E p \in Payloads : Admit(p) \/ Refuse(p) \/ Retain(p)
  \/ HandOver(Normal, "delivered")
  \/ HandOver({"TerminalActive"}, "residual")
  \/ BeginClose \/ Claim \/ Release \/ Finish

Spec == Init /\ [][Next]_vars
============================================================================
