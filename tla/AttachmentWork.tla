--------------------------- MODULE AttachmentWork ---------------------------
(***************************************************************************)
(* Scheduled work across engine replacements: AttachmentWorkOwner,         *)
(* DrainRegistration, ScheduledWorkMailbox and ScheduledWork::dispatch of  *)
(* the host crate, with the host around them.                              *)
(*                                                                         *)
(* One logical runtime outlives its engines.  Each engine attachment has   *)
(* an epoch, a mailbox of its own, and senders that any thread may keep    *)
(* after the attachment is gone.  The owner is thread-affine, so its       *)
(* operations do not overlap; senders and the host's delivery of drain     *)
(* tasks interleave with them.  A mailbox is used here through what        *)
(* ClosableMailbox is shown to promise: a sender is admitted in one step   *)
(* and publishes in another, and terminal ownership waits for it.          *)
(***************************************************************************)
EXTENDS Integers, Sequences

CONSTANTS
  Payloads,          \* each is sent at most once
  Capacity,          \* of every mailbox, a NonZeroUsize
  MaxEpoch,          \* last epoch RuntimeIdentity issues, u64::MAX in the code
  MaxPosts           \* drain tasks per attachment the host holds before it refuses

ASSUME AttachmentAssumption ==
  Capacity \in Nat \ {0} /\ MaxEpoch \in Nat \ {0} /\ MaxPosts \in Nat

Epochs  == 1 .. MaxEpoch
Foreign == 0         \* an attachment of another logical runtime

VARIABLES
  next_epoch,        \* RuntimeIdentity: the next epoch it issues
  current,           \* DrainRegistration: the registered attachment
  registration,      \*   and whether its tasks may dispatch
  phase,             \* of each attachment's mailbox (Absent before replace)
  line,              \*   its retained work
  signal,            \*   and its drain signal
  owner,             \* what the owner's thread is in the middle of
  engine,            \* Host: the attachment of the engine it lends
  engine_open,       \*   and whether it still admits entries
  posts,             \* Host: accepted and undelivered drain tasks
  missed,            \* history: a due post was refused or left to the caller
  target,            \* ScheduledWork: the attachment a payload captured
  custody,           \* history: where each payload is
  ran_under          \* history: the engine a payload ran in

boxVars  == <<phase, line, signal>>
ownVars  == <<next_epoch, current, registration>>
hostVars == <<engine, engine_open>>
workVars == <<target, custody, ran_under>>
vars == <<ownVars, boxVars, owner, hostVars, posts, missed, workVars>>

None == 0            \* no attachment

Init ==
  /\ next_epoch = 2 /\ current = 1 /\ registration = "Active"
  /\ phase = [e \in Epochs |-> IF e = 1 THEN "Open" ELSE "Absent"]
  /\ line = [e \in Epochs |-> <<>>]
  /\ signal = [e \in Epochs |-> "Idle"]
  /\ owner = "idle"
  /\ engine = 1 /\ engine_open = TRUE
  /\ posts = [e \in Epochs |-> 0]
  /\ missed = [e \in Epochs |-> FALSE]
  /\ target = [p \in Payloads |-> None]
  /\ custody = [p \in Payloads |-> "unsent"]
  /\ ran_under = [p \in Payloads |-> None]

(* ScheduledWorkMailbox::new for the attachment e. *)
NewMailbox(e) == phase' = [phase EXCEPT ![e] = "Open"]

Moves(p, from, to) == custody[p] = from /\ custody' = [custody EXCEPT ![p] = to]

(* DrainPoster::post_drain: the host accepts an identity-only task, or not. *)
PostDrain(e) ==
  \/ /\ posts[e] < MaxPosts
     /\ posts' = [posts EXCEPT ![e] = @ + 1]
     /\ missed' = [missed EXCEPT ![e] = FALSE]
  \/ /\ missed' = [missed EXCEPT ![e] = TRUE]
     /\ UNCHANGED posts

LeavePost(e) == missed' = [missed EXCEPT ![e] = TRUE] /\ UNCHANGED posts
NoPostDue    == UNCHANGED <<posts, missed>>
----------------------------------------------------------------------------
(* ScheduledWorkSender, from any thread and for any attachment that ever    *)
(* was current.                                                             *)
SenderAdmit(p, e) ==
  /\ phase[e] # "Absent"
  /\ target' = [target EXCEPT ![p] = e]
  /\ Moves(p, "unsent", IF phase[e] = "Open" THEN "admitted" ELSE "returned")
  /\ UNCHANGED <<ownVars, boxVars, owner, hostVars, posts, missed, ran_under>>

(* The admitted call goes on: a full mailbox returns the work; otherwise it *)
(* is retained, and a Scheduled request posts (enqueue_and_post) or leaves  *)
(* the post to the caller (enqueue).                                        *)
SenderPublish(p, post) ==
  LET e == target[p] IN
  \/ /\ Len(line[e]) = Capacity
     /\ Moves(p, "admitted", "returned")
     /\ UNCHANGED <<line, signal, posts, missed>>
  \/ /\ Len(line[e]) < Capacity
     /\ Moves(p, "admitted", "retained")
     /\ line' = [line EXCEPT ![e] = Append(@, p)]
     /\ signal' = [signal EXCEPT ![e] =
                     IF @ = "Idle" THEN "Pending" ELSE IF @ = "Draining" THEN "DrainingPending" ELSE @]
     /\ IF signal[e] # "Idle" THEN NoPostDue ELSE IF post THEN PostDrain(e) ELSE LeavePost(e)

Send ==
  \/ \E p \in Payloads, e \in Epochs : SenderAdmit(p, e)
  \/ /\ \E p \in Payloads, post \in BOOLEAN : custody[p] = "admitted" /\ SenderPublish(p, post)
     /\ UNCHANGED <<ownVars, phase, owner, hostVars, target, ran_under>>
----------------------------------------------------------------------------
(* Mutant: a closing attachment still resolves as current. *)
ResolvesWhileClosing(a) ==
  IF a = Foreign THEN "ForeignRuntime"
  ELSE IF a < current THEN "Retired"
  ELSE IF a # current THEN "UnregisteredAttachment"
  ELSE "Current"

(* DrainRegistration::resolve. *)
Resolve(a) ==
  IF a = Foreign THEN "ForeignRuntime"
  ELSE IF a < current THEN "Retired"
  ELSE IF a # current THEN "UnregisteredAttachment"
  ELSE IF registration = "Active" THEN "Current"
  ELSE "Closing"

(* ScheduledWorkMailbox::acquire answers Idle or Busy unless a drain is     *)
(* pending, and Unavailable once terminal ownership began.                  *)
Acquires(e) ==
  IF signal[e] = "Pending"
  THEN /\ signal' = [signal EXCEPT ![e] = "Draining"]
       /\ missed' = [missed EXCEPT ![e] = FALSE]
       /\ owner' = "draining"
  ELSE UNCHANGED <<signal, missed, owner>>

(* The host delivers a drain task: one it accepted, or a repeated or       *)
(* foreign one.  Only a Current resolution lends the mailbox.              *)
DeliverTask(a) ==
  /\ owner \in {"idle", "draining", "terminal"}
  /\ \/ a \in Epochs /\ posts[a] > 0 /\ posts' = [posts EXCEPT ![a] = @ - 1]
     \/ UNCHANGED posts
  /\ IF Resolve(a) = "Current" THEN Acquires(a) ELSE UNCHANGED <<signal, missed, owner>>
  /\ UNCHANGED <<ownVars, phase, line, hostVars, workVars>>

(* Mutant: dispatch without the attachment check. *)
DispatchedAnywhere(p) ==
  IF engine_open
  THEN Moves(p, "retained", "ran") /\ ran_under' = [ran_under EXCEPT ![p] = engine]
  ELSE Moves(p, "retained", "rejected") /\ UNCHANGED ran_under

(* ScheduledWork::dispatch: AttachmentMismatch and Entry give the work to   *)
(* the caller, who owns any retry.                                          *)
Dispatched(p) ==
  IF target[p] = engine /\ engine_open
  THEN Moves(p, "retained", "ran") /\ ran_under' = [ran_under EXCEPT ![p] = engine]
  ELSE Moves(p, "retained", "rejected") /\ UNCHANGED ran_under

(* ScheduledWorkDrain::dispatch_next *)
DispatchNext ==
  /\ owner = "draining" /\ line[current] # <<>>
  /\ line' = [line EXCEPT ![current] = Tail(@)]
  /\ Dispatched(Head(line[current]))
  /\ UNCHANGED <<ownVars, phase, signal, owner, hostVars, posts, missed, target>>

(* Mutant: an abandoned drain does not look at the queue. *)
FinishForgetsRetained(post) ==
  LET pending == signal[current] = "DrainingPending" IN
  /\ owner = "draining"
  /\ signal' = [signal EXCEPT ![current] = IF pending THEN "Pending" ELSE "Idle"]
  /\ owner' = "idle"
  /\ IF ~pending THEN NoPostDue ELSE IF post THEN PostDrain(current) ELSE LeavePost(current)
  /\ UNCHANGED <<ownVars, phase, line, hostVars, workVars>>

(* finish_and_post (post), finish, or an abandoned drain's drop: retained   *)
(* work keeps a successor drain pending.                                    *)
FinishDrain(post) ==
  LET pending == line[current] # <<>> \/ signal[current] = "DrainingPending" IN
  /\ owner = "draining"
  /\ signal' = [signal EXCEPT ![current] = IF pending THEN "Pending" ELSE "Idle"]
  /\ owner' = "idle"
  /\ IF ~pending THEN NoPostDue ELSE IF post THEN PostDrain(current) ELSE LeavePost(current)
  /\ UNCHANGED <<ownVars, phase, line, hostVars, workVars>>

(* ScheduledWorkMailbox::post_pending *)
PostRetained(e) == signal[e] = "Pending" /\ PostDrain(e)

(* AttachmentWorkOwner::post_pending: nothing once the owner is closing. *)
PostPending ==
  /\ owner = "idle" /\ registration = "Active"
  /\ PostRetained(current)
  /\ UNCHANGED <<ownVars, boxVars, owner, hostVars, workVars>>
----------------------------------------------------------------------------
(* AttachmentWorkOwner::begin_close: the registration closes first, and a   *)
(* sender may be admitted before the mailbox does.                          *)
BeginClose ==
  /\ owner = "idle"
  /\ registration' = "Closing"
  /\ owner' = "closing"
  /\ UNCHANGED <<next_epoch, current, boxVars, hostVars, posts, missed, workVars>>

(* ScheduledWorkMailbox::begin_close *)
ClosesIngress(e) == phase' = [phase EXCEPT ![e] = IF @ = "Open" THEN "Closing" ELSE @]

BeginCloseMailbox ==
  /\ owner = "closing"
  /\ ClosesIngress(current)
  /\ owner' = "idle"
  /\ UNCHANGED <<ownVars, line, signal, hostVars, posts, missed, workVars>>

(* ScheduledWorkMailbox::try_begin_terminal_drain answers ProducersInFlight *)
(* while a sender is admitted; no normal drain is live while the owner is    *)
(* idle.                                                                     *)
ClaimsTerminal(e) ==
  /\ phase[e] \in {"Closing", "TerminalPending"}
  /\ \A p \in Payloads : target[p] = e => custody[p] # "admitted"
  /\ phase' = [phase EXCEPT ![e] = "TerminalActive"]
  /\ signal' = [signal EXCEPT ![e] = "Closed"]

BeginTerminal ==
  /\ owner = "idle"
  /\ ClaimsTerminal(current)
  /\ owner' = "terminal"
  /\ UNCHANGED <<ownVars, line, hostVars, posts, missed, workVars>>

TerminalPop ==
  /\ owner = "terminal" /\ line[current] # <<>>
  /\ Moves(Head(line[current]), "retained", "residual")
  /\ line' = [line EXCEPT ![current] = Tail(@)]
  /\ UNCHANGED <<ownVars, phase, signal, owner, hostVars, posts, missed, target, ran_under>>

(* TerminalScheduledWorkDrain: finish closes an empty mailbox; PayloadsRemain *)
(* or a drop leaves it to a later terminal owner.                             *)
EndTerminal ==
  /\ owner = "terminal"
  /\ \/ line[current] = <<>> /\ phase' = [phase EXCEPT ![current] = "TerminalClosed"]
     \/ phase' = [phase EXCEPT ![current] = "TerminalPending"]
  /\ owner' = "idle"
  /\ UNCHANGED <<ownVars, line, signal, hostVars, posts, missed, workVars>>

(* RuntimeIdentity::next_attachment; an exhausted identity issues no more. *)
NextAttachment ==
  /\ next_epoch <= MaxEpoch
  /\ next_epoch' = next_epoch + 1
  /\ UNCHANGED <<current, registration, boxVars, owner, hostVars, posts, missed, workVars>>

(* DrainRegistration::replace: closing, and a newer epoch. *)
Registers(e) ==
  /\ registration = "Closing" /\ e > current
  /\ current' = e /\ registration' = "Active"

(* Mutant: replace without the terminal check of the old mailbox. *)
ReplacesOpenMailbox(e) ==
  /\ owner = "idle" /\ e < next_epoch
  /\ Registers(e) /\ NewMailbox(e)
  /\ UNCHANGED <<next_epoch, line, signal, owner, hostVars, posts, missed, workVars>>

(* AttachmentWorkOwner::replace with any issued attachment, once the old    *)
(* mailbox is terminally closed.                                            *)
Replace(e) ==
  /\ owner = "idle" /\ e < next_epoch
  /\ phase[current] = "TerminalClosed"
  /\ Registers(e) /\ NewMailbox(e)
  /\ UNCHANGED <<next_epoch, line, signal, owner, hostVars, posts, missed, workVars>>

(* The host drains its engine, or lends another one: neither waits for the  *)
(* owner, whose mailbox may still target the engine that is gone.           *)
EngineDrains ==
  /\ engine_open' = FALSE
  /\ UNCHANGED <<ownVars, boxVars, owner, engine, posts, missed, workVars>>

EngineReplaced(e) ==
  /\ e < next_epoch /\ e > engine
  /\ engine' = e /\ engine_open' = TRUE
  /\ UNCHANGED <<ownVars, boxVars, owner, posts, missed, workVars>>
----------------------------------------------------------------------------
Next ==
  \/ Send
  \/ \E a \in Epochs \cup {Foreign} : DeliverTask(a)
  \/ DispatchNext
  \/ \E post \in BOOLEAN : FinishDrain(post)
  \/ PostPending
  \/ BeginClose \/ BeginCloseMailbox
  \/ BeginTerminal \/ TerminalPop \/ EndTerminal
  \/ NextAttachment
  \/ \E e \in Epochs : Replace(e) \/ EngineReplaced(e)
  \/ EngineDrains

Spec == Init /\ [][Next]_vars

(* Fairness: an admitted call returns, the host delivers what it accepted,  *)
(* its drains dispatch until they are empty, it retries a missed post until *)
(* one is accepted, and a closing owner retries until it closes.            *)
FairSpec ==
  /\ Spec
  /\ \A p \in Payloads : WF_vars(\E post \in BOOLEAN :
       custody[p] = "admitted" /\ SenderPublish(p, post)
         /\ UNCHANGED <<ownVars, phase, owner, hostVars, target, ran_under>>)
  /\ \A e \in Epochs : SF_vars(DeliverTask(e) /\ posts'[e] < posts[e])
  /\ SF_vars(DispatchNext)
  /\ WF_vars(line[current] = <<>> /\ FinishDrain(TRUE))
  /\ SF_vars(PostPending /\ posts' # posts)
  /\ WF_vars(BeginCloseMailbox)
  /\ SF_vars(BeginTerminal)
  /\ SF_vars(TerminalPop)
  /\ SF_vars(line[current] = <<>> /\ EndTerminal /\ phase'[current] = "TerminalClosed")
----------------------------------------------------------------------------
RegistrationStates == {"Active", "Closing"}
Phases == {"Absent", "Open", "Closing", "TerminalPending", "TerminalActive", "TerminalClosed"}

TypeOK ==
  /\ next_epoch \in 2 .. MaxEpoch + 1 /\ current \in Epochs
  /\ registration \in RegistrationStates
  /\ phase \in [Epochs -> Phases]
  /\ \A e \in Epochs : line[e] \in Seq(Payloads) /\ Len(line[e]) <= Capacity
  /\ signal \in [Epochs -> {"Idle", "Pending", "Draining", "DrainingPending", "Closed"}]
  /\ owner \in {"idle", "draining", "closing", "terminal"}
  /\ engine \in Epochs /\ engine_open \in BOOLEAN
  /\ posts \in [Epochs -> 0 .. MaxPosts] /\ missed \in [Epochs -> BOOLEAN]
  /\ target \in [Payloads -> Epochs \cup {None}]
  /\ custody \in [Payloads -> {"unsent", "admitted", "returned", "retained",
                               "ran", "rejected", "residual"}]
  /\ ran_under \in [Payloads -> Epochs \cup {None}]

(* replace (work_owner.rs:168): an attachment is retired only when nothing *)
(* is left in its mailbox, nothing is on its way into it, and no sender or *)
(* late drain task can ever put it to use again.  Types and bounds hold.   *)
RetiredIsSettled ==
  /\ TypeOK
  /\ \A e \in Epochs : e < current =>
       /\ phase[e] \in {"Absent", "TerminalClosed"}
       /\ line[e] = <<>> /\ signal[e] \in {"Idle", "Closed"}
       /\ \A p \in Payloads : target[p] = e => custody[p] \notin {"admitted", "retained"}

(* dispatch (work.rs:90): work runs only in the engine attachment it       *)
(* captured, however the owner and the host order their replacements.      *)
RunsUnderItsAttachment ==
  \A p \in Payloads : custody[p] = "ran" => ran_under[p] = target[p]

(* begin_close (work_owner.rs:126): once the owner is closing, no work of   *)
(* its attachment runs, a sender admitted in the interval included.         *)
NothingRunsWhileClosing ==
  [][\A p \in Payloads : custody[p] # "ran" /\ custody'[p] = "ran"
       => registration = "Active" /\ target[p] = current]_vars

(* Work that is admitted is accounted for: it runs, or its caller, the      *)
(* drain that popped it or the terminal owner gets it back.                 *)
AdmittedIsAccountedFor ==
  \A p \in Payloads :
    custody[p] \in {"admitted", "retained"}
      ~> custody[p] \in {"returned", "ran", "rejected", "residual"}
============================================================================
