------------------------ MODULE AttachmentWorkProofs ------------------------
(***************************************************************************)
(* Theorems about AttachmentWork for any number of payloads, attachments   *)
(* and posts and any capacity.  The inductive invariant AInv says that a   *)
(* mailbox's line is exactly the retained work that targets it, that an    *)
(* admitted sender keeps its mailbox from becoming terminal, and what the  *)
(* phases of all mailboxes know of the registration and the owner.         *)
(***************************************************************************)
EXTENDS AttachmentWork, SequenceTheorems, TLAPS

Holds(q) == {q[i] : i \in 1 .. Len(q)}
Once(q)  == \A i, j \in 1 .. Len(q) : q[i] = q[j] => i = j

Terminals == {"TerminalPending", "TerminalActive", "TerminalClosed"}

(* Retained work is in the line of the attachment it captured, once. *)
LinesAreExact ==
  /\ line \in [Epochs -> Seq(Payloads)]
  /\ \A e \in Epochs :
       /\ Once(line[e])
       /\ Holds(line[e]) = {p \in Payloads : custody[p] = "retained" /\ target[p] = e}

(* Only the current mailbox is in use: later ones do not exist yet and     *)
(* earlier ones were never made or are terminally closed.                  *)
PhasesFollowEpochs ==
  \A e \in Epochs :
    /\ e > current => phase[e] = "Absent"
    /\ e < current => phase[e] \in {"Absent", "TerminalClosed"}
    /\ phase[e] = "Absent" => signal[e] = "Idle"
    /\ phase[e] \in Terminals => signal[e] = "Closed"
    /\ phase[e] \in {"Absent", "TerminalClosed"} => line[e] = <<>>

(* An admitted sender holds off the terminal phase of its mailbox. *)
AdmissionsHoldOpen ==
  \A p \in Payloads :
    /\ custody[p] = "retained" => target[p] \in Epochs
    /\ custody[p] = "admitted" => target[p] \in Epochs /\ phase[target[p]] \in {"Open", "Closing"}

(* What the owner is doing and whether the registration is still active. *)
OwnerFollowsRegistration ==
  /\ phase[current] # "Absent"
  /\ registration = "Active" => phase[current] = "Open"
  /\ owner = "draining" => registration = "Active"
  /\ owner = "closing" => registration = "Closing"
  /\ owner = "terminal" => phase[current] = "TerminalActive"

AInv ==
  /\ TypeOK /\ LinesAreExact /\ PhasesFollowEpochs
  /\ AdmissionsHoldOpen /\ OwnerFollowsRegistration /\ RunsUnderItsAttachment
----------------------------------------------------------------------------
USE DEF ownVars, boxVars, hostVars, workVars, Moves, Terminals

(* A new mailbox holds nothing. *)
LEMMA NoneHeld == <<>> \in Seq(Payloads) /\ Len(<<>>) = 0 /\ Holds(<<>>) = {} /\ Once(<<>>)
  <1>1. <<>> \in Seq(Payloads) /\ Len(<<>>) = 0
    BY EmptySeq
  <1>. QED
    BY <1>1 DEF Holds, Once

(* An empty line is the line that holds nothing. *)
LEMMA EmptyHoldsNothing ==
  ASSUME NEW q \in Seq(Payloads), Holds(q) = {}
  PROVE  q = <<>>
  <1>1. Len(q) \in Nat
    BY LenProperties
  <1>2. Len(q) = 0
    <2>. SUFFICES ASSUME Len(q) # 0 PROVE FALSE
      OBVIOUS
    <2>1. 1 \in 1 .. Len(q)
      BY <1>1
    <2>. QED
      BY <2>1 DEF Holds
  <1>. QED
    BY <1>2, EmptySeq

(* ArrayQueue::push adds one payload behind those it holds. *)
LEMMA PushHolds ==
  ASSUME NEW q \in Seq(Payloads), NEW p \in Payloads, p \notin Holds(q), Once(q), Len(q) < Capacity
  PROVE  /\ Append(q, p) \in Seq(Payloads) /\ Len(Append(q, p)) <= Capacity
         /\ Holds(Append(q, p)) = Holds(q) \cup {p} /\ Once(Append(q, p))
  <1>1. /\ Append(q, p) \in Seq(Payloads) /\ Len(Append(q, p)) = Len(q) + 1
        /\ Append(q, p)[Len(q) + 1] = p /\ \A i \in 1 .. Len(q) : Append(q, p)[i] = q[i]
    BY AppendProperties
  <1>2. Len(q) \in Nat
    BY LenProperties
  <1>3. Len(Append(q, p)) <= Capacity
    BY <1>1, <1>2, AttachmentAssumption
  <1>4. 1 .. Len(q) + 1 = (1 .. Len(q)) \cup {Len(q) + 1}
    BY <1>2
  <1>5. Holds(Append(q, p)) = Holds(q) \cup {p}
    BY <1>1, <1>4 DEF Holds
  <1>6. Once(Append(q, p))
    BY <1>1, <1>4 DEF Holds, Once
  <1>. QED
    BY <1>1, <1>3, <1>5, <1>6

(* ArrayQueue::pop takes the oldest payload, its only occurrence. *)
LEMMA PopHolds ==
  ASSUME NEW q \in Seq(Payloads), q # <<>>, Once(q), Len(q) <= Capacity
  PROVE  /\ Tail(q) \in Seq(Payloads) /\ Len(Tail(q)) <= Capacity
         /\ Head(q) \in Holds(q) /\ Head(q) \in Payloads
         /\ Holds(Tail(q)) = Holds(q) \ {Head(q)} /\ Once(Tail(q))
  <1>1. /\ Tail(q) \in Seq(Payloads) /\ Head(q) \in Payloads
        /\ Len(q) \in Nat /\ Len(q) # 0 /\ Head(q) = q[1]
        /\ Len(Tail(q)) = Len(q) - 1 /\ \A i \in 1 .. Len(Tail(q)) : Tail(q)[i] = q[i + 1]
    BY HeadTailProperties, LenProperties, EmptySeq
  <1>2. Len(Tail(q)) <= Capacity
    BY <1>1, AttachmentAssumption
  <1>3. Head(q) \in Holds(q)
    BY <1>1 DEF Holds
  <1>4. \A i \in 1 .. Len(Tail(q)) : i + 1 \in 1 .. Len(q) /\ i + 1 # 1
    BY <1>1
  <1>5. \A i \in 1 .. Len(q) : i # 1 => i - 1 \in 1 .. Len(Tail(q)) /\ (i - 1) + 1 = i
    BY <1>1
  <1>6. Holds(Tail(q)) = Holds(q) \ {Head(q)}
    <2>1. ASSUME NEW x \in Holds(Tail(q)) PROVE x \in Holds(q) \ {Head(q)}
      <3>1. PICK i \in 1 .. Len(Tail(q)) : x = Tail(q)[i]
        BY DEF Holds
      <3>2. x = q[i + 1] /\ i + 1 \in 1 .. Len(q) /\ 1 \in 1 .. Len(q)
        BY <1>1, <1>4, <3>1
      <3>3. x # q[1]
        BY <1>4, <3>2 DEF Once
      <3>. QED
        BY <1>1, <3>2, <3>3 DEF Holds
    <2>2. ASSUME NEW x \in Holds(q) \ {Head(q)} PROVE x \in Holds(Tail(q))
      <3>1. PICK i \in 1 .. Len(q) : x = q[i]
        BY DEF Holds
      <3>2. i # 1
        BY <1>1, <3>1
      <3>3. i - 1 \in 1 .. Len(Tail(q)) /\ x = Tail(q)[i - 1]
        BY <1>1, <1>5, <3>1, <3>2
      <3>. QED
        BY <3>3 DEF Holds
    <2>. QED
      BY <2>1, <2>2
  <1>7. Once(Tail(q))
    BY <1>1, <1>4 DEF Once
  <1>. QED
    BY <1>1, <1>2, <1>3, <1>6, <1>7

(* post_drain, accepted or refused, keeps the host within its bound. *)
LEMMA PostTypes ==
  ASSUME TypeOK, NEW e \in Epochs, PostDrain(e) \/ LeavePost(e) \/ NoPostDue
  PROVE  posts' \in [Epochs -> 0 .. MaxPosts] /\ missed' \in [Epochs -> BOOLEAN]
  <1>1. CASE NoPostDue
    BY <1>1 DEF TypeOK, NoPostDue
  <1>2. CASE LeavePost(e) \/ (PostDrain(e) /\ posts' = posts)
    <2>1. posts' = posts /\ \E b \in BOOLEAN : missed' = [missed EXCEPT ![e] = b]
      BY <1>2 DEF LeavePost, PostDrain
    <2>. QED
      BY <2>1 DEF TypeOK
  <1>3. CASE PostDrain(e) /\ posts' # posts
    <2>1. posts[e] < MaxPosts /\ posts' = [posts EXCEPT ![e] = @ + 1] /\ missed' = [missed EXCEPT ![e] = FALSE]
      BY <1>3 DEF PostDrain
    <2>2. posts[e] \in 0 .. MaxPosts
      BY DEF TypeOK
    <2>3. posts[e] + 1 \in 0 .. MaxPosts
      BY <2>1, <2>2, AttachmentAssumption
    <2>. QED
      BY <2>1, <2>3 DEF TypeOK
  <1>. QED
    BY <1>1, <1>2, <1>3
----------------------------------------------------------------------------
(* A step that moves no work leaves every line and every run as it was. *)
LEMMA WorkStays ==
  ASSUME AInv, UNCHANGED <<line, target, custody, ran_under>>
  PROVE  LinesAreExact' /\ RunsUnderItsAttachment'
  BY DEF AInv, LinesAreExact, RunsUnderItsAttachment

(* ScheduledWorkSender: admission by an open mailbox, or the work returns. *)
LEMMA SenderAdmitStep ==
  ASSUME AInv, NEW p \in Payloads, NEW e \in Epochs, SenderAdmit(p, e)
  PROVE  AInv'
  <1>. USE DEF AInv, SenderAdmit
  <1>1. TypeOK'
    BY DEF TypeOK
  <1>2. LinesAreExact'
    BY DEF TypeOK, LinesAreExact
  <1>3. PhasesFollowEpochs' /\ OwnerFollowsRegistration'
    BY DEF PhasesFollowEpochs, OwnerFollowsRegistration
  <1>4. AdmissionsHoldOpen'
    BY DEF TypeOK, AdmissionsHoldOpen
  <1>5. RunsUnderItsAttachment'
    BY DEF TypeOK, RunsUnderItsAttachment
  <1>. QED
    BY <1>1, <1>2, <1>3, <1>4, <1>5

(* The admitted call publishes into the mailbox it was admitted to, which  *)
(* is neither retired nor terminal.                                        *)
LEMMA SenderPublishStep ==
  ASSUME AInv, NEW p \in Payloads, NEW post \in BOOLEAN, custody[p] = "admitted",
         SenderPublish(p, post), UNCHANGED <<ownVars, phase, owner, hostVars, target, ran_under>>
  PROVE  AInv'
  <1>. USE DEF AInv
  <1>. DEFINE e == target[p]
  <1>1. e \in Epochs /\ phase[e] \in {"Open", "Closing"}
    BY DEF AdmissionsHoldOpen
  <1>2. line \in [Epochs -> Seq(Payloads)] /\ Len(line[e]) <= Capacity /\ Once(line[e])
        /\ p \notin Holds(line[e])
    BY <1>1 DEF TypeOK, LinesAreExact
  <1>3. posts' \in [Epochs -> 0 .. MaxPosts] /\ missed' \in [Epochs -> BOOLEAN]
    <2>1. PostDrain(e) \/ LeavePost(e) \/ NoPostDue
      BY DEF SenderPublish, NoPostDue
    <2>. QED
      BY <1>1, <2>1, PostTypes
  <1>4. CASE custody' = [custody EXCEPT ![p] = "returned"] /\ UNCHANGED <<line, signal>>
    <2>1. TypeOK'
      BY <1>3, <1>4 DEF TypeOK
    <2>2. LinesAreExact'
      BY <1>4 DEF TypeOK, LinesAreExact
    <2>3. PhasesFollowEpochs' /\ OwnerFollowsRegistration'
      BY <1>4 DEF PhasesFollowEpochs, OwnerFollowsRegistration
    <2>4. AdmissionsHoldOpen'
      BY <1>4 DEF TypeOK, AdmissionsHoldOpen
    <2>5. RunsUnderItsAttachment'
      BY <1>4 DEF TypeOK, RunsUnderItsAttachment
    <2>. QED
      BY <2>1, <2>2, <2>3, <2>4, <2>5
  <1>5. CASE /\ Len(line[e]) < Capacity
             /\ custody' = [custody EXCEPT ![p] = "retained"]
             /\ line' = [line EXCEPT ![e] = Append(@, p)]
             /\ signal' = [signal EXCEPT ![e] =
                     IF @ = "Idle" THEN "Pending" ELSE IF @ = "Draining" THEN "DrainingPending" ELSE @]
    <2>1. /\ Append(line[e], p) \in Seq(Payloads) /\ Len(Append(line[e], p)) <= Capacity
          /\ Holds(Append(line[e], p)) = Holds(line[e]) \cup {p} /\ Once(Append(line[e], p))
      BY <1>1, <1>2, <1>5, PushHolds
    <2>2. line' \in [Epochs -> Seq(Payloads)] /\ line'[e] = Append(line[e], p)
          /\ \A f \in Epochs : f # e => line'[f] = line[f]
      BY <1>1, <1>2, <1>5, <2>1
    <2>3. TypeOK'
      BY <1>1, <1>3, <1>5, <2>1, <2>2 DEF TypeOK
    <2>4. LinesAreExact'
      <3>. SUFFICES ASSUME NEW f \in Epochs
                    PROVE  /\ Once(line'[f])
                           /\ Holds(line'[f]) = {q \in Payloads : custody'[q] = "retained" /\ target'[q] = f}
        BY <2>2 DEF LinesAreExact
      <3>1. CASE f = e
        BY <1>1, <1>5, <2>1, <2>2, <3>1 DEF TypeOK, LinesAreExact
      <3>2. CASE f # e
        BY <1>5, <2>2, <3>2 DEF TypeOK, LinesAreExact
      <3>. QED
        BY <3>1, <3>2
    <2>5. PhasesFollowEpochs'
      BY <1>1, <1>5, <2>2 DEF TypeOK, PhasesFollowEpochs
    <2>6. OwnerFollowsRegistration'
      BY DEF OwnerFollowsRegistration
    <2>7. AdmissionsHoldOpen'
      BY <1>1, <1>5 DEF TypeOK, AdmissionsHoldOpen
    <2>8. RunsUnderItsAttachment'
      BY <1>5 DEF TypeOK, RunsUnderItsAttachment
    <2>. QED
      BY <2>3, <2>4, <2>5, <2>6, <2>7, <2>8
  <1>. QED
    BY <1>4, <1>5 DEF SenderPublish

(* A delivered drain task acquires the current mailbox only. *)
LEMMA DeliverTaskStep ==
  ASSUME AInv, NEW a \in Epochs \cup {Foreign}, DeliverTask(a)
  PROVE  AInv'
  <1>. USE DEF AInv, DeliverTask
  <1>1. posts' \in [Epochs -> 0 .. MaxPosts]
    <2>1. CASE UNCHANGED posts
      BY <2>1 DEF TypeOK
    <2>2. CASE a \in Epochs /\ posts[a] > 0 /\ posts' = [posts EXCEPT ![a] = @ - 1]
      <3>1. posts[a] - 1 \in 0 .. MaxPosts
        BY <2>2, AttachmentAssumption DEF TypeOK
      <3>. QED
        BY <2>2, <3>1 DEF TypeOK
    <2>. QED
      BY <2>1, <2>2
  <1>2. CASE UNCHANGED <<signal, missed, owner>>
    <2>1. TypeOK'
      BY <1>1, <1>2 DEF TypeOK
    <2>2. PhasesFollowEpochs' /\ OwnerFollowsRegistration' /\ AdmissionsHoldOpen'
      BY <1>2 DEF PhasesFollowEpochs, OwnerFollowsRegistration, AdmissionsHoldOpen
    <2>. QED
      BY <2>1, <2>2, WorkStays
  <1>3. CASE /\ Resolve(a) = "Current" /\ signal[a] = "Pending"
             /\ signal' = [signal EXCEPT ![a] = "Draining"]
             /\ missed' = [missed EXCEPT ![a] = FALSE] /\ owner' = "draining"
    <2>1. a = current /\ registration = "Active"
      BY <1>3 DEF Resolve
    <2>2. TypeOK'
      BY <1>1, <1>3 DEF TypeOK
    <2>3. PhasesFollowEpochs' /\ OwnerFollowsRegistration' /\ AdmissionsHoldOpen'
      BY <1>3, <2>1 DEF TypeOK, PhasesFollowEpochs, OwnerFollowsRegistration, AdmissionsHoldOpen
    <2>. QED
      BY <2>2, <2>3, WorkStays
  <1>. QED
    BY <1>2, <1>3 DEF Acquires

(* dispatch_next: what the current line holds targets the current          *)
(* attachment; it runs there or goes back to the caller.                   *)
LEMMA DispatchNextStep ==
  ASSUME AInv, DispatchNext
  PROVE  AInv'
  <1>. USE DEF AInv, DispatchNext
  <1>. DEFINE q == line[current]
              p == Head(q)
  <1>1. current \in Epochs /\ q \in Seq(Payloads) /\ q # <<>> /\ Once(q) /\ Len(q) <= Capacity
    BY DEF TypeOK, LinesAreExact
  <1>2. /\ Tail(q) \in Seq(Payloads) /\ Len(Tail(q)) <= Capacity
        /\ p \in Holds(q) /\ p \in Payloads
        /\ Holds(Tail(q)) = Holds(q) \ {p} /\ Once(Tail(q))
    BY <1>1, PopHolds
  <1>3. custody[p] = "retained" /\ target[p] = current
    BY <1>1, <1>2 DEF LinesAreExact
  <1>4. /\ \/ custody' = [custody EXCEPT ![p] = "ran"] /\ ran_under' = [ran_under EXCEPT ![p] = engine]
                /\ target[p] = engine
           \/ custody' = [custody EXCEPT ![p] = "rejected"] /\ ran_under' = ran_under
        /\ line' = [line EXCEPT ![current] = Tail(@)]
    BY DEF Dispatched
  <1>5. line' \in [Epochs -> Seq(Payloads)] /\ line'[current] = Tail(q)
        /\ \A f \in Epochs : f # current => line'[f] = line[f]
    BY <1>1, <1>2, <1>4 DEF LinesAreExact
  <1>6. TypeOK'
    BY <1>1, <1>2, <1>4, <1>5 DEF TypeOK
  <1>7. LinesAreExact'
    <2>. SUFFICES ASSUME NEW f \in Epochs
                  PROVE  /\ Once(line'[f])
                         /\ Holds(line'[f]) = {x \in Payloads : custody'[x] = "retained" /\ target'[x] = f}
      BY <1>5 DEF LinesAreExact
    <2>1. \A x \in Payloads : custody'[x] = "retained" <=> custody[x] = "retained" /\ x # p
      BY <1>2, <1>3, <1>4 DEF TypeOK
    <2>2. CASE f = current
      BY <1>2, <1>5, <2>1, <2>2 DEF LinesAreExact
    <2>3. CASE f # current
      BY <1>3, <1>5, <2>1, <2>3 DEF LinesAreExact
    <2>. QED
      BY <2>2, <2>3
  <1>8. PhasesFollowEpochs' /\ OwnerFollowsRegistration'
    BY <1>1, <1>5 DEF PhasesFollowEpochs, OwnerFollowsRegistration
  <1>9. AdmissionsHoldOpen'
    BY <1>3, <1>4 DEF TypeOK, AdmissionsHoldOpen
  <1>10. RunsUnderItsAttachment'
    BY <1>3, <1>4 DEF TypeOK, RunsUnderItsAttachment
  <1>. QED
    BY <1>6, <1>7, <1>8, <1>9, <1>10

(* finish_and_post, finish, or the drop of an abandoned drain. *)
LEMMA FinishDrainStep ==
  ASSUME AInv, NEW post \in BOOLEAN, FinishDrain(post)
  PROVE  AInv'
  <1>. USE DEF AInv, FinishDrain
  <1>1. current \in Epochs /\ phase[current] = "Open"
    BY DEF TypeOK, OwnerFollowsRegistration
  <1>2. posts' \in [Epochs -> 0 .. MaxPosts] /\ missed' \in [Epochs -> BOOLEAN]
    BY <1>1, PostTypes
  <1>3. PICK s \in {"Pending", "Idle"} : signal' = [signal EXCEPT ![current] = s]
    OBVIOUS
  <1>4. TypeOK'
    BY <1>2, <1>3 DEF TypeOK
  <1>5. PhasesFollowEpochs' /\ OwnerFollowsRegistration' /\ AdmissionsHoldOpen'
    BY <1>1, <1>3 DEF TypeOK, PhasesFollowEpochs, OwnerFollowsRegistration, AdmissionsHoldOpen
  <1>. QED
    BY <1>4, <1>5, WorkStays

(* AttachmentWorkOwner::post_pending touches the host only. *)
LEMMA PostPendingStep ==
  ASSUME AInv, PostPending
  PROVE  AInv'
  <1>. USE DEF AInv, PostPending
  <1>1. posts' \in [Epochs -> 0 .. MaxPosts] /\ missed' \in [Epochs -> BOOLEAN]
    BY PostTypes DEF PostRetained, TypeOK
  <1>2. TypeOK'
    BY <1>1 DEF TypeOK
  <1>3. PhasesFollowEpochs' /\ OwnerFollowsRegistration' /\ AdmissionsHoldOpen'
    BY DEF PhasesFollowEpochs, OwnerFollowsRegistration, AdmissionsHoldOpen
  <1>. QED
    BY <1>2, <1>3, WorkStays

(* begin_close, its two steps: the registration and then the mailbox. *)
LEMMA BeginCloseStep ==
  ASSUME AInv, BeginClose \/ BeginCloseMailbox
  PROVE  AInv'
  <1>. USE DEF AInv
  <1>1. CASE BeginClose
    <2>1. TypeOK'
      BY <1>1 DEF TypeOK, BeginClose, RegistrationStates
    <2>2. PhasesFollowEpochs' /\ OwnerFollowsRegistration' /\ AdmissionsHoldOpen'
      BY <1>1 DEF PhasesFollowEpochs, OwnerFollowsRegistration, AdmissionsHoldOpen, BeginClose
    <2>. QED
      BY <1>1, <2>1, <2>2, WorkStays DEF BeginClose
  <1>2. CASE BeginCloseMailbox
    <2>1. current \in Epochs /\ registration = "Closing"
          /\ phase' = [phase EXCEPT ![current] = IF @ = "Open" THEN "Closing" ELSE @]
      BY <1>2 DEF TypeOK, OwnerFollowsRegistration, BeginCloseMailbox, ClosesIngress
    <2>2. TypeOK'
      BY <1>2, <2>1 DEF TypeOK, BeginCloseMailbox, Phases
    <2>3. PhasesFollowEpochs'
      BY <1>2, <2>1 DEF TypeOK, BeginCloseMailbox, PhasesFollowEpochs, Epochs
    <2>4. OwnerFollowsRegistration' /\ AdmissionsHoldOpen'
      BY <1>2, <2>1 DEF TypeOK, BeginCloseMailbox, OwnerFollowsRegistration, AdmissionsHoldOpen
    <2>. QED
      BY <1>2, <2>2, <2>3, <2>4, WorkStays DEF BeginCloseMailbox
  <1>. QED
    BY <1>1, <1>2

(* Terminal ownership waits for every admitted sender of the mailbox. *)
LEMMA BeginTerminalStep ==
  ASSUME AInv, BeginTerminal
  PROVE  AInv'
  <1>. USE DEF AInv
  <1>1. /\ current \in Epochs /\ phase[current] \in {"Closing", "TerminalPending"}
        /\ phase' = [phase EXCEPT ![current] = "TerminalActive"]
        /\ signal' = [signal EXCEPT ![current] = "Closed"]
        /\ \A p \in Payloads : target[p] = current => custody[p] # "admitted"
        /\ registration # "Active" /\ owner' = "terminal"
        /\ UNCHANGED <<ownVars, line, hostVars, posts, missed, workVars>>
    BY DEF TypeOK, BeginTerminal, ClaimsTerminal, OwnerFollowsRegistration
  <1>2. TypeOK'
    BY <1>1 DEF TypeOK, Phases
  <1>3. PhasesFollowEpochs'
    BY <1>1 DEF TypeOK, PhasesFollowEpochs, Epochs
  <1>4. OwnerFollowsRegistration' /\ AdmissionsHoldOpen'
    BY <1>1 DEF TypeOK, OwnerFollowsRegistration, AdmissionsHoldOpen
  <1>. QED
    BY <1>1, <1>2, <1>3, <1>4, WorkStays

(* TerminalScheduledWorkDrain::pop. *)
LEMMA TerminalPopStep ==
  ASSUME AInv, TerminalPop
  PROVE  AInv'
  <1>. USE DEF AInv, TerminalPop
  <1>. DEFINE q == line[current]
              p == Head(q)
  <1>1. current \in Epochs /\ q \in Seq(Payloads) /\ q # <<>> /\ Once(q) /\ Len(q) <= Capacity
    BY DEF TypeOK, LinesAreExact
  <1>2. /\ Tail(q) \in Seq(Payloads) /\ Len(Tail(q)) <= Capacity
        /\ p \in Holds(q) /\ p \in Payloads
        /\ Holds(Tail(q)) = Holds(q) \ {p} /\ Once(Tail(q))
    BY <1>1, PopHolds
  <1>3. custody[p] = "retained" /\ target[p] = current /\ custody' = [custody EXCEPT ![p] = "residual"]
    BY <1>1, <1>2 DEF LinesAreExact
  <1>5. line' \in [Epochs -> Seq(Payloads)] /\ line'[current] = Tail(q)
        /\ \A f \in Epochs : f # current => line'[f] = line[f]
    BY <1>1, <1>2 DEF LinesAreExact
  <1>6. TypeOK'
    BY <1>1, <1>2, <1>3, <1>5 DEF TypeOK
  <1>7. LinesAreExact'
    <2>. SUFFICES ASSUME NEW f \in Epochs
                  PROVE  /\ Once(line'[f])
                         /\ Holds(line'[f]) = {x \in Payloads : custody'[x] = "retained" /\ target'[x] = f}
      BY <1>5 DEF LinesAreExact
    <2>1. \A x \in Payloads : custody'[x] = "retained" <=> custody[x] = "retained" /\ x # p
      BY <1>2, <1>3 DEF TypeOK
    <2>2. CASE f = current
      BY <1>2, <1>5, <2>1, <2>2 DEF LinesAreExact
    <2>3. CASE f # current
      BY <1>3, <1>5, <2>1, <2>3 DEF LinesAreExact
    <2>. QED
      BY <2>2, <2>3
  <1>8. PhasesFollowEpochs' /\ OwnerFollowsRegistration'
    BY <1>1, <1>5 DEF PhasesFollowEpochs, OwnerFollowsRegistration
  <1>9. AdmissionsHoldOpen' /\ RunsUnderItsAttachment'
    BY <1>3 DEF TypeOK, AdmissionsHoldOpen, RunsUnderItsAttachment
  <1>. QED
    BY <1>6, <1>7, <1>8, <1>9

(* A terminal drain's finish or drop: only an empty mailbox is closed. *)
LEMMA EndTerminalStep ==
  ASSUME AInv, EndTerminal
  PROVE  AInv'
  <1>. USE DEF AInv
  <1>1. /\ current \in Epochs /\ phase[current] = "TerminalActive" /\ registration # "Active"
        /\ \/ line[current] = <<>> /\ phase' = [phase EXCEPT ![current] = "TerminalClosed"]
           \/ phase' = [phase EXCEPT ![current] = "TerminalPending"]
        /\ owner' = "idle"
        /\ UNCHANGED <<ownVars, line, signal, hostVars, posts, missed, workVars>>
    BY DEF TypeOK, EndTerminal, OwnerFollowsRegistration
  <1>2. TypeOK'
    BY <1>1 DEF TypeOK, Phases
  <1>3. PhasesFollowEpochs'
    BY <1>1 DEF TypeOK, PhasesFollowEpochs, Epochs
  <1>4. OwnerFollowsRegistration' /\ AdmissionsHoldOpen'
    BY <1>1 DEF TypeOK, OwnerFollowsRegistration, AdmissionsHoldOpen
  <1>. QED
    BY <1>1, <1>2, <1>3, <1>4, WorkStays

(* replace: the old mailbox is terminally closed, the new one is fresh. *)
LEMMA ReplaceStep ==
  ASSUME AInv, NEW e \in Epochs, Replace(e)
  PROVE  AInv'
  <1>. USE DEF AInv
  <1>1. /\ current \in Epochs /\ phase[current] = "TerminalClosed" /\ e > current
        /\ current' = e /\ registration' = "Active" /\ owner = "idle"
        /\ phase' = [phase EXCEPT ![e] = "Open"]
        /\ UNCHANGED <<next_epoch, line, signal, owner, hostVars, posts, missed, workVars>>
    BY DEF TypeOK, Replace, Registers, NewMailbox
  <1>2. TypeOK'
    BY <1>1 DEF TypeOK, Phases, RegistrationStates
  <1>3. PhasesFollowEpochs'
    BY <1>1 DEF TypeOK, PhasesFollowEpochs, Epochs
  <1>4. AdmissionsHoldOpen'
    BY <1>1 DEF TypeOK, AdmissionsHoldOpen
  <1>5. OwnerFollowsRegistration'
    BY <1>1 DEF TypeOK, OwnerFollowsRegistration
  <1>. QED
    BY <1>1, <1>2, <1>3, <1>4, <1>5, WorkStays

(* The identity issues an epoch; the host drains or replaces its engine. *)
LEMMA HostStep ==
  ASSUME AInv, NextAttachment \/ EngineDrains \/ \E e \in Epochs : EngineReplaced(e)
  PROVE  AInv'
  <1>. USE DEF AInv, NextAttachment, EngineDrains, EngineReplaced
  <1>1. next_epoch' \in 2 .. MaxEpoch + 1
    BY AttachmentAssumption DEF TypeOK
  <1>2. engine' \in Epochs /\ engine_open' \in BOOLEAN
    BY DEF TypeOK
  <1>3. UNCHANGED <<current, registration, boxVars, owner, posts, missed, workVars>>
    OBVIOUS
  <1>4. TypeOK'
    BY <1>1, <1>2, <1>3 DEF TypeOK
  <1>5. PhasesFollowEpochs' /\ OwnerFollowsRegistration' /\ AdmissionsHoldOpen'
    BY <1>3 DEF PhasesFollowEpochs, OwnerFollowsRegistration, AdmissionsHoldOpen
  <1>. QED
    BY <1>3, <1>4, <1>5, WorkStays
----------------------------------------------------------------------------
(* A new owner with its first attachment satisfies the invariant. *)
LEMMA InitAInv == Init => AInv
  <1>. SUFFICES ASSUME Init PROVE AInv
    OBVIOUS
  <1>. USE AttachmentAssumption DEF Init
  <1>1. TypeOK
    <2>1. next_epoch \in 2 .. MaxEpoch + 1 /\ 1 \in Epochs /\ 0 \in 0 .. MaxPosts
      BY DEF Epochs
    <2>2. Len(<<>>) <= Capacity
      BY NoneHeld
    <2>. QED
      BY <2>1, <2>2, NoneHeld DEF TypeOK, Phases, RegistrationStates, None
  <1>2. LinesAreExact
    BY NoneHeld DEF LinesAreExact
  <1>3. PhasesFollowEpochs
    BY DEF PhasesFollowEpochs, Epochs
  <1>4. AdmissionsHoldOpen /\ RunsUnderItsAttachment
    BY DEF AdmissionsHoldOpen, RunsUnderItsAttachment
  <1>5. OwnerFollowsRegistration
    BY DEF OwnerFollowsRegistration, Epochs
  <1>. QED
    BY <1>1, <1>2, <1>3, <1>4, <1>5 DEF AInv

(* Every step of senders, host and owner preserves the invariant. *)
LEMMA NextAInv == AInv /\ [Next]_vars => AInv'
  <1>. SUFFICES ASSUME AInv, [Next]_vars PROVE AInv'
    OBVIOUS
  <1>1. CASE Send
    BY <1>1, SenderAdmitStep, SenderPublishStep DEF Send
  <1>2. CASE UNCHANGED vars
    BY <1>2 DEF vars, AInv, TypeOK, LinesAreExact, PhasesFollowEpochs, AdmissionsHoldOpen,
                OwnerFollowsRegistration, RunsUnderItsAttachment
  <1>. QED
    BY <1>1, <1>2, DeliverTaskStep, DispatchNextStep, FinishDrainStep, PostPendingStep, BeginCloseStep,
       BeginTerminalStep, TerminalPopStep, EndTerminalStep, ReplaceStep, HostStep DEF Next

(* The inductive invariant holds of every reachable state. *)
THEOREM AttachmentInvariant == Spec => []AInv
  BY InitAInv, NextAInv, PTL DEF Spec

(* replace: a retired attachment has an empty mailbox, no sender on its    *)
(* way into it and no drain to come, and every variable keeps its type,    *)
(* for any number of attachments and payloads.                             *)
THEOREM RetiredStaysSettled == Spec => []RetiredIsSettled
  <1>1. ASSUME AInv PROVE RetiredIsSettled
    <2>. USE <1>1 DEF AInv
    <2>. SUFFICES ASSUME NEW e \in Epochs, e < current
                  PROVE  /\ phase[e] \in {"Absent", "TerminalClosed"}
                         /\ line[e] = <<>> /\ signal[e] \in {"Idle", "Closed"}
                         /\ \A p \in Payloads : target[p] = e => custody[p] \notin {"admitted", "retained"}
      BY DEF RetiredIsSettled
    <2>1. phase[e] \in {"Absent", "TerminalClosed"} /\ line[e] = <<>> /\ signal[e] \in {"Idle", "Closed"}
      BY DEF PhasesFollowEpochs
    <2>2. \A p \in Payloads : target[p] = e => custody[p] # "admitted"
      BY <2>1 DEF AdmissionsHoldOpen
    <2>3. \A p \in Payloads : target[p] = e => custody[p] # "retained"
      BY <2>1, NoneHeld DEF LinesAreExact
    <2>. QED
      BY <2>1, <2>2, <2>3
  <1>. QED
    BY <1>1, AttachmentInvariant, PTL

(* dispatch: work runs only in the engine attachment it captured. *)
THEOREM RunsStayWithTheirAttachment == Spec => []RunsUnderItsAttachment
  <1>1. AInv => RunsUnderItsAttachment
    BY DEF AInv
  <1>. QED
    BY <1>1, AttachmentInvariant, PTL

(* begin_close: once the registration is closing no work runs, and what    *)
(* runs targets the registered attachment.                                 *)
THEOREM ClosingStopsWork == Spec => NothingRunsWhileClosing
  <1>1. ASSUME AInv, [Next]_vars, NEW p \in Payloads, custody[p] # "ran", custody'[p] = "ran"
        PROVE  registration = "Active" /\ target[p] = current
    <2>1. DispatchNext
      <3>1. custody' # custody
        BY <1>1
      <3>3. ASSUME NEW x \in Payloads, NEW to \in {"returned", "admitted", "retained", "residual"},
                   custody' = [custody EXCEPT ![x] = to] PROVE FALSE
        BY <1>1, <3>3 DEF AInv, TypeOK
      <3>4. ~Send
        BY <3>3 DEF Send, SenderAdmit, SenderPublish
      <3>5. ~TerminalPop
        <4>. SUFFICES ASSUME TerminalPop PROVE FALSE
          OBVIOUS
        <4>1. Head(line[current]) \in Payloads
          BY <1>1, PopHolds DEF TerminalPop, AInv, TypeOK, LinesAreExact
        <4>. QED
          BY <3>3, <4>1 DEF TerminalPop
      <3>. QED
        BY <1>1, <3>1, <3>4, <3>5 DEF Next, vars, DeliverTask, FinishDrain, PostPending, BeginClose,
           BeginCloseMailbox, BeginTerminal, EndTerminal, NextAttachment, Replace, EngineReplaced,
           EngineDrains
    <2>2. current \in Epochs /\ line[current] \in Seq(Payloads) /\ Len(line[current]) <= Capacity
          /\ Once(line[current]) /\ line[current] # <<>>
      BY <1>1, <2>1 DEF DispatchNext, AInv, TypeOK, LinesAreExact
    <2>3. Head(line[current]) \in Holds(line[current]) /\ Head(line[current]) \in Payloads
      BY <2>2, PopHolds
    <2>4. p = Head(line[current])
      BY <1>1, <2>1, <2>3 DEF DispatchNext, Dispatched, AInv, TypeOK
    <2>5. target[p] = current
      BY <1>1, <2>2, <2>3, <2>4 DEF AInv, LinesAreExact
    <2>. QED
      BY <1>1, <2>1, <2>5 DEF DispatchNext, AInv, OwnerFollowsRegistration
  <1>2. AInv /\ [Next]_vars
          => [\A p \in Payloads : custody[p] # "ran" /\ custody'[p] = "ran"
                => registration = "Active" /\ target[p] = current]_vars
    BY <1>1
  <1>. QED
    BY <1>2, AttachmentInvariant, PTL DEF Spec, NothingRunsWhileClosing
=============================================================================
