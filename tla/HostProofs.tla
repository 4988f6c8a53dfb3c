----------------------------- MODULE HostProofs -----------------------------
(***************************************************************************)
(* Theorems about the parts that a host is built from.                     *)
(*                                                                         *)
(* The queue of drain posts (DrainPostQueue over BoundedMailbox), for any  *)
(* number of threads and posts and any capacity: the inductive invariant   *)
(* QInv adds to the properties that a thread holds the drain permit        *)
(* exactly between its acquire and its finish.                             *)
(*                                                                         *)
(* The entry gate (EntryGate), for any entry limit and policy: the checked *)
(* invariants are inductive together with OutcomeIsPending, and with what  *)
(* the counters mean (GateTypeOK), which is what makes the tests of        *)
(* finish_drain and try_begin_cleanup decide about real guards.            *)
(*                                                                         *)
(* The test kit's host and its oracle (HostLifecycle): OInv adds that the   *)
(* oracle's live entries are as many as the gate counts, that they were    *)
(* handed out before, and which milestones the trace has told.             *)
(***************************************************************************)
EXTENDS DrainPostQueue, HostLifecycle, SequenceTheorems, FiniteSetTheorems, TLAPS

Attachments == {Attachment[p] : p \in Payloads}

(* What the queue will give a drain: the attachments of its posts. *)
Records(q) == [i \in DOMAIN q |-> Attachment[q[i]]]

DrainsFollowCalls == drains = {t \in Threads : pc[t] \in Draining}

HistoriesAreSequences == accepted \in Seq(Attachments) /\ popped \in Seq(Attachments)

QInv == OneDrainIsOwed /\ DrainsFollowCalls /\ HistoriesAreSequences /\ EveryPostIsARecord
----------------------------------------------------------------------------
(* The records of a queue are as many as its posts. *)
LEMMA RecordsType ==
  ASSUME NEW q \in Seq(Payloads)
  PROVE  /\ Records(q) \in Seq(Attachments) /\ Len(Records(q)) = Len(q) /\ Len(q) \in Nat
         /\ \A i \in 1 .. Len(q) : Records(q)[i] = Attachment[q[i]]
  <1>1. Len(q) \in Nat /\ DOMAIN q = 1 .. Len(q) /\ \A i \in 1 .. Len(q) : q[i] \in Payloads
    BY LenProperties, ElementOfSeq
  <1>2. Records(q) \in [1 .. Len(q) -> Attachments]
    BY <1>1 DEF Records, Attachments
  <1>3. Records(q) \in Seq(Attachments)
    BY <1>1, <1>2, IsASeq
  <1>4. Len(Records(q)) = Len(q)
    BY <1>1, <1>2, <1>3, LenProperties
  <1>. QED
    BY <1>1, <1>3, <1>4 DEF Records

(* ArrayQueue::push keeps the queue in its capacity and adds one record    *)
(* behind the others.                                                      *)
LEMMA PushRecords ==
  ASSUME NEW q \in Seq(Payloads), NEW p \in Payloads, Len(q) < Capacity, NEW s \in Seq(Attachments)
  PROVE  /\ Append(q, p) \in Seq(Payloads) /\ Len(Append(q, p)) <= Capacity /\ Append(q, p) # q
         /\ Append(s \o Records(q), Attachment[p]) = s \o Records(Append(q, p))
  <1>. DEFINE r == Append(q, p)
              a == Attachment[p]
  <1>1. /\ r \in Seq(Payloads) /\ Len(r) = Len(q) + 1
        /\ r[Len(q) + 1] = p /\ \A i \in 1 .. Len(q) : r[i] = q[i]
    BY AppendProperties
  <1>2. /\ Records(q) \in Seq(Attachments) /\ Len(Records(q)) = Len(q) /\ Len(q) \in Nat
        /\ \A i \in 1 .. Len(q) : Records(q)[i] = Attachment[q[i]]
    BY RecordsType
  <1>3. /\ Records(r) \in Seq(Attachments) /\ Len(Records(r)) = Len(r)
        /\ \A i \in 1 .. Len(r) : Records(r)[i] = Attachment[r[i]]
    BY <1>1, RecordsType
  <1>4. Records(r) = Append(Records(q), a)
    <2>1. a \in Attachments
      BY DEF Attachments
    <2>2. /\ Append(Records(q), a) \in Seq(Attachments) /\ Len(Append(Records(q), a)) = Len(q) + 1
          /\ Append(Records(q), a)[Len(q) + 1] = a
          /\ \A i \in 1 .. Len(q) : Append(Records(q), a)[i] = Records(q)[i]
      BY <1>2, <2>1, AppendProperties
    <2>3. \A i \in 1 .. Len(q) + 1 : Append(Records(q), a)[i] = Records(r)[i]
      BY <1>1, <1>2, <1>3, <2>2
    <2>. QED
      BY <1>1, <1>3, <2>2, <2>3, SeqEqual
  <1>5. Append(s \o Records(q), a) = s \o Append(Records(q), a)
    <2>1. a \in Attachments /\ s \o Records(q) \in Seq(Attachments) /\ <<a>> \in Seq(Attachments)
      BY <1>2, ConcatProperties DEF Attachments
    <2>2. Append(s \o Records(q), a) = (s \o Records(q)) \o <<a>> /\ Append(Records(q), a) = Records(q) \o <<a>>
      BY <1>2, <2>1, AppendIsConcat
    <2>. QED
      BY <1>2, <2>1, <2>2, ConcatAssociative
  <1>6. Len(r) <= Capacity /\ r # q
    BY <1>1, <1>2, CapacityAssumption
  <1>. QED
    BY <1>1, <1>4, <1>5, <1>6

(* ArrayQueue::pop gives the oldest record and leaves the others in order. *)
LEMMA PopRecords ==
  ASSUME NEW q \in Seq(Payloads), q # <<>>, Len(q) <= Capacity, NEW s \in Seq(Attachments)
  PROVE  /\ Tail(q) \in Seq(Payloads) /\ Len(Tail(q)) <= Capacity /\ Head(q) \in Payloads
         /\ Append(s, Attachment[Head(q)]) \in Seq(Attachments)
         /\ Append(s, Attachment[Head(q)]) \o Records(Tail(q)) = s \o Records(q)
  <1>. DEFINE r == Tail(q)
              a == Attachment[Head(q)]
  <1>1. /\ r \in Seq(Payloads) /\ Head(q) \in Payloads /\ Head(q) = q[1]
        /\ Len(q) \in Nat /\ Len(q) # 0 /\ Len(r) = Len(q) - 1
        /\ \A i \in 1 .. Len(r) : r[i] = q[i + 1]
    BY HeadTailProperties, LenProperties, EmptySeq
  <1>2. /\ Records(q) \in Seq(Attachments) /\ Len(Records(q)) = Len(q)
        /\ \A i \in 1 .. Len(q) : Records(q)[i] = Attachment[q[i]]
    BY RecordsType
  <1>3. /\ Records(r) \in Seq(Attachments) /\ Len(Records(r)) = Len(r)
        /\ \A i \in 1 .. Len(r) : Records(r)[i] = Attachment[r[i]]
    BY <1>1, RecordsType
  <1>4. a \in Attachments /\ <<a>> \in Seq(Attachments) /\ Len(<<a>>) = 1 /\ <<a>>[1] = a
    BY <1>1 DEF Attachments
  <1>5. Records(q) = <<a>> \o Records(r)
    <2>1. /\ <<a>> \o Records(r) \in Seq(Attachments) /\ Len(<<a>> \o Records(r)) = 1 + Len(r)
          /\ \A i \in 1 .. 1 + Len(r) :
               (<<a>> \o Records(r))[i] = IF i <= 1 THEN <<a>>[i] ELSE Records(r)[i - 1]
      BY <1>3, <1>4, ConcatProperties
    <2>2. Len(q) = 1 + Len(r)
      BY <1>1
    <2>3. ASSUME NEW i \in 1 .. Len(q) PROVE Records(q)[i] = (<<a>> \o Records(r))[i]
      <3>1. CASE i = 1
        BY <1>1, <1>2, <1>4, <2>1, <2>2, <3>1
      <3>2. CASE i # 1
        <4>1. i - 1 \in 1 .. Len(r) /\ (i - 1) + 1 = i /\ ~(i <= 1)
          BY <1>1, <2>2, <3>2
        <4>2. Records(r)[i - 1] = Attachment[q[i]]
          BY <1>1, <1>3, <4>1
        <4>. QED
          BY <1>2, <2>1, <2>2, <4>1, <4>2
      <3>. QED
        BY <3>1, <3>2
    <2>. QED
      BY <1>2, <2>1, <2>2, <2>3, SeqEqual
  <1>6. Append(s, a) = s \o <<a>> /\ Append(s, a) \in Seq(Attachments)
    BY <1>4, AppendIsConcat, AppendProperties
  <1>7. (s \o <<a>>) \o Records(r) = s \o (<<a>> \o Records(r))
    BY <1>3, <1>4, ConcatAssociative
  <1>8. Len(r) <= Capacity
    BY <1>1, CapacityAssumption
  <1>. QED
    BY <1>1, <1>5, <1>6, <1>7, <1>8
----------------------------------------------------------------------------
USE DEF At, Goto, signalVars, Draining, NoUnreachable, OneDrainIsOwed, DrainsFollowCalls

(* An access that neither pushes nor pops keeps every record. *)
LEMMA RecordsStay ==
  ASSUME QInv, UNCHANGED <<queue, accepted, popped>>
  PROVE  HistoriesAreSequences' /\ EveryPostIsARecord'
  BY DEF QInv, HistoriesAreSequences, EveryPostIsARecord

(* post_drain up to the request: one record more, or DrainPostQueueFull. *)
LEMMA PostDrainStep ==
  ASSUME QInv, NEW t \in Threads, NEW p \in Payloads, post_drain(t, p)
  PROVE  QInv'
  <1>. USE DEF QInv, post_drain, EnqueuePush
  <1>1. queue \in Seq(Payloads) /\ Len(queue) <= Capacity /\ HistoriesAreSequences
    BY DEF TypeOK
  <1>2. CASE Len(queue) < Capacity
    <2>1. /\ queue' = Append(queue, p) /\ pc' = [pc EXCEPT ![t] = "request"]
          /\ custody' = [custody EXCEPT ![p] = "retained"]
      BY <1>1, <1>2, CapacityAssumption, LenProperties
    <2>2. /\ Append(queue, p) \in Seq(Payloads) /\ Len(Append(queue, p)) <= Capacity /\ Append(queue, p) # queue
          /\ Append(popped \o Records(queue), Attachment[p]) = popped \o Records(Append(queue, p))
      BY <1>1, <1>2, PushRecords DEF HistoriesAreSequences
    <2>3. TypeOK'
      BY <2>1, <2>2 DEF TypeOK, Labels
    <2>4. OneDrainIsOwed' /\ DrainsFollowCalls'
      BY <2>1, <2>3 DEF TypeOK
    <2>5. HistoriesAreSequences'
      BY <1>1, <2>1, <2>2, AppendProperties DEF HistoriesAreSequences, Attachments
    <2>6. EveryPostIsARecord'
      BY <2>1, <2>2 DEF EveryPostIsARecord, Records
    <2>. QED
      BY <2>4, <2>5, <2>6
  <1>3. CASE ~(Len(queue) < Capacity)
    <2>1. UNCHANGED <<queue, pc, signal, drains, owed, accepted, popped>>
          /\ custody' = [custody EXCEPT ![p] = "returned"]
      BY <1>3
    <2>2. TypeOK'
      BY <2>1 DEF TypeOK
    <2>3. OneDrainIsOwed' /\ DrainsFollowCalls'
      BY <2>1, <2>2
    <2>. QED
      BY <2>1, <2>3, RecordsStay
  <1>. QED
    BY <1>2, <1>3

(* The request of post_drain: the first one since the last drain is owed.  *)
LEMMA PostReturnsStep ==
  ASSUME QInv, NEW t \in Threads, post_drain_returns(t)
  PROVE  QInv'
  <1>. USE DEF QInv, post_drain_returns, EnqueueRequest, Signal!Request, Signal!RequestOutcome
  <1>1. TypeOK'
    BY DEF TypeOK, Signal!States, Labels
  <1>2. NoUnreachable' /\ DrainsFollowCalls'
    BY DEF TypeOK
  <1>3. (owed = IF signal = "Pending" THEN 1 ELSE 0)'
    BY DEF TypeOK, Signal!States
  <1>4. (drains # {} <=> signal \in {"Draining", "DrainingPending"})' /\ drains' = drains
    OBVIOUS
  <1>. QED
    BY <1>1, <1>2, <1>3, <1>4, RecordsStay

(* acquire takes the drain that is owed. *)
LEMMA AcquireStep ==
  ASSUME QInv, NEW t \in Threads, acquire(t)
  PROVE  QInv'
  <1>. USE DEF QInv, acquire, Acquire, Signal!Acquire
  <1>1. drains = {} /\ owed = 1 /\ drains' = {t} /\ signal' = "Draining" /\ owed' = 0
    OBVIOUS
  <1>2. TypeOK'
    BY <1>1 DEF TypeOK, Signal!States, Labels
  <1>3. DrainsFollowCalls' /\ NoUnreachable'
    BY <1>1 DEF TypeOK
  <1>. QED
    BY <1>1, <1>2, <1>3, RecordsStay

(* pop gives the drain the oldest record. *)
LEMMA PopStep ==
  ASSUME QInv, NEW t \in Threads, pop(t)
  PROVE  QInv'
  <1>. USE DEF QInv, pop, Pop
  <1>1. queue \in Seq(Payloads) /\ Len(queue) <= Capacity /\ queue # <<>> /\ popped \in Seq(Attachments)
    BY DEF TypeOK, HistoriesAreSequences
  <1>2. /\ Tail(queue) \in Seq(Payloads) /\ Len(Tail(queue)) <= Capacity /\ Head(queue) \in Payloads
        /\ Append(popped, Attachment[Head(queue)]) \in Seq(Attachments)
        /\ Append(popped, Attachment[Head(queue)]) \o Records(Tail(queue)) = popped \o Records(queue)
    BY <1>1, PopRecords
  <1>3. TypeOK'
    BY <1>2 DEF TypeOK
  <1>4. OneDrainIsOwed' /\ DrainsFollowCalls'
    BY <1>3
  <1>5. HistoriesAreSequences' /\ EveryPostIsARecord'
    BY <1>2 DEF HistoriesAreSequences, EveryPostIsARecord, Records
  <1>. QED
    BY <1>4, <1>5

(* finish, or the drop of an unfinished drain: the successor's request     *)
(* finds its own drain live, and a Pending answer is the one drain owed.   *)
LEMMA FinishStep ==
  ASSUME QInv, NEW t \in Threads, finish(t)
  PROVE  QInv'
  <1>. USE DEF QInv, finish
  <1>1. UNCHANGED <<queue, custody, accepted, popped>>
    BY DEF Preserve, PreserveRequest, Finish
  <1>2. t \in drains /\ drains = {t} /\ signal \in {"Draining", "DrainingPending"} /\ owed = 0
    BY DEF Preserve, PreserveRequest, Finish
  <1>3. CASE Preserve(t)
    <2>1. TypeOK'
      BY <1>3 DEF Preserve, TypeOK, Labels
    <2>2. DrainsFollowCalls' /\ OneDrainIsOwed'
      BY <1>3, <2>1 DEF Preserve, TypeOK
    <2>. QED
      BY <1>1, <2>2, RecordsStay
  <1>4. CASE PreserveRequest(t)
    <2>1. signal' = "DrainingPending" /\ drains' = drains /\ owed' = owed /\ pc' = [pc EXCEPT ![t] = "finish"]
      BY <1>2, <1>4 DEF PreserveRequest, Signal!Request, Signal!RequestOutcome
    <2>2. TypeOK'
      BY <1>1, <2>1 DEF TypeOK, Labels, Signal!States
    <2>3. DrainsFollowCalls'
      BY <1>2, <2>1 DEF TypeOK
    <2>4. OneDrainIsOwed'
      BY <1>2, <2>1, <2>2 DEF TypeOK
    <2>. QED
      BY <1>1, <2>3, <2>4, RecordsStay
  <1>5. CASE Finish(t)
    <2>1. /\ \/ signal' = "Idle" /\ owed' = 0
             \/ signal' = "Pending" /\ owed' = 1
          /\ drains' = {} /\ pc' = [pc EXCEPT ![t] = "idle"]
      BY <1>2, <1>5 DEF Finish, Signal!FinishDrain, Signal!DrainAfter
    <2>2. TypeOK'
      BY <1>1, <2>1 DEF TypeOK, Labels, Signal!States
    <2>3. DrainsFollowCalls'
      BY <1>2, <2>1 DEF TypeOK
    <2>4. OneDrainIsOwed'
      BY <2>1, <2>2 DEF TypeOK
    <2>. QED
      BY <1>1, <2>3, <2>4, RecordsStay
  <1>. QED
    BY <1>3, <1>4, <1>5
----------------------------------------------------------------------------
(* A new queue is empty, idle and owes nothing. *)
LEMMA NewQInv == new => QInv
  <1>. SUFFICES ASSUME new PROVE QInv
    OBVIOUS
  <1>. USE DEF new, Init, Signal!Init
  <1>1. queue \in Seq(Payloads) /\ Len(queue) <= Capacity /\ HistoriesAreSequences
    BY EmptySeq, CapacityAssumption DEF HistoriesAreSequences
  <1>2. TypeOK
    BY <1>1 DEF TypeOK, Labels, Signal!States
  <1>3. EveryPostIsARecord
    <2>1. Records(queue) \in Seq(Attachments) /\ Len(Records(queue)) = 0
      BY <1>1, RecordsType, EmptySeq
    <2>2. Records(queue) = <<>>
      BY <2>1, EmptySeq
    <2>. QED
      BY <2>2, EmptySeq, ConcatEmptySeq DEF EveryPostIsARecord, Records
  <1>. QED
    BY <1>1, <1>2, <1>3 DEF QInv

(* Every access of a poster or a drain preserves the invariant. *)
LEMMA NextQInv == QInv /\ [QueueNext]_queueVars => QInv'
  <1>. SUFFICES ASSUME QInv, [QueueNext]_queueVars PROVE QInv'
    OBVIOUS
  <1>1. Producers \subseteq Threads /\ Consumers \subseteq Threads
    BY DEF Threads
  <1>2. CASE UNCHANGED queueVars
    <2>1. UNCHANGED <<queue, signal, drains, pc, custody, owed, accepted, popped>>
      BY <1>2 DEF queueVars, vars
    <2>2. TypeOK'
      BY <2>1 DEF QInv, TypeOK
    <2>. QED
      BY <2>1, <2>2, RecordsStay DEF QInv
  <1>. QED
    BY <1>1, <1>2, PostDrainStep, PostReturnsStep, AcquireStep, PopStep, FinishStep DEF QueueNext

(* The inductive invariant holds of every reachable state of the queue. *)
THEOREM QueueInvariant == QueueSpec => []QInv
  BY NewQInv, NextQInv, PTL DEF QueueSpec

(* Coalescing: however posters and drains interleave, callers are told of  *)
(* exactly one drain to arrange while one is pending, at most one is live, *)
(* and no assertion of mailbox.rs fails.                                   *)
THEOREM OneDrainStaysOwed == QueueSpec => []OneDrainIsOwed
  <1>1. QInv => OneDrainIsOwed
    BY DEF QInv
  <1>. QED
    BY <1>1, QueueInvariant, PTL

(* Every accepted post is one record, given to drains in the order of      *)
(* acceptance: posts for one attachment are not merged, none is lost.      *)
THEOREM PostsStayRecords == QueueSpec => []EveryPostIsARecord
  <1>1. QInv => EveryPostIsARecord
    BY DEF QInv
  <1>. QED
    BY <1>1, QueueInvariant, PTL
----------------------------------------------------------------------------
(* A cleanup runs only while no outcome is recorded, and Unavailable is    *)
(* recorded only by the step that ends draining.                           *)
OutcomeIsPending ==
  /\ cleaner # "none" => final_entry = "None" /\ final_entry_policy # "Unavailable"
  /\ final_entry = "Unavailable" => state \in {"Invalid", "Destroyed"}
  /\ state = "Active" => final_entry = "None"

GInv == GateTypeOK /\ NoAccessAfterDrain /\ OutcomeIsHonest /\ OutcomeIsPending

(* A new gate satisfies the invariant under every policy. *)
LEMMA InitGInv == GateInit => GInv
  <1>. SUFFICES ASSUME GateInit PROVE GInv
    OBVIOUS
  <1>1. GateTypeOK
    <2>1. cleanup \in BOOLEAN /\ (cleanup <=> cleaner # "none")
      BY DEF GateInit
    <2>. QED
      BY <2>1, LimitAssumption DEF GateInit, GateTypeOK, States, Policies, Outcomes
  <1>2. NoAccessAfterDrain /\ OutcomeIsHonest /\ OutcomeIsPending
    BY DEF GateInit, NoAccessAfterDrain, OutcomeIsHonest, OutcomeIsPending
  <1>. QED
    BY <1>1, <1>2 DEF GInv

(* Every operation of the gate or of a guard preserves the invariant. *)
LEMMA NextGInv == GInv /\ [GateNext]_gateVars => GInv'
  <1>. SUFFICES ASSUME GInv, [GateNext]_gateVars PROVE GInv'
    OBVIOUS
  <1>. USE LimitAssumption
       DEF GInv, GateTypeOK, NoAccessAfterDrain, OutcomeIsHonest, OutcomeIsPending, States, Policies, Outcomes, guardVars
  <1>1. CASE TryEnter
    BY <1>1 DEF TryEnter, MayEnter
  <1>2. CASE ExitEntry
    BY <1>2 DEF ExitEntry
  <1>3. CASE ForgetEntry
    BY <1>3 DEF ForgetEntry
  <1>4. CASE RequestDrain
    BY <1>4 DEF RequestDrain
  <1>5. CASE TryBeginCleanup
    BY <1>5 DEF TryBeginCleanup
  <1>6. CASE CompleteCleanup
    <2>1. GateTypeOK'
      <3>1. cleanup' \in BOOLEAN /\ (cleanup' <=> cleaner' # "none")
        BY <1>6 DEF CompleteCleanup
      <3>. QED
        BY <1>6, <3>1 DEF CompleteCleanup
    <2>2. NoAccessAfterDrain'
      BY <1>6 DEF CompleteCleanup
    <2>3. OutcomeIsHonest' /\ OutcomeIsPending'
      BY <1>6 DEF CompleteCleanup
    <2>. QED
      BY <2>1, <2>2, <2>3
  <1>7. CASE DropCleanup
    BY <1>7 DEF DropCleanup
  <1>8. CASE ForgetCleanup
    BY <1>8 DEF ForgetCleanup
  <1>9. CASE FinishDrain
    <2>1. GateTypeOK'
      BY <1>9 DEF FinishDrain, MayFinish
    <2>2. NoAccessAfterDrain'
      BY <1>9 DEF FinishDrain, MayFinish
    <2>3. OutcomeIsHonest' /\ OutcomeIsPending'
      BY <1>9 DEF FinishDrain, MayFinish
    <2>. QED
      BY <2>1, <2>2, <2>3
  <1>10. CASE MarkDestroyed
    BY <1>10 DEF MarkDestroyed
  <1>11. CASE UNCHANGED gateVars
    BY <1>11 DEF gateVars
  <1>. QED
    BY <1>1, <1>2, <1>3, <1>4, <1>5, <1>6, <1>7, <1>8, <1>9, <1>10, <1>11 DEF GateNext

(* The invariant holds of every reachable state of the gate. *)
LEMMA AlwaysGInv == GateSpec => []GInv
  BY InitGInv, NextGInv, PTL DEF GateSpec

(* entry.rs:285: no guard of any kind survives the end of draining, and    *)
(* cleanup runs alone, for every limit and policy.                         *)
THEOREM DrainEndsAccess == GateSpec => []NoAccessAfterDrain
  <1>1. GInv => NoAccessAfterDrain
    BY DEF GInv
  <1>. QED
    BY <1>1, AlwaysGInv, PTL

(* entry.rs:203: a reported final-entry outcome is what happened, and a    *)
(* guaranteed final entry precedes invalidation.                           *)
THEOREM OutcomesAreHonest == GateSpec => []OutcomeIsHonest
  <1>1. GInv => OutcomeIsHonest
    BY DEF GInv
  <1>. QED
    BY <1>1, AlwaysGInv, PTL

(* entry.rs:63: a gate is never reactivated and its outcome is written     *)
(* once, for every limit and policy.                                       *)
THEOREM TeardownStaysOneWay == GateSpec => TeardownIsOneWay
  <1>. DEFINE Forward == /\ Rank(state') >= Rank(state)
                         /\ state # "Active" => entries' <= entries
                         /\ final_entry # "None" => final_entry' = final_entry
  <1>1. GInv /\ [GateNext]_gateVars => [Forward]_gateVars
    <2>. SUFFICES ASSUME GInv, GateNext PROVE Forward
      OBVIOUS
    <2>. USE DEF GInv, GateTypeOK, NoAccessAfterDrain, OutcomeIsHonest, OutcomeIsPending, States, Outcomes, Rank, guardVars
    <2>1. CASE TryEnter \/ ExitEntry \/ ForgetEntry \/ RequestDrain
      BY <2>1 DEF TryEnter, MayEnter, ExitEntry, ForgetEntry, RequestDrain
    <2>2. CASE TryBeginCleanup \/ CompleteCleanup \/ DropCleanup \/ ForgetCleanup
      <3>1. state' = state /\ entries' = entries
        BY <2>2 DEF TryBeginCleanup, CompleteCleanup, DropCleanup, ForgetCleanup
      <3>2. final_entry # "None" => final_entry' = final_entry
        BY <2>2 DEF TryBeginCleanup, CompleteCleanup, DropCleanup, ForgetCleanup
      <3>. QED
        BY <3>1, <3>2
    <2>3. CASE FinishDrain \/ MarkDestroyed
      BY <2>3 DEF FinishDrain, MayFinish, MarkDestroyed
    <2>. QED
      BY <2>1, <2>2, <2>3 DEF GateNext
  <1>. QED
    BY <1>1, AlwaysGInv, PTL DEF GateSpec, TeardownIsOneWay

(* The host of the test kit (model_host.rs:48-90), in lockstep with the     *)
(* oracle of lifecycle.rs, takes the gate's steps and no others, so what is *)
(* proved of the gate holds of the host.                                    *)
THEOREM HostKeepsTheGate == HostSpec => GateSpec /\ []NoAccessAfterDrain /\ []OutcomeIsHonest
  <1>1. HostInit => GateInit
    BY DEF HostInit
  <1>2. [HostNext]_allVars => [GateNext]_gateVars
    BY DEF HostNext, allVars, GateNext, Enter, Exit, Forget, Invalidate, Cleans, EndDrain, Destroy
  <1>. QED
    BY <1>1, <1>2, DrainEndsAccess, OutcomesAreHonest, PTL DEF HostSpec, GateSpec
----------------------------------------------------------------------------
(* What the oracle tells, and the milestones it tells once each.            *)
Milestones == {"DrainRequested", "DrainReady", "Invalidated", "Destroyed"}
Kinds      == {"Entered", "Exited"} \cup Milestones
Told       == [kind : Kinds, entry : Nat]

Count(events, kind) == Cardinality(Positions(events, kind))

(* A trace tells the milestones passed, in their order, and n open entries. *)
Trace(events, passed, n) ==
  /\ events \in Seq(Told)
  /\ \A kind \in Kinds : IsFiniteSet(Positions(events, kind))
  /\ \A kind \in Milestones : Count(events, kind) = IF kind \in passed THEN 1 ELSE 0
  /\ Before(events, "Entered", "DrainRequested") /\ Before(events, "Exited", "DrainReady")
  /\ Before(events, "DrainRequested", "DrainReady") /\ Before(events, "DrainReady", "Invalidated")
  /\ Before(events, "Invalidated", "Destroyed")
  /\ Count(events, "Entered") - Count(events, "Exited") = n

(* The milestones a gate in state s with n entries has passed. *)
Passed(s, n) ==
  {kind \in Milestones :
     /\ kind = "DrainRequested" => s # "Active"
     /\ kind = "DrainReady" => s # "Active" /\ n = 0
     /\ kind = "Invalidated" => s \in {"Invalid", "Destroyed"}
     /\ kind = "Destroyed" => s = "Destroyed"}

Lifecycles ==
  [attachment : {Own}, state : States, next_entry : 1 .. MAX, live : SUBSET Nat, events : Seq(Told)]

(* The oracle's state is the gate's, its live entries are as many as the    *)
(* gate counts and were all handed out.                                     *)
OracleFollows ==
  /\ oracle \in Lifecycles
  /\ oracle.state = state
  /\ \A e \in oracle.live : e < oracle.next_entry
  /\ IsFiniteSet(oracle.live) /\ Cardinality(oracle.live) = entries

OInv == GInv /\ OracleFollows /\ Trace(oracle.events, Passed(state, entries), entries)
----------------------------------------------------------------------------
(* Telling one event more adds its position to those of its kind, behind    *)
(* all others.                                                              *)
LEMMA ToldLast ==
  ASSUME NEW events \in Seq(Told), NEW event \in Told, NEW kind,
         IsFiniteSet(Positions(events, kind))
  PROVE  /\ Append(events, event) \in Seq(Told)
         /\ Positions(events, kind) \subseteq 1 .. Len(events) /\ Len(events) \in Nat
         /\ Positions(Append(events, event), kind) =
              Positions(events, kind) \cup IF event.kind = kind THEN {Len(events) + 1} ELSE {}
         /\ IsFiniteSet(Positions(Append(events, event), kind))
         /\ Count(events, kind) \in Nat
         /\ Count(Append(events, event), kind) = Count(events, kind) + IF event.kind = kind THEN 1 ELSE 0
  <1>. DEFINE more == Append(events, event)
              last == Len(events) + 1
  <1>1. /\ more \in Seq(Told) /\ Len(more) = last /\ Len(events) \in Nat
        /\ more[last] = event /\ \A i \in 1 .. Len(events) : more[i] = events[i]
    BY AppendProperties, LenProperties
  <1>2. DOMAIN events = 1 .. Len(events) /\ DOMAIN more = 1 .. last
    BY <1>1, LenProperties
  <1>3. Positions(events, kind) \subseteq 1 .. Len(events)
    BY <1>2 DEF Positions
  <1>4. Positions(more, kind) = Positions(events, kind) \cup IF event.kind = kind THEN {last} ELSE {}
    <2>1. ASSUME NEW i \in 1 .. last
          PROVE  i \in Positions(more, kind) <=> i \in Positions(events, kind) \/ (i = last /\ event.kind = kind)
      <3>1. CASE i = last
        BY <1>1, <1>2, <3>1 DEF Positions
      <3>2. CASE i # last
        <4>1. i \in 1 .. Len(events)
          BY <1>1, <3>2
        <4>. QED
          BY <1>1, <1>2, <3>2, <4>1 DEF Positions
      <3>. QED
        BY <3>1, <3>2
    <2>2. Positions(more, kind) \subseteq 1 .. last /\ Positions(events, kind) \subseteq 1 .. last /\ last \in 1 .. last
      BY <1>1, <1>2, <1>3 DEF Positions
    <2>. QED
      BY <2>1, <2>2
  <1>5. last \notin Positions(events, kind)
    BY <1>1, <1>3
  <1>6. Count(events, kind) \in Nat
    BY FS_CardinalityType DEF Count
  <1>7. CASE event.kind = kind
    <2>1. Positions(more, kind) = Positions(events, kind) \cup {last}
      BY <1>4, <1>7
    <2>2. /\ IsFiniteSet(Positions(events, kind) \cup {last})
          /\ Cardinality(Positions(events, kind) \cup {last}) = Cardinality(Positions(events, kind)) + 1
      BY <1>5, FS_AddElement
    <2>. QED
      BY <1>1, <1>3, <1>4, <1>6, <1>7, <2>1, <2>2 DEF Count
  <1>8. CASE event.kind # kind
    <2>1. Positions(more, kind) = Positions(events, kind)
      BY <1>4, <1>8
    <2>. QED
      BY <1>1, <1>3, <1>4, <1>6, <1>8, <2>1 DEF Count
  <1>. QED
    BY <1>7, <1>8

(* Two kinds stay in order if the first is not told after the second was.   *)
LEMMA ToldInOrder ==
  ASSUME NEW events \in Seq(Told), NEW event \in Told, NEW first, NEW second, first # second,
         IsFiniteSet(Positions(events, first)), IsFiniteSet(Positions(events, second)),
         Before(events, first, second),
         event.kind = first => Count(events, second) = 0
  PROVE  Before(Append(events, event), first, second)
  <1>1. /\ Positions(events, first) \subseteq 1 .. Len(events) /\ Len(events) \in Nat
        /\ Positions(Append(events, event), first) =
             Positions(events, first) \cup IF event.kind = first THEN {Len(events) + 1} ELSE {}
    BY ToldLast
  <1>2. /\ Positions(events, second) \subseteq 1 .. Len(events)
        /\ Positions(Append(events, event), second) =
             Positions(events, second) \cup IF event.kind = second THEN {Len(events) + 1} ELSE {}
    BY ToldLast
  <1>3. CASE event.kind = first
    <2>1. Positions(events, second) = {}
      BY <1>3, FS_EmptySet DEF Count
    <2>. QED
      BY <1>2, <1>3, <2>1 DEF Before
  <1>4. CASE event.kind # first
    <2>. SUFFICES ASSUME NEW i \in Positions(Append(events, event), first),
                         NEW j \in Positions(Append(events, event), second)
                  PROVE  i < j
      BY DEF Before
    <2>1. i \in Positions(events, first) /\ i \in 1 .. Len(events)
      BY <1>1, <1>4
    <2>2. CASE j \in Positions(events, second)
      BY <2>1, <2>2 DEF Before
    <2>3. CASE j \notin Positions(events, second)
      BY <1>1, <1>2, <2>1, <2>3
    <2>. QED
      BY <2>2, <2>3
  <1>. QED
    BY <1>3, <1>4

(* What an event may be told after: entries before the request, exits       *)
(* before the drain is ready, each milestone once and before the next one.  *)
MayTell(kind, passed) ==
  /\ kind \in Kinds \ passed
  /\ kind = "Entered" => "DrainRequested" \notin passed
  /\ kind = "Exited" => "DrainReady" \notin passed
  /\ kind = "DrainRequested" => "DrainReady" \notin passed
  /\ kind = "DrainReady" => "Invalidated" \notin passed
  /\ kind = "Invalidated" => "Destroyed" \notin passed

(* Telling an event in its turn keeps the trace complete. *)
LEMMA TraceGrows ==
  ASSUME NEW events, NEW passed \in SUBSET Milestones, NEW n \in Int, Trace(events, passed, n),
         NEW event \in Told, MayTell(event.kind, passed),
         NEW now, now = passed \cup ({event.kind} \cap Milestones),
         NEW m, m = n + IF event.kind = "Entered" THEN 1 ELSE IF event.kind = "Exited" THEN -1 ELSE 0
  PROVE  Trace(Append(events, event), now, m)
  <1>. DEFINE more == Append(events, event)
  <1>1. events \in Seq(Told) /\ event.kind \in Kinds \ passed
    BY DEF Trace, MayTell
  <1>2. ASSUME NEW kind \in Kinds
        PROVE  /\ more \in Seq(Told) /\ IsFiniteSet(Positions(more, kind)) /\ IsFiniteSet(Positions(events, kind))
               /\ Count(events, kind) \in Nat
               /\ Count(more, kind) = Count(events, kind) + IF event.kind = kind THEN 1 ELSE 0
    <2>1. IsFiniteSet(Positions(events, kind))
      BY DEF Trace
    <2>. QED
      BY <1>1, <2>1, ToldLast
  <1>3. ASSUME NEW kind \in Milestones
        PROVE  Count(more, kind) = IF kind \in now THEN 1 ELSE 0
    <2>1. Count(events, kind) = IF kind \in passed THEN 1 ELSE 0
      BY DEF Trace
    <2>2. Count(more, kind) = Count(events, kind) + IF event.kind = kind THEN 1 ELSE 0
      BY <1>2 DEF Kinds
    <2>3. CASE event.kind = kind
      BY <1>1, <2>1, <2>2, <2>3
    <2>4. CASE event.kind # kind
      BY <2>1, <2>2, <2>4
    <2>. QED
      BY <2>3, <2>4
  <1>4. \A kind \in Milestones : kind \notin passed => Count(events, kind) = 0
    BY DEF Trace
  <1>5. Before(more, "Entered", "DrainRequested")
    <2>1. Before(events, "Entered", "DrainRequested")
      BY DEF Trace
    <2>2. event.kind = "Entered" => Count(events, "DrainRequested") = 0
      BY <1>4 DEF MayTell, Milestones
    <2>. QED
      BY <1>1, <1>2, <2>1, <2>2, ToldInOrder DEF Kinds, Milestones
  <1>6. Before(more, "Exited", "DrainReady")
    <2>1. Before(events, "Exited", "DrainReady")
      BY DEF Trace
    <2>2. event.kind = "Exited" => Count(events, "DrainReady") = 0
      BY <1>4 DEF MayTell, Milestones
    <2>. QED
      BY <1>1, <1>2, <2>1, <2>2, ToldInOrder DEF Kinds, Milestones
  <1>7. Before(more, "DrainRequested", "DrainReady")
    <2>1. Before(events, "DrainRequested", "DrainReady")
      BY DEF Trace
    <2>2. event.kind = "DrainRequested" => Count(events, "DrainReady") = 0
      BY <1>4 DEF MayTell, Milestones
    <2>. QED
      BY <1>1, <1>2, <2>1, <2>2, ToldInOrder DEF Kinds, Milestones
  <1>8. Before(more, "DrainReady", "Invalidated")
    <2>1. Before(events, "DrainReady", "Invalidated")
      BY DEF Trace
    <2>2. event.kind = "DrainReady" => Count(events, "Invalidated") = 0
      BY <1>4 DEF MayTell, Milestones
    <2>. QED
      BY <1>1, <1>2, <2>1, <2>2, ToldInOrder DEF Kinds, Milestones
  <1>9. Before(more, "Invalidated", "Destroyed")
    <2>1. Before(events, "Invalidated", "Destroyed")
      BY DEF Trace
    <2>2. event.kind = "Invalidated" => Count(events, "Destroyed") = 0
      BY <1>4 DEF MayTell, Milestones
    <2>. QED
      BY <1>1, <1>2, <2>1, <2>2, ToldInOrder DEF Kinds, Milestones
  <1>10. Count(more, "Entered") - Count(more, "Exited") = m
    <2>1. Count(events, "Entered") - Count(events, "Exited") = n
      BY DEF Trace
    <2>2. "Entered" \in Kinds /\ "Exited" \in Kinds
      BY DEF Kinds
    <2>. QED
      BY <1>2, <2>1, <2>2
  <1>11. more \in Seq(Told)
    BY <1>2 DEF Kinds
  <1>. QED
    BY <1>2, <1>3, <1>5, <1>6, <1>7, <1>8, <1>9, <1>10, <1>11 DEF Trace
----------------------------------------------------------------------------
(* Telling changes the trace alone. *)
LEMMA TellType ==
  ASSUME NEW o \in Lifecycles, NEW event \in Told
  PROVE  /\ Tell(o, event) \in Lifecycles /\ Tell(o, event).events = Append(o.events, event)
         /\ Tell(o, event).state = o.state /\ Tell(o, event).live = o.live
         /\ Tell(o, event).next_entry = o.next_entry
  <1>1. Append(o.events, event) \in Seq(Told)
    BY AppendProperties DEF Lifecycles
  <1>. QED
    BY <1>1 DEF Tell, Lifecycles

(* The last exit, or the request where nothing is entered, makes the drain  *)
(* ready; every other one leaves the trace as it is.                        *)
LEMMA AnnounceReadyTells ==
  ASSUME NEW o \in Lifecycles, IsFiniteSet(o.live), NEW n \in Nat, Cardinality(o.live) = n,
         o.state \in {"Active", "Draining"},
         Trace(o.events, IF o.state = "Active" THEN {} ELSE {"DrainRequested"}, n)
  PROVE  /\ AnnounceReady(o) \in Lifecycles /\ AnnounceReady(o).state = o.state
         /\ AnnounceReady(o).live = o.live /\ AnnounceReady(o).next_entry = o.next_entry
         /\ Trace(AnnounceReady(o).events, Passed(o.state, n), n)
  <1>1. o.live = {} <=> n = 0
    BY FS_EmptySet
  <1>2. CASE o.state = "Draining" /\ o.live = {}
    <2>1. Event("DrainReady") \in Told /\ Event("DrainReady").kind = "DrainReady"
      BY DEF Event, Told, Kinds, Milestones
    <2>2. MayTell("DrainReady", {"DrainRequested"}) /\ {"DrainRequested"} \in SUBSET Milestones
      BY DEF MayTell, Kinds, Milestones
    <2>3. Trace(o.events, {"DrainRequested"}, n)
      BY <1>2
    <2>4. Passed(o.state, n) = {"DrainRequested"} \cup ({"DrainReady"} \cap Milestones)
      BY <1>1, <1>2 DEF Passed, Milestones
    <2>5. Trace(Append(o.events, Event("DrainReady")), Passed(o.state, n), n)
      <3>1. n \in Int /\ n = n + 0
        OBVIOUS
      <3>. QED
        BY <2>1, <2>2, <2>3, <2>4, <3>1, TraceGrows
    <2>6. AnnounceReady(o) = Tell(o, Event("DrainReady"))
      BY <1>2 DEF AnnounceReady
    <2>7. /\ Tell(o, Event("DrainReady")) \in Lifecycles /\ Tell(o, Event("DrainReady")).state = o.state
          /\ Tell(o, Event("DrainReady")).live = o.live /\ Tell(o, Event("DrainReady")).next_entry = o.next_entry
          /\ Tell(o, Event("DrainReady")).events = Append(o.events, Event("DrainReady"))
      BY <2>1, TellType
    <2>8. Trace(AnnounceReady(o).events, Passed(o.state, n), n)
      BY <2>5, <2>6, <2>7
    <2>. QED
      BY <2>6, <2>7, <2>8
  <1>3. CASE ~(o.state = "Draining" /\ o.live = {})
    <2>1. AnnounceReady(o) = o
      BY <1>3 DEF AnnounceReady
    <2>2. Passed(o.state, n) = IF o.state = "Active" THEN {} ELSE {"DrainRequested"}
      BY <1>1, <1>3 DEF Passed, Milestones
    <2>. QED
      BY <2>1, <2>2
  <1>. QED
    BY <1>2, <1>3

(* Steps of the gate and the oracle together preserve the gate's invariant. *)
LEMMA HostGInv == GInv /\ [HostNext]_allVars => GInv'
  <1>1. [HostNext]_allVars => [GateNext]_gateVars
    BY DEF HostNext, allVars, GateNext, Enter, Exit, Forget, Invalidate, Cleans, EndDrain, Destroy
  <1>. QED
    BY <1>1, NextGInv

(* An entry both admit: the oracle names it, and tells it. *)
LEMMA EnterFollows ==
  ASSUME OInv, Enter
  PROVE  OracleFollows' /\ Trace(oracle.events, Passed(state, entries), entries)'
  <1>. DEFINE event == [kind |-> "Entered", entry |-> oracle.next_entry]
              numbered == [oracle EXCEPT !.next_entry = @ + 1]
              o == [numbered EXCEPT !.live = @ \cup {oracle.next_entry}]
  <1>. USE DEF OInv, OracleFollows
  <1>1. /\ oracle.state = "Active" /\ state = "Active" /\ state' = "Active" /\ entries' = entries + 1
        /\ oracle.next_entry \in 1 .. MAX /\ oracle.next_entry < MAX /\ entries \in Nat
    BY LimitAssumption, MaxAssumption DEF Enter, TryEnter, MayEnter, Lifecycles, GInv, GateTypeOK
  <1>2. /\ o \in Lifecycles /\ o.state = "Active" /\ o.events = oracle.events
        /\ o.live = oracle.live \cup {oracle.next_entry} /\ o.next_entry = oracle.next_entry + 1
    <2>1. /\ numbered \in Lifecycles /\ numbered.state = "Active" /\ numbered.events = oracle.events
          /\ numbered.live = oracle.live /\ numbered.next_entry = oracle.next_entry + 1
      BY <1>1, MaxAssumption DEF Lifecycles
    <2>2. oracle.live \cup {oracle.next_entry} \in SUBSET Nat
      BY <1>1, MaxAssumption DEF Lifecycles
    <2>. HIDE DEF numbered
    <2>. QED
      BY <2>1, <2>2 DEF Lifecycles
  <1>3. event \in Told /\ event.kind = "Entered"
    BY <1>1, MaxAssumption DEF Told, Kinds
  <1>4. oracle' = Tell(o, event)
    BY <1>1 DEF Enter, enter
  <1>5. /\ oracle' \in Lifecycles /\ oracle'.events = Append(oracle.events, event) /\ oracle'.state = "Active"
        /\ oracle'.live = oracle.live \cup {oracle.next_entry} /\ oracle'.next_entry = oracle.next_entry + 1
    BY <1>2, <1>3, <1>4, TellType
  <1>6. IsFiniteSet(oracle'.live) /\ Cardinality(oracle'.live) = entries'
    <2>1. oracle.next_entry \notin oracle.live
      BY <1>1
    <2>2. /\ IsFiniteSet(oracle.live \cup {oracle.next_entry})
          /\ Cardinality(oracle.live \cup {oracle.next_entry}) = Cardinality(oracle.live) + 1
      BY <2>1, FS_AddElement
    <2>. QED
      BY <1>1, <1>5, <2>2
  <1>7. \A e \in oracle'.live : e < oracle'.next_entry
    <2>1. \A e \in oracle.live : e \in Nat /\ e < oracle.next_entry
      BY DEF Lifecycles
    <2>. QED
      BY <1>1, <1>5, <2>1
  <1>8. Trace(oracle'.events, {}, entries + 1)
    <2>1. Trace(oracle.events, {}, entries)
      <3>1. Passed(state, entries) = {}
        BY <1>1 DEF Passed, Milestones
      <3>. QED
        BY <3>1
    <2>2. MayTell("Entered", {}) /\ {} = {} \cup ({"Entered"} \cap Milestones) /\ {} \in SUBSET Milestones
      BY DEF MayTell, Kinds, Milestones
    <2>. HIDE DEF event
    <2>3. entries \in Int /\ MayTell(event.kind, {}) /\ {} = {} \cup ({event.kind} \cap Milestones)
      BY <1>1, <1>3, <2>2
    <2>4. Trace(Append(oracle.events, event), {}, entries + 1)
      BY <1>3, <2>1, <2>2, <2>3, TraceGrows
    <2>. QED
      BY <1>5, <2>4
  <1>9. Passed(state', entries') = {}
    BY <1>1 DEF Passed, Milestones
  <1>. QED
    BY <1>1, <1>5, <1>6, <1>7, <1>8, <1>9

(* An exit, of whichever live entry; the last one of a draining runtime     *)
(* makes it ready.                                                          *)
LEMMA ExitFollows ==
  ASSUME OInv, NEW e \in oracle.live, Exit(e)
  PROVE  OracleFollows' /\ Trace(oracle.events, Passed(state, entries), entries)'
  <1>. DEFINE event == [kind |-> "Exited", entry |-> e]
              left == [oracle EXCEPT !.live = @ \ {e}]
              o == Tell(left, event)
              passed == IF state = "Active" THEN {} ELSE {"DrainRequested"}
  <1>. USE DEF OInv, OracleFollows
  <1>1. /\ state' = state /\ entries' = entries - 1 /\ entries \in Nat /\ entries > 0
        /\ state \in {"Active", "Draining"} /\ entries' \in Nat /\ e \in Nat
    BY LimitAssumption DEF Exit, ExitEntry, GInv, GateTypeOK, NoAccessAfterDrain, States, Lifecycles
  <1>2. /\ left \in Lifecycles /\ left.live = oracle.live \ {e} /\ left.events = oracle.events
        /\ left.state = state /\ left.next_entry = oracle.next_entry
    BY DEF Lifecycles
  <1>3. event \in Told /\ event.kind = "Exited"
    BY <1>1 DEF Told, Kinds
  <1>4. /\ o \in Lifecycles /\ o.events = Append(oracle.events, event) /\ o.state = state
        /\ o.live = oracle.live \ {e} /\ o.next_entry = oracle.next_entry
    BY <1>2, <1>3, TellType
  <1>5. IsFiniteSet(o.live) /\ Cardinality(o.live) = entries'
    <2>1. IsFiniteSet(oracle.live \ {e}) /\ Cardinality(oracle.live \ {e}) = Cardinality(oracle.live) - 1
      BY FS_RemoveElement
    <2>. HIDE DEF o
    <2>. QED
      BY <1>1, <1>4, <2>1
  <1>6. Trace(o.events, passed, entries')
    <2>1. Passed(state, entries) = passed /\ passed \in SUBSET Milestones
      BY <1>1 DEF Passed, Milestones
    <2>2. MayTell("Exited", passed) /\ passed \cup ({"Exited"} \cap Milestones) = passed
      BY DEF MayTell, Kinds, Milestones
    <2>3. Trace(oracle.events, passed, entries)
      BY <2>1
    <2>. HIDE DEF passed
    <2>4. entries' = entries + (-1)
      BY <1>1
    <2>. HIDE DEF event
    <2>5. /\ entries \in Int /\ MayTell(event.kind, passed) /\ passed = passed \cup ({event.kind} \cap Milestones)
          /\ passed \in SUBSET Milestones /\ event.kind = "Exited"
      BY <1>1, <1>3, <2>1, <2>2
    <2>6. Trace(Append(oracle.events, event), passed, entries')
      BY <1>3, <2>3, <2>4, <2>5, TraceGrows
    <2>. HIDE DEF o
    <2>. QED
      BY <1>4, <2>6
  <1>7. oracle' = AnnounceReady(o)
    BY DEF Exit, exit
  <1>8. /\ oracle' \in Lifecycles /\ oracle'.state = state /\ oracle'.live = o.live
        /\ oracle'.next_entry = oracle.next_entry /\ Trace(oracle'.events, Passed(state, entries'), entries')
    <2>. HIDE DEF o
    <2>. QED
      BY <1>1, <1>4, <1>5, <1>6, <1>7, AnnounceReadyTells
  <1>. QED
    BY <1>1, <1>4, <1>5, <1>8

(* The request, which announces the drain where nothing is entered.         *)
LEMMA InvalidateFollows ==
  ASSUME OInv, Invalidate
  PROVE  OracleFollows' /\ Trace(oracle.events, Passed(state, entries), entries)'
  <1>. USE DEF OInv, OracleFollows
  <1>1. entries' = entries /\ entries \in Nat
    BY LimitAssumption DEF Invalidate, RequestDrain, GInv, GateTypeOK
  <1>2. CASE state # "Active"
    BY <1>2 DEF Invalidate, RequestDrain, request_invalidate
  <1>3. CASE state = "Active"
    <2>. DEFINE event == Event("DrainRequested")
                drain == [oracle EXCEPT !.state = "Draining"]
                o == Tell(drain, event)
    <2>1. state' = "Draining"
      BY <1>3 DEF Invalidate, RequestDrain
    <2>2. /\ drain \in Lifecycles /\ drain.live = oracle.live /\ drain.events = oracle.events
          /\ drain.state = "Draining" /\ drain.next_entry = oracle.next_entry
      BY DEF Lifecycles, States
    <2>3. event \in Told /\ event.kind = "DrainRequested"
      BY DEF Event, Told, Kinds, Milestones
    <2>4. /\ o \in Lifecycles /\ o.events = Append(oracle.events, event) /\ o.state = "Draining"
          /\ o.live = oracle.live /\ o.next_entry = oracle.next_entry
      BY <2>2, <2>3, TellType
    <2>5. Trace(o.events, {"DrainRequested"}, entries)
      <3>1. Passed(state, entries) = {}
        BY <1>3 DEF Passed, Milestones
      <3>2. Trace(oracle.events, {}, entries)
        BY <3>1
      <3>3. MayTell("DrainRequested", {}) /\ {"DrainRequested"} = {} \cup ({"DrainRequested"} \cap Milestones)
        BY DEF MayTell, Kinds, Milestones
      <3>. HIDE DEF event
      <3>4. /\ entries \in Int /\ MayTell(event.kind, {}) /\ {} \in SUBSET Milestones /\ entries = entries + 0
            /\ {"DrainRequested"} = {} \cup ({event.kind} \cap Milestones)
        BY <1>1, <2>3, <3>3
      <3>5. Trace(Append(oracle.events, event), {"DrainRequested"}, entries)
        BY <2>3, <3>2, <3>4, TraceGrows
      <3>. HIDE DEF o
      <3>. QED
        BY <2>4, <3>5
    <2>6. oracle' = AnnounceReady(o)
      BY <1>3 DEF Invalidate, request_invalidate
    <2>7. /\ oracle' \in Lifecycles /\ oracle'.state = "Draining" /\ oracle'.live = oracle.live
          /\ oracle'.next_entry = oracle.next_entry /\ Trace(oracle'.events, Passed("Draining", entries), entries)
      <3>. HIDE DEF o
      <3>. QED
        BY <1>1, <2>4, <2>5, <2>6, AnnounceReadyTells
    <2>. QED
      BY <1>1, <2>1, <2>7
  <1>. QED
    BY <1>2, <1>3

(* The end of a drain: the gate's count is zero exactly when the oracle     *)
(* knows no live entry.                                                     *)
LEMMA EndDrainFollows ==
  ASSUME OInv, EndDrain
  PROVE  OracleFollows' /\ Trace(oracle.events, Passed(state, entries), entries)'
  <1>. DEFINE event == Event("Invalidated")
              o == [oracle EXCEPT !.state = "Invalid"]
              passed == {"DrainRequested", "DrainReady"}
  <1>. USE DEF OInv, OracleFollows
  <1>1. state = "Draining" /\ entries = 0 /\ state' = "Invalid" /\ entries' = 0
    BY DEF EndDrain, FinishDrain, MayFinish
  <1>2. oracle.live = {}
    BY <1>1, FS_EmptySet
  <1>3. /\ o \in Lifecycles /\ o.state = "Invalid" /\ o.events = oracle.events
        /\ o.live = oracle.live /\ o.next_entry = oracle.next_entry
    BY DEF Lifecycles, States
  <1>4. event \in Told /\ event.kind = "Invalidated"
    BY DEF Event, Told, Kinds, Milestones
  <1>5. oracle' = Tell(o, event)
    BY <1>1, <1>2 DEF EndDrain, finish_drain
  <1>6. /\ oracle' \in Lifecycles /\ oracle'.events = Append(oracle.events, event) /\ oracle'.state = "Invalid"
        /\ oracle'.live = oracle.live /\ oracle'.next_entry = oracle.next_entry
    BY <1>3, <1>4, <1>5, TellType
  <1>7. Trace(oracle'.events, Passed("Invalid", 0), 0)
    <2>1. Passed(state, entries) = passed /\ passed \in SUBSET Milestones
      BY <1>1 DEF Passed, Milestones
    <2>2. Passed("Invalid", 0) = passed \cup ({"Invalidated"} \cap Milestones) /\ MayTell("Invalidated", passed)
      BY DEF Passed, MayTell, Kinds, Milestones
    <2>3. Trace(oracle.events, passed, 0)
      BY <1>1, <2>1
    <2>. HIDE DEF passed
    <2>4. Trace(Append(oracle.events, event), Passed("Invalid", 0), 0)
      BY <1>4, <2>1, <2>2, <2>3, TraceGrows
    <2>. QED
      BY <1>6, <2>4
  <1>. QED
    BY <1>1, <1>6, <1>7

(* Destruction is told once, however often it is asked for. *)
LEMMA DestroyFollows ==
  ASSUME OInv, Destroy
  PROVE  OracleFollows' /\ Trace(oracle.events, Passed(state, entries), entries)'
  <1>. DEFINE event == Event("Destroyed")
              o == [oracle EXCEPT !.state = "Destroyed"]
              passed == {"DrainRequested", "DrainReady", "Invalidated"}
  <1>. USE DEF OInv, OracleFollows
  <1>1. /\ state \in {"Invalid", "Destroyed"} /\ state' = "Destroyed"
        /\ entries = 0 /\ entries' = 0
    BY DEF Destroy, MarkDestroyed, GInv, GateTypeOK, NoAccessAfterDrain
  <1>2. CASE state = "Destroyed"
    BY <1>1, <1>2 DEF Destroy, destroy
  <1>3. CASE state = "Invalid"
    <2>1. /\ o \in Lifecycles /\ o.state = "Destroyed" /\ o.events = oracle.events
          /\ o.live = oracle.live /\ o.next_entry = oracle.next_entry
      BY DEF Lifecycles, States
    <2>2. event \in Told /\ event.kind = "Destroyed"
      BY DEF Event, Told, Kinds, Milestones
    <2>3. oracle' = Tell(o, event)
      BY <1>3 DEF Destroy, destroy
    <2>4. /\ oracle' \in Lifecycles /\ oracle'.events = Append(oracle.events, event)
          /\ oracle'.state = "Destroyed" /\ oracle'.live = oracle.live /\ oracle'.next_entry = oracle.next_entry
      BY <2>1, <2>2, <2>3, TellType
    <2>5. Trace(oracle'.events, Passed("Destroyed", 0), 0)
      <3>1. Passed(state, entries) = passed /\ passed \in SUBSET Milestones
        BY <1>1, <1>3 DEF Passed, Milestones
      <3>2. Passed("Destroyed", 0) = passed \cup ({"Destroyed"} \cap Milestones) /\ MayTell("Destroyed", passed)
        BY DEF Passed, MayTell, Kinds, Milestones
      <3>3. Trace(oracle.events, passed, 0)
        BY <1>1, <3>1
      <3>. HIDE DEF passed
      <3>4. Trace(Append(oracle.events, event), Passed("Destroyed", 0), 0)
        BY <2>2, <3>1, <3>2, <3>3, TraceGrows
      <3>. QED
        BY <2>4, <3>4
    <2>. QED
      BY <1>1, <2>4, <2>5
  <1>. QED
    BY <1>1, <1>2, <1>3
----------------------------------------------------------------------------
(* A new oracle has told nothing. *)
LEMMA InitOInv == HostInit => OInv
  <1>. SUFFICES ASSUME HostInit PROVE OInv
    OBVIOUS
  <1>. USE DEF HostInit, NewLifecycle
  <1>1. GInv /\ state = "Active" /\ entries = 0
    BY InitGInv DEF GateInit
  <1>2. OracleFollows
    <2>1. oracle \in Lifecycles
      BY MaxAssumption, EmptySeq DEF Lifecycles, States
    <2>. QED
      BY <1>1, <2>1, FS_EmptySet DEF OracleFollows
  <1>3. Trace(oracle.events, Passed(state, entries), entries)
    <2>1. oracle.events = <<>> /\ oracle.events \in Seq(Told) /\ Len(oracle.events) = 0
      BY EmptySeq
    <2>2. \A kind : Positions(oracle.events, kind) = {}
      BY <2>1, LenProperties DEF Positions
    <2>3. IsFiniteSet({}) /\ Cardinality({}) = 0
      BY FS_EmptySet
    <2>4. Passed(state, entries) = {}
      BY <1>1 DEF Passed, Milestones
    <2>5. \A kind : IsFiniteSet(Positions(oracle.events, kind)) /\ Count(oracle.events, kind) = 0
      BY <2>2, <2>3 DEF Count
    <2>6. \A first, second : Before(oracle.events, first, second)
      BY <2>2 DEF Before
    <2>7. Count(oracle.events, "Entered") - Count(oracle.events, "Exited") = entries
      BY <1>1, <2>5
    <2>. HIDE DEF HostInit
    <2>. QED
      BY <2>1, <2>4, <2>5, <2>6, <2>7 DEF Trace
  <1>. QED
    BY <1>1, <1>2, <1>3 DEF OInv

(* Every operation keeps oracle and gate together. *)
LEMMA NextOInv == OInv /\ [HostNext]_allVars => OInv'
  <1>. SUFFICES ASSUME OInv, [HostNext]_allVars PROVE OInv'
    OBVIOUS
  <1>1. GInv'
    BY HostGInv DEF OInv
  <1>2. OracleFollows' /\ Trace(oracle.events, Passed(state, entries), entries)'
    <2>1. CASE UNCHANGED <<state, entries, oracle>>
      BY <2>1 DEF OInv, OracleFollows
    <2>2. CASE \E e \in oracle.live : Forget(e)
      BY <2>1, <2>2 DEF Forget, ForgetEntry
    <2>3. CASE Cleans
      BY <2>1, <2>3 DEF Cleans, TryBeginCleanup, CompleteCleanup, DropCleanup, ForgetCleanup
    <2>4. CASE UNCHANGED allVars
      BY <2>1, <2>4 DEF allVars, gateVars
    <2>. QED
      BY <2>2, <2>3, <2>4, EnterFollows, ExitFollows, InvalidateFollows, EndDrainFollows, DestroyFollows
      DEF HostNext
  <1>. QED
    BY <1>1, <1>2 DEF OInv

(* The invariant holds of every reachable state of host and oracle. *)
LEMMA AlwaysOInv == HostSpec => []OInv
  BY InitOInv, NextOInv, PTL DEF HostSpec

(* In step, host and oracle accept the same and tell the same. *)
LEMMA InStepAgrees ==
  ASSUME OInv
  PROVE  OracleAgrees
  <1>. USE DEF OInv, OracleFollows
  <1>1. oracle.state = state /\ Cardinality(oracle.live) = entries /\ state \in States /\ entries \in Nat
    BY LimitAssumption DEF GInv, GateTypeOK
  <1>2. TraceIsComplete
    <2>1. \A kind \in Milestones : Count(oracle.events, kind) = IF kind \in Passed(state, entries) THEN 1 ELSE 0
      BY DEF Trace
    <2>2. /\ "DrainRequested" \in Passed(state, entries) <=> state # "Active"
          /\ "DrainReady" \in Passed(state, entries) <=> state # "Active" /\ entries = 0
          /\ "Invalidated" \in Passed(state, entries) <=> state \in {"Invalid", "Destroyed"}
          /\ "Destroyed" \in Passed(state, entries) <=> state = "Destroyed"
      BY DEF Passed, Milestones
    <2>3. /\ "DrainRequested" \in Milestones /\ "DrainReady" \in Milestones
          /\ "Invalidated" \in Milestones /\ "Destroyed" \in Milestones
      BY DEF Milestones
    <2>. QED
      BY <2>1, <2>2, <2>3 DEF TraceIsComplete, Trace, Count
  <1>3. ASSUME entries < Limit, oracle.next_entry < MAX PROVE MayEnter <=> enter(oracle) # oracle
    <2>1. CASE state = "Active"
      <3>1. oracle.next_entry \in 1 .. MAX /\ oracle.next_entry \in Int /\ oracle.next_entry # MAX
        BY <1>3, MaxAssumption DEF Lifecycles
      <3>2. enter(oracle).next_entry = oracle.next_entry + 1
        BY <1>1, <2>1, <3>1 DEF enter, Tell, Lifecycles
      <3>. QED
        BY <1>3, <2>1, <3>1, <3>2 DEF MayEnter
    <2>2. CASE state # "Active"
      BY <1>1, <2>2 DEF MayEnter, enter
    <2>. QED
      BY <2>1, <2>2
  <1>4. ASSUME entries < Limit, NEW id \in {Own, Other} PROVE validate_work(oracle, id) <=> id = Own /\ MayEnter
    BY <1>1, <1>4 DEF validate_work, MayEnter, Lifecycles
  <1>5. ASSUME final_entry_policy = "BestEffort", ~cleanup PROVE MayFinish <=> finish_drain(oracle) # oracle
    <2>1. oracle.live = {} <=> entries = 0
      BY <1>1, FS_EmptySet
    <2>2. CASE state = "Draining" /\ entries = 0
      <3>1. finish_drain(oracle).state = "Invalid"
        BY <1>1, <2>1, <2>2 DEF finish_drain, Tell, Lifecycles
      <3>. QED
        BY <1>1, <1>5, <2>2, <3>1 DEF MayFinish
    <2>3. CASE ~(state = "Draining" /\ entries = 0)
      BY <1>1, <2>1, <2>3 DEF MayFinish, finish_drain
    <2>. QED
      BY <2>2, <2>3
  <1>. HIDE DEF OInv, OracleFollows
  <1>. QED
    BY <1>1, <1>2, <1>3, <1>4, <1>5 DEF OracleAgrees

(* lifecycle.rs:144-256 against entry.rs: for every limit and policy, and    *)
(* as many entries as there are sequence numbers, the test kit's oracle is  *)
(* in the gate's state, admits what the gate admits, and its trace tells    *)
(* the whole history.                                                       *)
THEOREM OracleStaysInStep == HostSpec => []OracleAgrees
  BY InStepAgrees, AlwaysOInv, PTL
=============================================================================
