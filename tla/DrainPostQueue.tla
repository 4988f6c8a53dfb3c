--------------------------- MODULE DrainPostQueue ---------------------------
(***************************************************************************)
(* The queue of drain posts in testkit/src/drain_post_queue.rs, a          *)
(* DrainPoster over a BoundedMailbox: what is retained is not work but the *)
(* attachments whose mailboxes asked for a drain.  A payload of the        *)
(* mailbox is one call of post_drain.                                      *)
(***************************************************************************)
EXTENDS BoundedMailbox

CONSTANT Attachment        \* the attachment each call posts for

VARIABLES
  accepted,                \* history: attachments of the accepted posts, in order
  popped                   \* history: attachments that drains were given, in order

queueVars == <<vars, accepted, popped>>

new == Init /\ accepted = <<>> /\ popped = <<>>

(* Mutant: a post for an attachment that is already queued is left out. *)
post_drain_once(t, p) ==
  /\ IF \E i \in DOMAIN queue : Attachment[queue[i]] = Attachment[p]
     THEN /\ At(t, "idle") /\ custody[p] = "unsubmitted"
          /\ custody' = [custody EXCEPT ![p] = "delivered"] /\ accepted' = Append(accepted, Attachment[p])
          /\ UNCHANGED <<queue, signalVars, pc, owed>>
     ELSE /\ EnqueuePush(t, p)
          /\ accepted' = IF queue' # queue THEN Append(accepted, Attachment[p]) ELSE accepted
  /\ UNCHANGED popped

(* post_drain up to the request; a full queue answers DrainPostQueueFull. *)
post_drain(t, p) ==
  /\ EnqueuePush(t, p)
  /\ accepted' = IF queue' # queue THEN Append(accepted, Attachment[p]) ELSE accepted
  /\ UNCHANGED popped

post_drain_returns(t) == EnqueueRequest(t) /\ UNCHANGED <<accepted, popped>>

acquire(t) == Acquire(t) /\ UNCHANGED <<accepted, popped>>

pop(t) == Pop(t) /\ popped' = Append(popped, Attachment[Head(queue)]) /\ UNCHANGED accepted

(* finish, and the drop of an unfinished drain. *)
finish(t) == (Preserve(t) \/ PreserveRequest(t) \/ Finish(t)) /\ UNCHANGED <<accepted, popped>>

QueueNext ==
  \/ \E t \in Producers : post_drain_returns(t) \/ \E p \in Payloads : post_drain(t, p)
  \/ \E t \in Consumers : acquire(t) \/ pop(t) \/ finish(t)

(* The fairness of BoundedMailbox: calls return, and the driver acquires    *)
(* the drains it is told of and pops.                                       *)
QueueSpec ==
  /\ new /\ [][QueueNext]_queueVars
  /\ \A t \in Producers : WF_queueVars(post_drain_returns(t))
  /\ \A t \in Consumers : WF_queueVars(pop(t) \/ finish(t))
  /\ SF_queueVars(\E t \in Consumers : acquire(t))
  /\ SF_queueVars(\E t \in Consumers : pop(t))
----------------------------------------------------------------------------
(* Every accepted post is one record, and records come out in the order in  *)
(* which they were accepted (drain_post_queue.rs:14-20): posts for the same *)
(* attachment are not merged, and no drain that ends early or unwinds loses *)
(* or repeats one.                                                          *)
EveryPostIsARecord == accepted = popped \o [i \in DOMAIN queue |-> Attachment[queue[i]]]
=============================================================================
