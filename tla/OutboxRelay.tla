---------------------------- MODULE OutboxRelay ----------------------------
(***************************************************************************)
(* The outbox processor: a background task that publishes the rows of      *)
(* outbox_events to Redis and records the outcome in the row.              *)
(*                                                                         *)
(* Each statement on the table and each PUBLISH is one action.  A call may *)
(* fail without effect, or take effect and lose its reply; the process may *)
(* stop at any point and start again, which is when failed rows are reset. *)
(* Events are the created_at timestamps of their rows: now() is the start  *)
(* of the inserting transaction, so rows may appear out of that order.     *)
(***************************************************************************)
EXTENDS Naturals, FiniteSets

CONSTANTS Events,      \* the rows, named by their created_at
          Processors,  \* instances of the service: one, or as many as it is scaled to
          MaxRetries,  \* argument of reset_failed_events
          Limit,       \* argument of get_pending_events
          None

ASSUME EventsAreNaturals == Events \subseteq Nat /\ None \notin Events
ASSUME MaxRetriesPositive == MaxRetries \in Nat \ {0}
ASSUME LimitPositive == Limit \in Nat \ {0}

VARIABLES
  status,       \* outbox_events.status; "ABSENT" before the row is committed
  retry_count,  \* outbox_events.retry_count
  sent,         \* history: how often Redis took the event
  sent_by,      \* history: how often from each processor
  pc,           \* where each processor is
  batch,        \* rows it fetched and has not yet dealt with
  current       \* the row it is publishing

vars == <<status, retry_count, sent, sent_by, pc, batch, current>>

Pending == {e \in Events : status[e] = "PENDING"}

(* The result of get_pending_events: the Limit oldest PENDING rows.        *)
(* Mutant: LIMIT applies to the rows, and status is tested afterwards.     *)
PendingAmongOldestRows(B) ==
  \E R \in SUBSET {e \in Events : status[e] # "ABSENT"} :
    /\ \A e \in R, f \in Events \ R : status[f] # "ABSENT" => e < f
    /\ Cardinality(R) <= Limit
    /\ B = R \cap Pending

IsPendingBatch(B) ==
  /\ B \subseteq Pending
  /\ \A e \in B, f \in Pending \ B : e < f
  /\ IF Cardinality(Pending) <= Limit THEN B = Pending ELSE Cardinality(B) = Limit

Oldest(e, B) == e \in B /\ \A f \in B : e <= f

Init ==
  /\ status = [e \in Events |-> "ABSENT"]
  /\ retry_count = [e \in Events |-> 0]
  /\ sent = [e \in Events |-> 0]
  /\ sent_by = [p \in Processors |-> [e \in Events |-> 0]]
  /\ pc = [p \in Processors |-> "stopped"]
  /\ batch = [p \in Processors |-> {}]
  /\ current = [p \in Processors |-> None]

-----------------------------------------------------------------------------
(* A business transaction commits with its outbox row (add_event).         *)
AddEvent(e) ==
  /\ status[e] = "ABSENT"
  /\ status' = [status EXCEPT ![e] = "PENDING"]
  /\ UNCHANGED <<retry_count, sent, sent_by, pc, batch, current>>

(* main: reset_failed_events, whose failure is only logged, then the task  *)
(* is spawned.  Mutants: one retry too many; rows left in PROCESSING are   *)
(* reset too.                                                              *)
ResetOnceMore(max) ==
  status' = [e \in Events |->
               IF status[e] = "FAILED" /\ retry_count[e] <= max
               THEN "PENDING" ELSE status[e]]

ResetProcessingToo(max) ==
  status' = [e \in Events |->
               IF status[e] \in {"FAILED", "PROCESSING"} /\ retry_count[e] < max
               THEN "PENDING" ELSE status[e]]

ResetFailedEvents(max) ==
  status' = [e \in Events |->
               IF status[e] = "FAILED" /\ retry_count[e] < max
               THEN "PENDING" ELSE status[e]]

Start(p) ==
  /\ pc[p] = "stopped"
  /\ ResetFailedEvents(MaxRetries) \/ UNCHANGED status
  /\ pc' = [pc EXCEPT ![p] = "polling"]
  /\ UNCHANGED <<retry_count, sent, sent_by, batch, current>>

(* One turn of the loop of start_processor; an empty result, or an error,  *)
(* leaves the task sleeping until the next turn.                           *)
GetPendingEvents(p, B) ==
  /\ pc[p] = "polling"
  /\ B # {} /\ IsPendingBatch(B)
  /\ batch' = [batch EXCEPT ![p] = B]
  /\ pc' = [pc EXCEPT ![p] = "batch"]
  /\ UNCHANGED <<status, retry_count, sent, sent_by, current>>

(* mark_as_processing: UPDATE ... WHERE id AND status = 'PENDING'; that no *)
(* row may have matched is not looked at.  Mutant: no UPDATE.              *)
NotClaimed(e) == status

Claimed(e) ==
  [status EXCEPT ![e] = IF @ = "PENDING" THEN "PROCESSING" ELSE @]

MarkAsProcessing(p, e) ==
  /\ pc[p] = "batch" /\ Oldest(e, batch[p])
  /\ current' = [current EXCEPT ![p] = e]
  /\ \/ /\ status' = Claimed(e)
        /\ pc' = [pc EXCEPT ![p] = "marked"]
     \/ /\ status' \in {status, Claimed(e)}
        /\ pc' = [pc EXCEPT ![p] = "failing"]
  /\ UNCHANGED <<retry_count, sent, sent_by, batch>>

(* publish_event.  An error does not tell whether Redis took the event.    *)
Take(p) ==
  /\ sent' = [sent EXCEPT ![current[p]] = @ + 1]
  /\ sent_by' = [sent_by EXCEPT ![p][current[p]] = @ + 1]

TakeOrNot(p) == Take(p) \/ UNCHANGED <<sent, sent_by>>

PublishEvent(p) ==
  /\ pc[p] = "marked"
  /\ Take(p)
  /\ pc' = [pc EXCEPT ![p] = "published"]
  /\ UNCHANGED <<status, retry_count, batch, current>>

(* Mutant: the error of publish_event is logged and ignored.               *)
PublishErrorIgnored(p) ==
  /\ pc[p] = "marked"
  /\ TakeOrNot(p)
  /\ pc' = [pc EXCEPT ![p] = "published"]
  /\ UNCHANGED <<status, retry_count, batch, current>>

PublishFails(p) ==
  /\ pc[p] = "marked"
  /\ TakeOrNot(p)
  /\ pc' = [pc EXCEPT ![p] = "failing"]
  /\ UNCHANGED <<status, retry_count, batch, current>>

(* The loop over the batch goes on to the next row, or returns to polling. *)
NextInBatch(p) ==
  /\ batch' = [batch EXCEPT ![p] = @ \ {current[p]}]
  /\ current' = [current EXCEPT ![p] = None]
  /\ pc' = [pc EXCEPT ![p] = IF batch'[p] = {} THEN "polling" ELSE "batch"]

(* An error of mark_as_completed or mark_as_failed leaves process_events   *)
(* and forgets the rest of the batch.                                      *)
LeaveBatch(p) ==
  /\ batch' = [batch EXCEPT ![p] = {}]
  /\ current' = [current EXCEPT ![p] = None]
  /\ pc' = [pc EXCEPT ![p] = "polling"]

(* mark_as_completed, by id alone.  Its reply may be lost.                 *)
MarkAsCompleted(p) ==
  /\ pc[p] = "published"
  /\ status' = [status EXCEPT ![current[p]] = "COMPLETED"]
  /\ NextInBatch(p) \/ LeaveBatch(p)
  /\ UNCHANGED <<retry_count, sent, sent_by>>

(* mark_as_failed, by id alone.  Its reply may be lost.                    *)
MarkAsFailed(p) ==
  /\ pc[p] = "failing"
  /\ status' = [status EXCEPT ![current[p]] = "FAILED"]
  /\ retry_count' = [retry_count EXCEPT ![current[p]] = @ + 1]
  /\ NextInBatch(p) \/ LeaveBatch(p)
  /\ UNCHANGED <<sent, sent_by>>

(* Either UPDATE fails without effect: the row stays as it is.             *)
MarkFails(p) ==
  /\ pc[p] \in {"published", "failing"}
  /\ LeaveBatch(p)
  /\ UNCHANGED <<status, retry_count, sent, sent_by>>

(* The process is killed.                                                  *)
Crash(p) ==
  /\ pc[p] # "stopped"
  /\ batch' = [batch EXCEPT ![p] = {}]
  /\ current' = [current EXCEPT ![p] = None]
  /\ pc' = [pc EXCEPT ![p] = "stopped"]
  /\ UNCHANGED <<status, retry_count, sent, sent_by>>

Next ==
  \/ \E e \in Events : AddEvent(e)
  \/ \E p \in Processors :
       \/ Start(p)
       \/ \E B \in SUBSET Events : GetPendingEvents(p, B)
       \/ \E e \in Events : MarkAsProcessing(p, e)
       \/ PublishEvent(p)
       \/ PublishFails(p)
       \/ MarkAsCompleted(p)
       \/ MarkAsFailed(p)
       \/ MarkFails(p)
       \/ Crash(p)

Spec == Init /\ [][Next]_vars

(***************************************************************************)
(* Fairness, of one of the instances at least.  The process is started     *)
(* again whenever it is down, and the task is polled again after every     *)
(* await.  PostgreSQL and Redis do not fail at every attempt, nor is the   *)
(* process killed at every attempt, so a call that is made again and again *)
(* succeeds: strong fairness.                                              *)
(***************************************************************************)
Healthy(p) ==
  /\ SF_vars(Start(p) /\ ResetFailedEvents(MaxRetries))
  /\ SF_vars(\E B \in SUBSET Events : GetPendingEvents(p, B))
  /\ SF_vars(\E e \in Events : MarkAsProcessing(p, e) /\ pc'[p] = "marked")
  /\ SF_vars(PublishEvent(p))
  /\ SF_vars(MarkAsCompleted(p) /\ NextInBatch(p))
  /\ SF_vars(MarkAsFailed(p) /\ NextInBatch(p))

Fairness == \E p \in Processors : Healthy(p)

FairSpec == Spec /\ Fairness

-----------------------------------------------------------------------------
(* The variables range over the values the code can put in them.           *)
TypeOK ==
  /\ status \in [Events -> {"ABSENT", "PENDING", "PROCESSING",
                            "COMPLETED", "FAILED"}]
  /\ retry_count \in [Events -> Nat]
  /\ sent \in [Events -> Nat]
  /\ sent_by \in [Processors -> [Events -> Nat]]
  /\ pc \in [Processors -> {"stopped", "polling", "batch", "marked",
                            "published", "failing"}]
  /\ batch \in [Processors -> SUBSET Events]
  /\ current \in [Processors -> Events \cup {None}]

(* A row marked COMPLETED was taken by Redis at least once, whatever calls *)
(* failed and however many processors share the table.                     *)
CompletedWasSent ==
  \A e \in Events : status[e] = "COMPLETED" => sent[e] > 0

(* With one processor, reset_failed_events is a limit on the retries: no   *)
(* row's retry_count passes it, and no row at it is picked up again.       *)
RetriesBounded ==
  \A e \in Events :
    /\ retry_count[e] <= MaxRetries
    /\ retry_count[e] = MaxRetries => status[e] = "FAILED"

(* With one processor, Redis gets a row again only after a failure that    *)
(* was counted: losing the reply of an UPDATE or dying with a row half     *)
(* done never makes a duplicate.                                           *)
DuplicatesAreCounted ==
  \A e \in Events : sent[e] <= retry_count[e] + 1

(* However many instances share the table, select the same rows and undo   *)
(* each other's marks, none of them sends a row more often than once, and  *)
(* once more for every failure counted.                                    *)
SendsAreCounted ==
  \A p \in Processors, e \in Events : sent_by[p][e] <= retry_count[e] + 1

(* With one processor, the outcome recorded in a row is final: COMPLETED,  *)
(* or FAILED with its retries spent.                                       *)
OutcomeIsFinal ==
  [][\A e \in Events :
       \/ status[e] = "COMPLETED"
       \/ status[e] = "FAILED" /\ retry_count[e] >= MaxRetries
       => status'[e] = status[e]]_vars

(* A row that waits is eventually picked up, whatever older rows and the   *)
(* other instances do.                                                     *)
PendingIsTaken ==
  \A e \in Events : status[e] = "PENDING" ~> status[e] # "PENDING"

(* The relay keeps the outbox's promise, EventDelivery: a FAILED row whose *)
(* retries are not spent waits, and one whose retries are spent is dead.   *)
PhaseOf(e) ==
  CASE status[e] = "ABSENT"     -> "none"
    [] status[e] = "PENDING"    -> "waiting"
    [] status[e] = "PROCESSING" -> "claimed"
    [] status[e] = "COMPLETED"  -> "done"
    [] status[e] = "FAILED"     ->
         IF retry_count[e] < MaxRetries THEN "waiting" ELSE "dead"

Delivery == INSTANCE EventDelivery
              WITH phase <- [e \in Events |-> PhaseOf(e)],
                   tries <- retry_count

ImplementsDelivery == Delivery!Spec

(* "Outbox Pattern: Transactional event publishing implemented with retry  *)
(* logic" (README.md): an event is published, or its retries are spent.    *)
PublishedOrRetriesSpent ==
  \A e \in Events :
    status[e] = "PENDING" ~> (sent[e] > 0 \/ retry_count[e] >= MaxRetries)
=============================================================================
