----------------------- MODULE PaymentPipelineProofs ------------------------
(***************************************************************************)
(* Theorems about OutboxRelay, for any set of rows, any retry limit and    *)
(* any batch size: CompletedWasSent and SendsAreCounted for any number of  *)
(* processors, the others for what the deployment provides, one.  Then the *)
(* same theorems about the relay that runs beside the request handlers:    *)
(* every behaviour of PaymentPipeline is one of OutboxRelay.  The link is  *)
(* the id under which a handler inserts: what it commits is a row.  And    *)
(* every behaviour of PaymentPipeline is one of PaymentTransactions, so    *)
(* that the theorems about the service hold of the pipeline, too.          *)
(***************************************************************************)
EXTENDS PaymentPipeline, TLAPS

OneProcessor == \A p, q \in Processors : p = q

Publishing == {"marked", "published", "failing"}

(* A processor past mark_as_processing has a row, and a row it is about to *)
(* mark COMPLETED has been sent.                                           *)
SentBeforeCompleted ==
  /\ TypeOK
  /\ \A p \in Processors :
       /\ pc[p] \in Publishing => current[p] \in Events
       /\ pc[p] = "published" => sent[current[p]] > 0
  /\ CompletedWasSent

(* What one processor knows of the rows it fetched.                        *)
BatchIsFresh ==
  \A p \in Processors :
    /\ pc[p] \in {"stopped", "polling"} => batch[p] = {}
    /\ \A e \in batch[p] :
         pc[p] = "batch" \/ e # current[p] => status[e] = "PENDING"
    /\ pc[p] \in {"marked", "published"} => status[current[p]] = "PROCESSING"
    /\ pc[p] = "failing" => status[current[p]] \in {"PENDING", "PROCESSING"}
    /\ pc[p] = "marked" => sent[current[p]] <= retry_count[current[p]]

(* What a row's status says of its counters.                               *)
RowIsCounted(e) ==
  /\ status[e] = "ABSENT" => sent[e] = 0 /\ retry_count[e] = 0
  /\ status[e] \in {"PENDING", "FAILED"} => sent[e] <= retry_count[e]
  /\ status[e] \in {"PROCESSING", "COMPLETED"} => sent[e] <= retry_count[e] + 1
  /\ status[e] = "FAILED" => retry_count[e] <= MaxRetries
  /\ status[e] # "FAILED" => retry_count[e] < MaxRetries

RowsCounted == \A e \in Events : RowIsCounted(e)

IInv == SentBeforeCompleted /\ BatchIsFresh /\ RowsCounted

-----------------------------------------------------------------------------
(* A row's counter is incremented to a natural number.                     *)
LEMMA CounterTyped ==
  ASSUME NEW f \in [Events -> Nat], NEW e \in Events
  PROVE  [f EXCEPT ![e] = @ + 1] \in [Events -> Nat]
  OBVIOUS

(* The variables keep to their types, with any number of processors.       *)
LEMMA TypeStep ==
  ASSUME SentBeforeCompleted, [Next]_vars PROVE TypeOK'
<1> USE EventsAreNaturals DEF SentBeforeCompleted, TypeOK, Publishing
<1>1. ASSUME NEW e \in Events, AddEvent(e) PROVE TypeOK'
  BY <1>1 DEF AddEvent
<1>2. ASSUME NEW p \in Processors, Start(p) PROVE TypeOK'
  BY <1>2 DEF Start, ResetFailedEvents
<1>3. ASSUME NEW p \in Processors, NEW B \in SUBSET Events, GetPendingEvents(p, B)
      PROVE  TypeOK'
  BY <1>3 DEF GetPendingEvents
<1>4. ASSUME NEW p \in Processors, NEW e \in Events, MarkAsProcessing(p, e)
      PROVE  TypeOK'
  <2>1. Claimed(e) \in [Events -> {"ABSENT", "PENDING", "PROCESSING",
                                   "COMPLETED", "FAILED"}]
    BY DEF Claimed
  <2> QED
    BY <1>4, <2>1 DEF MarkAsProcessing
<1>5. ASSUME NEW p \in Processors, PublishEvent(p) \/ PublishFails(p) PROVE TypeOK'
  <2>1. current[p] \in Events
    BY <1>5 DEF PublishEvent, PublishFails
  <2>2. CASE Take(p)
    <3>1. sent' \in [Events -> Nat]
      BY <2>1, <2>2, CounterTyped DEF Take
    <3>2. [sent_by[p] EXCEPT ![current[p]] = @ + 1] \in [Events -> Nat]
      BY <2>1, CounterTyped
    <3>3. sent_by' = [sent_by EXCEPT ![p] = [sent_by[p] EXCEPT ![current[p]] = @ + 1]]
      BY <2>2 DEF Take
    <3>4. sent_by' \in [Processors -> [Events -> Nat]]
      BY <3>2, <3>3
    <3> QED
      BY <1>5, <3>1, <3>4 DEF PublishEvent, PublishFails
  <2>3. CASE UNCHANGED <<sent, sent_by>>
    BY <1>5, <2>3 DEF PublishEvent, PublishFails
  <2> QED
    BY <1>5, <2>2, <2>3 DEF PublishEvent, PublishFails, TakeOrNot
<1>6. ASSUME NEW p \in Processors, MarkAsCompleted(p) PROVE TypeOK'
  <2>1. CASE NextInBatch(p)
    BY <1>6, <2>1 DEF MarkAsCompleted, NextInBatch
  <2>2. CASE LeaveBatch(p)
    BY <1>6, <2>2 DEF MarkAsCompleted, LeaveBatch
  <2> QED
    BY <1>6, <2>1, <2>2 DEF MarkAsCompleted
<1>7. ASSUME NEW p \in Processors, MarkAsFailed(p) PROVE TypeOK'
  <2>1. current[p] \in Events
    BY <1>7 DEF MarkAsFailed
  <2>2. retry_count' = [retry_count EXCEPT ![current[p]] = @ + 1]
        /\ status' = [status EXCEPT ![current[p]] = "FAILED"]
        /\ UNCHANGED <<sent, sent_by>>
    BY <1>7 DEF MarkAsFailed
  <2>3. retry_count' \in [Events -> Nat]
    BY <2>1, <2>2, CounterTyped
  <2>4. NextInBatch(p) \/ LeaveBatch(p)
    BY <1>7 DEF MarkAsFailed
  <2>5. CASE NextInBatch(p)
    BY <2>2, <2>3, <2>5 DEF NextInBatch
  <2>6. CASE LeaveBatch(p)
    BY <2>2, <2>3, <2>6 DEF LeaveBatch
  <2> QED
    BY <2>4, <2>5, <2>6
<1>8. ASSUME NEW p \in Processors, MarkFails(p) \/ Crash(p) PROVE TypeOK'
  BY <1>8 DEF MarkFails, Crash, LeaveBatch
<1>9. CASE UNCHANGED vars
  BY <1>9 DEF vars
<1> QED
  BY <1>1, <1>2, <1>3, <1>4, <1>5, <1>6, <1>7, <1>8, <1>9 DEF Next

(* A row is marked COMPLETED only after Redis took it: no call of another  *)
(* processor, and no crash, takes back what was sent.                      *)
LEMMA SentStep ==
  ASSUME SentBeforeCompleted, [Next]_vars PROVE SentBeforeCompleted'
<1> USE EventsAreNaturals
    DEF SentBeforeCompleted, TypeOK, Publishing, CompletedWasSent
<1>0. TypeOK'
  BY TypeStep
<1>1. ASSUME NEW e \in Events, AddEvent(e) PROVE SentBeforeCompleted'
  BY <1>0, <1>1 DEF AddEvent
<1>2. ASSUME NEW p \in Processors, Start(p) PROVE SentBeforeCompleted'
  BY <1>0, <1>2 DEF Start, ResetFailedEvents
<1>3. ASSUME NEW p \in Processors, NEW B \in SUBSET Events, GetPendingEvents(p, B)
      PROVE  SentBeforeCompleted'
  BY <1>0, <1>3 DEF GetPendingEvents
<1>4. ASSUME NEW p \in Processors, NEW e \in Events, MarkAsProcessing(p, e)
      PROVE  SentBeforeCompleted'
  BY <1>0, <1>4 DEF MarkAsProcessing, Claimed
<1>5. ASSUME NEW p \in Processors, PublishEvent(p) PROVE SentBeforeCompleted'
  <2>1. current[p] \in Events
    BY <1>5 DEF PublishEvent
  <2>2. \A e \in Events : sent'[e] = IF e = current[p] THEN sent[e] + 1 ELSE sent[e]
    BY <1>5, <2>1 DEF PublishEvent, Take
  <2>3. \A e \in Events : sent[e] > 0 => sent'[e] > 0
    BY <2>2
  <2>4. sent[current[p]] \in Nat
    BY <2>1
  <2>5. sent'[current[p]] = sent[current[p]] + 1
    BY <2>1, <2>2
  <2>6. sent'[current[p]] > 0
    <3> HIDE DEF SentBeforeCompleted
    <3> QED
      BY <2>4, <2>5
  <2> QED
    BY <1>0, <1>5, <2>3, <2>6 DEF PublishEvent
<1>6. ASSUME NEW p \in Processors, PublishFails(p) PROVE SentBeforeCompleted'
  <2>1. current[p] \in Events
    BY <1>6 DEF PublishFails
  <2>2. \A e \in Events : sent[e] > 0 => sent'[e] > 0
    BY <1>6, <2>1 DEF PublishFails, TakeOrNot, Take
  <2> QED
    BY <1>0, <1>6, <2>2 DEF PublishFails
<1>7. ASSUME NEW p \in Processors, MarkAsCompleted(p) PROVE SentBeforeCompleted'
  <2>1. CASE NextInBatch(p)
    BY <1>0, <1>7, <2>1 DEF MarkAsCompleted, NextInBatch
  <2>2. CASE LeaveBatch(p)
    BY <1>0, <1>7, <2>2 DEF MarkAsCompleted, LeaveBatch
  <2> QED
    BY <1>7, <2>1, <2>2 DEF MarkAsCompleted
<1>8. ASSUME NEW p \in Processors, MarkAsFailed(p) PROVE SentBeforeCompleted'
  <2>1. CASE NextInBatch(p)
    BY <1>0, <1>8, <2>1 DEF MarkAsFailed, NextInBatch
  <2>2. CASE LeaveBatch(p)
    BY <1>0, <1>8, <2>2 DEF MarkAsFailed, LeaveBatch
  <2> QED
    BY <1>8, <2>1, <2>2 DEF MarkAsFailed
<1>9. ASSUME NEW p \in Processors, MarkFails(p) \/ Crash(p)
      PROVE  SentBeforeCompleted'
  BY <1>0, <1>9 DEF MarkFails, Crash, LeaveBatch
<1>10. CASE UNCHANGED vars
  BY <1>10 DEF vars
<1> QED
  BY <1>1, <1>2, <1>3, <1>4, <1>5, <1>6, <1>7, <1>8, <1>9, <1>10 DEF Next

(* Whatever calls fail, however often the service is killed, and however   *)
(* many processors share the table: COMPLETED means sent.                  *)
THEOREM CompletedMeansSent == Spec => [](TypeOK /\ CompletedWasSent)
<1>1. Init => SentBeforeCompleted
  BY EventsAreNaturals
     DEF Init, SentBeforeCompleted, TypeOK, Publishing, CompletedWasSent
<1>2. SentBeforeCompleted => TypeOK /\ CompletedWasSent
  BY DEF SentBeforeCompleted
<1> QED
  BY <1>1, <1>2, SentStep, PTL DEF Spec

-----------------------------------------------------------------------------
(* Any number of processors: a row that one of them has fetched and not    *)
(* yet sent may have been sent, marked and reset by the others meanwhile.  *)
(* What is left is how often this processor itself has sent it, against    *)
(* the failures counted.                                                   *)
Unsent(p, e) ==
  e \in batch[p] /\ ~(e = current[p] /\ pc[p] \in {"published", "failing"})

CountedFor(p, e) ==
  /\ sent_by[p][e] <= retry_count[e] + 1
  /\ status[e] \in {"ABSENT", "PENDING", "FAILED"} => sent_by[p][e] <= retry_count[e]
  /\ Unsent(p, e) =>
       /\ sent_by[p][e] <= retry_count[e]
       /\ status[e] = "FAILED" => sent_by[p][e] < retry_count[e]
       /\ status[e] = "PENDING" /\ e = current[p] /\ pc[p] = "marked"
            => sent_by[p][e] < retry_count[e]

SendsInv ==
  /\ SentBeforeCompleted
  /\ \A p \in Processors : pc[p] \in Publishing => current[p] \in batch[p]
  /\ \A p \in Processors, e \in Events :
       /\ e \in batch[p] => status[e] # "ABSENT"
       /\ CountedFor(p, e)

(* The processors' batches hold rows that exist, the current one included. *)
LEMMA BatchExists ==
  ASSUME SendsInv, [Next]_vars
  PROVE  /\ \A p \in Processors : pc'[p] \in Publishing => current'[p] \in batch'[p]
         /\ \A p \in Processors, e \in Events : e \in batch'[p] => status'[e] # "ABSENT"
<1> DEFINE Exists == /\ \A p \in Processors : pc'[p] \in Publishing => current'[p] \in batch'[p]
                     /\ \A p \in Processors, e \in Events : e \in batch'[p] => status'[e] # "ABSENT"
<1> USE EventsAreNaturals DEF SendsInv, SentBeforeCompleted, TypeOK, Publishing
<1>1. ASSUME NEW e \in Events, AddEvent(e) PROVE Exists
  BY <1>1 DEF AddEvent
<1>2. ASSUME NEW p \in Processors, Start(p) PROVE Exists
  BY <1>2 DEF Start, ResetFailedEvents
<1>3. ASSUME NEW p \in Processors, NEW B \in SUBSET Events, GetPendingEvents(p, B) PROVE Exists
  BY <1>3 DEF GetPendingEvents, IsPendingBatch, Pending
<1>4. ASSUME NEW p \in Processors, NEW e \in Events, MarkAsProcessing(p, e) PROVE Exists
  BY <1>4 DEF MarkAsProcessing, Claimed, Oldest
<1>5. ASSUME NEW p \in Processors, PublishEvent(p) \/ PublishFails(p) PROVE Exists
  BY <1>5 DEF PublishEvent, PublishFails
<1>6. ASSUME NEW p \in Processors, MarkAsCompleted(p) \/ MarkAsFailed(p) PROVE Exists
  <2>1. CASE NextInBatch(p)
    BY <1>6, <2>1 DEF MarkAsCompleted, MarkAsFailed, NextInBatch
  <2>2. CASE LeaveBatch(p)
    BY <1>6, <2>2 DEF MarkAsCompleted, MarkAsFailed, LeaveBatch
  <2> QED
    BY <1>6, <2>1, <2>2 DEF MarkAsCompleted, MarkAsFailed
<1>7. ASSUME NEW p \in Processors, MarkFails(p) \/ Crash(p) PROVE Exists
  BY <1>7 DEF MarkFails, Crash, LeaveBatch
<1>8. CASE UNCHANGED vars
  BY <1>8 DEF vars
<1> QED
  BY <1>1, <1>2, <1>3, <1>4, <1>5, <1>6, <1>7, <1>8 DEF Next

(* Each step keeps the count, of the processor that takes it and of every  *)
(* other.                                                                  *)
LEMMA SendsStep ==
  ASSUME SendsInv, [Next]_vars, NEW p \in Processors, NEW e \in Events
  PROVE  CountedFor(p, e)'
<1> DEFINE Counted(st, n, k, unsent, marked) ==
      /\ n <= k + 1
      /\ st \in {"ABSENT", "PENDING", "FAILED"} => n <= k
      /\ unsent => /\ n <= k
                   /\ st = "FAILED" => n < k
                   /\ st = "PENDING" /\ marked => n < k
<1> DEFINE Marked == e = current[p] /\ pc[p] = "marked"
<1>1. /\ status[e] \in {"ABSENT", "PENDING", "PROCESSING", "COMPLETED", "FAILED"}
      /\ retry_count[e] \in Nat /\ sent_by[p][e] \in Nat
  BY DEF SendsInv, SentBeforeCompleted, TypeOK
<1>2. /\ Counted(status[e], sent_by[p][e], retry_count[e], Unsent(p, e), Marked)
      /\ Unsent(p, e) => status[e] # "ABSENT"
  BY DEF SendsInv, CountedFor, Unsent
<1>3. SUFFICES Counted(status'[e], sent_by'[p][e], retry_count'[e], Unsent(p, e)', Marked')
  BY DEF CountedFor, Unsent
<1>4. CASE /\ status'[e] = status[e] /\ retry_count'[e] = retry_count[e]
           /\ sent_by'[p][e] = sent_by[p][e]
           /\ Unsent(p, e)' => Unsent(p, e)
           /\ Unsent(p, e)' /\ Marked' => Marked
  BY <1>1, <1>2, <1>4
<1> USE EventsAreNaturals DEF SendsInv, SentBeforeCompleted, TypeOK
<1>5. ASSUME NEW f \in Events, AddEvent(f)
      PROVE  Counted(status'[e], sent_by'[p][e], retry_count'[e], Unsent(p, e)', Marked')
  <2>1. /\ Unsent(p, e)' => Unsent(p, e)
        /\ Marked' => Marked
        /\ sent_by' = sent_by /\ retry_count' = retry_count
        /\ status'[e] = status[e] \/ (status[e] = "ABSENT" /\ status'[e] = "PENDING")
    <3>1. (Unsent(p, e)' => Unsent(p, e)) /\ (Marked' => Marked)
      BY <1>5 DEF AddEvent, Unsent
    <3>2. /\ sent_by' = sent_by /\ retry_count' = retry_count
          /\ status'[e] = status[e] \/ (status[e] = "ABSENT" /\ status'[e] = "PENDING")
      BY <1>5 DEF AddEvent
    <3> QED
      BY <3>1, <3>2
  <2> HIDE DEF SendsInv
  <2> QED
    BY <1>1, <1>2, <2>1
<1>6. ASSUME NEW q \in Processors, Start(q)
      PROVE  Counted(status'[e], sent_by'[p][e], retry_count'[e], Unsent(p, e)', Marked')
  <2>1. /\ Unsent(p, e)' => Unsent(p, e)
        /\ Marked' => Marked
        /\ sent_by' = sent_by /\ retry_count' = retry_count
        /\ status'[e] = status[e] \/ (status[e] = "FAILED" /\ status'[e] = "PENDING")
    <3>1. (Unsent(p, e)' => Unsent(p, e)) /\ (Marked' => Marked)
      BY <1>6 DEF Start, Unsent
    <3>2. /\ sent_by' = sent_by /\ retry_count' = retry_count
          /\ status'[e] = status[e] \/ (status[e] = "FAILED" /\ status'[e] = "PENDING")
      BY <1>6 DEF Start, ResetFailedEvents
    <3> QED
      BY <3>1, <3>2
  <2> HIDE DEF SendsInv
  <2> QED
    BY <1>1, <1>2, <2>1
<1>7. ASSUME NEW q \in Processors, NEW B \in SUBSET Events, GetPendingEvents(q, B)
      PROVE  Counted(status'[e], sent_by'[p][e], retry_count'[e], Unsent(p, e)', Marked')
  <2>1. /\ status' = status /\ sent_by' = sent_by /\ retry_count' = retry_count
        /\ Unsent(p, e)' => Unsent(p, e) \/ status[e] = "PENDING"
        /\ Marked' => Marked
    BY <1>7 DEF GetPendingEvents, IsPendingBatch, Pending, Unsent
  <2>2. Unsent(p, e)' /\ Marked' => Unsent(p, e)
    BY <1>7 DEF GetPendingEvents, Unsent
  <2> HIDE DEF SendsInv
  <2> QED
    BY <1>1, <1>2, <2>1, <2>2
<1>8. ASSUME NEW q \in Processors, NEW f \in Events, MarkAsProcessing(q, f)
      PROVE  Counted(status'[e], sent_by'[p][e], retry_count'[e], Unsent(p, e)', Marked')
  <2>1. /\ sent_by' = sent_by /\ retry_count' = retry_count
        /\ status'[e] = status[e] \/ (status[e] = "PENDING" /\ status'[e] = "PROCESSING")
        /\ Unsent(p, e)' => Unsent(p, e)
    <3>1. Unsent(p, e)' => Unsent(p, e)
      BY <1>8 DEF MarkAsProcessing, Unsent
    <3>2. /\ sent_by' = sent_by /\ retry_count' = retry_count
          /\ status'[e] = status[e] \/ (status[e] = "PENDING" /\ status'[e] = "PROCESSING")
      BY <1>8 DEF MarkAsProcessing, Claimed
    <3> QED
      BY <3>1, <3>2
  <2>2. Marked' => Marked \/ status'[e] # "PENDING"
    BY <1>8 DEF MarkAsProcessing, Claimed
  <2> HIDE DEF SendsInv
  <2> QED
    BY <1>1, <1>2, <2>1, <2>2
<1>9. ASSUME NEW q \in Processors, PublishEvent(q) \/ PublishFails(q)
      PROVE  Counted(status'[e], sent_by'[p][e], retry_count'[e], Unsent(p, e)', Marked')
  <2>1. /\ status' = status /\ retry_count' = retry_count
        /\ Unsent(p, e)' => Unsent(p, e)
        /\ Marked' => Marked
    BY <1>9 DEF PublishEvent, PublishFails, Unsent
  <2>2. CASE p = q /\ e = current[p]
    <3>1. Unsent(p, e) /\ Marked /\ ~Unsent(p, e)'
      BY <1>9, <2>2 DEF PublishEvent, PublishFails, Unsent, Publishing
    <3>2. sent_by'[p][e] = sent_by[p][e] \/ sent_by'[p][e] = sent_by[p][e] + 1
      BY <1>9, <2>2 DEF PublishEvent, PublishFails, TakeOrNot, Take
    <3> HIDE DEF SendsInv
    <3> QED
      BY <1>1, <1>2, <2>1, <3>1, <3>2
  <2>3. CASE ~(p = q /\ e = current[p])
    <3>1. sent_by'[p][e] = sent_by[p][e]
      BY <1>9, <2>3 DEF PublishEvent, PublishFails, TakeOrNot, Take
    <3> QED
      BY <1>4, <2>1, <3>1
  <2> QED
    BY <2>2, <2>3
<1>10. ASSUME NEW q \in Processors, MarkAsCompleted(q)
       PROVE  Counted(status'[e], sent_by'[p][e], retry_count'[e], Unsent(p, e)', Marked')
  <2>1. /\ sent_by' = sent_by /\ retry_count' = retry_count
        /\ status'[e] = status[e] \/ status'[e] = "COMPLETED"
    BY <1>10 DEF MarkAsCompleted
  <2>2. (Unsent(p, e)' => Unsent(p, e)) /\ (Marked' => Marked)
    <3>1. CASE NextInBatch(q)
      BY <1>10, <3>1 DEF MarkAsCompleted, NextInBatch, Unsent
    <3>2. CASE LeaveBatch(q)
      BY <1>10, <3>2 DEF MarkAsCompleted, LeaveBatch, Unsent
    <3> QED
      BY <1>10, <3>1, <3>2 DEF MarkAsCompleted
  <2> HIDE DEF SendsInv
  <2> QED
    BY <1>1, <1>2, <2>1, <2>2
<1>11. ASSUME NEW q \in Processors, MarkAsFailed(q)
       PROVE  Counted(status'[e], sent_by'[p][e], retry_count'[e], Unsent(p, e)', Marked')
  <2>1. /\ sent_by' = sent_by
        /\ \/ status'[e] = status[e] /\ retry_count'[e] = retry_count[e]
           \/ status'[e] = "FAILED" /\ retry_count'[e] = retry_count[e] + 1
    BY <1>11 DEF MarkAsFailed
  <2>2. (Unsent(p, e)' => Unsent(p, e)) /\ (Marked' => Marked)
    <3>1. CASE NextInBatch(q)
      BY <1>11, <3>1 DEF MarkAsFailed, NextInBatch, Unsent
    <3>2. CASE LeaveBatch(q)
      BY <1>11, <3>2 DEF MarkAsFailed, LeaveBatch, Unsent
    <3> QED
      BY <1>11, <3>1, <3>2 DEF MarkAsFailed
  <2> HIDE DEF SendsInv
  <2> QED
    BY <1>1, <1>2, <2>1, <2>2
<1>12. ASSUME NEW q \in Processors, MarkFails(q) \/ Crash(q)
       PROVE  Counted(status'[e], sent_by'[p][e], retry_count'[e], Unsent(p, e)', Marked')
  <2>1. /\ status' = status /\ retry_count' = retry_count /\ sent_by' = sent_by
        /\ Unsent(p, e)' => Unsent(p, e)
        /\ Marked' => Marked
    BY <1>12 DEF MarkFails, Crash, LeaveBatch, Unsent
  <2> QED
    BY <1>4, <2>1
<1>13. CASE UNCHANGED vars
  BY <1>4, <1>13 DEF vars, Unsent
<1> QED
  BY <1>5, <1>6, <1>7, <1>8, <1>9, <1>10, <1>11, <1>12, <1>13 DEF Next

(* The count is kept throughout.                                           *)
LEMMA SendsInvariance == Spec => []SendsInv
<1>1. Init => SendsInv
  BY EventsAreNaturals
     DEF Init, SendsInv, SentBeforeCompleted, TypeOK, Publishing, CompletedWasSent,
         CountedFor, Unsent
<1>2. SendsInv /\ [Next]_vars => SendsInv'
  <2> SUFFICES ASSUME SendsInv, [Next]_vars PROVE SendsInv'
    OBVIOUS
  <2>1. SentBeforeCompleted'
    BY SentStep DEF SendsInv
  <2>2. \A p \in Processors, e \in Events : CountedFor(p, e)'
    BY SendsStep
  <2> QED
    BY <2>1, <2>2, BatchExists DEF SendsInv
<1> QED
  BY <1>1, <1>2, PTL DEF Spec

(* However many processors share the table, each sends a row once, and     *)
(* once more for every failure that was counted.                           *)
THEOREM SendsCounted == Spec => []SendsAreCounted
<1>1. SendsInv => SendsAreCounted
  BY DEF SendsInv, CountedFor, SendsAreCounted
<1> QED
  BY <1>1, SendsInvariance, PTL

-----------------------------------------------------------------------------
(* One processor: the rows it fetched stay PENDING until it comes to them, *)
(* and each row's counters agree with its status.                          *)
LEMMA BatchStep ==
  ASSUME OneProcessor, IInv, [Next]_vars PROVE BatchIsFresh'
<1> USE EventsAreNaturals
    DEF OneProcessor, IInv, SentBeforeCompleted, TypeOK, BatchIsFresh, Publishing
<1>1. ASSUME NEW e \in Events, AddEvent(e)
      PROVE  BatchIsFresh'
  BY <1>1 DEF AddEvent
<1>2. ASSUME NEW p \in Processors, Start(p)
      PROVE  BatchIsFresh'
  BY <1>2 DEF Start, ResetFailedEvents
<1>3. ASSUME NEW p \in Processors, NEW B \in SUBSET Events, GetPendingEvents(p, B)
      PROVE  BatchIsFresh'
  BY <1>3 DEF GetPendingEvents, IsPendingBatch, Pending
<1>4. ASSUME NEW p \in Processors, NEW e \in Events, MarkAsProcessing(p, e)
      PROVE  BatchIsFresh'
  <2>1. e \in batch[p] /\ status[e] = "PENDING"
    BY <1>4 DEF MarkAsProcessing, Oldest
  <2>2. sent[e] <= retry_count[e]
    BY <2>1 DEF RowsCounted, RowIsCounted
  <2>3. /\ pc'[p] \in {"marked", "failing"} /\ current'[p] = e
        /\ batch'[p] = batch[p] /\ sent' = sent /\ retry_count' = retry_count
    BY <1>4 DEF MarkAsProcessing
  <2>4. /\ status'[e] \in {"PENDING", "PROCESSING"}
        /\ pc'[p] = "marked" => status'[e] = "PROCESSING"
    BY <1>4, <2>1 DEF MarkAsProcessing, Claimed
  <2>5. \A f \in batch[p] : f # e => status'[f] = "PENDING"
    BY <1>4 DEF MarkAsProcessing, Claimed
  <2>6. \A q \in Processors : q = p
    OBVIOUS
  <2> QED
    <3> HIDE DEF IInv, OneProcessor
    <3> QED
      BY <2>2, <2>3, <2>4, <2>5, <2>6
<1>5. ASSUME NEW p \in Processors, PublishEvent(p)
      PROVE  BatchIsFresh'
  BY <1>5 DEF PublishEvent
<1>6. ASSUME NEW p \in Processors, PublishFails(p)
      PROVE  BatchIsFresh'
  BY <1>6 DEF PublishFails
<1>7. ASSUME NEW p \in Processors, MarkAsCompleted(p)
      PROVE  BatchIsFresh'
  <2>1. CASE NextInBatch(p)
    BY <1>7, <2>1 DEF MarkAsCompleted, NextInBatch
  <2>2. CASE LeaveBatch(p)
    BY <1>7, <2>2 DEF MarkAsCompleted, LeaveBatch
  <2> QED
    BY <1>7, <2>1, <2>2 DEF MarkAsCompleted
<1>8. ASSUME NEW p \in Processors, MarkAsFailed(p)
      PROVE  BatchIsFresh'
  <2>1. CASE NextInBatch(p)
    BY <1>8, <2>1 DEF MarkAsFailed, NextInBatch
  <2>2. CASE LeaveBatch(p)
    BY <1>8, <2>2 DEF MarkAsFailed, LeaveBatch
  <2> QED
    BY <1>8, <2>1, <2>2 DEF MarkAsFailed
<1>9. ASSUME NEW p \in Processors, MarkFails(p)
      PROVE  BatchIsFresh'
  BY <1>9 DEF MarkFails, LeaveBatch
<1>10. ASSUME NEW p \in Processors, Crash(p)
      PROVE  BatchIsFresh'
  BY <1>10 DEF Crash
<1>11. CASE UNCHANGED vars
  BY <1>11 DEF vars
<1> QED
  BY <1>1, <1>2, <1>3, <1>4, <1>5, <1>6, <1>7, <1>8, <1>9, <1>10, <1>11 DEF Next

(* No step makes a row's sendings and its counters disagree.               *)
LEMMA CountStep ==
  ASSUME OneProcessor, IInv, [Next]_vars PROVE RowsCounted'
<1> SUFFICES ASSUME NEW e \in Events PROVE RowIsCounted(e)'
  BY DEF RowsCounted
<1> DEFINE IsCounted(s, n, k) ==
      /\ s = "ABSENT" => n = 0 /\ k = 0
      /\ s \in {"PENDING", "FAILED"} => n <= k
      /\ s \in {"PROCESSING", "COMPLETED"} => n <= k + 1
      /\ s = "FAILED" => k <= MaxRetries
      /\ s # "FAILED" => k < MaxRetries
<1>1. /\ status[e] \in {"ABSENT", "PENDING", "PROCESSING", "COMPLETED", "FAILED"}
      /\ retry_count[e] \in Nat /\ sent[e] \in Nat /\ MaxRetries \in Nat \ {0}
  BY MaxRetriesPositive DEF IInv, SentBeforeCompleted, TypeOK
<1>2. IsCounted(status[e], sent[e], retry_count[e])
  BY DEF IInv, RowsCounted, RowIsCounted
<1>3. SUFFICES IsCounted(status'[e], sent'[e], retry_count'[e])
  BY DEF RowIsCounted
<1>4. CASE /\ status'[e] = status[e]
           /\ sent'[e] = sent[e]
           /\ retry_count'[e] = retry_count[e]
  BY <1>2, <1>4
<1>5. ASSUME NEW f \in Events, AddEvent(f)
      PROVE  IsCounted(status'[e], sent'[e], retry_count'[e])
  <2>1. CASE f = e
    <3>1. /\ status[e] = "ABSENT" /\ status'[e] = "PENDING"
          /\ sent'[e] = sent[e] /\ retry_count'[e] = retry_count[e]
      BY <1>5, <2>1 DEF AddEvent,
       IInv, SentBeforeCompleted, TypeOK
    <3> QED
      BY <1>1, <1>2, <3>1
  <2>2. CASE f # e
    BY <1>4, <1>5, <2>2 DEF AddEvent,
       IInv, SentBeforeCompleted, TypeOK
  <2> QED
    BY <2>1, <2>2
<1>6. ASSUME NEW p \in Processors, Start(p)
      PROVE  IsCounted(status'[e], sent'[e], retry_count'[e])
  <2>1. /\ sent'[e] = sent[e] /\ retry_count'[e] = retry_count[e]
        /\ \/ status'[e] = status[e]
           \/ /\ status[e] = "FAILED" /\ retry_count[e] < MaxRetries
              /\ status'[e] = "PENDING"
    BY <1>6 DEF Start, ResetFailedEvents,
       IInv, SentBeforeCompleted, TypeOK
  <2> QED
    BY <1>1, <1>2, <2>1
<1>7. ASSUME NEW p \in Processors, NEW f \in Events, MarkAsProcessing(p, f)
      PROVE  IsCounted(status'[e], sent'[e], retry_count'[e])
  <2>1. /\ sent'[e] = sent[e] /\ retry_count'[e] = retry_count[e]
        /\ \/ status'[e] = status[e]
           \/ status[e] = "PENDING" /\ status'[e] = "PROCESSING"
    BY <1>7 DEF MarkAsProcessing, Claimed,
       IInv, SentBeforeCompleted, TypeOK
  <2> QED
    BY <1>1, <1>2, <2>1
<1>8. ASSUME NEW p \in Processors, PublishEvent(p) \/ PublishFails(p)
      PROVE  IsCounted(status'[e], sent'[e], retry_count'[e])
  <2>1. /\ status'[e] = status[e] /\ retry_count'[e] = retry_count[e]
        /\ \/ sent'[e] = sent[e]
           \/ /\ e = current[p] /\ sent'[e] = sent[e] + 1
    BY <1>8 DEF PublishEvent, PublishFails, TakeOrNot, Take, Publishing,
       IInv, SentBeforeCompleted, TypeOK
  <2>2. e = current[p] => status[e] = "PROCESSING" /\ sent[e] <= retry_count[e]
    BY <1>8 DEF PublishEvent, PublishFails, BatchIsFresh,
       IInv, SentBeforeCompleted, TypeOK
  <2> QED
    BY <1>1, <1>2, <2>1, <2>2
<1>9. ASSUME NEW p \in Processors, MarkAsCompleted(p)
      PROVE  IsCounted(status'[e], sent'[e], retry_count'[e])
  <2>1. /\ sent'[e] = sent[e] /\ retry_count'[e] = retry_count[e]
        /\ \/ status'[e] = status[e]
           \/ status[e] = "PROCESSING" /\ status'[e] = "COMPLETED"
    BY <1>9 DEF MarkAsCompleted, BatchIsFresh,
       IInv, SentBeforeCompleted, TypeOK
  <2> QED
    BY <1>1, <1>2, <2>1
<1>10. ASSUME NEW p \in Processors, MarkAsFailed(p)
       PROVE  IsCounted(status'[e], sent'[e], retry_count'[e])
  <2>1. CASE e = current[p]
    <3>1. status[e] \in {"PENDING", "PROCESSING"}
      BY <1>10, <2>1 DEF MarkAsFailed, BatchIsFresh,
       IInv, SentBeforeCompleted, TypeOK
    <3>2. /\ sent'[e] = sent[e] /\ retry_count'[e] = retry_count[e] + 1
          /\ status'[e] = "FAILED"
      BY <1>10, <2>1 DEF MarkAsFailed,
       IInv, SentBeforeCompleted, TypeOK
    <3> QED
      BY <1>1, <1>2, <3>1, <3>2
  <2>2. CASE e # current[p]
    BY <1>4, <1>10, <2>2 DEF MarkAsFailed,
       IInv, SentBeforeCompleted, TypeOK
  <2> QED
    BY <2>1, <2>2
<1>11. CASE \/ \E p \in Processors, B \in SUBSET Events : GetPendingEvents(p, B)
            \/ \E p \in Processors : MarkFails(p) \/ Crash(p)
            \/ UNCHANGED vars
  BY <1>4, <1>11 DEF GetPendingEvents, MarkFails, Crash, vars
<1> QED
  BY <1>5, <1>6, <1>7, <1>8, <1>9, <1>10, <1>11 DEF Next

-----------------------------------------------------------------------------
(* With one processor the invariant holds in every reachable state.        *)
LEMMA IInvInit == Init => IInv
  BY EventsAreNaturals, MaxRetriesPositive
     DEF Init, IInv, SentBeforeCompleted, TypeOK, CompletedWasSent,
         BatchIsFresh, RowsCounted, RowIsCounted, Publishing

(* No step of the relay breaks the invariant.                              *)
LEMMA IInvStep == ASSUME OneProcessor, IInv, [Next]_vars PROVE IInv'
  BY SentStep, BatchStep, CountStep DEF IInv

(* With one processor the invariant holds throughout.                      *)
LEMMA Invariance == ASSUME OneProcessor PROVE Spec => []IInv
  BY IInvInit, IInvStep, PTL DEF Spec

(* reset_failed_events is a limit on the retries: no row is tried again    *)
(* after MaxRetries failures.                                              *)
THEOREM RetriesAreBounded == ASSUME OneProcessor PROVE Spec => []RetriesBounded
<1>1. IInv => RetriesBounded
  <2> SUFFICES ASSUME IInv, NEW e \in Events
               PROVE  /\ retry_count[e] <= MaxRetries
                      /\ retry_count[e] = MaxRetries => status[e] = "FAILED"
    BY DEF RetriesBounded
  <2>1. retry_count[e] \in Nat /\ MaxRetries \in Nat
    BY MaxRetriesPositive DEF IInv, SentBeforeCompleted, TypeOK
  <2>2. RowIsCounted(e)
    BY DEF IInv, RowsCounted
  <2> QED
    BY <2>1, <2>2 DEF RowIsCounted
<1> QED
  BY <1>1, Invariance, PTL

(* Redis gets a row again only after a failure that was counted.           *)
THEOREM DuplicatesCounted == ASSUME OneProcessor PROVE Spec => []DuplicatesAreCounted
<1>1. IInv => DuplicatesAreCounted
  <2> SUFFICES ASSUME IInv, NEW e \in Events PROVE sent[e] <= retry_count[e] + 1
    BY DEF DuplicatesAreCounted
  <2>1. retry_count[e] \in Nat /\ sent[e] \in Nat
        /\ status[e] \in {"ABSENT", "PENDING", "PROCESSING", "COMPLETED", "FAILED"}
    BY DEF IInv, SentBeforeCompleted, TypeOK
  <2>2. RowIsCounted(e)
    BY DEF IInv, RowsCounted
  <2> QED
    BY <2>1, <2>2 DEF RowIsCounted
<1> QED
  BY <1>1, Invariance, PTL

(* COMPLETED, and FAILED with the retries spent, are final.                *)
THEOREM OutcomesAreFinal == ASSUME OneProcessor PROVE Spec => OutcomeIsFinal
<1>1. ASSUME IInv, [Next]_vars, NEW e \in Events,
             \/ status[e] = "COMPLETED"
             \/ status[e] = "FAILED" /\ retry_count[e] >= MaxRetries
      PROVE  status'[e] = status[e]
  <2>1. retry_count[e] \in Nat /\ MaxRetries \in Nat
    BY <1>1, MaxRetriesPositive DEF IInv, SentBeforeCompleted, TypeOK
  <2>2. ASSUME NEW p \in Processors, Start(p) PROVE status'[e] = status[e]
    BY <1>1, <2>1, <2>2 DEF Start, ResetFailedEvents, IInv,
       SentBeforeCompleted, TypeOK
  <2>3. ASSUME NEW p \in Processors, MarkAsCompleted(p) \/ MarkAsFailed(p)
        PROVE  status'[e] = status[e]
    BY <1>1, <2>3 DEF MarkAsCompleted, MarkAsFailed, IInv, BatchIsFresh,
       SentBeforeCompleted, TypeOK
  <2>4. ASSUME NEW p \in Processors, NEW f \in Events, MarkAsProcessing(p, f)
        PROVE  status'[e] = status[e]
    BY <1>1, <2>4 DEF MarkAsProcessing, Claimed, IInv, SentBeforeCompleted, TypeOK
  <2>5. ASSUME NEW f \in Events, AddEvent(f) PROVE status'[e] = status[e]
    BY <1>1, <2>5 DEF AddEvent, IInv, SentBeforeCompleted, TypeOK
  <2> QED
    BY <1>1, <2>2, <2>3, <2>4, <2>5
       DEF Next, vars, GetPendingEvents, PublishEvent, PublishFails, MarkFails, Crash
<1>2. IInv /\ [Next]_vars =>
        [\A e \in Events :
           \/ status[e] = "COMPLETED"
           \/ status[e] = "FAILED" /\ retry_count[e] >= MaxRetries
           => status'[e] = status[e]]_vars
  BY <1>1
<1> QED
  BY <1>2, Invariance, PTL DEF Spec, OutcomeIsFinal

-----------------------------------------------------------------------------
(* The refinement mapping, one row at a time.                              *)
LEMMA PhaseOfStatus ==
  ASSUME IInv, NEW e \in Events
  PROVE  /\ status[e] = "ABSENT" => PhaseOf(e) = "none"
         /\ status[e] = "PENDING" => PhaseOf(e) = "waiting"
         /\ status[e] = "PROCESSING" => PhaseOf(e) = "claimed"
         /\ status[e] = "COMPLETED" => PhaseOf(e) = "done"
         /\ status[e] = "FAILED" =>
              PhaseOf(e) = IF retry_count[e] < MaxRetries THEN "waiting" ELSE "dead"
  BY DEF PhaseOf

Phase == [e \in Events |-> PhaseOf(e)]

(* A step that touches no row's phase, counters and sendings stutters.     *)
LEMMA PhaseKept ==
  ASSUME \A e \in Events : PhaseOf(e)' = PhaseOf(e)
  PROVE  Phase' = Phase
  BY DEF Phase

(* A step that touches one row's phase updates the mapping there.          *)
LEMMA PhaseSet ==
  ASSUME NEW e \in Events, NEW v, PhaseOf(e)' = v,
         \A f \in Events \ {e} : PhaseOf(f)' = PhaseOf(f)
  PROVE  Phase' = [Phase EXCEPT ![e] = v]
  BY DEF Phase

(* Every step of the relay is a step of the outbox's promise, or none.     *)
LEMMA DeliveryStep ==
  ASSUME OneProcessor, IInv, [Next]_vars
  PROVE  [Delivery!Next]_(Delivery!vars)
<1> DEFINE Stutters == Phase' = Phase /\ UNCHANGED <<retry_count, sent>>
<1>1. Stutters => UNCHANGED Delivery!vars
  BY DEF Phase, Delivery!vars
<1>2. /\ status \in [Events -> {"ABSENT", "PENDING", "PROCESSING", "COMPLETED", "FAILED"}]
      /\ retry_count \in [Events -> Nat] /\ sent \in [Events -> Nat]
      /\ MaxRetries \in Nat \ {0}
  BY MaxRetriesPositive DEF IInv, SentBeforeCompleted, TypeOK
<1>3. ASSUME NEW e \in Events, AddEvent(e) PROVE Delivery!Submit(e)
  <2>1. PhaseOf(e) = "none" /\ PhaseOf(e)' = "waiting"
    BY <1>2, <1>3 DEF AddEvent, PhaseOf
  <2>2. \A f \in Events \ {e} : PhaseOf(f)' = PhaseOf(f)
    BY <1>2, <1>3 DEF AddEvent, PhaseOf
  <2>3. Phase' = [Phase EXCEPT ![e] = "waiting"]
    BY <2>1, <2>2, PhaseSet
  <2> QED
    BY <1>3, <2>1, <2>3 DEF AddEvent, Phase, Delivery!Submit
<1>4. ASSUME NEW p \in Processors, Start(p) PROVE Stutters
  <2>1. \A e \in Events : PhaseOf(e)' = PhaseOf(e)
    BY <1>2, <1>4 DEF Start, ResetFailedEvents, PhaseOf
  <2> QED
    BY <1>4, <2>1, PhaseKept DEF Start
<1>5. ASSUME NEW p \in Processors, NEW e \in Events, MarkAsProcessing(p, e)
      PROVE  Stutters \/ Delivery!Claim(e)
  <2>1. CASE status' = status
    <3>1. \A f \in Events : PhaseOf(f)' = PhaseOf(f)
      BY <1>5, <2>1 DEF MarkAsProcessing, PhaseOf
    <3> QED
      BY <1>5, <3>1, PhaseKept DEF MarkAsProcessing
  <2>2. CASE status' # status
    <3>1. status[e] = "PENDING" /\ status' = [status EXCEPT ![e] = "PROCESSING"]
      BY <1>2, <1>5, <2>2 DEF MarkAsProcessing, Claimed
    <3>2. PhaseOf(e) = "waiting" /\ PhaseOf(e)' = "claimed"
      BY <1>2, <3>1 DEF PhaseOf
    <3>3. \A f \in Events \ {e} : PhaseOf(f)' = PhaseOf(f)
      BY <1>2, <1>5, <3>1 DEF MarkAsProcessing, PhaseOf
    <3>4. Phase' = [Phase EXCEPT ![e] = "claimed"]
      BY <3>2, <3>3, PhaseSet
    <3> QED
      BY <1>5, <3>2, <3>4 DEF MarkAsProcessing, Phase, Delivery!Claim
  <2> QED
    BY <2>1, <2>2
<1>6. ASSUME NEW p \in Processors, PublishEvent(p) \/ PublishFails(p)
      PROVE  Stutters \/ \E e \in Events : Delivery!Send(e)
  <2>1. /\ current[p] \in Events
        /\ status[current[p]] = "PROCESSING"
        /\ sent[current[p]] <= retry_count[current[p]]
    BY <1>6 DEF PublishEvent, PublishFails, IInv, SentBeforeCompleted,
       BatchIsFresh, Publishing
  <2>2. Phase' = Phase /\ retry_count' = retry_count
    BY <1>6, PhaseKept DEF PublishEvent, PublishFails, PhaseOf
  <2>3. PhaseOf(current[p]) = "claimed"
    BY <2>1 DEF PhaseOf
  <2>4. sent' = sent \/ sent' = [sent EXCEPT ![current[p]] = @ + 1]
    BY <1>6 DEF PublishEvent, PublishFails, TakeOrNot, Take
  <2>5. CASE sent' = sent
    BY <2>2, <2>5
  <2>6. CASE sent' = [sent EXCEPT ![current[p]] = @ + 1]
    <3>1. Delivery!Send(current[p])
      BY <2>1, <2>2, <2>3, <2>6 DEF Phase, Delivery!Send
    <3> QED
      BY <2>1, <3>1
  <2> QED
    BY <2>4, <2>5, <2>6
<1>7. ASSUME NEW p \in Processors, MarkAsCompleted(p)
      PROVE  \E e \in Events : Delivery!Finish(e)
  <2>0. PICK e \in Events : e = current[p]
    BY <1>7 DEF MarkAsCompleted, IInv, SentBeforeCompleted, Publishing
  <2>1. /\ status[e] = "PROCESSING" /\ sent[e] > 0
        /\ status' = [status EXCEPT ![e] = "COMPLETED"]
        /\ UNCHANGED <<retry_count, sent>>
    BY <1>7, <2>0 DEF MarkAsCompleted, IInv, SentBeforeCompleted, BatchIsFresh
  <2>2. PhaseOf(e) = "claimed" /\ PhaseOf(e)' = "done"
    BY <1>2, <2>1 DEF PhaseOf
  <2>3. \A f \in Events \ {e} : PhaseOf(f)' = PhaseOf(f)
    BY <1>2, <2>1 DEF PhaseOf
  <2>4. Phase' = [Phase EXCEPT ![e] = "done"]
    BY <2>1, <2>2, <2>3, PhaseSet
  <2>5. Delivery!Finish(e)
    BY <2>1, <2>2, <2>4 DEF Phase, Delivery!Finish
  <2> QED
    BY <2>5
<1>8. ASSUME NEW p \in Processors, MarkAsFailed(p)
      PROVE  \E e \in Events : Delivery!Fail(e)
  <2>0. PICK e \in Events : e = current[p]
    BY <1>8 DEF MarkAsFailed, IInv, SentBeforeCompleted, Publishing
  <2>1. /\ status[e] \in {"PENDING", "PROCESSING"}
        /\ status' = [status EXCEPT ![e] = "FAILED"]
        /\ retry_count' = [retry_count EXCEPT ![e] = @ + 1]
        /\ sent' = sent
    BY <1>8, <2>0 DEF MarkAsFailed, IInv, SentBeforeCompleted, BatchIsFresh
  <2>2. retry_count[e] < MaxRetries
    BY <2>1 DEF IInv, RowsCounted, RowIsCounted
  <2>3. /\ PhaseOf(e) \in {"waiting", "claimed"}
        /\ PhaseOf(e)' = IF retry_count[e] + 1 < MaxRetries THEN "waiting" ELSE "dead"
    BY <1>2, <2>1 DEF PhaseOf
  <2>4. \A f \in Events \ {e} : PhaseOf(f)' = PhaseOf(f)
    BY <1>2, <2>1 DEF PhaseOf
  <2>5. Phase' = [Phase EXCEPT ![e] = IF retry_count[e] + 1 < MaxRetries
                                      THEN "waiting" ELSE "dead"]
    BY <2>1, <2>3, <2>4 DEF Phase
  <2>6. Delivery!Fail(e)
    BY <2>1, <2>2, <2>3, <2>5 DEF Phase, Delivery!Fail
  <2> QED
    BY <2>6
<1>9. ASSUME \/ \E p \in Processors, B \in SUBSET Events : GetPendingEvents(p, B)
             \/ \E p \in Processors : MarkFails(p) \/ Crash(p)
             \/ UNCHANGED vars
      PROVE  Stutters
  <2>1. UNCHANGED <<status, retry_count, sent>>
    BY <1>9 DEF GetPendingEvents, MarkFails, Crash, vars
  <2> QED
    BY <2>1, PhaseKept DEF PhaseOf
<1> QED
  BY <1>1, <1>3, <1>4, <1>5, <1>6, <1>7, <1>8, <1>9 DEF Next, Delivery!Next

(* The relay keeps the promise of the outbox, for any rows, retry limit    *)
(* and batch size.                                                         *)
THEOREM RelayImplementsDelivery == ASSUME OneProcessor PROVE Spec => ImplementsDelivery
<1>1. Init => Delivery!Init
  BY DEF Init, Delivery!Init, PhaseOf
<1> QED
  BY <1>1, DeliveryStep, Invariance, PTL DEF Spec, ImplementsDelivery, Delivery!Spec

-----------------------------------------------------------------------------
(* A handler's call is a record of six fields, and names the transaction   *)
(* that it is inserting.                                                   *)
InsertsNamed ==
  /\ call = [h \in Handlers |-> call[h]]
  /\ \A h \in Handlers :
       /\ DOMAIN call[h] = {"pc", "ext", "txn", "to", "from", "data"}
       /\ T!HoldsInsert(h) => call[h].txn \in Events

(* What the steps of the relay leave alone.                                *)
LEMMA RelayKeepsCalls ==
  ASSUME NEW i \in Processors, RelayStep(i) PROVE UNCHANGED call
  BY DEF RelayStep, transactionVars

(* A handler that is inserting names its event, whatever the step.         *)
LEMMA InsertsNamedStep == ASSUME InsertsNamed, [PipelineNext]_pipelineVars PROVE InsertsNamed'
<1> USE DEF InsertsNamed, T!HoldsInsert, T!At, T!Goto, T!Return, T!Idle
<1>1. ASSUME NEW h \in Handlers, CommitCreate(h) \/ T!Proceed(h) PROVE InsertsNamed'
  <2>1. ASSUME NEW t \in Events, T!InsertTransaction(h, t) PROVE InsertsNamed'
    BY <2>1 DEF T!InsertTransaction
  <2>2. CASE T!RefuseDuplicate(h)
    BY <2>2 DEF T!RefuseDuplicate
  <2>3. CASE T!AddOutboxEvent(h)
    BY <2>3 DEF T!AddOutboxEvent
  <2>4. CASE T!CommitCreate(h)
    BY <2>4 DEF T!CommitCreate
  <2>5. CASE T!SetIdempotencyLock(h)
    BY <2>5 DEF T!SetIdempotencyLock
  <2>6. CASE T!EmitCreated(h) \/ T!EmitStateChange(h)
    BY <2>6 DEF T!EmitCreated, T!EmitStateChange
  <2>7. CASE T!UpdateTransactionState(h) \/ T!RereadTransaction(h)
    BY <2>7 DEF T!UpdateTransactionState, T!RereadTransaction
  <2> QED
    BY <1>1, <2>1, <2>2, <2>3, <2>4, <2>5, <2>6, <2>7 DEF CommitCreate, T!Proceed
<1>2. ASSUME NEW h \in Handlers, HandlerStep(h) PROVE InsertsNamed'
  <2>1. CASE T!Interrupt({h})
    BY <2>1 DEF T!Interrupt, T!CutOff
  <2>2. ASSUME NEW x \in ExternalIds, T!CheckIdempotency(h, x) PROVE InsertsNamed'
    BY <2>2 DEF T!CheckIdempotency
  <2>3. ASSUME NEW t \in Events, NEW s \in T!Terminal, T!ReadTransaction(h, t, s)
        PROVE  InsertsNamed'
    BY <2>3 DEF T!ReadTransaction
  <2> QED
    BY <1>2, <2>1, <2>2, <2>3 DEF HandlerStep
<1>3. ASSUME NEW i \in Processors, StopInstance(i) PROVE InsertsNamed'
  BY <1>3 DEF StopInstance, Inside, transactionVars, T!Interrupt, T!CutOff
<1>4. ASSUME NEW i \in Processors, RelayStep(i) PROVE InsertsNamed'
  BY <1>4, RelayKeepsCalls
<1>5. ASSUME NEW x \in ExternalIds, ExpireKey(x) PROVE InsertsNamed'
  BY <1>5 DEF ExpireKey, T!ExpireKey
<1>6. CASE UNCHANGED pipelineVars
  BY <1>6 DEF pipelineVars, transactionVars
<1> HIDE DEF InsertsNamed
<1> QED
  BY <1>1, <1>2, <1>3, <1>4, <1>5, <1>6 DEF PipelineNext, Proceed

(* Every step is one of the relay, or does not concern it.                 *)
LEMMA StepIsRelayStep ==
  ASSUME InsertsNamed, [PipelineNext]_pipelineVars PROVE [Next]_vars
<1>1. ASSUME NEW h \in Handlers, CommitCreate(h) PROVE Next
  BY <1>1 DEF InsertsNamed, CommitCreate, T!At, T!HoldsInsert, Next
<1>2. ASSUME NEW i \in Processors, RelayStep(i) PROVE Next
  BY <1>2 DEF RelayStep, Next
<1>3. ASSUME NEW i \in Processors, StopInstance(i) PROVE Next
  BY <1>3 DEF StopInstance, Next
<1>4. CASE UNCHANGED pipelineVars
  BY <1>4 DEF pipelineVars
<1> QED
  BY <1>1, <1>2, <1>3, <1>4 DEF PipelineNext, Proceed, HandlerStep, ExpireKey

(* Every behaviour of the pipeline is one of the relay.                    *)
LEMMA PipelineIsRelay == PipelineSpec => Spec
<1>1. PipelineInit => Init /\ InsertsNamed
  BY DEF PipelineInit, T!Init, InsertsNamed, T!Idle, T!HoldsInsert
<1> QED
  BY <1>1, InsertsNamedStep, StepIsRelayStep, PTL DEF PipelineSpec, Spec

-----------------------------------------------------------------------------
(* In the whole processor, too, COMPLETED means sent, and no instance      *)
(* sends an event more often than once plus its counted failures.          *)
THEOREM PipelineSendings == PipelineSpec => [](CompletedWasSent /\ SendsAreCounted)
  BY CompletedMeansSent, SendsCounted, PipelineIsRelay, PTL

(* One instance: no transaction's row is tried more often than MaxRetries. *)
THEOREM PipelineRetries == ASSUME OneProcessor PROVE PipelineSpec => []RetriesBounded
  BY RetriesAreBounded, PipelineIsRelay, PTL

(* One instance: every sending after the first follows a counted failure.  *)
THEOREM PipelineDuplicates ==
  ASSUME OneProcessor PROVE PipelineSpec => []DuplicatesAreCounted
  BY DuplicatesCounted, PipelineIsRelay, PTL

(* One instance: a recorded outcome never changes, whatever the handlers   *)
(* do to the transaction afterwards.                                       *)
THEOREM PipelineOutcomes == ASSUME OneProcessor PROVE PipelineSpec => OutcomeIsFinal
  BY OutcomesAreFinal, PipelineIsRelay, PTL

(* One instance: creating transactions and relaying their events is what   *)
(* EventDelivery promises.                                                 *)
THEOREM PipelineImplementsDelivery ==
  ASSUME OneProcessor PROVE PipelineSpec => ImplementsDelivery
  BY RelayImplementsDelivery, PipelineIsRelay, PTL

-----------------------------------------------------------------------------
(***************************************************************************)
(* What the relay does leaves the service alone: a row in the outbox stays *)
(* there, and the relay makes none.  Every behaviour of the pipeline is    *)
(* thus one of PaymentTransactions, too, and the theorems about it hold of *)
(* the pipeline, for any number of instances.                              *)
(***************************************************************************)
S == INSTANCE PaymentTransactionsProofs WITH TxnIds <- Events

(* A step of a relay changes the rows of the outbox, never which there are. *)
LEMMA RelayKeepsRows ==
  ASSUME SendsInv, NEW i \in Processors, RelayStep(i)
  PROVE  UNCHANGED outbox_events
<1> USE EventsAreNaturals DEF SendsInv, SentBeforeCompleted, TypeOK, Publishing
<1>1. SUFFICES \A e \in Events : status[e] = "ABSENT" <=> status'[e] = "ABSENT"
  BY DEF outbox_events
<1>2. CASE Start(i)
  BY <1>2 DEF Start, ResetFailedEvents
<1>3. ASSUME NEW e \in Events, MarkAsProcessing(i, e)
      PROVE  \A f \in Events : status[f] = "ABSENT" <=> status'[f] = "ABSENT"
  BY <1>3 DEF MarkAsProcessing, Claimed
<1>4. CASE MarkAsCompleted(i)
  BY <1>4 DEF MarkAsCompleted
<1>5. CASE MarkAsFailed(i)
  BY <1>5 DEF MarkAsFailed
<1>6. CASE \/ \E B \in SUBSET Events : GetPendingEvents(i, B)
           \/ PublishEvent(i) \/ PublishFails(i) \/ MarkFails(i)
  BY <1>6 DEF GetPendingEvents, PublishEvent, PublishFails, MarkFails
<1> HIDE DEF SendsInv
<1> QED
  BY <1>2, <1>3, <1>4, <1>5, <1>6 DEF RelayStep

(* Every step is one of the service, or does not concern it.               *)
LEMMA StepIsServiceStep ==
  ASSUME SendsInv, [PipelineNext]_pipelineVars PROVE [T!Next]_(T!vars)
<1>1. ASSUME NEW h \in Handlers, Proceed(h) PROVE T!Next
  BY <1>1 DEF Proceed, CommitCreate, T!Proceed, T!Next
<1>2. ASSUME NEW h \in Handlers, HandlerStep(h) PROVE T!Next
  <2>1. CASE T!Interrupt({h})
    BY <2>1 DEF T!Next
  <2> QED
    BY <1>2, <2>1 DEF HandlerStep, T!Next
<1>3. ASSUME NEW i \in Processors, RelayStep(i) PROVE UNCHANGED T!vars
  BY <1>3, RelayKeepsRows DEF RelayStep, transactionVars, T!vars
<1>4. ASSUME NEW i \in Processors, StopInstance(i) PROVE [T!Next]_(T!vars)
  <2>1. CASE T!Interrupt(Inside(i))
    BY <2>1 DEF Inside, T!Next
  <2>2. CASE UNCHANGED transactionVars
    BY <1>4, <2>2 DEF StopInstance, Crash, transactionVars, outbox_events, T!vars
  <2> QED
    BY <1>4, <2>1, <2>2 DEF StopInstance
<1>5. ASSUME NEW x \in ExternalIds, ExpireKey(x) PROVE T!Next
  BY <1>5 DEF ExpireKey, T!Next
<1>6. CASE UNCHANGED pipelineVars
  BY <1>6 DEF pipelineVars, transactionVars, vars, outbox_events, T!vars
<1> QED
  BY <1>1, <1>2, <1>3, <1>4, <1>5, <1>6 DEF PipelineNext

(* The service that the theorems are about is the one the pipeline runs:   *)
(* it begins in the same states ...                                        *)
LEMMA SameInit == T!Init <=> S!Init
  BY DEF T!Init, S!Init, T!Idle, S!Idle

(* ... and takes the same steps.                                           *)
LEMMA SameNext == T!Next <=> S!Next
  BY DEF T!At, S!At, T!Goto, S!Goto, T!Return, S!Return, T!Idle, S!Idle,
         T!HoldsInsert, S!HoldsInsert, T!Unused, S!Unused, T!ExternalIdTaken,
         S!ExternalIdTaken, T!ExternalIdHeld, S!ExternalIdHeld, T!CanTransitionTo,
         S!CanTransitionTo, T!Terminal, S!Terminal, T!CreatedEvent, S!CreatedEvent,
         T!StateChangeEvent, S!StateChangeEvent, T!Unreported, S!Unreported,
         T!Proceed, S!Proceed, T!Next, S!Next, T!CheckIdempotency,
         S!CheckIdempotency, T!InsertTransaction, S!InsertTransaction,
         T!RefuseDuplicate, S!RefuseDuplicate, T!AddOutboxEvent, S!AddOutboxEvent,
         T!CommitCreate, S!CommitCreate, T!SetIdempotencyLock, S!SetIdempotencyLock,
         T!EmitCreated, S!EmitCreated, T!ReadTransaction, S!ReadTransaction,
         T!UpdateTransactionState, S!UpdateTransactionState, T!RereadTransaction,
         S!RereadTransaction, T!EmitStateChange, S!EmitStateChange, T!CutOff,
         S!CutOff, T!Interrupt, S!Interrupt, T!ExpireKey, S!ExpireKey

(* Every behaviour of the pipeline is one of the service.                  *)
THEOREM PipelineIsService == PipelineSpec => S!Spec
<1>1. PipelineInit => S!Init
  BY SameInit DEF PipelineInit
<1>2. ASSUME SendsInv, [PipelineNext]_pipelineVars PROVE [S!Next]_(S!vars)
  BY <1>2, StepIsServiceStep, SameNext DEF T!vars, S!vars
<1>3. SendsInv /\ [PipelineNext]_pipelineVars => [S!Next]_(S!vars)
  BY <1>2
<1> QED
  BY <1>1, <1>3, PipelineIsRelay, SendsInvariance, PTL DEF PipelineSpec, S!Spec

(* None is no transaction, no external_id and no state.                    *)
LEMMA Fresh ==
  /\ None \notin Events \cup ExternalIds
  /\ None \notin {"PENDING", "COMMITTED", "FAILED", "CANCELLED"}
  BY EventsAreNaturals, NoneIsNoKey

(* In the whole processor, with any number of instances that stop and      *)
(* start, an external_id has one transaction, of which the clients were    *)
(* told, and a live idempotency key stands for one.                        *)
THEOREM PipelineCreates == PipelineSpec => [](S!IdempotentCreate /\ S!KeyGuardsTransaction)
<1>1. S!Spec => []S!IdempotentCreate
  BY Fresh, S!CreateIsIdempotent
<1>2. S!Spec => []S!KeyGuardsTransaction
  BY Fresh, S!KeysGuardTransactions
<1> QED
  BY <1>1, <1>2, PipelineIsService, PTL

(* Exactly the transactions that exist have a row in the outbox, however   *)
(* far the relays have come with it.                                       *)
THEOREM PipelineOutbox == PipelineSpec => []S!OutboxMatchesTransactions
<1>1. S!Spec => []S!OutboxMatchesTransactions
  BY Fresh, S!OutboxIsTransactional
<1> QED
  BY <1>1, PipelineIsService, PTL

(* The audit trail says only what happened, and all of it but for the      *)
(* writes whose handlers were cut off with their instance.                 *)
THEOREM PipelineAudits == PipelineSpec => [](S!AuditTrailTruthful /\ S!AuditTrailComplete)
<1>1. S!Spec => []S!AuditTrailTruthful
  BY Fresh, S!AuditIsTruthful
<1>2. S!Spec => []S!AuditTrailComplete
  BY Fresh, S!AuditIsComplete
<1> QED
  BY <1>1, <1>2, PipelineIsService, PTL

(* A payment that is settled stays as it is.                               *)
THEOREM PipelineSettles == PipelineSpec => S!SettledIsFinal
<1>1. S!Spec => S!SettledIsFinal
  BY Fresh, S!SettledStaysSettled
<1> QED
  BY <1>1, PipelineIsService, PTL

(* The whole processor implements what PaymentLife says of a payment.      *)
THEOREM PipelineImplementsPayments == PipelineSpec => S!ImplementsPayments
<1>1. S!Spec => S!ImplementsPayments
  BY Fresh, S!ServiceImplementsPayments
<1> QED
  BY <1>1, PipelineIsService, PTL
=============================================================================
