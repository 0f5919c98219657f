--------------------- MODULE PaymentTransactionsProofs ---------------------
(***************************************************************************)
(* Theorems about PaymentTransactions, for any handlers, transactions and  *)
(* external_ids.  The inductive invariant adds to the properties what each *)
(* handler relies on between two awaits.                                   *)
(***************************************************************************)
EXTENDS PaymentTransactions, TLAPS

Creating  == {"checked", "inserted", "staged", "created", "locked"}
Changing  == {"read", "updated", "reread"}

(* The local variables that a handler's next steps use have been set.      *)
LocalsSet ==
  \A h \in Handlers :
    /\ call[h].pc \in Creating => call[h].ext \in ExternalIds
    /\ call[h].pc \in Creating \ {"checked"} => call[h].txn \in TxnIds
    /\ call[h].pc \in Changing => /\ call[h].txn \in TxnIds
                                  /\ call[h].to \in Terminal
                                  /\ call[h].from = "PENDING"
    /\ At(h, "reread") => call[h].data \in Terminal

(* An uncommitted insert has its UUID and its external_id to itself.       *)
InsertsExclusive ==
  \A h \in Handlers : HoldsInsert(h) =>
    /\ state[call[h].txn] = "ABSENT"
    /\ ~ExternalIdTaken(call[h].ext)
    /\ \A g \in Handlers \ {h} :
         HoldsInsert(g) => call[g].txn # call[h].txn /\ call[g].ext # call[h].ext

(* The row a handler has committed, or has read, is there.                 *)
RowsPresent ==
  \A h \in Handlers :
    /\ call[h].pc \in {"created", "locked"} =>
         state[call[h].txn] # "ABSENT" /\ external_id[call[h].txn] = call[h].ext
    /\ At(h, "read") => state[call[h].txn] # "ABSENT"
    /\ call[h].pc \in {"updated", "reread"} => state[call[h].txn] \in Terminal

IInv ==
  /\ TypeOK
  /\ LocalsSet
  /\ InsertsExclusive
  /\ RowsPresent
  /\ IdempotentCreate
  /\ KeyGuardsTransaction
  /\ OutboxMatchesTransactions
  /\ AuditTrailTruthful

Rows == <<state, external_id, outbox_events, transaction_events,
          idempotency_keys, acknowledged>>

-----------------------------------------------------------------------------
(* The invariant holds of the empty tables and the idle handlers.          *)
LEMMA IInvInit == Init => IInv
  BY DEF Init, IInv, TypeOK, LocalsSet, InsertsExclusive, RowsPresent,
     IdempotentCreate, KeyGuardsTransaction, OutboxMatchesTransactions,
     AuditTrailTruthful, Call, Idle, At, HoldsInsert, Creating, Changing,
     States, Terminal

(* What is said of the tables alone survives a step that leaves them alone. *)
LEMMA RowsKept ==
  ASSUME IInv, UNCHANGED Rows
  PROVE  /\ IdempotentCreate'
         /\ KeyGuardsTransaction'
         /\ OutboxMatchesTransactions'
         /\ AuditTrailTruthful'
  BY DEF Rows, IInv, IdempotentCreate, KeyGuardsTransaction, ExternalIdTaken,
     OutboxMatchesTransactions, AuditTrailTruthful, Reports

(* The record of one handler changes to another record of its type.        *)
LEMMA CallTyped ==
  ASSUME TypeOK, NEW h \in Handlers, NEW c \in Call,
         call' = [call EXCEPT ![h] = c]
  PROVE  call' \in [Handlers -> Call]
  BY DEF TypeOK

(* No step of the service leaves the invariant.                            *)
LEMMA IInvStep == ASSUME IInv, [Next]_vars PROVE IInv'
<1> USE NoneIsFresh
    DEF IInv, TypeOK, States, Terminal, At, Goto, Return, Idle, HoldsInsert,
        Creating, Changing
<1>1. ASSUME NEW h \in Handlers, NEW x \in ExternalIds,
             CheckIdempotency(h, x)
      PROVE IInv'
  <2>1. TypeOK'
    <3>1. [call[h] EXCEPT !.pc = "checked", !.ext = x] \in Call
      BY <1>1 DEF CheckIdempotency, Call
    <3>2. call' = [call EXCEPT ![h] = [call[h] EXCEPT !.pc = "checked", !.ext = x]]
      BY <1>1 DEF CheckIdempotency, Call
    <3> QED
      BY <1>1, <3>1, <3>2, CallTyped DEF CheckIdempotency
  <2>2. LocalsSet'
    BY <1>1 DEF CheckIdempotency, LocalsSet, RowsPresent
  <2>3. InsertsExclusive'
    BY <1>1 DEF CheckIdempotency, InsertsExclusive, LocalsSet, ExternalIdTaken
  <2>4. RowsPresent'
    BY <1>1 DEF CheckIdempotency, RowsPresent, LocalsSet
  <2>5. IdempotentCreate' /\ KeyGuardsTransaction'
         /\ OutboxMatchesTransactions' /\ AuditTrailTruthful'
    BY <1>1, RowsKept DEF CheckIdempotency, Rows
  <2> QED
    BY <2>1, <2>2, <2>3, <2>4, <2>5
<1>2. ASSUME NEW h \in Handlers, NEW t \in TxnIds,
             InsertTransaction(h, t)
      PROVE IInv'
  <2>1. TypeOK'
    <3>1. [call[h] EXCEPT !.pc = "inserted", !.txn = t] \in Call
      BY <1>2 DEF InsertTransaction, Call
    <3>2. call' = [call EXCEPT ![h] = [call[h] EXCEPT !.pc = "inserted", !.txn = t]]
      BY <1>2 DEF InsertTransaction, Call
    <3> QED
      BY <1>2, <3>1, <3>2, CallTyped DEF InsertTransaction
  <2>2. LocalsSet'
    BY <1>2 DEF InsertTransaction, LocalsSet, RowsPresent, Unused, ExternalIdHeld
  <2>3. InsertsExclusive'
    BY <1>2 DEF InsertTransaction, InsertsExclusive, LocalsSet, ExternalIdTaken, Unused, ExternalIdHeld
  <2>4. RowsPresent'
    BY <1>2 DEF InsertTransaction, RowsPresent, LocalsSet, Unused, ExternalIdHeld
  <2>5. IdempotentCreate' /\ KeyGuardsTransaction'
         /\ OutboxMatchesTransactions' /\ AuditTrailTruthful'
    BY <1>2, RowsKept DEF InsertTransaction, Rows
  <2> QED
    BY <2>1, <2>2, <2>3, <2>4, <2>5
<1>3. ASSUME NEW h \in Handlers, RefuseDuplicate(h) PROVE IInv'
  <2>1. TypeOK'
    BY <1>3 DEF RefuseDuplicate, Call
  <2>2. LocalsSet'
    BY <1>3 DEF RefuseDuplicate, LocalsSet, RowsPresent
  <2>3. InsertsExclusive'
    BY <1>3 DEF RefuseDuplicate, InsertsExclusive, LocalsSet, ExternalIdTaken
  <2>4. RowsPresent'
    BY <1>3 DEF RefuseDuplicate, RowsPresent, LocalsSet
  <2>5. IdempotentCreate' /\ KeyGuardsTransaction'
         /\ OutboxMatchesTransactions' /\ AuditTrailTruthful'
    BY <1>3, RowsKept DEF RefuseDuplicate, Rows
  <2> QED
    BY <2>1, <2>2, <2>3, <2>4, <2>5
<1>4. ASSUME NEW h \in Handlers, AddOutboxEvent(h) PROVE IInv'
  <2>1. TypeOK'
    BY <1>4 DEF AddOutboxEvent, Call
  <2>2. LocalsSet'
    BY <1>4 DEF AddOutboxEvent, LocalsSet, RowsPresent
  <2>3. InsertsExclusive'
    BY <1>4 DEF AddOutboxEvent, InsertsExclusive, LocalsSet, ExternalIdTaken
  <2>4. RowsPresent'
    BY <1>4 DEF AddOutboxEvent, RowsPresent, LocalsSet
  <2>5. IdempotentCreate' /\ KeyGuardsTransaction'
         /\ OutboxMatchesTransactions' /\ AuditTrailTruthful'
    BY <1>4, RowsKept DEF AddOutboxEvent, Rows
  <2> QED
    BY <2>1, <2>2, <2>3, <2>4, <2>5
<1>5. ASSUME NEW h \in Handlers, CommitCreate(h) PROVE IInv'
  <2>1. TypeOK'
    BY <1>5 DEF CommitCreate, Call, LocalsSet
  <2>2. LocalsSet'
    BY <1>5 DEF CommitCreate, LocalsSet, RowsPresent
  <2>3. InsertsExclusive'
    BY <1>5 DEF CommitCreate, InsertsExclusive, LocalsSet, ExternalIdTaken
  <2>4. RowsPresent'
    BY <1>5 DEF CommitCreate, RowsPresent, InsertsExclusive, LocalsSet
  <2>5. IdempotentCreate'
    BY <1>5 DEF CommitCreate, IdempotentCreate, InsertsExclusive, LocalsSet, ExternalIdTaken
  <2>6. KeyGuardsTransaction'
    BY <1>5 DEF CommitCreate, KeyGuardsTransaction, InsertsExclusive, LocalsSet, ExternalIdTaken
  <2>7. OutboxMatchesTransactions'
    BY <1>5 DEF CommitCreate, OutboxMatchesTransactions, LocalsSet
  <2>8. AuditTrailTruthful'
    BY <1>5 DEF CommitCreate, AuditTrailTruthful, InsertsExclusive, LocalsSet, EventRow, Reports
  <2> QED
    BY <2>1, <2>2, <2>3, <2>4, <2>5, <2>6, <2>7, <2>8
<1>6. ASSUME NEW h \in Handlers, SetIdempotencyLock(h) PROVE IInv'
  <2>1. TypeOK'
    BY <1>6 DEF SetIdempotencyLock, Call, LocalsSet
  <2>2. LocalsSet'
    BY <1>6 DEF SetIdempotencyLock, LocalsSet, RowsPresent
  <2>3. InsertsExclusive'
    BY <1>6 DEF SetIdempotencyLock, InsertsExclusive, LocalsSet, ExternalIdTaken
  <2>4. RowsPresent'
    BY <1>6 DEF SetIdempotencyLock, RowsPresent, LocalsSet
  <2>5. IdempotentCreate' /\ OutboxMatchesTransactions' /\ AuditTrailTruthful'
    BY <1>6 DEF SetIdempotencyLock, IdempotentCreate, OutboxMatchesTransactions,
       AuditTrailTruthful, Reports
  <2>6. KeyGuardsTransaction'
    BY <1>6 DEF SetIdempotencyLock, KeyGuardsTransaction, ExternalIdTaken, RowsPresent, LocalsSet
  <2> QED
    BY <2>1, <2>2, <2>3, <2>4, <2>5, <2>6
<1>7. ASSUME NEW h \in Handlers, EmitCreated(h) PROVE IInv'
  <2>1. TypeOK'
    BY <1>7 DEF EmitCreated, CreatedEvent, EventRow, Call, LocalsSet
  <2>2. LocalsSet'
    BY <1>7 DEF EmitCreated, LocalsSet, RowsPresent
  <2>3. InsertsExclusive'
    BY <1>7 DEF EmitCreated, InsertsExclusive, LocalsSet, ExternalIdTaken
  <2>4. RowsPresent'
    BY <1>7 DEF EmitCreated, RowsPresent, LocalsSet
  <2>5. IdempotentCreate'
    BY <1>7 DEF EmitCreated, IdempotentCreate, RowsPresent, LocalsSet
  <2>6. KeyGuardsTransaction' /\ OutboxMatchesTransactions'
    BY <1>7 DEF EmitCreated, KeyGuardsTransaction, OutboxMatchesTransactions,
       ExternalIdTaken
  <2>7. AuditTrailTruthful'
    BY <1>7 DEF EmitCreated, AuditTrailTruthful, CreatedEvent, Reports, RowsPresent, LocalsSet
  <2> QED
    BY <2>1, <2>2, <2>3, <2>4, <2>5, <2>6, <2>7
<1>8. ASSUME NEW h \in Handlers, NEW t \in TxnIds, NEW s \in Terminal,
             ReadTransaction(h, t, s)
      PROVE IInv'
  <2>1. TypeOK'
    <3>1. [call[h] EXCEPT !.pc = "read", !.txn = t,
                         !.to = s, !.from = state[t]] \in Call
      BY <1>8 DEF ReadTransaction, Call, CanTransitionTo
    <3>2. call' = [call EXCEPT ![h] = [call[h] EXCEPT !.pc = "read", !.txn = t,
                         !.to = s, !.from = state[t]]]
      BY <1>8 DEF ReadTransaction, Call
    <3> QED
      BY <1>8, <3>1, <3>2, CallTyped DEF ReadTransaction
  <2>2. LocalsSet'
    BY <1>8 DEF ReadTransaction, LocalsSet, RowsPresent, CanTransitionTo
  <2>3. InsertsExclusive'
    BY <1>8 DEF ReadTransaction, InsertsExclusive, LocalsSet, ExternalIdTaken, CanTransitionTo
  <2>4. RowsPresent'
    BY <1>8 DEF ReadTransaction, RowsPresent, LocalsSet, CanTransitionTo
  <2>5. IdempotentCreate' /\ KeyGuardsTransaction'
         /\ OutboxMatchesTransactions' /\ AuditTrailTruthful'
    BY <1>8, RowsKept DEF ReadTransaction, Rows
  <2> QED
    BY <2>1, <2>2, <2>3, <2>4, <2>5
<1>9. ASSUME NEW h \in Handlers, UpdateTransactionState(h) PROVE IInv'
  <2>1. TypeOK'
    BY <1>9 DEF UpdateTransactionState, Call, LocalsSet
  <2>2. LocalsSet'
    BY <1>9 DEF UpdateTransactionState, LocalsSet, RowsPresent
  <2>3. InsertsExclusive'
    BY <1>9 DEF UpdateTransactionState, InsertsExclusive, RowsPresent, LocalsSet,
       ExternalIdTaken
  <2>4. RowsPresent'
    BY <1>9 DEF UpdateTransactionState, RowsPresent, LocalsSet
  <2>5. IdempotentCreate'
    BY <1>9 DEF UpdateTransactionState, IdempotentCreate, RowsPresent, LocalsSet
  <2>6. KeyGuardsTransaction'
    BY <1>9 DEF UpdateTransactionState, KeyGuardsTransaction, ExternalIdTaken, LocalsSet
  <2>7. OutboxMatchesTransactions'
    BY <1>9 DEF UpdateTransactionState, OutboxMatchesTransactions, RowsPresent, LocalsSet
  <2>8. AuditTrailTruthful'
    BY <1>9 DEF UpdateTransactionState, AuditTrailTruthful, LocalsSet, EventRow, Reports
  <2> QED
    BY <2>1, <2>2, <2>3, <2>4, <2>5, <2>6, <2>7, <2>8
<1>10. ASSUME NEW h \in Handlers, RereadTransaction(h) PROVE IInv'
  <2>1. TypeOK'
    <3> DEFINE d == state[call[h].txn]
    <3>1. d \in Terminal
      BY <1>10 DEF RereadTransaction, RowsPresent
    <3>2. call[h] \in Call
      OBVIOUS
    <3>3. call' = [call EXCEPT ![h] = [call[h] EXCEPT !.pc = "reread", !.data = d]]
      BY <1>10 DEF RereadTransaction, Call
    <3> HIDE DEF d, IInv, TypeOK
    <3>4. [call[h] EXCEPT !.pc = "reread", !.data = d] \in Call
      BY <3>1, <3>2 DEF Call
    <3> QED
      BY <1>10, <3>3, <3>4, CallTyped DEF RereadTransaction, IInv, TypeOK
  <2>2. LocalsSet'
    BY <1>10 DEF RereadTransaction, LocalsSet, RowsPresent
  <2>3. InsertsExclusive'
    BY <1>10 DEF RereadTransaction, InsertsExclusive, LocalsSet, ExternalIdTaken
  <2>4. RowsPresent'
    BY <1>10 DEF RereadTransaction, RowsPresent, LocalsSet
  <2>5. IdempotentCreate' /\ KeyGuardsTransaction'
         /\ OutboxMatchesTransactions' /\ AuditTrailTruthful'
    BY <1>10, RowsKept DEF RereadTransaction, Rows
  <2> QED
    BY <2>1, <2>2, <2>3, <2>4, <2>5
<1>11. ASSUME NEW h \in Handlers, EmitStateChange(h) PROVE IInv'
  <2>1. TypeOK'
    BY <1>11 DEF EmitStateChange, StateChangeEvent, EventRow, Call, LocalsSet
  <2>2. LocalsSet'
    BY <1>11 DEF EmitStateChange, LocalsSet, RowsPresent
  <2>3. InsertsExclusive'
    BY <1>11 DEF EmitStateChange, InsertsExclusive, LocalsSet, ExternalIdTaken
  <2>4. RowsPresent'
    BY <1>11 DEF EmitStateChange, RowsPresent, LocalsSet
  <2>5. IdempotentCreate' /\ KeyGuardsTransaction' /\ OutboxMatchesTransactions'
    BY <1>11 DEF EmitStateChange, IdempotentCreate, KeyGuardsTransaction,
       OutboxMatchesTransactions, ExternalIdTaken
  <2>6. AuditTrailTruthful'
    BY <1>11 DEF EmitStateChange, AuditTrailTruthful, StateChangeEvent, Reports, RowsPresent,
       LocalsSet
  <2> QED
    BY <2>1, <2>2, <2>3, <2>4, <2>5, <2>6
<1>12. ASSUME NEW H \in SUBSET Handlers, Interrupt(H) PROVE IInv'
  <2>1. TypeOK'
    BY <1>12 DEF Interrupt, CutOff, Unreported, Call, LocalsSet
  <2>2. LocalsSet'
    BY <1>12 DEF Interrupt, CutOff, LocalsSet, RowsPresent
  <2>3. InsertsExclusive'
    BY <1>12 DEF Interrupt, CutOff, InsertsExclusive, LocalsSet, ExternalIdTaken
  <2>4. RowsPresent'
    BY <1>12 DEF Interrupt, CutOff, RowsPresent, LocalsSet
  <2>5. IdempotentCreate' /\ KeyGuardsTransaction'
         /\ OutboxMatchesTransactions' /\ AuditTrailTruthful'
    BY <1>12, RowsKept DEF Interrupt, CutOff, Rows
  <2> QED
    BY <2>1, <2>2, <2>3, <2>4, <2>5
<1>13. ASSUME NEW x \in ExternalIds, ExpireKey(x) PROVE IInv'
  <2>1. TypeOK'
    BY <1>13 DEF ExpireKey
  <2>2. LocalsSet'
    BY <1>13 DEF ExpireKey, LocalsSet, RowsPresent
  <2>3. InsertsExclusive'
    BY <1>13 DEF ExpireKey, InsertsExclusive, LocalsSet, ExternalIdTaken
  <2>4. RowsPresent'
    BY <1>13 DEF ExpireKey, RowsPresent, LocalsSet
  <2>5. IdempotentCreate' /\ KeyGuardsTransaction'
         /\ OutboxMatchesTransactions' /\ AuditTrailTruthful'
    BY <1>13 DEF ExpireKey, IdempotentCreate, KeyGuardsTransaction,
       OutboxMatchesTransactions, AuditTrailTruthful, ExternalIdTaken, Reports
  <2> QED
    BY <2>1, <2>2, <2>3, <2>4, <2>5
<1>14. CASE UNCHANGED vars
  <2>1. TypeOK' /\ LocalsSet' /\ InsertsExclusive' /\ RowsPresent'
    BY <1>14 DEF vars, LocalsSet, InsertsExclusive, RowsPresent, ExternalIdTaken
  <2> QED
    BY <1>14, <2>1, RowsKept DEF vars, Rows
<1> QED
  BY <1>1, <1>2, <1>3, <1>4, <1>5, <1>6, <1>7, <1>8, <1>9, <1>10, <1>11,
     <1>12, <1>13, <1>14 DEF Next, Proceed

(* The invariant holds in every reachable state.                           *)
THEOREM Invariance == Spec => []IInv
  BY IInvInit, IInvStep, PTL DEF Spec

-----------------------------------------------------------------------------
(* The variables keep to their types.                                      *)
THEOREM Typing == Spec => []TypeOK
  BY Invariance, PTL DEF IInv

(* Duplicate requests are handled once, whatever the number of handlers    *)
(* and however the Redis key is lost: the UNIQUE constraint of external_id *)
(* is what guarantees it.                                                  *)
THEOREM CreateIsIdempotent == Spec => []IdempotentCreate
  BY Invariance, PTL DEF IInv

(* A live idempotency key stands for a transaction that exists.            *)
THEOREM KeysGuardTransactions == Spec => []KeyGuardsTransaction
  BY Invariance, PTL DEF IInv

(* A transaction and its outbox row are written together.                  *)
THEOREM OutboxIsTransactional == Spec => []OutboxMatchesTransactions
  BY Invariance, PTL DEF IInv

(* The audit trail says only what happened.                                *)
THEOREM AuditIsTruthful == Spec => []AuditTrailTruthful
  BY Invariance, PTL DEF IInv

-----------------------------------------------------------------------------
(* A step that changes the state of a row leaves its handler owing the     *)
(* audit row of the new state; a new row is PENDING.                       *)
LEMMA ChangeIsOwed ==
  ASSUME IInv, [Next]_vars, NEW t \in TxnIds,
         state'[t] # state[t]
  PROVE  /\ \E h \in Handlers : <<t, state'[t]>> \in Unreported(h)'
         /\ state[t] = "ABSENT" => state'[t] = "PENDING"
<1> USE NoneIsFresh DEF IInv, TypeOK, At, Goto, Return
<1>1. ASSUME NEW h \in Handlers, CommitCreate(h)
      PROVE  t = call[h].txn /\ state'[t] = "PENDING" /\ call'[h].pc = "created"
             /\ call'[h].txn = call[h].txn
  BY <1>1 DEF CommitCreate, Call
<1>2. ASSUME NEW h \in Handlers, UpdateTransactionState(h)
      PROVE  /\ t = call[h].txn /\ state'[t] = call[h].to
             /\ call'[h].pc = "updated" /\ call'[h].txn = call[h].txn
             /\ call'[h].to = call[h].to /\ state[t] # "ABSENT"
  BY <1>2 DEF UpdateTransactionState, Call, RowsPresent
<1>3. \/ \E h \in Handlers : CommitCreate(h)
      \/ \E h \in Handlers : UpdateTransactionState(h)
  BY DEF Next, Proceed, vars, CheckIdempotency, InsertTransaction,
     RefuseDuplicate, AddOutboxEvent, SetIdempotencyLock, EmitCreated,
     ReadTransaction, RereadTransaction, EmitStateChange, Interrupt, CutOff, ExpireKey
<1> QED
  BY <1>1, <1>2, <1>3 DEF Unreported

(* A handler is among those that are cut off.                              *)
IsCutOff(h) == \E H \in SUBSET Handlers : h \in H /\ Interrupt(H)

(* Only its own step, or being cut off, changes a handler's locals.        *)
LEMMA OwnStep ==
  ASSUME IInv, [Next]_vars, NEW h \in Handlers, call'[h] # call[h]
  PROVE  \/ \E x \in ExternalIds : CheckIdempotency(h, x)
         \/ \E t \in TxnIds, s \in Terminal : ReadTransaction(h, t, s)
         \/ Proceed(h)
         \/ IsCutOff(h)
<1> USE DEF IInv, TypeOK, Goto, Return
<1>1. ASSUME NEW g \in Handlers, g # h,
             \/ \E x \in ExternalIds : CheckIdempotency(g, x)
             \/ \E t \in TxnIds, s \in Terminal : ReadTransaction(g, t, s)
      PROVE  FALSE
  BY <1>1 DEF CheckIdempotency, ReadTransaction
<1>2. ASSUME NEW g \in Handlers, g # h, Proceed(g) PROVE FALSE
  <2>1. CASE \/ \E t \in TxnIds : InsertTransaction(g, t)
             \/ RefuseDuplicate(g) \/ AddOutboxEvent(g) \/ CommitCreate(g)
    BY <1>2, <2>1 DEF InsertTransaction, RefuseDuplicate, AddOutboxEvent,
       CommitCreate
  <2>2. CASE \/ SetIdempotencyLock(g) \/ EmitCreated(g)
             \/ UpdateTransactionState(g) \/ RereadTransaction(g)
             \/ EmitStateChange(g)
    BY <1>2, <2>2 DEF SetIdempotencyLock, EmitCreated,
       UpdateTransactionState, RereadTransaction, EmitStateChange
  <2> QED
    BY <1>2, <2>1, <2>2 DEF Proceed
<1>3. ~(\E x \in ExternalIds : ExpireKey(x)) /\ vars' # vars
  BY DEF ExpireKey, vars
<1>4. ASSUME NEW H \in SUBSET Handlers, Interrupt(H) PROVE IsCutOff(h)
  BY <1>4 DEF Interrupt, CutOff, IsCutOff
<1> QED
  BY <1>1, <1>2, <1>3, <1>4 DEF Next

(* What has been accounted for stays accounted for.                        *)
LEMMA StaysAccounted ==
  ASSUME IInv, [Next]_vars, NEW t \in TxnIds, NEW s \in States, Accounted(t, s)
  PROVE  Accounted(t, s)'
<1> USE NoneIsFresh DEF IInv, TypeOK, At, Goto, Return
<1>1. transaction_events \subseteq transaction_events' /\ unaudited \subseteq unaudited'
  BY DEF Next, Proceed, vars, CheckIdempotency, InsertTransaction,
     RefuseDuplicate, AddOutboxEvent, CommitCreate, SetIdempotencyLock,
     EmitCreated, ReadTransaction, UpdateTransactionState, RereadTransaction,
     EmitStateChange, Interrupt, CutOff, ExpireKey
<1>2. CASE \/ \E e \in transaction_events : e.transaction_id = t /\ Reports(e) = s
           \/ <<t, s>> \in unaudited
  BY <1>1, <1>2 DEF Accounted, Reports
<1>3. ASSUME NEW h \in Handlers, <<t, s>> \in Unreported(h)
      PROVE  Accounted(t, s)'
  <2>1. CASE call'[h] = call[h]
    <3>1. <<t, s>> \in Unreported(h)'
      BY <1>3, <2>1 DEF Unreported
    <3> QED
      BY <3>1 DEF Accounted
  <2>2. CASE SetIdempotencyLock(h) \/ RereadTransaction(h)
    <3>1. <<t, s>> \in Unreported(h)'
      BY <1>3, <2>2 DEF SetIdempotencyLock, RereadTransaction, Unreported, Call
    <3> QED
      BY <3>1 DEF Accounted
  <2>3. CASE EmitCreated(h)
    <3>1. t = call[h].txn /\ s = "PENDING"
      BY <1>3, <2>3 DEF EmitCreated, Unreported
    <3>2. CreatedEvent(t) \in transaction_events' \/ <<t, s>> \in unaudited'
      BY <2>3, <3>1 DEF EmitCreated
    <3>3. CreatedEvent(t).transaction_id = t /\ Reports(CreatedEvent(t)) = s
      BY <3>1 DEF CreatedEvent, Reports
    <3> QED
      BY <3>2, <3>3 DEF Accounted, Reports
  <2>4. CASE EmitStateChange(h)
    <3> DEFINE e == StateChangeEvent(call[h].txn, call[h].from, call[h].to,
                                     call[h].data)
    <3>1. t = call[h].txn /\ s = call[h].to /\ s \in Terminal
      BY <1>3, <2>4 DEF EmitStateChange, Unreported, LocalsSet, Changing
    <3>2. e.transaction_id = t /\ Reports(e) = s
      BY <3>1 DEF StateChangeEvent, Reports, Terminal
    <3>3. e \in transaction_events'
      BY <2>4 DEF EmitStateChange
    <3> HIDE DEF e
    <3> QED
      BY <3>2, <3>3 DEF Accounted, Reports
  <2>5. CASE IsCutOff(h)
    <3>1. <<t, s>> \in unaudited'
      BY <1>3, <2>5 DEF IsCutOff, Interrupt, CutOff
    <3> QED
      BY <3>1 DEF Accounted
  <2>6. \/ call'[h] = call[h]
        \/ SetIdempotencyLock(h) \/ RereadTransaction(h)
        \/ EmitCreated(h) \/ EmitStateChange(h) \/ IsCutOff(h)
    <3> SUFFICES ASSUME call'[h] # call[h]
                 PROVE  \/ SetIdempotencyLock(h) \/ RereadTransaction(h)
                        \/ EmitCreated(h) \/ EmitStateChange(h) \/ IsCutOff(h)
      OBVIOUS
    <3>1. call[h].pc \in {"created", "locked", "updated", "reread"}
      BY <1>3 DEF Unreported
    <3> QED
      BY <3>1, OwnStep DEF Proceed, CheckIdempotency, InsertTransaction,
         RefuseDuplicate, AddOutboxEvent, CommitCreate, ReadTransaction,
         UpdateTransactionState
  <2> QED
    BY <2>1, <2>2, <2>3, <2>4, <2>5, <2>6
<1> QED
  BY <1>2, <1>3 DEF Accounted

(* The audit trail accounts for every creation and every current state,    *)
(* but for what its writers are known to have been cut off from.           *)
THEOREM AuditIsComplete == Spec => []AuditTrailComplete
<1>1. Init => AuditTrailComplete
  BY DEF Init, AuditTrailComplete
<1>2. ASSUME IInv, AuditTrailComplete, [Next]_vars PROVE AuditTrailComplete'
  <2> SUFFICES ASSUME NEW t \in TxnIds, state'[t] # "ABSENT"
               PROVE  Accounted(t, "PENDING")' /\ Accounted(t, state[t])'
    BY DEF AuditTrailComplete
  <2>1. PICK s \in States : s = state'[t]
    BY <1>2, IInvStep DEF IInv, TypeOK
  <2>2. "PENDING" \in States
    BY DEF States
  <2>3. Accounted(t, "PENDING")' /\ Accounted(t, s)'
    <3>1. CASE state'[t] = state[t]
      BY <1>2, <2>1, <2>2, <3>1, StaysAccounted DEF AuditTrailComplete
    <3>2. CASE state'[t] # state[t]
      <4>1. \E h \in Handlers : <<t, s>> \in Unreported(h)'
        BY <1>2, <2>1, <3>2, ChangeIsOwed
      <4>2. Accounted(t, s)'
        BY <4>1 DEF Accounted
      <4>3. CASE state[t] = "ABSENT"
        BY <1>2, <2>1, <3>2, <4>2, <4>3, ChangeIsOwed
      <4>4. CASE state[t] # "ABSENT"
        BY <1>2, <2>2, <4>2, <4>4, StaysAccounted DEF AuditTrailComplete
      <4> QED
        BY <4>3, <4>4
    <3> QED
      BY <3>1, <3>2
  <2> QED
    BY <2>1, <2>3 DEF Accounted
<1> QED
  BY <1>1, <1>2, Invariance, PTL DEF Spec

(* A settled transaction never changes again.                              *)
THEOREM SettledStaysSettled == Spec => SettledIsFinal
<1>1. ASSUME IInv, [Next]_vars, NEW t \in TxnIds, Settled(t)
      PROVE  Settled(t)' /\ state'[t] = state[t]
  <2>1. state'[t] = state[t]
    BY <1>1 DEF IInv, TypeOK, InsertsExclusive, Next, Proceed, vars, Settled,
       At, HoldsInsert, Terminal, CheckIdempotency, InsertTransaction,
       RefuseDuplicate, AddOutboxEvent, CommitCreate, SetIdempotencyLock,
       EmitCreated, ReadTransaction, UpdateTransactionState,
       RereadTransaction, EmitStateChange, Interrupt, CutOff, ExpireKey
  <2>2. ASSUME NEW h \in Handlers, At(h, "read")' PROVE call'[h].txn # t
    <3>1. CASE call'[h] = call[h]
      BY <1>1, <2>2, <3>1 DEF Settled, At
    <3>2. CASE \E u \in TxnIds, s \in Terminal : ReadTransaction(h, u, s)
      BY <1>1, <3>2 DEF ReadTransaction, CanTransitionTo, Settled, Terminal,
         IInv, TypeOK, Call
    <3>3. call'[h] = call[h] \/ \E u \in TxnIds, s \in Terminal : ReadTransaction(h, u, s)
      <4> SUFFICES ASSUME call'[h] # call[h]
                   PROVE  \E u \in TxnIds, s \in Terminal : ReadTransaction(h, u, s)
        OBVIOUS
      <4> USE DEF IInv, TypeOK, Call, At, Goto, Return, Idle
      <4>1. ASSUME Proceed(h) PROVE FALSE
        BY <1>1, <2>2, <4>1 DEF Proceed, InsertTransaction, RefuseDuplicate,
           AddOutboxEvent, CommitCreate, SetIdempotencyLock, EmitCreated,
           UpdateTransactionState, RereadTransaction, EmitStateChange
      <4>2. ~IsCutOff(h)
        BY <1>1, <2>2 DEF IsCutOff, Interrupt, CutOff
      <4>3. ASSUME NEW x \in ExternalIds PROVE ~CheckIdempotency(h, x)
        BY <1>1, <2>2 DEF CheckIdempotency
      <4> QED
        BY <1>1, <4>1, <4>2, <4>3, OwnStep
    <3> QED
      BY <3>1, <3>2, <3>3
  <2> QED
    BY <1>1, <2>1, <2>2 DEF Settled
<1>2. IInv /\ [Next]_vars =>
        [\A t \in TxnIds : Settled(t) => Settled(t)' /\ state'[t] = state[t]]_vars
  BY <1>1
<1> QED
  BY <1>2, Invariance, PTL DEF Spec, SettledIsFinal
-----------------------------------------------------------------------------
(* Refinement.  Who has yet to write what it decided on the row of t.      *)
Readers(t) == {h \in Handlers : At(h, "read") /\ call[h].txn = t}

LifePhase   == [t \in TxnIds |-> PhaseOf(t)]
LifeOutcome == [t \in TxnIds |-> OutcomeOf(t)]
LifeTrail   == {<<e.transaction_id, Reports(e)>> : e \in transaction_events}

(* A payment's phase and outcome follow from its row and its readers; the  *)
(* readers matter only once there is an outcome.                           *)
LEMMA PhaseKept ==
  ASSUME IInv, NEW t \in TxnIds, state'[t] = state[t],
         state[t] \in Terminal => Readers(t)' = Readers(t)
  PROVE  PhaseOf(t)' = PhaseOf(t) /\ OutcomeOf(t)' = OutcomeOf(t)
<1>1. state[t] \in Terminal => Settled(t)' = Settled(t)
  BY DEF Settled, Readers
<1>2. state[t] \in States \cup {"ABSENT"}
  BY DEF IInv, TypeOK
<1> QED
  BY <1>1, <1>2 DEF PhaseOf, OutcomeOf, States

(* A step of a handler that reads no row to change keeps the readers.      *)
LEMMA ReadersKept ==
  ASSUME NEW h \in Handlers, \A g \in Handlers \ {h} : call'[g] = call[g],
         call[h].pc # "read", call'[h].pc # "read"
  PROVE  \A t \in TxnIds : Readers(t)' = Readers(t)
  BY DEF Readers, At

(* A step that leaves the rows and their readers alone.                    *)
LEMMA LifeKept ==
  ASSUME IInv, UNCHANGED <<state, external_id>>,
         \A t \in TxnIds : state[t] \in Terminal => Readers(t)' = Readers(t)
  PROVE  UNCHANGED <<LifePhase, LifeOutcome, external_id>>
  BY PhaseKept DEF LifePhase, LifeOutcome

(* The handlers whose step is nothing that an outsider sees.               *)
LEMMA QuietStep ==
  ASSUME IInv, NEW h \in Handlers,
         \/ \E x \in ExternalIds : CheckIdempotency(h, x)
         \/ \E t \in TxnIds, s \in Terminal : ReadTransaction(h, t, s)
         \/ \E t \in TxnIds : InsertTransaction(h, t)
         \/ RefuseDuplicate(h) \/ AddOutboxEvent(h) \/ SetIdempotencyLock(h)
         \/ RereadTransaction(h)
  PROVE  UNCHANGED <<LifePhase, LifeOutcome, external_id, acknowledged, LifeTrail>>
<1> USE DEF IInv, TypeOK, At, Goto, Return, Idle
<1>1. UNCHANGED <<state, external_id, transaction_events, acknowledged>>
  BY DEF CheckIdempotency, ReadTransaction, InsertTransaction, RefuseDuplicate, AddOutboxEvent,
         SetIdempotencyLock, RereadTransaction
<1>2. UNCHANGED LifeTrail
  BY <1>1 DEF LifeTrail, Reports
<1>3. \A t \in TxnIds : state[t] \in Terminal => Readers(t)' = Readers(t)
  <2>1. CASE \E t \in TxnIds, s \in Terminal : ReadTransaction(h, t, s)
    <3>1. PICK t \in TxnIds, s \in Terminal : ReadTransaction(h, t, s)
      BY <2>1
    <3>2. /\ call'[h].pc = "read" /\ call'[h].txn = t /\ state[t] = "PENDING"
          /\ call[h].pc = "idle" /\ \A g \in Handlers \ {h} : call'[g] = call[g]
      BY <3>1 DEF ReadTransaction, CanTransitionTo, Call
    <3> QED
      BY <3>2 DEF Readers, Terminal
  <2>2. ASSUME \/ \E x \in ExternalIds : CheckIdempotency(h, x)
               \/ \E t \in TxnIds : InsertTransaction(h, t)
               \/ RefuseDuplicate(h) \/ AddOutboxEvent(h) \/ SetIdempotencyLock(h)
               \/ RereadTransaction(h)
        PROVE  \A t \in TxnIds : Readers(t)' = Readers(t)
    <3>1. \A g \in Handlers \ {h} : call'[g] = call[g]
      BY <2>2 DEF CheckIdempotency, InsertTransaction, RefuseDuplicate, AddOutboxEvent,
                  SetIdempotencyLock, RereadTransaction
    <3>2. call[h].pc # "read"
      BY <2>2 DEF CheckIdempotency, InsertTransaction, RefuseDuplicate, AddOutboxEvent,
                  SetIdempotencyLock, RereadTransaction
    <3>3. call'[h].pc # "read"
      BY <2>2 DEF CheckIdempotency, InsertTransaction, RefuseDuplicate, AddOutboxEvent,
                  SetIdempotencyLock, RereadTransaction, Call
    <3> QED
      BY <3>1, <3>2, <3>3, ReadersKept
  <2> QED
    BY <2>1, <2>2
<1> HIDE DEF IInv, At
<1> QED
  BY <1>1, <1>2, <1>3, LifeKept

(* A row's phase and outcome, state by state.                              *)
LEMMA PhaseIs ==
  ASSUME NEW t \in TxnIds
  PROVE  /\ state[t] = "ABSENT" => PhaseOf(t) = "none" /\ OutcomeOf(t) = None
         /\ state[t] = "PENDING" => PhaseOf(t) = "pending" /\ OutcomeOf(t) = None
         /\ state[t] \in Terminal => /\ Settled(t) => PhaseOf(t) = "settled"
                                     /\ ~Settled(t) => PhaseOf(t) = "decided"
                                     /\ OutcomeOf(t) = state[t]
  BY DEF PhaseOf, OutcomeOf, Terminal

(* How a step changes the phase, told transaction by transaction.          *)
LEMMA NextPhaseIs ==
  ASSUME NEW t \in TxnIds
  PROVE  /\ state'[t] = "PENDING" => PhaseOf(t)' = "pending" /\ OutcomeOf(t)' = None
         /\ state'[t] \in Terminal => /\ Settled(t)' => PhaseOf(t)' = "settled"
                                      /\ ~Settled(t)' => PhaseOf(t)' = "decided"
                                      /\ OutcomeOf(t)' = state'[t]
  BY DEF PhaseOf, OutcomeOf, Terminal

(* What is visible from outside takes one step of the abstract life, or    *)
(* none, with every step of the service.                                   *)
LEMMA LifeStep ==
  ASSUME IInv, [Next]_vars
  PROVE  [Life!Next]_(Life!vars)
<1>0. /\ LifePhase = [t \in TxnIds |-> PhaseOf(t)] /\ LifeOutcome = [t \in TxnIds |-> OutcomeOf(t)]
      /\ LifePhase' = [t \in TxnIds |-> PhaseOf(t)'] /\ LifeOutcome' = [t \in TxnIds |-> OutcomeOf(t)']
  BY DEF LifePhase, LifeOutcome
<1> DEFINE Stutter == UNCHANGED <<LifePhase, LifeOutcome, external_id, acknowledged, LifeTrail>>
<1>1. Stutter => [Life!Next]_(Life!vars)
  BY DEF Life!vars, LifePhase, LifeOutcome, LifeTrail
<1>2. ASSUME NEW h \in Handlers, CommitCreate(h) PROVE Life!Next
  <2>0. PICK t \in TxnIds, x \in ExternalIds : t = call[h].txn /\ x = call[h].ext
    BY <1>2 DEF IInv, At, CommitCreate, LocalsSet, Creating
  <2>1. /\ t \in TxnIds /\ x \in ExternalIds /\ state[t] = "ABSENT" /\ ~ExternalIdTaken(x)
        /\ state' = [state EXCEPT ![t] = "PENDING"] /\ external_id' = [external_id EXCEPT ![t] = x]
        /\ UNCHANGED <<transaction_events, acknowledged>>
    BY <1>2, <2>0 DEF IInv, At, CommitCreate, InsertsExclusive, HoldsInsert
  <2>2. \A u \in TxnIds : Readers(u)' = Readers(u)
    <3>1. call[h].pc = "staged" /\ call'[h].pc = "created" /\ \A g \in Handlers \ {h} : call'[g] = call[g]
      BY <1>2 DEF IInv, TypeOK, At, Goto, Return, Idle, CommitCreate, Call
    <3> QED
      BY <3>1, ReadersKept
  <2>3. \A u \in TxnIds \ {t} : PhaseOf(u)' = PhaseOf(u) /\ OutcomeOf(u)' = OutcomeOf(u)
    BY <2>1, <2>2, PhaseKept
  <2>4. /\ PhaseOf(t) = "none" /\ PhaseOf(t)' = "pending"
        /\ OutcomeOf(t)' = OutcomeOf(t)
    <3>1. t \in TxnIds /\ state'[t] = "PENDING"
      BY <2>1 DEF IInv, TypeOK
    <3> QED
      BY <2>1, <3>1, PhaseIs, NextPhaseIs
  <2>5. LifePhase' = [LifePhase EXCEPT ![t] = "pending"] /\ LifeOutcome' = LifeOutcome /\ LifeTrail' = LifeTrail
    <3>1. LifeTrail' = LifeTrail
      BY <2>1 DEF LifeTrail, Reports
    <3>2. t \in TxnIds
      BY <2>1
    <3> QED
      BY <1>0, <2>3, <2>4, <3>1, <3>2
  <2>6. \A u \in TxnIds : LifePhase[u] # "none" => external_id[u] # x
    BY <2>1 DEF LifePhase, PhaseOf, ExternalIdTaken
  <2>7. Life!Create(t, x)
    BY <2>1, <2>4, <2>5, <2>6 DEF Life!Create, LifePhase, LifeOutcome, LifeTrail
  <2> QED
    BY <2>1, <2>7 DEF Life!Next
<1>3. ASSUME NEW h \in Handlers, EmitCreated(h) PROVE Life!Next
  <2>0. PICK t \in TxnIds : t = call[h].txn
    BY <1>3 DEF IInv, At, EmitCreated, LocalsSet, Creating
  <2>1. /\ t \in TxnIds /\ state[t] # "ABSENT" /\ external_id[t] = call[h].ext
        /\ acknowledged' = acknowledged \cup {<<external_id[t], t>>}
        /\ transaction_events' \in {transaction_events, transaction_events \cup {CreatedEvent(t)}}
        /\ UNCHANGED <<state, external_id>>
    BY <1>3, <2>0 DEF IInv, At, EmitCreated, RowsPresent
  <2>2. \A u \in TxnIds : Readers(u)' = Readers(u)
    <3>1. call[h].pc = "locked" /\ call'[h].pc = "idle" /\ \A g \in Handlers \ {h} : call'[g] = call[g]
      BY <1>3 DEF IInv, TypeOK, At, Goto, Return, Idle, EmitCreated, Call
    <3> QED
      BY <3>1, ReadersKept
  <2>3. UNCHANGED <<LifePhase, LifeOutcome>>
    BY <2>1, <2>2, LifeKept
  <2>4. LifeTrail' \in {LifeTrail, LifeTrail \cup {<<t, "PENDING">>}}
    BY <2>1 DEF LifeTrail, Reports, CreatedEvent
  <2>5. LifePhase[t] # "none"
    BY <2>1 DEF LifePhase, PhaseOf, States
  <2>6. Life!Tell(t)
    BY <2>1, <2>3, <2>4, <2>5 DEF Life!Tell, LifePhase, LifeOutcome, LifeTrail
  <2>7. t \in TxnIds
    BY <2>1
  <2> QED
    BY <2>6, <2>7 DEF Life!Next
<1>4. ASSUME NEW h \in Handlers, UpdateTransactionState(h) PROVE Life!Next
  <2>0. PICK t \in TxnIds, s \in Terminal : t = call[h].txn /\ s = call[h].to
    BY <1>4 DEF IInv, At, LocalsSet, Changing, UpdateTransactionState
  <2>1. /\ t \in TxnIds /\ s \in Terminal /\ h \in Readers(t) /\ state[t] # "ABSENT"
        /\ state' = [state EXCEPT ![t] = s]
        /\ UNCHANGED <<external_id, transaction_events, acknowledged>>
    BY <1>4, <2>0 DEF IInv, At, UpdateTransactionState, RowsPresent, Readers
  <2>2. \A u \in TxnIds \ {t} : Readers(u)' = Readers(u)
    <3>1. /\ call[h].pc = "read" /\ call'[h].pc = "updated" /\ call[h].txn = t
          /\ \A g \in Handlers \ {h} : call'[g] = call[g]
      BY <1>4, <2>0 DEF IInv, TypeOK, At, Goto, UpdateTransactionState, Call
    <3> QED
      BY <3>1 DEF Readers, At
  <2>3. \A u \in TxnIds \ {t} : PhaseOf(u)' = PhaseOf(u) /\ OutcomeOf(u)' = OutcomeOf(u)
    BY <2>1, <2>2, PhaseKept
  <2>4. /\ PhaseOf(t) \in {"pending", "decided"} /\ PhaseOf(t)' \in {"decided", "settled"}
        /\ OutcomeOf(t)' = s
    <3>1. /\ t \in TxnIds /\ s \in Terminal /\ state'[t] = s /\ ~Settled(t)
          /\ state[t] = "PENDING" \/ state[t] \in Terminal
      BY <2>1 DEF IInv, TypeOK, States, Settled, Readers
    <3>2. PhaseOf(t) \in {"pending", "decided"}
      BY <3>1, PhaseIs
    <3> QED
      BY <3>1, <3>2, NextPhaseIs
  <2>5. /\ LifePhase' = [LifePhase EXCEPT ![t] = PhaseOf(t)']
        /\ LifeOutcome' = [LifeOutcome EXCEPT ![t] = s] /\ LifeTrail' = LifeTrail
    <3>1. LifeTrail' = LifeTrail
      BY <2>1 DEF LifeTrail, Reports
    <3>2. t \in TxnIds
      BY <2>1
    <3> QED
      BY <1>0, <2>3, <2>4, <3>1, <3>2
  <2>6. Life!Decide(t, s)
    BY <2>1, <2>4, <2>5 DEF Life!Decide, LifePhase, LifeOutcome, LifeTrail
  <2>7. t \in TxnIds /\ s \in Terminal
    BY <2>1
  <2> QED
    BY <2>6, <2>7 DEF Life!Next
<1>5. ASSUME NEW h \in Handlers, EmitStateChange(h) PROVE Life!Next
  <2>0. PICK t \in TxnIds, s \in Terminal : t = call[h].txn /\ s = call[h].to
    BY <1>5 DEF IInv, At, LocalsSet, Changing, EmitStateChange
  <2>1. /\ t \in TxnIds /\ s \in Terminal /\ state[t] \in Terminal
        /\ transaction_events' = transaction_events \cup
              {StateChangeEvent(t, call[h].from, s, call[h].data)}
        /\ UNCHANGED <<state, external_id, acknowledged>>
    BY <1>5, <2>0 DEF IInv, At, EmitStateChange, RowsPresent
  <2>2. \A u \in TxnIds : Readers(u)' = Readers(u)
    <3>1. call[h].pc = "reread" /\ call'[h].pc = "idle" /\ \A g \in Handlers \ {h} : call'[g] = call[g]
      BY <1>5 DEF IInv, TypeOK, At, Goto, Return, Idle, EmitStateChange, Call
    <3> QED
      BY <3>1, ReadersKept
  <2>3. UNCHANGED <<LifePhase, LifeOutcome>>
    BY <2>1, <2>2, LifeKept
  <2>4. LifeTrail' = LifeTrail \cup {<<t, s>>}
    <3>1. ASSUME NEW e, e = StateChangeEvent(t, call[h].from, s, call[h].data)
          PROVE  e.transaction_id = t /\ Reports(e) = s
      BY <2>1, <3>1 DEF StateChangeEvent, Reports, Terminal
    <3> QED
      BY <2>1, <3>1 DEF LifeTrail, Reports
  <2>5. LifePhase[t] \in {"decided", "settled"}
    BY <2>1 DEF LifePhase, PhaseOf, Terminal
  <2>6. Life!Report(t, s)
    BY <2>1, <2>3, <2>4, <2>5 DEF Life!Report, LifePhase, LifeOutcome, LifeTrail
  <2>7. t \in TxnIds /\ s \in Terminal
    BY <2>1
  <2> QED
    BY <2>6, <2>7 DEF Life!Next
<1>6. ASSUME NEW H \in SUBSET Handlers, Interrupt(H) PROVE Life!Next
  <2>1. UNCHANGED <<state, external_id, transaction_events, acknowledged>>
    BY <1>6 DEF IInv, TypeOK, At, Goto, Return, Idle, Interrupt, CutOff
  <2>2. \A u \in TxnIds : Readers(u)' = Readers(u) \ H
    <3>1. /\ \A h \in H : call'[h].pc = "idle"
          /\ \A g \in Handlers \ H : call'[g] = call[g]
      BY <1>6 DEF IInv, TypeOK, At, Goto, Return, Idle, Interrupt, CutOff
    <3> QED
      BY <3>1 DEF Readers, At
  <2> DEFINE P == {t \in TxnIds : PhaseOf(t) = "decided" /\ PhaseOf(t)' = "settled"}
  <2>3. ASSUME NEW t \in TxnIds
        PROVE  PhaseOf(t)' = (IF t \in P THEN "settled" ELSE PhaseOf(t)) /\ OutcomeOf(t)' = OutcomeOf(t)
    <3>1. CASE Readers(t)' = Readers(t)
      BY <2>1, <3>1, PhaseKept
    <3>2. CASE state[t] \notin Terminal
      BY <2>1, <3>2, PhaseKept
    <3>3. CASE state[t] \in Terminal /\ Readers(t)' # Readers(t)
      <4>1. PhaseOf(t) = "decided" /\ PhaseOf(t)' \in {"decided", "settled"} /\ OutcomeOf(t)' = OutcomeOf(t)
        <5>1. ~Settled(t) /\ state'[t] = state[t]
          BY <2>1, <2>2, <3>3 DEF Settled, Readers
        <5> QED
          BY <3>3, <5>1 DEF PhaseOf, OutcomeOf, Terminal
      <4> QED
        BY <4>1
    <3> QED
      BY <3>1, <3>2, <3>3
  <2> HIDE DEF P
  <2>4. /\ LifePhase' = [t \in TxnIds |-> IF t \in P THEN "settled" ELSE LifePhase[t]]
        /\ LifeOutcome' = LifeOutcome /\ LifeTrail' = LifeTrail
    BY <1>0, <2>1, <2>3 DEF LifeTrail, Reports
  <2>5. P \in SUBSET TxnIds /\ \A t \in P : LifePhase[t] = "decided"
    BY <1>0 DEF P
  <2>6. Life!Settle(P)
    BY <2>1, <2>4, <2>5 DEF Life!Settle, LifePhase, LifeOutcome, LifeTrail
  <2> QED
    BY <2>5, <2>6 DEF Life!Next
<1>7. ASSUME \/ UNCHANGED vars \/ \E x \in ExternalIds : ExpireKey(x) PROVE Stutter
  <2>1. UNCHANGED <<state, external_id, transaction_events, acknowledged, call>>
    BY <1>7 DEF vars, ExpireKey
  <2>2. \A t \in TxnIds : Readers(t)' = Readers(t)
    BY <2>1 DEF Readers, At
  <2> QED
    BY <2>1, <2>2, LifeKept DEF LifeTrail, Reports
<1>8. ASSUME NEW h \in Handlers,
             \/ \E x \in ExternalIds : CheckIdempotency(h, x)
             \/ \E t \in TxnIds, s \in Terminal : ReadTransaction(h, t, s)
             \/ Proceed(h)
      PROVE  [Life!Next]_(Life!vars)
  <2> HIDE DEF Stutter
  <2>1. CASE CommitCreate(h) \/ EmitCreated(h) \/ UpdateTransactionState(h) \/ EmitStateChange(h)
    BY <1>2, <1>3, <1>4, <1>5, <2>1
  <2>2. CASE \/ \E x \in ExternalIds : CheckIdempotency(h, x)
             \/ \E t \in TxnIds, s \in Terminal : ReadTransaction(h, t, s)
             \/ \E t \in TxnIds : InsertTransaction(h, t)
             \/ RefuseDuplicate(h) \/ AddOutboxEvent(h) \/ SetIdempotencyLock(h)
             \/ RereadTransaction(h)
    <3>1. Stutter
      BY <2>2, QuietStep DEF Stutter
    <3> QED
      BY <1>1, <3>1
  <2> QED
    BY <1>8, <2>1, <2>2 DEF Proceed
<1> HIDE DEF Stutter
<1> QED
  BY <1>1, <1>6, <1>7, <1>8 DEF Next

(* The service implements what PaymentLife says of a payment, for any      *)
(* handlers, transactions and external_ids.                                *)
THEOREM ServiceImplementsPayments == Spec => ImplementsPayments
<1>1. Init => Life!Init
  <2> SUFFICES ASSUME Init PROVE Life!Init
    OBVIOUS
  <2>1. \A t \in TxnIds : PhaseOf(t) = "none" /\ OutcomeOf(t) = None
    BY DEF Init, PhaseOf, OutcomeOf, Terminal
  <2> QED
    BY <2>1 DEF Init, Life!Init
<1>2. IInv /\ [Next]_vars => [Life!Next]_(Life!vars)
  BY LifeStep
<1> QED
  BY <1>1, <1>2, Invariance, PTL DEF Spec, Life!Spec, ImplementsPayments
=============================================================================
