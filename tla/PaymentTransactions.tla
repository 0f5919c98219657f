------------------------ MODULE PaymentTransactions ------------------------
(***************************************************************************)
(* The payment processor's transaction service: creating a transaction and *)
(* moving it to COMMITTED, FAILED or CANCELLED.                            *)
(*                                                                         *)
(* Every HTTP request runs in a handler, an async function interleaved     *)
(* with the others at each await.  Between two awaits it makes one call to *)
(* PostgreSQL or Redis: an action of this module is one such call with the *)
(* local code around it.  A handler may also stop at any await (a database *)
(* error returned with `?', the client gone, the process killed): action   *)
(* Interrupt, of all its handlers at once when a process dies.             *)
(***************************************************************************)
CONSTANTS Handlers,     \* slots for concurrent request handlers
          TxnIds,       \* the UUIDs Uuid::new_v4 may return
          ExternalIds,  \* the clients' external_ids, the idempotency keys
          None

ASSUME NoneIsFresh ==
  /\ None \notin TxnIds \cup ExternalIds
  /\ None \notin {"PENDING", "COMMITTED", "FAILED", "CANCELLED"}

Terminal == {"COMMITTED", "FAILED", "CANCELLED"}
States   == {"PENDING"} \cup Terminal

VARIABLES
  state,               \* transactions.state; "ABSENT" where there is no row
  external_id,         \* transactions.external_id
  outbox_events,       \* transactions with a "Created" row in outbox_events
  transaction_events,  \* the rows of transaction_events, the audit trail
  idempotency_keys,    \* external_ids whose key is alive in Redis
  call,                \* the handlers' program counters and local variables
  acknowledged,        \* history: creations that clients were told of
  unaudited            \* history: writes whose audit row was never inserted

vars == <<state, external_id, outbox_events, transaction_events,
          idempotency_keys, call, acknowledged, unaudited>>

-----------------------------------------------------------------------------
(***************************************************************************)
(* TransactionEvent.  A Failed event carries a reason and no states; data  *)
(* is the transaction the handler serialises, of which we keep the state.  *)
(***************************************************************************)
EventRow ==
  [transaction_id : TxnIds, type : {"Created", "StateChanged", "Failed"},
   from : States \cup {None}, to : States \cup {None}, data : States]

CreatedEvent(t) ==
  [transaction_id |-> t, type |-> "Created",
   from |-> None, to |-> None, data |-> "PENDING"]

(* Mutant: from and to exchanged.                                          *)
SwappedStateChangeEvent(t, f, s, d) ==
  [transaction_id |-> t, type |-> "StateChanged",
   from |-> s, to |-> f, data |-> d]

StateChangeEvent(t, f, s, d) ==
  IF s = "FAILED"
  THEN [transaction_id |-> t, type |-> "Failed",
        from |-> None, to |-> None, data |-> d]
  ELSE [transaction_id |-> t, type |-> "StateChanged",
        from |-> f, to |-> s, data |-> d]

(***************************************************************************)
(* A handler: idle, or between two calls of create_transaction ("checked"  *)
(* to "locked") or of a transition_to_* function ("read" to "reread").     *)
(***************************************************************************)
Idle == [pc |-> "idle", ext |-> None, txn |-> None,
         to |-> None, from |-> None, data |-> None]

Call == [pc : {"idle", "checked", "inserted", "staged", "created", "locked",
               "read", "updated", "reread"},
         ext : ExternalIds \cup {None}, txn : TxnIds \cup {None},
         to : Terminal \cup {None}, from : States \cup {None},
         data : States \cup {None}]

At(h, pc)  == call[h].pc = pc
Goto(h, pc) == call' = [call EXCEPT ![h].pc = pc]
Return(h)  == call' = [call EXCEPT ![h] = Idle]

(* TransactionStateMachine::can_transition_to.  Mutant: a FAILED payment   *)
(* may be tried again.                                                     *)
FailedMayBeRetried(f, s) == f \in {"PENDING", "FAILED"} /\ s \in Terminal

CanTransitionTo(f, s) == f = "PENDING" /\ s \in Terminal

(* Handlers whose database transaction has inserted a row, uncommitted.    *)
HoldsInsert(h) == call[h].pc \in {"inserted", "staged"}

(* The UNIQUE constraint: an insert fails if a committed row has its key,  *)
(* and waits while an uncommitted insert of another transaction holds it.  *)
(* Mutant: the column is not UNIQUE.                                       *)
NoUniqueConstraint(x) == FALSE

ExternalIdTaken(x) ==
  \E t \in TxnIds : state[t] # "ABSENT" /\ external_id[t] = x

ExternalIdHeld(x) ==
  \E h \in Handlers : HoldsInsert(h) /\ call[h].ext = x

Unused(t) == /\ state[t] = "ABSENT"
             /\ \A h \in Handlers : HoldsInsert(h) => call[h].txn # t

Init ==
  /\ state = [t \in TxnIds |-> "ABSENT"]
  /\ external_id = [t \in TxnIds |-> None]
  /\ outbox_events = {}
  /\ transaction_events = {}
  /\ idempotency_keys = {}
  /\ call = [h \in Handlers |-> Idle]
  /\ acknowledged = {}
  /\ unaudited = {}

-----------------------------------------------------------------------------
(***************************************************************************)
(* POST /transactions.                                                     *)
(***************************************************************************)
(* EXISTS on the idempotency key.  If it is set, or Redis fails, the       *)
(* request is answered with an error and nothing has changed.              *)
(* Mutant: the key is set here, before the transaction is there.           *)
SetLockFirst(h, x) ==
  /\ At(h, "idle")
  /\ x \notin idempotency_keys
  /\ idempotency_keys' = idempotency_keys \cup {x}
  /\ call' = [call EXCEPT ![h].pc = "checked", ![h].ext = x]
  /\ UNCHANGED <<state, external_id, outbox_events, transaction_events,
                 acknowledged, unaudited>>

CheckIdempotency(h, x) ==
  /\ At(h, "idle")
  /\ x \notin idempotency_keys
  /\ call' = [call EXCEPT ![h].pc = "checked", ![h].ext = x]
  /\ UNCHANGED <<state, external_id, outbox_events, transaction_events,
                 idempotency_keys, acknowledged, unaudited>>

(* BEGIN; INSERT INTO transactions, with a new UUID, visible to nobody.    *)
InsertTransaction(h, t) ==
  /\ At(h, "checked")
  /\ ~ExternalIdTaken(call[h].ext)
  /\ ~ExternalIdHeld(call[h].ext)
  /\ Unused(t)
  /\ call' = [call EXCEPT ![h].pc = "inserted", ![h].txn = t]
  /\ UNCHANGED <<state, external_id, outbox_events, transaction_events,
                 idempotency_keys, acknowledged, unaudited>>

(* The INSERT violates the UNIQUE constraint: 400, transaction rolled back. *)
(* Mutant: the second request waits until the first transaction is gone.   *)
WaitForDuplicate(h) == FALSE

RefuseDuplicate(h) ==
  /\ At(h, "checked")
  /\ ExternalIdTaken(call[h].ext)
  /\ Return(h)
  /\ UNCHANGED <<state, external_id, outbox_events, transaction_events,
                 idempotency_keys, acknowledged, unaudited>>

(* add_event: INSERT INTO outbox_events, in the same transaction.          *)
AddOutboxEvent(h) ==
  /\ At(h, "inserted")
  /\ Goto(h, "staged")
  /\ UNCHANGED <<state, external_id, outbox_events, transaction_events,
                 idempotency_keys, acknowledged, unaudited>>

(* COMMIT: both rows become visible.  Mutant: the transaction commits with *)
(* or without its outbox row.                                              *)
CommitBeforeOutboxRow(h) ==
  /\ HoldsInsert(h)
  /\ state' = [state EXCEPT ![call[h].txn] = "PENDING"]
  /\ external_id' = [external_id EXCEPT ![call[h].txn] = call[h].ext]
  /\ outbox_events' = IF At(h, "staged") THEN outbox_events \cup {call[h].txn}
                                         ELSE outbox_events
  /\ Goto(h, "created")
  /\ UNCHANGED <<transaction_events, idempotency_keys, acknowledged, unaudited>>

CommitCreate(h) ==
  /\ At(h, "staged")
  /\ state' = [state EXCEPT ![call[h].txn] = "PENDING"]
  /\ external_id' = [external_id EXCEPT ![call[h].txn] = call[h].ext]
  /\ outbox_events' = outbox_events \cup {call[h].txn}
  /\ Goto(h, "created")
  /\ UNCHANGED <<transaction_events, idempotency_keys, acknowledged, unaudited>>

(* SETEX on the idempotency key; its failure is logged and ignored.        *)
SetIdempotencyLock(h) ==
  /\ At(h, "created")
  /\ Goto(h, "locked")
  /\ \/ idempotency_keys' = idempotency_keys \cup {call[h].ext}
     \/ UNCHANGED idempotency_keys
  /\ UNCHANGED <<state, external_id, outbox_events, transaction_events,
                 acknowledged, unaudited>>

(* emit_event(Created), whose failure is logged and ignored; the WebSocket *)
(* broadcast; 200 with the new transaction.                                *)
EmitCreated(h) ==
  /\ At(h, "locked")
  /\ \/ /\ transaction_events' =
             transaction_events \cup {CreatedEvent(call[h].txn)}
        /\ UNCHANGED unaudited
     \/ /\ unaudited' = unaudited \cup {<<call[h].txn, "PENDING">>}
        /\ UNCHANGED transaction_events
  /\ acknowledged' = acknowledged \cup {<<call[h].ext, call[h].txn>>}
  /\ Return(h)
  /\ UNCHANGED <<state, external_id, outbox_events, idempotency_keys>>

(* Redis drops the key when its TTL of five minutes ends.                  *)
ExpireKey(x) ==
  /\ x \in idempotency_keys
  /\ idempotency_keys' = idempotency_keys \ {x}
  /\ UNCHANGED <<state, external_id, outbox_events, transaction_events,
                 call, acknowledged, unaudited>>

-----------------------------------------------------------------------------
(***************************************************************************)
(* POST /transactions/{t}/commit, /fail and /cancel: transition_to_* with  *)
(* s = COMMITTED, FAILED and CANCELLED.                                    *)
(***************************************************************************)
(* get_transaction, then the check on the row it returned.  An unknown id  *)
(* or a refused transition is answered with 400 and changes nothing.       *)
ReadTransaction(h, t, s) ==
  /\ At(h, "idle")
  /\ state[t] # "ABSENT"
  /\ CanTransitionTo(state[t], s)
  /\ call' = [call EXCEPT ![h].pc = "read", ![h].txn = t,
                          ![h].to = s, ![h].from = state[t]]
  /\ UNCHANGED <<state, external_id, outbox_events, transaction_events,
                 idempotency_keys, acknowledged, unaudited>>

(* UPDATE transactions SET state WHERE id: the state read is not compared. *)
(* Mutant: the UPDATE's error is logged and ignored.                       *)
IgnoreFailedUpdate(h) ==
  /\ At(h, "read")
  /\ state' \in {state, [state EXCEPT ![call[h].txn] = call[h].to]}
  /\ Goto(h, "updated")
  /\ UNCHANGED <<external_id, outbox_events, transaction_events,
                 idempotency_keys, acknowledged, unaudited>>

UpdateTransactionState(h) ==
  /\ At(h, "read")
  /\ state' = [state EXCEPT ![call[h].txn] = call[h].to]
  /\ Goto(h, "updated")
  /\ UNCHANGED <<external_id, outbox_events, transaction_events,
                 idempotency_keys, acknowledged, unaudited>>

(* update_transaction_state reads the row again and returns it.            *)
RereadTransaction(h) ==
  /\ At(h, "updated")
  /\ call' = [call EXCEPT ![h].pc = "reread", ![h].data = state[call[h].txn]]
  /\ UNCHANGED <<state, external_id, outbox_events, transaction_events,
                 idempotency_keys, acknowledged, unaudited>>

(* emit_event, then 200 with the row read again.                           *)
EmitStateChange(h) ==
  /\ At(h, "reread")
  /\ transaction_events' = transaction_events \cup
       {StateChangeEvent(call[h].txn, call[h].from, call[h].to, call[h].data)}
  /\ Return(h)
  /\ UNCHANGED <<state, external_id, outbox_events, idempotency_keys,
                 acknowledged, unaudited>>

-----------------------------------------------------------------------------
(***************************************************************************)
(* A handler stops at an await, or all those of a process that is killed.  *)
(* PostgreSQL rolls their transactions back; what was committed stays.     *)
(***************************************************************************)
Unreported(h) ==
  IF call[h].pc \in {"created", "locked"} THEN {<<call[h].txn, "PENDING">>}
  ELSE IF call[h].pc \in {"updated", "reread"} THEN {<<call[h].txn, call[h].to>>}
  ELSE {}

CutOff(H) ==
  /\ \E h \in H : ~At(h, "idle")
  /\ unaudited' = unaudited \cup UNION {Unreported(h) : h \in H}
  /\ call' = [h \in Handlers |-> IF h \in H THEN Idle ELSE call[h]]
  /\ UNCHANGED <<external_id, outbox_events, transaction_events,
                 idempotency_keys, acknowledged>>

(* Mutant: a change whose audit row is missing is taken back.              *)
UndoUnreported(H) ==
  /\ CutOff(H)
  /\ state' = [t \in TxnIds |->
       IF \E h \in H : call[h].pc \in {"updated", "reread"} /\ call[h].txn = t
       THEN "PENDING" ELSE state[t]]

Interrupt(H) == CutOff(H) /\ UNCHANGED state

(* The calls a handler makes once its request has begun.                   *)
Proceed(h) ==
  \/ \E t \in TxnIds : InsertTransaction(h, t)
  \/ RefuseDuplicate(h)
  \/ AddOutboxEvent(h)
  \/ CommitCreate(h)
  \/ SetIdempotencyLock(h)
  \/ EmitCreated(h)
  \/ UpdateTransactionState(h)
  \/ RereadTransaction(h)
  \/ EmitStateChange(h)

Next ==
  \/ \E h \in Handlers :
       \/ \E x \in ExternalIds : CheckIdempotency(h, x)
       \/ \E t \in TxnIds, s \in Terminal : ReadTransaction(h, t, s)
       \/ Proceed(h)
  \/ \E H \in SUBSET Handlers : Interrupt(H)
  \/ \E x \in ExternalIds : ExpireKey(x)

Spec == Init /\ [][Next]_vars

(***************************************************************************)
(* Fairness.  Every call to PostgreSQL or Redis returns, and tokio polls   *)
(* the handler again: weak fairness of Proceed.  An insert that waits for  *)
(* another transaction's key is woken in the order of PostgreSQL's lock    *)
(* queue, so it is not overtaken for ever: strong fairness.  No request    *)
(* need be made, and none need be interrupted.                             *)
(***************************************************************************)
Fairness ==
  \A h \in Handlers :
    /\ WF_vars(Proceed(h))
    /\ SF_vars(\E t \in TxnIds : InsertTransaction(h, t))

FairSpec == Spec /\ Fairness

-----------------------------------------------------------------------------
(* The variables range over the values the code can put in them.           *)
TypeOK ==
  /\ state \in [TxnIds -> States \cup {"ABSENT"}]
  /\ external_id \in [TxnIds -> ExternalIds \cup {None}]
  /\ outbox_events \subseteq TxnIds
  /\ transaction_events \subseteq EventRow
  /\ idempotency_keys \subseteq ExternalIds
  /\ call \in [Handlers -> Call]
  /\ acknowledged \subseteq ExternalIds \X TxnIds
  /\ unaudited \subseteq TxnIds \X States

(* Duplicate requests are handled once: however the duplicates race past   *)
(* the Redis check, and after its key has expired, an external_id has one  *)
(* transaction, and every client told of a creation was told of that one.  *)
IdempotentCreate ==
  /\ \A t, u \in TxnIds :
       state[t] # "ABSENT" /\ state[u] # "ABSENT"
         /\ external_id[t] = external_id[u] => t = u
  /\ \A a \in acknowledged :
       state[a[2]] # "ABSENT" /\ external_id[a[2]] = a[1]

(* A live idempotency key stands for a transaction that exists: a creation *)
(* that failed or was cut off never makes Redis refuse the client's retry. *)
KeyGuardsTransaction == \A x \in idempotency_keys : ExternalIdTaken(x)

(* The outbox row and the transaction are written together or not at all,  *)
(* wherever create_transaction is cut off.                                 *)
OutboxMatchesTransactions ==
  \A t \in TxnIds : t \in outbox_events <=> state[t] # "ABSENT"

(* The audit trail accounts for each transaction's creation and for the    *)
(* state it is in: the row is there, or its writer is about to insert it,  *)
(* or its writer is known to have been cut off before it could.            *)
Reports(e) ==
  IF e.type = "Created" THEN "PENDING"
  ELSE IF e.type = "Failed" THEN "FAILED" ELSE e.to

Accounted(t, s) ==
  \/ \E e \in transaction_events : e.transaction_id = t /\ Reports(e) = s
  \/ \E h \in Handlers : <<t, s>> \in Unreported(h)
  \/ <<t, s>> \in unaudited

AuditTrailComplete ==
  \A t \in TxnIds :
    state[t] # "ABSENT" => Accounted(t, "PENDING") /\ Accounted(t, state[t])

(* The audit trail says only what happened: a row exists for committed     *)
(* transactions alone, and one that reports a commit, a failure or a       *)
(* cancellation is never contradicted by a transaction still PENDING.      *)
AuditTrailTruthful ==
  \A e \in transaction_events :
    /\ state[e.transaction_id] # "ABSENT"
    /\ Reports(e) \in Terminal => state[e.transaction_id] \in Terminal

(* Once a transaction is in a terminal state and the handlers that read it *)
(* PENDING have written or stopped, no request ever changes it again.      *)
Settled(t) == /\ state[t] \in Terminal
              /\ \A h \in Handlers : At(h, "read") => call[h].txn # t

SettledIsFinal ==
  [][\A t \in TxnIds :
       Settled(t) => Settled(t)' /\ state'[t] = state[t]]_vars

(* Refinement: the life of a payment as outsiders see it.  An outcome may  *)
(* still be another one while a handler that read PENDING has not written. *)
PhaseOf(t) == IF state[t] = "ABSENT" THEN "none"
              ELSE IF state[t] = "PENDING" THEN "pending"
              ELSE IF Settled(t) THEN "settled" ELSE "decided"

OutcomeOf(t) == IF state[t] \in Terminal THEN state[t] ELSE None

Life == INSTANCE PaymentLife WITH
          Payments <- TxnIds, Keys <- ExternalIds, Outcomes <- Terminal,
          phase    <- [t \in TxnIds |-> PhaseOf(t)],
          key      <- external_id,
          outcome  <- [t \in TxnIds |-> OutcomeOf(t)],
          told     <- acknowledged,
          trail    <- {<<e.transaction_id, Reports(e)>> : e \in transaction_events}

(* The service implements PaymentLife: for a client, a payment is created  *)
(* once, never vanishes, is never PENDING again once it has an outcome,    *)
(* and keeps the outcome that it has when it is settled.                   *)
ImplementsPayments == Life!Spec

(* "Terminal states cannot transition" (state_machine.rs, can_transition_to *)
(* and the state diagram of README.md), whatever requests overlap.          *)
TerminalStatesFinal ==
  [][\A t \in TxnIds : state[t] \in Terminal => state'[t] = state[t]]_vars

(* Every request is answered or cut off: a duplicate that waits for the    *)
(* first request's uncommitted insert does not wait for ever.              *)
RequestsFinish ==
  \A h \in Handlers : ~At(h, "idle") ~> At(h, "idle")
=============================================================================
