-------------------------- MODULE PaymentPipeline ---------------------------
(***************************************************************************)
(* The payment processor as a whole, and as often as it is deployed: the   *)
(* relay of OutboxRelay, and beside it, in every instance of the service,  *)
(* the request handlers of PaymentTransactions.  All instances share       *)
(* PostgreSQL and Redis.  The events are the transactions: one's outbox    *)
(* row appears with the COMMIT of its creation.  An instance that stops    *)
(* cuts off its handlers together with its relay.                          *)
(*                                                                         *)
(* A step is one of OutboxRelay, one of PaymentTransactions, or, of the    *)
(* two that concern both, one of each.                                     *)
(***************************************************************************)
EXTENDS OutboxRelay

CONSTANTS Handlers,       \* request handlers of all instances
          InstanceOf(_),  \* the one, of Processors, in which a handler runs
          ExternalIds

ASSUME ProcessorsExist == IsFiniteSet(Processors) /\ Processors # {}
ASSUME NoneIsNoKey ==
  None \notin ExternalIds \cup {"PENDING", "COMMITTED", "FAILED", "CANCELLED"}

VARIABLES
  state, external_id, transaction_events, idempotency_keys, call,
  acknowledged, unaudited                             \* PaymentTransactions

(* The transactions that have a row in outbox_events.                      *)
outbox_events == {t \in Events : status[t] # "ABSENT"}

T == INSTANCE PaymentTransactions WITH TxnIds <- Events

transactionVars == <<state, external_id, transaction_events, idempotency_keys, call,
                     acknowledged, unaudited>>
pipelineVars == <<transactionVars, vars>>

PipelineInit == Init /\ T!Init

-----------------------------------------------------------------------------
(* COMMIT of create_transaction: the row that add_event has inserted       *)
(* becomes visible to every relay.                                         *)
CommitCreate(h) ==
  /\ T!At(h, "staged")
  /\ AddEvent(call[h].txn)
  /\ T!CommitCreate(h)

(* An instance is killed: PostgreSQL rolls its transactions back.          *)
Inside(i) == {h \in Handlers : InstanceOf(h) = i}

StopInstance(i) ==
  /\ Crash(i)
  /\ \/ T!Interrupt(Inside(i))
     \/ (\A h \in Inside(i) : T!At(h, "idle")) /\ UNCHANGED transactionVars

(* Handlers run while their instance does.                                 *)
IsUp(h) == pc[InstanceOf(h)] # "stopped"

Proceed(h) ==
  \/ CommitCreate(h)
  \/ UNCHANGED vars /\ T!Proceed(h)

HandlerStep(h) ==
  /\ UNCHANGED vars
  /\ \/ T!Interrupt({h})
     \/ /\ IsUp(h)
        /\ \/ \E x \in ExternalIds : T!CheckIdempotency(h, x)
           \/ \E t \in Events, s \in T!Terminal : T!ReadTransaction(h, t, s)

RelayStep(i) ==
  /\ UNCHANGED transactionVars
  /\ \/ Start(i)
     \/ \E B \in SUBSET Events : GetPendingEvents(i, B)
     \/ \E t \in Events : MarkAsProcessing(i, t)
     \/ PublishEvent(i) \/ PublishFails(i)
     \/ MarkAsCompleted(i) \/ MarkAsFailed(i) \/ MarkFails(i)

ExpireKey(x) == UNCHANGED vars /\ T!ExpireKey(x)

PipelineNext ==
  \/ \E h \in Handlers : Proceed(h) \/ HandlerStep(h)
  \/ \E i \in Processors : RelayStep(i) \/ StopInstance(i)
  \/ \E x \in ExternalIds : ExpireKey(x)

PipelineSpec == PipelineInit /\ [][PipelineNext]_pipelineVars

(* The fairness of PaymentTransactions.  None is asked of the relays.      *)
PipelineFairness ==
  \A h \in Handlers :
    /\ WF_pipelineVars(Proceed(h))
    /\ SF_pipelineVars(UNCHANGED vars /\ \E t \in Events : T!InsertTransaction(h, t))

FairPipelineSpec == PipelineSpec /\ PipelineFairness

-----------------------------------------------------------------------------
(* Every request is answered or cut off, though instances stop under it.   *)
(* The other properties are those of OutboxRelay.                          *)
RequestsFinish == T!RequestsFinish
=============================================================================
