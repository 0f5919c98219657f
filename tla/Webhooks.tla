------------------------------ MODULE Webhooks ------------------------------
(***************************************************************************)
(* WebhookService: deliver_event lists the endpoints, and for each one     *)
(* subscribed to the event inserts a row of webhook_events and spawns a    *)
(* task that POSTs to it.  What the POST comes to is thrown away: a row    *)
(* stays PENDING, and its status is therefore no part of the model.        *)
(***************************************************************************)
EXTENDS Integers, FiniteSetsExt

CONSTANTS Endpoints,   \* 1 .. n, in the order of their creation
          Events,      \* events that occur, each delivered once by its handler
          Type(_)      \* the type of an event

VARIABLES webhooks,        \* the types each endpoint subscribes to; {} before it exists
          webhook_events,  \* rows: <<event, endpoint>>
          delivery,        \* each event's deliver_event: pc, and the endpoints left
          sending,         \* tasks spawned and not yet run
          posted,          \* POSTs made (history)
          cut              \* rows whose task was never spawned, or killed (history)

webhookVars == <<webhooks, webhook_events, delivery, sending, posted, cut>>

Init ==
  /\ webhooks = [w \in Endpoints |-> {}]
  /\ webhook_events = {}
  /\ delivery = [e \in Events |-> [pc |-> "none", todo |-> {}]]
  /\ sending = {} /\ posted = {} /\ cut = {}

-----------------------------------------------------------------------------
(* create_webhook: INSERT; nothing deactivates an endpoint.                *)
CreateWebhook(w, types) ==
  /\ webhooks[w] = {}
  /\ \A v \in Endpoints : v < w => webhooks[v] # {}
  /\ webhooks' = [webhooks EXCEPT ![w] = types]
  /\ UNCHANGED <<webhook_events, delivery, sending, posted, cut>>

(* list_webhooks, the newest first, and the test of the loop.              *)
Subscribed(e) == {w \in Endpoints : Type(e) \in webhooks[w] \/ "*" \in webhooks[w]}
Newest(e) == Max(delivery[e].todo)

ListWebhooks(e) ==
  /\ delivery[e].pc = "none"
  /\ delivery' = [delivery EXCEPT ![e] = [pc |-> "insert", todo |-> Subscribed(e)]]
  /\ UNCHANGED <<webhooks, webhook_events, sending, posted, cut>>

(* INSERT; its error ends the loop, for the endpoints left as well.        *)
(* Mutant: the error is only logged.                                       *)
SpawnAnyway(inserted) == "spawn"
AfterInsert(inserted) == IF inserted THEN "spawn" ELSE "done"

InsertEvent(e, inserted) ==
  /\ delivery[e].pc = "insert" /\ delivery[e].todo # {}
  /\ webhook_events' =
       IF inserted THEN webhook_events \cup {<<e, Newest(e)>>} ELSE webhook_events
  /\ delivery' = [delivery EXCEPT ![e].pc = AfterInsert(inserted)]
  /\ UNCHANGED <<webhooks, sending, posted, cut>>

(* tokio::spawn, and on to the next endpoint.                              *)
Spawn(e) ==
  /\ delivery[e].pc = "spawn"
  /\ sending' = sending \cup {<<e, Newest(e)>>}
  /\ delivery' = [delivery EXCEPT ![e] = [pc |-> "insert", todo |-> @.todo \ {Newest(e)}]]
  /\ UNCHANGED <<webhooks, webhook_events, posted, cut>>

(* deliver_webhook_http: one attempt, whatever its result.                 *)
Post(task) ==
  /\ task \in sending
  /\ sending' = sending \ {task}
  /\ posted' = posted \cup {task}
  /\ UNCHANGED <<webhooks, webhook_events, delivery, cut>>

(* Rows whose INSERT has run and whose task is not spawned yet.            *)
Unspawned(events) ==
  {<<e, Newest(e)>> : e \in {x \in events : delivery[x].pc = "spawn"}}

(* The handler that delivers is dropped with its request, or is told of an *)
(* error of an INSERT that has taken effect.                               *)
Interrupt(e) ==
  /\ delivery[e].pc \in {"insert", "spawn"}
  /\ delivery' = [delivery EXCEPT ![e].pc = "done"]
  /\ cut' = cut \cup Unspawned({e})
  /\ UNCHANGED <<webhooks, webhook_events, sending, posted>>

(* The process stops, and its tasks with it; nothing reads the rows again. *)
Crash ==
  /\ sending' = {}
  /\ cut' = cut \cup sending \cup Unspawned(Events)
  /\ delivery' = [e \in Events |->
       IF delivery[e].pc = "none" THEN delivery[e] ELSE [delivery[e] EXCEPT !.pc = "done"]]
  /\ UNCHANGED <<webhooks, webhook_events, posted>>

Next ==
  \/ \E w \in Endpoints, types \in SUBSET ({"*"} \cup {Type(e) : e \in Events}) :
       types # {} /\ CreateWebhook(w, types)
  \/ \E e \in Events :
       \/ ListWebhooks(e) \/ Spawn(e) \/ Interrupt(e)
       \/ \E inserted \in BOOLEAN : InsertEvent(e, inserted)
  \/ \E task \in sending : Post(task)
  \/ Crash

Spec == Init /\ [][Next]_webhookVars

-----------------------------------------------------------------------------
(* What webhook_events can be trusted for, although nothing updates it:    *)
(* no endpoint is called of which there is no row, and a row that is old   *)
(* and was not sent belongs to a handler or a process that was cut off.    *)
RowsMatchPosts ==
  /\ posted \cup sending \subseteq webhook_events
  /\ webhook_events \subseteq posted \cup sending \cup cut \cup Unspawned(Events)
  /\ cut \cap posted = {}
=============================================================================
