---------------------------- MODULE Subscriptions ---------------------------
(***************************************************************************)
(* SubscriptionService: a subscription and its item are inserted by two    *)
(* statements; cancel_subscription reads the subscription and writes back  *)
(* a status, either CANCELED or, at the period's end, the one it has read. *)
(* process_recurring_billing is called by nobody and left out.             *)
(***************************************************************************)
CONSTANTS Subscriptions, Handlers, None

VARIABLES subscription,  \* subscriptions: the rows, or None
          gone_subscriptions,       \* the subscriptions deleted with their customer
          items,         \* subscriptions that have their item
          subscribing,   \* subscriptions whose item is still to be inserted
          ending         \* what each cancel_subscription handler has read

subscriptionVars == <<subscription, gone_subscriptions, items, subscribing, ending>>

Init ==
  /\ subscription = [s \in Subscriptions |-> None]
  /\ gone_subscriptions = {}
  /\ items = {}
  /\ subscribing = {}
  /\ ending = [h \in Handlers |-> None]

-----------------------------------------------------------------------------
(* create_subscription: the price exists (no code deletes one), INSERT.    *)
CreateSubscription(s, trial) ==
  /\ subscription[s] = None /\ s \notin gone_subscriptions
  /\ subscription' = [subscription EXCEPT ![s] =
       [status |-> IF trial THEN "TRIALING" ELSE "ACTIVE",
        cancel_at_period_end |-> FALSE, canceled_at |-> FALSE]]
  /\ subscribing' = subscribing \cup {s}
  /\ UNCHANGED <<gone_subscriptions, items, ending>>

CreateItem(s) ==
  /\ s \in subscribing /\ subscription[s] # None
  /\ items' = items \cup {s}
  /\ subscribing' = subscribing \ {s}
  /\ UNCHANGED <<subscription, gone_subscriptions, ending>>

InterruptCreate(s) ==
  /\ s \in subscribing
  /\ subscribing' = subscribing \ {s}
  /\ UNCHANGED <<subscription, gone_subscriptions, items, ending>>

(* cancel_subscription: SELECT; refused if it is cancelled already.        *)
(* Mutant: at the period's end it is not refused.                          *)
NowOnly(s, at_period_end) == at_period_end \/ subscription[s].status # "CANCELED"
IsCancelable(s, at_period_end) == subscription[s].status # "CANCELED"

ReadSubscription(h, s, at_period_end) ==
  /\ ending[h] = None
  /\ subscription[s] # None
  /\ IsCancelable(s, at_period_end)
  /\ ending' = [ending EXCEPT ![h] =
       [subscription |-> s, at_period_end |-> at_period_end, status |-> subscription[s].status]]
  /\ UNCHANGED <<subscription, gone_subscriptions, items, subscribing>>

(* UPDATE: the three columns are written together, whatever they are now;  *)
(* no row is left of a subscription deleted meanwhile.                     *)
CancelSubscription(h) ==
  /\ ending[h] # None
  /\ LET late == ending[h].at_period_end IN
       subscription' = [subscription EXCEPT ![ending[h].subscription] =
         IF @ = None THEN None
         ELSE [status |-> IF late THEN ending[h].status ELSE "CANCELED",
               cancel_at_period_end |-> late, canceled_at |-> ~late]]
  /\ ending' = [ending EXCEPT ![h] = None]
  /\ UNCHANGED <<gone_subscriptions, items, subscribing>>

InterruptCancel(h) ==
  /\ ending[h] # None
  /\ ending' = [ending EXCEPT ![h] = None]
  /\ UNCHANGED <<subscription, gone_subscriptions, items, subscribing>>

(* delete_customer: the DELETE cascades to the customer's subscriptions    *)
(* and to their items.                                                     *)
DeleteCustomerOf(s) ==
  /\ subscription[s] # None
  /\ subscription' = [subscription EXCEPT ![s] = None]
  /\ gone_subscriptions' = gone_subscriptions \cup {s}
  /\ items' = items \ {s}
  /\ UNCHANGED <<subscribing, ending>>

Next ==
  \/ \E s \in Subscriptions :
       \/ DeleteCustomerOf(s)
       \/ CreateItem(s) \/ InterruptCreate(s)
       \/ \E trial \in BOOLEAN : CreateSubscription(s, trial)
       \/ \E h \in Handlers, at_period_end \in BOOLEAN : ReadSubscription(h, s, at_period_end)
  \/ \E h \in Handlers : CancelSubscription(h) \/ InterruptCancel(h)

Spec == Init /\ [][Next]_subscriptionVars

-----------------------------------------------------------------------------
(* A cancelled subscription that no request which read it earlier is about *)
(* to write back stays cancelled, and keeps when it was cancelled, until   *)
(* its customer is deleted.                                                *)
CanceledIsFinal ==
  [][\A s \in Subscriptions :
       /\ subscription[s] # None /\ subscription[s].status = "CANCELED"
       /\ \A h \in Handlers : ending[h] # None => ending[h].subscription # s
       => \/ subscription'[s] = subscription[s] /\ subscription[s].canceled_at
          \/ subscription'[s] = None /\ s \in gone_subscriptions']_subscriptionVars
=============================================================================
