------------------------------ MODULE Billing ------------------------------
(***************************************************************************)
(* The services beside payments.  They share no state, so that a behaviour *)
(* of all of them is an interleaving of a behaviour of each: this module   *)
(* chooses one at the start and leaves the others at rest.                 *)
(***************************************************************************)
EXTENDS Integers, FiniteSets

CONSTANTS Handlers, None,
          Invoices, Payments, MaxI64,           \* Invoices
          Bills, Amounts,
          Payouts,                              \* Payouts
          Disputes,                             \* Disputes
          Customers, Methods,                   \* PaymentMethods
          Fields, FieldUpdates,                 \* Customers, with those
          Limit, Days,                          \* RateLimiter
          Accounts, Transfers, Updates,         \* ConnectAccounts
          Subscriptions                         \* Subscriptions

(* The limit is 100; None, the absence of a row, is no number, none of the *)
(* statuses rows have, and no row.                                         *)
ASSUME BillingAssumption ==
  /\ IsFiniteSet(Handlers)
  /\ Limit \in Nat \ {0} /\ Days \in Nat \ {0}
  /\ None \notin Int
  /\ None \notin {"PENDING", "IN_TRANSIT", "NEEDS_RESPONSE", "UNDER_REVIEW", "WON", "LOST",
                   "CHARGE_REFUNDED", "TRIALING", "ACTIVE", "CANCELED"}
  /\ None \notin [customer : Customers, is_default : BOOLEAN]
  /\ None \notin [status : {"DRAFT", "OPEN", "PAID"}, lines : Nat,
                   amount_due : Int, amount_paid : Int]
  /\ MaxI64 \in Nat /\ Amounts \subseteq -MaxI64 - 1 .. MaxI64
  /\ \A bill \in Bills : bill.lines \in Nat /\ bill.amount \in -MaxI64 - 1 .. MaxI64

VARIABLES invoice, line_items, gone_invoices, creating, paying,
          payout, sending, canceling,
          dispute, evidence, submitted, submitting,
          method, known, gone_customers, changing, raced,
          customer, deleted, editing, asked, overlapped,
          request_count, today, checking, allowed,
          connect_account, transfer, transferring, updating, requested, contested,
          subscription, gone_subscriptions, items, subscribing, ending,
          active  \* the service this behaviour is about

I == INSTANCE Invoices
P == INSTANCE Payouts
D == INSTANCE Disputes
M == INSTANCE PaymentMethods
U == INSTANCE Customers
R == INSTANCE RateLimiter
C == INSTANCE ConnectAccounts
S == INSTANCE Subscriptions

Services == {"invoices", "payouts", "disputes", "methods", "customers", "rate", "connect",
             "subscriptions"}

Init ==
  /\ active \in Services
  /\ I!Init /\ P!Init /\ D!Init /\ M!Init /\ U!Init /\ R!Init /\ C!Init /\ S!Init

invoiceVars == <<invoice, line_items, gone_invoices, creating, paying>>
payoutVars == <<payout, sending, canceling>>
disputeVars == <<dispute, evidence, submitted, submitting>>
methodVars == <<method, known, gone_customers, changing, raced>>
customerVars == <<customer, deleted, editing, asked, overlapped>>
rateVars == <<request_count, today, checking, allowed>>
connectVars == <<connect_account, transfer, transferring, updating, requested, contested>>
subscriptionVars == <<subscription, gone_subscriptions, items, subscribing, ending>>
vars == <<invoiceVars, payoutVars, disputeVars, methodVars, customerVars, rateVars,
          connectVars, subscriptionVars, active>>

(* The services other than the active one do nothing.                      *)
Rest ==
  /\ UNCHANGED active
  /\ active # "invoices" => UNCHANGED invoiceVars
  /\ active # "payouts" => UNCHANGED payoutVars
  /\ active # "disputes" => UNCHANGED disputeVars
  /\ active # "methods" => UNCHANGED methodVars
  /\ active # "customers" => UNCHANGED customerVars
  /\ active # "rate" => UNCHANGED rateVars
  /\ active # "connect" => UNCHANGED connectVars
  /\ active # "subscriptions" => UNCHANGED subscriptionVars

Next ==
  \/ active = "invoices" /\ I!Next /\ Rest
  \/ active = "payouts" /\ P!Next /\ Rest
  \/ active = "disputes" /\ D!Next /\ Rest
  \/ active = "methods" /\ M!Next /\ Rest
  \/ active = "customers" /\ U!Next /\ Rest
  \/ active = "rate" /\ R!Next /\ Rest
  \/ active = "connect" /\ C!Next /\ Rest
  \/ active = "subscriptions" /\ S!Next /\ Rest

Spec == Init /\ [][Next]_vars

(* The services' properties, under the names their modules give them: what *)
(* each says is written there.                                             *)

(* Invoices: a PAID invoice has been paid.                                 *)
PaidMeansPaid == I!PaidMeansPaid

(* Payouts: a settled payout stays what it is.                             *)
SettledPayoutIsFinal == P!SettledPayoutIsFinal

(* Disputes: a dispute under review has evidence.                          *)
ReviewHasEvidence == D!ReviewHasEvidence

(* Disputes: evidence read after a decision does not reopen the dispute.   *)
DecisionStands == D!DecisionStands

(* PaymentMethods: a customer has one default at most.                     *)
OneDefault == M!OneDefault

(* RateLimiter: how far requests pass the limit.                           *)
AllowedNearLimit == R!AllowedNearLimit

(* ConnectAccounts and Customers: updates that do not overlap are kept.    *)
UpdatesKept == C!UpdatesKept /\ U!FieldsKept

(* Subscriptions: cancelled stays cancelled.                               *)
CanceledIsFinal == S!CanceledIsFinal
=============================================================================
