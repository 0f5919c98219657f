------------------------------ MODULE Support ------------------------------
(***************************************************************************)
(* The services other requests lean on: card checks, exchange rates, tax,  *)
(* users, webhooks and the dashboards' feed.  They share no state; as in   *)
(* module Billing, a behaviour is of one of them, chosen at the start, and *)
(* the others are at rest.                                                 *)
(***************************************************************************)
EXTENDS Integers, FiniteSets, Sequences

CONSTANTS None,
          Cards, Suspicious, Declined, ThisMonth,  \* CardChecks
          Handlers, Rates, LastDay,                \* ExchangeRates
          TaxRates, Places, Percentages,           \* TaxRates
          TaxedAmounts,
          Users, Emails,                           \* Users
          Endpoints, Events, Type(_),              \* Webhooks
          Clients, Capacity, LastMessage           \* DashboardFeed

ASSUME SupportAssumption ==
  /\ LastDay \in Nat \ {0} /\ None \notin Rates
  /\ IsFiniteSet(Endpoints) /\ Endpoints = 1 .. Cardinality(Endpoints)
  /\ Capacity \in Nat \ {0} /\ LastMessage \in Nat
  /\ IsFiniteSet(TaxRates) /\ TaxRates = 1 .. Cardinality(TaxRates)
  /\ \A c \in Cards : c.pan \in Seq(0 .. 9)
  /\ Percentages \subseteq Nat
  /\ TaxedAmounts \subseteq Int

VARIABLES card, answer,
          exchange_rates, day, call,
          tax_rate, calculation,
          users, is_verified, registering, told,
          webhooks, webhook_events, delivery, sending, posted, cut,
          tail, socket, task, next, since, received,
          active  \* the service this behaviour is about

C == INSTANCE CardChecks
R == INSTANCE ExchangeRates
T == INSTANCE TaxRates
U == INSTANCE Users
W == INSTANCE Webhooks
D == INSTANCE DashboardFeed

Services == {"cards", "rates", "tax", "users", "webhooks", "dashboards"}

Init ==
  /\ active \in Services
  /\ C!Init /\ R!Init /\ T!Init /\ U!Init /\ W!Init /\ D!Init

cardVars == <<card, answer>>
rateVars == <<exchange_rates, day, call>>
taxVars == <<tax_rate, calculation>>
userVars == <<users, is_verified, registering, told>>
webhookVars == <<webhooks, webhook_events, delivery, sending, posted, cut>>
feedVars == <<tail, socket, task, next, since, received>>
vars == <<cardVars, rateVars, taxVars, userVars, webhookVars, feedVars, active>>

(* The services other than the active one do nothing.                      *)
Rest ==
  /\ UNCHANGED active
  /\ active # "cards" => UNCHANGED cardVars
  /\ active # "rates" => UNCHANGED rateVars
  /\ active # "tax" => UNCHANGED taxVars
  /\ active # "users" => UNCHANGED userVars
  /\ active # "webhooks" => UNCHANGED webhookVars
  /\ active # "dashboards" => UNCHANGED feedVars

Next ==
  \/ active = "cards" /\ C!Next /\ Rest
  \/ active = "rates" /\ R!Next /\ Rest
  \/ active = "tax" /\ T!Next /\ Rest
  \/ active = "users" /\ U!Next /\ Rest
  \/ active = "webhooks" /\ W!Next /\ Rest
  \/ active = "dashboards" /\ D!Next /\ Rest

Spec == Init /\ [][Next]_vars

(* CardChecks: single wrong digits and most swaps are detected.            *)
SlipsAreCaught == C!SlipsAreCaught

(* ExchangeRates: a quote was right at some moment of its request.         *)
QuotesAreCurrent == R!QuotesAreCurrent

(* TaxRates: adding a tax and taking it out agree.                         *)
TaxIsReversible == T!TaxIsReversible

(* Users: an email has one user, whom its client was told of.              *)
OneUserPerEmail == U!OneUserPerEmail

(* Webhooks: what the rows of webhook_events say of the POSTs.             *)
RowsMatchPosts == W!RowsMatchPosts

(* DashboardFeed: a dashboard's feed is complete up to its end.            *)
FeedHasNoGaps == D!FeedHasNoGaps
=============================================================================
