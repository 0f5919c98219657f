--------------------------- MODULE BillingProofs ---------------------------
(***************************************************************************)
(* What holds of the billing services for any number of requests.  Each    *)
(* has an inductive invariant of its own; PartsStep and PartsInit carry    *)
(* them over to the composition.                                           *)
(***************************************************************************)
EXTENDS Billing, Sums, TLAPS

(* A step of the composition is a step of each service or leaves it alone. *)
LEMMA PartsStep ==
  ASSUME [Next]_vars
  PROVE  /\ [I!Next]_invoiceVars
         /\ [P!Next]_payoutVars
         /\ [D!Next]_disputeVars
         /\ [R!Next]_rateVars
         /\ [S!Next]_subscriptionVars
         /\ [U!Next]_customerVars
         /\ [C!Next]_connectVars
         /\ [M!Next]_methodVars
  BY DEF Next, Rest, vars, invoiceVars, payoutVars, disputeVars, methodVars,
     customerVars, rateVars, connectVars, subscriptionVars

(* The composition starts each component in its own initial state.         *)
LEMMA PartsInit ==
  Init => I!Init /\ P!Init /\ D!Init /\ R!Init /\ S!Init /\ U!Init /\ C!Init /\ M!Init
  BY DEF Init

-----------------------------------------------------------------------------
(* Payouts: whoever is about to cancel a payout has read it as PENDING.    *)
PayoutInv ==
  /\ payout \in [Payouts -> {None, "PENDING", "IN_TRANSIT", "CANCELED"}]
  /\ canceling \in [Handlers -> {None} \cup [payout : Payouts, status : {"PENDING"}]]

(* No step of Payouts breaks its invariant.                                *)
LEMMA PayoutInvStep == ASSUME PayoutInv, [P!Next]_payoutVars PROVE PayoutInv'
<1> USE DEF PayoutInv
<1>1. ASSUME NEW p \in Payouts, NEW h \in Handlers, P!ReadPayout(h, p) PROVE PayoutInv'
  BY <1>1 DEF P!ReadPayout, P!IsCancelable
<1>2. ASSUME NEW p \in Payouts, P!CreatePayout(p) \/ P!SendPayout(p) \/ P!InterruptCreate(p)
      PROVE  PayoutInv'
  BY <1>2 DEF P!CreatePayout, P!SendPayout, P!InterruptCreate
<1>3. ASSUME NEW h \in Handlers, P!CancelPayout(h) \/ P!InterruptCancel(h) PROVE PayoutInv'
  BY <1>3 DEF P!CancelPayout, P!InterruptCancel
<1>4. CASE UNCHANGED payoutVars
  BY <1>4 DEF payoutVars
<1> QED
  BY <1>1, <1>2, <1>3, <1>4 DEF P!Next

(* A payout sent or cancelled stays so, once nobody who read it as PENDING *)
(* is left to write.                                                       *)
THEOREM SettledPayoutsStay == Spec => SettledPayoutIsFinal
<1>1. Init => PayoutInv
  BY PartsInit DEF P!Init, PayoutInv
<1>2. PayoutInv /\ [Next]_vars => PayoutInv'
  BY PartsStep, PayoutInvStep
<1>3. ASSUME PayoutInv, [Next]_vars, NEW p \in Payouts, P!Settled(p)
      PROVE  payout'[p] = payout[p]
  <2> USE DEF PayoutInv, P!Settled
  <2>1. ASSUME NEW q \in Payouts,
               \/ P!CreatePayout(q) \/ P!SendPayout(q) \/ P!InterruptCreate(q)
               \/ \E h \in Handlers : P!ReadPayout(h, q)
        PROVE  payout'[p] = payout[p]
    BY <1>3, <2>1, BillingAssumption
       DEF BillingAssumption, P!CreatePayout, P!SendPayout, P!InterruptCreate, P!ReadPayout
  <2>2. ASSUME NEW h \in Handlers, P!CancelPayout(h) \/ P!InterruptCancel(h)
        PROVE  payout'[p] = payout[p]
    BY <1>3, <2>2 DEF P!CancelPayout, P!InterruptCancel
  <2> QED
    BY <1>3, <2>1, <2>2, PartsStep DEF P!Next, payoutVars
<1>4. PayoutInv /\ [Next]_vars =>
        [\A p \in Payouts : P!Settled(p) => payout'[p] = payout[p]]_payoutVars
  BY <1>3
<1> QED
  BY <1>1, <1>2, <1>4, PTL DEF Spec, SettledPayoutIsFinal, P!SettledPayoutIsFinal, payoutVars, P!payoutVars

-----------------------------------------------------------------------------
(* Disputes: a submission that has inserted its evidence has evidence, and *)
(* so has the dispute it read as being under review.                       *)
DisputeStatuses == D!Decisions \cup {"NEEDS_RESPONSE", "UNDER_REVIEW"}
Submission(h) ==
  submitting[h].pc # "idle" =>
    /\ submitting[h].dispute \in Disputes
    /\ submitting[h].status \in DisputeStatuses
    /\ submitting[h].pc = "inserted" \/ submitting[h].status = "UNDER_REVIEW"
         => submitting[h].dispute \in evidence

DisputeInv ==
  /\ dispute \in [Disputes -> DisputeStatuses \cup {None}]
  /\ submitting = [h \in Handlers |-> submitting[h]]
  /\ \A h \in Handlers : Submission(h)
  /\ ReviewHasEvidence

(* No step of Disputes breaks its invariant.                               *)
LEMMA DisputeInvStep == ASSUME DisputeInv, [D!Next]_disputeVars PROVE DisputeInv'
<1> USE BillingAssumption DEF BillingAssumption, DisputeInv, Submission, DisputeStatuses,
        D!Decisions, ReviewHasEvidence, D!ReviewHasEvidence
<1>1. ASSUME NEW d \in Disputes, D!CreateDispute(d) PROVE DisputeInv'
  BY <1>1 DEF D!CreateDispute
<1>2. ASSUME NEW d \in Disputes, NEW s \in D!Decisions, D!UpdateDisputeStatus(d, s)
      PROVE  DisputeInv'
  BY <1>2 DEF D!UpdateDisputeStatus
<1>3. ASSUME NEW d \in Disputes, NEW h \in Handlers, D!ReadDispute(h, d) PROVE DisputeInv'
  BY <1>3 DEF D!ReadDispute
<1>4. ASSUME NEW h \in Handlers, D!InsertEvidence(h) PROVE DisputeInv'
  BY <1>4 DEF D!InsertEvidence
<1>5. ASSUME NEW h \in Handlers, D!UpdateDispute(h) PROVE DisputeInv'
  BY <1>5 DEF D!UpdateDispute, D!IsReadyToUpdate, D!StatusWithEvidence
<1>6. ASSUME NEW h \in Handlers, D!InterruptSubmit(h) PROVE DisputeInv'
  BY <1>6 DEF D!InterruptSubmit
<1>7. CASE UNCHANGED disputeVars
  BY <1>7 DEF disputeVars
<1> QED
  BY <1>1, <1>2, <1>3, <1>4, <1>5, <1>6, <1>7 DEF D!Next

(* The disputes' invariant holds throughout.                               *)
LEMMA DisputeInvariance == Spec => []DisputeInv
<1>1. ASSUME D!Init PROVE DisputeInv
  <2>1. submitting = [h \in Handlers |-> submitting[h]] /\ \A h \in Handlers : Submission(h)
    BY <1>1 DEF D!Init, Submission
  <2>2. dispute \in [Disputes -> DisputeStatuses \cup {None}] /\ ReviewHasEvidence
    BY <1>1, BillingAssumption DEF D!Init, ReviewHasEvidence, D!ReviewHasEvidence, BillingAssumption
  <2> QED
    BY <2>1, <2>2 DEF DisputeInv
<1>2. DisputeInv /\ [Next]_vars => DisputeInv'
  BY PartsStep, DisputeInvStep
<1> QED
  BY <1>1, <1>2, PartsInit, PTL DEF Spec

(* No dispute is under review, or shows evidence, without any.             *)
THEOREM ReviewsHaveEvidence == Spec => []ReviewHasEvidence
  BY DisputeInvariance, PTL DEF DisputeInv

(* Evidence that is read after a decision leaves the decision.             *)
THEOREM DecisionsStand == Spec => DecisionStands
<1>1. ASSUME DisputeInv, [Next]_vars, NEW d \in Disputes,
             dispute[d] \in D!Decisions, ~D!ReadBeforeDecision(d)
      PROVE  dispute'[d] \in D!Decisions
  <2> USE DEF DisputeInv, Submission, DisputeStatuses, D!Decisions
  <2>1. ASSUME NEW e \in Disputes, D!CreateDispute(e) PROVE dispute'[d] \in D!Decisions
    BY <1>1, <2>1, BillingAssumption DEF BillingAssumption, D!CreateDispute
  <2>2. ASSUME NEW e \in Disputes, NEW s \in D!Decisions, D!UpdateDisputeStatus(e, s)
        PROVE  dispute'[d] \in D!Decisions
    BY <1>1, <2>2 DEF D!UpdateDisputeStatus
  <2>3. ASSUME NEW h \in Handlers, D!UpdateDispute(h) PROVE dispute'[d] \in D!Decisions
    BY <1>1, <2>3 DEF D!UpdateDispute, D!IsReadyToUpdate, D!StatusWithEvidence,
       D!ReadBeforeDecision
  <2>4. ASSUME NEW h \in Handlers,
               \/ D!InsertEvidence(h) \/ D!InterruptSubmit(h)
               \/ \E e \in Disputes : D!ReadDispute(h, e)
        PROVE  dispute' = dispute
    BY <2>4 DEF D!InsertEvidence, D!InterruptSubmit, D!ReadDispute
  <2> QED
    BY <1>1, <2>1, <2>2, <2>3, <2>4, PartsStep DEF D!Next, disputeVars
<1>2. DisputeInv /\ [Next]_vars =>
        [\A d \in Disputes : dispute[d] \in D!Decisions /\ ~D!ReadBeforeDecision(d)
                                => dispute'[d] \in D!Decisions]_disputeVars
  BY <1>1
<1> QED
  BY <1>2, DisputeInvariance, PTL
     DEF Spec, DecisionStands, D!DecisionStands, disputeVars, D!disputeVars

-----------------------------------------------------------------------------
(* RateLimiter: what a day's count and the requests that have read it can  *)
(* still come to; a request reads a count below the limit.                 *)
Checking(d) == {h \in Handlers : checking[h] = d}

RateInv ==
  /\ request_count \in [1 .. Days -> Nat \cup {None}]
  /\ allowed \in [1 .. Days -> Nat]
  /\ today \in 1 .. Days
  /\ checking \in [Handlers -> 1 .. Days \cup {None}]
  /\ \A d \in 1 .. Days :
       /\ allowed[d] <= R!Count(d)
       /\ R!Count(d) + Cardinality(Checking(d)) <= Limit + Cardinality(Handlers) - 1

(* The checks in progress are finitely many.                               *)
LEMMA CheckingIsFinite ==
  ASSUME NEW d
  PROVE  /\ IsFiniteSet(Checking(d)) /\ Cardinality(Checking(d)) \in Nat
         /\ Cardinality(Handlers) \in Nat
         /\ Cardinality(Checking(d)) <= Cardinality(Handlers)
<1>1. Checking(d) \subseteq Handlers
  BY DEF Checking
<1> QED
  BY <1>1, BillingAssumption, FS_Subset, FS_CardinalityType DEF BillingAssumption

(* Instantiating the module gives FiniteSets's operator another name.      *)
LEMMA SameCardinality == ASSUME NEW T PROVE R!Cardinality(T) = Cardinality(T)
  BY DEF R!Cardinality, Cardinality

(* No step of RateLimiter breaks its invariant.                            *)
LEMMA RateInvStep == ASSUME RateInv, [R!Next]_rateVars PROVE RateInv'
<1> DEFINE Max == Limit + Cardinality(Handlers) - 1
<1> USE BillingAssumption DEF BillingAssumption, RateInv, R!Count
<1>1. ASSUME NEW h \in Handlers, R!ReadCount(h) PROVE RateInv'
  <2>1. R!Count(today) < Limit
    BY <1>1 DEF R!ReadCount, R!HasRoom
  <2>2. ASSUME NEW d \in 1 .. Days PROVE R!Count(d)' + Cardinality(Checking(d)') <= Max
    <3>1. R!Count(d)' = R!Count(d) /\ R!Count(d) \in Nat
      BY <1>1 DEF R!ReadCount
    <3>2. CASE d = today
      <4>1. Checking(d)' \subseteq Handlers
        BY DEF Checking
      <4>2. Cardinality(Checking(d)') <= Cardinality(Handlers) /\ Cardinality(Checking(d)') \in Nat
        BY <4>1, FS_Subset, FS_CardinalityType
      <4> QED
        BY <2>1, <3>1, <3>2, <4>2, CheckingIsFinite
    <3>3. CASE d # today
      <4>1. Checking(d)' = Checking(d)
        BY <1>1, <3>3 DEF R!ReadCount, Checking
      <4> QED
        BY <3>1, <4>1
    <3> QED
      BY <3>2, <3>3
  <2> QED
    BY <1>1, <2>2 DEF R!ReadCount, Checking
<1>2. ASSUME NEW h \in Handlers, NEW replied \in BOOLEAN, R!Increment(h, replied) PROVE RateInv'
  <2>0. PICK day \in 1 .. Days : day = checking[h]
    BY <1>2 DEF R!Increment
  <2>1. Checking(day)' = Checking(day) \ {h} /\ h \in Checking(day)
    BY <1>2, <2>0 DEF R!Increment, Checking
  <2>2. Cardinality(Checking(day)') = Cardinality(Checking(day)) - 1
    <3>1. IsFiniteSet(Checking(day))
      BY CheckingIsFinite
    <3>2. Cardinality(Checking(day) \ {h}) = Cardinality(Checking(day)) - 1
      BY <2>1, <3>1, FS_RemoveElement
    <3> QED
      BY <2>1, <3>2
  <2>3. R!Count(day)' = R!Count(day) + 1 /\ R!Count(day) \in Nat /\ allowed'[day] <= allowed[day] + 1
    BY <1>2, <2>0 DEF R!Increment, R!Incremented
  <2>4. ASSUME NEW d \in 1 .. Days, d # day
        PROVE  Checking(d)' = Checking(d) /\ R!Count(d)' = R!Count(d) /\ allowed'[d] = allowed[d]
    BY <1>2, <2>0, <2>4 DEF R!Increment, Checking
  <2>5. /\ request_count' \in [1 .. Days -> Nat \cup {None}] /\ allowed' \in [1 .. Days -> Nat]
        /\ today' \in 1 .. Days /\ checking' \in [Handlers -> 1 .. Days \cup {None}]
    BY <1>2, <2>0 DEF R!Increment, R!Incremented
  <2>6. ASSUME NEW d \in 1 .. Days
        PROVE  allowed'[d] <= R!Count(d)' /\ R!Count(d)' + Cardinality(Checking(d)') <= Max
    <3>1. /\ allowed'[day] <= R!Count(day)'
          /\ R!Count(day)' + Cardinality(Checking(day)') = R!Count(day) + Cardinality(Checking(day))
      <4>1. allowed[day] <= R!Count(day) /\ allowed[day] \in Nat
        OBVIOUS
      <4>2. allowed'[day] \in Nat
        BY <2>5
      <4> HIDE DEF R!Count, RateInv
      <4> QED
        BY <2>2, <2>3, <4>1, <4>2, CheckingIsFinite
    <3>2. CASE d # day
      BY <2>4, <3>2
    <3> QED
      BY <3>1, <3>2
  <2> QED
    BY <2>5, <2>6 DEF Checking
<1>3. ASSUME NEW h \in Handlers, R!Abandon(h) PROVE RateInv'
  <2>1. ASSUME NEW d \in 1 .. Days PROVE Cardinality(Checking(d)') <= Cardinality(Checking(d)) /\ Cardinality(Checking(d)') \in Nat
    <3>1. Checking(d)' \subseteq Checking(d)
      BY <1>3 DEF R!Abandon, Checking
    <3> QED
      BY <3>1, CheckingIsFinite, FS_Subset, FS_CardinalityType
  <2>2. ASSUME NEW d \in 1 .. Days PROVE R!Count(d)' = R!Count(d) /\ R!Count(d) \in Nat
    BY <1>3 DEF R!Abandon
  <2>3. ASSUME NEW d \in 1 .. Days PROVE R!Count(d)' + Cardinality(Checking(d)') <= Max
    BY <2>1, <2>2, CheckingIsFinite
  <2> QED
    BY <1>3, <2>3 DEF R!Abandon, Checking
<1>4. CASE R!Midnight
  <2>1. \A d \in 1 .. Days : Checking(d)' = Checking(d) /\ R!Count(d)' = R!Count(d)
    BY <1>4 DEF R!Midnight, Checking
  <2> QED
    BY <1>4, <2>1 DEF R!Midnight
<1>5. CASE UNCHANGED rateVars
  BY <1>5 DEF rateVars, Checking
<1> QED
  BY <1>1, <1>2, <1>3, <1>4, <1>5 DEF R!Next

(* The requests a day's count lets through pass the limit by no more than  *)
(* the other handlers there are.                                           *)
THEOREM LimitIsNearlyKept == Spec => []AllowedNearLimit
<1>1. ASSUME R!Init PROVE RateInv
  <2>1. ASSUME NEW d \in 1 .. Days PROVE Checking(d) = {}
    BY <1>1, BillingAssumption DEF R!Init, Checking, BillingAssumption
  <2> QED
    BY <1>1, <2>1, BillingAssumption, FS_EmptySet, CheckingIsFinite
       DEF R!Init, RateInv, R!Count, BillingAssumption
<1>2. RateInv /\ [Next]_vars => RateInv'
  BY PartsStep, RateInvStep
<1>3. ASSUME RateInv, NEW d \in 1 .. Days
      PROVE  allowed[d] <= R!Count(d) /\ R!Count(d) <= Limit + Cardinality(Handlers) - 1
  <2>1. R!Count(d) \in Nat
    BY <1>3 DEF RateInv, R!Count
  <2> QED
    BY <1>3, <2>1, CheckingIsFinite, BillingAssumption DEF RateInv, BillingAssumption
<1>4. RateInv => AllowedNearLimit
  BY <1>3, SameCardinality DEF AllowedNearLimit, R!AllowedNearLimit
<1> QED
  BY <1>1, <1>2, <1>4, PartsInit, PTL DEF Spec

-----------------------------------------------------------------------------
(* Subscriptions: nobody is about to write back CANCELED as the status it  *)
(* read, and a cancelled subscription has a date.                          *)
SubscriptionInv ==
  /\ subscription \in [Subscriptions -> {None} \cup
       [status : {"TRIALING", "ACTIVE", "CANCELED"}, cancel_at_period_end : BOOLEAN,
        canceled_at : BOOLEAN]]
  /\ ending \in [Handlers -> {None} \cup
       [subscription : Subscriptions, at_period_end : BOOLEAN, status : {"TRIALING", "ACTIVE"}]]
  /\ \A s \in Subscriptions :
       subscription[s] # None /\ subscription[s].status = "CANCELED" => subscription[s].canceled_at

(* No step of Subscriptions breaks its invariant.                          *)
LEMMA SubscriptionInvStep ==
  ASSUME SubscriptionInv, [S!Next]_subscriptionVars PROVE SubscriptionInv'
<1> USE DEF SubscriptionInv
<1>1. ASSUME NEW s \in Subscriptions, NEW trial \in BOOLEAN, S!CreateSubscription(s, trial)
      PROVE  SubscriptionInv'
  BY <1>1 DEF S!CreateSubscription
<1>2. ASSUME NEW s \in Subscriptions, S!CreateItem(s) \/ S!InterruptCreate(s) PROVE SubscriptionInv'
  BY <1>2 DEF S!CreateItem, S!InterruptCreate
<1>3. ASSUME NEW s \in Subscriptions, NEW h \in Handlers, NEW late \in BOOLEAN,
             S!ReadSubscription(h, s, late)
      PROVE  SubscriptionInv'
  BY <1>3 DEF S!ReadSubscription, S!IsCancelable
<1>4. ASSUME NEW h \in Handlers, S!CancelSubscription(h) PROVE SubscriptionInv'
  <2>1. PICK s \in Subscriptions : s = ending[h].subscription
    BY <1>4 DEF S!CancelSubscription
  <2>2. CASE subscription[s] = None
    BY <1>4, <2>1, <2>2 DEF S!CancelSubscription
  <2>3. CASE subscription[s] # None
    BY <1>4, <2>1, <2>3 DEF S!CancelSubscription
  <2> QED
    BY <2>2, <2>3
<1>5. ASSUME NEW h \in Handlers, S!InterruptCancel(h) PROVE SubscriptionInv'
  BY <1>5 DEF S!InterruptCancel
<1>6. CASE UNCHANGED subscriptionVars
  BY <1>6 DEF subscriptionVars
<1>7. ASSUME NEW s \in Subscriptions, S!DeleteCustomerOf(s) PROVE SubscriptionInv'
  BY <1>7 DEF S!DeleteCustomerOf
<1> QED
  BY <1>1, <1>2, <1>3, <1>4, <1>5, <1>6, <1>7 DEF S!Next

(* A cancelled subscription that nobody is about to write back stays, for  *)
(* as long as its customer does.                                           *)
THEOREM CancellationsStand == Spec => CanceledIsFinal
<1> DEFINE Final(s) ==
      /\ subscription[s] # None /\ subscription[s].status = "CANCELED"
      /\ \A h \in Handlers : ending[h] # None => ending[h].subscription # s
<1> DEFINE Stays(s) ==
      \/ subscription'[s] = subscription[s] /\ subscription[s].canceled_at
      \/ subscription'[s] = None /\ s \in gone_subscriptions'
<1>1. S!Init => SubscriptionInv
  BY DEF S!Init, SubscriptionInv
<1>2. SubscriptionInv /\ [Next]_vars => SubscriptionInv'
  BY PartsStep, SubscriptionInvStep
<1>3. ASSUME SubscriptionInv, [Next]_vars, NEW s \in Subscriptions, Final(s)
      PROVE  Stays(s)
  <2> USE DEF SubscriptionInv
  <2>0. subscription'[s] = subscription[s] => Stays(s)
    BY <1>3
  <2>1. ASSUME NEW r \in Subscriptions, NEW trial \in BOOLEAN, S!CreateSubscription(r, trial)
        PROVE  subscription'[s] = subscription[s]
    BY <1>3, <2>1 DEF S!CreateSubscription
  <2>2. ASSUME NEW h \in Handlers, S!CancelSubscription(h)
        PROVE  subscription'[s] = subscription[s]
    BY <1>3, <2>2 DEF S!CancelSubscription
  <2>3. ASSUME NEW r \in Subscriptions, S!DeleteCustomerOf(r) PROVE Stays(s)
    BY <1>3, <2>0, <2>3 DEF S!DeleteCustomerOf
  <2>4. \/ UNCHANGED subscription
        \/ \E r \in Subscriptions, trial \in BOOLEAN : S!CreateSubscription(r, trial)
        \/ \E h \in Handlers : S!CancelSubscription(h)
        \/ \E r \in Subscriptions : S!DeleteCustomerOf(r)
    BY <1>3, PartsStep DEF S!Next, S!CreateItem, S!InterruptCreate, S!ReadSubscription,
       S!InterruptCancel, subscriptionVars
  <2> QED
    BY <2>0, <2>1, <2>2, <2>3, <2>4
<1>4. SubscriptionInv /\ [Next]_vars =>
        [\A s \in Subscriptions : Final(s) => Stays(s)]_subscriptionVars
  BY <1>3
<1> QED
  BY <1>1, <1>2, <1>4, PartsInit, PTL
     DEF Spec, CanceledIsFinal, S!CanceledIsFinal, subscriptionVars, S!subscriptionVars

-----------------------------------------------------------------------------
(* Customers: of a customer on whom no updates overlapped, an update under *)
(* way is the only one and has read what was last asked.                   *)
CustomerInv ==
  /\ customer = [c \in Customers |-> customer[c]] /\ editing = [h \in Handlers |-> editing[h]]
  /\ asked = [c \in Customers |-> asked[c]]
  /\ \A h \in Handlers : editing[h] # None =>
       LET c == editing[h].customer IN
         /\ c \in Customers
         /\ c \notin overlapped => /\ customer[c] # None \/ c \in deleted
                                   /\ customer[c] # None => editing[h].seen = asked[c]
                                   /\ \A g \in Handlers \ {h} :
                                        editing[g] # None => editing[g].customer # c
  /\ U!FieldsKept

(* No step of Customers breaks its invariant.                              *)
LEMMA CustomerInvStep == ASSUME CustomerInv, [U!Next]_customerVars PROVE CustomerInv'
<1> USE DEF CustomerInv, U!FieldsKept
<1>1. ASSUME NEW c \in Customers, U!DeleteCustomer(c) PROVE CustomerInv'
  BY <1>1 DEF U!DeleteCustomer
<1>2. ASSUME NEW c \in Customers, NEW given, U!CreateCustomer(c, given) PROVE CustomerInv'
  BY <1>2 DEF U!CreateCustomer
<1>3. ASSUME NEW c \in Customers, NEW h \in Handlers, NEW given, U!GetCustomer(h, c, given)
      PROVE  CustomerInv'
  BY <1>3 DEF U!GetCustomer
<1>4. ASSUME NEW h \in Handlers, U!UpdateCustomer(h) PROVE CustomerInv'
  <2> DEFINE c == editing[h].customer
             row == U!Overlay(editing[h].given, editing[h].seen)
  <2>1. /\ c \in Customers /\ deleted' = deleted /\ overlapped' = overlapped
        /\ editing' = [editing EXCEPT ![h] = None]
        /\ customer' = IF customer[c] = None THEN customer ELSE [customer EXCEPT ![c] = row]
        /\ asked' = [asked EXCEPT ![c] = U!Overlay(editing[h].given, asked[c])]
    BY <1>4 DEF U!UpdateCustomer, U!Overlay
  <2>2. \A d \in Customers \ {c} : customer'[d] = customer[d] /\ asked'[d] = asked[d]
    BY <2>1
  <2>3. \A g \in Handlers : editing'[g] # None => g # h /\ editing'[g] = editing[g]
    BY <2>1
  <2>4. c \notin overlapped /\ customer[c] # None => customer'[c] = row /\ row = asked'[c]
    BY <1>4, <2>1 DEF U!UpdateCustomer
  <2>5. customer[c] = None => customer' = customer
    BY <2>1
  <2>6. \A g \in Handlers : editing'[g] # None /\ c \notin overlapped => editing[g].customer # c
    BY <1>4, <2>3 DEF U!UpdateCustomer
  <2>7. U!FieldsKept'
    BY <2>1, <2>2, <2>4, <2>5
  <2>8. ASSUME NEW g \in Handlers, editing'[g] # None
        PROVE  LET d == editing'[g].customer IN
                 /\ d \in Customers
                 /\ d \notin overlapped' =>
                      /\ customer'[d] # None \/ d \in deleted'
                      /\ customer'[d] # None => editing'[g].seen = asked'[d]
                      /\ \A k \in Handlers \ {g} : editing'[k] # None => editing'[k].customer # d
    BY <2>1, <2>2, <2>3, <2>6, <2>8
  <2>9. /\ customer' = [d \in Customers |-> customer'[d]]
        /\ asked' = [d \in Customers |-> asked'[d]]
        /\ editing' = [g \in Handlers |-> editing'[g]]
    BY <2>1
  <2> QED
    BY <2>7, <2>8, <2>9
<1>5. ASSUME NEW h \in Handlers, U!InterruptUpdate(h) PROVE CustomerInv'
  BY <1>5 DEF U!InterruptUpdate
<1>6. CASE UNCHANGED customerVars
  BY <1>6 DEF customerVars
<1> QED
  BY <1>1, <1>2, <1>3, <1>4, <1>5, <1>6 DEF U!Next

(* ConnectAccounts: the same of the flags of an account.                   *)
ConnectInv ==
  /\ connect_account = [a \in Accounts |-> connect_account[a]]
  /\ updating = [h \in Handlers |-> updating[h]] /\ requested = [a \in Accounts |-> requested[a]]
  /\ \A h \in Handlers : updating[h] # None =>
       LET a == updating[h].account IN
         /\ a \in Accounts
         /\ a \notin contested => /\ connect_account[a] # None
                                  /\ updating[h].seen = requested[a]
                                  /\ \A g \in Handlers \ {h} :
                                       updating[g] # None => updating[g].account # a
  /\ C!UpdatesKept

(* No step of ConnectAccounts breaks its invariant.                        *)
LEMMA ConnectInvStep == ASSUME ConnectInv, [C!Next]_connectVars PROVE ConnectInv'
<1> USE DEF ConnectInv, C!UpdatesKept
<1>1. ASSUME NEW a \in Accounts, C!CreateConnectAccount(a) PROVE ConnectInv'
  BY <1>1 DEF C!CreateConnectAccount
<1>2. ASSUME NEW a \in Accounts, NEW h \in Handlers, NEW flags, C!ReadAccount(h, a, flags)
      PROVE  ConnectInv'
  BY <1>2 DEF C!ReadAccount
<1>3. ASSUME NEW h \in Handlers, C!UpdateAccountStatus(h) PROVE ConnectInv'
  <2> DEFINE a == updating[h].account
             row == C!Merged(h)
  <2>1. /\ a \in Accounts /\ contested' = contested
        /\ updating' = [updating EXCEPT ![h] = None]
        /\ connect_account' = [connect_account EXCEPT ![a] = row]
        /\ requested' = [requested EXCEPT ![a] =
             [f \in C!Flags |-> IF f \in DOMAIN updating[h].flags
                               THEN updating[h].flags[f] ELSE requested[a][f]]]
    BY <1>3 DEF C!UpdateAccountStatus
  <2>2. \A b \in Accounts \ {a} :
          connect_account'[b] = connect_account[b] /\ requested'[b] = requested[b]
    BY <2>1
  <2>3. \A g \in Handlers : updating'[g] # None => g # h /\ updating'[g] = updating[g]
    BY <2>1
  <2>4. a \notin contested => connect_account'[a] = requested'[a]
    BY <1>3, <2>1 DEF C!UpdateAccountStatus, C!Merged
  <2>5. \A g \in Handlers : updating'[g] # None /\ a \notin contested => updating[g].account # a
    BY <1>3, <2>3 DEF C!UpdateAccountStatus
  <2>6. C!UpdatesKept'
    BY <2>1, <2>2, <2>4
  <2>7. ASSUME NEW g \in Handlers, updating'[g] # None
        PROVE  LET b == updating'[g].account IN
                 /\ b \in Accounts
                 /\ b \notin contested' =>
                      /\ connect_account'[b] # None
                      /\ updating'[g].seen = requested'[b]
                      /\ \A k \in Handlers \ {g} : updating'[k] # None => updating'[k].account # b
    BY <2>1, <2>2, <2>3, <2>5, <2>7
  <2>8. /\ connect_account' = [b \in Accounts |-> connect_account'[b]]
        /\ requested' = [b \in Accounts |-> requested'[b]]
        /\ updating' = [g \in Handlers |-> updating'[g]]
    BY <2>1
  <2> QED
    BY <2>6, <2>7, <2>8
<1>4. ASSUME NEW h \in Handlers, C!InterruptUpdate(h) PROVE ConnectInv'
  BY <1>4 DEF C!InterruptUpdate
<1>5. ASSUME \/ UNCHANGED connectVars
             \/ \E t \in Transfers : \/ C!InsertTransfer(t) \/ C!MarkTransferPaid(t)
                                     \/ C!InterruptTransfer(t)
                                     \/ \E a \in Accounts : C!CheckDestination(t, a)
      PROVE  ConnectInv'
  <2>1. UNCHANGED <<connect_account, updating, requested, contested>>
    BY <1>5 DEF connectVars, C!InsertTransfer, C!MarkTransferPaid, C!InterruptTransfer,
       C!CheckDestination
  <2> QED
    BY <2>1
<1> QED
  BY <1>1, <1>2, <1>3, <1>4, <1>5 DEF C!Next

(* Updates that did not overlap lose nothing, of accounts or of customers, *)
(* for any flags, fields and numbers of requests.                          *)
THEOREM UpdatesAreKept == Spec => []UpdatesKept
<1>1. U!Init => CustomerInv
  BY DEF U!Init, CustomerInv, U!FieldsKept
<1>2. C!Init => ConnectInv
  BY DEF C!Init, ConnectInv, C!UpdatesKept
<1>3. CustomerInv /\ ConnectInv /\ [Next]_vars => CustomerInv' /\ ConnectInv'
  BY PartsStep, CustomerInvStep, ConnectInvStep
<1>4. CustomerInv /\ ConnectInv => UpdatesKept
  BY DEF CustomerInv, ConnectInv, UpdatesKept
<1> QED
  BY <1>1, <1>2, <1>3, <1>4, PartsInit, PTL DEF Spec
-----------------------------------------------------------------------------
(* PaymentMethods: what a handler that changes a customer's default knows  *)
(* of his methods, while no creation raced with it.                        *)
Method == [customer : Customers, is_default : BOOLEAN]
Change == [pc : {"clearing", "cleared", "inserting"}, op : {"create", "set"},
           customer : Customers, method : Methods, rows : SUBSET Methods]

MethodTyped ==
  /\ method = [m \in Methods |-> method[m]] /\ changing = [h \in Handlers |-> changing[h]]
  /\ \A m \in Methods : method[m] # None => method[m] \in Method /\ m \in known
  /\ \A h \in Handlers :
       /\ changing[h] = [pc |-> "idle"] \/ changing[h] \in Change
       /\ changing[h].pc = "inserting" => changing[h].op = "create"
       /\ changing[h].pc = "cleared" => changing[h].op = "set"

(* A transaction that has cleared the defaults holds the locks of rows     *)
(* that are its customer's.                                                *)
LocksHeld ==
  \A h \in Handlers : changing[h].pc = "cleared" =>
    \A m \in changing[h].rows : method[m] # None /\ method[m].customer = changing[h].customer

AloneWith(h, c) ==
  /\ changing[h].pc \in {"clearing", "cleared"} => M!Rows(c) \subseteq changing[h].rows
  /\ changing[h].op = "create" =>
       \A g \in Handlers \ {h} : changing[g].pc # "idle" => changing[g].customer # c
  /\ changing[h].pc = "inserting" => \A m \in M!Rows(c) : ~method[m].is_default

AllAlone ==
  \A h \in Handlers : changing[h].pc # "idle" /\ changing[h].customer \notin raced
                        => AloneWith(h, changing[h].customer)

MethodInv == MethodTyped /\ LocksHeld /\ AllAlone /\ M!OneDefault

(* What a step does to the handler that takes it, and to the methods.      *)
Others(h) == \A g \in Handlers \ {h} : changing'[g] = changing[g]

Begun(h, op, c, m) ==
  /\ changing[h].pc = "idle" /\ Others(h)
  /\ changing' = [g \in Handlers |-> changing'[g]]
  /\ changing'[h] = [pc |-> "clearing", op |-> op, customer |-> c, method |-> m,
                     rows |-> M!Rows(c)]
  /\ UNCHANGED <<method, known>>
  /\ raced \subseteq raced'
  /\ \A g \in Handlers :
       (/\ changing[g].pc # "idle" /\ changing[g].customer = c
        /\ op = "create" \/ changing[g].op = "create") => c \in raced'

CreateCleared(h) ==
  /\ changing[h].pc = "clearing" /\ changing[h].op = "create" /\ changing[h] \in Change
  /\ Others(h) /\ changing' = [g \in Handlers |-> changing'[g]]
  /\ changing'[h] = [pc |-> "inserting", op |-> "create", customer |-> changing[h].customer,
                     method |-> changing[h].method, rows |-> changing[h].rows]
  /\ method' = [m \in Methods |-> method'[m]]
  /\ \A m \in changing[h].rows \cap M!Rows(changing[h].customer) :
       /\ method'[m] \in Method /\ method'[m].customer = method[m].customer
       /\ method'[m].is_default = FALSE
  /\ \A m \in Methods : m \notin changing[h].rows \cap M!Rows(changing[h].customer)
       => method'[m] = method[m]
  /\ \A m \in changing[h].rows : M!Unlocked(m)
  /\ UNCHANGED <<known, raced>>

Inserted(h) ==
  /\ changing[h].pc = "inserting" /\ changing[h] \in Change /\ changing[h].op = "create"
  /\ Others(h) /\ changing' = [g \in Handlers |-> changing'[g]]
  /\ changing'[h] = [pc |-> "idle"]
  /\ method' = [m \in Methods |-> method'[m]]
  /\ method[changing[h].method] = None
  /\ method'[changing[h].method] = [customer |-> changing[h].customer, is_default |-> TRUE]
  /\ \A m \in Methods \ {changing[h].method} : method'[m] = method[m]
  /\ known' = known \cup {changing[h].method} /\ raced' = raced

SetCleared(h) ==
  /\ changing[h].pc = "clearing" /\ changing[h].op = "set" /\ changing[h] \in Change
  /\ Others(h) /\ changing' = [g \in Handlers |-> changing'[g]]
  /\ changing'[h] = [pc |-> "cleared", op |-> "set", customer |-> changing[h].customer,
                     method |-> changing[h].method,
                     rows |-> changing[h].rows \cap M!Rows(changing[h].customer)]
  /\ \A m \in changing[h].rows : M!Unlocked(m)
  /\ UNCHANGED <<method, known, raced>>

Committed(h) ==
  /\ changing[h].pc = "cleared" /\ changing[h] \in Change
  /\ Others(h) /\ changing' = [g \in Handlers |-> changing'[g]]
  /\ changing'[h] = [pc |-> "idle"]
  /\ method' = [m \in Methods |-> method'[m]]
  /\ \A m \in changing[h].rows :
       /\ m \in Methods /\ method[m] # None /\ method'[m] \in Method
       /\ method[m].customer = changing[h].customer
       /\ method'[m].customer = changing[h].customer
       /\ method'[m].is_default => m = changing[h].method
  /\ \A m \in Methods \ changing[h].rows : method'[m] = method[m]
  /\ UNCHANGED <<known, raced>>

Interrupted(h) ==
  /\ Others(h) /\ changing' = [g \in Handlers |-> changing'[g]]
  /\ changing'[h] = [pc |-> "idle"]
  /\ UNCHANGED <<method, known, raced>>

(* What each action of PaymentMethods does, by the predicates above:       *)
(* M!BeginClear.                                                           *)
LEMMA BeginEffect ==
  ASSUME MethodTyped, NEW h \in Handlers, NEW c \in Customers, NEW m \in Methods,
         NEW op \in {"create", "set"}, M!BeginClear(h, op, c, m)
  PROVE  Begun(h, op, c, m)
<1>1. raced' = IF M!Races(c, op) THEN raced \cup {c} ELSE raced
  BY DEF M!BeginClear
<1>2. ASSUME NEW g \in Handlers, changing[g].pc # "idle", changing[g].customer = c,
             op = "create" \/ changing[g].op = "create"
      PROVE  M!Races(c, op)
  BY <1>2 DEF M!Races, M!Changers, M!Creates
<1>3. changing[h].pc = "idle" /\ UNCHANGED <<method, known>>
  BY DEF M!BeginClear, M!Idle
<1>4. changing' = [changing EXCEPT ![h] = [pc |-> "clearing", op |-> op, customer |-> c,
                                           method |-> m, rows |-> M!Rows(c)]]
  BY DEF M!BeginClear
<1>5. /\ Others(h) /\ changing' = [g \in Handlers |-> changing'[g]]
      /\ changing'[h] = [pc |-> "clearing", op |-> op, customer |-> c, method |-> m,
                         rows |-> M!Rows(c)]
  BY <1>4 DEF MethodTyped, Others
<1> QED
  <2>1. raced \subseteq raced'
    BY <1>1
  <2>2. ASSUME NEW g \in Handlers, changing[g].pc # "idle", changing[g].customer = c,
               op = "create" \/ changing[g].op = "create"
        PROVE  c \in raced'
    BY <1>1, <1>2, <2>2
  <2> QED
    BY <1>3, <1>5, <2>1, <2>2 DEF Begun

(* M!CreateClear, which takes the default from the rows it locked.         *)
LEMMA CreateClearEffect ==
  ASSUME MethodTyped, NEW h \in Handlers, M!CreateClear(h)
  PROVE  CreateCleared(h)
<1> USE DEF MethodTyped
<1>1. /\ changing[h].pc = "clearing" /\ changing[h].op = "create" /\ changing[h] \in Change
      /\ \A m \in changing[h].rows : M!Unlocked(m)
      /\ UNCHANGED <<known, raced>>
  BY DEF M!CreateClear, M!Creates
<1>2. Others(h) /\ changing' = [g \in Handlers |-> changing'[g]]
  BY DEF M!CreateClear, Others
<1>3. changing'[h] = [pc |-> "inserting", op |-> "create", customer |-> changing[h].customer,
                      method |-> changing[h].method, rows |-> changing[h].rows]
  BY <1>1 DEF M!CreateClear, Change
<1>4. method' = [m \in Methods |-> IF m \in changing[h].rows \cap M!Rows(changing[h].customer)
                                   THEN [method[m] EXCEPT !.is_default = FALSE] ELSE method[m]]
  BY DEF M!CreateClear, M!DefaultsCleared, M!RowsToClear
<1>5. \A m \in M!Rows(changing[h].customer) : m \in Methods /\ method[m] \in Method
  BY DEF M!Rows
<1>6. ASSUME NEW m \in changing[h].rows \cap M!Rows(changing[h].customer)
      PROVE  /\ method'[m] \in Method /\ method'[m].customer = method[m].customer
             /\ method'[m].is_default = FALSE
  BY <1>4, <1>5, <1>6 DEF Method
<1> QED
  BY <1>1, <1>2, <1>3, <1>4, <1>5, <1>6 DEF CreateCleared

(* M!CreateInsert, which ends a creation.                                  *)
LEMMA CreateInsertEffect ==
  ASSUME MethodTyped, NEW h \in Handlers, M!CreateInsert(h)
  PROVE  Inserted(h)
<1>1. changing[h] \in Change
  BY DEF MethodTyped, M!CreateInsert
<1> QED
  BY <1>1 DEF Inserted, MethodTyped, M!CreateInsert, M!Idle, Others, Change

(* M!SetClear, which locks rows and holds them.                            *)
LEMMA SetClearEffect ==
  ASSUME MethodTyped, NEW h \in Handlers, M!SetClear(h)
  PROVE  SetCleared(h)
<1>1. changing[h] \in Change /\ changing[h].op = "set"
  BY DEF MethodTyped, M!SetClear, M!Creates, Change
<1> QED
  BY <1>1 DEF SetCleared, MethodTyped, M!SetClear, M!RowsToClear, Others, Change

(* M!SetAndCommit, which makes one row the default and lets all go.        *)
LEMMA SetAndCommitEffect ==
  ASSUME MethodTyped, LocksHeld, NEW h \in Handlers, M!SetAndCommit(h)
  PROVE  Committed(h)
<1>1. changing[h].pc = "cleared" /\ changing[h] \in Change
  BY DEF MethodTyped, M!SetAndCommit
<1>2. \A m \in changing[h].rows :
        /\ m \in Methods /\ method[m] # None /\ method[m] \in Method
        /\ method[m].customer = changing[h].customer
  BY <1>1 DEF MethodTyped, LocksHeld, Change
<1>3. /\ method' = [m \in Methods |->
           IF m \in changing[h].rows
           THEN [method[m] EXCEPT !.is_default = (m = changing[h].method)] ELSE method[m]]
      /\ changing' = [changing EXCEPT ![h] = [pc |-> "idle"]] /\ UNCHANGED <<known, raced>>
  BY DEF M!SetAndCommit, M!Idle
<1>4. ASSUME NEW m \in changing[h].rows
      PROVE  /\ method'[m] \in Method /\ method'[m].customer = method[m].customer
             /\ method'[m].is_default => m = changing[h].method
  BY <1>2, <1>3, <1>4 DEF Method
<1>5. Others(h) /\ changing' = [g \in Handlers |-> changing'[g]] /\ changing'[h] = [pc |-> "idle"]
  BY <1>3 DEF MethodTyped, Others
<1> QED
  BY <1>1, <1>2, <1>3, <1>4, <1>5 DEF Committed

(* M!Interrupt, which rolls a handler's change back.                       *)
LEMMA InterruptEffect ==
  ASSUME MethodTyped, NEW h \in Handlers, M!Interrupt(h)
  PROVE  Interrupted(h)
  BY DEF Interrupted, MethodTyped, M!Interrupt, M!Idle, Others

(* Rows and changes in progress keep their types.                          *)
LEMMA MethodTypedStep ==
  ASSUME MethodTyped, LocksHeld, [M!Next]_methodVars
  PROVE  MethodTyped'
<1>1. ASSUME NEW c \in Customers, M!DeleteCustomer(c) PROVE MethodTyped'
  BY <1>1 DEF M!DeleteCustomer, M!Unlocked, M!Holds, MethodTyped, Method, Change, M!Rows, Others
<1>2. ASSUME NEW m \in Methods, M!DeletePaymentMethod(m) PROVE MethodTyped'
  BY <1>2 DEF M!DeletePaymentMethod, M!Unlocked, M!Holds, MethodTyped, Method, Change, M!Rows, Others
<1>3. ASSUME NEW c \in Customers, NEW m \in Methods, M!CreateOrdinary(c, m) PROVE MethodTyped'
  BY <1>3 DEF M!CreateOrdinary, M!Changers, MethodTyped, Method, Change, M!Rows, Others
<1>4. ASSUME NEW h \in Handlers, NEW c \in Customers, NEW m \in Methods, NEW op \in {"create", "set"},
             M!BeginClear(h, op, c, m)
      PROVE  MethodTyped'
  <2>1. Begun(h, op, c, m)
    BY <1>4, BeginEffect
  <2> QED
    BY <2>1 DEF Begun, MethodTyped, Method, Change, M!Rows, Others
<1>5. ASSUME NEW h \in Handlers, M!CreateClear(h) PROVE MethodTyped'
  <2>1. CreateCleared(h)
    BY <1>5, CreateClearEffect
  <2>2. ASSUME NEW m \in Methods PROVE method'[m] # None => method'[m] \in Method /\ m \in known'
    BY <2>1 DEF CreateCleared, MethodTyped, Method, Change, M!Rows
  <2>3. ASSUME NEW g \in Handlers
        PROVE  /\ changing'[g] = [pc |-> "idle"] \/ changing'[g] \in Change
               /\ changing'[g].pc = "inserting" => changing'[g].op = "create"
               /\ changing'[g].pc = "cleared" => changing'[g].op = "set"
    BY <2>1 DEF CreateCleared, MethodTyped, Change, Others
  <2> QED
    BY <2>1, <2>2, <2>3 DEF CreateCleared, MethodTyped
<1>6. ASSUME NEW h \in Handlers, M!CreateInsert(h) PROVE MethodTyped'
  <2>1. Inserted(h)
    BY <1>6, CreateInsertEffect
  <2>2. ASSUME NEW m \in Methods PROVE method'[m] # None => method'[m] \in Method /\ m \in known'
    <3>1. CASE m = changing[h].method
      <4>1. changing[h].customer \in Customers
        BY <2>1 DEF Inserted, Change
      <4>2. [customer |-> changing[h].customer, is_default |-> TRUE] \in Method
        BY <4>1 DEF Method
      <4> QED
        BY <2>1, <3>1, <4>2 DEF Inserted
    <3>2. CASE m # changing[h].method
      BY <2>1, <3>2 DEF Inserted, MethodTyped
    <3> QED
      BY <3>1, <3>2
  <2>3. ASSUME NEW g \in Handlers
        PROVE  /\ changing'[g] = [pc |-> "idle"] \/ changing'[g] \in Change
               /\ changing'[g].pc = "inserting" => changing'[g].op = "create"
               /\ changing'[g].pc = "cleared" => changing'[g].op = "set"
    BY <2>1 DEF Inserted, MethodTyped, Change, Others
  <2> QED
    BY <2>1, <2>2, <2>3 DEF Inserted, MethodTyped
<1>7. ASSUME NEW h \in Handlers, M!SetClear(h) PROVE MethodTyped'
  <2>1. SetCleared(h)
    BY <1>7, SetClearEffect
  <2>2. ASSUME NEW m \in Methods PROVE method'[m] # None => method'[m] \in Method /\ m \in known'
    BY <2>1 DEF SetCleared, MethodTyped, Method, Change, M!Rows
  <2>3. ASSUME NEW g \in Handlers
        PROVE  /\ changing'[g] = [pc |-> "idle"] \/ changing'[g] \in Change
               /\ changing'[g].pc = "inserting" => changing'[g].op = "create"
               /\ changing'[g].pc = "cleared" => changing'[g].op = "set"
    BY <2>1 DEF SetCleared, MethodTyped, Change, Others
  <2> QED
    BY <2>1, <2>2, <2>3 DEF SetCleared, MethodTyped
<1>8. ASSUME NEW h \in Handlers, M!SetAndCommit(h) PROVE MethodTyped'
  <2>1. Committed(h)
    BY <1>8, SetAndCommitEffect
  <2>2. ASSUME NEW m \in Methods PROVE method'[m] # None => method'[m] \in Method /\ m \in known'
    BY <2>1 DEF Committed, MethodTyped, Method, Change, M!Rows
  <2>3. ASSUME NEW g \in Handlers
        PROVE  /\ changing'[g] = [pc |-> "idle"] \/ changing'[g] \in Change
               /\ changing'[g].pc = "inserting" => changing'[g].op = "create"
               /\ changing'[g].pc = "cleared" => changing'[g].op = "set"
    BY <2>1 DEF Committed, MethodTyped, Change, Others
  <2> QED
    BY <2>1, <2>2, <2>3 DEF Committed, MethodTyped
<1>9. ASSUME NEW h \in Handlers, M!Interrupt(h) PROVE MethodTyped'
  <2>1. Interrupted(h)
    BY <1>9, InterruptEffect
  <2> QED
    BY <2>1 DEF Interrupted, MethodTyped, Method, Change, M!Rows, Others
<1>10. CASE UNCHANGED methodVars
  BY <1>10 DEF methodVars, MethodTyped, Method, Change, M!Rows, Others
<1> QED
  BY <1>1, <1>2, <1>3, <1>4, <1>5, <1>6, <1>7, <1>8, <1>9, <1>10
     DEF M!Next, M!CreateBegin, M!SetBegin

(* The rows a change holds stay, with their customer.                      *)
LEMMA LocksStep ==
  ASSUME MethodTyped, LocksHeld, [M!Next]_methodVars
  PROVE  LocksHeld'
<1>1. ASSUME NEW c \in Customers, M!DeleteCustomer(c) PROVE LocksHeld'
  <2>1. ASSUME NEW g \in Handlers, changing[g].pc = "cleared", NEW n \in changing[g].rows
        PROVE  method'[n] # None /\ method'[n].customer = changing[g].customer
    <3>1. n \in Methods /\ method[n] # None /\ method[n].customer = changing[g].customer
      BY <2>1 DEF MethodTyped, LocksHeld, Change
    <3> QED
      BY <1>1, <2>1, <3>1 DEF M!DeleteCustomer, MethodTyped, M!Unlocked, M!Holds
  <2> QED
    BY <1>1, <2>1 DEF LocksHeld, M!DeleteCustomer
<1>2. ASSUME NEW m \in Methods, M!DeletePaymentMethod(m) PROVE LocksHeld'
  BY <1>2 DEF M!DeletePaymentMethod, M!Unlocked, M!Holds, MethodTyped, LocksHeld, Change, M!Rows, Others
<1>3. ASSUME NEW c \in Customers, NEW m \in Methods, M!CreateOrdinary(c, m) PROVE LocksHeld'
  <2>1. ASSUME NEW g \in Handlers, changing[g].pc = "cleared", NEW n \in changing[g].rows
        PROVE  method'[n] # None /\ method'[n].customer = changing[g].customer
    <3>1. n \in Methods /\ method[n] # None /\ method[n].customer = changing[g].customer
      BY <2>1 DEF MethodTyped, LocksHeld, Change
    <3> QED
      BY <1>3, <2>1, <3>1 DEF M!CreateOrdinary, MethodTyped
  <2> QED
    BY <1>3, <2>1 DEF LocksHeld, M!CreateOrdinary
<1>4. ASSUME NEW h \in Handlers, NEW c \in Customers, NEW m \in Methods, NEW op \in {"create", "set"},
             M!BeginClear(h, op, c, m)
      PROVE  LocksHeld'
  <2>1. Begun(h, op, c, m)
    BY <1>4, BeginEffect
  <2> QED
    BY <2>1 DEF Begun, MethodTyped, LocksHeld, Change, M!Rows, Others
<1>5. ASSUME NEW h \in Handlers, M!CreateClear(h) PROVE LocksHeld'
  <2>1. CreateCleared(h)
    BY <1>5, CreateClearEffect
  <2>2. ASSUME NEW g \in Handlers, changing'[g].pc = "cleared", NEW m \in changing'[g].rows
        PROVE  method'[m] # None /\ method'[m].customer = changing'[g].customer
    <3>1. g # h /\ changing'[g] = changing[g] /\ changing[g].pc = "cleared"
      BY <2>1, <2>2 DEF CreateCleared, Others
    <3>2. m \in Methods /\ method[m] # None /\ method[m].customer = changing[g].customer
      BY <2>2, <3>1 DEF MethodTyped, LocksHeld, Change
    <3> QED
      BY <2>1, <3>1, <3>2, BillingAssumption DEF CreateCleared, Method, M!Rows
  <2> QED
    BY <2>2 DEF LocksHeld
<1>6. ASSUME NEW h \in Handlers, M!CreateInsert(h) PROVE LocksHeld'
  <2>1. Inserted(h)
    BY <1>6, CreateInsertEffect
  <2>2. ASSUME NEW g \in Handlers, changing'[g].pc = "cleared", NEW m \in changing'[g].rows
        PROVE  method'[m] # None /\ method'[m].customer = changing'[g].customer
    <3>1. g # h /\ changing'[g] = changing[g] /\ changing[g].pc = "cleared"
      BY <2>1, <2>2 DEF Inserted, Others
    <3>2. m \in Methods /\ method[m] # None /\ method[m].customer = changing[g].customer
      BY <2>2, <3>1 DEF MethodTyped, LocksHeld, Change
    <3> QED
      BY <2>1, <3>1, <3>2, BillingAssumption DEF Inserted, Method, M!Rows
  <2> QED
    BY <2>2 DEF LocksHeld
<1>7. ASSUME NEW h \in Handlers, M!SetClear(h) PROVE LocksHeld'
  <2>1. SetCleared(h)
    BY <1>7, SetClearEffect
  <2> QED
    BY <2>1 DEF SetCleared, MethodTyped, LocksHeld, Change, M!Rows, Others, M!Unlocked, M!Holds
<1>8. ASSUME NEW h \in Handlers, M!SetAndCommit(h) PROVE LocksHeld'
  <2>1. Committed(h)
    BY <1>8, SetAndCommitEffect
  <2>2. ASSUME NEW g \in Handlers, changing'[g].pc = "cleared", NEW m \in changing'[g].rows
        PROVE  method'[m] # None /\ method'[m].customer = changing'[g].customer
    <3>1. g # h /\ changing'[g] = changing[g] /\ changing[g].pc = "cleared"
      BY <2>1, <2>2 DEF Committed, Others
    <3>2. m \in Methods /\ method[m] # None /\ method[m].customer = changing[g].customer
      BY <2>2, <3>1 DEF MethodTyped, LocksHeld, Change
    <3> QED
      BY <2>1, <3>1, <3>2, BillingAssumption DEF Committed, Method, M!Rows
  <2> QED
    BY <2>2 DEF LocksHeld
<1>9. ASSUME NEW h \in Handlers, M!Interrupt(h) PROVE LocksHeld'
  <2>1. Interrupted(h)
    BY <1>9, InterruptEffect
  <2> QED
    BY <2>1 DEF Interrupted, MethodTyped, LocksHeld, Change, M!Rows, Others
<1>10. CASE UNCHANGED methodVars
  BY <1>10 DEF methodVars, MethodTyped, LocksHeld, Change, M!Rows, Others
<1> QED
  BY <1>1, <1>2, <1>3, <1>4, <1>5, <1>6, <1>7, <1>8, <1>9, <1>10
     DEF M!Next, M!CreateBegin, M!SetBegin

(* A change that no other raced stays alone with its customer.             *)
LEMMA AloneStep ==
  ASSUME MethodInv, [M!Next]_methodVars
  PROVE  AllAlone'
<1>1. ASSUME NEW c \in Customers, M!DeleteCustomer(c) PROVE AllAlone'
  BY <1>1 DEF M!DeleteCustomer, M!Unlocked, M!Holds, MethodInv, MethodTyped, LocksHeld, AllAlone, AloneWith, Change, M!Rows, Others
<1>2. ASSUME NEW m \in Methods, M!DeletePaymentMethod(m) PROVE AllAlone'
  BY <1>2 DEF M!DeletePaymentMethod, M!Unlocked, M!Holds, MethodInv, MethodTyped, LocksHeld, AllAlone, AloneWith, Change, M!Rows, Others
<1>3. ASSUME NEW c \in Customers, NEW m \in Methods, M!CreateOrdinary(c, m) PROVE AllAlone'
  BY <1>3 DEF M!CreateOrdinary, M!Changers, MethodInv, MethodTyped, LocksHeld, AllAlone, AloneWith, Change, M!Rows, Others
<1>4. ASSUME NEW h \in Handlers, NEW c \in Customers, NEW m \in Methods, NEW op \in {"create", "set"},
             M!BeginClear(h, op, c, m)
      PROVE  AllAlone'
  <2>1. Begun(h, op, c, m)
    BY <1>4, BeginEffect DEF MethodInv
  <2> QED
    BY <2>1 DEF Begun, MethodInv, MethodTyped, LocksHeld, AllAlone, AloneWith, Change, M!Rows, Others
<1>5. ASSUME NEW h \in Handlers, M!CreateClear(h) PROVE AllAlone'
  <2>1. CreateCleared(h)
    BY <1>5, CreateClearEffect DEF MethodInv
  <2> QED
    BY <2>1 DEF CreateCleared, MethodInv, MethodTyped, LocksHeld, AllAlone, AloneWith, Change, M!Rows, Others, M!Unlocked, M!Holds
<1>6. ASSUME NEW h \in Handlers, M!CreateInsert(h) PROVE AllAlone'
  <2>1. Inserted(h)
    BY <1>6, CreateInsertEffect DEF MethodInv
  <2> QED
    BY <2>1 DEF Inserted, MethodInv, MethodTyped, LocksHeld, AllAlone, AloneWith, Change, M!Rows, Others
<1>7. ASSUME NEW h \in Handlers, M!SetClear(h) PROVE AllAlone'
  <2>1. SetCleared(h)
    BY <1>7, SetClearEffect DEF MethodInv
  <2> QED
    <3>1. M!Rows(changing[h].customer)' = M!Rows(changing[h].customer)
      BY <2>1 DEF SetCleared, M!Rows, Change
    <3> SUFFICES ASSUME NEW g \in Handlers, changing'[g].pc # "idle",
                        changing'[g].customer \notin raced'
                 PROVE  AloneWith(g, changing[g].customer)' /\ changing'[g].customer = changing[g].customer
      BY DEF AllAlone, AloneWith, M!Rows
    <3>2. /\ changing[g].pc # "idle" /\ changing'[g].customer = changing[g].customer
          /\ AloneWith(g, changing[g].customer)
      BY <2>1 DEF SetCleared, MethodInv, AllAlone, Others
    <3> QED
      BY <2>1, <3>1, <3>2 DEF SetCleared, MethodInv, AllAlone, AloneWith, M!Rows, Others
<1>8. ASSUME NEW h \in Handlers, M!SetAndCommit(h) PROVE AllAlone'
  <2>1. Committed(h)
    BY <1>8, SetAndCommitEffect DEF MethodInv
  <2> QED
    <3>1. \A c : M!Rows(c)' = M!Rows(c)
      BY <2>1, BillingAssumption DEF Committed, M!Rows, Method
    <3> SUFFICES ASSUME NEW g \in Handlers, changing'[g].pc # "idle",
                        changing'[g].customer \notin raced'
                 PROVE  AloneWith(g, changing[g].customer)' /\ changing'[g].customer = changing[g].customer
      BY DEF AllAlone, AloneWith, M!Rows
    <3>2. /\ g # h /\ changing'[g] = changing[g]
          /\ changing[h].pc = "cleared" /\ changing[h] \in Change
          /\ AloneWith(g, changing[g].customer)
      BY <2>1 DEF Committed, MethodInv, AllAlone, Others
    <3>3. ASSUME changing[g].pc = "inserting", NEW m \in M!Rows(changing[g].customer)
          PROVE  ~method'[m].is_default
      <4>1. changing[g].op = "create" /\ m \in Methods /\ method[m].customer = changing[g].customer
        BY <3>3 DEF MethodInv, MethodTyped, M!Rows
      <4>2. changing[h].customer # changing[g].customer
        BY <3>2, <4>1 DEF AloneWith
      <4>3. m \notin changing[h].rows
        BY <2>1, <4>1, <4>2 DEF Committed
      <4> QED
        BY <2>1, <3>2, <3>3, <4>1, <4>3 DEF Committed, AloneWith
    <3>4. ASSUME changing[g].op = "create", NEW k \in Handlers \ {g}, changing'[k].pc # "idle"
          PROVE  changing'[k].customer # changing[g].customer
      BY <2>1, <3>2, <3>4 DEF Committed, AloneWith, Others
    <3> QED
      BY <3>1, <3>2, <3>3, <3>4 DEF AloneWith, M!Rows
<1>9. ASSUME NEW h \in Handlers, M!Interrupt(h) PROVE AllAlone'
  <2>1. Interrupted(h)
    BY <1>9, InterruptEffect DEF MethodInv
  <2> QED
    BY <2>1 DEF Interrupted, MethodInv, MethodTyped, LocksHeld, AllAlone, AloneWith, Change, M!Rows, Others
<1>10. CASE UNCHANGED methodVars
  BY <1>10 DEF methodVars, MethodInv, MethodTyped, LocksHeld, AllAlone, AloneWith, Change, M!Rows, Others
<1> QED
  BY <1>1, <1>2, <1>3, <1>4, <1>5, <1>6, <1>7, <1>8, <1>9, <1>10
     DEF M!Next, M!CreateBegin, M!SetBegin

(* A customer for whom nothing raced keeps at most one default.            *)
LEMMA DefaultStep ==
  ASSUME MethodInv, [M!Next]_methodVars
  PROVE  M!OneDefault'
<1>1. ASSUME NEW c \in Customers, M!DeleteCustomer(c) PROVE M!OneDefault'
  BY <1>1 DEF M!DeleteCustomer, M!Unlocked, M!Holds, MethodInv, MethodTyped, AllAlone, AloneWith, Change, M!OneDefault, M!Rows, Others
<1>2. ASSUME NEW m \in Methods, M!DeletePaymentMethod(m) PROVE M!OneDefault'
  BY <1>2 DEF M!DeletePaymentMethod, M!Unlocked, M!Holds, MethodInv, MethodTyped, AllAlone, AloneWith, Change, M!OneDefault, M!Rows, Others
<1>3. ASSUME NEW c \in Customers, NEW m \in Methods, M!CreateOrdinary(c, m) PROVE M!OneDefault'
  BY <1>3 DEF M!CreateOrdinary, M!Changers, MethodInv, MethodTyped, AllAlone, AloneWith, Change, M!OneDefault, M!Rows, Others
<1>4. ASSUME NEW h \in Handlers, NEW c \in Customers, NEW m \in Methods, NEW op \in {"create", "set"},
             M!BeginClear(h, op, c, m)
      PROVE  M!OneDefault'
  <2>1. Begun(h, op, c, m)
    BY <1>4, BeginEffect DEF MethodInv
  <2> QED
    BY <2>1 DEF Begun, MethodInv, MethodTyped, AllAlone, AloneWith, Change, M!OneDefault, M!Rows, Others
<1>5. ASSUME NEW h \in Handlers, M!CreateClear(h) PROVE M!OneDefault'
  <2>1. CreateCleared(h)
    BY <1>5, CreateClearEffect DEF MethodInv
  <2> QED
    BY <2>1 DEF CreateCleared, MethodInv, MethodTyped, AllAlone, AloneWith, Change, M!OneDefault, M!Rows, Others, M!Unlocked, M!Holds
<1>6. ASSUME NEW h \in Handlers, M!CreateInsert(h) PROVE M!OneDefault'
  <2>1. Inserted(h)
    BY <1>6, CreateInsertEffect DEF MethodInv
  <2> QED
    BY <2>1 DEF Inserted, MethodInv, MethodTyped, AllAlone, AloneWith, Change, M!OneDefault, M!Rows, Others
<1>7. ASSUME NEW h \in Handlers, M!SetClear(h) PROVE M!OneDefault'
  <2>1. SetCleared(h)
    BY <1>7, SetClearEffect DEF MethodInv
  <2> QED
    BY <2>1 DEF SetCleared, MethodInv, MethodTyped, AllAlone, AloneWith, Change, M!OneDefault, M!Rows, Others, M!Unlocked, M!Holds
<1>8. ASSUME NEW h \in Handlers, M!SetAndCommit(h) PROVE M!OneDefault'
  <2>1. Committed(h)
    BY <1>8, SetAndCommitEffect DEF MethodInv
  <2> QED
    <3> SUFFICES ASSUME NEW c \in Customers, c \notin raced', NEW m \in M!Rows(c)',
                        NEW n \in M!Rows(c)', method'[m].is_default, method'[n].is_default
                 PROVE  m = n
      BY DEF M!OneDefault
    <3>1. /\ changing[h].pc = "cleared" /\ raced' = raced
          /\ \A k \in changing[h].rows :
               /\ method[k].customer = changing[h].customer
               /\ method'[k].customer = changing[h].customer
               /\ method'[k].is_default => k = changing[h].method
      BY <2>1 DEF Committed
    <3>2. \A k \in Methods \ changing[h].rows : method'[k] = method[k]
      BY <2>1 DEF Committed
    <3>3. /\ m \in Methods /\ method'[m] # None /\ method'[m].customer = c
          /\ n \in Methods /\ method'[n] # None /\ method'[n].customer = c
      BY DEF M!Rows
    <3>4. CASE c = changing[h].customer
      <4>1. M!Rows(c) \subseteq changing[h].rows
        BY <3>1, <3>4 DEF MethodInv, AllAlone, AloneWith
      <4>2. m \in changing[h].rows /\ n \in changing[h].rows
        BY <3>2, <3>3, <4>1 DEF M!Rows
      <4> QED
        BY <3>1, <4>2
    <3>5. CASE c # changing[h].customer
      <4>1. m \notin changing[h].rows /\ n \notin changing[h].rows
        BY <3>1, <3>3, <3>5
      <4> QED
        BY <3>1, <3>2, <3>3, <4>1 DEF MethodInv, M!OneDefault, M!Rows
    <3> QED
      BY <3>4, <3>5
<1>9. ASSUME NEW h \in Handlers, M!Interrupt(h) PROVE M!OneDefault'
  <2>1. Interrupted(h)
    BY <1>9, InterruptEffect DEF MethodInv
  <2> QED
    BY <2>1 DEF Interrupted, MethodInv, MethodTyped, AllAlone, AloneWith, Change, M!OneDefault, M!Rows, Others
<1>10. CASE UNCHANGED methodVars
  BY <1>10 DEF methodVars, MethodInv, MethodTyped, AllAlone, AloneWith, Change, M!OneDefault, M!Rows, Others
<1> QED
  BY <1>1, <1>2, <1>3, <1>4, <1>5, <1>6, <1>7, <1>8, <1>9, <1>10
     DEF M!Next, M!CreateBegin, M!SetBegin

(* No step of PaymentMethods breaks its invariant.                         *)
LEMMA MethodInvStep == ASSUME MethodInv, [M!Next]_methodVars PROVE MethodInv'
  BY MethodTypedStep, LocksStep, AloneStep, DefaultStep DEF MethodInv

(* A customer has one default at most, for any number of requests that set *)
(* it and of methods deleted, unless a creation raced with them.           *)
THEOREM OneDefaultAtMost == Spec => []OneDefault
<1>1. M!Init => MethodInv
  BY DEF M!Init, MethodInv, MethodTyped, LocksHeld, AllAlone, M!OneDefault, M!Rows, M!Idle
<1>2. MethodInv /\ [Next]_vars => MethodInv'
  BY PartsStep, MethodInvStep
<1>3. MethodInv => OneDefault
  BY DEF MethodInv, OneDefault
<1> QED
  BY <1>1, <1>2, <1>3, PartsInit, PTL DEF Spec

-----------------------------------------------------------------------------
(* Invoices: the rows, and the payments past their SELECT, are numbers; an *)
(* invoice that a payment has read is there or was deleted.                *)
InvoiceRows == [status : {"DRAFT", "OPEN", "PAID"}, lines : Nat, amount_due : Int, amount_paid : Int]
PaymentsRead == [pc : {"read", "done", "stopped"}, invoice : Invoices, amount : Int,
                 paid : Int, status : {"DRAFT", "OPEN", "PAID"}]

InvoicesTyped ==
  /\ invoice \in [Invoices -> InvoiceRows \cup {None}]
  /\ paying \in [Payments -> PaymentsRead \cup {[pc |-> "new"]}]
  /\ \A i \in Invoices :
       invoice[i] = None /\ i \notin gone_invoices => I!PaymentsOf(i) = {}

(* What is recorded covers what the row shows and what a payment has read; *)
(* where either says PAID, it is enough for the amount due.                *)
Covered(i) ==
  invoice[i] # None /\ I!Regular(i) =>
    /\ invoice[i].amount_paid <= I!Total(I!Recorded(i))
    /\ invoice[i].status = "PAID" => invoice[i].amount_paid >= invoice[i].amount_due
    /\ \A p \in I!PaymentsOf(i) : paying[p].pc = "read" =>
         /\ paying[p].paid <= I!Total(I!Recorded(i))
         /\ paying[p].status = "PAID" => paying[p].paid >= invoice[i].amount_due

InvoiceInv == InvoicesTyped /\ \A i \in Invoices : Covered(i)

(* A sum of i64s that is in range does not wrap, and no sum leaves it.     *)
LEMMA InvoiceWrap ==
  ASSUME NEW n \in Int
  PROVE  /\ I!Wrap(n) \in Int
         /\ n \in I!I64 => I!Wrap(n) = n
<1> DEFINE m == 2 * MaxI64 + 2
<1>1. MaxI64 \in Nat
  BY BillingAssumption DEF BillingAssumption
<1>2. m \in Nat \ {0} /\ n + MaxI64 + 1 \in Int
  BY <1>1
<1>3. (n + MaxI64 + 1) % m \in Int
  BY <1>2
<1>4. n \in I!I64 => (n + MaxI64 + 1) \in 0 .. m - 1
  BY <1>1 DEF I!I64
<1>5. ASSUME NEW k \in Int, NEW l \in Nat \ {0}, k \in 0 .. l - 1 PROVE k % l = k
  BY <1>5
<1>6. n \in I!I64 => (n + MaxI64 + 1) % m = n + MaxI64 + 1
  BY <1>2, <1>4, <1>5
<1> QED
  BY <1>1, <1>3, <1>6 DEF I!Wrap

(* The amounts of a set of payments, as a sum of module Sums.              *)
LEMMA PaymentsTotal ==
  ASSUME NEW T
  PROVE  I!Total(T) = SumFunctionOnSet([p \in T |-> paying[p].amount], T)
  BY DEF I!Total, I!SumFunctionOnSet, I!FoldFunctionOnSet, I!MapThenFoldSet,
         SumFunctionOnSet, FoldFunctionOnSet, MapThenFoldSet

(* Payments that keep their amounts keep their total, which is a number,   *)
(* and one payment more adds its amount.                                   *)
LEMMA TotalKept ==
  ASSUME IsFiniteSet(Payments), NEW T \in SUBSET Payments,
         \A p \in T : paying'[p].amount = paying[p].amount
  PROVE  SumFunctionOnSet([p \in T |-> paying'[p].amount], T) = I!Total(T)
<1>1. IsFiniteSet(T)
  BY FS_Subset
<1> QED
  BY <1>1, PaymentsTotal, SumIsOfSet

(* Integer amounts add up to an integer.                                   *)
LEMMA TotalTyped ==
  ASSUME IsFiniteSet(Payments), NEW T \in SUBSET Payments, \A p \in T : paying[p].amount \in Int
  PROVE  I!Total(T) \in Int
<1>1. IsFiniteSet(T)
  BY FS_Subset
<1> QED
  BY <1>1, PaymentsTotal, SumIsInteger

(* One payment more adds its amount to the total.                          *)
LEMMA TotalGrows ==
  ASSUME IsFiniteSet(Payments), NEW T \in SUBSET Payments, NEW p \in Payments \ T,
         \A q \in T \cup {p} : paying[q].amount \in Int /\ paying'[q].amount = paying[q].amount
  PROVE  SumFunctionOnSet([q \in T \cup {p} |-> paying'[q].amount], T \cup {p})
           = I!Total(T) + paying[p].amount
<1> DEFINE f == [q \in T \cup {p} |-> paying'[q].amount]
<1>1. IsFiniteSet(T) /\ \A q \in T \cup {p} : f[q] = paying[q].amount /\ f[q] \in Int
  BY FS_Subset
<1> HIDE DEF f
<1>2. SumFunctionOnSet(f, T \cup {p}) = f[p] + SumFunctionOnSet(f, T)
  BY <1>1, SumWithOneMore
<1>3. SumFunctionOnSet(f, T) = I!Total(T)
  <2> DEFINE g == [q \in T |-> paying[q].amount]
  <2>1. \A q \in T : f[q] = g[q]
    BY <1>1
  <2> HIDE DEF g
  <2>2. SumFunctionOnSet(f, T) = SumFunctionOnSet(g, T)
    BY <1>1, <2>1, SumIsOfSet
  <2> QED
    BY <2>2, PaymentsTotal DEF g
<1>4. I!Total(T) \in Int
  BY TotalTyped
<1> QED
  BY <1>1, <1>2, <1>3, <1>4 DEF f

(* The total after a step, as a sum of module Sums: a primed I!Total(T)     *)
(* would prime T too.                                                      *)
LEMMA TotalNext ==
  ASSUME NEW i, NEW T, I!Recorded(i)' = T
  PROVE  I!Total(I!Recorded(i))' = SumFunctionOnSet([p \in T |-> paying'[p].amount], T)
  BY DEF I!Total, I!SumFunctionOnSet, I!FoldFunctionOnSet, I!MapThenFoldSet,
         SumFunctionOnSet, FoldFunctionOnSet, MapThenFoldSet

(* Rows and payments keep their types: every amount is an i64.             *)
LEMMA InvoicesTypedStep ==
  ASSUME InvoicesTyped, [I!Next]_invoiceVars PROVE InvoicesTyped'
<1> USE BillingAssumption DEF BillingAssumption, InvoicesTyped, InvoiceRows, PaymentsRead, I!PaymentsOf
<1>1. ASSUME NEW i \in Invoices, NEW bill \in Bills, I!CreateInvoice(i, bill)
      PROVE  InvoicesTyped'
  BY <1>1 DEF I!CreateInvoice
<1>2. ASSUME NEW i \in Invoices, I!CreateLineItem(i) \/ I!EndCreate(i) PROVE InvoicesTyped'
  BY <1>2 DEF I!CreateLineItem, I!EndCreate
<1>3. ASSUME NEW i \in Invoices, I!DeleteCustomerOf(i) PROVE InvoicesTyped'
  BY <1>3 DEF I!DeleteCustomerOf
<1>4. ASSUME NEW i \in Invoices, I!FinalizeInvoice(i) PROVE InvoicesTyped'
  BY <1>4 DEF I!FinalizeInvoice
<1>5. ASSUME NEW i \in Invoices, NEW p \in Payments, NEW amount \in Amounts,
             I!ReadInvoice(p, i, amount)
      PROVE  InvoicesTyped'
  BY <1>5 DEF I!ReadInvoice
<1>6. ASSUME NEW p \in Payments, I!MarkInvoicePaid(p) PROVE InvoicesTyped'
  <2>1. I!NewAmountPaid(p) \in Int
    BY <1>6, InvoiceWrap DEF I!NewAmountPaid, I!MarkInvoicePaid
  <2>2. \A due \in Int : I!NewStatus(p, due) \in {"DRAFT", "OPEN", "PAID"}
    BY <1>6 DEF I!NewStatus, I!MarkInvoicePaid
  <2> QED
    BY <1>6, <2>1, <2>2 DEF I!MarkInvoicePaid
<1>7. ASSUME NEW p \in Payments, I!InterruptPayment(p) PROVE InvoicesTyped'
  BY <1>7 DEF I!InterruptPayment
<1>8. CASE UNCHANGED invoiceVars
  BY <1>8 DEF invoiceVars
<1> QED
  BY <1>1, <1>2, <1>3, <1>4, <1>5, <1>6, <1>7, <1>8 DEF I!Next

(* A step after which the same payments of an invoice have been recorded,  *)
(* and no more are to be, leaves it covered unless the row says otherwise. *)
SamePayments(i) ==
  /\ I!PaymentsOf(i)' = I!PaymentsOf(i)
  /\ \A p \in I!PaymentsOf(i) :
       /\ paying'[p].pc = "done" <=> paying[p].pc = "done"
       /\ paying'[p].pc = "read" => paying[p].pc = "read"
       /\ paying'[p].amount = paying[p].amount /\ paying'[p].paid = paying[p].paid
       /\ paying'[p].status = paying[p].status

(* With the same payments, an invoice has the same total recorded.         *)
LEMMA SamePaymentsCover ==
  ASSUME IsFiniteSet(Payments), NEW i, SamePayments(i)
  PROVE  /\ I!Regular(i)' <=> I!Regular(i)
         /\ I!Total(I!Recorded(i))' = I!Total(I!Recorded(i))
<1>1. I!Regular(i)' <=> I!Regular(i)
  BY DEF SamePayments, I!Regular
<1> DEFINE T == I!Recorded(i)
<1>2. /\ I!Recorded(i)' = T /\ T \in SUBSET Payments
      /\ \A p \in T : paying'[p].amount = paying[p].amount
  BY DEF SamePayments, I!Recorded, I!PaymentsOf
<1> QED
  BY <1>1, <1>2, TotalNext, TotalKept

(* A step that leaves an invoice's payments and amounts keeps it covered.  *)
LEMMA CoveredKept ==
  ASSUME IsFiniteSet(Payments), NEW i \in Invoices, Covered(i), SamePayments(i),
         \/ invoice'[i] = invoice[i]
         \/ /\ invoice[i] # None
            /\ invoice'[i].amount_paid = invoice[i].amount_paid
            /\ invoice'[i].amount_due = invoice[i].amount_due
            /\ invoice'[i].status # "PAID"
  PROVE  Covered(i)'
  BY SamePaymentsCover DEF Covered, SamePayments

(* A payment is recorded: what it read was covered, and it adds as much to *)
(* the payments recorded as to what the row shows.                         *)
LEMMA PaymentCovers ==
  ASSUME IsFiniteSet(Payments), InvoiceInv, NEW p \in Payments, I!MarkInvoicePaid(p),
         NEW i \in Invoices, i = paying[p].invoice
  PROVE  Covered(i)'
<1> SUFFICES ASSUME invoice'[i] # None, I!Regular(i)'
             PROVE  Covered(i)'
  BY DEF Covered
<1> DEFINE q == paying[p]
           row == invoice[i]
           T == I!Recorded(i)
<1>1. /\ paying \in [Payments -> PaymentsRead \cup {[pc |-> "new"]}]
      /\ q \in PaymentsRead /\ q.pc = "read" /\ q.invoice = i /\ p \in I!PaymentsOf(i)
      /\ paying' = [paying EXCEPT ![p].pc = "done"]
  BY DEF InvoiceInv, InvoicesTyped, I!MarkInvoicePaid, PaymentsRead, I!PaymentsOf
<1>2. /\ I!PaymentsOf(i)' = I!PaymentsOf(i)
      /\ I!Recorded(i)' = T \cup {p} /\ p \in Payments \ T /\ T \in SUBSET Payments
  BY <1>1 DEF I!PaymentsOf, I!Recorded, PaymentsRead
<1>3. \A r \in I!PaymentsOf(i) :
        /\ paying'[r].amount = paying[r].amount /\ paying'[r].paid = paying[r].paid
        /\ paying'[r].status = paying[r].status
        /\ paying[r].amount \in Int /\ paying[r].paid \in Int
        /\ paying'[r].pc = "read" => paying[r].pc = "read"
  BY <1>1 DEF I!PaymentsOf, PaymentsRead
<1>4. /\ row # None /\ row \in InvoiceRows
      /\ invoice' = [invoice EXCEPT ![i].status = I!NewStatus(p, row.amount_due),
                                    ![i].amount_paid = I!NewAmountPaid(p)]
  <2>1. invoice' = IF row = None THEN invoice
                   ELSE [invoice EXCEPT ![i].status = I!NewStatus(p, row.amount_due),
                                        ![i].amount_paid = I!NewAmountPaid(p)]
    BY <1>1 DEF I!MarkInvoicePaid
  <2>2. row # None
    BY <2>1
  <2> QED
    BY <2>1, <2>2 DEF InvoiceInv, InvoicesTyped
<1>5. I!Regular(i) /\ q.amount >= 0 /\ q.paid + q.amount \in I!I64
  BY <1>1, <1>2, <1>3 DEF I!Regular
<1>6. I!NewAmountPaid(p) = q.paid + q.amount
  BY <1>1, <1>5, InvoiceWrap DEF I!NewAmountPaid, PaymentsRead
<1>7. /\ invoice'[i].amount_paid = q.paid + q.amount
      /\ invoice'[i].amount_due = row.amount_due /\ row.amount_due \in Int
      /\ invoice'[i].status = I!NewStatus(p, row.amount_due)
  BY <1>4, <1>6 DEF InvoiceInv, InvoicesTyped, InvoiceRows
<1>8. I!Total(I!Recorded(i))' = I!Total(T) + q.amount /\ I!Total(T) \in Int
  <2>1. \A r \in T \cup {p} : paying[r].amount \in Int /\ paying'[r].amount = paying[r].amount
    BY <1>1, <1>3 DEF I!Recorded
  <2> HIDE DEF T
  <2>2. I!Total(T) \in Int
    BY <1>2, <2>1, TotalTyped
  <2>3. I!Total(I!Recorded(i))' = SumFunctionOnSet([r \in T \cup {p} |-> paying'[r].amount], T \cup {p})
    BY <1>2, TotalNext
  <2>4. SumFunctionOnSet([r \in T \cup {p} |-> paying'[r].amount], T \cup {p})
          = I!Total(T) + paying[p].amount
    BY <1>2, <2>1, TotalGrows
  <2> QED
    BY <2>2, <2>3, <2>4
<1>9. /\ q.paid <= I!Total(T)
      /\ q.status = "PAID" => q.paid >= row.amount_due
      /\ \A r \in I!PaymentsOf(i) : paying[r].pc = "read" =>
           /\ paying[r].paid <= I!Total(T)
           /\ paying[r].status = "PAID" => paying[r].paid >= row.amount_due
  BY <1>1, <1>4, <1>5 DEF InvoiceInv, Covered
<1>10. q.amount \in Int /\ q.paid \in Int
  BY <1>1 DEF PaymentsRead
<1> HIDE DEF q, row, T
<1>11. invoice'[i].amount_paid <= I!Total(I!Recorded(i))'
  BY <1>7, <1>8, <1>9, <1>10
<1>12. invoice'[i].status = "PAID" => invoice'[i].amount_paid >= invoice'[i].amount_due
  BY <1>5, <1>6, <1>7, <1>9, <1>10 DEF I!NewStatus, q
<1>13. ASSUME NEW r \in I!PaymentsOf(i), paying'[r].pc = "read"
       PROVE  /\ paying'[r].paid <= I!Total(I!Recorded(i))'
              /\ paying'[r].status = "PAID" => paying'[r].paid >= invoice'[i].amount_due
  BY <1>3, <1>5, <1>7, <1>8, <1>9, <1>10, <1>13
<1> QED
  BY <1>2, <1>11, <1>12, <1>13 DEF Covered

(* No step leaves an invoice showing more than its payments cover.         *)
LEMMA CoveredStep ==
  ASSUME IsFiniteSet(Payments), InvoiceInv, [I!Next]_invoiceVars, NEW i \in Invoices
  PROVE  Covered(i)'
<1>0. Covered(i) /\ InvoicesTyped
  BY DEF InvoiceInv
<1> USE DEF InvoicesTyped, PaymentsRead
<1>1. ASSUME NEW j \in Invoices, NEW bill \in Bills, I!CreateInvoice(j, bill)
      PROVE  Covered(i)'
  <2>1. SamePayments(i)
    BY <1>1 DEF I!CreateInvoice, SamePayments, I!PaymentsOf
  <2>2. CASE i # j
    BY <1>0, <1>1, <2>1, <2>2, CoveredKept DEF I!CreateInvoice
  <2>3. CASE i = j
    <3>1. /\ I!PaymentsOf(i)' = {} /\ I!Recorded(i)' = {}
          /\ invoice'[i].amount_paid = 0 /\ invoice'[i].status = "DRAFT"
      BY <1>0, <1>1, <2>1, <2>3 DEF I!CreateInvoice, SamePayments, I!Recorded
    <3>2. I!Total(I!Recorded(i))' = 0
      BY <3>1, TotalNext, SumOfNothing
    <3> QED
      BY <3>1, <3>2 DEF Covered
  <2> QED
    BY <2>2, <2>3
<1>2. ASSUME NEW j \in Invoices, I!CreateLineItem(j) \/ I!EndCreate(j) PROVE Covered(i)'
  BY <1>0, <1>2, CoveredKept DEF I!CreateLineItem, I!EndCreate, SamePayments, I!PaymentsOf
<1>3. ASSUME NEW j \in Invoices, I!DeleteCustomerOf(j) PROVE Covered(i)'
  <2>1. CASE i = j
    BY <1>0, <1>3, <2>1 DEF I!DeleteCustomerOf, Covered
  <2>2. CASE i # j
    BY <1>0, <1>3, <2>2, CoveredKept DEF I!DeleteCustomerOf, SamePayments, I!PaymentsOf
  <2> QED
    BY <2>1, <2>2
<1>4. ASSUME NEW j \in Invoices, I!FinalizeInvoice(j) PROVE Covered(i)'
  <2>1. SamePayments(i)
    BY <1>4 DEF I!FinalizeInvoice, SamePayments, I!PaymentsOf
  <2> QED
    BY <1>0, <1>4, <2>1, CoveredKept DEF I!FinalizeInvoice, InvoiceRows
<1>5. ASSUME NEW j \in Invoices, NEW p \in Payments, NEW amount \in Amounts,
             I!ReadInvoice(p, j, amount)
      PROVE  Covered(i)'
  <2>1. /\ paying[p].pc = "new" /\ invoice[j] # None /\ invoice' = invoice
        /\ paying' = [paying EXCEPT ![p] = [pc |-> "read", invoice |-> j, amount |-> amount,
                        paid |-> invoice[j].amount_paid, status |-> invoice[j].status]]
    BY <1>5 DEF I!ReadInvoice
  <2>2. CASE i # j
    <3>1. SamePayments(i)
      BY <1>0, <2>1, <2>2 DEF SamePayments, I!PaymentsOf
    <3> QED
      BY <1>0, <2>1, <3>1, CoveredKept
  <2>3. CASE i = j
    <3> DEFINE T == I!Recorded(i)
    <3>1. /\ I!PaymentsOf(i)' = I!PaymentsOf(i) \cup {p} /\ p \notin I!PaymentsOf(i)
          /\ I!Recorded(i)' = T /\ T \in SUBSET Payments
          /\ \A q \in I!PaymentsOf(i) : paying'[q] = paying[q]
      BY <1>0, <2>1, <2>3 DEF I!PaymentsOf, I!Recorded
    <3>2. \A q \in T : paying'[q].amount = paying[q].amount
      BY <3>1 DEF I!Recorded
    <3>3. I!Regular(i)' => I!Regular(i)
      BY <3>1 DEF I!Regular
    <3> HIDE DEF T
    <3>4. I!Total(I!Recorded(i))' = I!Total(T)
      BY <3>1, <3>2, TotalNext, TotalKept
    <3>5. paying'[p].paid = invoice[i].amount_paid /\ paying'[p].status = invoice[i].status
      BY <1>0, <2>1, <2>3
    <3> QED
      BY <1>0, <2>1, <3>1, <3>3, <3>4, <3>5 DEF Covered, T
  <2> QED
    BY <2>2, <2>3
<1>6. ASSUME NEW p \in Payments, I!MarkInvoicePaid(p) PROVE Covered(i)'
  <2>1. CASE i = paying[p].invoice
    BY <1>6, <2>1, PaymentCovers
  <2>2. CASE i # paying[p].invoice
    <3>1. SamePayments(i)
      BY <1>0, <1>6, <2>2 DEF I!MarkInvoicePaid, SamePayments, I!PaymentsOf
    <3>2. invoice'[i] = invoice[i]
      BY <1>0, <1>6, <2>2 DEF I!MarkInvoicePaid
    <3> QED
      BY <1>0, <3>1, <3>2, CoveredKept
  <2> QED
    BY <2>1, <2>2
<1>7. ASSUME NEW p \in Payments, I!InterruptPayment(p) PROVE Covered(i)'
  BY <1>0, <1>7, CoveredKept DEF I!InterruptPayment, SamePayments, I!PaymentsOf
<1>8. CASE UNCHANGED invoiceVars
  BY <1>0, <1>8, CoveredKept DEF invoiceVars, SamePayments, I!PaymentsOf
<1> QED
  BY <1>1, <1>2, <1>3, <1>4, <1>5, <1>6, <1>7, <1>8 DEF I!Next

(* An invoice that shows PAID has been paid, however payments overlap, for *)
(* any bills, any amounts and any number of payments, deletions included.  *)
THEOREM PaidInvoicesArePaid ==
  ASSUME IsFiniteSet(Payments) PROVE Spec => []PaidMeansPaid
<1>1. Init => InvoiceInv
  <2> SUFFICES ASSUME I!Init PROVE InvoiceInv
    BY PartsInit
  <2>1. \A i \in Invoices : I!PaymentsOf(i) = {}
    BY DEF I!Init, I!PaymentsOf
  <2> QED
    BY <2>1 DEF I!Init, InvoiceInv, InvoicesTyped, Covered
<1>2. InvoiceInv /\ [Next]_vars => InvoiceInv'
  BY PartsStep, InvoicesTypedStep, CoveredStep DEF InvoiceInv
<1>3. InvoiceInv => PaidMeansPaid
  BY DEF InvoiceInv, Covered, PaidMeansPaid, I!PaidMeansPaid
<1> QED
  BY <1>1, <1>2, <1>3, PTL DEF Spec
=============================================================================
