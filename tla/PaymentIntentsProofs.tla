------------------------ MODULE PaymentIntentsProofs ------------------------
(***************************************************************************)
(* Theorems about PaymentIntents, for any intents, payment methods and     *)
(* requests, and any width of the status column.                           *)
(***************************************************************************)
EXTENDS PaymentIntents, FiniteSetTheorems, TLAPS

(* Where a request is, and what it therefore has.                          *)
Processed(r) ==
  \/ op[r] = "authenticated"
  \/ op[r] = "confirm" /\ intent[r] \in Intents \ Large

RequestsLocated ==
  \A r \in Requests :
    /\ pc[r] # "new" => /\ intent[r] \in Intents
                        /\ op[r] # "none"
                        /\ status[intent[r]] # "ABSENT"
    /\ pc[r] = "new" => intent[r] = None /\ op[r] = "none"
    /\ pc[r] = "method" => op[r] = "confirm" /\ named[r] # None
    /\ pc[r] \in {"processing", "abandoned"} => Processed(r)
    /\ op[r] # "confirm" => named[r] = None
    /\ charged[r] # {} => pc[r] = "done" /\ Processed(r)

IntentsTyped == TypeOK /\ RequestsLocated

-----------------------------------------------------------------------------
(* Before any request every intent is absent.                              *)
LEMMA IntentsTypedInit == Init => IntentsTyped
  BY DEF Init, IntentsTyped, TypeOK, RequestsLocated, Processed, Written

(* Every step keeps the types and the places of the requests.              *)
LEMMA IntentsTypedStep ==
  ASSUME IntentsTyped, [Next]_vars PROVE IntentsTyped'
<1> USE NoneIsNotAValue DEF IntentsTyped, TypeOK, Written, Working
<1>1. ASSUME NEW i \in Intents, NEW m \in Methods \cup {None}, CreatePaymentIntent(i, m)
      PROVE  IntentsTyped'
  BY <1>1 DEF CreatePaymentIntent, InitialStatus, RequestsLocated, Processed
<1>2. ASSUME NEW i \in Intents, CancelPaymentIntent(i) PROVE IntentsTyped'
  BY <1>2 DEF CancelPaymentIntent, RequestsLocated, Processed
<1>3. ASSUME NEW i \in Intents, NEW r \in Requests, NEW m \in Methods \cup {None},
             NEW kind \in {"confirm", "authenticated", "declined"},
             kind # "confirm" => m = None, Begin(r, i, kind, m)
      PROVE  IntentsTyped'
  <2>1. charged[r] = {} /\ kind # "none"
    BY <1>3 DEF Begin, RequestsLocated
  <2>2. TypeOK'
    BY <1>3 DEF Begin
  <2>3. RequestsLocated'
    BY <1>3, <2>1 DEF Begin, RequestsLocated, Processed
  <2> QED
    BY <2>2, <2>3
<1>4. ASSUME NEW r \in Requests, UpdatePaymentMethod(r) PROVE IntentsTyped'
  BY <1>4 DEF UpdatePaymentMethod, RequestsLocated, Processed
<1>5. ASSUME NEW r \in Requests, UpdateStatus(r) PROVE IntentsTyped'
  <2>1. NewStatus(r) \in {"CANCELED", "REQUIRES_ACTION", "PROCESSING"}
    BY DEF NewStatus
  <2>2. IsProcessed(r) => Processed(r)
    BY <1>5 DEF UpdateStatus, IsProcessed, NewStatus, Processed, RequestsLocated
  <2>3. TypeOK'
    BY <1>5, <2>1 DEF UpdateStatus
  <2>4. RequestsLocated'
    BY <1>5, <2>1, <2>2 DEF UpdateStatus, RequestsLocated, Processed
  <2> QED
    BY <2>3, <2>4
<1>6. ASSUME NEW r \in Requests, Succeed(r) PROVE IntentsTyped'
  BY <1>6 DEF Succeed, FinalStatus, RequestsLocated, Processed
<1>7. ASSUME NEW r \in Requests, Interrupt(r) PROVE IntentsTyped'
  BY <1>7 DEF Interrupt, RequestsLocated, Processed
<1>8. ASSUME UNCHANGED vars PROVE IntentsTyped'
  BY <1>8 DEF vars, RequestsLocated, Processed
<1> QED
  BY <1>1, <1>2, <1>3, <1>4, <1>5, <1>6, <1>7, <1>8
     DEF Next, ReadToConfirm, ReadRequiresAction

(* The types hold throughout.                                              *)
LEMMA IntentsTypedAlways == Spec => []IntentsTyped
  BY IntentsTypedInit, IntentsTypedStep, PTL DEF Spec

(* The variables of the payment intents keep their types; in particular no *)
(* intent waits to be captured.                                            *)
THEOREM Typing == Spec => []TypeOK
  BY IntentsTypedAlways, PTL DEF IntentsTyped

-----------------------------------------------------------------------------
(* However requests interleave, a large payment is processed only after    *)
(* its holder was authenticated: who writes PROCESSING or SUCCEEDED on a   *)
(* large intent has itself read a positive 3-D Secure result.              *)
LEMMA AuthenticatedStep ==
  ASSUME IntentsTyped, LargeIsAuthenticated, [Next]_vars PROVE LargeIsAuthenticated'
<1> USE NoneIsNotAValue DEF IntentsTyped, TypeOK, LargeIsAuthenticated, Authentications
<1>1. ASSUME NEW i \in Intents,
             CancelPaymentIntent(i) \/ \E m \in Methods \cup {None} : CreatePaymentIntent(i, m)
      PROVE  LargeIsAuthenticated'
  BY <1>1 DEF CreatePaymentIntent, CancelPaymentIntent, InitialStatus
<1>2. ASSUME NEW i \in Intents, NEW r \in Requests, NEW m \in Methods \cup {None},
             NEW kind \in {"confirm", "authenticated", "declined"}, Begin(r, i, kind, m)
      PROVE  LargeIsAuthenticated'
  BY <1>2 DEF Begin, RequestsLocated
<1>3. ASSUME NEW r \in Requests, UpdatePaymentMethod(r) \/ Interrupt(r)
      PROVE  LargeIsAuthenticated'
  BY <1>3 DEF UpdatePaymentMethod, Interrupt
<1>4. ASSUME NEW r \in Requests, UpdateStatus(r) PROVE LargeIsAuthenticated'
  <2>1. intent[r] \in Large /\ NewStatus(r) = "PROCESSING" => op[r] = "authenticated"
    BY <1>4 DEF UpdateStatus, NewStatus, RequestsLocated, Working
  <2> QED
    BY <1>4, <2>1 DEF UpdateStatus, NewStatus
<1>5. ASSUME NEW r \in Requests, Succeed(r) PROVE LargeIsAuthenticated'
  BY <1>5 DEF Succeed, FinalStatus, RequestsLocated, Processed
<1>6. CASE UNCHANGED vars
  BY <1>6 DEF vars
<1> QED
  BY <1>1, <1>2, <1>3, <1>4, <1>5, <1>6 DEF Next, ReadToConfirm, ReadRequiresAction

(* A large payment is in progress or made only once its client has been    *)
(* authenticated, for any number of requests that confirm it.              *)
THEOREM LargePaymentsAreAuthenticated == Spec => []LargeIsAuthenticated
<1>1. Init => LargeIsAuthenticated
  BY DEF Init, LargeIsAuthenticated
<1> QED
  BY <1>1, IntentsTypedAlways, AuthenticatedStep, PTL DEF Spec

-----------------------------------------------------------------------------
(* Who writes PROCESSING goes on to write SUCCEEDED or is cut off first.   *)
LEMMA AttendedStep ==
  ASSUME IntentsTyped, ProcessingIsAttended, [Next]_vars PROVE ProcessingIsAttended'
<1> USE NoneIsNotAValue DEF IntentsTyped, TypeOK, ProcessingIsAttended
<1>1. ASSUME NEW i \in Intents,
             CancelPaymentIntent(i) \/ \E m \in Methods \cup {None} : CreatePaymentIntent(i, m)
      PROVE  ProcessingIsAttended'
  BY <1>1 DEF CreatePaymentIntent, CancelPaymentIntent, InitialStatus
<1>2. ASSUME NEW i \in Intents, NEW r \in Requests, NEW m \in Methods \cup {None},
             NEW kind \in {"confirm", "authenticated", "declined"}, Begin(r, i, kind, m)
      PROVE  ProcessingIsAttended'
  BY <1>2 DEF Begin
<1>3. ASSUME NEW r \in Requests, UpdatePaymentMethod(r) \/ Interrupt(r)
      PROVE  ProcessingIsAttended'
  BY <1>3 DEF UpdatePaymentMethod, Interrupt, Working
<1>4. ASSUME NEW r \in Requests, UpdateStatus(r) PROVE ProcessingIsAttended'
  <2>1. NewStatus(r) = "PROCESSING" => IsProcessed(r)
    BY <1>4 DEF UpdateStatus, NewStatus, IsProcessed, RequestsLocated
  <2>2. intent[r] \in Intents /\ pc[r] \in {"read", "method"}
    BY <1>4 DEF UpdateStatus, RequestsLocated
  <2>3. /\ pc' = [pc EXCEPT ![r] = IF IsProcessed(r) THEN "processing" ELSE "done"]
        /\ status' = [status EXCEPT ![intent[r]] = NewStatus(r)]
        /\ intent' = intent
    BY <1>4 DEF UpdateStatus
  <2> HIDE DEF IsProcessed, NewStatus
  <2>4. ASSUME NEW i \in Intents, status'[i] = "PROCESSING"
        PROVE  \E q \in Requests : intent'[q] = i /\ pc'[q] \in {"processing", "abandoned"}
    <3>1. CASE i = intent[r]
      BY <2>1, <2>2, <2>3, <2>4, <3>1
    <3>2. CASE i # intent[r]
      BY <2>2, <2>3, <2>4, <3>2
    <3> QED
      BY <3>1, <3>2
  <2> QED
    BY <2>4
<1>5. ASSUME NEW r \in Requests, Succeed(r) PROVE ProcessingIsAttended'
  BY <1>5 DEF Succeed, FinalStatus, RequestsLocated
<1>6. CASE UNCHANGED vars
  BY <1>6 DEF vars
<1> QED
  BY <1>1, <1>2, <1>3, <1>4, <1>5, <1>6 DEF Next, ReadToConfirm, ReadRequiresAction

(* An intent that shows PROCESSING is being finished by some request, or   *)
(* the one that was to finish it has been cut off.                         *)
THEOREM ProcessingIsNeverOrphaned == Spec => []ProcessingIsAttended
<1>1. Init => ProcessingIsAttended
  BY DEF Init, ProcessingIsAttended
<1> QED
  BY <1>1, IntentsTypedAlways, AttendedStep, PTL DEF Spec

-----------------------------------------------------------------------------
(* Where requests on an intent have not overlapped, one at a time works on *)
(* it, and nobody changes the method between its two statements.           *)
OneAtATime ==
  \A i \in Intents \ overlapped : \A q, r \in InFlight(i) : q = r

NamedMethodInUse ==
  \A r \in Requests :
    /\ pc[r] \in {"method", "processing"} /\ named[r] # None /\ intent[r] \notin overlapped
         => payment_method_id[intent[r]] = named[r]
    /\ charged[r] # {} /\ named[r] # None /\ intent[r] \notin overlapped
         => charged[r] = {named[r]}

(* A charge is due once the intent awaits its 3-D Secure result, until it  *)
(* is made or given up: each was paid for by a confirmation.               *)
ChargeDue(i) ==
  \/ status[i] = "REQUIRES_ACTION"
  \/ \E r \in InFlight(i) : op[r] = "authenticated"
Due(i) == IF ChargeDue(i) THEN 1 ELSE 0
ChargesCovered ==
  \A i \in (Intents \cap Large) \ overlapped :
    Cardinality(Charges(i)) + Due(i) <= Cardinality(Confirmations(i))

(* An intent that is not in overlapped has one request at a time.          *)
LEMMA OneAtATimeStep ==
  ASSUME IntentsTyped, OneAtATime, [Next]_vars PROVE OneAtATime'
<1> USE DEF IntentsTyped, TypeOK, OneAtATime, InFlight, Working
<1>1. ASSUME NEW i \in Intents,
             CancelPaymentIntent(i) \/ \E m \in Methods \cup {None} : CreatePaymentIntent(i, m)
      PROVE  OneAtATime'
  BY <1>1 DEF CreatePaymentIntent, CancelPaymentIntent
<1>2. ASSUME NEW i \in Intents, NEW r \in Requests, NEW m \in Methods \cup {None},
             NEW kind \in {"confirm", "authenticated", "declined"}, Begin(r, i, kind, m)
      PROVE  OneAtATime'
  BY <1>2 DEF Begin
<1>3. ASSUME NEW r \in Requests,
             UpdatePaymentMethod(r) \/ UpdateStatus(r) \/ Succeed(r) \/ Interrupt(r)
      PROVE  OneAtATime'
  <2>1. /\ pc[r] \in Working /\ UNCHANGED <<intent, overlapped>>
        /\ \A q \in Requests \ {r} : pc'[q] = pc[q]
    BY <1>3 DEF UpdatePaymentMethod, UpdateStatus, Succeed, Interrupt
  <2> QED
    BY <2>1
<1>4. CASE UNCHANGED vars
  BY <1>4 DEF vars
<1> QED
  BY <1>1, <1>2, <1>3, <1>4 DEF Next, ReadToConfirm, ReadRequiresAction

(* The method a request names is the one its intent shows, unless requests *)
(* overlap.                                                                *)
LEMMA NamedMethodStep ==
  ASSUME IntentsTyped, OneAtATime, NamedMethodInUse, [Next]_vars PROVE NamedMethodInUse'
<1> USE NoneIsNotAValue DEF IntentsTyped, TypeOK, NamedMethodInUse
<1>1. ASSUME NEW i \in Intents,
             CancelPaymentIntent(i) \/ \E m \in Methods \cup {None} : CreatePaymentIntent(i, m)
      PROVE  NamedMethodInUse'
  BY <1>1 DEF CreatePaymentIntent, CancelPaymentIntent, RequestsLocated
<1>2. ASSUME NEW i \in Intents, NEW r \in Requests, NEW m \in Methods \cup {None},
             NEW kind \in {"confirm", "authenticated", "declined"}, Begin(r, i, kind, m)
      PROVE  NamedMethodInUse'
  BY <1>2 DEF Begin, RequestsLocated
<1>3. ASSUME NEW r \in Requests, UpdatePaymentMethod(r) PROVE NamedMethodInUse'
  <2>1. /\ intent[r] \in Intents /\ charged[r] = {}
        /\ \A q \in Requests : pc[q] # "new" => intent[q] \in Intents
    BY <1>3 DEF UpdatePaymentMethod, RequestsLocated
  <2>2. ASSUME NEW q \in Requests, q # r, pc[q] \in {"method", "processing"},
               intent[q] = intent[r], intent[q] \notin overlapped
        PROVE  FALSE
    BY <1>3, <2>1, <2>2 DEF UpdatePaymentMethod, OneAtATime, InFlight, Working
  <2> QED
    BY <1>3, <2>1, <2>2 DEF UpdatePaymentMethod
<1>4. ASSUME NEW r \in Requests, UpdateStatus(r) PROVE NamedMethodInUse'
  <2>1. named[r] # None => pc[r] = "method"
    BY <1>4 DEF UpdateStatus, RequestsLocated
  <2> QED
    BY <1>4, <2>1 DEF UpdateStatus
<1>5. ASSUME NEW r \in Requests, Succeed(r) \/ Interrupt(r) PROVE NamedMethodInUse'
  BY <1>5 DEF Succeed, Interrupt
<1>6. CASE UNCHANGED vars
  BY <1>6 DEF vars
<1> QED
  BY <1>1, <1>2, <1>3, <1>4, <1>5, <1>6 DEF Next, ReadToConfirm, ReadRequiresAction

(* A step that neither charges nor confirms, nor makes a charge due.       *)
LEMMA QuietStep ==
  ASSUME NEW i, Charges(i)' = Charges(i), Confirmations(i)' = Confirmations(i),
         ChargeDue(i)' => ChargeDue(i),
         Cardinality(Charges(i)) \in Nat, Cardinality(Confirmations(i)) \in Nat,
         Cardinality(Charges(i)) + Due(i) <= Cardinality(Confirmations(i))
  PROVE  Cardinality(Charges(i)') + Due(i)' <= Cardinality(Confirmations(i)')
  BY DEF Due

(* Each charge that is made or due stays paid for by a confirmation.       *)
LEMMA ChargesCoveredStep ==
  ASSUME IsFiniteSet(Requests), IntentsTyped, OneAtATime, ChargesCovered, [Next]_vars
  PROVE  ChargesCovered'
<1> SUFFICES ASSUME NEW i \in (Intents \cap Large) \ overlapped'
             PROVE  Cardinality(Charges(i)') + Due(i)' <= Cardinality(Confirmations(i)')
  BY DEF ChargesCovered
<1> USE DEF IntentsTyped, TypeOK
<1>0. /\ i \in (Intents \cap Large) \ overlapped
      /\ Cardinality(Charges(i)) + Due(i) <= Cardinality(Confirmations(i))
  <2>1. overlapped \subseteq overlapped'
    BY DEF Next, CreatePaymentIntent, CancelPaymentIntent, ReadToConfirm,
           ReadRequiresAction, Begin, UpdatePaymentMethod, UpdateStatus, Succeed,
           Interrupt, vars
  <2> QED
    BY <2>1 DEF ChargesCovered
<1>f. /\ IsFiniteSet(Charges(i)) /\ IsFiniteSet(Confirmations(i))
      /\ Cardinality(Charges(i)) \in Nat /\ Cardinality(Confirmations(i)) \in Nat
  BY FS_Subset, FS_CardinalityType DEF Charges, Confirmations
<1> DEFINE Quiet == /\ Charges(i)' = Charges(i) /\ Confirmations(i)' = Confirmations(i)
                    /\ ChargeDue(i)' => ChargeDue(i)
<1>1. ASSUME NEW j \in Intents,
             CancelPaymentIntent(j) \/ \E m \in Methods \cup {None} : CreatePaymentIntent(j, m)
      PROVE  Quiet
  BY <1>1 DEF CreatePaymentIntent, CancelPaymentIntent, InitialStatus, Charges,
              Confirmations, ChargeDue, InFlight
<1>2. ASSUME NEW j \in Intents, NEW r \in Requests, NEW m \in Methods \cup {None},
             NEW kind \in {"confirm", "authenticated", "declined"}, Begin(r, j, kind, m),
             kind = "authenticated" => status[j] = "REQUIRES_ACTION"
      PROVE  Quiet
  <2>1. charged[r] = {}
    BY <1>2 DEF Begin, RequestsLocated
  <2> QED
    BY <1>2, <2>1 DEF Begin, Charges, Confirmations, ChargeDue, InFlight, Working
<1>3. ASSUME NEW r \in Requests, UpdatePaymentMethod(r) \/ Interrupt(r) PROVE Quiet
  BY <1>3 DEF UpdatePaymentMethod, Interrupt, Charges, Confirmations, ChargeDue,
              InFlight, Working
<1>4. ASSUME NEW r \in Requests, UpdateStatus(r) \/ Succeed(r), intent[r] # i PROVE Quiet
  <2>1. /\ status'[i] = status[i]
        /\ \A q \in Requests : intent[q] = i => pc'[q] = pc[q] /\ charged'[q] = charged[q]
        /\ UNCHANGED <<intent, op>>
    BY <1>4 DEF UpdateStatus, Succeed, RequestsLocated, Working
  <2> QED
    BY <2>1 DEF Charges, Confirmations, ChargeDue, InFlight
<1>5. ASSUME NEW r \in Requests, UpdateStatus(r), intent[r] = i, op[r] # "confirm"
      PROVE  Quiet
  <2>1. /\ op[r] \in {"authenticated", "declined"} /\ pc[r] = "read"
        /\ status'[i] \in {"PROCESSING", "CANCELED"}
        /\ op[r] = "authenticated" => ChargeDue(i)
        /\ pc'[r] \in {"processing", "done"} /\ (\A q \in Requests \ {r} : pc'[q] = pc[q])
        /\ UNCHANGED <<op, intent, charged>>
    BY <1>5 DEF UpdateStatus, NewStatus, ChargeDue, InFlight, Working, RequestsLocated
  <2>2. Charges(i)' = Charges(i) /\ Confirmations(i)' = Confirmations(i)
    BY <1>5, <2>1 DEF Charges, Confirmations
  <2>3. ChargeDue(i)' => ChargeDue(i)
    BY <1>5, <2>1 DEF ChargeDue, InFlight, Working
  <2> QED
    BY <2>2, <2>3
<1>6. ASSUME NEW r \in Requests, UpdateStatus(r), intent[r] = i, op[r] = "confirm"
      PROVE  Cardinality(Charges(i)') + Due(i)' <= Cardinality(Confirmations(i)')
  <2>1. /\ pc[r] # "done" /\ pc' = [pc EXCEPT ![r] = "done"]
        /\ UNCHANGED <<op, intent, charged>>
    BY <1>6 DEF UpdateStatus, IsProcessed, NewStatus
  <2>2. /\ Charges(i)' = Charges(i)
        /\ Confirmations(i)' = Confirmations(i) \cup {r} /\ r \notin Confirmations(i)
    BY <1>6, <2>1 DEF Charges, Confirmations
  <2>3. Cardinality(Confirmations(i)') = Cardinality(Confirmations(i)) + 1
    BY <1>f, <2>2, FS_AddElement
  <2>4. Due(i) \in {0, 1} /\ Due(i)' \in {0, 1}
    BY DEF Due
  <2> QED
    BY <1>0, <1>f, <2>2, <2>3, <2>4
<1>7. ASSUME NEW r \in Requests, Succeed(r), intent[r] = i
      PROVE  Cardinality(Charges(i)') + Due(i)' <= Cardinality(Confirmations(i)')
  <2>1. op[r] = "authenticated" /\ r \in InFlight(i) /\ charged[r] = {}
    BY <1>7 DEF Succeed, RequestsLocated, Processed, InFlight, Working
  <2>2. Due(i) = 1
    BY <2>1 DEF Due, ChargeDue
  <2>3. /\ pc' = [pc EXCEPT ![r] = "done"] /\ UNCHANGED <<op, intent>>
        /\ status'[i] = "SUCCEEDED"
        /\ charged'[r] # {} /\ \A q \in Requests \ {r} : charged'[q] = charged[q]
    BY <1>7 DEF Succeed, FinalStatus
  <2>4. /\ Charges(i)' = Charges(i) \cup {r} /\ r \notin Charges(i)
        /\ Confirmations(i)' = Confirmations(i)
    BY <1>7, <2>1, <2>3 DEF Charges, Confirmations
  <2>5. InFlight(i)' = {}
    BY <1>0, <2>1, <2>3 DEF OneAtATime, InFlight, Working
  <2>6. Due(i)' = 0
    BY <2>3, <2>5 DEF Due, ChargeDue
  <2>7. Cardinality(Charges(i)') = Cardinality(Charges(i)) + 1
    BY <1>f, <2>4, FS_AddElement
  <2> QED
    BY <1>0, <1>f, <2>2, <2>4, <2>6, <2>7
<1>8. CASE UNCHANGED vars
  <2>1. Quiet
    BY <1>8 DEF vars, Charges, Confirmations, ChargeDue, InFlight
  <2> QED
    BY <1>0, <1>f, <2>1, QuietStep
<1> QED
  <2>1. ASSUME Quiet
        PROVE  Cardinality(Charges(i)') + Due(i)' <= Cardinality(Confirmations(i)')
    BY <1>0, <1>f, <2>1, QuietStep
  <2> QED
    BY <1>1, <1>2, <1>3, <1>4, <1>5, <1>6, <1>7, <1>8, <2>1
       DEF Next, ReadToConfirm, ReadRequiresAction, AwaitsAction

(* Requests on an intent that come one after the other charge a large      *)
(* intent no more often than it was confirmed, and use the method named.   *)
THEOREM SerialRequestsChargeOnce ==
  ASSUME IsFiniteSet(Requests) PROVE Spec => []SerialChargesAreRight
<1>1. Init => OneAtATime /\ NamedMethodInUse /\ ChargesCovered
  <2>1. ASSUME Init PROVE OneAtATime /\ NamedMethodInUse
    BY <2>1 DEF Init, OneAtATime, NamedMethodInUse, InFlight, Working
  <2>2. ASSUME Init, NEW i \in Intents
        PROVE  Charges(i) = {} /\ Confirmations(i) = {} /\ Due(i) = 0
    BY <2>2 DEF Init, Charges, Confirmations, Due, ChargeDue, InFlight, Working
  <2> QED
    BY <2>1, <2>2, FS_EmptySet DEF ChargesCovered
<1>2. ASSUME IntentsTyped, NamedMethodInUse, ChargesCovered PROVE SerialChargesAreRight
  <2> SUFFICES ASSUME NEW i \in Intents \ overlapped
               PROVE  /\ i \in Large => Cardinality(Charges(i)) <= Cardinality(Confirmations(i))
                      /\ \A r \in Charges(i) : named[r] # None => charged[r] = {named[r]}
    BY DEF SerialChargesAreRight
  <2>1. \A r \in Charges(i) : named[r] # None => charged[r] = {named[r]}
    BY <1>2 DEF NamedMethodInUse, Charges
  <2>2. ASSUME i \in Large PROVE Cardinality(Charges(i)) <= Cardinality(Confirmations(i))
    <3>1. Cardinality(Charges(i)) + Due(i) <= Cardinality(Confirmations(i))
      BY <1>2, <2>2 DEF ChargesCovered
    <3>2. Cardinality(Charges(i)) \in Nat /\ Cardinality(Confirmations(i)) \in Nat
      BY FS_Subset, FS_CardinalityType DEF Charges, Confirmations
    <3> QED
      BY <3>1, <3>2 DEF Due
  <2> QED
    BY <2>1, <2>2
<1> QED
  BY <1>1, <1>2, IntentsTypedAlways, OneAtATimeStep, NamedMethodStep, ChargesCoveredStep,
     PTL DEF Spec
=============================================================================
