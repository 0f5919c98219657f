--------------------------- MODULE PaymentIntents ---------------------------
(***************************************************************************)
(* PaymentIntentService: an intent is created, confirmed, authenticated by *)
(* 3-D Secure when it is large, and cancelled.  Every UPDATE names the row *)
(* by id alone, each is committed on its own, and 100 ms pass between the  *)
(* two that process a payment.  The row read back for the answer at the    *)
(* end of each request changes nothing and is left out.                    *)
(***************************************************************************)
EXTENDS Integers, FiniteSets

CONSTANTS Intents,      \* payment_intents
          Large,        \* those whose amount is over 5000
          Methods,      \* payment_methods that exist
          Requests,     \* calls of confirm_payment_intent and handle_3d_secure
          StatusWidth,  \* payment_intents.status is VARCHAR(StatusWidth)
          None

ASSUME NoneIsNotAValue == None \notin Intents \cup Methods

VARIABLES
  status,             \* payment_intents.status; "ABSENT" where there is no row
  payment_method_id,  \* payment_intents.payment_method_id
  pc, op, intent,     \* the requests: place, kind (and result), argument
  named,              \* the payment_method_id a confirm request gives
  charged,            \* history: the method each request has charged
  overlapped          \* history: intents with two requests at once

vars == <<status, payment_method_id, pc, op, intent, named, charged, overlapped>>

(* The characters of a status: too long a value fails the statement.       *)
Length(s) == CASE s = "REQUIRES_PAYMENT_METHOD" -> 23
               [] s = "REQUIRES_CONFIRMATION"   -> 21
               [] OTHER                         -> 15
Fits(s) == Length(s) <= StatusWidth

Init ==
  /\ status = [i \in Intents |-> "ABSENT"]
  /\ payment_method_id = [i \in Intents |-> None]
  /\ pc = [r \in Requests |-> "new"]
  /\ op = [r \in Requests |-> "none"]
  /\ intent = [r \in Requests |-> None]
  /\ named = [r \in Requests |-> None]
  /\ charged = [r \in Requests |-> {}]
  /\ overlapped = {}

Working == {"read", "method", "processing"}
InFlight(i) == {r \in Requests : intent[r] = i /\ pc[r] \in Working}

-----------------------------------------------------------------------------
(* create_payment_intent: one INSERT.                                      *)
InitialStatus(m) ==
  IF m # None THEN "REQUIRES_CONFIRMATION" ELSE "REQUIRES_PAYMENT_METHOD"

CreatePaymentIntent(i, m) ==
  /\ status[i] = "ABSENT"
  /\ Fits(InitialStatus(m))
  /\ status' = [status EXCEPT ![i] = InitialStatus(m)]
  /\ payment_method_id' = [payment_method_id EXCEPT ![i] = m]
  /\ UNCHANGED <<pc, op, intent, named, charged, overlapped>>

(* A request reads the intent and goes on.                                 *)
Begin(r, i, kind, m) ==
  /\ pc[r] = "new"
  /\ status[i] # "ABSENT"
  /\ pc' = [pc EXCEPT ![r] = "read"]
  /\ op' = [op EXCEPT ![r] = kind]
  /\ intent' = [intent EXCEPT ![r] = i]
  /\ named' = [named EXCEPT ![r] = m]
  /\ overlapped' = IF InFlight(i) = {} THEN overlapped ELSE overlapped \cup {i}
  /\ UNCHANGED <<status, payment_method_id, charged>>

(* confirm_payment_intent looks at the amount alone, not at the status.    *)
ReadToConfirm(r, i, m) == Begin(r, i, "confirm", m)

(* handle_3d_secure goes on only if the intent requires action.            *)
(* Mutant: it does not look.                                               *)
AwaitsNothing(i) == TRUE
AwaitsAction(i) == status[i] = "REQUIRES_ACTION"

ReadRequiresAction(r, i, result) ==
  /\ AwaitsAction(i)
  /\ Begin(r, i, IF result THEN "authenticated" ELSE "declined", None)

(* confirm: UPDATE payment_method_id, if the request gives one.            *)
UpdatePaymentMethod(r) ==
  /\ pc[r] = "read" /\ op[r] = "confirm" /\ named[r] # None
  /\ pc' = [pc EXCEPT ![r] = "method"]
  /\ payment_method_id' = [payment_method_id EXCEPT ![intent[r]] = named[r]]
  /\ UNCHANGED <<status, op, intent, named, charged, overlapped>>

(* The status a request writes first.  Mutants: a large intent that names  *)
(* its method is trusted; a declined one is left processing.               *)
TrustedIfNamed(r) ==
  CASE op[r] = "declined" -> "CANCELED"
    [] op[r] = "confirm" /\ intent[r] \in Large /\ named[r] = None -> "REQUIRES_ACTION"
    [] OTHER -> "PROCESSING"
DeclinedIsProcessed(r) ==
  IF op[r] = "confirm" /\ intent[r] \in Large THEN "REQUIRES_ACTION" ELSE "PROCESSING"
NewStatus(r) ==
  CASE op[r] = "declined" -> "CANCELED"
    [] op[r] = "confirm" /\ intent[r] \in Large -> "REQUIRES_ACTION"
    [] OTHER -> "PROCESSING"

(* UPDATE status, WHERE id alone.  What is not processing is answered.     *)
IsProcessed(r) ==
  op[r] = "authenticated" \/ (op[r] = "confirm" /\ NewStatus(r) = "PROCESSING")

UpdateStatus(r) ==
  /\ \/ pc[r] = "read" /\ (op[r] = "confirm" => named[r] = None)
     \/ pc[r] = "method"
  /\ pc' = [pc EXCEPT ![r] = IF IsProcessed(r) THEN "processing" ELSE "done"]
  /\ status' = [status EXCEPT ![intent[r]] = NewStatus(r)]
  /\ UNCHANGED <<payment_method_id, op, intent, named, charged, overlapped>>

(* After the simulated processing: UPDATE status, WHERE id alone.          *)
FinalStatus(i) == "SUCCEEDED"

Succeed(r) ==
  /\ pc[r] = "processing"
  /\ pc' = [pc EXCEPT ![r] = "done"]
  /\ status' = [status EXCEPT ![intent[r]] = FinalStatus(intent[r])]
  /\ charged' = [charged EXCEPT ![r] = {payment_method_id[intent[r]]}]
  /\ UNCHANGED <<payment_method_id, op, intent, named, overlapped>>

(* cancel_payment_intent: one UPDATE, whatever the status.                 *)
CancelPaymentIntent(i) ==
  /\ status[i] # "ABSENT"
  /\ status' = [status EXCEPT ![i] = "CANCELED"]
  /\ UNCHANGED <<payment_method_id, pc, op, intent, named, charged, overlapped>>

(* A request is cut off at an await or a statement of its fails.           *)
Interrupt(r) ==
  /\ pc[r] \in Working
  /\ pc' = [pc EXCEPT ![r] = IF @ = "processing" THEN "abandoned" ELSE "stopped"]
  /\ UNCHANGED <<status, payment_method_id, op, intent, named, charged, overlapped>>

Next ==
  \/ \E i \in Intents :
       \/ \E m \in Methods \cup {None} : CreatePaymentIntent(i, m)
       \/ CancelPaymentIntent(i)
       \/ \E r \in Requests, m \in Methods \cup {None} : ReadToConfirm(r, i, m)
       \/ \E r \in Requests, result \in BOOLEAN : ReadRequiresAction(r, i, result)
  \/ \E r \in Requests :
       \/ UpdatePaymentMethod(r)
       \/ UpdateStatus(r)
       \/ Succeed(r)
       \/ Interrupt(r)

Spec == Init /\ [][Next]_vars

-----------------------------------------------------------------------------
Written == {"REQUIRES_PAYMENT_METHOD", "REQUIRES_CONFIRMATION", "REQUIRES_ACTION",
            "PROCESSING", "CANCELED", "SUCCEEDED"}

(* The variables range over the values the code can put in them; of the    *)
(* seven statuses REQUIRES_CAPTURE is never written.                       *)
TypeOK ==
  /\ status \in [Intents -> Written \cup {"ABSENT"}]
  /\ payment_method_id \in [Intents -> Methods \cup {None}]
  /\ pc \in [Requests -> Working \cup {"new", "done", "stopped", "abandoned"}]
  /\ op \in [Requests -> {"confirm", "authenticated", "declined", "none"}]
  /\ intent \in [Requests -> Intents \cup {None}]
  /\ named \in [Requests -> Methods \cup {None}]
  /\ charged \in [Requests -> SUBSET (Methods \cup {None})]
  /\ overlapped \subseteq Intents

(* Strong customer authentication: however confirm, cancel and 3-D Secure  *)
(* requests interleave, a large payment is being processed or has          *)
(* succeeded only if its 3-D Secure result was positive.                   *)
Authentications(i) == {r \in Requests : intent[r] = i /\ op[r] = "authenticated"}
LargeIsAuthenticated ==
  \A i \in Large \cap Intents :
    status[i] \in {"PROCESSING", "SUCCEEDED"} => Authentications(i) # {}

(* No intent is left PROCESSING behind the back of the requests: one of    *)
(* them is about to finish it, or was cut off while it waited.             *)
ProcessingIsAttended ==
  \A i \in Intents : status[i] = "PROCESSING" =>
    \E r \in Requests : intent[r] = i /\ pc[r] \in {"processing", "abandoned"}

(* Where no two requests on an intent overlap, cancellations and cut-offs  *)
(* notwithstanding: a large intent is charged at most once for each time   *)
(* it was confirmed, and a confirmation charges the method it names.       *)
Charges(i) == {r \in Requests : intent[r] = i /\ charged[r] # {}}
Confirmations(i) ==
  {r \in Requests : intent[r] = i /\ op[r] = "confirm" /\ pc[r] = "done"}
SerialChargesAreRight ==
  \A i \in Intents \ overlapped :
    /\ i \in Large => Cardinality(Charges(i)) <= Cardinality(Confirmations(i))
    /\ \A r \in Charges(i) : named[r] # None => charged[r] = {named[r]}
=============================================================================
