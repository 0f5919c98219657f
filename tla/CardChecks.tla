----------------------------- MODULE CardChecks -----------------------------
(***************************************************************************)
(* CardValidator, FraudDetector and the simulated Visa client: what a card *)
(* must be to be called valid, and to be charged.  A card number is the    *)
(* sequence of its digits; spaced says whether it was typed with separa-   *)
(* tors, which the validator strips and the two others do not.             *)
(***************************************************************************)
EXTENDS Integers, SequencesExt

CONSTANTS Cards,       \* records: pan, spaced, month, year, cvv (its length), address, name
          Suspicious,  \* FraudDetector's suspicious_patterns
          Declined,    \* the prefixes of sixteen digits that Visa declines
          ThisMonth,   \* today's [year, month]
          None

VARIABLES card,    \* the card of the request
          answer   \* what it was answered

cardVars == <<card, answer>>

Init == card = None /\ answer = "none"

-----------------------------------------------------------------------------
(* A doubled digit of two figures counts as their sum.                     *)
(* Mutant: the figures are not added.                                      *)
NotFolded(d) == 2 * d
Doubled(d) == IF 2 * d > 9 THEN ((2 * d) \div 10) + ((2 * d) % 10) ELSE 2 * d

(* Every second digit from the right is doubled, the last one is not.      *)
Worth(pan, i) == IF (Len(pan) - i) % 2 = 1 THEN Doubled(pan[i]) ELSE pan[i]
LuhnSum(pan) == SumFunction([i \in DOMAIN pan |-> Worth(pan, i)])

ValidateCardNumber(pan) == Len(pan) \in 13 .. 19 /\ LuhnSum(pan) % 10 = 0

ValidateExpiry(c) ==
  /\ c.month \in 1 .. 12
  /\ c.year >= ThisMonth.year
  /\ c.year = ThisMonth.year => c.month >= ThisMonth.month

ValidateCvv(c) == c.cvv = IF c.pan[1] = 3 THEN 4 ELSE 3

(* validate_card: the five checks in the code's order.                     *)
ValidateCard(c) ==
  /\ ValidateCardNumber(c.pan)
  /\ ValidateExpiry(c)
  /\ ValidateCvv(c)
  /\ c.address
  /\ c.name

(* check_fraud, for a request without user_info: the patterns are compared *)
(* with the number as typed.  Nobody calls block_card.                     *)
CheckFraud(c) == c.spaced \/ c.pan \notin Suspicious

(* simulate_visa_api_call: the prefixes, too, are sought as typed.         *)
VisaApproves(c) ==
  /\ c.spaced \/ ~\E p \in Declined : IsPrefix(p, c.pan)
  /\ c.pan[1] = 4

-----------------------------------------------------------------------------
(* The routes; neither waits for anything, nor does the simulated client,  *)
(* which is asked first for one dollar and then for the amount.  Requests  *)
(* leave nothing behind, so that a behaviour need hold no more than one.   *)
AskIfValid(c) ==
  /\ card' = c
  /\ answer' = IF ValidateCard(c) THEN "valid" ELSE "invalid"

ProcessVisaPayment(c) ==
  /\ card' = c
  /\ answer' = IF ValidateCard(c) /\ VisaApproves(c) /\ CheckFraud(c) THEN "approved" ELSE "refused"

Next == \E c \in Cards : answer = "none" /\ (AskIfValid(c) \/ ProcessVisaPayment(c))

Spec == Init /\ [][Next]_cardVars

-----------------------------------------------------------------------------
(* The doc comment of validate_card_number promises that a single wrong    *)
(* digit is detected, and most swaps of neighbours.  Exactly: if a card    *)
(* was accepted, no number that differs from it in one digit would be, nor *)
(* one with two different neighbours swapped, but for 0 and 9.             *)
SlipsAreCaught ==
  answer \in {"valid", "approved"} =>
    LET pan == card.pan IN
    /\ \A i \in DOMAIN pan : \A d \in 0 .. 9 \ {pan[i]} :
         ~ValidateCardNumber([pan EXCEPT ![i] = d])
    /\ \A i \in 1 .. Len(pan) - 1 :
         pan[i] # pan[i + 1] /\ {pan[i], pan[i + 1]} # {0, 9} =>
           ~ValidateCardNumber([pan EXCEPT ![i] = pan[i + 1], ![i + 1] = pan[i]])
=============================================================================
