------------------------------ MODULE Refunds ------------------------------
(***************************************************************************)
(* RefundService::create_refund: read the transaction, check the amount    *)
(* against what has been refunded, insert the refund, write the new total  *)
(* into the transaction, mark the refund SUCCEEDED.  The four statements   *)
(* run in no database transaction, so requests interleave between them and *)
(* one that is cut off leaves what it has done so far.                     *)
(***************************************************************************)
EXTENDS Integers, FiniteSets, Functions

CONSTANTS Txns,      \* transactions
          Price,     \* Price[t]: transactions.amount
          Requests,  \* calls of create_refund: each may insert one row
          Asked,     \* CreateRefundRequest.amount, where it is given
          MaxI64,    \* largest i64, scaled down for TLC
          None

ASSUME MaxI64IsNatural == MaxI64 \in Nat
I64 == -MaxI64 - 1 .. MaxI64
ASSUME PricesPositive == Price \in [Txns -> I64 \ -MaxI64 - 1 .. 0]
ASSUME AskedAreI64s == Asked \subseteq I64
ASSUME NoneIsNothing == None \notin Txns \cup Int

(* Sums and differences of two i64s wrap around: release builds, which are *)
(* what the Dockerfile deploys, do not check them.                         *)
Wrap(n) == IF n > MaxI64 THEN n - 2 * MaxI64 - 2
           ELSE IF n < -MaxI64 - 1 THEN n + 2 * MaxI64 + 2 ELSE n

VARIABLES
  committed,        \* transactions whose state is COMMITTED
  refunded_amount,  \* transactions.refunded_amount
  refund_count,     \* transactions.refund_count
  status,           \* refunds.status; "ABSENT" where there is no row
  pc, txn, amount,  \* the requests; amount is also refunds.amount
  seen,             \* refunded_amount as the request read it
  overlapped        \* history: transactions with two requests at once

vars == <<committed, refunded_amount, refund_count, status,
          pc, txn, amount, seen, overlapped>>

Init ==
  /\ committed \in SUBSET Txns
  /\ refunded_amount = [t \in Txns |-> 0]
  /\ refund_count = [t \in Txns |-> 0]
  /\ status = [r \in Requests |-> "ABSENT"]
  /\ pc = [r \in Requests |-> "new"]
  /\ txn = [r \in Requests |-> None]
  /\ amount = [r \in Requests |-> None]
  /\ seen = [r \in Requests |-> None]
  /\ overlapped = {}

-----------------------------------------------------------------------------
(* A transaction is committed, or a commit is overwritten by a fail or a   *)
(* cancel that overlapped it (module PaymentTransactions).                 *)
StateChanges(t) ==
  /\ committed' = IF t \in committed THEN committed \ {t} ELSE committed \cup {t}
  /\ UNCHANGED <<refunded_amount, refund_count, status, pc, txn, amount, seen,
                 overlapped>>

(* The amount asked for, by default all that is left, and its validation.  *)
RefundAmount(t, asked) ==
  IF asked = None THEN Wrap(Price[t] - refunded_amount[t]) ELSE asked

(* Mutant: the bound of a single refund instead of that of their sum.      *)
IsRefundableIgnoringEarlier(t, m) == m > 0 /\ m <= Price[t]
IsRefundable(t, m) == m > 0 /\ Wrap(refunded_amount[t] + m) <= Price[t]

InFlight(t) == {r \in Requests : txn[r] = t /\ pc[r] \in {"read", "inserted"}}

(* SELECT the transaction and validate.  A refused request has no effect.  *)
ReadTransaction(r, t, asked) ==
  /\ pc[r] = "new"
  /\ t \in committed
  /\ IsRefundable(t, RefundAmount(t, asked))
  /\ pc' = [pc EXCEPT ![r] = "read"]
  /\ txn' = [txn EXCEPT ![r] = t]
  /\ amount' = [amount EXCEPT ![r] = RefundAmount(t, asked)]
  /\ seen' = [seen EXCEPT ![r] = refunded_amount[t]]
  /\ overlapped' = IF InFlight(t) = {} THEN overlapped ELSE overlapped \cup {t}
  /\ UNCHANGED <<committed, refunded_amount, refund_count, status>>

(* INSERT INTO refunds, status PENDING.                                    *)
InsertRefund(r) ==
  /\ pc[r] = "read"
  /\ pc' = [pc EXCEPT ![r] = "inserted"]
  /\ status' = [status EXCEPT ![r] = "PENDING"]
  /\ UNCHANGED <<committed, refunded_amount, refund_count, txn, amount, seen,
                 overlapped>>

(* UPDATE transactions: the total is written as a value, the count is      *)
(* incremented in place.                                                   *)
(* Mutants: the total is added to a row another refund may have changed;   *)
(* the first refund sets the count.                                        *)
TotalAddedTwice(r) == Wrap(refunded_amount[txn[r]] + Wrap(seen[r] + amount[r]))
NewTotal(r) == Wrap(seen[r] + amount[r])

FirstRefundSetsCount(r) == IF seen[r] = 0 THEN 1 ELSE refund_count[txn[r]] + 1
NewCount(r) == refund_count[txn[r]] + 1

UpdateTransaction(r) ==
  /\ pc[r] = "inserted"
  /\ pc' = [pc EXCEPT ![r] = "counted"]
  /\ refunded_amount' = [refunded_amount EXCEPT ![txn[r]] = NewTotal(r)]
  /\ refund_count' = [refund_count EXCEPT ![txn[r]] = NewCount(r)]
  /\ UNCHANGED <<committed, status, txn, amount, seen, overlapped>>

(* UPDATE refunds: the simulated processing always succeeds.               *)
MarkSucceeded(r) ==
  /\ pc[r] = "counted"
  /\ pc' = [pc EXCEPT ![r] = "done"]
  /\ status' = [status EXCEPT ![r] = "SUCCEEDED"]
  /\ UNCHANGED <<committed, refunded_amount, refund_count, txn, amount, seen,
                 overlapped>>

(* The request stops at an await.  Its row, if any, stays PENDING.         *)
Interrupt(r) ==
  /\ pc[r] \in {"read", "inserted", "counted"}
  /\ pc' = [pc EXCEPT ![r] = IF @ = "counted" THEN "unfinished" ELSE "stopped"]
  /\ UNCHANGED <<committed, refunded_amount, refund_count, status, txn, amount,
                 seen, overlapped>>

Next ==
  \/ \E t \in Txns : StateChanges(t)
  \/ \E r \in Requests :
       \/ \E t \in Txns, asked \in Asked \cup {None} : ReadTransaction(r, t, asked)
       \/ InsertRefund(r)
       \/ UpdateTransaction(r)
       \/ MarkSucceeded(r)
       \/ Interrupt(r)

Spec == Init /\ [][Next]_vars

-----------------------------------------------------------------------------
(* The variables range over the values the code can put in them.           *)
TypeOK ==
  /\ committed \subseteq Txns
  /\ refunded_amount \in [Txns -> I64]
  /\ refund_count \in [Txns -> Nat]
  /\ status \in [Requests -> {"ABSENT", "PENDING", "SUCCEEDED"}]
  /\ pc \in [Requests -> {"new", "read", "inserted", "counted", "done",
                          "unfinished", "stopped"}]
  /\ txn \in [Requests -> Txns \cup {None}]
  /\ amount \in [Requests -> I64 \cup {None}]
  /\ seen \in [Requests -> I64 \cup {None}]
  /\ overlapped \subseteq Txns

(* The refunds of a transaction that its row accounts for, and that the    *)
(* customers have received.                                                *)
Counted(t) == {r \in Requests : txn[r] = t /\ pc[r] \in {"counted", "done", "unfinished"}}
Succeeded(t) == {r \in Requests : txn[r] = t /\ status[r] = "SUCCEEDED"}
Rows(t) == {r \in Requests : txn[r] = t /\ status[r] # "ABSENT"}
Total(R) == SumFunctionOnSet(amount, R)

(* However refunds race, and even where a sum wraps around, the total a    *)
(* transaction shows as refunded never exceeds its amount.                 *)
RefundedWithinAmount == \A t \in Txns : refunded_amount[t] <= Price[t]

(* A lost update, or a sum that wraps around, can only understate: the     *)
(* total shown is never more than the refunds that were made.              *)
RefundedIsBacked == \A t \in Txns : refunded_amount[t] <= Total(Counted(t))

(* refund_count loses no update: it lies between the refunds that          *)
(* succeeded and the refunds that were inserted.                           *)
CountIsExact ==
  \A t \in Txns : /\ Cardinality(Succeeded(t)) <= refund_count[t]
                  /\ refund_count[t] <= Cardinality(Rows(t))

(* Where no two refunds of a transaction overlap and no sum wraps around,  *)
(* even if some refunds are cut off, the total shown is the sum of the     *)
(* refunds, which stay within the amount.                                  *)
NoSumWraps(t) ==
  \A r \in Requests : txn[r] = t => seen[r] + amount[r] \in I64

SerialRefundsAddUp ==
  \A t \in Txns \ overlapped :
    NoSumWraps(t) => /\ refunded_amount[t] = Total(Counted(t))
                     /\ Total(Succeeded(t)) <= Price[t]

(* "Total refund amount exceeds transaction amount" is an error            *)
(* (refunds.rs): the refunds paid out stay within the amount.              *)
TotalWithinAmount == \A t \in Txns : Total(Succeeded(t)) <= Price[t]
=============================================================================
