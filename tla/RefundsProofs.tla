--------------------------- MODULE RefundsProofs ---------------------------
(***************************************************************************)
(* Theorems about Refunds, for any transactions, prices, amounts asked for *)
(* and number of requests, with i64's arithmetic of any width.             *)
(***************************************************************************)
EXTENDS Refunds, Sums, TLAPS

Validated == {"read", "inserted", "counted", "done", "unfinished"}
HasRow    == {"inserted", "counted", "done", "unfinished"}

(* A request past its check holds an amount that the check let through.    *)
ChecksPassed ==
  \A r \in Requests : pc[r] \in Validated =>
    /\ txn[r] \in Txns
    /\ amount[r] \in I64 /\ seen[r] \in I64
    /\ NewTotal(r) <= Price[txn[r]]

RefundsTyped == TypeOK /\ ChecksPassed /\ RefundedWithinAmount

(* Where a request is, its refund's row and the transaction's count agree. *)
RowsAgree ==
  /\ \A r \in Requests :
       /\ pc[r] \in HasRow => status[r] # "ABSENT"
       /\ status[r] = "SUCCEEDED" => pc[r] = "done"
  /\ \A t \in Txns : refund_count[t] = Cardinality(Counted(t))

-----------------------------------------------------------------------------
(* A sum or a difference of two i64s wraps to an i64.                      *)
LEMMA WrapInRange ==
  ASSUME NEW m \in I64, NEW n \in I64
  PROVE  Wrap(m + n) \in I64 /\ Wrap(m - n) \in I64
  BY MaxI64IsNatural DEF Wrap, I64

(* No step lets a total pass the transaction's amount.                     *)
LEMMA RefundsTypedStep ==
  ASSUME RefundsTyped, [Next]_vars PROVE RefundsTyped'
<1> USE DEF RefundsTyped, TypeOK, Validated
<1>0. /\ \A t \in Txns : Price[t] \in I64
      /\ \A r \in Requests : pc[r] \in Validated => NewTotal(r) \in I64
  BY PricesPositive, WrapInRange DEF ChecksPassed, NewTotal
<1>1. ASSUME NEW t \in Txns, StateChanges(t) PROVE RefundsTyped'
  BY <1>1 DEF StateChanges, ChecksPassed, NewTotal, RefundedWithinAmount
<1>2. ASSUME NEW r \in Requests, NEW t \in Txns, NEW asked \in Asked \cup {None},
             ReadTransaction(r, t, asked)
      PROVE  RefundsTyped'
  <2> DEFINE m == RefundAmount(t, asked)
  <2>1. m \in I64
    BY <1>0, AskedAreI64s, WrapInRange DEF RefundAmount
  <2>2. Wrap(refunded_amount[t] + m) <= Price[t]
    BY <1>2 DEF ReadTransaction, IsRefundable
  <2>3. /\ pc' = [pc EXCEPT ![r] = "read"] /\ txn' = [txn EXCEPT ![r] = t]
        /\ amount' = [amount EXCEPT ![r] = m]
        /\ seen' = [seen EXCEPT ![r] = refunded_amount[t]]
        /\ overlapped' \in {overlapped, overlapped \cup {t}}
        /\ UNCHANGED <<committed, refunded_amount, refund_count, status>>
    BY <1>2 DEF ReadTransaction
  <2> HIDE DEF m
  <2>4. TypeOK'
    BY <2>1, <2>3
  <2>5. ChecksPassed'
    BY <2>1, <2>2, <2>3 DEF ChecksPassed, NewTotal
  <2>6. RefundedWithinAmount'
    BY <2>3 DEF RefundedWithinAmount
  <2> QED
    BY <2>4, <2>5, <2>6
<1>3. ASSUME NEW r \in Requests, InsertRefund(r) PROVE RefundsTyped'
  BY <1>3 DEF InsertRefund, ChecksPassed, NewTotal, RefundedWithinAmount
<1>4. ASSUME NEW r \in Requests, UpdateTransaction(r) PROVE RefundsTyped'
  <2>1. txn[r] \in Txns /\ NewTotal(r) \in I64 /\ NewTotal(r) <= Price[txn[r]]
    BY <1>0, <1>4 DEF UpdateTransaction, ChecksPassed
  <2>2. TypeOK'
    BY <1>4, <2>1 DEF UpdateTransaction, NewCount
  <2>3. ChecksPassed'
    BY <1>4 DEF UpdateTransaction, ChecksPassed, NewTotal
  <2>4. RefundedWithinAmount'
    BY <1>4, <2>1 DEF UpdateTransaction, RefundedWithinAmount
  <2> QED
    BY <2>2, <2>3, <2>4
<1>5. ASSUME NEW r \in Requests, MarkSucceeded(r) PROVE RefundsTyped'
  BY <1>5 DEF MarkSucceeded, ChecksPassed, NewTotal, RefundedWithinAmount
<1>6. ASSUME NEW r \in Requests, Interrupt(r) PROVE RefundsTyped'
  BY <1>6 DEF Interrupt, ChecksPassed, NewTotal, RefundedWithinAmount
<1>7. CASE UNCHANGED vars
  BY <1>7 DEF vars, ChecksPassed, NewTotal, RefundedWithinAmount
<1> QED
  BY <1>1, <1>2, <1>3, <1>4, <1>5, <1>6, <1>7 DEF Next

(* Before any request all totals are zero.                                 *)
LEMMA RefundsTypedInit == Init => RefundsTyped
  BY MaxI64IsNatural, PricesPositive
     DEF Init, RefundsTyped, TypeOK, ChecksPassed, Validated,
         RefundedWithinAmount, I64

(* However refunds race and sums wrap, the total a transaction shows as    *)
(* refunded never exceeds its amount, and is an i64.                       *)
THEOREM TotalShownIsBounded == Spec => [](TypeOK /\ RefundedWithinAmount)
<1>1. RefundsTyped => TypeOK /\ RefundedWithinAmount
  BY DEF RefundsTyped
<1> QED
  BY <1>1, RefundsTypedInit, RefundsTypedStep, PTL DEF Spec

-----------------------------------------------------------------------------
(* A step after which the same requests have been counted keeps the count. *)
LEMMA SameCounted ==
  ASSUME RowsAgree, UNCHANGED refund_count,
         \A t \in Txns : Counted(t)' = Counted(t)
  PROVE  \A t \in Txns : refund_count'[t] = Cardinality(Counted(t)')
  BY DEF RowsAgree

(* refund_count is incremented in place, so that no increment is lost: it  *)
(* is the number of requests that have made theirs.                        *)
LEMMA RowsAgreeStep ==
  ASSUME IsFiniteSet(Requests), RefundsTyped, RowsAgree, [Next]_vars
  PROVE  RowsAgree'
<1> DEFINE StatusAgrees ==
      \A r \in Requests : /\ pc[r] \in HasRow => status[r] # "ABSENT"
                          /\ status[r] = "SUCCEEDED" => pc[r] = "done"
<1>1. StatusAgrees
  BY DEF RowsAgree
<1>2. SUFFICES /\ StatusAgrees'
               /\ \A t \in Txns : refund_count'[t] = Cardinality(Counted(t)')
  BY DEF RowsAgree
<1> USE DEF RefundsTyped, TypeOK, HasRow
<1>3. CASE UNCHANGED vars \/ \E t \in Txns : StateChanges(t)
  BY <1>1, <1>3, SameCounted DEF vars, StateChanges, Counted
<1>4. ASSUME NEW r \in Requests, NEW u \in Txns, NEW asked \in Asked \cup {None},
             ReadTransaction(r, u, asked)
      PROVE  StatusAgrees' /\ \A t \in Txns : Counted(t)' = Counted(t)
  BY <1>1, <1>4 DEF ReadTransaction, Counted
<1>5. ASSUME NEW r \in Requests, InsertRefund(r) \/ MarkSucceeded(r) \/ Interrupt(r)
      PROVE  StatusAgrees' /\ \A t \in Txns : Counted(t)' = Counted(t)
  <2>1. StatusAgrees'
    BY <1>1, <1>5 DEF InsertRefund, MarkSucceeded, Interrupt
  <2>2. \A q \in Requests : pc'[q] \in {"counted", "done", "unfinished"}
                              <=> pc[q] \in {"counted", "done", "unfinished"}
    BY <1>5 DEF InsertRefund, MarkSucceeded, Interrupt
  <2> QED
    BY <1>5, <2>1, <2>2 DEF InsertRefund, MarkSucceeded, Interrupt, Counted
<1>6. ASSUME NEW r \in Requests, UpdateTransaction(r)
      PROVE  /\ StatusAgrees'
             /\ \A t \in Txns : refund_count'[t] = Cardinality(Counted(t)')
  <2>1. StatusAgrees'
    BY <1>1, <1>6 DEF UpdateTransaction
  <2>2. txn[r] \in Txns
    BY <1>6 DEF UpdateTransaction, ChecksPassed, Validated
  <2>3. ASSUME NEW t \in Txns, t # txn[r]
        PROVE  refund_count'[t] = refund_count[t] /\ Counted(t)' = Counted(t)
    BY <1>6, <2>3 DEF UpdateTransaction, Counted
  <2>4. /\ refund_count'[txn[r]] = refund_count[txn[r]] + 1
        /\ Counted(txn[r])' = Counted(txn[r]) \cup {r} /\ r \notin Counted(txn[r])
    BY <1>6, <2>2 DEF UpdateTransaction, NewCount, Counted
  <2>5. IsFiniteSet(Counted(txn[r]))
    BY FS_Subset DEF Counted
  <2>6. Cardinality(Counted(txn[r]) \cup {r}) = Cardinality(Counted(txn[r])) + 1
    BY <2>4, <2>5, FS_AddElement
  <2>7. \A t \in Txns : refund_count[t] = Cardinality(Counted(t))
    BY DEF RowsAgree
  <2> HIDE DEF RefundsTyped, TypeOK, StatusAgrees
  <2>8. refund_count'[txn[r]] = Cardinality(Counted(txn[r])')
    BY <2>2, <2>4, <2>6, <2>7
  <2>9. ASSUME NEW t \in Txns PROVE refund_count'[t] = Cardinality(Counted(t)')
    <3>1. CASE t = txn[r]
      BY <2>2, <2>8, <3>1, <1>6 DEF UpdateTransaction, Counted
    <3>2. CASE t # txn[r]
      BY <2>3, <2>7, <3>2
    <3> QED
      BY <3>1, <3>2
  <2> QED
    BY <2>1, <2>9
<1> QED
  <2>1. CASE \/ \E r \in Requests, u \in Txns, asked \in Asked \cup {None} :
                   ReadTransaction(r, u, asked)
             \/ \E r \in Requests : InsertRefund(r) \/ MarkSucceeded(r) \/ Interrupt(r)
    <3>1. UNCHANGED refund_count
      BY <2>1 DEF ReadTransaction, InsertRefund, MarkSucceeded, Interrupt
    <3> QED
      BY <1>4, <1>5, <2>1, <3>1, SameCounted
  <2> QED
    BY <1>3, <1>6, <2>1 DEF Next

(* The count a transaction shows lies between the refunds that succeeded   *)
(* and the refunds that were inserted, however they race.                  *)
THEOREM CountLosesNothing ==
  ASSUME IsFiniteSet(Requests) PROVE Spec => []CountIsExact
<1>1. Init => RefundsTyped /\ RowsAgree
  <2>1. Init => \A t \in Txns : Counted(t) = {}
    BY DEF Init, Counted
  <2> QED
    BY <2>1, RefundsTypedInit, FS_EmptySet DEF Init, RowsAgree, HasRow
<1>2. ASSUME RefundsTyped, RowsAgree PROVE CountIsExact
  <2> SUFFICES ASSUME NEW t \in Txns
               PROVE  /\ Cardinality(Succeeded(t)) <= Cardinality(Counted(t))
                      /\ Cardinality(Counted(t)) <= Cardinality(Rows(t))
    BY <1>2 DEF RowsAgree, CountIsExact
  <2>1. Succeeded(t) \subseteq Counted(t) /\ Counted(t) \subseteq Rows(t)
    BY <1>2 DEF RowsAgree, HasRow, Succeeded, Counted, Rows
  <2>2. IsFiniteSet(Counted(t)) /\ IsFiniteSet(Rows(t))
    BY FS_Subset DEF Counted, Rows
  <2> QED
    BY <2>1, <2>2, FS_Subset
<1> QED
  BY <1>1, <1>2, RefundsTypedStep, RowsAgreeStep, PTL DEF Spec

-----------------------------------------------------------------------------
Making  == {"read", "inserted"}
Made    == {"counted", "done", "unfinished"}

(* The steps that neither read a transaction nor write its total.          *)
Aside ==
  /\ UNCHANGED <<refunded_amount, txn, amount, seen, overlapped>>
  /\ \A r \in Requests : /\ pc'[r] = "new" <=> pc[r] = "new"
                         /\ pc'[r] \in Making => pc[r] \in Making
                         /\ pc'[r] \in Made <=> pc[r] \in Made

(* A step reads a transaction, updates one, or leaves the totals alone.    *)
LEMMA StepKinds ==
  ASSUME RefundsTyped, [Next]_vars
  PROVE  \/ Aside
         \/ \E r \in Requests, t \in Txns, asked \in Asked \cup {None} :
              ReadTransaction(r, t, asked)
         \/ \E r \in Requests : UpdateTransaction(r)
<1>1. ASSUME NEW r \in Requests, InsertRefund(r) \/ MarkSucceeded(r) \/ Interrupt(r)
      PROVE  Aside
  BY <1>1 DEF RefundsTyped, TypeOK, Aside, Making, Made, InsertRefund, MarkSucceeded, Interrupt
<1>2. CASE UNCHANGED vars \/ \E t \in Txns : StateChanges(t)
  BY <1>2 DEF Aside, vars, StateChanges
<1> QED
  BY <1>1, <1>2 DEF Next

(* What has been asked for and let through is positive, and no request has *)
(* seen more refunded than the refunds that were made.                     *)
AmountsPositive ==
  \A r \in Requests :
    /\ pc[r] = "new" => txn[r] = None
    /\ pc[r] \in Making \cup Made => txn[r] \in Txns /\ amount[r] \in Nat /\ seen[r] \in Int

SeenIsBacked ==
  \A r \in Requests, t \in Txns :
    pc[r] \in Making /\ txn[r] = t => seen[r] <= Total(Counted(t))

Backed == RefundsTyped /\ AmountsPositive /\ SeenIsBacked /\ RefundedIsBacked

(* A refund in progress is of a positive amount.                           *)
LEMMA AmountsPositiveStep ==
  ASSUME RefundsTyped, AmountsPositive, [Next]_vars PROVE AmountsPositive'
<1> USE DEF AmountsPositive, Making, Made
<1>1. CASE Aside
  BY <1>1 DEF Aside, RefundsTyped, TypeOK
<1>2. ASSUME NEW r \in Requests, NEW t \in Txns, NEW asked \in Asked \cup {None},
             ReadTransaction(r, t, asked)
      PROVE  AmountsPositive'
  <2>1. RefundAmount(t, asked) \in Int /\ refunded_amount[t] \in Int /\ None \notin Txns
    BY AskedAreI64s, WrapInRange, PricesPositive, MaxI64IsNatural, NoneIsNothing
       DEF RefundAmount, RefundsTyped, TypeOK, I64
  <2>2. RefundAmount(t, asked) \in Nat
    BY <1>2, <2>1 DEF ReadTransaction, IsRefundable
  <2> QED
    BY <1>2, <2>1, <2>2 DEF ReadTransaction, RefundsTyped, TypeOK
<1>3. ASSUME NEW r \in Requests, UpdateTransaction(r) PROVE AmountsPositive'
  BY <1>3 DEF UpdateTransaction, RefundsTyped, TypeOK
<1> QED
  BY <1>1, <1>2, <1>3, StepKinds

(* The refunds that were made add up to a number.                          *)
LEMMA TotalTyped ==
  ASSUME IsFiniteSet(Requests), AmountsPositive, NEW t
  PROVE  /\ IsFiniteSet(Counted(t))
         /\ \A r \in Counted(t) : amount[r] \in Nat
         /\ Total(Counted(t)) \in Int
<1>1. IsFiniteSet(Counted(t)) /\ \A r \in Counted(t) : amount[r] \in Nat
  BY FS_Subset DEF Counted, AmountsPositive, Made
<1> QED
  BY <1>1, SumIsInteger DEF Total

(* Only writing a total adds to what was made, and it adds one refund.     *)
LEMMA TotalKept ==
  ASSUME IsFiniteSet(Requests), AmountsPositive, RefundsTyped, NEW t \in Txns,
         Aside \/ \E r \in Requests, u \in Txns, asked \in Asked \cup {None} :
                    ReadTransaction(r, u, asked)
  PROVE  Total(Counted(t))' = Total(Counted(t))
<1>1. Counted(t)' = Counted(t) /\ \A r \in Counted(t) : amount'[r] = amount[r]
  BY DEF Aside, ReadTransaction, Counted, Made, RefundsTyped, TypeOK
<1> QED
  BY <1>1, TotalTyped, SumIsOfSet DEF Total

(* A transaction's update adds its refund to those counted.                *)
LEMMA TotalGrows ==
  ASSUME IsFiniteSet(Requests), AmountsPositive, RefundsTyped, NEW t \in Txns,
         NEW r \in Requests, UpdateTransaction(r)
  PROVE  Total(Counted(t))' = IF t = txn[r] THEN Total(Counted(t)) + amount[r]
                              ELSE Total(Counted(t))
<1>1. amount' = amount /\ Counted(t)' = IF t = txn[r] THEN Counted(t) \cup {r} ELSE Counted(t)
  BY DEF UpdateTransaction, Counted, RefundsTyped, TypeOK
<1>2. r \notin Counted(t) /\ amount[r] \in Nat
  BY DEF UpdateTransaction, Counted, AmountsPositive, Making
<1>3. SumFunctionOnSet(amount, Counted(t) \cup {r}) = amount[r] + SumFunctionOnSet(amount, Counted(t))
  BY <1>2, TotalTyped, SumWithOneMore
<1> QED
  BY <1>1, <1>2, <1>3, TotalTyped DEF Total

(* Wrapping around lowers a sum of a refund and what was refunded.         *)
LEMMA WrapLowers ==
  ASSUME NEW m \in I64, NEW n \in Nat PROVE Wrap(m + n) <= m + n
  BY MaxI64IsNatural DEF Wrap, I64

(* What a request has seen, and what a transaction shows, stays backed.    *)
LEMMA BackedStep ==
  ASSUME IsFiniteSet(Requests), Backed, [Next]_vars PROVE SeenIsBacked' /\ RefundedIsBacked'
<1> USE DEF Backed
<1>0. /\ \A t \in Txns : refunded_amount[t] \in I64 /\ refunded_amount[t] \in Int
      /\ \A t \in Txns : Total(Counted(t)) \in Int
      /\ \A r \in Requests : pc[r] \in Making =>
           txn[r] \in Txns /\ amount[r] \in Nat /\ seen[r] \in I64 /\ seen[r] \in Int
  BY TotalTyped, MaxI64IsNatural
     DEF RefundsTyped, TypeOK, AmountsPositive, ChecksPassed, Validated, Making, I64
<1>1. CASE Aside
  <2>1. \A t \in Txns : Total(Counted(t))' = Total(Counted(t))
    BY <1>1, TotalKept
  <2> QED
    BY <1>0, <1>1, <2>1 DEF Aside, SeenIsBacked, RefundedIsBacked
<1>2. ASSUME NEW r \in Requests, NEW t \in Txns, NEW asked \in Asked \cup {None},
             ReadTransaction(r, t, asked)
      PROVE  SeenIsBacked' /\ RefundedIsBacked'
  <2>1. \A u \in Txns : Total(Counted(u))' = Total(Counted(u))
    BY <1>2, TotalKept
  <2>2. /\ txn' = [txn EXCEPT ![r] = t] /\ pc' = [pc EXCEPT ![r] = "read"]
        /\ seen' = [seen EXCEPT ![r] = refunded_amount[t]]
        /\ refunded_amount' = refunded_amount
    BY <1>2 DEF ReadTransaction
  <2>3. RefundedIsBacked'
    BY <2>1, <2>2 DEF RefundedIsBacked
  <2>4. ASSUME NEW q \in Requests, NEW u \in Txns, pc'[q] \in Making, txn'[q] = u
        PROVE  seen'[q] <= Total(Counted(u))'
    <3>1. CASE q = r
      BY <2>1, <2>2, <2>4, <3>1 DEF RefundedIsBacked, RefundsTyped, TypeOK
    <3>2. CASE q # r
      BY <2>1, <2>2, <2>4, <3>2 DEF SeenIsBacked, RefundsTyped, TypeOK
    <3> QED
      BY <3>1, <3>2
  <2> QED
    BY <2>3, <2>4 DEF SeenIsBacked
<1>3. ASSUME NEW r \in Requests, UpdateTransaction(r) PROVE SeenIsBacked' /\ RefundedIsBacked'
  <2>1. /\ pc[r] \in Making /\ pc' = [pc EXCEPT ![r] = "counted"]
        /\ refunded_amount' = [refunded_amount EXCEPT ![txn[r]] = Wrap(seen[r] + amount[r])]
        /\ UNCHANGED <<txn, seen>>
    BY <1>3 DEF UpdateTransaction, NewTotal, Making
  <2>2. \A t \in Txns : Total(Counted(t))' = IF t = txn[r] THEN Total(Counted(t)) + amount[r]
                                                          ELSE Total(Counted(t))
    BY <1>3, TotalGrows
  <2>3. Wrap(seen[r] + amount[r]) <= seen[r] + amount[r] /\ Wrap(seen[r] + amount[r]) \in Int
    BY <1>0, <2>1, WrapLowers, MaxI64IsNatural DEF Wrap
  <2>4. seen[r] <= Total(Counted(txn[r]))
    BY <1>0, <2>1 DEF SeenIsBacked
  <2>5. ASSUME NEW t \in Txns PROVE refunded_amount'[t] <= Total(Counted(t))'
    <3>1. CASE t = txn[r]
      BY <1>0, <2>1, <2>2, <2>3, <2>4, <3>1 DEF RefundsTyped, TypeOK
    <3>2. CASE t # txn[r]
      BY <2>1, <2>2, <3>2 DEF RefundedIsBacked, RefundsTyped, TypeOK
    <3> QED
      BY <3>1, <3>2
  <2>6. ASSUME NEW q \in Requests, NEW t \in Txns, pc'[q] \in Making, txn'[q] = t
        PROVE  seen'[q] <= Total(Counted(t))'
    <3>1. pc[q] \in Making /\ seen'[q] = seen[q] /\ seen[q] <= Total(Counted(t))
      BY <2>1, <2>6 DEF SeenIsBacked, Making, RefundsTyped, TypeOK
    <3>2. seen[q] \in Int /\ Total(Counted(t)) \in Int /\ amount[r] \in Nat
      BY <1>0, <2>1, <3>1
    <3> QED
      BY <2>2, <3>1, <3>2
  <2> QED
    BY <2>5, <2>6 DEF SeenIsBacked, RefundedIsBacked
<1> QED
  BY <1>1, <1>2, <1>3, StepKinds

(* Nothing is refunded at first, and nothing shown.                        *)
LEMMA BackedInit == Init => Backed
<1> SUFFICES ASSUME Init PROVE Backed
  OBVIOUS
<1>1. \A t \in Txns : Total(Counted(t)) = 0
  <2>1. \A t \in Txns : Counted(t) = {}
    BY DEF Init, Counted
  <2> QED
    BY <2>1, SumOfNothing DEF Total
<1> QED
  BY <1>1, RefundsTypedInit
     DEF Init, Backed, AmountsPositive, SeenIsBacked, RefundedIsBacked, Making, Made

(* The total a transaction shows never exceeds the refunds that were made: *)
(* lost updates and sums that wrap around only understate.                 *)
THEOREM TotalShownIsBacked ==
  ASSUME IsFiniteSet(Requests) PROVE Spec => []RefundedIsBacked
<1>1. Backed /\ [Next]_vars => Backed'
  BY BackedStep, RefundsTypedStep, AmountsPositiveStep DEF Backed
<1>2. Backed => RefundedIsBacked
  BY DEF Backed
<1> QED
  BY BackedInit, <1>1, <1>2, PTL DEF Spec

-----------------------------------------------------------------------------
(* Where no two refunds overlap, a request's reading is current, and where *)
(* also no sum wraps around the total shown is that of the refunds made.   *)
InTurn(t) ==
  t \notin overlapped =>
    /\ \A q, r \in InFlight(t) : q = r
    /\ \A r \in InFlight(t) : seen[r] = refunded_amount[t]
    /\ NoSumWraps(t) => refunded_amount[t] = Total(Counted(t))

SerialInv == Backed /\ RowsAgree /\ \A t \in Txns : InTurn(t)

(* A transaction whose requests come in turn shows the sum of its refunds. *)
LEMMA InTurnStep ==
  ASSUME IsFiniteSet(Requests), SerialInv, [Next]_vars, NEW t \in Txns PROVE InTurn(t)'
<1> USE DEF SerialInv, Backed
<1>1. InTurn(t)
  OBVIOUS
<1>2. CASE Aside
  <2>1. InFlight(t)' \subseteq InFlight(t)
    BY <1>2 DEF Aside, InFlight, Making
  <2>2. NoSumWraps(t)' => NoSumWraps(t)
    BY <1>2 DEF Aside, NoSumWraps
  <2>3. Total(Counted(t))' = Total(Counted(t))
    BY <1>2, TotalKept
  <2>4. UNCHANGED <<overlapped, seen, refunded_amount>>
    BY <1>2 DEF Aside
  <2> QED
    BY <1>1, <2>1, <2>2, <2>3, <2>4 DEF InTurn
<1>3. ASSUME NEW r \in Requests, NEW u \in Txns, NEW asked \in Asked \cup {None},
             ReadTransaction(r, u, asked)
      PROVE  InTurn(t)'
  <2>1. /\ pc[r] = "new" /\ txn[r] = None /\ None \notin Txns
        /\ pc' = [pc EXCEPT ![r] = "read"] /\ txn' = [txn EXCEPT ![r] = u]
        /\ seen' = [seen EXCEPT ![r] = refunded_amount[u]]
        /\ \E m : amount' = [amount EXCEPT ![r] = m]
        /\ overlapped' = IF InFlight(u) = {} THEN overlapped ELSE overlapped \cup {u}
        /\ refunded_amount' = refunded_amount
    BY <1>3, NoneIsNothing DEF ReadTransaction, AmountsPositive
  <2>2. Total(Counted(t))' = Total(Counted(t))
    BY <1>3, TotalKept
  <2>3. NoSumWraps(t)' => NoSumWraps(t)
    BY <2>1 DEF NoSumWraps, RefundsTyped, TypeOK
  <2>4. CASE t = u
    <3>1. InFlight(t)' = InFlight(t) \cup {r}
      BY <2>1, <2>4 DEF InFlight, RefundsTyped, TypeOK
    <3>2. t \notin overlapped' => t \notin overlapped /\ InFlight(t)' = {r}
      BY <2>1, <2>4, <3>1
    <3>3. seen'[r] = refunded_amount[t]
      BY <2>1, <2>4 DEF RefundsTyped, TypeOK
    <3> QED
      BY <1>1, <2>1, <2>2, <2>3, <3>2, <3>3 DEF InTurn
  <2>5. CASE t # u
    <3>1. InFlight(t)' = InFlight(t) /\ \A q \in InFlight(t) : seen'[q] = seen[q]
      BY <2>1, <2>5 DEF InFlight, RefundsTyped, TypeOK
    <3>2. t \notin overlapped' => t \notin overlapped
      BY <2>1
    <3> QED
      BY <1>1, <2>1, <2>2, <2>3, <3>1, <3>2 DEF InTurn
  <2> QED
    BY <2>4, <2>5
<1>4. ASSUME NEW r \in Requests, UpdateTransaction(r) PROVE InTurn(t)'
  <2>1. /\ pc[r] = "inserted" /\ pc' = [pc EXCEPT ![r] = "counted"]
        /\ refunded_amount' = [refunded_amount EXCEPT ![txn[r]] = Wrap(seen[r] + amount[r])]
        /\ UNCHANGED <<txn, seen, amount, overlapped>>
    BY <1>4 DEF UpdateTransaction, NewTotal
  <2>2. /\ InFlight(t)' = InFlight(t) \ {r}
        /\ NoSumWraps(t)' = NoSumWraps(t)
    BY <2>1 DEF InFlight, NoSumWraps, RefundsTyped, TypeOK
  <2>3. Total(Counted(t))' = IF t = txn[r] THEN Total(Counted(t)) + amount[r]
                             ELSE Total(Counted(t))
    BY <1>4, TotalGrows
  <2>4. CASE t = txn[r]
    <3>1. r \in InFlight(t)
      BY <2>1, <2>4 DEF InFlight
    <3>2. NoSumWraps(t) => seen[r] + amount[r] \in I64
      BY <2>4 DEF NoSumWraps
    <3>3. NoSumWraps(t) => Wrap(seen[r] + amount[r]) = seen[r] + amount[r]
      BY <3>2, MaxI64IsNatural DEF Wrap, I64
    <3>4. refunded_amount'[t] = Wrap(seen[r] + amount[r])
      BY <2>1, <2>4 DEF RefundsTyped, TypeOK
    <3>5. t \notin overlapped => InFlight(t)' = {} /\ seen[r] = refunded_amount[t]
      BY <1>1, <2>2, <3>1 DEF InTurn
    <3> QED
      BY <1>1, <2>1, <2>2, <2>3, <2>4, <3>3, <3>4, <3>5 DEF InTurn
  <2>5. CASE t # txn[r]
    <3>1. refunded_amount'[t] = refunded_amount[t]
      BY <2>1, <2>5 DEF RefundsTyped, TypeOK
    <3> QED
      BY <1>1, <2>1, <2>2, <2>3, <2>5, <3>1 DEF InTurn
  <2> QED
    BY <2>4, <2>5
<1> QED
  BY <1>2, <1>3, <1>4, StepKinds

(* Refunds that do not overlap, with no sum that wraps around, even if     *)
(* some are cut off: the total shown is the sum of the refunds made, and   *)
(* those that succeeded stay within the transaction's amount.              *)
THEOREM SerialRefundsSumUp ==
  ASSUME IsFiniteSet(Requests) PROVE Spec => []SerialRefundsAddUp
<1>1. Init => SerialInv
  <2> SUFFICES ASSUME Init PROVE SerialInv
    OBVIOUS
  <2>1. \A t \in Txns : Counted(t) = {} /\ InFlight(t) = {} /\ Total(Counted(t)) = 0
    BY SumOfNothing DEF Init, Counted, InFlight, Total
  <2>2. Backed
    BY BackedInit
  <2>3. RowsAgree
    BY <2>1, FS_EmptySet DEF Init, RowsAgree, HasRow
  <2>4. \A t \in Txns : InTurn(t)
    BY <2>1 DEF Init, InTurn
  <2> QED
    BY <2>2, <2>3, <2>4 DEF SerialInv
<1>2. SerialInv /\ [Next]_vars => SerialInv'
  <2> SUFFICES ASSUME SerialInv, [Next]_vars PROVE SerialInv'
    OBVIOUS
  <2>1. Backed' /\ RowsAgree'
    BY BackedStep, RefundsTypedStep, AmountsPositiveStep, RowsAgreeStep DEF SerialInv, Backed
  <2>2. \A t \in Txns : InTurn(t)'
    BY InTurnStep
  <2> QED
    BY <2>1, <2>2 DEF SerialInv
<1>3. SerialInv => SerialRefundsAddUp
  <2> SUFFICES ASSUME SerialInv, NEW t \in Txns \ overlapped, NoSumWraps(t)
               PROVE  /\ refunded_amount[t] = Total(Counted(t))
                      /\ Total(Succeeded(t)) <= Price[t]
    BY DEF SerialRefundsAddUp
  <2>1. refunded_amount[t] = Total(Counted(t)) /\ refunded_amount[t] <= Price[t]
    BY DEF SerialInv, InTurn, Backed, RefundsTyped, RefundedWithinAmount
  <2>2. Succeeded(t) \subseteq Counted(t)
    BY DEF SerialInv, RowsAgree, Succeeded, Counted
  <2>3. /\ IsFiniteSet(Counted(t)) /\ IsFiniteSet(Succeeded(t))
        /\ \A r \in Counted(t) : amount[r] \in Nat
    BY <2>2, TotalTyped, FS_Subset DEF SerialInv, Backed
  <2>4. Total(Succeeded(t)) <= Total(Counted(t))
    BY <2>2, <2>3, SumOfPart DEF Total
  <2>5. Total(Succeeded(t)) \in Int /\ Total(Counted(t)) \in Int
    BY <2>2, <2>3, SumIsInteger DEF Total
  <2>6. Price[t] \in Int
    BY PricesPositive, MaxI64IsNatural DEF I64
  <2> QED
    BY <2>1, <2>4, <2>5, <2>6
<1> QED
  BY <1>1, <1>2, <1>3, PTL DEF Spec
=============================================================================
