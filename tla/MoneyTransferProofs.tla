------------------------ MODULE MoneyTransferProofs ------------------------
(***************************************************************************)
(* Theorems about MoneyTransfer, for any handlers, accounts, amounts and   *)
(* balances.  The inductive invariant is what the row locks guarantee: a   *)
(* balance that was read under a lock stays as it was read.                *)
(***************************************************************************)
EXTENDS MoneyTransfer, Sums, TLAPS

HasPayer == {"payer", "both", "debited", "credited"}
HasBoth  == {"both", "debited", "credited"}

(* What a handler knows of its arguments and of the rows it has locked.    *)
LocksHeld ==
  \A h \in Handlers :
    /\ pc[h] # "idle" => /\ from[h] \in opened /\ to[h] \in Accounts
                         /\ amount[h] \in Amounts
    /\ pc[h] \in HasPayer => holder[from[h]] = h /\ seen[h] = balance[from[h]]
    /\ pc[h] \in HasBoth => holder[to[h]] = h
    /\ pc[h] \in {"debited", "credited"} =>
         /\ seen[h] >= amount[h]
         /\ balance[from[h]] - amount[h] \in BigInt
    /\ pc[h] = "credited" /\ from[h] # to[h] => balance[to[h]] + amount[h] \in BigInt

(* Only rows that exist are locked.                                        *)
LockedRowsExist == \A a \in Accounts : holder[a] # None => a \in opened

IInv == TypeOK /\ LocksHeld /\ LockedRowsExist

-----------------------------------------------------------------------------
(* The initial states satisfy the invariant.                               *)
LEMMA IInvInit == Init => IInv
  BY NoHandlerIsNone, RangeIsNatural
     DEF Init, IInv, TypeOK, LocksHeld, LockedRowsExist, BigInt, HasPayer, HasBoth

(* What Commit writes: the payer's and the payee's rows, both in range.    *)
LEMMA CommitWrites ==
  ASSUME IInv, NEW h \in Handlers, pc[h] = "credited"
  PROVE  /\ AfterBoth(h) \in [Accounts -> BigInt]
         /\ \A a \in Accounts \ {from[h], to[h]} : AfterBoth(h)[a] = balance[a]
         /\ from[h] = to[h] => AfterBoth(h)[from[h]] = balance[from[h]]
         /\ from[h] # to[h] =>
              /\ AfterBoth(h)[from[h]] = balance[from[h]] - amount[h]
              /\ AfterBoth(h)[to[h]] = balance[to[h]] + amount[h]
<1>1. /\ from[h] \in Accounts /\ to[h] \in Accounts
      /\ amount[h] \in BigInt /\ balance \in [Accounts -> BigInt]
      /\ balance[from[h]] - amount[h] \in BigInt
      /\ from[h] # to[h] => balance[to[h]] + amount[h] \in BigInt
  BY InputsAreBigInts DEF IInv, TypeOK, LocksHeld
<1>2. balance[from[h]] - amount[h] + amount[h] = balance[from[h]]
  BY <1>1, RangeIsNatural DEF BigInt
<1> QED
  BY <1>1, <1>2 DEF AfterBoth, AfterDebit, Debited, Credited

(* No step breaks the invariant: the rows Commit writes are locked by the  *)
(* handler that commits, so no other handler relies on them.               *)
LEMMA IInvStep == ASSUME IInv, [Next]_vars PROVE IInv'
<1> USE NoHandlerIsNone, RangeIsNatural, InputsAreBigInts
    DEF IInv, TypeOK, args, HasPayer, HasBoth
<1>1. ASSUME NEW a \in Accounts, NEW b \in Balances, CreateAccount(a, b)
      PROVE  IInv'
  <2>1. TypeOK'
    BY <1>1 DEF CreateAccount
  <2>2. \A h \in Handlers : pc[h] \in HasPayer => from[h] # a
    BY <1>1 DEF CreateAccount, LocksHeld
  <2>3. \A h \in Handlers : pc[h] \in HasBoth => to[h] # a
    BY <1>1 DEF CreateAccount, LocksHeld, LockedRowsExist
  <2>4. LocksHeld'
    BY <1>1, <2>2, <2>3 DEF CreateAccount, LocksHeld
  <2>5. LockedRowsExist'
    BY <1>1 DEF CreateAccount, LockedRowsExist
  <2> QED
    BY <2>1, <2>4, <2>5
<1>2. ASSUME NEW h \in Handlers, NEW a \in Accounts, NEW b \in Accounts,
             NEW m \in Amounts, CheckSufficientFunds(h, a, b, m)
      PROVE  IInv'
  BY <1>2 DEF CheckSufficientFunds, LocksHeld, LockedRowsExist
<1>3. ASSUME NEW h \in Handlers, LockPayer(h) PROVE IInv'
  BY <1>3 DEF LockPayer, LocksHeld, LockedRowsExist
<1>4. ASSUME NEW h \in Handlers, LockPayee(h) PROVE IInv'
  BY <1>4 DEF LockPayee, LocksHeld, LockedRowsExist
<1>5. ASSUME NEW h \in Handlers, Debit(h) PROVE IInv'
  <2>1. balance[from[h]] - amount[h] \in BigInt
    BY <1>5 DEF Debit, LocksHeld, AfterDebit, Debited
  <2> QED
    BY <1>5, <2>1 DEF Debit, LocksHeld, LockedRowsExist
<1>6. ASSUME NEW h \in Handlers, Credit(h) PROVE IInv'
  <2>1. from[h] # to[h] => balance[to[h]] + amount[h] \in BigInt
    BY <1>6 DEF Credit, LocksHeld, AfterBoth, AfterDebit, Debited, Credited
  <2> QED
    BY <1>6, <2>1 DEF Credit, LocksHeld, LockedRowsExist
<1>7. ASSUME NEW h \in Handlers, Finish(h), opened' = opened,
             \A a \in Accounts : holder[a] # h => balance'[a] = balance[a],
             balance' \in [Accounts -> BigInt], opening' = opening
      PROVE  IInv'
  <2>1. TypeOK' /\ LockedRowsExist'
    BY <1>7 DEF Finish, LockedRowsExist
  <2>2. ASSUME NEW g \in Handlers, pc'[g] # "idle"
        PROVE  /\ g # h
               /\ pc'[g] = pc[g] /\ from'[g] = from[g] /\ to'[g] = to[g]
               /\ amount'[g] = amount[g] /\ seen'[g] = seen[g]
    BY <1>7, <2>2 DEF Finish
  <2>3. ASSUME NEW a \in Accounts, NEW g \in Handlers, g # h, holder[a] = g
        PROVE  holder'[a] = g /\ balance'[a] = balance[a]
    BY <1>7, <2>3 DEF Finish
  <2>4. LocksHeld'
    BY <1>7, <2>2, <2>3 DEF LocksHeld
  <2> QED
    BY <2>1, <2>4
<1>8. ASSUME NEW h \in Handlers, Commit(h) PROVE IInv'
  <2>1. \A a \in Accounts : holder[a] # h => balance'[a] = balance[a]
    BY <1>8, CommitWrites DEF Commit, LocksHeld
  <2> QED
    BY <1>7, <1>8, <2>1, CommitWrites DEF Commit
<1>9. ASSUME NEW h \in Handlers, Refuse(h) \/ DeadlockAbort(h) \/ Interrupt(h)
      PROVE  IInv'
  BY <1>7, <1>9 DEF Refuse, DeadlockAbort, Interrupt, Rollback
<1>10. CASE UNCHANGED vars
  BY <1>10 DEF vars, LocksHeld, LockedRowsExist
<1> QED
  BY <1>1, <1>2, <1>3, <1>4, <1>5, <1>6, <1>8, <1>9, <1>10 DEF Next, Proceed

(* The invariant holds in every reachable state.                           *)
LEMMA Invariance == Spec => []IInv
  BY IInvInit, IInvStep, PTL DEF Spec

-----------------------------------------------------------------------------
(* The variables keep to their types: no balance leaves BIGINT's range.    *)
THEOREM Typing == Spec => []TypeOK
  BY Invariance, PTL DEF IInv

(* The balance a transfer has checked under the lock is the balance it     *)
(* debits, whatever transfers run beside it.                               *)
THEOREM CheckedStaysCurrent == Spec => []CheckedBalanceIsCurrent
<1>1. IInv => CheckedBalanceIsCurrent
  BY DEF IInv, LocksHeld, HasPayer, CheckedBalanceIsCurrent
<1> QED
  BY <1>1, Invariance, PTL

(* Transfers of amounts that are not negative never overdraw an account    *)
(* that was opened with no debt.                                           *)
THEOREM NeverOverdrawn ==
  ASSUME Amounts \subseteq Nat
  PROVE  Spec => []NoOverdraft
<1>1. Init => NoOverdraft
  BY DEF Init, NoOverdraft
<1>2. ASSUME IInv, NoOverdraft, [Next]_vars PROVE NoOverdraft'
  <2>1. CASE UNCHANGED <<balance, opening>>
    BY <1>2, <2>1 DEF NoOverdraft
  <2>2. ASSUME NEW a \in Accounts, NEW b \in Balances, CreateAccount(a, b)
        PROVE  NoOverdraft'
    BY <1>2, <2>2 DEF CreateAccount, NoOverdraft, IInv, TypeOK
  <2>3. ASSUME NEW h \in Handlers, Commit(h) PROVE NoOverdraft'
    <3> SUFFICES ASSUME NEW a \in Accounts, opening[a] >= 0
                 PROVE  balance'[a] >= 0
      BY <2>3 DEF Commit, NoOverdraft
    <3>1. /\ balance' = AfterBoth(h) /\ pc[h] = "credited"
          /\ balance[a] >= 0
      BY <1>2, <2>3 DEF Commit, NoOverdraft
    <3>2. /\ amount[h] \in Nat /\ seen[h] >= amount[h]
          /\ seen[h] = balance[from[h]]
          /\ from[h] \in Accounts /\ to[h] \in Accounts
      BY <1>2, <3>1 DEF IInv, TypeOK, LocksHeld, HasPayer
    <3>3. balance[a] \in Int /\ balance[from[h]] \in Int
      BY <1>2, <3>2, RangeIsNatural DEF IInv, TypeOK, BigInt
    <3>4. CASE a = from[h]
      BY <1>2, <3>1, <3>2, <3>3, <3>4, CommitWrites
    <3>5. CASE a = to[h] /\ a # from[h]
      BY <1>2, <3>1, <3>2, <3>3, <3>5, CommitWrites
    <3>6. CASE a \notin {from[h], to[h]}
      BY <1>2, <3>1, <3>6, CommitWrites
    <3> QED
      BY <3>4, <3>5, <3>6
  <2> QED
    BY <1>2, <2>1, <2>2, <2>3 DEF Next, Proceed, vars, CheckSufficientFunds,
       LockPayer, LockPayee, Debit, Credit, Refuse, DeadlockAbort, Interrupt,
       Rollback
<1> QED
  BY <1>1, <1>2, Invariance, PTL DEF Spec

-----------------------------------------------------------------------------
(* An account without a row has never been written.                        *)
UnopenedIsUntouched == \A a \in Accounts \ opened : balance[a] = opening[a]

(* An account that nobody has opened keeps the balance it started with.    *)
LEMMA UnopenedStep ==
  ASSUME IInv, UnopenedIsUntouched, [Next]_vars PROVE UnopenedIsUntouched'
<1> USE DEF UnopenedIsUntouched
<1>1. CASE UNCHANGED <<opened, balance, opening>>
  BY <1>1
<1>2. ASSUME NEW a \in Accounts, NEW b \in Balances, CreateAccount(a, b)
      PROVE  UnopenedIsUntouched'
  BY <1>2 DEF CreateAccount, IInv, TypeOK
<1>3. ASSUME NEW h \in Handlers, Commit(h) PROVE UnopenedIsUntouched'
  <2>1. from[h] \in opened /\ to[h] \in opened
    BY <1>3, NoHandlerIsNone DEF Commit, IInv, TypeOK, LocksHeld, LockedRowsExist, HasBoth
  <2> QED
    BY <1>3, <2>1, CommitWrites DEF Commit, IInv, TypeOK
<1> QED
  BY <1>1, <1>2, <1>3 DEF Next, Proceed, vars, CheckSufficientFunds, LockPayer, LockPayee,
     Debit, Credit, Refuse, DeadlockAbort, Interrupt, Rollback

(* A transfer that commits leaves the sum of the balances as it was.       *)
LEMMA CommitConserves ==
  ASSUME IInv, IsFiniteSet(Accounts), NEW h \in Handlers, pc[h] = "credited"
  PROVE  SumFunctionOnSet(AfterBoth(h), Accounts) = SumFunctionOnSet(balance, Accounts)
<1> DEFINE Sum(f) == SumFunctionOnSet(f, Accounts)
           p == from[h]
           q == to[h]
           m == amount[h]
<1>1. /\ p \in Accounts /\ q \in Accounts /\ m \in Int
      /\ \A a \in Accounts : balance[a] \in Int /\ AfterBoth(h)[a] \in Int
  <2>1. /\ p \in Accounts /\ q \in Accounts /\ m \in BigInt
        /\ balance \in [Accounts -> BigInt]
    BY InputsAreBigInts DEF IInv, TypeOK, LocksHeld
  <2>2. AfterBoth(h) \in [Accounts -> BigInt]
    BY CommitWrites
  <2> QED
    BY <2>1, <2>2, RangeIsNatural DEF BigInt
<1>2. CASE p = q
  <2>1. \A a \in Accounts : AfterBoth(h)[a] = balance[a]
    BY <1>2, CommitWrites
  <2> QED
    BY <2>1, SumIsOfSet
<1>3. CASE p # q
  <2> DEFINE debited == AfterDebit(h)
  <2>1. /\ debited[p] = balance[p] - m
        /\ \A a \in Accounts \ {p} : debited[a] = balance[a]
    BY <1>1 DEF AfterDebit, Debited, IInv, TypeOK
  <2>2. \A a \in Accounts : debited[a] \in Int
    BY <1>1, <2>1
  <2>3. /\ AfterBoth(h)[q] = debited[q] + m
        /\ \A a \in Accounts \ {q} : AfterBoth(h)[a] = debited[a]
    BY <1>1, <1>3, <2>1, CommitWrites
  <2> HIDE DEF debited
  <2>4. Sum(debited) = Sum(balance) + debited[p] - balance[p]
    BY <1>1, <2>1, <2>2, SumOfChange
  <2>5. Sum(AfterBoth(h)) = Sum(debited) + AfterBoth(h)[q] - debited[q]
    BY <1>1, <2>2, <2>3, SumOfChange
  <2>6. Sum(balance) \in Int
    BY <1>1, SumIsInteger
  <2> HIDE DEF Sum, p, q, m
  <2>7. Sum(debited) = Sum(balance) - m
    BY <1>1, <2>1, <2>4, <2>6
  <2> QED
    BY <1>1, <2>2, <2>3, <2>5, <2>6, <2>7 DEF Sum
<1> QED
  BY <1>2, <1>3

(* Transfers, whatever runs beside them and wherever they are cut off,     *)
(* neither make nor lose money: the balances add up to what the accounts   *)
(* were opened with, for any number of accounts.                           *)
THEOREM TransfersConserveMoney ==
  ASSUME IsFiniteSet(Accounts) PROVE Spec => []MoneyConserved
<1> DEFINE Sum(f) == SumFunctionOnSet(f, Accounts)
           Conserved == Sum(balance) = Sum(opening)
<1>1. Init => UnopenedIsUntouched /\ Conserved
  BY DEF Init, UnopenedIsUntouched
<1>2. ASSUME IInv, UnopenedIsUntouched, Conserved, [Next]_vars PROVE Conserved'
  <2>1. CASE UNCHANGED <<balance, opening>>
    BY <1>2, <2>1
  <2>2. ASSUME NEW a \in Accounts, NEW b \in Balances, CreateAccount(a, b) PROVE Conserved'
    <3>1. /\ balance'[a] = b /\ opening'[a] = b /\ balance[a] = opening[a] /\ b \in Int
          /\ \A c \in Accounts \ {a} : balance'[c] = balance[c] /\ opening'[c] = opening[c]
          /\ \A c \in Accounts : balance[c] \in Int /\ opening[c] \in Int
      BY <1>2, <2>2, InputsAreBigInts, RangeIsNatural
         DEF CreateAccount, UnopenedIsUntouched, IInv, TypeOK, BigInt
    <3>2. \A c \in Accounts : balance'[c] \in Int /\ opening'[c] \in Int
      BY <3>1
    <3>3. Sum(balance') = Sum(balance) + b - balance[a]
      BY <3>1, <3>2, SumOfChange
    <3>4. Sum(opening') = Sum(opening) + b - opening[a]
      BY <3>1, <3>2, SumOfChange
    <3> QED
      BY <1>2, <3>1, <3>3, <3>4
  <2>3. ASSUME NEW h \in Handlers, Commit(h) PROVE Conserved'
    BY <1>2, <2>3, CommitConserves DEF Commit
  <2> QED
    BY <1>2, <2>1, <2>2, <2>3 DEF Next, Proceed, vars, CheckSufficientFunds, LockPayer,
       LockPayee, Debit, Credit, Refuse, DeadlockAbort, Interrupt, Rollback
<1>3. IInv /\ Conserved => MoneyConserved
  BY DEF IInv, TypeOK, MoneyConserved, SumFunction
<1> HIDE DEF Conserved
<1>4. Spec => []UnopenedIsUntouched
  BY <1>1, UnopenedStep, Invariance, PTL DEF Spec
<1> QED
  BY <1>1, <1>2, <1>3, <1>4, Invariance, PTL DEF Spec
=============================================================================
