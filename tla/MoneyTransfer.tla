--------------------------- MODULE MoneyTransfer ---------------------------
(***************************************************************************)
(* Accounts and POST /transfer (UserService::transfer_money): one database *)
(* transaction that locks both rows with SELECT ... FOR UPDATE, the payer  *)
(* first, checks the payer's balance, moves the amount and commits.        *)
(*                                                                         *)
(* PostgreSQL is modelled as this code relies on it, at READ COMMITTED: a  *)
(* row lock is held until COMMIT or ROLLBACK, a locking SELECT that waited *)
(* returns the newest committed row, the uncommitted UPDATEs of a handler  *)
(* are seen by that handler alone (here: they follow from its pc), an      *)
(* UPDATE out of BIGINT's range fails, and a waiter that finds itself in a *)
(* cycle of waiters is aborted.                                            *)
(***************************************************************************)
EXTENDS Integers, Functions

CONSTANTS Handlers, Accounts, None,
          Amounts,    \* TransferRequest.amount
          Balances,   \* initial balances of create_account
          MaxBigInt   \* largest BIGINT, scaled down for TLC

ASSUME NoHandlerIsNone == None \notin Handlers \cup Accounts \cup Int
ASSUME RangeIsNatural == MaxBigInt \in Nat
BigInt == -MaxBigInt - 1 .. MaxBigInt
ASSUME InputsAreBigInts == Amounts \subseteq BigInt /\ Balances \subseteq BigInt

VARIABLES
  opened,   \* accounts with a row
  balance,  \* accounts.balance, as committed
  opening,  \* history: the balance each account was created with
  holder,   \* the handler whose transaction has the row's lock, or None
  pc, from, to, amount,  \* the handlers
  seen      \* the payer's balance as the locking SELECT returned it

vars == <<opened, balance, opening, holder, pc, from, to, amount, seen>>
args == <<from, to, amount>>

Init ==
  /\ opened = {}
  /\ balance = [a \in Accounts |-> 0]
  /\ opening = [a \in Accounts |-> 0]
  /\ holder = [a \in Accounts |-> None]
  /\ pc = [h \in Handlers |-> "idle"]
  /\ from = [h \in Handlers |-> None]
  /\ to = [h \in Handlers |-> None]
  /\ amount = [h \in Handlers |-> None]
  /\ seen = [h \in Handlers |-> None]

(* The two UPDATEs, each relative to the row version it finds.  Mutant:    *)
(* the second is computed from the committed balance.                      *)
CreditedFromCommitted(rows, a, m) == [rows EXCEPT ![a] = balance[a] + m]

Debited(rows, a, m)  == [rows EXCEPT ![a] = @ - m]
Credited(rows, a, m) == [rows EXCEPT ![a] = @ + m]

AfterDebit(h) == Debited(balance, from[h], amount[h])
AfterBoth(h)  == Credited(AfterDebit(h), to[h], amount[h])

(* The end of a handler, and of its transaction: its row locks are freed.  *)
Finish(h) ==
  /\ pc' = [pc EXCEPT ![h] = "idle"]
  /\ holder' = [a \in Accounts |-> IF holder[a] = h THEN None ELSE holder[a]]
  /\ from' = [from EXCEPT ![h] = None]
  /\ to' = [to EXCEPT ![h] = None]
  /\ amount' = [amount EXCEPT ![h] = None]
  /\ seen' = [seen EXCEPT ![h] = None]

Rollback(h) == Finish(h) /\ UNCHANGED <<opened, balance, opening>>

-----------------------------------------------------------------------------
(* create_account: INSERT INTO accounts.                                   *)
CreateAccount(a, b) ==
  /\ a \notin opened
  /\ opened' = opened \cup {a}
  /\ balance' = [balance EXCEPT ![a] = b]
  /\ opening' = [opening EXCEPT ![a] = b]
  /\ UNCHANGED <<holder, pc, args, seen>>

(* The handler's checks of card and user, which keep no state, and         *)
(* check_sufficient_funds, without a lock.  An unknown account or too      *)
(* small a balance is answered with 400.                                   *)
CheckSufficientFunds(h, a, b, m) ==
  /\ pc[h] = "idle"
  /\ a \in opened /\ balance[a] >= m
  /\ pc' = [pc EXCEPT ![h] = "checked"]
  /\ from' = [from EXCEPT ![h] = a]
  /\ to' = [to EXCEPT ![h] = b]
  /\ amount' = [amount EXCEPT ![h] = m]
  /\ UNCHANGED <<opened, balance, opening, holder, seen>>

(* BEGIN; SELECT the payer FOR UPDATE.  Mutant: a SELECT without FOR       *)
(* UPDATE.                                                                 *)
SelectWithoutLock(h) ==
  /\ pc[h] = "checked"
  /\ seen' = [seen EXCEPT ![h] = balance[from[h]]]
  /\ pc' = [pc EXCEPT ![h] = "payer"]
  /\ UNCHANGED <<opened, balance, opening, holder, args>>

LockPayer(h) ==
  /\ pc[h] = "checked"
  /\ holder[from[h]] = None
  /\ holder' = [holder EXCEPT ![from[h]] = h]
  /\ seen' = [seen EXCEPT ![h] = balance[from[h]]]
  /\ pc' = [pc EXCEPT ![h] = "payer"]
  /\ UNCHANGED <<opened, balance, opening, args>>

(* SELECT the payee FOR UPDATE; the row is the handler's own already when  *)
(* both account numbers are the same.                                      *)
LockPayee(h) ==
  /\ pc[h] = "payer"
  /\ to[h] \in opened
  /\ holder[to[h]] \in {None, h}
  /\ holder' = [holder EXCEPT ![to[h]] = h]
  /\ pc' = [pc EXCEPT ![h] = "both"]
  /\ UNCHANGED <<opened, balance, opening, args, seen>>

(* UPDATE the payer's row, if the balance it had under the lock suffices.  *)
Debit(h) ==
  /\ pc[h] = "both"
  /\ seen[h] >= amount[h]
  /\ AfterDebit(h)[from[h]] \in BigInt
  /\ pc' = [pc EXCEPT ![h] = "debited"]
  /\ UNCHANGED <<opened, balance, opening, holder, args, seen>>

(* UPDATE the payee's row.  Mutant: the sum is not checked to be a BIGINT. *)
CreditUnchecked(h) ==
  /\ pc[h] = "debited"
  /\ pc' = [pc EXCEPT ![h] = "credited"]
  /\ UNCHANGED <<opened, balance, opening, holder, args, seen>>

Credit(h) ==
  /\ pc[h] = "debited"
  /\ AfterBoth(h)[to[h]] \in BigInt
  /\ pc' = [pc EXCEPT ![h] = "credited"]
  /\ UNCHANGED <<opened, balance, opening, holder, args, seen>>

Commit(h) ==
  /\ pc[h] = "credited"
  /\ balance' = AfterBoth(h)
  /\ Finish(h)
  /\ UNCHANGED <<opened, opening>>

(* The errors: no such payee, too small a balance, a sum out of range.     *)
Refuse(h) ==
  /\ \/ pc[h] = "payer" /\ to[h] \notin opened
     \/ pc[h] = "both" /\ seen[h] < amount[h]
     \/ pc[h] = "both" /\ AfterDebit(h)[from[h]] \notin BigInt
     \/ pc[h] = "debited" /\ AfterBoth(h)[to[h]] \notin BigInt
  /\ Rollback(h)

(* PostgreSQL's deadlock detector.  Only a handler that has its payer and  *)
(* waits for its payee both holds and waits, and it waits for one other.   *)
(* Mutant: nothing detects the cycle.                                      *)
Blocker(h) == holder[to[h]]

NeverDetected(h) == FALSE

InDeadlock(h) ==
  \E S \in SUBSET {g \in Handlers : pc[g] = "payer"} :
    /\ h \in S
    /\ \A g \in S : Blocker(g) # g
    /\ {Blocker(g) : g \in S} = S

DeadlockAbort(h) == InDeadlock(h) /\ Rollback(h)

(* The handler stops at an await: an error of the database, the client     *)
(* gone, the process killed.  A COMMIT whose reply is lost is a Commit.    *)
Interrupt(h) == pc[h] # "idle" /\ Rollback(h)

Proceed(h) ==
  LockPayer(h) \/ LockPayee(h) \/ Debit(h) \/ Credit(h) \/ Commit(h) \/ Refuse(h)

Next ==
  \/ \E a \in Accounts, b \in Balances : CreateAccount(a, b)
  \/ \E h \in Handlers :
       \/ \E a, b \in Accounts, m \in Amounts : CheckSufficientFunds(h, a, b, m)
       \/ Proceed(h)
       \/ DeadlockAbort(h)
       \/ Interrupt(h)

Spec == Init /\ [][Next]_vars

(***************************************************************************)
(* Fairness.  A handler is polled after every await; a waiter is not       *)
(* overtaken for ever, since PostgreSQL queues the waiters of a row; and   *)
(* the deadlock detector runs, after deadlock_timeout, in every cycle.     *)
(***************************************************************************)
Fairness ==
  \A h \in Handlers :
    /\ WF_vars(Proceed(h))
    /\ SF_vars(LockPayer(h))
    /\ SF_vars(LockPayee(h))
    /\ WF_vars(DeadlockAbort(h))

FairSpec == Spec /\ Fairness

-----------------------------------------------------------------------------
(* The variables range over the values the code can put in them.           *)
TypeOK ==
  /\ opened \subseteq Accounts
  /\ balance \in [Accounts -> BigInt]
  /\ opening \in [Accounts -> BigInt]
  /\ holder \in [Accounts -> Handlers \cup {None}]
  /\ pc \in [Handlers -> {"idle", "checked", "payer", "both", "debited", "credited"}]
  /\ from \in [Handlers -> Accounts \cup {None}]
  /\ to \in [Handlers -> Accounts \cup {None}]
  /\ amount \in [Handlers -> Amounts \cup {None}]
  /\ seen \in [Handlers -> BigInt \cup {None}]

(* Concurrent transfers never overdraw: an account opened with no debt     *)
(* never has one, provided the amounts are not negative.                   *)
NoOverdraft ==
  \A a \in Accounts : opening[a] >= 0 => balance[a] >= 0

(* Transfers, also from an account to itself, neither make nor lose money. *)
MoneyConserved == SumFunction(balance) = SumFunction(opening)

(* The balance that was checked is still the balance when it is debited.   *)
CheckedBalanceIsCurrent ==
  \A h \in Handlers :
    pc[h] \in {"payer", "both", "debited", "credited"} =>
      seen[h] = balance[from[h]]

(* Every transfer is answered: transfers in opposite directions, which     *)
(* lock the two rows in opposite orders, do not wait for ever.             *)
TransfersFinish == \A h \in Handlers : pc[h] # "idle" ~> pc[h] = "idle"
=============================================================================
