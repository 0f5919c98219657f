--------------------------- MODULE ConnectAccounts --------------------------
(***************************************************************************)
(* ConnectService: update_account_status reads the flags of an account,    *)
(* merges those it was given, and writes all of them back; create_transfer *)
(* reads payouts_enabled, inserts a transfer and marks it PAID.            *)
(***************************************************************************)
CONSTANTS Accounts, Transfers, Handlers,
          Updates,   \* what update requests ask: flags, as functions to BOOLEAN
          None

VARIABLES connect_account,  \* connect_accounts: the flags, or None
          transfer,         \* transfers.status, or None
          transferring,     \* transfers whose request is being served
          updating,         \* the update_account_status handlers
          requested,        \* history: for each flag the last value asked and written
          contested         \* history: accounts two updates overlapped on

connectVars == <<connect_account, transfer, transferring, updating, requested, contested>>

Flags == {"charges_enabled", "payouts_enabled", "details_submitted"}
AllOff == [f \in Flags |-> FALSE]

Init ==
  /\ connect_account = [a \in Accounts |-> None]
  /\ transfer = [t \in Transfers |-> None]
  /\ transferring = {}
  /\ updating = [h \in Handlers |-> None]
  /\ requested = [a \in Accounts |-> AllOff]
  /\ contested = {}

-----------------------------------------------------------------------------
CreateConnectAccount(a) ==
  /\ connect_account[a] = None
  /\ connect_account' = [connect_account EXCEPT ![a] = AllOff]
  /\ requested' = [requested EXCEPT ![a] = AllOff]
  /\ UNCHANGED <<transfer, transferring, updating, contested>>

(* update_account_status: SELECT.                                          *)
ReadAccount(h, a, flags) ==
  /\ updating[h] = None
  /\ connect_account[a] # None
  /\ updating' = [updating EXCEPT ![h] =
       [account |-> a, flags |-> flags, seen |-> connect_account[a]]]
  /\ contested' = IF \E g \in Handlers : updating[g] # None /\ updating[g].account = a
                  THEN contested \cup {a} ELSE contested
  /\ UNCHANGED <<connect_account, transfer, transferring, requested>>

(* The flags not given keep the value read.  Mutant: they are switched off.*)
MergedOff(h) == [f \in Flags |-> f \in DOMAIN updating[h].flags /\ updating[h].flags[f]]
Merged(h) == [f \in Flags |-> IF f \in DOMAIN updating[h].flags
                              THEN updating[h].flags[f] ELSE updating[h].seen[f]]

UpdateAccountStatus(h) ==
  /\ updating[h] # None
  /\ LET a == updating[h].account
         flags == updating[h].flags
     IN /\ connect_account' = [connect_account EXCEPT ![a] = Merged(h)]
        /\ requested' = [requested EXCEPT ![a] =
             [f \in Flags |-> IF f \in DOMAIN flags THEN flags[f] ELSE @[f]]]
  /\ updating' = [updating EXCEPT ![h] = None]
  /\ UNCHANGED <<transfer, transferring, contested>>

InterruptUpdate(h) ==
  /\ updating[h] # None
  /\ updating' = [updating EXCEPT ![h] = None]
  /\ UNCHANGED <<connect_account, transfer, transferring, requested, contested>>

(* create_transfer: the account is read before the INSERT, so that its     *)
(* payouts may have been disabled since.                                   *)
CheckDestination(t, a) ==
  /\ transfer[t] = None /\ t \notin transferring
  /\ connect_account[a] # None /\ connect_account[a]["payouts_enabled"]
  /\ transferring' = transferring \cup {t}
  /\ UNCHANGED <<connect_account, transfer, updating, requested, contested>>

InsertTransfer(t) ==
  /\ t \in transferring /\ transfer[t] = None
  /\ transfer' = [transfer EXCEPT ![t] = "PENDING"]
  /\ UNCHANGED <<connect_account, transferring, updating, requested, contested>>

MarkTransferPaid(t) ==
  /\ t \in transferring /\ transfer[t] = "PENDING"
  /\ transfer' = [transfer EXCEPT ![t] = "PAID"]
  /\ transferring' = transferring \ {t}
  /\ UNCHANGED <<connect_account, updating, requested, contested>>

InterruptTransfer(t) ==
  /\ t \in transferring
  /\ transferring' = transferring \ {t}
  /\ UNCHANGED <<connect_account, transfer, updating, requested, contested>>

Next ==
  \/ \E a \in Accounts :
       \/ CreateConnectAccount(a)
       \/ \E h \in Handlers, flags \in Updates : ReadAccount(h, a, flags)
       \/ \E t \in Transfers : CheckDestination(t, a)
  \/ \E h \in Handlers : UpdateAccountStatus(h) \/ InterruptUpdate(h)
  \/ \E t \in Transfers : InsertTransfer(t) \/ MarkTransferPaid(t) \/ InterruptTransfer(t)

Spec == Init /\ [][Next]_connectVars

-----------------------------------------------------------------------------
(* An account shows for every flag the last value it was given, through    *)
(* updates of other flags and cut-offs, as long as no two updates of the   *)
(* account overlapped: those write back what they read of the others.      *)
UpdatesKept ==
  \A a \in Accounts \ contested :
    connect_account[a] # None => connect_account[a] = requested[a]
=============================================================================
