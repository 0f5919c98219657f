--------------------------- MODULE PaymentMethods ---------------------------
(***************************************************************************)
(* PaymentMethodService and a customer's default method: setting it clears *)
(* and sets in one database transaction; creating a default method clears  *)
(* and inserts in two statements with no transaction.                      *)
(***************************************************************************)
EXTENDS FiniteSets

CONSTANTS Customers, Methods, Handlers, None

VARIABLES method,      \* payment_methods: the rows [customer, is_default], or None
          known,       \* the methods ever created, so that clients name them
          gone_customers,        \* the customers deleted
          changing,    \* the handlers that create a default or set one
          raced        \* history: customers for whom a method was being
                       \* created while another handler changed the default

methodVars == <<method, known, gone_customers, changing, raced>>

Idle == [pc |-> "idle"]

Init ==
  /\ method = [m \in Methods |-> None]
  /\ known = {}
  /\ gone_customers = {}
  /\ changing = [h \in Handlers |-> Idle]
  /\ raced = {}

-----------------------------------------------------------------------------
Rows(c) == {m \in Methods : method[m] # None /\ method[m].customer = c}

(* A transaction that has cleared the defaults holds its rows' locks.      *)
Holds(h) == IF changing[h].pc = "cleared" THEN changing[h].rows ELSE {}
Unlocked(m) == \A h \in Handlers : m \notin Holds(h)

(* The handlers that change c's default: two race when they overlap and    *)
(* one of them creates a method.                                           *)
Changers(c) == {h \in Handlers : changing[h].pc # "idle" /\ changing[h].customer = c}
Creates(h) == changing[h].op = "create"
Races(c, op) == \E h \in Changers(c) : op = "create" \/ Creates(h)

(* Both UPDATEs that clear take a snapshot of the customer's rows and wait *)
(* for the locks of those; m is the method to set or to insert.            *)
BeginClear(h, op, c, m) ==
  /\ changing[h] = Idle
  /\ changing' = [changing EXCEPT ![h] =
       [pc |-> "clearing", op |-> op, customer |-> c, method |-> m, rows |-> Rows(c)]]
  /\ raced' = IF Races(c, op) THEN raced \cup {c} ELSE raced
  /\ UNCHANGED <<method, known, gone_customers>>

(* What the clearing UPDATE finds once it has the locks.                   *)
RowsToClear(h) == changing[h].rows \cap Rows(changing[h].customer)

(* create_payment_method: the new default's UPDATE is committed at once.   *)
(* Mutant: a new default leaves the old one.                               *)
NoneCleared(h) == method
DefaultsCleared(h) ==
  [m \in Methods |-> IF m \in RowsToClear(h) THEN [method[m] EXCEPT !.is_default = FALSE]
                     ELSE method[m]]

CreateBegin(h, c, m) == m \notin known /\ BeginClear(h, "create", c, m)

CreateClear(h) ==
  /\ changing[h].pc = "clearing" /\ Creates(h)
  /\ \A m \in changing[h].rows : Unlocked(m)
  /\ method' = DefaultsCleared(h)
  /\ changing' = [changing EXCEPT ![h].pc = "inserting"]
  /\ UNCHANGED <<known, gone_customers, raced>>

(* The foreign key refuses a method of a customer deleted meanwhile.       *)
CreateInsert(h) ==
  /\ changing[h].pc = "inserting"
  /\ changing[h].customer \notin gone_customers
  /\ changing[h].method \notin known
  /\ method' = [method EXCEPT ![changing[h].method] =
                  [customer |-> changing[h].customer, is_default |-> TRUE]]
  /\ known' = known \cup {changing[h].method}
  /\ changing' = [changing EXCEPT ![h] = Idle]
  /\ UNCHANGED <<gone_customers, raced>>

(* A method that is no default is inserted by one statement, and so is any *)
(* method of no customer, whose is_default matters to nobody.              *)
CreateOrdinary(c, m) ==
  /\ m \notin known
  /\ c \notin gone_customers
  /\ method' = [method EXCEPT ![m] = [customer |-> c, is_default |-> FALSE]]
  /\ known' = known \cup {m}
  /\ raced' = IF Changers(c) # {} THEN raced \cup {c} ELSE raced
  /\ UNCHANGED <<gone_customers, changing>>

(* set_default_payment_method: BEGIN, clear, set, COMMIT.                  *)
SetBegin(h, c, m) == m \in known /\ BeginClear(h, "set", c, m)

SetClear(h) ==
  /\ changing[h].pc = "clearing" /\ ~Creates(h)
  /\ \A m \in changing[h].rows : Unlocked(m)
  /\ changing' = [changing EXCEPT ![h].pc = "cleared", ![h].rows = RowsToClear(h)]
  /\ UNCHANGED <<method, known, gone_customers, raced>>

(* The second UPDATE finds the method if it is still the customer's; what  *)
(* the transaction wrote appears with the COMMIT.                          *)
SetAndCommit(h) ==
  /\ changing[h].pc = "cleared"
  /\ method' = [m \in Methods |->
       IF m \in changing[h].rows
       THEN [method[m] EXCEPT !.is_default = (m = changing[h].method)]
       ELSE method[m]]
  /\ changing' = [changing EXCEPT ![h] = Idle]
  /\ UNCHANGED <<known, gone_customers, raced>>

(* An error or a cut-off; an open transaction is rolled back.              *)
Interrupt(h) ==
  /\ changing[h].pc # "idle"
  /\ changing' = [changing EXCEPT ![h] = Idle]
  /\ UNCHANGED <<method, known, gone_customers, raced>>

(* DELETE waits for the row's lock.  It is refused while a payment intent  *)
(* names the method.                                                       *)
DeletePaymentMethod(m) ==
  /\ method[m] # None
  /\ Unlocked(m)
  /\ method' = [method EXCEPT ![m] = None]
  /\ UNCHANGED <<known, gone_customers, changing, raced>>

(* delete_customer: the DELETE cascades to the customer's methods, and     *)
(* waits for the locks of their rows.                                      *)
DeleteCustomer(c) ==
  /\ c \notin gone_customers
  /\ \A m \in Rows(c) : Unlocked(m)
  /\ method' = [m \in Methods |-> IF m \in Rows(c) THEN None ELSE method[m]]
  /\ gone_customers' = gone_customers \cup {c}
  /\ UNCHANGED <<known, changing, raced>>

Next ==
  \/ \E c \in Customers : DeleteCustomer(c)
  \/ \E m \in Methods :
       \/ DeletePaymentMethod(m)
       \/ \E c \in Customers :
            \/ CreateOrdinary(c, m)
            \/ \E h \in Handlers : CreateBegin(h, c, m) \/ SetBegin(h, c, m)
  \/ \E h \in Handlers :
       CreateClear(h) \/ CreateInsert(h) \/ SetClear(h) \/ SetAndCommit(h) \/ Interrupt(h)

Spec == Init /\ [][Next]_methodVars

-----------------------------------------------------------------------------
(* However many handlers set a customer's default at the same time, while  *)
(* methods are deleted, the customer has at most one default, unless a     *)
(* method was created meanwhile: the UPDATE that clears has not seen it.   *)
OneDefault ==
  \A c \in Customers \ raced :
    \A m, n \in Rows(c) : method[m].is_default /\ method[n].is_default => m = n
=============================================================================
