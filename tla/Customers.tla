----------------------------- MODULE Customers ------------------------------
(***************************************************************************)
(* CustomerService: update_customer reads the customer, lays the fields it *)
(* is given over those it has read, and writes all of them back; a         *)
(* customer is deleted by one DELETE.  A key of the metadata, which an     *)
(* update extends, is a field like the others.                             *)
(***************************************************************************)
CONSTANTS Customers, Handlers,
          Fields,       \* email, phone, name, description, metadata keys
          FieldUpdates, \* what requests ask: functions from some fields to values
          None          \* no value, and no row

VARIABLES customer,   \* customers: the rows, functions from Fields, or None
          deleted,    \* customers deleted: their ids are not used again
          editing,    \* the update_customer handlers and what they have read
          asked,      \* history: each field's last value asked and answered
          overlapped  \* history: customers on whom two updates overlapped

customerVars == <<customer, deleted, editing, asked, overlapped>>

Blank == [f \in Fields |-> None]

Init ==
  /\ customer = [c \in Customers |-> None]
  /\ deleted = {}
  /\ editing = [h \in Handlers |-> None]
  /\ asked = [c \in Customers |-> Blank]
  /\ overlapped = {}

-----------------------------------------------------------------------------
(* The given fields over the others.                                       *)
Overlay(given, others) ==
  [f \in Fields |-> IF f \in DOMAIN given THEN given[f] ELSE others[f]]

(* create_customer: one INSERT; what is not given is NULL.                 *)
CreateCustomer(c, given) ==
  /\ customer[c] = None /\ c \notin deleted
  /\ customer' = [customer EXCEPT ![c] = Overlay(given, Blank)]
  /\ asked' = [asked EXCEPT ![c] = Overlay(given, Blank)]
  /\ UNCHANGED <<deleted, editing, overlapped>>

(* update_customer: get_customer, refused when there is none.              *)
GetCustomer(h, c, given) ==
  /\ editing[h] = None
  /\ customer[c] # None
  /\ editing' = [editing EXCEPT ![h] = [customer |-> c, given |-> given, seen |-> customer[c]]]
  /\ overlapped' = IF \E g \in Handlers : editing[g] # None /\ editing[g].customer = c
                   THEN overlapped \cup {c} ELSE overlapped
  /\ UNCHANGED <<customer, deleted, asked>>

(* UPDATE all columns WHERE id: of a customer deleted meanwhile no row is  *)
(* left to change, and the request is answered with success all the same.  *)
UpdateCustomer(h) ==
  /\ editing[h] # None
  /\ LET c == editing[h].customer
         given == editing[h].given
     IN /\ customer' = IF customer[c] = None THEN customer
                       ELSE [customer EXCEPT ![c] = Overlay(given, editing[h].seen)]
        /\ asked' = [asked EXCEPT ![c] =
             [f \in Fields |-> IF f \in DOMAIN given THEN given[f] ELSE @[f]]]
  /\ editing' = [editing EXCEPT ![h] = None]
  /\ UNCHANGED <<deleted, overlapped>>

InterruptUpdate(h) ==
  /\ editing[h] # None
  /\ editing' = [editing EXCEPT ![h] = None]
  /\ UNCHANGED <<customer, deleted, asked, overlapped>>

(* delete_customer.  The DELETE cascades to the customer's methods,        *)
(* invoices and subscriptions (the same action of their modules); it is    *)
(* refused, and changes nothing, while a payment intent names him.         *)
DeleteCustomer(c) ==
  /\ customer[c] # None
  /\ customer' = [customer EXCEPT ![c] = None]
  /\ deleted' = deleted \cup {c}
  /\ UNCHANGED <<editing, asked, overlapped>>

Next ==
  \/ \E c \in Customers :
       \/ DeleteCustomer(c)
       \/ \E given \in FieldUpdates :
            \/ CreateCustomer(c, given)
            \/ \E h \in Handlers : GetCustomer(h, c, given)
  \/ \E h \in Handlers : UpdateCustomer(h) \/ InterruptUpdate(h)

Spec == Init /\ [][Next]_customerVars

-----------------------------------------------------------------------------
(* A customer shows for every field the last value that a request gave,    *)
(* through updates of other fields, cut-offs and deletions of others, as   *)
(* long as no two updates of his overlapped; and once deleted he is never  *)
(* written back by an update that had read him.                            *)
FieldsKept ==
  \A c \in Customers :
    /\ customer[c] # None /\ c \notin overlapped => customer[c] = asked[c]
    /\ c \in deleted => customer[c] = None
=============================================================================
