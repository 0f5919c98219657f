------------------------------ MODULE Invoices ------------------------------
(***************************************************************************)
(* InvoiceService: an invoice is inserted as a DRAFT, its line items one   *)
(* by one after it, it is finalized, and payments are recorded by reading  *)
(* the row and writing back a sum and a status.                            *)
(***************************************************************************)
EXTENDS Integers, Functions

CONSTANTS Invoices,   \* invoices
          Bills,      \* what create_invoice is asked to bill: how many line
                      \* items, and the sum of their amounts, any i64
          Payments,   \* calls of mark_invoice_paid: each records one payment
          Amounts,    \* the amounts they are given
          MaxI64,     \* largest i64, scaled down for TLC
          None

VARIABLES invoice,     \* invoices: the rows, or None
          line_items,  \* invoice_line_items: how many each invoice has
          gone_invoices,        \* the invoices deleted with their customer
          creating,    \* invoices whose line items are being inserted
          paying       \* the payments: where they are and what they have read

invoiceVars == <<invoice, line_items, gone_invoices, creating, paying>>

I64 == -MaxI64 - 1 .. MaxI64

(* i64 sums wrap around in a release build.                                *)
Wrap(n) == ((n + MaxI64 + 1) % (2 * MaxI64 + 2)) - MaxI64 - 1

Init ==
  /\ invoice = [i \in Invoices |-> None]
  /\ line_items = [i \in Invoices |-> 0]
  /\ gone_invoices = {}
  /\ creating = {}
  /\ paying = [p \in Payments |-> [pc |-> "new"]]

-----------------------------------------------------------------------------
(* create_invoice: INSERT the invoice, then each line item, in no database *)
(* transaction.                                                            *)
CreateInvoice(i, bill) ==
  /\ invoice[i] = None /\ i \notin gone_invoices
  /\ invoice' = [invoice EXCEPT ![i] = [status |-> "DRAFT", lines |-> bill.lines,
                   amount_due |-> bill.amount, amount_paid |-> 0]]
  /\ creating' = creating \cup {i}
  /\ UNCHANGED <<line_items, gone_invoices, paying>>

CreateLineItem(i) ==
  /\ i \in creating /\ invoice[i] # None
  /\ line_items[i] < invoice[i].lines
  /\ line_items' = [line_items EXCEPT ![i] = @ + 1]
  /\ UNCHANGED <<invoice, gone_invoices, creating, paying>>

(* All are inserted, or the request is cut off, or the invoice has been    *)
(* deleted and the foreign key refuses the next.                           *)
EndCreate(i) ==
  /\ i \in creating
  /\ creating' = creating \ {i}
  /\ UNCHANGED <<invoice, line_items, gone_invoices, paying>>

(* finalize_invoice: whatever the status.                                  *)
FinalizeInvoice(i) ==
  /\ invoice[i] # None
  /\ invoice' = [invoice EXCEPT ![i].status = "OPEN"]
  /\ UNCHANGED <<line_items, gone_invoices, creating, paying>>

(* mark_invoice_paid: SELECT.                                              *)
ReadInvoice(p, i, amount) ==
  /\ paying[p].pc = "new"
  /\ invoice[i] # None
  /\ paying' = [paying EXCEPT ![p] = [pc |-> "read", invoice |-> i, amount |-> amount,
                  paid |-> invoice[i].amount_paid, status |-> invoice[i].status]]
  /\ UNCHANGED <<invoice, line_items, gone_invoices, creating>>

NewAmountPaid(p) == Wrap(paying[p].paid + paying[p].amount)

(* Mutant: any payment at all makes the invoice PAID.                      *)
PaidByAnyPayment(p, due) == IF NewAmountPaid(p) > 0 THEN "PAID" ELSE paying[p].status
NewStatus(p, due) == IF NewAmountPaid(p) >= due THEN "PAID" ELSE paying[p].status

(* mark_invoice_paid: UPDATE status and amount_paid with values computed   *)
(* from what was read.  The amount due never changes.  An invoice deleted  *)
(* meanwhile is not written, and the client gets "not found after update". *)
MarkInvoicePaid(p) ==
  /\ paying[p].pc = "read"
  /\ LET i == paying[p].invoice IN
       invoice' = IF invoice[i] = None THEN invoice
                  ELSE [invoice EXCEPT ![i].status = NewStatus(p, invoice[i].amount_due),
                                       ![i].amount_paid = NewAmountPaid(p)]
  /\ paying' = [paying EXCEPT ![p].pc = "done"]
  /\ UNCHANGED <<line_items, gone_invoices, creating>>

InterruptPayment(p) ==
  /\ paying[p].pc = "read"
  /\ paying' = [paying EXCEPT ![p].pc = "stopped"]
  /\ UNCHANGED <<invoice, line_items, gone_invoices, creating>>

(* delete_customer: the DELETE cascades to the customer's invoices and to  *)
(* their line items, whatever has been paid.                               *)
DeleteCustomerOf(i) ==
  /\ invoice[i] # None
  /\ invoice' = [invoice EXCEPT ![i] = None]
  /\ line_items' = [line_items EXCEPT ![i] = 0]
  /\ gone_invoices' = gone_invoices \cup {i}
  /\ UNCHANGED <<creating, paying>>

Next ==
  \/ \E i \in Invoices :
       \/ \E bill \in Bills : CreateInvoice(i, bill)
       \/ CreateLineItem(i)
       \/ EndCreate(i)
       \/ DeleteCustomerOf(i)
       \/ FinalizeInvoice(i)
       \/ \E p \in Payments, amount \in Amounts : ReadInvoice(p, i, amount)
  \/ \E p \in Payments : MarkInvoicePaid(p) \/ InterruptPayment(p)

Spec == Init /\ [][Next]_invoiceVars

-----------------------------------------------------------------------------
PaymentsOf(i) == {p \in Payments : paying[p].pc # "new" /\ paying[p].invoice = i}
Recorded(i) == {p \in PaymentsOf(i) : paying[p].pc = "done"}
Total(R) == SumFunctionOnSet([p \in R |-> paying[p].amount], R)

(* No payment of the invoice is negative and no sum of two wraps around.   *)
Regular(i) ==
  \A p \in PaymentsOf(i) : /\ paying[p].amount >= 0
                           /\ paying[p].paid + paying[p].amount \in I64

(* However payments and finalizations overlap and overwrite each other, an *)
(* invoice that shows PAID has been paid: what it shows as paid covers the *)
(* amount due, and the payments recorded cover what it shows.              *)
PaidMeansPaid ==
  \A i \in Invoices :
    invoice[i] # None /\ Regular(i) =>
      /\ invoice[i].amount_paid <= Total(Recorded(i))
      /\ invoice[i].status = "PAID" => invoice[i].amount_paid >= invoice[i].amount_due
=============================================================================
