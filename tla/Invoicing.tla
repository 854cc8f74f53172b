------------------------------ MODULE Invoicing ------------------------------
(***************************************************************************)
(* The client's invoices over several trips: drafts, issue, correction,    *)
(* cancelling and receipts.                                                *)
(*                                                                         *)
(* Every handler runs in one transaction under the lock of its invoice (or, *)
(* for a new one, of its trips) and is one action; what it reads of the     *)
(* trips of an invoice on another connection changes only under that lock. *)
(* The trips move by TripAccount: what the road and the balance do to them  *)
(* is in Settlement and may come between any two handlers.                  *)
(*                                                                         *)
(* Settlement and this module are proved about together (MoneyProofs), so  *)
(* none of its names is one of Settlement's.                               *)
(*                                                                         *)
(* Source: invoicing of apps/internal-api/src/modules.                     *)
(***************************************************************************)
EXTENDS Integers, Functions

CONSTANTS
    Trips, Invoices,
    ReceiptKeys,    \* idempotency keys of receipts
    Totals,         \* what the heads of an invoice may add up to
    Balances,       \* what a transporter may be paid
    Unset           \* no invoice

ASSUME AmountsAssumption == Totals \subseteq Nat /\ Balances \subseteq Nat
ASSUME UnsetAssumption == Unset \notin Invoices

VARIABLES
    account,    \* of each trip: stage, billed, balance paid
    invoice,    \* the invoices rows
    link,       \* the invoice_trips rows
    receipt     \* the receipts rows, by idempotency key

books == <<account, invoice, link, receipt>>

Of(t) == INSTANCE TripAccount WITH account <- account[t]

Status     == {"NONE", "DRAFT", "ISSUED", "PART_PAID", "PAID", "CANCELLED"}
InvoiceRow == [status : Status, total : Nat, received : Nat]
ReceiptRow == [invoice : Invoices \cup {Unset}, amount : Nat]
NoInvoice  == [status |-> "NONE", total |-> 0, received |-> 0]
NoReceipt  == [invoice |-> Unset, amount |-> 0]

InvoicingInit ==
    /\ account = [t \in Trips |-> [stage |-> "OPEN", billed |-> "NO", paid |-> 0]]
    /\ invoice = [i \in Invoices |-> NoInvoice]
    /\ link = {} /\ receipt = [k \in ReceiptKeys |-> NoReceipt]

TripsOf(i) == {t \in Trips : <<i, t>> \in link}
Billable(t) == Of(t)!OnRoad(account[t]) /\ account[t].billed = "NO"

(* invoice_trips: unique (trip_id), whatever became of the invoice.         *)
(* mutant: a trip may be on any number of invoices *)
LinkableAnyway(i, ts) == ts \subseteq Trips
Linkable(i, ts) == \A t \in ts : \A j \in Invoices : <<j, t>> \in link => j = i

-----------------------------------------------------------------------------
(* Drafts *)

Create(i, ts, n) ==
    /\ invoice[i].status = "NONE"
    /\ \A t \in ts : Billable(t)
    /\ Linkable(i, ts)
    /\ invoice' = [invoice EXCEPT ![i] = [NoInvoice EXCEPT !.status = "DRAFT", !.total = n]]
    /\ link' = link \cup ({i} \X ts)
    /\ UNCHANGED <<account, receipt>>

(* mutant: the total may still change after a receipt *)
EditableLate(i) == invoice[i].status \notin {"NONE", "CANCELLED"}
Editable(i) == invoice[i].status \notin {"NONE", "CANCELLED"} /\ invoice[i].received = 0

(* Only a draft's trips are exchanged, for trips on the road. *)
Relinkable(i, ts) ==
    /\ invoice[i].status = "DRAFT"
    /\ \A t \in ts : Of(t)!OnRoad(account[t])
    /\ \A t \in ts : account[t].billed = "NO" \/ t \in TripsOf(i)

(* A correction: the charges of a draft or an unpaid invoice, and on a      *)
(* draft its trips, deleted and inserted again.                             *)
Update(i, ts, n) ==
    /\ Editable(i)
    /\ \/ ts = TripsOf(i) /\ UNCHANGED link
       \/ /\ ts # TripsOf(i) /\ Relinkable(i, ts) /\ Linkable(i, ts)
          /\ link' = {l \in link : l[1] # i} \cup ({i} \X ts)
    /\ invoice' = [invoice EXCEPT ![i].total = n]
    /\ UNCHANGED <<account, receipt>>

-----------------------------------------------------------------------------
(* Issue, cancelling, receipts *)

Generate(i) ==
    /\ invoice[i].status = "DRAFT"
    /\ invoice' = [invoice EXCEPT ![i].status = "ISSUED"]
    /\ account' = [t \in Trips |->
                     IF t \in TripsOf(i) THEN Of(t)!Billed(account[t]) ELSE account[t]]
    /\ UNCHANGED <<link, receipt>>

(* The links stay.  A draft gives nothing back.                             *)
(* mutant: its trips stay billed *)
KeepsTrips(i) == account
GivesBack(i) ==
    [t \in Trips |-> IF t \in TripsOf(i) /\ invoice[i].status # "DRAFT"
                     THEN Of(t)!Unbilled(account[t]) ELSE account[t]]
Cancel(i) ==
    /\ invoice[i].status \notin {"NONE", "CANCELLED"}
    /\ invoice' = [invoice EXCEPT ![i].status = "CANCELLED"]
    /\ account' = GivesBack(i)
    /\ UNCHANGED <<link, receipt>>

RecordReceipt(k, i, a) ==
    LET received == invoice[i].received + a IN
    /\ receipt[k] = NoReceipt
    /\ invoice[i].status \notin {"NONE", "DRAFT", "CANCELLED"}
    /\ a > 0 /\ received <= invoice[i].total
    /\ receipt' = [receipt EXCEPT ![k] = [invoice |-> i, amount |-> a]]
    /\ invoice' = [invoice EXCEPT
                     ![i].received = received,
                     ![i].status = IF received >= invoice[i].total THEN "PAID" ELSE "PART_PAID"]
    /\ UNCHANGED <<account, link>>

-----------------------------------------------------------------------------
(* What the rest of the system does to a trip *)

Moves(t, row) ==
    /\ account' = [account EXCEPT ![t] = row]
    /\ UNCHANGED <<invoice, link, receipt>>

Depart(t)  == account[t].stage = "OPEN" /\ Moves(t, Of(t)!Departed(account[t]))
Arrive(t)  == account[t].stage = "IN_TRANSIT" /\ Moves(t, Of(t)!Delivered(account[t]))
Lapse(t)   == account[t].stage \in {"DELIVERED", "CLOSED"} /\ Moves(t, Of(t)!Forfeited(account[t]))
PayBalance(t, n) == account[t].paid = 0 /\ Moves(t, Of(t)!Paid(account[t], n))

InvoicingNext ==
    \/ \E i \in Invoices, ts \in SUBSET Trips, n \in Totals : Create(i, ts, n) \/ Update(i, ts, n)
    \/ \E i \in Invoices : Generate(i) \/ Cancel(i)
    \/ \E k \in ReceiptKeys, i \in Invoices : \E a \in 1..invoice[i].total : RecordReceipt(k, i, a)
    \/ \E t \in Trips : Depart(t) \/ Arrive(t) \/ Lapse(t) \/ \E n \in Balances : PayBalance(t, n)

InvoicingSpec == InvoicingInit /\ [][InvoicingNext]_books

-----------------------------------------------------------------------------
(* Properties *)

InvoicingTypeOK ==
    /\ account \in [Trips -> [stage : {"OPEN", "IN_TRANSIT", "DELIVERED", "CLOSED"},
                              billed : {"NO", "YES"}, paid : Nat]]
    /\ invoice \in [Invoices -> InvoiceRow]
    /\ link \subseteq Invoices \X Trips
    /\ receipt \in [ReceiptKeys -> ReceiptRow]

Issued(i) == invoice[i].status \in {"ISSUED", "PART_PAID", "PAID"}

(* A trip says it is billed exactly when one issued invoice lists it, and   *)
(* never do two, through drafts made side by side, corrected, issued and    *)
(* cancelled in any order (create, update, generate, cancel).               *)
BilledOnce ==
    \A t \in Trips :
        /\ account[t].billed = "YES" <=> \E i \in Invoices : <<i, t>> \in link /\ Issued(i)
        /\ \A i, j \in Invoices :
              <<i, t>> \in link /\ Issued(i) /\ <<j, t>> \in link /\ Issued(j) => i = j

(* What an invoice says it received is what its receipts come to, never     *)
(* more than its total, and its status says which of the two it is: a       *)
(* correction never moves the total under a receipt (update, recordReceipt).*)
Receipts(i) == {k \in ReceiptKeys : receipt[k].invoice = i}
Amounts == [k \in ReceiptKeys |-> receipt[k].amount]
StatusFollows ==
    \A i \in Invoices :
        /\ invoice[i].received <= invoice[i].total
        /\ invoice[i].status = "PAID" => invoice[i].received = invoice[i].total
                                           /\ invoice[i].received > 0
        /\ invoice[i].status = "PART_PAID" => invoice[i].received \in 1..(invoice[i].total - 1)
        /\ invoice[i].status \in {"NONE", "DRAFT", "ISSUED"} => invoice[i].received = 0
ReceiptsAddUp ==
    /\ StatusFollows
    /\ \A i \in Invoices :
          invoice[i].received = SumFunctionOnSet(Amounts, Receipts(i))

(* Once issued, an invoice keeps its trips, and never becomes a draft       *)
(* again: the consignments that were marked are those that are given back   *)
(* (update's comment: "The consignments on an issued invoice are locked").  *)
IssuedStays ==
    \A i \in Invoices : invoice[i].status \notin {"NONE", "DRAFT"} =>
        TripsOf(i)' = TripsOf(i) /\ invoice'[i].status \notin {"NONE", "DRAFT"}
LockedOnceIssued == [][IssuedStays]_books

(* Invoicing does to a trip what TripAccount allows and nothing else. *)
AccountStep == \A t \in Trips : [Of(t)!Next]_(account[t])
KeepsAccounts == [][AccountStep]_account

(* What unmarkTripsBilled's comment says: the loads of a cancelled invoice  *)
(* "go back to unbilled so a corrected invoice can be raised for them".     *)
OnNoInvoice(t) == \A i \in Invoices : <<i, t>> \in link => invoice[i].status = "CANCELLED"
GivenBackCanBeBilled ==
    \A t \in Trips : Billable(t) /\ OnNoInvoice(t) =>
        \A i \in Invoices : invoice[i].status = "NONE" => Linkable(i, {t})
=============================================================================
