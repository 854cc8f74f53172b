----------------------------- MODULE MCInvoicing -----------------------------
(* Invoicing with interchangeable trips, invoices and receipt keys.        *)
EXTENDS Invoicing, TLC

Symmetric == Permutations(Trips) \cup Permutations(Invoices) \cup Permutations(ReceiptKeys)
=============================================================================
