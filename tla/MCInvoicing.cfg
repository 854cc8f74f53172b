SPECIFICATION InvoicingSpec
CONSTANTS
    Trips = {t1, t2}
    Invoices = {i1, i2, i3}
    ReceiptKeys = {k1, k2}
    Totals = {0, 2}
    Balances = {0, 1}
    Unset = Unset
SYMMETRY Symmetric
INVARIANTS
    BilledOnce
    ReceiptsAddUp
PROPERTIES
    KeepsAccounts
