SPECIFICATION InvoicingSpec
CONSTANTS
    Trips = {t1}
    Invoices = {i1, i2}
    ReceiptKeys = {k1}
    Totals = {2}
    Balances = {1}
    Unset = Unset
INVARIANT GivenBackCanBeBilled
