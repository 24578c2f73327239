--------------------------- MODULE MCInvoicePayment ---------------------------
\* One request slot, and tables that are ordered: nothing to be symmetric in.
EXTENDS InvoicePayment
=============================================================================
