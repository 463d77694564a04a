------------------------------ MODULE MCInvoice ------------------------------
(***************************************************************************)
(* Small instances of Invoice for TLC.                                     *)
(***************************************************************************)
EXTENDS Invoice, TLC

\* Clients, invoices and lines are interchangeable in the safety runs that use this set.
Symmetric ==
    Permutations(Client) \cup Permutations(InvoiceId) \cup Permutations(ItemId)
=============================================================================
