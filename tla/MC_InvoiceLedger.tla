------------------------- MODULE MC_InvoiceLedger --------------------------
(* TLC instances of InvoiceLedger: what the .cfg files cannot write.       *)
EXTENDS InvoiceLedger, TLC

\* Invoice rows are interchangeable: no definition names one of them.
InvoiceSymmetry == Permutations(Invoices)

\* A fiscal year from July to June: the second and third half year.
JulyToJune == {<<2, 3>>}
=============================================================================
