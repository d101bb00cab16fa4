-------------------------- MODULE MC_OfflineSales ---------------------------
(* TLC instances of OfflineSales: what the .cfg file cannot write.         *)
EXTENDS OfflineSales, TLC

CONSTANTS s1, s2, s3, n1, n2, tea, bag

\* Two submissions of the first invoice, one of the second.
MCInvoiceOf == s1 :> n1 @@ s2 :> n1 @@ s3 :> n2

\* Every sale has one tea; the second invoice has a bag too.
MCQty == [c \in Calls |-> tea :> 1 @@ bag :> IF c = s3 THEN 1 ELSE 0]

\* The two submissions are interchangeable.
CallSymmetry == Permutations({s1, s2})

MCStock0 == tea :> 2 @@ bag :> 0
=============================================================================
