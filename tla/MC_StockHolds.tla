--------------------------- MODULE MC_StockHolds ---------------------------
(* TLC instance of StockHolds: what the .cfg file cannot write.            *)
EXTENDS StockHolds, TLC

CONSTANTS h1, h2, h3, r1, r2, r3, r4

\* A hold of two units, released by up to three attempts, one of one unit, and
\* one that nobody releases.
KeyOfRequest == (r1 :> h1) @@ (r2 :> h1) @@ (r3 :> h1) @@ (r4 :> h2)
UnitsOfHold  == (h1 :> 2) @@ (h2 :> 1) @@ (h3 :> 1)
=============================================================================
