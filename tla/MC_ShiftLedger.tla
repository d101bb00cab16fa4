--------------------------- MODULE MC_ShiftLedger ---------------------------
(* TLC instances of ShiftLedger: what the .cfg files cannot write.         *)
EXTENDS ShiftLedger, TLC

\* Shift ids and tills are interchangeable: no definition names one of them.
ShiftSymmetry == Permutations(Shifts) \cup Permutations(Terminals)
=============================================================================
