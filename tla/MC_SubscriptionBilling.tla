---------------------- MODULE MC_SubscriptionBilling ----------------------
(* TLC instances of SubscriptionBilling: what the .cfg files cannot write. *)
EXTENDS SubscriptionBilling, TLC

\* Processes are interchangeable.
ProcSymmetry == Permutations(Procs)
=============================================================================
