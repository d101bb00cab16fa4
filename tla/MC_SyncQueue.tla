---------------------------- MODULE MC_SyncQueue ----------------------------
(* One document, edited twice: its second edit joins the row of the first or *)
(* gets a row of its own.                                                    *)
EXTENDS SyncQueue, TLC

CONSTANT invoice

MCEdits == invoice :> 2
=============================================================================
