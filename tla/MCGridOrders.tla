---------------------------- MODULE MCGridOrders ----------------------------
(***************************************************************************)
(* Small instances of GridOrders for TLC.                                  *)
(***************************************************************************)
EXTENDS GridOrders
=============================================================================
