----------------------------- MODULE MCStoreTxn -----------------------------
(***************************************************************************)
(* Three receipts let a transaction fail, a second one run with a counter  *)
(* that is off by one, and a third nest in it; three failures and two      *)
(* deaths come in any order.                                               *)
(***************************************************************************)
EXTENDS StoreTxn
=============================================================================
