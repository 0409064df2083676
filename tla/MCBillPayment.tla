--------------------------- MODULE MCBillPayment ---------------------------
(***************************************************************************)
(* Small instances of BillPayment for TLC.                                 *)
(***************************************************************************)
EXTENDS BillPayment, TLC

(* Requests, keys and actors are interchangeable.  Bills are not (MockBills *)
(* tells them apart).  Only for runs without liveness properties.          *)
RequestSymmetry == Permutations(Requests)

=============================================================================
