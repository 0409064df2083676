---------------------------- MODULE MCEmployees ----------------------------
(***************************************************************************)
(* Small instances of Employees for TLC.                                   *)
(***************************************************************************)
EXTENDS Employees, TLC

(* Requests are interchangeable.  Only for runs without liveness.          *)
Interchangeable == Permutations(Requests)

=============================================================================
