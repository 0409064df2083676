------------------------------ MODULE MCRoles ------------------------------
(***************************************************************************)
(* Small instances of Roles for TLC.                                       *)
(***************************************************************************)
EXTENDS Roles, TLC

(* Handlers are interchangeable.                                           *)
Interchangeable == Permutations(Handlers)

=============================================================================
