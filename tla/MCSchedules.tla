---------------------------- MODULE MCSchedules ----------------------------
(***************************************************************************)
(* Small instances of Schedules for TLC.                                   *)
(***************************************************************************)
EXTENDS Schedules, TLC

(* Handlers are interchangeable.                                           *)
Interchangeable == Permutations(Handlers)

=============================================================================
