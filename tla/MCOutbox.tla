------------------------------ MODULE MCOutbox -----------------------------
(***************************************************************************)
(* Small instances of Outbox for TLC.  Ticks are interchangeable, but TLC  *)
(* takes no symmetry with a liveness property.                             *)
(***************************************************************************)
EXTENDS Outbox

=============================================================================
