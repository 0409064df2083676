--------------------------- MODULE MCRegistration --------------------------
(***************************************************************************)
(* Small instances of Registration for TLC.                                *)
(***************************************************************************)
EXTENDS Registration, TLC

(* Handlers, attempts, mobile numbers and device ids are interchangeable.  *)
(* Only for runs without liveness properties.                              *)
Interchangeable ==
    Permutations(Handlers) \cup Permutations(Attempts)
        \cup Permutations(Mobiles) \cup Permutations(Devices)

=============================================================================
