------------------------------- MODULE MCOtp -------------------------------
(***************************************************************************)
(* Small instances of Otp for TLC.                                         *)
(***************************************************************************)
EXTENDS Otp, TLC

(* Handlers are interchangeable.                                           *)
Interchangeable == Permutations(Handlers)

=============================================================================
