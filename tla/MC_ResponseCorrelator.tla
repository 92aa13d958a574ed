------------------------ MODULE MC_ResponseCorrelator ------------------------
(* Instantiates ResponseCorrelator for TLC.  Two calls per lifetime within *)
(* a two-second clock window make equal reqIds possible whenever the       *)
(* counter-plus-time scheme is broken; rc is either success or a refusal. *)
EXTENDS ResponseCorrelator

MC_RCs == {200, 403}
=============================================================================
