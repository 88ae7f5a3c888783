---------------------------- MODULE MCRateLimit ----------------------------
(***************************************************************************)
(* Instances of RateLimit for TLC: the cfgs give every constant a value.   *)
(***************************************************************************)
EXTENDS RateLimit

=============================================================================
