---------------------------- MODULE MCSignedUrls ----------------------------
(***************************************************************************)
(* Instances of SignedUrls for TLC: the cfgs give every constant a value.  *)
(***************************************************************************)
EXTENDS SignedUrls

=============================================================================
