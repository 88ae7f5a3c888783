---------------------------- MODULE MCXorbCache ----------------------------
(***************************************************************************)
(* An instance of XorbCache for TLC.                                       *)
(***************************************************************************)
EXTENDS XorbCache

\* One byte stands for the size of a xorb.
UnitSize == [h \in Hashes |-> 1]

=============================================================================
