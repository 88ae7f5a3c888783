----------------------------- MODULE MCPinState -----------------------------
(***************************************************************************)
(* Instances of PinState for TLC.                                          *)
(***************************************************************************)
EXTENDS PinState, TLC

CONSTANTS x1, x2, s1

\* Every shard references xorb x1; x2 is there to be found 'uploading'.
RefsOf == [s \in Shards |-> {x1}]

\* Requests and Sia ids are interchangeable.
Symmetry == Permutations(Handlers) \cup Permutations(ObjIds)

=============================================================================
