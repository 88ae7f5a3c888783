----------------------------- MODULE ObjectLife -----------------------------
(***************************************************************************)
(* What the write path promises its readers (the reconstruction endpoints, *)
(* xet_file_serve and the gateway): the life of a xorb or shard row as a   *)
(* reader sees it, its pin_state and its sia_object_id, without handlers,  *)
(* sweeps, attempts or stored bodies.  PinState implements it.             *)
(*                                                                         *)
(* One statement may move several rows (revive_orphaned_xorbs does), so a  *)
(* step moves every row on its own.                                        *)
(***************************************************************************)

CONSTANTS
    Items,    \* xorbs and shards
    ObjIds,   \* Sia object ids
    NULL

VARIABLES
    life,     \* life[i]: pin_state of the row, "absent" without one
    id,       \* id[i]: its sia_object_id
    content   \* content[o]: the item whose bytes Sia holds under id o

vars == <<life, id, content>>

Init ==
    /\ life \in [Items -> {"absent", "uploading"}]
    /\ id = [i \in Items |-> NULL]
    /\ content = [o \in ObjIds |-> NULL]

Kept(i) == life'[i] = life[i] /\ id'[i] = id[i]

\* An upload creates the row.
Inserted(i) ==
    /\ life[i] = "absent"
    /\ life'[i] = "pinning"
    /\ id'[i] = NULL

\* The row becomes readable, under an id that holds its bytes.
Pinned(i) ==
    /\ life[i] # "absent"
    /\ life'[i] = "pinned"
    /\ id'[i] \in ObjIds
    /\ content'[id'[i]] = i

\* Back to the reconciler: the upload request reports a failure, or a shard
\* revives an orphan.  A known id is kept.
Requeued(i) ==
    /\ life[i] # "absent"
    /\ life'[i] = "pinning"
    /\ id'[i] = id[i]

\* Given up.  A known id is kept.
GivenUp(i) ==
    /\ life[i] \notin {"absent", "orphaned"}
    /\ life'[i] = "orphaned"
    /\ id'[i] = id[i]

\* The bytes under an id that some row stores never change.
StoredIdsAreStable ==
    \A o \in ObjIds : content'[o] = content[o] \/ \A i \in Items : id[i] # o

Next ==
    /\ \A i \in Items :
          Kept(i) \/ Inserted(i) \/ Pinned(i) \/ Requeued(i) \/ GivenUp(i)
    /\ StoredIdsAreStable

Spec == Init /\ [][Next]_vars

=============================================================================
