--------------------------- MODULE PinStateProofs ---------------------------
(***************************************************************************)
(* TLAPS proofs about PinState, for every set of xorbs, shards, requests   *)
(* and object ids and every MAX_PIN_ATTEMPTS and RECONCILER_BATCH.         *)
(***************************************************************************)
EXTENDS PinState, TLAPS

-----------------------------------------------------------------------------
(***************************************************************************)
(* What the UPDATE statements return.                                      *)
(***************************************************************************)

\* Every statement maps a row to a row: the states it writes are states of
\* the enum and its counter stays a natural number.
LEMMA RowOperators ==
    ASSUME NEW r \in Row
    PROVE  /\ AbsentRow \in Row /\ SeededRow \in Row /\ PendingRow \in Row
           /\ \A st \in PinStates, id \in ObjIds \cup {NULL} :
                 set_pin_state(r, st, id) \in Row
           /\ \A id \in ObjIds \cup {NULL} : set_pinned(r, id) \in Row
           /\ orphan(r) \in Row
           /\ \A n \in Nat, t \in BOOLEAN : bump_attempt(r, n, t) \in Row
           /\ revive(r) \in Row
  <1>1. r.state \in PinStates \cup {"absent"} /\ r.sia \in ObjIds \cup {NULL}
        /\ r.attempts \in Nat /\ r.last \in {"null", "stale", "recent"}
    BY DEF Row, Columns
  <1>2. AbsentRow \in Row /\ SeededRow \in Row /\ PendingRow \in Row
    BY DEF Row, Columns, AbsentRow, SeededRow, PendingRow, PinStates
  <1>3. ASSUME NEW st \in PinStates, NEW id \in ObjIds \cup {NULL}
        PROVE  set_pin_state(r, st, id) \in Row
    BY <1>1 DEF set_pin_state, Coalesce, Row, Columns
  <1>4. ASSUME NEW id \in ObjIds \cup {NULL}
        PROVE  set_pinned(r, id) \in Row
    BY <1>1 DEF set_pinned, Coalesce, Row, Columns, PinStates
  <1>5. orphan(r) \in Row
    BY <1>1 DEF orphan, Row, Columns, PinStates
  <1>6. ASSUME NEW n \in Nat, NEW t \in BOOLEAN
        PROVE  bump_attempt(r, n, t) \in Row
    <2>1. [r EXCEPT !.last = "recent"] \in Row
      BY <1>1 DEF Row, Columns
    <2>2. [r EXCEPT !.attempts = @ + 1, !.last = "recent"] \in Row
      <3> DEFINE r1 == [r EXCEPT !.attempts = @ + 1]
      <3>1. r1 \in Columns
        BY <1>1 DEF Row, Columns
      <3> HIDE DEF r1
      <3>2. [r1 EXCEPT !.last = "recent"] \in Row
        BY <3>1 DEF Row, Columns
      <3> QED BY <3>2 DEF r1
    <2> QED BY <2>1, <2>2, <1>5 DEF bump_attempt
  <1>7. revive(r) \in Row
    BY <1>1 DEF revive, Row, Columns, PinStates
  <1> QED BY <1>2, <1>3, <1>4, <1>5, <1>6, <1>7

\* reconcile_xorb_row and reconcile_shard_row always choose an operation.
LEMMA RowOpChooses ==
    ASSUME NEW i
    PROVE  RowOp(i) \in {"orphan", "pin_only", "upload_and_pin", "lost"}
  BY DEF RowOp

-----------------------------------------------------------------------------
(***************************************************************************)
(* Type correctness.                                                       *)
(***************************************************************************)

\* The tables at boot, and no request or sweep under way, are well typed.
LEMMA TypeInit == Init => TypeOK
  <1>1. AbsentRow \in Row /\ SeededRow \in Row
    BY DEF Row, Columns, AbsentRow, SeededRow, PinStates
  <1> SUFFICES ASSUME Init PROVE TypeOK
    OBVIOUS
  <1>2. rows \in [Items -> Row] /\ snap \in [Items -> Row]
    BY <1>1 DEF Init, NoSnap
  <1>3. /\ up \in [Handlers -> [pc   : {"idle", "body", "sia", "check", "commit"},
                               item : Items \cup {NULL}]]
        /\ \A h \in Handlers : up[h].pc = "idle"
    BY DEF Init, IdleHandler
  <1> QED
    BY <1>2, <1>3 DEF Init, TypeOK, IdleSweep

\* A row operation on the row under sweep, followed by NextRow.
LEMMA TypeNextRow ==
    ASSUME TypeOK, NextRow, sweep.row \in Items,
           rows' \in [Items -> Row],
           objects' \in [ObjIds -> Items \cup {NULL}],
           worst' \in [Items -> {"none", "timeout", "permanent"}]
    PROVE  TypeOK'
  <1>1. snap' \in [Items -> Row]
    BY RowOperators DEF NextRow, TypeOK
  <1>2. /\ sweep' \in [phase : {"idle", "xorbs", "shards"},
                      row   : Items \cup {NULL},
                      op    : {"none", "orphan", "pin_only",
                               "upload_and_pin", "lost"}]
        /\ sweep'.row = NULL /\ sweep'.op = "none"
    BY DEF NextRow, TypeOK
  <1> QED
    BY <1>1, <1>2 DEF NextRow, TypeOK

\* The failure history keeps its type whichever cause Worsen records.
LEMMA WorstType ==
    ASSUME TypeOK, sweep.row \in Items, NEW cause \in {"timeout", "permanent"},
           Worsen(cause)
    PROVE  worst' \in [Items -> {"none", "timeout", "permanent"}]
  BY DEF TypeOK, Worsen

\* No statement of a handler or of the reconciler leaves the types.
LEMMA TypeStep == TypeOK /\ [Next]_vars => TypeOK'
  <1> SUFFICES ASSUME TypeOK, [Next]_vars PROVE TypeOK'
    OBVIOUS
  <1> USE ItemsAssumption, NullAssumption
  <1>r. \A i \in Items : rows[i] \in Row /\ snap[i] \in Row
    BY DEF TypeOK
  <1>1. ASSUME NEW h \in Handlers, NEW x \in Xorbs, InsertXorb(h, x)
        PROVE  TypeOK'
    <2>1. PendingRow \in Row
      BY DEF Row, Columns, PendingRow, PinStates
    <2> QED BY <1>1, <2>1 DEF InsertXorb, TypeOK, Items
  <1>2. ASSUME NEW h \in Handlers, NEW x \in Xorbs, DedupXorb(h, x)
        PROVE  TypeOK'
    BY <1>2 DEF DedupXorb, TypeOK, Items
  <1>3. ASSUME NEW h \in Handlers, NEW s \in Shards, ReviveOrphans(h, s)
        PROVE  TypeOK'
    <2>1. rows' \in [Items -> Row]
      BY <1>3, <1>r, RowOperators DEF ReviveOrphans, TypeOK
    <2>2. worst' \in [Items -> {"none", "timeout", "permanent"}]
      BY <1>3 DEF ReviveOrphans, TypeOK
    <2> QED BY <1>3, <2>1, <2>2 DEF ReviveOrphans, TypeOK, Items
  <1>4. ASSUME NEW h \in Handlers, StoreBody(h)
        PROVE  TypeOK'
    BY <1>4 DEF StoreBody, TypeOK, Items
  <1>5. ASSUME NEW h \in Handlers, SiaAccepts(h)
        PROVE  TypeOK'
    <2>1. up[h].item \in Items
      BY <1>5 DEF SiaAccepts, TypeOK
    <2>2. PICK o \in ObjIds :
            /\ objects' = [objects EXCEPT ![o] = up[h].item]
            /\ rows' = [rows EXCEPT ![up[h].item] = set_pin_state(@, "pinned", o)]
      BY <1>5 DEF SiaAccepts, upload_and_pin
    <2>3. set_pin_state(rows[up[h].item], "pinned", o) \in Row
      BY <2>1, <1>r, RowOperators DEF PinStates
    <2>4. rows' \in [Items -> Row] /\ objects' \in [ObjIds -> Items \cup {NULL}]
      BY <2>1, <2>2, <2>3 DEF TypeOK
    <2> QED BY <1>5, <2>1, <2>4 DEF SiaAccepts, TypeOK, IdleHandler
  <1>6. ASSUME NEW h \in Handlers, SiaFails(h)
        PROVE  TypeOK'
    <2>1. up[h].item \in Items
      BY <1>6 DEF SiaFails, TypeOK
    <2>2. set_pin_state(rows[up[h].item], "pinning", NULL) \in Row
      BY <2>1, <1>r, RowOperators DEF PinStates
    <2>3. rows' \in [Items -> Row]
      BY <1>6, <2>1, <2>2 DEF SiaFails, TypeOK
    <2> QED BY <1>6, <2>1, <2>3 DEF SiaFails, TypeOK, IdleHandler
  <1>7. ASSUME NEW h \in Handlers, CrossCheck(h)
        PROVE  TypeOK'
    BY <1>7 DEF CrossCheck, TypeOK, IdleHandler
  <1>8. ASSUME NEW h \in Handlers, CommitShard(h)
        PROVE  TypeOK'
    <2>1. PendingRow \in Row
      BY DEF Row, Columns, PendingRow, PinStates
    <2> QED BY <1>8, <2>1 DEF CommitShard, TypeOK, Items
  <1>9. ASSUME NEW h \in Handlers, DedupShard(h)
        PROVE  TypeOK'
    BY <1>9 DEF DedupShard, TypeOK, IdleHandler, Items
  <1>10. ASSUME NEW h \in Handlers, AbortUpload(h)
         PROVE  TypeOK'
    BY <1>10 DEF AbortUpload, TypeOK, IdleHandler
  <1>11. ASSUME NEW table \in {Xorbs, Shards}, NEW phase \in {"xorbs", "shards"},
                FetchStuck(table, phase)
         PROVE  TypeOK'
    <2>1. queue' \subseteq Items
      BY <1>11 DEF FetchStuck, Batches, Items
    <2>2. snap' \in [Items -> Row]
      <3>1. PICK B : snap' = [i \in Items |-> IF i \in B THEN rows[i] ELSE AbsentRow]
        BY <1>11 DEF FetchStuck
      <3>2. AbsentRow \in Row
        BY DEF Row, Columns, AbsentRow
      <3> QED BY <3>1, <3>2, <1>r
    <2> QED BY <1>11, <2>1, <2>2 DEF FetchStuck, TypeOK
  <1>12. ASSUME EndSweep PROVE TypeOK'
    BY <1>12 DEF EndSweep, TypeOK, IdleSweep
  <1>13. ASSUME TakeRow PROVE TypeOK'
    <2>1. PICK i \in queue : sweep' = [sweep EXCEPT !.row = i, !.op = RowOp(i)]
      BY <1>13 DEF TakeRow
    <2>2. i \in Items /\ RowOp(i) \in {"orphan", "pin_only", "upload_and_pin", "lost"}
      BY RowOpChooses DEF TypeOK
    <2>3. /\ sweep' \in [phase : {"idle", "xorbs", "shards"},
                         row   : Items \cup {NULL},
                         op    : {"none", "orphan", "pin_only",
                                  "upload_and_pin", "lost"}]
          /\ sweep'.row = i /\ sweep'.op # "none"
      BY <2>1, <2>2 DEF TypeOK
    <2> QED BY <1>13, <2>1, <2>3 DEF TakeRow, TypeOK
  <1>14. sweep.op # "none" => sweep.row \in Items
    BY DEF TypeOK
  <1>15. ASSUME OrphanRow PROVE TypeOK'
    <2>1. rows' \in [Items -> Row]
      BY <1>15, <1>14, <1>r, RowOperators DEF OrphanRow, TypeOK
    <2> QED BY <1>15, <1>14, <2>1, TypeNextRow, WorstType DEF OrphanRow, TypeOK
  <1>16. ASSUME RepinRow PROVE TypeOK'
    <2>1. snap[sweep.row].sia \in ObjIds \cup {NULL}
      BY <1>16, <1>14, <1>r DEF RepinRow, Row, Columns
    <2>2. rows' \in [Items -> Row]
      BY <1>16, <1>14, <1>r, <2>1, RowOperators DEF RepinRow, TypeOK
    <2> QED BY <1>16, <1>14, <2>2, TypeNextRow DEF RepinRow, TypeOK
  <1>17. ASSUME ReuploadRow PROVE TypeOK'
    <2>1. PICK o \in ObjIds :
            /\ objects' = [objects EXCEPT ![o] = sweep.row]
            /\ rows' = [rows EXCEPT ![sweep.row] = set_pinned(@, o)]
      BY <1>17 DEF ReuploadRow, upload_and_pin
    <2>2. sweep.row \in Items /\ set_pinned(rows[sweep.row], o) \in Row
      BY <1>17, <1>14, <1>r, RowOperators DEF ReuploadRow
    <2>3. rows' \in [Items -> Row] /\ objects' \in [ObjIds -> Items \cup {NULL}]
      BY <2>1, <2>2 DEF TypeOK
    <2> QED BY <1>17, <2>2, <2>3, TypeNextRow DEF ReuploadRow, TypeOK
  <1>18. ASSUME FailRow PROVE TypeOK'
    <2>1. sweep.row \in Items /\ snap[sweep.row].attempts \in Nat
      BY <1>18, <1>14, <1>r DEF FailRow, Row, Columns
    <2>2. rows' \in [Items -> Row]
      <3>1. PICK outcome \in SiaFailure :
              rows' = [rows EXCEPT ![sweep.row] =
                         bump_attempt(@, snap[sweep.row].attempts,
                                      is_transient(sweep.row, outcome))]
        BY <1>18 DEF FailRow
      <3>2. is_transient(sweep.row, outcome) \in BOOLEAN
        BY DEF is_transient
      <3>3. bump_attempt(rows[sweep.row], snap[sweep.row].attempts,
                         is_transient(sweep.row, outcome)) \in Row
        BY <2>1, <3>2, <1>r, RowOperators
      <3> QED BY <2>1, <3>1, <3>3 DEF TypeOK
    <2>3. worst' \in [Items -> {"none", "timeout", "permanent"}]
      BY <1>18, <2>1, WorstType DEF FailRow, TypeOK, SiaFailure
    <2> QED BY <1>18, <2>1, <2>2, <2>3, TypeNextRow DEF FailRow, TypeOK
  <1>19. ASSUME LostRow PROVE TypeOK'
    <2>1. sweep.row \in Items /\ snap[sweep.row].attempts \in Nat
      BY <1>19, <1>14, <1>r DEF LostRow, Row, Columns
    <2>2. rows' \in [Items -> Row]
      BY <1>19, <2>1, <1>r, RowOperators DEF LostRow, TypeOK
    <2> QED BY <1>19, <2>1, <2>2, TypeNextRow, WorstType DEF LostRow, TypeOK
  <1>20. ASSUME SkipRow PROVE TypeOK'
    <2>1. sweep.row \in Items
      BY <1>20 DEF SkipRow, TypeOK
    <2> QED BY <1>20, <2>1, TypeNextRow DEF SkipRow, TypeOK
  <1>21. ASSUME NEW i \in Items, AttemptAges(i) PROVE TypeOK'
    <2>1. [rows[i] EXCEPT !.last = "stale"] \in Row
      BY <1>r DEF Row, Columns
    <2>2. rows' \in [Items -> Row]
      BY <1>21, <2>1 DEF AttemptAges, TypeOK
    <2> QED BY <1>21, <2>2 DEF AttemptAges, TypeOK
  <1>22. ASSUME Crash PROVE TypeOK'
    <2>1. snap' \in [Items -> Row]
      BY <1>22 DEF Crash, NoSnap, Row, Columns, AbsentRow
    <2> QED BY <1>22, <2>1 DEF Crash, TypeOK, IdleHandler, IdleSweep
  <1>23. ASSUME Stabilise PROVE TypeOK'
    BY <1>23 DEF Stabilise, TypeOK
  <1>24. CASE UNCHANGED vars
    BY <1>24 DEF vars, TypeOK
  <1>25. CASE Next
    <2>1. ASSUME NEW h \in Handlers, Upload(h) PROVE TypeOK'
      BY <2>1, <1>1, <1>2, <1>3, <1>4, <1>5, <1>6, <1>7, <1>8, <1>9, <1>10
         DEF Upload, Continue
    <2>2. CASE Reconcile
      BY <2>2, <1>11, <1>12, <1>13, <1>15, <1>16, <1>17, <1>18, <1>19, <1>20
         DEF Reconcile, FetchStuckXorbs, FetchStuckShards
    <2>3. CASE Environment
      BY <2>3, <1>21, <1>22, <1>23 DEF Environment
    <2> QED BY <1>25, <2>1, <2>2, <2>3 DEF Next
  <1> QED BY <1>24, <1>25

\* Every reachable state of the write path is well typed, for every instance:
\* rows hold only enum states, and a request or a sweep that is under way
\* works on an item.
THEOREM TypeCorrect == Spec => []TypeOK
  BY TypeInit, TypeStep, PTL DEF Spec

-----------------------------------------------------------------------------
(***************************************************************************)
(* The inductive invariant.  The reconciler acts on a snapshot that is     *)
(* older than the row; these parts say what of the snapshot is still true. *)
(***************************************************************************)

\* Only rows seeded at boot are ever 'uploading': no statement writes it.
OnlySeededUpload ==
    \A i \in Items :
        rows[i].state = "uploading" \/ snap[i].state = "uploading" => i \in Seeded

\* While a row waits in the batch nobody else orphans it, revives it or
\* lowers its counter.
SnapshotsLagBehind ==
    \A i \in queue :
        /\ rows[i].state \notin {"absent", "orphaned"}
        /\ snap[i].attempts <= rows[i].attempts

\* The operation the reconciler is executing is the one its snapshot calls for.
OpFollowsSnapshot ==
    /\ sweep.op = "orphan" => snap[sweep.row].state = "uploading"
    /\ sweep.op = "pin_only" => snap[sweep.row].sia # NULL

SweepInv == OnlySeededUpload /\ SnapshotsLagBehind /\ OpFollowsSnapshot

\* A request that won its insert works on a row that exists.
RequestsHoldRows ==
    \A h \in Handlers :
        up[h].pc \in {"body", "sia"} => rows[up[h].item].state # "absent"

\* What the cross-check saw still holds when the transaction runs.
CheckedRefsAreDurable ==
    \A h \in Handlers : up[h].pc = "commit" =>
        \A x \in Refs[up[h].item] : x \in bodies /\ rows[x].state # "absent"

DurableInv == RequestsHoldRows /\ CheckedRefsAreDurable /\ AcceptedShardIsDurable

\* The ids of the snapshots name their objects too, and absent rows have none.
SnapshotsNameTheirObjects ==
    \A i \in Items :
        /\ snap[i].sia # NULL => objects[snap[i].sia] = i
        /\ rows[i].state = "absent" => rows[i].sia = NULL

ObjectInv == PinnedNamesItsObject /\ SnapshotsNameTheirObjects

OrphanInv == OrphanedMeansExhausted /\ OutageNeverOrphans

IInv == TypeOK /\ SweepInv /\ DurableInv /\ ObjectInv /\ OrphanInv

-----------------------------------------------------------------------------
(***************************************************************************)
(* SweepInv.                                                               *)
(***************************************************************************)

\* Before the first sweep there is no snapshot to lag behind.
LEMMA SweepInit == Init => SweepInv
  BY NullAssumption DEF Init, SweepInv, OnlySeededUpload, SnapshotsLagBehind,
        OpFollowsSnapshot, SeededRow, AbsentRow, IdleSweep, NoSnap

\* A row of the batch is finished: its snapshot is dropped, so whatever was
\* written to it, the other rows' facts are untouched.
LEMMA SweepNextRow ==
    ASSUME TypeOK, SweepInv, NextRow, sweep.row \in queue,
           rows'[sweep.row].state = "uploading" => sweep.row \in Seeded,
           \A i \in Items : i # sweep.row => rows'[i] = rows[i]
    PROVE  SweepInv'
  <1>1. /\ queue' = queue \ {sweep.row}
        /\ \A i \in Items : snap'[i] = IF i = sweep.row THEN AbsentRow ELSE snap[i]
        /\ sweep'.op = "none"
    BY DEF NextRow, TypeOK
  <1>2. queue \subseteq Items
    BY DEF TypeOK
  <1>3. OnlySeededUpload'
    BY <1>1, <1>2 DEF OnlySeededUpload, SweepInv, AbsentRow
  <1>4. SnapshotsLagBehind'
    BY <1>1, <1>2 DEF SnapshotsLagBehind, SweepInv
  <1>5. OpFollowsSnapshot'
    BY <1>1 DEF OpFollowsSnapshot
  <1> QED BY <1>3, <1>4, <1>5 DEF SweepInv

\* A request's UPDATE keeps the row in the sweep's reach and its counter grows.
LEMMA SweepRowWrite ==
    ASSUME TypeOK, SweepInv, UNCHANGED <<queue, snap, sweep>>,
           NEW i \in Items,
           rows'[i].state \notin {"absent", "orphaned"},
           rows'[i].state = "uploading" => i \in Seeded,
           i \in queue => snap[i].attempts <= rows'[i].attempts,
           \A j \in Items : j # i => rows'[j] = rows[j]
    PROVE  SweepInv'
  <1>1. OnlySeededUpload'
    BY DEF OnlySeededUpload, SweepInv
  <1>2. SnapshotsLagBehind'
    BY DEF SnapshotsLagBehind, SweepInv, TypeOK
  <1>3. OpFollowsSnapshot'
    BY DEF OpFollowsSnapshot, SweepInv
  <1> QED BY <1>1, <1>2, <1>3 DEF SweepInv

\* Every statement keeps the snapshot of the batch within reach of the rows.
LEMMA SweepStep == TypeOK /\ SweepInv /\ [Next]_vars => SweepInv'
  <1> SUFFICES ASSUME TypeOK, SweepInv, [Next]_vars PROVE SweepInv'
    OBVIOUS
  <1> USE ItemsAssumption, NullAssumption
  <1>r. \A i \in Items : /\ rows[i] \in Row /\ snap[i] \in Row
                         /\ rows[i].attempts \in Nat /\ snap[i].attempts \in Nat
    BY DEF TypeOK, Row, Columns
  <1>s. UNCHANGED <<rows, queue, snap, sweep>> => SweepInv'
    BY DEF SweepInv, OnlySeededUpload, SnapshotsLagBehind, OpFollowsSnapshot
  <1>1. ASSUME NEW h \in Handlers, NEW x \in Xorbs, InsertXorb(h, x)
        PROVE  SweepInv'
    <2>1. x \in Items /\ x \notin queue
      BY <1>1 DEF InsertXorb, SweepInv, SnapshotsLagBehind, Items
    <2> QED BY <1>1, <2>1, SweepRowWrite DEF InsertXorb, PendingRow, TypeOK
  <1>2. ASSUME NEW h \in Handlers, NEW x \in Xorbs, DedupXorb(h, x)
        PROVE  SweepInv'
    BY <1>2, <1>s DEF DedupXorb
  <1>3. ASSUME NEW h \in Handlers, NEW s \in Shards, ReviveOrphans(h, s)
        PROVE  SweepInv'
    <2>1. \A i \in Items : rows[i].state = "orphaned"
                              => rows'[i].state = rows[i].state
                                 \/ rows'[i].state = "pinning"
      BY <1>3 DEF ReviveOrphans, revive
    <2>2. \A i \in Items : rows[i].state # "orphaned" => rows'[i] = rows[i]
      BY <1>3 DEF ReviveOrphans, revive
    <2>3. UNCHANGED <<queue, snap, sweep>>
      BY <1>3 DEF ReviveOrphans
    <2>4. OnlySeededUpload'
      BY <2>1, <2>2, <2>3 DEF SweepInv, OnlySeededUpload
    <2>5. SnapshotsLagBehind'
      BY <2>2, <2>3 DEF SweepInv, SnapshotsLagBehind, TypeOK
    <2> QED BY <2>3, <2>4, <2>5 DEF SweepInv, OpFollowsSnapshot
  <1>4. ASSUME NEW h \in Handlers, StoreBody(h)
        PROVE  SweepInv'
    BY <1>4, <1>s DEF StoreBody
  <1>5. ASSUME NEW h \in Handlers, SiaAccepts(h)
        PROVE  SweepInv'
    <2>1. up[h].item \in Items /\ UNCHANGED <<queue, snap, sweep>>
      BY <1>5 DEF SiaAccepts, TypeOK
    <2>2. PICK o \in ObjIds :
            rows' = [rows EXCEPT ![up[h].item] = set_pin_state(@, "pinned", o)]
      BY <1>5 DEF SiaAccepts, upload_and_pin
    <2>3. /\ rows'[up[h].item].state = "pinned"
          /\ rows'[up[h].item].attempts = rows[up[h].item].attempts + 1
          /\ \A j \in Items : j # up[h].item => rows'[j] = rows[j]
      BY <2>1, <2>2 DEF set_pin_state, TypeOK
    <2>4. up[h].item \in queue
             => snap[up[h].item].attempts <= rows'[up[h].item].attempts
      BY <2>1, <2>3, <1>r DEF SweepInv, SnapshotsLagBehind
    <2> QED BY <2>1, <2>3, <2>4, SweepRowWrite
  <1>6. ASSUME NEW h \in Handlers, SiaFails(h)
        PROVE  SweepInv'
    <2>1. up[h].item \in Items /\ UNCHANGED <<queue, snap, sweep>>
      BY <1>6 DEF SiaFails, TypeOK
    <2>2. CASE rows' = rows
      BY <2>1, <2>2, <1>s
    <2>3. CASE rows' = [rows EXCEPT
                          ![up[h].item] = set_pin_state(@, "pinning", NULL)]
      <3>1. /\ rows'[up[h].item].state = "pinning"
            /\ rows'[up[h].item].attempts = rows[up[h].item].attempts + 1
            /\ \A j \in Items : j # up[h].item => rows'[j] = rows[j]
        BY <2>1, <2>3 DEF set_pin_state, TypeOK
      <3>2. up[h].item \in queue
               => snap[up[h].item].attempts <= rows'[up[h].item].attempts
        BY <2>1, <3>1, <1>r DEF SweepInv, SnapshotsLagBehind
      <3> QED BY <2>1, <3>1, <3>2, SweepRowWrite
    <2> QED BY <1>6, <2>2, <2>3 DEF SiaFails
  <1>7. ASSUME NEW h \in Handlers, CrossCheck(h)
        PROVE  SweepInv'
    BY <1>7, <1>s DEF CrossCheck
  <1>8. ASSUME NEW h \in Handlers, CommitShard(h)
        PROVE  SweepInv'
    <2>1. up[h].item \in Items /\ up[h].item \notin queue
      BY <1>8 DEF CommitShard, SweepInv, SnapshotsLagBehind, TypeOK, Items
    <2> QED BY <1>8, <2>1, SweepRowWrite DEF CommitShard, PendingRow, TypeOK
  <1>9. ASSUME NEW h \in Handlers, DedupShard(h)
        PROVE  SweepInv'
    BY <1>9, <1>s DEF DedupShard
  <1>10. ASSUME NEW h \in Handlers, AbortUpload(h)
         PROVE  SweepInv'
    BY <1>10, <1>s DEF AbortUpload
  <1>11. ASSUME NEW table \in {Xorbs, Shards}, NEW phase, FetchStuck(table, phase)
         PROVE  SweepInv'
    <2>1. PICK B \in Batches(table) :
            /\ queue' = B
            /\ snap' = [i \in Items |-> IF i \in B THEN rows[i] ELSE AbsentRow]
      BY <1>11 DEF FetchStuck
    <2>2. \A i \in B : i \in Items /\ rows[i].state \in {"uploading", "pinning"}
      BY DEF Batches, Stuck, Items
    <2>3. OnlySeededUpload'
      BY <1>11, <2>1 DEF FetchStuck, SweepInv, OnlySeededUpload, AbsentRow
    <2>4. SnapshotsLagBehind'
      BY <1>11, <2>1, <2>2, <1>r DEF FetchStuck, SnapshotsLagBehind
    <2>5. OpFollowsSnapshot'
      BY <1>11 DEF FetchStuck, OpFollowsSnapshot
    <2> QED BY <2>3, <2>4, <2>5 DEF SweepInv
  <1>12. ASSUME EndSweep PROVE SweepInv'
    BY <1>12 DEF EndSweep, IdleSweep, SweepInv, OnlySeededUpload,
                 SnapshotsLagBehind, OpFollowsSnapshot
  <1>13. ASSUME TakeRow PROVE SweepInv'
    <2>1. PICK i \in queue : sweep' = [sweep EXCEPT !.row = i, !.op = RowOp(i)]
      BY <1>13 DEF TakeRow
    <2>2. sweep'.row = i /\ sweep'.op = RowOp(i)
      BY <2>1 DEF TypeOK
    <2>3. OpFollowsSnapshot'
      BY <1>13, <2>2 DEF TakeRow, OpFollowsSnapshot, RowOp
    <2> QED BY <1>13, <2>3 DEF TakeRow, SweepInv, OnlySeededUpload,
                               SnapshotsLagBehind
  <1>14. sweep.op # "none" => sweep.row \in queue /\ sweep.row \in Items
    BY DEF TypeOK
  <1>15. ASSUME OrphanRow PROVE SweepInv'
    BY <1>15, <1>14, SweepNextRow DEF OrphanRow, orphan, TypeOK
  <1>16. ASSUME NEW id, sweep.op # "none", NextRow,
                rows' = [rows EXCEPT ![sweep.row] = set_pinned(@, id)]
         PROVE  SweepInv'
    BY <1>16, <1>14, SweepNextRow DEF set_pinned, TypeOK
  <1>17. ASSUME RepinRow PROVE SweepInv'
    BY <1>17, <1>16 DEF RepinRow
  <1>18. ASSUME ReuploadRow PROVE SweepInv'
    BY <1>18, <1>16 DEF ReuploadRow
  <1>19. ASSUME NEW t, sweep.op # "none", NextRow,
                rows' = [rows EXCEPT ![sweep.row] =
                           bump_attempt(@, snap[sweep.row].attempts, t)]
         PROVE  SweepInv'
    <2>1. rows'[sweep.row].state \in {rows[sweep.row].state, "orphaned"}
      BY <1>19, <1>14, <1>r DEF bump_attempt, orphan, TypeOK, Row, Columns
    <2>2. \A i \in Items : i # sweep.row => rows'[i] = rows[i]
      BY <1>19 DEF TypeOK
    <2> QED BY <1>19, <1>14, <2>1, <2>2, SweepNextRow
            DEF SweepInv, OnlySeededUpload
  <1>20. ASSUME FailRow PROVE SweepInv'
    BY <1>20, <1>19 DEF FailRow
  <1>21. ASSUME LostRow PROVE SweepInv'
    BY <1>21, <1>19 DEF LostRow
  <1>22. ASSUME SkipRow PROVE SweepInv'
    <2>1. sweep.row \in queue
      BY <1>22 DEF SkipRow, TypeOK
    <2> QED BY <1>22, <2>1, SweepNextRow
            DEF SkipRow, TypeOK, SweepInv, OnlySeededUpload
  <1>23. ASSUME NEW i \in Items, AttemptAges(i) PROVE SweepInv'
    <2>1. \A j \in Items : /\ rows'[j].state = rows[j].state
                           /\ rows'[j].attempts = rows[j].attempts
      BY <1>23, <1>r DEF AttemptAges, TypeOK, Row, Columns
    <2> QED BY <1>23, <2>1 DEF AttemptAges, TypeOK, SweepInv, OnlySeededUpload,
                               SnapshotsLagBehind, OpFollowsSnapshot
  <1>24. ASSUME Crash PROVE SweepInv'
    BY <1>24 DEF Crash, IdleSweep, NoSnap, AbsentRow, SweepInv, OnlySeededUpload,
                 SnapshotsLagBehind, OpFollowsSnapshot
  <1>25. ASSUME Stabilise PROVE SweepInv'
    BY <1>25, <1>s DEF Stabilise
  <1>26. CASE UNCHANGED vars
    BY <1>26, <1>s DEF vars
  <1>27. CASE Next
    <2>1. ASSUME NEW h \in Handlers, Upload(h) PROVE SweepInv'
      BY <2>1, <1>1, <1>2, <1>3, <1>4, <1>5, <1>6, <1>7, <1>8, <1>9, <1>10
         DEF Upload, Continue
    <2>2. CASE Reconcile
      BY <2>2, <1>11, <1>12, <1>13, <1>15, <1>17, <1>18, <1>20, <1>21, <1>22
         DEF Reconcile, FetchStuckXorbs, FetchStuckShards
    <2>3. CASE Environment
      BY <2>3, <1>23, <1>24, <1>25 DEF Environment
    <2> QED BY <1>27, <2>1, <2>2, <2>3 DEF Next
  <1> QED BY <1>26, <1>27

-----------------------------------------------------------------------------
(***************************************************************************)
(* DurableInv.                                                             *)
(***************************************************************************)

\* At boot no request holds a row and no shard is accepted.
LEMMA DurableInit == Init => DurableInv
  BY ItemsAssumption
     DEF Init, DurableInv, RequestsHoldRows, CheckedRefsAreDurable,
         AcceptedShardIsDurable, IdleHandler, AbsentRow, Items

\* A step that inserts no row, deletes no body and advances no request to
\* its transaction.
LEMMA DurableFrame ==
    ASSUME TypeOK, DurableInv,
           bodies \subseteq bodies',
           \A i \in Items : rows'[i].state = "absent" <=> rows[i].state = "absent",
           \A h \in Handlers :
              \/ up'[h] = up[h]
              \/ up'[h].pc \in {"idle", "check"}
              \/ up[h].pc = "body" /\ up'[h].pc = "sia" /\ up'[h].item = up[h].item
    PROVE  DurableInv'
  <1> USE ItemsAssumption
  <1>1. RequestsHoldRows'
    BY DEF DurableInv, RequestsHoldRows, TypeOK, Items
  <1>2. CheckedRefsAreDurable'
    BY DEF DurableInv, CheckedRefsAreDurable, TypeOK, Items
  <1>3. AcceptedShardIsDurable'
    BY DEF DurableInv, AcceptedShardIsDurable, TypeOK, Items
  <1> QED BY <1>1, <1>2, <1>3 DEF DurableInv

\* A step that inserts the row of item i for request h.
LEMMA DurableInsert ==
    ASSUME TypeOK, DurableInv, NEW h \in Handlers, NEW i \in Items,
           rows[i].state = "absent", bodies' = bodies,
           i \in Shards \ Seeded =>
              \A x \in Refs[i] : x \in bodies /\ rows[x].state # "absent",
           rows' = [rows EXCEPT ![i] = PendingRow],
           up'[h].item = i, up'[h].pc \in {"body", "sia"},
           \A g \in Handlers : g # h => up'[g] = up[g]
    PROVE  DurableInv'
  <1> USE ItemsAssumption
  <1>1. \A j \in Items : rows[j].state # "absent" => rows'[j].state # "absent"
    BY DEF TypeOK, PendingRow
  <1>2. rows'[i].state # "absent"
    BY DEF TypeOK, PendingRow
  <1>3. \A j \in Items : j # i => rows'[j] = rows[j]
    BY DEF TypeOK
  <1>4. RequestsHoldRows'
    BY <1>1, <1>2 DEF DurableInv, RequestsHoldRows, TypeOK, Items
  <1>5. CheckedRefsAreDurable'
    BY <1>1 DEF DurableInv, CheckedRefsAreDurable, TypeOK, Items
  <1>6. AcceptedShardIsDurable'
    BY <1>1, <1>3 DEF DurableInv, AcceptedShardIsDurable, TypeOK, Items
  <1> QED BY <1>4, <1>5, <1>6 DEF DurableInv

\* No statement that runs between upload_shard's cross-check and its
\* transaction undoes what the check saw.
LEMMA DurableStep == TypeOK /\ SweepInv /\ DurableInv /\ [Next]_vars => DurableInv'
  <1> SUFFICES ASSUME TypeOK, SweepInv, DurableInv, [Next]_vars PROVE DurableInv'
    OBVIOUS
  <1> USE ItemsAssumption, NullAssumption
  <1>r. \A i \in Items : rows[i] \in Row
    BY DEF TypeOK
  <1>s. UNCHANGED <<rows, bodies, up>> => DurableInv'
    BY DurableFrame
  <1>1. ASSUME NEW h \in Handlers, NEW x \in Xorbs, InsertXorb(h, x)
        PROVE  DurableInv'
    BY <1>1, DurableInsert DEF InsertXorb, TypeOK, Items
  <1>2. ASSUME NEW h \in Handlers, NEW x \in Xorbs, DedupXorb(h, x)
        PROVE  DurableInv'
    BY <1>2, <1>s DEF DedupXorb
  <1>3. ASSUME NEW h \in Handlers, NEW s \in Shards, ReviveOrphans(h, s)
        PROVE  DurableInv'
    <2>1. \A i \in Items : rows'[i].state = "absent" <=> rows[i].state = "absent"
      BY <1>3 DEF ReviveOrphans, revive
    <2> QED BY <1>3, <2>1, DurableFrame DEF ReviveOrphans, TypeOK
  <1>4. ASSUME NEW h \in Handlers, StoreBody(h)
        PROVE  DurableInv'
    BY <1>4, DurableFrame DEF StoreBody, TypeOK
  <1>5. ASSUME NEW h \in Handlers, up[h].pc = "sia", bodies' = bodies,
               up' = [up EXCEPT ![h] = IdleHandler],
               NEW st \in {"pinning", "pinned"}, NEW id,
               rows' = [rows EXCEPT ![up[h].item] = set_pin_state(@, st, id)]
        PROVE  DurableInv'
    <2>1. up[h].item \in Items /\ rows[up[h].item].state # "absent"
      BY <1>5 DEF TypeOK, DurableInv, RequestsHoldRows
    <2>2. \A i \in Items : rows'[i].state = "absent" <=> rows[i].state = "absent"
      BY <1>5, <2>1 DEF set_pin_state, TypeOK
    <2> QED BY <1>5, <2>2, DurableFrame DEF TypeOK, IdleHandler
  <1>6. ASSUME NEW h \in Handlers, SiaAccepts(h)
        PROVE  DurableInv'
    BY <1>6, <1>5 DEF SiaAccepts
  <1>7. ASSUME NEW h \in Handlers, SiaFails(h)
        PROVE  DurableInv'
    <2>1. CASE rows' = rows
      BY <1>7, <2>1, DurableFrame DEF SiaFails, TypeOK, IdleHandler
    <2>2. CASE rows' = [rows EXCEPT
                          ![up[h].item] = set_pin_state(@, "pinning", NULL)]
      BY <1>7, <2>2, <1>5 DEF SiaFails
    <2> QED BY <1>7, <2>1, <2>2 DEF SiaFails
  <1>8. ASSUME NEW h \in Handlers, CrossCheck(h)
        PROVE  DurableInv'
    <2>1. CASE Refs[up[h].item] \subseteq which_xorbs_are_pinned(Refs[up[h].item])
      <3>1. \A x \in Refs[up[h].item] : x \in bodies /\ rows[x].state # "absent"
        BY <2>1 DEF which_xorbs_are_pinned
      <3>2. up' = [up EXCEPT ![h] = [pc |-> "commit", item |-> up[h].item]]
        BY <1>8, <2>1 DEF CrossCheck
      <3>3. UNCHANGED <<rows, bodies>>
        BY <1>8 DEF CrossCheck
      <3>4. RequestsHoldRows'
        BY <3>2, <3>3 DEF DurableInv, RequestsHoldRows, TypeOK
      <3>5. CheckedRefsAreDurable'
        BY <3>1, <3>2, <3>3 DEF DurableInv, CheckedRefsAreDurable, TypeOK
      <3>6. AcceptedShardIsDurable'
        BY <3>3 DEF DurableInv, AcceptedShardIsDurable
      <3> QED BY <3>4, <3>5, <3>6 DEF DurableInv
    <2>2. CASE ~(Refs[up[h].item] \subseteq
                   which_xorbs_are_pinned(Refs[up[h].item]))
      <3>1. up' = [up EXCEPT ![h] = IdleHandler] /\ UNCHANGED <<rows, bodies>>
        BY <1>8, <2>2 DEF CrossCheck
      <3> QED BY <3>1, DurableFrame DEF TypeOK, IdleHandler
    <2> QED BY <2>1, <2>2
  <1>9. ASSUME NEW h \in Handlers, CommitShard(h)
        PROVE  DurableInv'
    <2>1. up[h].item \in Items
      BY <1>9 DEF CommitShard, TypeOK, Items
    <2>2. up'[h].item = up[h].item /\ up'[h].pc = "sia"
          /\ \A g \in Handlers : g # h => up'[g] = up[g]
      BY <1>9 DEF CommitShard, TypeOK
    <2> QED BY <1>9, <2>1, <2>2, DurableInsert
            DEF CommitShard, DurableInv, CheckedRefsAreDurable
  <1>10. ASSUME NEW h \in Handlers, DedupShard(h)
         PROVE  DurableInv'
    BY <1>10, DurableFrame DEF DedupShard, TypeOK, IdleHandler
  <1>11. ASSUME NEW h \in Handlers, AbortUpload(h)
         PROVE  DurableInv'
    BY <1>11, DurableFrame DEF AbortUpload, TypeOK, IdleHandler
  <1>12. ASSUME NEW table, NEW phase, FetchStuck(table, phase)
         PROVE  DurableInv'
    BY <1>12, <1>s DEF FetchStuck
  <1>13. ASSUME EndSweep \/ TakeRow \/ SkipRow \/ Stabilise PROVE DurableInv'
    BY <1>13, <1>s DEF EndSweep, TakeRow, SkipRow, NextRow, Stabilise
  <1>14. ASSUME sweep.op # "none", NextRow,
                \A i \in Items : i # sweep.row => rows'[i] = rows[i],
                rows'[sweep.row].state # "absent"
         PROVE  DurableInv'
    <2>1. sweep.row \in Items /\ rows[sweep.row].state # "absent"
      BY <1>14 DEF TypeOK, SweepInv, SnapshotsLagBehind
    <2> QED BY <1>14, <2>1, DurableFrame DEF NextRow
  <1>15. sweep.op # "none" =>
            sweep.row \in Items /\ rows[sweep.row].state # "absent"
    BY DEF TypeOK, SweepInv, SnapshotsLagBehind
  <1>16. ASSUME OrphanRow PROVE DurableInv'
    BY <1>16, <1>14, <1>15 DEF OrphanRow, orphan, TypeOK
  <1>17. ASSUME RepinRow PROVE DurableInv'
    BY <1>17, <1>14, <1>15 DEF RepinRow, set_pinned, TypeOK
  <1>18. ASSUME ReuploadRow PROVE DurableInv'
    BY <1>18, <1>14, <1>15 DEF ReuploadRow, set_pinned, TypeOK
  <1>19. ASSUME NEW t, sweep.op # "none", NextRow,
                rows' = [rows EXCEPT ![sweep.row] =
                           bump_attempt(@, snap[sweep.row].attempts, t)]
         PROVE  DurableInv'
    <2>1. rows'[sweep.row].state \in {rows[sweep.row].state, "orphaned"}
      BY <1>19, <1>15, <1>r DEF bump_attempt, orphan, TypeOK, Row, Columns
    <2> QED BY <1>19, <1>14, <1>15, <2>1 DEF TypeOK
  <1>20. ASSUME FailRow PROVE DurableInv'
    BY <1>20, <1>19 DEF FailRow
  <1>21. ASSUME LostRow PROVE DurableInv'
    BY <1>21, <1>19 DEF LostRow
  <1>22. ASSUME NEW i \in Items, AttemptAges(i) PROVE DurableInv'
    <2>1. \A j \in Items : rows'[j].state = rows[j].state
      BY <1>22, <1>r DEF AttemptAges, TypeOK, Row, Columns
    <2> QED BY <1>22, <2>1, DurableFrame DEF AttemptAges
  <1>23. ASSUME Crash PROVE DurableInv'
    BY <1>23, DurableFrame DEF Crash, IdleHandler
  <1>24. CASE UNCHANGED vars
    BY <1>24, <1>s DEF vars
  <1>25. CASE Next
    <2>1. ASSUME NEW h \in Handlers, Upload(h) PROVE DurableInv'
      BY <2>1, <1>1, <1>2, <1>3, <1>4, <1>6, <1>7, <1>8, <1>9, <1>10, <1>11
         DEF Upload, Continue
    <2>2. CASE Reconcile
      BY <2>2, <1>12, <1>13, <1>16, <1>17, <1>18, <1>20, <1>21
         DEF Reconcile, FetchStuckXorbs, FetchStuckShards
    <2>3. CASE Environment
      BY <2>3, <1>13, <1>22, <1>23 DEF Environment
    <2> QED BY <1>25, <2>1, <2>2, <2>3 DEF Next
  <1> QED BY <1>24, <1>25

-----------------------------------------------------------------------------
(***************************************************************************)
(* What one step may do to the row of item i.                              *)
(***************************************************************************)

\* Nothing, except that its last attempt ages.
RowKept(i) ==
    /\ rows'[i].state = rows[i].state
    /\ rows'[i].sia = rows[i].sia
    /\ rows'[i].attempts = rows[i].attempts
    /\ worst'[i] = worst[i]

\* A request inserts it.
RowInserted(i) == rows[i].state = "absent" /\ rows'[i] = PendingRow

\* The request that inserted it reports what Sia answered.
RowReported(i) ==
    /\ rows[i].state # "absent"
    /\ \E h \in Handlers : Uploading(h, i)
    /\ \/ rows'[i] = set_pin_state(rows[i], "pinning", NULL)
       \/ \E o \in ObjIds : /\ objects'[o] = i
                            /\ rows'[i] = set_pin_state(rows[i], "pinned", o)

\* A shard that references it revives it.
RowRevived(i) == rows[i].state = "orphaned" /\ rows'[i] = revive(rows[i])

\* The reconciler pins it.
RowPinned(i) ==
    /\ rows[i].state \notin {"absent", "orphaned"}
    /\ \E o \in ObjIds : /\ objects'[o] = i
                         /\ rows'[i] = set_pinned(rows[i], o)

\* The reconciler gives it up.
RowGivenUp(i) ==
    /\ i \in queue
    /\ rows[i].state \notin {"absent", "orphaned"}
    /\ i \in Seeded \/ rows[i].attempts + 1 >= MaxPinAttempts
    /\ rows'[i] = orphan(rows[i])
    /\ Counted(i, worst'[i])

\* The reconciler will try it again.
RowRetried(i) ==
    /\ rows[i].state \notin {"absent", "orphaned"}
    /\ rows'[i].state = rows[i].state
    /\ rows'[i].sia = rows[i].sia
    /\ rows'[i].attempts \in {rows[i].attempts, rows[i].attempts + 1}

RowStep(i) ==
    \/ RowKept(i)
    \/ RowInserted(i)
    \/ RowReported(i)
    \/ RowRevived(i)
    \/ RowPinned(i)
    \/ RowGivenUp(i)
    \/ RowRetried(i)

\* Sia objects are never overwritten: a step may only bind an id that no row
\* and no snapshot holds.
ObjectsGrow ==
    \A o \in ObjIds : objects'[o] = objects[o] \/ Unreferenced(o)

\* The batch's SELECT copies rows; nothing else enters a snapshot.
SnapshotsAreCopies ==
    \A i \in Items : snap'[i].sia \in {NULL, snap[i].sia, rows[i].sia}

\* The reconciler's failed attempt on the row under sweep.
LEMMA BumpStep ==
    ASSUME TypeOK, SweepInv, sweep.op # "none", NEW t \in BOOLEAN,
           rows' = [rows EXCEPT ![sweep.row] =
                      bump_attempt(@, snap[sweep.row].attempts, t)],
           t \/ Counted(sweep.row, worst'[sweep.row]),
           \A i \in Items : i # sweep.row => worst'[i] = worst[i]
    PROVE  \A i \in Items : RowStep(i)
  <1>1. /\ sweep.row \in Items /\ sweep.row \in queue
        /\ rows[sweep.row].state \notin {"absent", "orphaned"}
        /\ snap[sweep.row].attempts <= rows[sweep.row].attempts
    BY DEF TypeOK, SweepInv, SnapshotsLagBehind
  <1>2. /\ rows[sweep.row] \in Row
        /\ rows[sweep.row].attempts \in Nat /\ snap[sweep.row].attempts \in Nat
    BY <1>1 DEF TypeOK, Row, Columns
  <1>3. rows'[sweep.row] = bump_attempt(rows[sweep.row], snap[sweep.row].attempts, t)
    BY <1>1 DEF TypeOK
  <1>4. RowGivenUp(sweep.row) \/ RowRetried(sweep.row)
    <2>1. CASE t
      BY <1>1, <1>2, <1>3, <2>1 DEF bump_attempt, RowRetried, Row, Columns
    <2>2. CASE ~t /\ snap[sweep.row].attempts + 1 >= MaxPinAttempts
      BY <1>1, <1>2, <1>3, <2>2, BoundsAssumption DEF bump_attempt, RowGivenUp
    <2>3. CASE ~t /\ ~(snap[sweep.row].attempts + 1 >= MaxPinAttempts)
      BY <1>1, <1>2, <1>3, <2>3 DEF bump_attempt, RowRetried, Row, Columns
    <2> QED BY <2>1, <2>2, <2>3
  <1>5. \A i \in Items : i # sweep.row => RowKept(i)
    BY DEF RowKept, TypeOK
  <1> QED BY <1>4, <1>5 DEF RowStep

\* Every step does one of the seven things above to each row, although the
\* handlers and the reconciler write it from stale knowledge.
LEMMA RowSteps ==
    ASSUME TypeOK, SweepInv, DurableInv, ObjectInv, [Next]_vars
    PROVE  (\A i \in Items : RowStep(i)) /\ ObjectsGrow /\ SnapshotsAreCopies
  <1> DEFINE Goal == (\A i \in Items : RowStep(i)) /\ ObjectsGrow /\ SnapshotsAreCopies
  <1> USE ItemsAssumption, NullAssumption
  <1>r. \A i \in Items : rows[i] \in Row /\ snap[i] \in Row
    BY DEF TypeOK
  <1>o. UNCHANGED objects => ObjectsGrow
    BY DEF ObjectsGrow
  <1>c. UNCHANGED snap => SnapshotsAreCopies
    BY DEF SnapshotsAreCopies
  <1>k. UNCHANGED <<rows, worst>> => \A i \in Items : RowStep(i)
    BY DEF RowStep, RowKept
  <1>n. sweep.op # "none" =>
            /\ sweep.row \in Items /\ sweep.row \in queue
            /\ rows[sweep.row].state \notin {"absent", "orphaned"}
    BY DEF TypeOK, SweepInv, SnapshotsLagBehind
  <1>x. NextRow => SnapshotsAreCopies
    BY DEF NextRow, SnapshotsAreCopies, AbsentRow, TypeOK
  <1>1. ASSUME NEW h \in Handlers, NEW x \in Xorbs, InsertXorb(h, x)
        PROVE  Goal
    BY <1>1, <1>o, <1>c
       DEF InsertXorb, RowStep, RowKept, RowInserted, TypeOK, Items
  <1>2. ASSUME NEW h \in Handlers, NEW x \in Xorbs, DedupXorb(h, x)
        PROVE  Goal
    BY <1>2, <1>o, <1>c, <1>k DEF DedupXorb
  <1>3. ASSUME NEW h \in Handlers, NEW s \in Shards, ReviveOrphans(h, s)
        PROVE  Goal
    <2>1. ASSUME NEW i \in Items PROVE RowStep(i)
      <3>1. CASE i \in Refs[s] /\ rows[i].state = "orphaned"
        BY <1>3, <3>1 DEF ReviveOrphans, RowStep, RowRevived
      <3>2. CASE ~(i \in Refs[s] /\ rows[i].state = "orphaned")
        BY <1>3, <3>2 DEF ReviveOrphans, revive, RowStep, RowKept
      <3> QED BY <3>1, <3>2
    <2> QED BY <1>3, <2>1, <1>o, <1>c DEF ReviveOrphans
  <1>4. ASSUME NEW h \in Handlers,
               StoreBody(h) \/ CrossCheck(h) \/ DedupShard(h) \/ AbortUpload(h)
        PROVE  Goal
    BY <1>4, <1>o, <1>c, <1>k DEF StoreBody, CrossCheck, DedupShard, AbortUpload
  <1>5. ASSUME NEW h \in Handlers, SiaAccepts(h)
        PROVE  Goal
    <2>1. /\ up[h].item \in Items /\ Uploading(h, up[h].item)
          /\ rows[up[h].item].state # "absent"
      BY <1>5 DEF SiaAccepts, TypeOK, Uploading, DurableInv, RequestsHoldRows
    <2>2. PICK o \in ObjIds :
            /\ Unreferenced(o) \/ objects[o] = up[h].item
            /\ objects' = [objects EXCEPT ![o] = up[h].item]
            /\ rows' = [rows EXCEPT ![up[h].item] = set_pin_state(@, "pinned", o)]
      BY <1>5 DEF SiaAccepts, upload_and_pin
    <2>3. RowReported(up[h].item)
      BY <2>1, <2>2 DEF RowReported, TypeOK
    <2>4. \A i \in Items : i # up[h].item => RowKept(i)
      BY <1>5, <2>2 DEF SiaAccepts, RowKept, TypeOK
    <2>5. ObjectsGrow
      BY <2>2 DEF ObjectsGrow, TypeOK
    <2> QED BY <1>5, <2>3, <2>4, <2>5, <1>c DEF SiaAccepts, RowStep
  <1>6. ASSUME NEW h \in Handlers, SiaFails(h)
        PROVE  Goal
    <2>1. /\ up[h].item \in Items /\ Uploading(h, up[h].item)
          /\ rows[up[h].item].state # "absent"
      BY <1>6 DEF SiaFails, TypeOK, Uploading, DurableInv, RequestsHoldRows
    <2>2. CASE rows' = rows
      BY <1>6, <2>2, <1>o, <1>c, <1>k DEF SiaFails
    <2>3. CASE rows' = [rows EXCEPT
                          ![up[h].item] = set_pin_state(@, "pinning", NULL)]
      <3>1. RowReported(up[h].item)
        BY <2>1, <2>3 DEF RowReported, TypeOK
      <3>2. \A i \in Items : i # up[h].item => RowKept(i)
        BY <1>6, <2>3 DEF SiaFails, RowKept, TypeOK
      <3> QED BY <1>6, <3>1, <3>2, <1>o, <1>c DEF SiaFails, RowStep
    <2> QED BY <1>6, <2>2, <2>3 DEF SiaFails
  <1>7. ASSUME NEW h \in Handlers, CommitShard(h)
        PROVE  Goal
    BY <1>7, <1>o, <1>c
       DEF CommitShard, RowStep, RowKept, RowInserted, TypeOK, Items
  <1>8. ASSUME NEW table, NEW phase, FetchStuck(table, phase)
        PROVE  Goal
    BY <1>8, <1>o, <1>k DEF FetchStuck, SnapshotsAreCopies, AbsentRow
  <1>9. ASSUME EndSweep \/ TakeRow \/ Stabilise \/ UNCHANGED vars PROVE Goal
    BY <1>9, <1>o, <1>c, <1>k DEF EndSweep, TakeRow, Stabilise, vars
  <1>10. ASSUME OrphanRow PROVE Goal
    <2>1. sweep.row \in Seeded
      BY <1>10, <1>n DEF OrphanRow, SweepInv, OpFollowsSnapshot, OnlySeededUpload
    <2>2. Counted(sweep.row, worst'[sweep.row])
          /\ \A i \in Items : i # sweep.row => worst'[i] = worst[i]
      BY <1>10, <1>n DEF OrphanRow, Worsen, Counted, TypeOK
    <2>3. RowGivenUp(sweep.row)
      BY <1>10, <1>n, <2>1, <2>2 DEF OrphanRow, RowGivenUp, TypeOK
    <2>4. \A i \in Items : i # sweep.row => RowKept(i)
      BY <1>10, <2>2 DEF OrphanRow, RowKept, TypeOK
    <2> QED BY <1>10, <2>3, <2>4, <1>o, <1>x DEF OrphanRow, RowStep
  <1>11. ASSUME RepinRow PROVE Goal
    <2>1. snap[sweep.row].sia \in ObjIds /\ objects[snap[sweep.row].sia] = sweep.row
      BY <1>11, <1>n, <1>r
         DEF RepinRow, Row, Columns, SweepInv, OpFollowsSnapshot, ObjectInv,
             SnapshotsNameTheirObjects
    <2>2. RowPinned(sweep.row)
      BY <1>11, <1>n, <2>1 DEF RepinRow, RowPinned, TypeOK
    <2>3. \A i \in Items : i # sweep.row => RowKept(i)
      BY <1>11 DEF RepinRow, RowKept, TypeOK
    <2> QED BY <1>11, <2>2, <2>3, <1>o, <1>x DEF RepinRow, RowStep
  <1>12. ASSUME ReuploadRow PROVE Goal
    <2>1. PICK o \in ObjIds :
            /\ Unreferenced(o) \/ objects[o] = sweep.row
            /\ objects' = [objects EXCEPT ![o] = sweep.row]
            /\ rows' = [rows EXCEPT ![sweep.row] = set_pinned(@, o)]
      BY <1>12 DEF ReuploadRow, upload_and_pin
    <2>2. RowPinned(sweep.row)
      BY <1>12, <1>n, <2>1 DEF ReuploadRow, RowPinned, TypeOK
    <2>3. \A i \in Items : i # sweep.row => RowKept(i)
      BY <1>12, <2>1 DEF ReuploadRow, RowKept, TypeOK
    <2>4. ObjectsGrow
      BY <2>1 DEF ObjectsGrow, TypeOK
    <2> QED BY <1>12, <2>2, <2>3, <2>4, <1>x DEF ReuploadRow, RowStep
  <1>13. ASSUME FailRow PROVE Goal
    <2>1. PICK outcome \in SiaFailure :
            /\ rows' = [rows EXCEPT ![sweep.row] =
                          bump_attempt(@, snap[sweep.row].attempts,
                                       is_transient(sweep.row, outcome))]
            /\ CASE outcome = "unavailable" -> UNCHANGED worst
                 [] outcome = "timeout"     -> Worsen("timeout")
                 [] outcome = "other"       -> Worsen("permanent")
      BY <1>13 DEF FailRow
    <2>2. is_transient(sweep.row, outcome) \in BOOLEAN
      BY DEF is_transient
    <2>3. /\ \/ is_transient(sweep.row, outcome)
             \/ Counted(sweep.row, worst'[sweep.row])
          /\ \A i \in Items : i # sweep.row => worst'[i] = worst[i]
      <3>1. sweep.row \in Items
        BY <1>13, <1>n DEF FailRow
      <3>2. CASE outcome = "unavailable"
        BY <2>1, <3>2 DEF is_transient
      <3>3. CASE outcome = "timeout"
        BY <2>1, <3>1, <3>3 DEF is_transient, Counted, Worsen, TypeOK
      <3>4. CASE outcome = "other"
        BY <2>1, <3>1, <3>4 DEF Counted, Worsen, TypeOK
      <3> QED BY <3>2, <3>3, <3>4 DEF SiaFailure
    <2>4. \A i \in Items : RowStep(i)
      BY <1>13, <2>1, <2>2, <2>3, BumpStep DEF FailRow
    <2> QED BY <1>13, <2>4, <1>o, <1>x DEF FailRow
  <1>14. ASSUME LostRow PROVE Goal
    <2>1. /\ Counted(sweep.row, worst'[sweep.row])
          /\ \A i \in Items : i # sweep.row => worst'[i] = worst[i]
      BY <1>14, <1>n DEF LostRow, Worsen, Counted, TypeOK
    <2>2. \A i \in Items : RowStep(i)
      BY <1>14, <2>1, BumpStep DEF LostRow
    <2> QED BY <1>14, <2>2, <1>o, <1>x DEF LostRow
  <1>15. ASSUME SkipRow PROVE Goal
    BY <1>15, <1>k, <1>o, <1>x DEF SkipRow
  <1>16. ASSUME NEW i \in Items, AttemptAges(i) PROVE Goal
    <2>1. \A j \in Items : RowKept(j)
      BY <1>16, <1>r DEF AttemptAges, TypeOK, Row, Columns, RowKept
    <2> QED BY <1>16, <2>1, <1>o, <1>c DEF AttemptAges, RowStep
  <1>17. ASSUME Crash PROVE Goal
    BY <1>17, <1>k, <1>o DEF Crash, SnapshotsAreCopies, NoSnap, AbsentRow
  <1>18. CASE Next
    <2>1. ASSUME NEW h \in Handlers, Upload(h) PROVE Goal
      BY <2>1, <1>1, <1>2, <1>3, <1>4, <1>5, <1>6, <1>7 DEF Upload, Continue
    <2>2. CASE Reconcile
      BY <2>2, <1>8, <1>9, <1>10, <1>11, <1>12, <1>13, <1>14, <1>15
         DEF Reconcile, FetchStuckXorbs, FetchStuckShards
    <2>3. CASE Environment
      BY <2>3, <1>9, <1>16, <1>17 DEF Environment
    <2> QED BY <1>18, <2>1, <2>2, <2>3 DEF Next
  <1> QED BY <1>9, <1>18

-----------------------------------------------------------------------------
(***************************************************************************)
(* ObjectInv and OrphanInv, from what a step may do to a row.              *)
(***************************************************************************)

\* What a request's report leaves in the row.
LEMMA ReportedRow ==
    ASSUME NEW i \in Items, RowReported(i)
    PROVE  \/ rows'[i].state = "pinning" /\ rows'[i].sia = rows[i].sia
           \/ /\ rows'[i].state = "pinned" /\ rows'[i].sia \in ObjIds
              /\ objects'[rows'[i].sia] = i
  <1>1. CASE rows'[i] = set_pin_state(rows[i], "pinning", NULL)
    BY <1>1 DEF set_pin_state, Coalesce
  <1>2. CASE \E o \in ObjIds : /\ objects'[o] = i
                               /\ rows'[i] = set_pin_state(rows[i], "pinned", o)
    BY <1>2, NullAssumption DEF set_pin_state, Coalesce
  <1> QED BY <1>1, <1>2 DEF RowReported

\* At boot no row has an object id.
LEMMA ObjectInit == Init => ObjectInv
  BY DEF Init, ObjectInv, PinnedNamesItsObject, SnapshotsNameTheirObjects,
         SeededRow, AbsentRow, NoSnap

\* Every UPDATE of an object id, by set_pin_state or by set_pinned_xorb,
\* stores one that names the row's own bytes.
LEMMA ObjectStep ==
    TypeOK /\ SweepInv /\ DurableInv /\ ObjectInv /\ [Next]_vars => ObjectInv'
  <1> SUFFICES ASSUME TypeOK, SweepInv, DurableInv, ObjectInv, [Next]_vars
               PROVE  ObjectInv'
    OBVIOUS
  <1> USE NullAssumption
  <1>1. (\A i \in Items : RowStep(i)) /\ ObjectsGrow /\ SnapshotsAreCopies
    BY RowSteps
  <1>r. \A i \in Items : rows[i] \in Row /\ rows[i].sia \in ObjIds \cup {NULL}
                         /\ snap[i].sia \in ObjIds \cup {NULL}
    BY DEF TypeOK, Row, Columns
  <1>2. \A i \in Items : rows[i].sia # NULL => objects'[rows[i].sia] = i
    BY <1>1, <1>r DEF ObjectsGrow, Unreferenced, ObjectInv, PinnedNamesItsObject
  <1>3. \A i \in Items : snap[i].sia # NULL => objects'[snap[i].sia] = i
    BY <1>1, <1>r DEF ObjectsGrow, Unreferenced, ObjectInv, SnapshotsNameTheirObjects
  <1>4. \A i \in Items : snap'[i].sia # NULL => objects'[snap'[i].sia] = i
    BY <1>1, <1>2, <1>3 DEF SnapshotsAreCopies
  <1>5. ASSUME NEW i \in Items
        PROVE  /\ rows'[i].sia # NULL => objects'[rows'[i].sia] = i
               /\ rows'[i].state = "pinned" => rows'[i].sia # NULL
               /\ rows'[i].state = "absent" => rows'[i].sia = NULL
    <2>1. /\ rows[i].state = "pinned" => rows[i].sia # NULL
          /\ rows[i].state = "absent" => rows[i].sia = NULL
      BY DEF ObjectInv, PinnedNamesItsObject, SnapshotsNameTheirObjects
    <2>2. CASE RowKept(i)
      BY <1>2, <2>1, <2>2 DEF RowKept
    <2>3. CASE RowInserted(i)
      BY <2>3 DEF RowInserted, PendingRow
    <2>4. CASE RowReported(i)
      BY <1>2, <2>4, ReportedRow
    <2>5. CASE RowRevived(i)
      BY <1>2, <2>5 DEF RowRevived, revive
    <2>6. CASE RowPinned(i)
      BY <1>2, <2>1, <2>6 DEF RowPinned, set_pinned, Coalesce
    <2>7. CASE RowGivenUp(i)
      BY <1>2, <2>7 DEF RowGivenUp, orphan
    <2>8. CASE RowRetried(i)
      BY <1>2, <2>1, <2>8 DEF RowRetried
    <2> QED BY <1>1, <2>2, <2>3, <2>4, <2>5, <2>6, <2>7, <2>8 DEF RowStep
  <1> QED BY <1>4, <1>5 DEF ObjectInv, PinnedNamesItsObject, SnapshotsNameTheirObjects

\* At boot no row is orphaned.
LEMMA OrphanInit == Init => OrphanInv
  BY DEF Init, OrphanInv, OrphanedMeansExhausted, OutageNeverOrphans,
         SeededRow, AbsentRow

\* A row becomes orphaned only at the cap and after a failure that counts.
LEMMA OrphanStep ==
    TypeOK /\ SweepInv /\ DurableInv /\ ObjectInv /\ OrphanInv /\ [Next]_vars
        => OrphanInv'
  <1> SUFFICES ASSUME TypeOK, SweepInv, DurableInv, ObjectInv, OrphanInv,
                      [Next]_vars
               PROVE  OrphanInv'
    OBVIOUS
  <1>1. \A i \in Items : RowStep(i)
    BY RowSteps
  <1>2. ASSUME NEW i \in Items, rows'[i].state = "orphaned"
        PROVE  /\ i \notin Seeded => rows'[i].attempts >= MaxPinAttempts
               /\ Counted(i, worst'[i])
    <2>1. CASE RowKept(i)
      BY <1>2, <2>1 DEF RowKept, OrphanInv, OrphanedMeansExhausted, OutageNeverOrphans
    <2>2. CASE RowInserted(i)
      BY <1>2, <2>2 DEF RowInserted, PendingRow
    <2>3. CASE RowReported(i)
      BY <1>2, <2>3, ReportedRow
    <2>4. CASE RowRevived(i)
      BY <1>2, <2>4 DEF RowRevived, revive
    <2>5. CASE RowPinned(i)
      BY <1>2, <2>5 DEF RowPinned, set_pinned
    <2>6. CASE RowGivenUp(i)
      BY <2>6 DEF RowGivenUp, orphan
    <2>7. CASE RowRetried(i)
      BY <1>2, <2>7 DEF RowRetried
    <2> QED BY <1>1, <2>1, <2>2, <2>3, <2>4, <2>5, <2>6, <2>7 DEF RowStep
  <1> QED BY <1>2 DEF OrphanInv, OrphanedMeansExhausted, OutageNeverOrphans

-----------------------------------------------------------------------------
(***************************************************************************)
(* The theorems.                                                           *)
(***************************************************************************)

\* The inductive invariant holds in every reachable state.
LEMMA IInvInductive == Spec => []IInv
  <1>1. Init => IInv
    BY TypeInit, SweepInit, DurableInit, ObjectInit, OrphanInit DEF IInv
  <1>2. IInv /\ [Next]_vars => IInv'
    BY TypeStep, SweepStep, DurableStep, ObjectStep, OrphanStep DEF IInv
  <1> QED BY <1>1, <1>2, PTL DEF Spec

\* Whichever of handler and reconciler wrote last, a stored sia_object_id
\* names a Sia object holding this item's bytes, and a 'pinned' row has one.
THEOREM PinnedNamesItsObjectAlways == Spec => []PinnedNamesItsObject
  <1>1. IInv => PinnedNamesItsObject
    BY DEF IInv, ObjectInv
  <1> QED BY <1>1, IInvInductive, PTL

\* The shard transaction commits only shards whose xorbs' bytes the CAS
\* holds, although upload_shard checked them statements earlier.
THEOREM AcceptedShardIsDurableAlways == Spec => []AcceptedShardIsDurable
  <1>1. IInv => AcceptedShardIsDurable
    BY DEF IInv, DurableInv
  <1> QED BY <1>1, IInvInductive, PTL

\* bump_xorb_attempt never orphans a row early, although it compares a stale
\* counter with the cap.
THEOREM OrphanedMeansExhaustedAlways == Spec => []OrphanedMeansExhausted
  <1>1. IInv => OrphanedMeansExhausted
    BY DEF IInv, OrphanInv
  <1> QED BY <1>1, IInvInductive, PTL

\* No number of `Unavailable` answers, nor of timeouts on a shard, orphans a
\* row.
THEOREM OutageNeverOrphansAlways == Spec => []OutageNeverOrphans
  <1>1. IInv => OutageNeverOrphans
    BY DEF IInv, OrphanInv
  <1> QED BY <1>1, IInvInductive, PTL

\* No step loses a stored object id; only the uploading request replaces one.
THEOREM ObjectIdIsKeptAlways == Spec => ObjectIdIsKept
  <1> DEFINE Kept ==
        \A i \in Items : rows[i].sia # NULL =>
            \/ rows'[i].sia = rows[i].sia
            \/ rows'[i].sia # NULL /\ \E h \in Handlers : Uploading(h, i)
  <1>1. IInv /\ [Next]_vars => Kept
    <2> SUFFICES ASSUME IInv, [Next]_vars, NEW i \in Items, rows[i].sia # NULL
                 PROVE  \/ rows'[i].sia = rows[i].sia
                        \/ /\ rows'[i].sia # NULL
                           /\ \E h \in Handlers : Uploading(h, i)
      OBVIOUS
    <2>1. RowStep(i) /\ rows[i].state # "absent"
      BY RowSteps DEF IInv, ObjectInv, SnapshotsNameTheirObjects
    <2>2. CASE RowReported(i)
      BY <2>2, ReportedRow, NullAssumption DEF RowReported
    <2>3. CASE RowKept(i) \/ RowInserted(i) \/ RowRevived(i) \/ RowPinned(i)
               \/ RowGivenUp(i) \/ RowRetried(i)
      BY <2>1, <2>3 DEF RowKept, RowInserted, RowRevived, revive, RowPinned,
                        set_pinned, Coalesce, RowGivenUp, orphan, RowRetried
    <2> QED BY <2>1, <2>2, <2>3 DEF RowStep
  <1>2. IInv /\ [Next]_vars => [Kept]_vars
    BY <1>1
  <1> QED BY <1>2, IInvInductive, PTL DEF Spec, ObjectIdIsKept

\* Whatever the interleaving of handlers and reconciler, a reader of the rows
\* sees ObjectLife: every step maps to one of its steps or to a stutter.
THEOREM PinStateImplementsObjectLife == Spec => ImplementsObjectLife
  <1>1. Init => Life!Init
    BY ItemsAssumption DEF Init, Life!Init, SeededRow, AbsentRow
  <1>2. IInv /\ [Next]_vars => [Life!Next]_(Life!vars)
    <2> SUFFICES ASSUME IInv, [Next]_vars PROVE Life!Next
      OBVIOUS
    <2>1. (\A i \in Items : RowStep(i)) /\ ObjectsGrow
      BY RowSteps DEF IInv
    <2>2. Life!StoredIdsAreStable
      BY <2>1 DEF ObjectsGrow, Unreferenced, Life!StoredIdsAreStable
    <2>3. ASSUME NEW i \in Items
          PROVE  \/ Life!Kept(i) \/ Life!Inserted(i) \/ Life!Pinned(i)
                 \/ Life!Requeued(i) \/ Life!GivenUp(i)
      <3>0. /\ rows[i].sia \in ObjIds \cup {NULL}
            /\ rows'[i].sia # NULL => objects'[rows'[i].sia] = i
            /\ rows'[i].state = "pinned" => rows'[i].sia \in ObjIds
        BY ObjectStep, TypeStep
           DEF IInv, ObjectInv, PinnedNamesItsObject, TypeOK, Row, Columns
      <3>1. CASE RowKept(i) \/ RowRetried(i)
        BY <3>1 DEF RowKept, RowRetried, Life!Kept
      <3>2. CASE RowInserted(i)
        BY <3>2 DEF RowInserted, PendingRow, Life!Inserted
      <3>3. CASE RowReported(i)
        <4>1. rows[i].state # "absent"
          BY <3>3 DEF RowReported
        <4>2. CASE rows'[i].state = "pinning" /\ rows'[i].sia = rows[i].sia
          BY <4>1, <4>2 DEF Life!Requeued
        <4>3. CASE /\ rows'[i].state = "pinned" /\ rows'[i].sia \in ObjIds
                   /\ objects'[rows'[i].sia] = i
          BY <4>1, <4>3 DEF Life!Pinned
        <4> QED BY <3>3, <4>2, <4>3, ReportedRow
      <3>4. CASE RowRevived(i)
        BY <3>4 DEF RowRevived, revive, Life!Requeued
      <3>5. CASE RowPinned(i)
        <4>1. rows'[i].state = "pinned"
          BY <3>5 DEF RowPinned, set_pinned
        <4> QED BY <3>0, <3>5, <4>1, NullAssumption DEF RowPinned, Life!Pinned
      <3>6. CASE RowGivenUp(i)
        BY <3>6 DEF RowGivenUp, orphan, Life!GivenUp
      <3> QED BY <2>1, <3>1, <3>2, <3>3, <3>4, <3>5, <3>6 DEF RowStep
    <2> QED BY <2>2, <2>3 DEF Life!Next
  <1> QED BY <1>1, <1>2, IInvInductive, PTL
         DEF Spec, ImplementsObjectLife, Life!Spec

=============================================================================
