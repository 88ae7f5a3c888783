--------------------------- MODULE PinBudgetProofs ---------------------------
(***************************************************************************)
(* TLAPS proofs about PinState when a request's budget for Sia is below    *)
(* STUCK_THRESHOLD and MAX_PIN_ATTEMPTS is at least 3 (Compose has 20 s    *)
(* against 5 min; the constant is 5).  Both are needed: with a longer      *)
(* budget, or with a cap of 2, the handler's increment and the             *)
(* reconciler's can leave a 'pinning' row at the cap.                      *)
(***************************************************************************)
EXTENDS PinStateProofs

-----------------------------------------------------------------------------
(***************************************************************************)
(* The inductive invariant: what the reconciler can see of a row whose     *)
(* upload request is still under way, and how far a snapshot is behind.    *)
(***************************************************************************)

Holds(h, i) == up[h].pc \in {"body", "sia"} /\ up[h].item = i

Held(i) == \E h \in Handlers : Holds(h, i)

\* The request that won the insert is the only one that reports on the row.
OneHolder ==
    \A i \in Items : \A g, h \in Handlers : Holds(g, i) /\ Holds(h, i) => g = h

\* Until it has reported, the reconciler selects the row at most once.
HeldIsFresh ==
    \A i \in Items : Held(i) =>
        /\ i \notin Seeded
        /\ rows[i].state \in {"pinning", "pinned"}
        /\ rows[i].last \in {"null", "recent"}
        /\ rows[i].attempts <= 1
        /\ rows[i].last = "null" \/ i \in queue => rows[i].attempts = 0

\* A row of the batch is as it was selected, or its request has reported on
\* it, for the first time, since.
BatchIsCurrent ==
    \A i \in queue :
        /\ snap[i].attempts < MaxPinAttempts
        /\ \/ /\ rows[i].state = snap[i].state
              /\ rows[i].attempts = snap[i].attempts
              /\ snap[i].state \in {"uploading", "pinning"}
           \/ /\ i \notin Seeded
              /\ rows[i].state \in {"pinning", "pinned"}
              /\ snap[i].attempts = 0
              /\ rows[i].attempts <= 1

\* No row is deleted.
SeededRowsExist == \A i \in Seeded : rows[i].state # "absent"

HolderInv == OneHolder /\ HeldIsFresh /\ BatchIsCurrent /\ PinningIsSwept

-----------------------------------------------------------------------------
\* At boot no request is under way and no row is 'pinning'.
LEMMA HolderInit == Init => HolderInv
  <1> SUFFICES ASSUME Init PROVE HolderInv
    OBVIOUS
  <1>1. \A h \in Handlers : up[h].pc = "idle"
    BY DEF Init, IdleHandler
  <1>2. \A i \in Items : rows[i].state # "pinning"
    BY DEF Init, SeededRow, AbsentRow
  <1> QED BY <1>1, <1>2 DEF Init, HolderInv, OneHolder, HeldIsFresh, BatchIsCurrent,
                            PinningIsSwept, Held, Holds

\* A step that writes no row: requests may only let go of theirs.
LEMMA HolderFrame ==
    ASSUME HolderInv, UNCHANGED <<rows, queue, snap>>,
           \A i \in Items : \A h \in Handlers : Holds(h, i)' => Holds(h, i)
    PROVE  HolderInv'
  <1>1. \A i \in Items : Held(i)' => Held(i)
    BY DEF Held
  <1> QED BY <1>1 DEF HolderInv, OneHolder, HeldIsFresh, BatchIsCurrent, PinningIsSwept

\* A row is inserted, by the request that will report on it.
LEMMA HolderInserts ==
    ASSUME TypeOK, SweepInv, HolderInv, NEW h \in Handlers, NEW i \in Items,
           rows[i].state = "absent", rows' = [rows EXCEPT ![i] = PendingRow],
           UNCHANGED <<queue, snap>>,
           \A j \in Items : \A g \in Handlers : Holds(g, j)' => Holds(g, j) \/ (g = h /\ j = i),
           i \notin Seeded
    PROVE  HolderInv'
  <1>1. ~Held(i) /\ i \notin queue
    BY DEF HolderInv, HeldIsFresh, SweepInv, SnapshotsLagBehind
  <1>2. /\ \A j \in Items : j # i => rows'[j] = rows[j] /\ (Held(j)' => Held(j))
        /\ rows'[i] = PendingRow
    BY DEF TypeOK, Held
  <1>3. OneHolder'
    BY <1>1 DEF HolderInv, OneHolder, Held
  <1>4. HeldIsFresh'
    BY <1>1, <1>2 DEF HolderInv, HeldIsFresh, PendingRow
  <1>5. BatchIsCurrent'
    BY <1>1, <1>2 DEF HolderInv, BatchIsCurrent, TypeOK
  <1>6. PinningIsSwept'
    BY <1>2, BoundsAssumption DEF HolderInv, PinningIsSwept, PendingRow
  <1> QED BY <1>3, <1>4, <1>5, <1>6 DEF HolderInv

\* The request reports on its row and is over.
LEMMA HolderReports ==
    ASSUME TypeOK, HolderInv, MaxPinAttempts >= 3,
           NEW h \in Handlers, NEW i \in Items, Holds(h, i),
           NEW r \in Row, rows' = [rows EXCEPT ![i] = r],
           r.state \in {"pinning", "pinned"}, r.attempts = rows[i].attempts + 1,
           UNCHANGED <<queue, snap>>, up' = [up EXCEPT ![h] = IdleHandler]
    PROVE  HolderInv'
  <1>1. \A g \in Handlers, j \in Items : Holds(g, j)' => g # h /\ Holds(g, j)
    BY DEF Holds, TypeOK, IdleHandler
  <1>2. ~Held(i)' /\ \A j \in Items : Held(j)' => Held(j)
    BY <1>1 DEF Held, HolderInv, OneHolder
  <1>3. /\ \A j \in Items : j # i => rows'[j] = rows[j]
        /\ rows'[i] = r
    BY DEF TypeOK
  <1>4. /\ i \notin Seeded /\ rows[i].attempts \in Nat /\ rows[i].attempts <= 1
        /\ i \in queue => rows[i].attempts = 0
    BY DEF TypeOK, Row, Columns, HolderInv, HeldIsFresh, Held
  <1>5. OneHolder'
    BY <1>1 DEF HolderInv, OneHolder
  <1>6. HeldIsFresh'
    BY <1>2, <1>3 DEF HolderInv, HeldIsFresh
  <1>7. BatchIsCurrent'
    <2> SUFFICES ASSUME NEW j \in queue
                 PROVE  /\ snap[j].attempts < MaxPinAttempts
                        /\ \/ /\ rows'[j].state = snap[j].state
                              /\ rows'[j].attempts = snap[j].attempts
                              /\ snap[j].state \in {"uploading", "pinning"}
                           \/ /\ j \notin Seeded
                              /\ rows'[j].state \in {"pinning", "pinned"}
                              /\ snap[j].attempts = 0
                              /\ rows'[j].attempts <= 1
      BY DEF BatchIsCurrent
    <2>1. CASE j # i
      BY <1>3, <2>1 DEF HolderInv, BatchIsCurrent, TypeOK
    <2>2. CASE j = i
      <3>1. snap[i].attempts < MaxPinAttempts /\ snap[i].attempts = 0
        BY <1>4, <2>2 DEF HolderInv, BatchIsCurrent
      <3> QED BY <1>3, <1>4, <2>2, <3>1
    <2> QED BY <2>1, <2>2
  <1>8. PinningIsSwept'
    BY <1>3, <1>4, BoundsAssumption DEF HolderInv, PinningIsSwept
  <1> QED BY <1>5, <1>6, <1>7, <1>8 DEF HolderInv

\* The reconciler finishes a row of its batch and writes r to it.
LEMMA HolderSwept ==
    ASSUME TypeOK, HolderInv, NextRow, NEW i \in queue, i = sweep.row,
           NEW r \in Row, rows' = [rows EXCEPT ![i] = r],
           r.state = "pinning" => r.attempts < MaxPinAttempts,
           Held(i) => /\ r.state \in {"pinning", "pinned"}
                      /\ r.last \in {"null", "recent"}
                      /\ r.attempts <= 1
                      /\ r.last = "null" => r.attempts = 0
    PROVE  HolderInv'
  <1>1. /\ queue' = queue \ {i} /\ UNCHANGED up /\ queue \subseteq Items
        /\ \A j \in Items : j # i => snap'[j] = snap[j]
    BY DEF NextRow, TypeOK
  <1>2. rows'[i] = r /\ \A j \in Items : j # i => rows'[j] = rows[j]
    BY <1>1 DEF TypeOK
  <1>3. \A h \in Handlers, j \in Items : Holds(h, j)' <=> Holds(h, j)
    BY <1>1 DEF Holds
  <1>4. \A j \in Items : Held(j)' <=> Held(j)
    BY <1>3 DEF Held
  <1>5. OneHolder'
    BY <1>3 DEF HolderInv, OneHolder
  <1>6. HeldIsFresh'
    BY <1>1, <1>2, <1>4 DEF HolderInv, HeldIsFresh
  <1>7. BatchIsCurrent'
    BY <1>1, <1>2 DEF HolderInv, BatchIsCurrent
  <1>8. PinningIsSwept'
    BY <1>1, <1>2 DEF HolderInv, PinningIsSwept
  <1> QED BY <1>5, <1>6, <1>7, <1>8 DEF HolderInv

\* bump_xorb_attempt and bump_shard_attempt on the row under sweep.
LEMMA HolderBump ==
    ASSUME TypeOK, SweepInv, HolderInv, MaxPinAttempts >= 3,
           sweep.op # "none", NextRow, NEW t \in BOOLEAN,
           rows' = [rows EXCEPT ![sweep.row] =
                      bump_attempt(@, snap[sweep.row].attempts, t)]
    PROVE  HolderInv'
  <1>1. PICK i \in queue : i = sweep.row
    BY DEF TypeOK
  <1> DEFINE r == bump_attempt(rows[i], snap[i].attempts, t)
  <1>2. /\ i \in Items /\ rows[i] \in Row /\ rows[i].attempts \in Nat
        /\ snap[i].attempts \in Nat /\ MaxPinAttempts \in Nat
    BY BoundsAssumption DEF TypeOK, Row, Columns
  <1>3. r \in Row
    BY <1>2, RowOperators
  <1>4. rows' = [rows EXCEPT ![i] = r]
    BY <1>1, <1>2 DEF TypeOK
  <1>5. \/ rows[i].attempts = snap[i].attempts
        \/ snap[i].attempts = 0 /\ rows[i].attempts <= 1
    BY DEF HolderInv, BatchIsCurrent
  <1>6. rows[i].state = "pinning" => rows[i].attempts < MaxPinAttempts
    BY <1>2 DEF HolderInv, PinningIsSwept
  <1>7. Held(i) => /\ rows[i].state \in {"pinning", "pinned"}
                   /\ rows[i].attempts = 0
                   /\ snap[i].attempts = 0
    BY <1>2, <1>5 DEF HolderInv, HeldIsFresh
  <1>8. CASE t
    <2>1. r = [rows[i] EXCEPT !.last = "recent"]
      BY <1>8 DEF bump_attempt
    <2>2. r.state = rows[i].state /\ r.attempts = rows[i].attempts /\ r.last = "recent"
      BY <1>2, <2>1 DEF Row, Columns
    <2> HIDE DEF r
    <2>3. r.state = "pinning" => r.attempts < MaxPinAttempts
      BY <1>6, <2>2
    <2>4. Held(i) => r.state \in {"pinning", "pinned"} /\ r.attempts <= 1
      BY <1>7, <2>2
    <2> QED BY <1>1, <1>3, <1>4, <2>2, <2>3, <2>4, HolderSwept
  <1>9. CASE ~t /\ snap[i].attempts + 1 >= MaxPinAttempts
    <2>1. r = orphan(rows[i])
      BY <1>9 DEF bump_attempt
    <2>2. r.state = "orphaned"
      BY <2>1 DEF orphan
    <2>3. ~Held(i)
      BY <1>2, <1>7, <1>9
    <2> HIDE DEF r
    <2> QED BY <1>1, <1>3, <1>4, <2>2, <2>3, HolderSwept
  <1>10. CASE ~t /\ ~(snap[i].attempts + 1 >= MaxPinAttempts)
    <2>1. r = [rows[i] EXCEPT !.attempts = @ + 1, !.last = "recent"]
      BY <1>10 DEF bump_attempt
    <2>2. r.state = rows[i].state /\ r.attempts = rows[i].attempts + 1 /\ r.last = "recent"
      BY <1>2, <2>1 DEF Row, Columns
    <2> HIDE DEF r
    <2>3. r.attempts < MaxPinAttempts
      BY <1>2, <1>5, <1>10, <2>2
    <2>4. Held(i) => r.attempts <= 1
      BY <1>2, <1>7, <2>2
    <2> QED BY <1>1, <1>3, <1>4, <1>7, <2>2, <2>3, <2>4, HolderSwept
  <1> QED BY <1>8, <1>9, <1>10

\* set_pinned_xorb and set_pinned_shard on the row under sweep.
LEMMA HolderPins ==
    ASSUME TypeOK, HolderInv, sweep.op # "none", NextRow, NEW o \in ObjIds \cup {NULL},
           rows' = [rows EXCEPT ![sweep.row] = set_pinned(@, o)]
    PROVE  HolderInv'
  <1>1. PICK i \in queue : i = sweep.row
    BY DEF TypeOK
  <1> DEFINE r == set_pinned(rows[i], o)
  <1>2. i \in Items /\ rows[i] \in Row
    BY DEF TypeOK
  <1>3. r \in Row
    BY <1>2, RowOperators
  <1>4. rows' = [rows EXCEPT ![i] = r]
    BY <1>1, <1>2 DEF TypeOK
  <1>5. r.state = "pinned" /\ r.attempts = rows[i].attempts /\ r.last \in {rows[i].last, "recent"}
    BY <1>2 DEF set_pinned, Row, Columns
  <1> HIDE DEF r
  <1>6. Held(i) => /\ r.last \in {"null", "recent"} /\ r.attempts <= 1
                   /\ r.last = "null" => r.attempts = 0
    BY <1>2, <1>5 DEF HolderInv, HeldIsFresh
  <1>7. r.state \in {"pinning", "pinned"} /\ (r.state = "pinning" => r.attempts < MaxPinAttempts)
    BY <1>5
  <1> QED BY <1>1, <1>3, <1>4, <1>6, <1>7, HolderSwept

\* Every statement keeps HolderInv: a row whose request is under way does not
\* age, so the batch's SELECT takes it at most once and with no attempt.
LEMMA HolderStep ==
    ASSUME TypeOK, SweepInv, SeededRowsExist, HolderInv, [Next]_vars,
           BudgetBelowThreshold, MaxPinAttempts >= 3
    PROVE  HolderInv'
  <1> USE ItemsAssumption, NullAssumption
  <1>r. \A i \in Items : rows[i] \in Row /\ snap[i] \in Row
    BY DEF TypeOK
  <1>1. ASSUME NEW h \in Handlers, NEW x \in Xorbs, InsertXorb(h, x)
        PROVE  HolderInv'
    <2>1. x \in Items /\ rows[x].state = "absent" /\ UNCHANGED <<queue, snap>>
      BY <1>1 DEF InsertXorb, Items
    <2>2. \A j \in Items : \A g \in Handlers : Holds(g, j)' => Holds(g, j) \/ (g = h /\ j = x)
      BY <1>1 DEF InsertXorb, Holds, TypeOK
    <2> QED BY <1>1, <2>1, <2>2, HolderInserts DEF InsertXorb, SeededRowsExist
  <1>2. ASSUME NEW h \in Handlers, NEW x \in Xorbs, DedupXorb(h, x)
        PROVE  HolderInv'
    BY <1>2, HolderFrame DEF DedupXorb, Holds
  <1>3. ASSUME NEW h \in Handlers, NEW s \in Shards, ReviveOrphans(h, s)
        PROVE  HolderInv'
    <2>1. UNCHANGED <<queue, snap>> /\ \A i \in Items : \A g \in Handlers : Holds(g, i)' => Holds(g, i)
      BY <1>3 DEF ReviveOrphans, Holds, TypeOK
    <2>2. \A i \in Items : Held(i)' => Held(i)
      BY <2>1 DEF Held
    <2>3. /\ \A i \in Items : rows[i].state # "orphaned" => rows'[i] = rows[i]
          /\ \A i \in Items : rows[i].state = "orphaned" =>
                rows'[i] = rows[i] \/ rows'[i].attempts = 0
      BY <1>3 DEF ReviveOrphans, revive
    <2>4. HeldIsFresh'
      BY <2>1, <2>2, <2>3 DEF HolderInv, HeldIsFresh
    <2>5. BatchIsCurrent'
      BY <2>1, <2>3 DEF HolderInv, BatchIsCurrent, SweepInv, SnapshotsLagBehind, TypeOK
    <2>6. PinningIsSwept'
      BY <2>3, BoundsAssumption DEF HolderInv, PinningIsSwept
    <2> QED BY <2>1, <2>4, <2>5, <2>6 DEF HolderInv, OneHolder
  <1>4. ASSUME NEW h \in Handlers,
               StoreBody(h) \/ CrossCheck(h) \/ DedupShard(h) \/ AbortUpload(h)
        PROVE  HolderInv'
    <2>1. UNCHANGED <<rows, queue, snap>>
      BY <1>4 DEF StoreBody, CrossCheck, DedupShard, AbortUpload
    <2>2. \A i \in Items : \A g \in Handlers : Holds(g, i)' => Holds(g, i)
      BY <1>4 DEF StoreBody, CrossCheck, DedupShard, AbortUpload, Holds, TypeOK, IdleHandler
    <2> QED BY <2>1, <2>2, HolderFrame
  <1>5. ASSUME NEW h \in Handlers, SiaAccepts(h)
        PROVE  HolderInv'
    <2>1. PICK i \in Items : i = up[h].item /\ Holds(h, i)
      BY <1>5 DEF SiaAccepts, TypeOK, Holds
    <2>2. PICK o \in ObjIds : rows' = [rows EXCEPT ![i] = set_pin_state(rows[i], "pinned", o)]
      BY <1>5, <2>1 DEF SiaAccepts, upload_and_pin, TypeOK
    <2> DEFINE r == set_pin_state(rows[i], "pinned", o)
    <2>3. r \in Row
      BY <1>r, RowOperators DEF PinStates
    <2>4. r.state = "pinned" /\ r.attempts = rows[i].attempts + 1
      BY DEF set_pin_state
    <2> HIDE DEF r
    <2>5. UNCHANGED <<queue, snap>> /\ up' = [up EXCEPT ![h] = IdleHandler]
      BY <1>5 DEF SiaAccepts
    <2> QED BY <2>1, <2>2, <2>3, <2>4, <2>5, HolderReports DEF r
  <1>6. ASSUME NEW h \in Handlers, SiaFails(h)
        PROVE  HolderInv'
    <2>1. PICK i \in Items : i = up[h].item /\ Holds(h, i)
      BY <1>6 DEF SiaFails, TypeOK, Holds
    <2>2. UNCHANGED <<queue, snap>> /\ up' = [up EXCEPT ![h] = IdleHandler]
      BY <1>6 DEF SiaFails
    <2>3. CASE rows' = rows
      <3>1. \A j \in Items : \A g \in Handlers : Holds(g, j)' => Holds(g, j)
        BY <2>2 DEF Holds, TypeOK, IdleHandler
      <3> QED BY <2>2, <2>3, <3>1, HolderFrame
    <2>4. CASE rows' = [rows EXCEPT ![i] = set_pin_state(rows[i], "pinning", NULL)]
      <3> DEFINE r == set_pin_state(rows[i], "pinning", NULL)
      <3>1. r \in Row
        BY <1>r, RowOperators DEF PinStates
      <3>2. r.state = "pinning" /\ r.attempts = rows[i].attempts + 1
        BY DEF set_pin_state
      <3> HIDE DEF r
      <3> QED BY <2>1, <2>2, <2>4, <3>1, <3>2, HolderReports DEF r
    <2> QED BY <1>6, <2>1, <2>3, <2>4 DEF SiaFails, TypeOK
  <1>7. ASSUME NEW h \in Handlers, CommitShard(h)
        PROVE  HolderInv'
    <2>1. PICK i \in Items : i = up[h].item /\ rows[i].state = "absent"
      BY <1>7 DEF CommitShard, TypeOK, Items
    <2>2. \A j \in Items : \A g \in Handlers : Holds(g, j)' => Holds(g, j) \/ (g = h /\ j = i)
      BY <1>7, <2>1 DEF CommitShard, Holds, TypeOK
    <2>3. UNCHANGED <<queue, snap>> /\ rows' = [rows EXCEPT ![i] = PendingRow]
      BY <1>7, <2>1 DEF CommitShard
    <2> QED BY <2>1, <2>2, <2>3, HolderInserts DEF SeededRowsExist
  <1>8. ASSUME NEW table \in {Xorbs, Shards}, NEW phase, FetchStuck(table, phase)
        PROVE  HolderInv'
    <2>1. PICK B \in Batches(table) :
            queue' = B /\ snap' = [i \in Items |-> IF i \in B THEN rows[i] ELSE AbsentRow]
      BY <1>8 DEF FetchStuck
    <2>2. B \subseteq Items /\ \A i \in B : Stuck(i)
      BY DEF Batches, Items
    <2>3. UNCHANGED <<rows, up>>
      BY <1>8 DEF FetchStuck
    <2>4. \A i \in Items : Held(i)' <=> Held(i)
      BY <2>3 DEF Held, Holds
    <2>5. OneHolder'
      BY <2>3 DEF HolderInv, OneHolder, Holds
    <2>6. HeldIsFresh'
      BY <2>1, <2>2, <2>3, <2>4 DEF HolderInv, HeldIsFresh, Stuck
    <2>7. BatchIsCurrent'
      BY <2>1, <2>2, <2>3 DEF BatchIsCurrent, Stuck
    <2> QED BY <2>3, <2>5, <2>6, <2>7 DEF HolderInv, PinningIsSwept
  <1>9. ASSUME EndSweep \/ TakeRow \/ Stabilise \/ UNCHANGED vars
        PROVE  HolderInv'
    <2>1. UNCHANGED <<rows, queue, snap, up>>
      BY <1>9 DEF EndSweep, TakeRow, Stabilise, vars
    <2> QED BY <2>1, HolderFrame DEF Holds
  <1>10. ASSUME OrphanRow PROVE HolderInv'
    <2>1. PICK i \in queue : i = sweep.row
      BY <1>10 DEF OrphanRow, TypeOK
    <2>2. i \in Items /\ snap[i].state = "uploading" /\ i \in Seeded
      BY <1>10, <2>1 DEF OrphanRow, TypeOK, SweepInv, OpFollowsSnapshot, OnlySeededUpload
    <2>3. ~Held(i)
      BY <2>2 DEF HolderInv, HeldIsFresh
    <2> DEFINE r == orphan(rows[i])
    <2>4. r \in Row /\ r.state = "orphaned" /\ rows' = [rows EXCEPT ![i] = r]
      BY <1>10, <1>r, <2>1, <2>2, RowOperators DEF OrphanRow, orphan, TypeOK
    <2> HIDE DEF r
    <2> QED BY <1>10, <2>1, <2>3, <2>4, HolderSwept DEF OrphanRow
  <1>11. ASSUME RepinRow PROVE HolderInv'
    <2>1. snap[sweep.row].sia \in ObjIds \cup {NULL}
      BY <1>11 DEF RepinRow, TypeOK, Row, Columns
    <2> QED BY <1>11, <2>1, HolderPins DEF RepinRow
  <1>12. ASSUME ReuploadRow PROVE HolderInv'
    BY <1>12, HolderPins DEF ReuploadRow, upload_and_pin
  <1>13. ASSUME FailRow PROVE HolderInv'
    <2>1. PICK t \in BOOLEAN : rows' = [rows EXCEPT ![sweep.row] =
                                          bump_attempt(@, snap[sweep.row].attempts, t)]
      BY <1>13 DEF FailRow, is_transient
    <2> QED BY <1>13, <2>1, HolderBump DEF FailRow
  <1>14. ASSUME LostRow PROVE HolderInv'
    BY <1>14, HolderBump DEF LostRow
  <1>15. ASSUME SkipRow PROVE HolderInv'
    <2>1. PICK i \in queue : i = sweep.row
      BY <1>15 DEF SkipRow, TypeOK
    <2>2. i \in Items /\ rows' = [rows EXCEPT ![i] = rows[i]] /\ rows[i] \in Row
      BY <1>15, <1>r DEF SkipRow, TypeOK
    <2>3. rows[i].state = "pinning" => rows[i].attempts < MaxPinAttempts
      BY <2>2 DEF HolderInv, PinningIsSwept
    <2>4. Held(i) => /\ rows[i].state \in {"pinning", "pinned"}
                     /\ rows[i].last \in {"null", "recent"}
                     /\ rows[i].attempts <= 1
                     /\ rows[i].last = "null" => rows[i].attempts = 0
      BY <2>2 DEF HolderInv, HeldIsFresh
    <2> QED BY <1>15, <2>1, <2>2, <2>3, <2>4, HolderSwept DEF SkipRow
  <1>16. ASSUME NEW i \in Items, AttemptAges(i) PROVE HolderInv'
    <2>1. ~Held(i) /\ UNCHANGED <<up, queue, snap>>
      BY <1>16 DEF AttemptAges, Held, Holds
    <2>2. /\ rows'[i].state = rows[i].state /\ rows'[i].attempts = rows[i].attempts
          /\ \A j \in Items : j # i => rows'[j] = rows[j]
      BY <1>16, <1>r DEF AttemptAges, TypeOK, Row, Columns
    <2>3. \A j \in Items : Held(j)' <=> Held(j)
      BY <2>1 DEF Held, Holds
    <2>4. OneHolder'
      BY <2>1 DEF HolderInv, OneHolder, Holds
    <2>5. HeldIsFresh'
      BY <2>1, <2>2, <2>3 DEF HolderInv, HeldIsFresh
    <2>6. BatchIsCurrent'
      BY <2>1, <2>2 DEF HolderInv, BatchIsCurrent, TypeOK
    <2>7. PinningIsSwept'
      BY <2>2 DEF HolderInv, PinningIsSwept
    <2> QED BY <2>4, <2>5, <2>6, <2>7 DEF HolderInv
  <1>17. ASSUME Crash PROVE HolderInv'
    <2>1. UNCHANGED rows /\ queue' = {} /\ \A h \in Handlers : up'[h].pc = "idle"
      BY <1>17 DEF Crash, IdleHandler
    <2> QED BY <2>1 DEF HolderInv, OneHolder, HeldIsFresh, BatchIsCurrent, PinningIsSwept,
                        Held, Holds
  <1>18. CASE Next
    <2>1. ASSUME NEW h \in Handlers, Upload(h) PROVE HolderInv'
      BY <2>1, <1>1, <1>2, <1>3, <1>4, <1>5, <1>6, <1>7 DEF Upload, Continue
    <2>2. CASE Reconcile
      BY <2>2, <1>8, <1>9, <1>10, <1>11, <1>12, <1>13, <1>14, <1>15
         DEF Reconcile, FetchStuckXorbs, FetchStuckShards
    <2>3. CASE Environment
      BY <2>3, <1>9, <1>16, <1>17 DEF Environment
    <2> QED BY <1>18, <2>1, <2>2, <2>3 DEF Next
  <1> QED BY <1>9, <1>18

-----------------------------------------------------------------------------
(***************************************************************************)
(* The theorems.                                                           *)
(***************************************************************************)

\* What the seven kinds of row step make of a row that exists.
LEMMA RowsStay ==
    ASSUME NEW i \in Items, RowStep(i), rows[i].state # "absent"
    PROVE  rows'[i].state # "absent"
  <1>1. CASE RowReported(i)
    BY <1>1, ReportedRow
  <1>2. CASE RowPinned(i)
    BY <1>2 DEF RowPinned, set_pinned
  <1>3. CASE RowGivenUp(i)
    BY <1>3 DEF RowGivenUp, orphan
  <1>4. CASE RowKept(i) \/ RowInserted(i) \/ RowRevived(i) \/ RowRetried(i)
    BY <1>4 DEF RowKept, RowInserted, RowRevived, revive, RowRetried
  <1> QED BY <1>1, <1>2, <1>3, <1>4 DEF RowStep

BudgetInv == IInv /\ SeededRowsExist /\ HolderInv

\* With both assumptions the inductive invariant holds in every reachable state.
LEMMA BudgetInductive ==
    ASSUME BudgetBelowThreshold, MaxPinAttempts >= 3
    PROVE  Spec => []BudgetInv
  <1>1. Init => BudgetInv
    <2> SUFFICES ASSUME Init PROVE BudgetInv
      OBVIOUS
    <2>1. SeededRowsExist
      BY ItemsAssumption DEF Init, SeededRowsExist, SeededRow
    <2> QED BY <2>1, HolderInit, TypeInit, SweepInit, DurableInit, ObjectInit, OrphanInit
            DEF BudgetInv, IInv
  <1>2. BudgetInv /\ [Next]_vars => BudgetInv'
    <2> SUFFICES ASSUME BudgetInv, [Next]_vars PROVE BudgetInv'
      OBVIOUS
    <2>1. IInv'
      BY TypeStep, SweepStep, DurableStep, ObjectStep, OrphanStep DEF BudgetInv, IInv
    <2>2. SeededRowsExist'
      BY RowSteps, RowsStay, ItemsAssumption DEF BudgetInv, IInv, SeededRowsExist
    <2>3. HolderInv'
      BY HolderStep DEF BudgetInv, IInv
    <2> QED BY <2>1, <2>2, <2>3 DEF BudgetInv
  <1> QED BY <1>1, <1>2, PTL DEF Spec

\* fetch_stuck_xorbs and fetch_stuck_shards keep selecting every 'pinning'
\* row: no interleaving of the handler's set_pin_state with the reconciler's
\* bump_attempt leaves one at MAX_PIN_ATTEMPTS, where it would be neither
\* retried nor orphaned.
THEOREM PinningIsSweptAlways ==
    ASSUME BudgetBelowThreshold, MaxPinAttempts >= 3
    PROVE  Spec => []PinningIsSwept
  <1>1. BudgetInv => PinningIsSwept
    BY DEF BudgetInv, HolderInv
  <1> QED BY <1>1, BudgetInductive, PTL

\* The reconciler's orphan UPDATE, which does not test the row's state, never
\* meets a 'pinned' row: only the row's own request takes it out of 'pinned'.
THEOREM ReconcilerNeverDemotesAlways ==
    ASSUME BudgetBelowThreshold, MaxPinAttempts >= 3
    PROVE  Spec => ReconcilerNeverDemotes
  <1> DEFINE Kept ==
        \A i \in Items : rows[i].state = "pinned" /\ rows'[i].state # "pinned" =>
            \E h \in Handlers : Uploading(h, i)
  <1>1. BudgetInv /\ [Next]_vars => Kept
    <2> SUFFICES ASSUME BudgetInv, [Next]_vars, NEW i \in Items,
                        rows[i].state = "pinned", rows'[i].state # "pinned"
                 PROVE  \E h \in Handlers : Uploading(h, i)
      OBVIOUS
    <2>1. RowStep(i)
      BY RowSteps DEF BudgetInv, IInv
    <2>2. CASE RowReported(i)
      BY <2>2 DEF RowReported
    <2>3. CASE RowGivenUp(i)
      <3>1. i \in queue /\ (i \in Seeded \/ rows[i].attempts + 1 >= MaxPinAttempts)
        BY <2>3 DEF RowGivenUp
      <3>2. i \notin Seeded /\ rows[i].attempts <= 1
        BY <3>1 DEF BudgetInv, HolderInv, BatchIsCurrent
      <3>3. rows[i].attempts \in Nat
        BY DEF BudgetInv, IInv, TypeOK, Row, Columns
      <3> QED BY <3>1, <3>2, <3>3, BoundsAssumption
    <2>4. CASE RowKept(i) \/ RowInserted(i) \/ RowRevived(i) \/ RowPinned(i) \/ RowRetried(i)
      BY <2>4 DEF RowKept, RowInserted, RowRevived, RowPinned, set_pinned, RowRetried
    <2> QED BY <2>1, <2>2, <2>3, <2>4 DEF RowStep
  <1>2. BudgetInv /\ [Next]_vars => [Kept]_vars
    BY <1>1
  <1> QED BY <1>2, BudgetInductive, PTL DEF Spec, ReconcilerNeverDemotes

=============================================================================
