------------------------------ MODULE PinState ------------------------------
(***************************************************************************)
(* The write path of the CAS: the upload handlers, the pin-state           *)
(* reconciler and the rows of the `xorbs`, `shards` and `xorb_bodies`      *)
(* tables they share without row locks.                                    *)
(*                                                                         *)
(* Every SQL statement is one atomic step, because each of them runs in    *)
(* its own implicit transaction; between two statements of one handler,    *)
(* or of the reconciler, every other actor may run.  A Sia call is merged  *)
(* with the statement that records its outcome: the call itself touches no *)
(* shared row, and what happens while it is pending is what happens before *)
(* the merged step.                                                        *)
(***************************************************************************)
EXTENDS Naturals, FiniteSets

CONSTANTS
    Xorbs,                \* xorb merkle hashes
    Shards,               \* shard content hashes
    Refs,                 \* Refs[s]: the xorbs a shard's terms reference; {}
                          \* for a shard stored opaque (unsupported version)
    Handlers,             \* concurrent upload requests
    ObjIds,               \* Sia object ids
    Seeded,               \* rows found in state 'uploading' at boot
    MaxPinAttempts,       \* MAX_PIN_ATTEMPTS
    BatchLimit,           \* RECONCILER_BATCH
    BudgetBelowThreshold, \* OPENWEIGHTS_SIA_UPLOAD_BUDGET_SECS is well below
                          \* STUCK_THRESHOLD (20 s against 5 min in Compose)
    NULL

Items == Xorbs \cup Shards

ASSUME ItemsAssumption ==
    /\ Xorbs \cap Shards = {}
    /\ Refs \in [Shards -> SUBSET Xorbs]
    /\ Seeded \subseteq Items
ASSUME NullAssumption == NULL \notin Items /\ NULL \notin ObjIds
ASSUME BoundsAssumption ==
    /\ MaxPinAttempts \in Nat \ {0}
    /\ BatchLimit \in Nat \ {0}
    /\ BudgetBelowThreshold \in BOOLEAN

VARIABLES
    rows,     \* rows[i]: the row of item i in `xorbs` or `shards`
    bodies,   \* the xorbs with a row in `xorb_bodies`
    objects,  \* objects[o]: the item whose bytes Sia has pinned under id o
    up,       \* up[h]: where request h stands in its handler
    sweep,    \* the reconciler: the table it sweeps, the row it is working
              \* on and the Sia operation it chose for that row
    queue,    \* the rows of the current batch that are not finished
    snap,     \* snap[i]: row i as the batch's SELECT returned it
    acked,    \* history: items some client was told are stored (HTTP 200)
    worst,    \* history: the worst failure the reconciler saw for an item
              \* since it was inserted or last revived
    stable    \* the environment has stopped failing, for good

vars == <<rows, bodies, objects, up, sweep, queue, snap, acked, worst, stable>>

-----------------------------------------------------------------------------
(***************************************************************************)
(* The tables.  `last` abstracts last_pin_attempt_at to what the sweep     *)
(* tells apart: NULL, older than STUCK_THRESHOLD, or younger.              *)
(***************************************************************************)

PinStates == {"uploading", "pinning", "pinned", "orphaned"}

Columns == [state    : PinStates \cup {"absent"},
            sia      : ObjIds \cup {NULL},
            attempts : Nat,
            last     : {"null", "stale", "recent"}]

\* A row without an attempt time is one that no attempt has reached: the two
\* columns are written together, or reset together.
Row == {r \in Columns : r.last = "null" =>
                           r.attempts = 0 /\ r.state \notin {"pinned", "orphaned"}}

AbsentRow ==
    [state |-> "absent", sia |-> NULL, attempts |-> 0, last |-> "null"]

SeededRow ==
    [state |-> "uploading", sia |-> NULL, attempts |-> 0, last |-> "null"]

\* insert_pending and the INSERT of insert_shard_with_reconstruction: the
\* schema defaults of migration 0002.
PendingRow ==
    [state |-> "pinning", sia |-> NULL, attempts |-> 0, last |-> "null"]

Coalesce(a, b) == IF a # NULL THEN a ELSE b

\* Mutant of set_pin_state: SET sia_object_id = $2, without the COALESCE.
set_pin_state_overwrites(r, state, id) ==
    [state |-> state, sia |-> id,
     attempts |-> r.attempts + 1, last |-> "recent"]

\* set_pin_state: unconditional, and a new id replaces the stored one.
set_pin_state(r, state, id) ==
    [state |-> state, sia |-> Coalesce(id, r.sia),
     attempts |-> r.attempts + 1, last |-> "recent"]

\* Mutant of set_pinned: the id of the new object is not recorded.
set_pinned_forgets_id(r, id) ==
    IF r.state = "pinned" THEN r
    ELSE [r EXCEPT !.state = "pinned", !.last = "recent"]

\* set_pinned_xorb, set_pinned_shard: the stored id wins.
set_pinned(r, id) ==
    IF r.state = "pinned" THEN r
    ELSE [state |-> "pinned", sia |-> Coalesce(r.sia, id),
          attempts |-> r.attempts, last |-> "recent"]

\* orphan_xorb, orphan_shard: not guarded by the row's current state.
orphan(r) ==
    [state |-> "orphaned", sia |-> r.sia,
     attempts |-> r.attempts + 1, last |-> "recent"]

\* Mutants of bump_attempt: the cap is off by one, on either side.
bump_attempt_early(r, prior, transient) ==
    IF transient THEN [r EXCEPT !.last = "recent"]
    ELSE IF prior + 2 >= MaxPinAttempts THEN orphan(r)
    ELSE [r EXCEPT !.attempts = @ + 1, !.last = "recent"]

bump_attempt_late(r, prior, transient) ==
    IF transient THEN [r EXCEPT !.last = "recent"]
    ELSE IF prior + 1 > MaxPinAttempts THEN orphan(r)
    ELSE [r EXCEPT !.attempts = @ + 1, !.last = "recent"]

\* Mutant of bump_attempt: the retry is recorded with set_pin_state.
bump_attempt_sets_state(r, prior, transient) ==
    IF transient THEN [r EXCEPT !.last = "recent"]
    ELSE IF prior + 1 >= MaxPinAttempts THEN orphan(r)
    ELSE set_pin_state(r, "pinning", NULL)

\* bump_xorb_attempt, bump_shard_attempt: the cap is tested on the attempts
\* of the SELECT, the increment applies to the attempts of the row.
bump_attempt(r, prior, transient) ==
    IF transient THEN [r EXCEPT !.last = "recent"]
    ELSE IF prior + 1 >= MaxPinAttempts THEN orphan(r)
    ELSE [r EXCEPT !.attempts = @ + 1, !.last = "recent"]

\* Mutant of revive: pin_attempts is not reset with the attempt time.
revive_keeps_attempts(r) ==
    IF r.state = "orphaned"
    THEN [r EXCEPT !.state = "pinning", !.last = "null"]
    ELSE r

\* revive_orphaned_xorbs, for one of the rows its UPDATE matches.
revive(r) ==
    IF r.state = "orphaned"
    THEN [state |-> "pinning", sia |-> r.sia, attempts |-> 0, last |-> "null"]
    ELSE r

Unreferenced(o) == \A i \in Items : rows[i].sia # o /\ snap[i].sia # o

\* An id upload_and_pin may return for the bytes of item i: a new one (an id
\* nobody holds stands for it) or, since an adapter may derive ids from the
\* content as MockSiaAdapter does, one it returned for the same bytes before.
upload_and_pin(i) == {o \in ObjIds : Unreferenced(o) \/ objects[o] = i}

-----------------------------------------------------------------------------
(***************************************************************************)
(* Upload handlers.                                                        *)
(***************************************************************************)

IdleHandler == [pc |-> "idle", item |-> NULL]

SiaFailure == {"unavailable", "timeout", "other"}

\* upload_xorb, steps 1-6: a hash mismatch or a refused token changes
\* nothing and is not a step; the winner of the insert goes on.
InsertXorb(h, x) ==
    /\ up[h].pc = "idle"
    /\ rows[x].state = "absent"
    /\ rows' = [rows EXCEPT ![x] = PendingRow]
    /\ up' = [up EXCEPT ![h] = [pc |-> "body", item |-> x]]
    /\ UNCHANGED <<bodies, objects, sweep, queue, snap, acked, worst, stable>>

\* The dedup answer `was_inserted: false`: 200, and nothing is stored.
DedupXorb(h, x) ==
    /\ up[h].pc = "idle"
    /\ rows[x].state # "absent"
    /\ acked' = acked \cup {x}
    /\ UNCHANGED <<rows, bodies, objects, up, sweep, queue, snap, worst, stable>>

\* Step 6a: a statement of its own whose error is ignored.
StoreBody(h) ==
    /\ up[h].pc = "body"
    /\ \/ bodies' = bodies \cup {up[h].item}
       \/ ~stable /\ bodies' = bodies
    /\ up' = [up EXCEPT ![h].pc = "sia"]
    /\ UNCHANGED <<rows, objects, sweep, queue, snap, acked, worst, stable>>

\* upload_and_pin answered with an id and set_pin_state recorded it.  (When
\* that UPDATE fails the handler answers 500, which is AbortUpload.)
SiaAccepts(h) ==
    /\ up[h].pc = "sia"
    /\ \E o \in upload_and_pin(up[h].item) :
        /\ objects' = [objects EXCEPT ![o] = up[h].item]
        /\ rows' = [rows EXCEPT
                      ![up[h].item] = set_pin_state(@, "pinned", o)]
    /\ acked' = acked \cup {up[h].item}
    /\ up' = [up EXCEPT ![h] = IdleHandler]
    /\ UNCHANGED <<bodies, sweep, queue, snap, worst, stable>>

\* Sia failed, or the synchronous budget ran out: the row is stamped
\* 'pinning' (an error of that UPDATE is ignored) and, unless the failure is
\* `Other`, the client is told 200.
SiaFails(h) ==
    /\ ~stable
    /\ up[h].pc = "sia"
    /\ \E outcome \in SiaFailure, written \in BOOLEAN :
        /\ rows' = IF written
                   THEN [rows EXCEPT
                           ![up[h].item] = set_pin_state(@, "pinning", NULL)]
                   ELSE rows
        /\ acked' = IF outcome = "other" THEN acked
                    ELSE acked \cup {up[h].item}
    /\ up' = [up EXCEPT ![h] = IdleHandler]
    /\ UNCHANGED <<bodies, objects, sweep, queue, snap, worst, stable>>

\* upload_shard, step 5: one UPDATE over every referenced orphan.
ReviveOrphans(h, s) ==
    /\ up[h].pc = "idle"
    /\ rows' = [i \in Items |->
                  IF i \in Refs[s] THEN revive(rows[i]) ELSE rows[i]]
    /\ worst' = [i \in Items |->
                  IF i \in Refs[s] /\ rows[i].state = "orphaned"
                  THEN "none" ELSE worst[i]]
    /\ up' = [up EXCEPT ![h] = [pc |-> "check", item |-> s]]
    /\ UNCHANGED <<bodies, objects, sweep, queue, snap, acked, stable>>

\* Mutant of which_xorbs_are_pinned: without the join on xorb_bodies.
which_xorbs_are_pinned_no_join(xs) ==
    {x \in xs : rows[x].state \in {"pinning", "pinned", "orphaned"}}

\* which_xorbs_are_pinned joins xorb_bodies and accepts three states.
which_xorbs_are_pinned(xs) ==
    {x \in xs : /\ rows[x].state \in {"pinning", "pinned", "orphaned"}
                /\ x \in bodies}

\* A missing xorb is a 400; otherwise the handler goes on to its transaction.
CrossCheck(h) ==
    /\ up[h].pc = "check"
    /\ up' = [up EXCEPT ![h] =
                IF Refs[up[h].item] \subseteq
                     which_xorbs_are_pinned(Refs[up[h].item])
                THEN [pc |-> "commit", item |-> up[h].item]
                ELSE IdleHandler]
    /\ UNCHANGED <<rows, bodies, objects, sweep, queue, snap, acked, worst,
                   stable>>

\* The transaction that inserts the shard and its reconstruction rows.
CommitShard(h) ==
    /\ up[h].pc = "commit"
    /\ rows[up[h].item].state = "absent"
    /\ rows' = [rows EXCEPT ![up[h].item] = PendingRow]
    /\ up' = [up EXCEPT ![h].pc = "sia"]
    /\ UNCHANGED <<bodies, objects, sweep, queue, snap, acked, worst, stable>>

DedupShard(h) ==
    /\ up[h].pc = "commit"
    /\ rows[up[h].item].state # "absent"
    /\ acked' = acked \cup {up[h].item}
    /\ up' = [up EXCEPT ![h] = IdleHandler]
    /\ UNCHANGED <<rows, bodies, objects, sweep, queue, snap, worst, stable>>

\* The request ends early: the client disconnects and its future is dropped,
\* the rate limiter refuses it, or a statement whose error is returned fails.
AbortUpload(h) ==
    /\ up[h].pc # "idle"
    /\ up' = [up EXCEPT ![h] = IdleHandler]
    /\ UNCHANGED <<rows, bodies, objects, sweep, queue, snap, acked, worst,
                   stable>>

-----------------------------------------------------------------------------
(***************************************************************************)
(* The reconciler: one task, xorbs first, then shards, row after row.      *)
(***************************************************************************)

IdleSweep == [phase |-> "idle", row |-> NULL, op |-> "none"]

NoSnap == [i \in Items |-> AbsentRow]

Stuck(i) ==
    /\ rows[i].state \in {"uploading", "pinning"}
    /\ rows[i].last \in {"null", "stale"}
    /\ rows[i].attempts < MaxPinAttempts

\* ORDER BY last_pin_attempt_at ASC NULLS FIRST LIMIT RECONCILER_BATCH.
Batches(table) ==
    LET stuck == {i \in table : Stuck(i)} IN
    {B \in SUBSET stuck :
        /\ Cardinality(B) <= BatchLimit
        /\ B # stuck => Cardinality(B) = BatchLimit
        /\ \A i \in B, j \in stuck \ B :
              rows[i].last = "stale" => rows[j].last # "null"}

FetchStuck(table, phase) ==
    /\ \E B \in Batches(table) :
        /\ queue' = B
        /\ snap' = [i \in Items |-> IF i \in B THEN rows[i] ELSE AbsentRow]
    /\ sweep' = [phase |-> phase, row |-> NULL, op |-> "none"]
    /\ UNCHANGED <<rows, bodies, objects, up, acked, worst, stable>>

FetchStuckXorbs == sweep.phase = "idle" /\ FetchStuck(Xorbs, "xorbs")

FetchStuckShards ==
    /\ sweep.phase = "xorbs"
    /\ queue = {}
    /\ FetchStuck(Shards, "shards")

\* The sweep is over, or its second SELECT failed.
EndSweep ==
    /\ queue = {}
    /\ sweep.phase = "shards" \/ (sweep.phase = "xorbs" /\ ~stable)
    /\ sweep' = IdleSweep
    /\ UNCHANGED <<rows, bodies, objects, up, queue, snap, acked, worst, stable>>

\* Mutant of RowOp: the stored body is not looked up.
RowOpWithoutBody(i) ==
    CASE snap[i].state = "uploading" -> "orphan"
      [] snap[i].state # "uploading" /\ snap[i].sia # NULL -> "pin_only"
      [] OTHER -> "lost"

\* reconcile_xorb_row, reconcile_shard_row: what to do with the row, from the
\* snapshot and, for a xorb without an id, from load_xorb_body.  Shard bytes
\* are kept nowhere.
RowOp(i) ==
    CASE snap[i].state = "uploading"           -> "orphan"
      [] snap[i].state # "uploading" /\ snap[i].sia # NULL -> "pin_only"
      [] snap[i].state # "uploading" /\ snap[i].sia = NULL
           /\ i \in Xorbs /\ i \in bodies      -> "upload_and_pin"
      [] OTHER                                 -> "lost"

TakeRow ==
    /\ sweep.row = NULL
    /\ \E i \in queue : sweep' = [sweep EXCEPT !.row = i, !.op = RowOp(i)]
    /\ UNCHANGED <<rows, bodies, objects, up, queue, snap, acked, worst, stable>>

\* The row's iteration of the loop ends.
NextRow ==
    /\ queue' = queue \ {sweep.row}
    /\ snap' = [snap EXCEPT ![sweep.row] = AbsentRow]
    /\ sweep' = [sweep EXCEPT !.row = NULL, !.op = "none"]
    /\ UNCHANGED <<bodies, up, acked, stable>>

Worsen(cause) ==
    worst' = [worst EXCEPT ![sweep.row] =
                IF cause = "timeout" /\ @ = "permanent" THEN @ ELSE cause]

\* 'uploading': orphaned on the first sweep, the bytes cannot be had.
OrphanRow ==
    /\ sweep.op = "orphan"
    /\ rows' = [rows EXCEPT ![sweep.row] = orphan(@)]
    /\ Worsen("permanent")
    /\ UNCHANGED objects
    /\ NextRow

\* pin_only on the snapshot's id succeeded.
RepinRow ==
    /\ sweep.op = "pin_only"
    /\ rows' = [rows EXCEPT
                  ![sweep.row] = set_pinned(@, snap[sweep.row].sia)]
    /\ UNCHANGED <<objects, worst>>
    /\ NextRow

\* upload_and_pin of the stored body succeeded.
ReuploadRow ==
    /\ sweep.op = "upload_and_pin"
    /\ \E o \in upload_and_pin(sweep.row) :
        /\ objects' = [objects EXCEPT ![o] = sweep.row]
        /\ rows' = [rows EXCEPT ![sweep.row] = set_pinned(@, o)]
    /\ UNCHANGED worst
    /\ NextRow

\* Mutant of is_transient: an unavailable indexer counts as permanent.
is_transient_never(i, outcome) == FALSE

\* is_transient, after the timeout of each kind was wrapped: `Other` for a
\* xorb, `Unavailable` for a shard.
is_transient(i, outcome) ==
    \/ outcome = "unavailable"
    \/ outcome = "timeout" /\ i \in Shards

FailRow ==
    /\ ~stable
    /\ sweep.op \in {"pin_only", "upload_and_pin"}
    /\ \E outcome \in SiaFailure :
        /\ rows' = [rows EXCEPT ![sweep.row] =
                      bump_attempt(@, snap[sweep.row].attempts,
                                   is_transient(sweep.row, outcome))]
        /\ CASE outcome = "unavailable" -> UNCHANGED worst
             [] outcome = "timeout"     -> Worsen("timeout")
             [] outcome = "other"       -> Worsen("permanent")
    /\ UNCHANGED objects
    /\ NextRow

\* Mutant of LostRow: missing bytes are taken for an outage.
LostRowTransient ==
    /\ sweep.op = "lost"
    /\ rows' = [rows EXCEPT ![sweep.row] =
                  bump_attempt(@, snap[sweep.row].attempts, TRUE)]
    /\ Worsen("permanent")
    /\ UNCHANGED objects
    /\ NextRow

\* No id and no bytes: counts as a permanent failure.
LostRow ==
    /\ sweep.op = "lost"
    /\ rows' = [rows EXCEPT ![sweep.row] =
                  bump_attempt(@, snap[sweep.row].attempts, FALSE)]
    /\ Worsen("permanent")
    /\ UNCHANGED objects
    /\ NextRow

\* A statement for the row failed: it is logged and the loop goes on.
SkipRow ==
    /\ ~stable
    /\ sweep.row # NULL
    /\ UNCHANGED <<rows, objects, worst>>
    /\ NextRow

-----------------------------------------------------------------------------
(***************************************************************************)
(* The environment.                                                        *)
(***************************************************************************)

\* STUCK_THRESHOLD passes after the last attempt on row i.  A request whose
\* budget is shorter than that is over by then.
AttemptAges(i) ==
    /\ rows[i].last = "recent"
    /\ BudgetBelowThreshold =>
          \A h \in Handlers : up[h].pc \in {"body", "sia"} => up[h].item # i
    /\ rows' = [rows EXCEPT ![i].last = "stale"]
    /\ UNCHANGED <<bodies, objects, up, sweep, queue, snap, acked, worst, stable>>

\* The process dies and is restarted; only the tables and Sia survive.
Crash ==
    /\ ~stable
    /\ up' = [h \in Handlers |-> IdleHandler]
    /\ sweep' = IdleSweep
    /\ queue' = {}
    /\ snap' = NoSnap
    /\ UNCHANGED <<rows, bodies, objects, acked, worst, stable>>

\* From here on no crash, no failing statement and no failing Sia call.
Stabilise ==
    /\ ~stable
    /\ stable' = TRUE
    /\ UNCHANGED <<rows, bodies, objects, up, sweep, queue, snap, acked, worst>>

-----------------------------------------------------------------------------
Init ==
    /\ rows = [i \in Items |-> IF i \in Seeded THEN SeededRow ELSE AbsentRow]
    /\ bodies = {}
    /\ objects = [o \in ObjIds |-> NULL]
    /\ up = [h \in Handlers |-> IdleHandler]
    /\ sweep = IdleSweep
    /\ queue = {}
    /\ snap = NoSnap
    /\ acked = {}
    /\ worst = [i \in Items |-> "none"]
    /\ stable = FALSE

\* The steps of a request that has begun.
Continue(h) ==
    \/ StoreBody(h)
    \/ SiaAccepts(h)
    \/ SiaFails(h)
    \/ CrossCheck(h)
    \/ CommitShard(h)
    \/ DedupShard(h)

Upload(h) ==
    \/ \E x \in Xorbs : InsertXorb(h, x) \/ DedupXorb(h, x)
    \/ \E s \in Shards : ReviveOrphans(h, s)
    \/ Continue(h)
    \/ AbortUpload(h)

Reconcile ==
    \/ FetchStuckXorbs
    \/ FetchStuckShards
    \/ EndSweep
    \/ TakeRow
    \/ OrphanRow
    \/ RepinRow
    \/ ReuploadRow
    \/ FailRow
    \/ LostRow
    \/ SkipRow

Environment ==
    \/ \E i \in Items : AttemptAges(i)
    \/ Crash
    \/ Stabilise

Next ==
    \/ \E h \in Handlers : Upload(h)
    \/ Reconcile
    \/ Environment

Spec == Init /\ [][Next]_vars

(***************************************************************************)
(* The reconciler task and the handlers keep running (tokio polls them,    *)
(* and every Sia call is bounded by a timeout), time passes, and the       *)
(* environment stabilises.  Clients owe nothing: no fairness on new        *)
(* requests.                                                               *)
(***************************************************************************)
Fairness ==
    /\ WF_vars(Reconcile)
    /\ \A h \in Handlers : WF_vars(Continue(h))
    /\ \A i \in Items : WF_vars(AttemptAges(i))
    /\ WF_vars(Stabilise)

FairSpec == Spec /\ Fairness

-----------------------------------------------------------------------------
(***************************************************************************)
(* Invariants.                                                             *)
(***************************************************************************)

\* Every variable stays in its type: in particular a row is always one of
\* the schema's states, a row without an attempt time has neither attempts
\* nor an outcome (revive_orphaned_xorbs resets all three columns at once),
\* and a request or sweep never works on a NULL item.
TypeOK ==
    /\ rows \in [Items -> Row]
    /\ bodies \subseteq Xorbs
    /\ objects \in [ObjIds -> Items \cup {NULL}]
    /\ up \in [Handlers -> [pc   : {"idle", "body", "sia", "check", "commit"},
                           item : Items \cup {NULL}]]
    /\ \A h \in Handlers :
        /\ up[h].pc \in {"body"} => up[h].item \in Xorbs
        /\ up[h].pc \in {"check", "commit"} => up[h].item \in Shards
        /\ up[h].pc = "sia" => up[h].item \in Items
    /\ sweep \in [phase : {"idle", "xorbs", "shards"},
                  row   : Items \cup {NULL},
                  op    : {"none", "orphan", "pin_only", "upload_and_pin",
                           "lost"}]
    /\ sweep.op # "none" => sweep.row \in queue
    /\ sweep.row # NULL => sweep.op # "none"
    /\ queue \subseteq Items
    /\ snap \in [Items -> Row]
    /\ acked \subseteq Items
    /\ worst \in [Items -> {"none", "timeout", "permanent"}]
    /\ stable \in BOOLEAN

\* A stored sia_object_id always names a Sia object that holds exactly this
\* item's bytes, and a row served as 'pinned' has one: whichever of the
\* handler and the reconciler wrote last, and although their two UPDATEs
\* prefer different ids (set_pin_state the new one, set_pinned_xorb the
\* stored one), the gateway never resolves a hash to foreign bytes.
PinnedNamesItsObject ==
    \A i \in Items :
        /\ rows[i].sia # NULL => objects[rows[i].sia] = i
        /\ rows[i].state = "pinned" => rows[i].sia # NULL

\* A committed shard never references a xorb whose bytes the CAS does not
\* hold: the cross-check runs statements before the transaction, without a
\* lock, and nothing that runs between them may undo what it saw.
AcceptedShardIsDurable ==
    \A s \in Shards \ Seeded : rows[s].state # "absent" =>
        \A x \in Refs[s] : x \in bodies /\ rows[x].state # "absent"

\* The reconciler gives up on a row only when MAX_PIN_ATTEMPTS attempts are
\* on the row itself, although bump_xorb_attempt tests the cap on a count
\* it read at the start of the sweep, up to a whole batch of Sia calls
\* earlier.  (A row seeded as 'uploading' is orphaned without attempts.)
OrphanedMeansExhausted ==
    \A i \in Items \ Seeded :
        rows[i].state = "orphaned" => rows[i].attempts >= MaxPinAttempts

\* The failures that count toward the cap: for a xorb a timeout and worse, for
\* a shard only a permanent error or missing bytes.
Counted(i, failure) ==
    failure # "none" /\ (i \in Shards => failure = "permanent")

\* An outage alone (`Unavailable` answers; for a shard timeouts too) never
\* orphans a row, however long it lasts and however handler and reconciler
\* interleave: an orphan has met a failure that counts.  (That a timeout
\* counts for a xorb is OnlyPermanentFailuresOrphan's business, below.)
OutageNeverOrphans ==
    \A i \in Items : rows[i].state = "orphaned" => Counted(i, worst[i])

\* A row the reconciler should still work on is one it still selects: with
\* a request budget below the threshold, no interleaving of the handler's
\* increment and the reconciler's leaves a 'pinning' row at the cap, where
\* it would be neither retried nor orphaned.
PinningIsSwept ==
    \A i \in Items :
        rows[i].state = "pinning" => rows[i].attempts < MaxPinAttempts

(***************************************************************************)
(* Action properties.                                                      *)
(***************************************************************************)

Uploading(h, i) == up[h].pc = "sia" /\ up[h].item = i

\* No step loses a stored object id, and only the request that inserted the
\* row may replace it (set_pin_state with a fresh id): the reconciler, a
\* revive and a crash never touch it.
ObjectIdIsKept ==
    [][\A i \in Items : rows[i].sia # NULL =>
          \/ rows'[i].sia = rows[i].sia
          \/ rows'[i].sia # NULL /\ \E h \in Handlers : Uploading(h, i)]_vars

\* With a request budget below the threshold, the reconciler never takes a
\* row out of 'pinned', although its orphan UPDATE does not test the state:
\* only the row's own upload request can.
ReconcilerNeverDemotes ==
    [][\A i \in Items :
          rows[i].state = "pinned" /\ rows'[i].state # "pinned" =>
              \E h \in Handlers : Uploading(h, i)]_vars

(***************************************************************************)
(* Refinement: what a reader sees of the rows.                             *)
(***************************************************************************)

Life == INSTANCE ObjectLife
        WITH life    <- [i \in Items |-> rows[i].state],
             id      <- [i \in Items |-> rows[i].sia],
             content <- objects

\* For a reader the handlers and the reconciler, which write the same rows
\* without locks and from stale snapshots, behave as ObjectLife: rows are
\* only inserted, pinned under an id that holds their bytes, requeued or
\* given up, and bytes under a stored id never change.
ImplementsObjectLife == Life!Spec

(***************************************************************************)
(* Liveness.                                                               *)
(***************************************************************************)

\* Once failures stop, every row leaves the sweep: pinned or orphaned.
EveryRowSettles ==
    \A i \in Items :
        (stable /\ rows[i].state # "absent")
            ~> (rows[i].state \in {"pinned", "orphaned"})

\* Once failures stop, a pending xorb whose bytes are in xorb_bodies reaches
\* Sia: the recovery path of load_xorb_body and upload_and_pin.
DurableXorbReachesSia ==
    \A x \in Xorbs :
        (stable /\ rows[x].state = "pinning" /\ x \in bodies)
            ~> (rows[x].state = "pinned")

(***************************************************************************)
(* What the comments and the docs say and the code does not do.            *)
(***************************************************************************)

\* docs-site write-path.mdx draws no arrow out of 'pinned'; a request that
\* times out after the reconciler pinned its row sets it back to 'pinning'.
PinnedIsFinal ==
    [][\A i \in Items :
          rows[i].state = "pinned" => rows'[i].state = "pinned"]_vars

\* write-path.mdx: "a passing outage cannot strand durable data", and
\* MAX_PIN_ATTEMPTS: "only PERMANENT failures count toward this cap"; a Sia
\* call on a xorb that runs into SIA_OP_TIMEOUT is recorded as `Other` and
\* counts, so timeouts alone orphan a xorb whose body is stored.
OnlyPermanentFailuresOrphan ==
    \A x \in bodies : rows[x].state = "orphaned" => worst[x] = "permanent"

\* upload_xorb: "the body is durable in `xorb_bodies` and the row stays
\* 'pinning', so accept the xorb (200)"; the body may never have been stored.
AckedXorbIsDurable ==
    \A x \in Xorbs : x \in acked => x \in bodies \/ rows[x].sia # NULL

\* upload_shard: a shard accepted while Sia is down is retried by the
\* reconciler "once contracts exist"; its bytes are kept nowhere.
AcceptedShardReachesSia ==
    \A s \in Shards :
        (stable /\ s \in acked /\ rows[s].state = "pinning")
            ~> (rows[s].state = "pinned")

=============================================================================
