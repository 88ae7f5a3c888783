----------------------------- MODULE XorbCache -----------------------------
(***************************************************************************)
(* The gateway's download path: the whole-xorb disk LRU (cache.go), the    *)
(* cache-miss coalescer over singleflight (singleflight.go) and the        *)
(* request handler that drives them (getXorbSource in handlers.go).        *)
(*                                                                         *)
(* A section under the cache's mutex is one step, and so is each file      *)
(* system call; between them every other request may run.  A request is    *)
(* admitted here after its signed URL was verified and LookupXorb found    *)
(* the xorb pinned.                                                        *)
(***************************************************************************)
EXTENDS Integers, Sequences, FiniteSets, SequencesExt

CONSTANTS
    Hashes,     \* xorb hashes
    Requests,   \* concurrent GET /xorb/{hash} requests
    Size,       \* Size[h]: size_bytes of the xorb in Postgres
    MaxBytes,   \* CACHE_SIZE_BYTES
    DiskFails,  \* a file may fail to be created, written, renamed or opened
    NULL

ASSUME SizeAssumption == Size \in [Hashes -> Nat] /\ IsFiniteSet(Hashes)
ASSUME MaxBytesAssumption == MaxBytes \in Nat \ {0}
ASSUME DiskFailsAssumption == DiskFails \in BOOLEAN
ASSUME NoHashAssumption == NULL \notin Hashes \cup Requests

VARIABLES
    lru,        \* the list of cached hashes, most recently used first; the
                \* index map has the same entries
    bytesUsed,
    disk,       \* disk[h]: the content of <hash>.bin
    tmp,        \* tmp[h]: the content of <hash>.bin.tmp and its writer
    req,        \* req[r]: where request r stands
    writer,     \* writer[r]: the download goroutine of leader r
    flight,     \* flight[h]: the leader of the singleflight call, or NULL
    gone        \* requests whose client has disconnected (ctx canceled)

vars == <<lru, bytesUsed, disk, tmp, req, writer, flight, gone>>

cache == <<lru, bytesUsed>>
files == <<disk, tmp>>

-----------------------------------------------------------------------------
IdleRequest == [pc |-> "idle", hash |-> NULL, stage |-> "fast", fd |-> "none",
                put |-> "none", answer |-> "none"]

NoTmp == [content |-> "none", by |-> NULL]

Answered(answer) == [IdleRequest EXCEPT !.pc = "done", !.answer = answer]

\* ServeXorb reaches getXorbSource.
Start(r, h) ==
    /\ req[r].pc \in {"idle", "done"}
    /\ req' = [req EXCEPT ![r] = [IdleRequest EXCEPT !.pc = "lookup", !.hash = h]]
    /\ gone' = gone \ {r}
    /\ UNCHANGED <<cache, files, writer, flight>>

Cached(h) == \E n \in 1..Len(lru) : lru[n] = h

\* The list without the element the index map has for h, if it has one.
Without(h) ==
    IF Cached(h) THEN RemoveAt(lru, CHOOSE n \in 1..Len(lru) : lru[n] = h) ELSE lru

\* Open reported ErrCacheMiss: the fast path goes to the coalescer, the
\* leader's re-check to the download, the re-open after the flight to a 502.
AfterMiss(r) ==
    CASE req[r].stage = "fast"    -> [req[r] EXCEPT !.pc = "join"]
      [] req[r].stage = "recheck" -> [req[r] EXCEPT !.pc = "create"]
      [] req[r].stage = "reopen"  -> Answered(IF r \in gone THEN "empty" ELSE "502")

\* Open, the section under the mutex.
OpenLookup(r) ==
    LET h == req[r].hash IN
    /\ req[r].pc = "lookup"
    /\ IF Cached(h)
       THEN /\ lru' = <<h>> \o Without(h)
            /\ req' = [req EXCEPT ![r].pc = "open"]
       ELSE /\ UNCHANGED lru
            /\ req' = [req EXCEPT ![r] = AfterMiss(r)]
    /\ UNCHANGED <<bytesUsed, files, writer, flight, gone>>

\* Mutant of Land: the followers are not woken.
LandLeaderOnly(h, result) ==
    /\ flight' = [flight EXCEPT ![h] = NULL]
    /\ req' = [req EXCEPT ![flight[h]] =
                 IF result = "ok"
                 THEN [@ EXCEPT !.pc = "lookup", !.stage = "reopen"]
                 ELSE Answered(IF result = "canceled" THEN "empty" ELSE "502")]

\* The flight of hash h is over: its leader and its followers see `result`.
\* A canceled download is taken for the request's own disconnection.
Land(h, result) ==
    /\ flight' = [flight EXCEPT ![h] = NULL]
    /\ req' = [r \in Requests |->
                 IF req[r].hash = h /\ (flight[h] = r \/ req[r].pc = "wait")
                 THEN CASE result = "ok" ->
                             [req[r] EXCEPT !.pc = "lookup", !.stage = "reopen"]
                        [] result = "canceled" \/ (result = "failed" /\ r \in gone) ->
                             Answered("empty")
                        [] OTHER -> Answered("502")
                 ELSE req[r]]

\* Open, the os.Open of the captured path.  The leader's re-check does not
\* use the file it gets: the flight is over.
OpenFile(r) ==
    LET h == req[r].hash IN
    /\ req[r].pc = "open"
    /\ \/ /\ disk[h] = "none" \/ DiskFails
          /\ req' = [req EXCEPT ![r].pc = "drop"]
          /\ UNCHANGED flight
       \/ /\ disk[h] # "none"
          /\ req[r].stage # "recheck"
          /\ req' = [req EXCEPT ![r].pc = "serve", ![r].fd = disk[h]]
          /\ UNCHANGED flight
       \/ /\ disk[h] # "none"
          /\ req[r].stage = "recheck"
          /\ Land(h, "ok")
    /\ UNCHANGED <<cache, files, writer, gone>>

\* Mutant of OpenDrop: the index is not looked up again.
OpenDropBlindly(r) ==
    LET h == req[r].hash IN
    /\ req[r].pc = "drop"
    /\ lru' = Without(h)
    /\ bytesUsed' = bytesUsed - Size[h]
    /\ req' = [req EXCEPT ![r] = AfterMiss(r)]
    /\ UNCHANGED <<files, writer, flight, gone>>

\* Open, the file has vanished: the entry with this path is dropped.
OpenDrop(r) ==
    LET h == req[r].hash IN
    /\ req[r].pc = "drop"
    /\ IF Cached(h)
       THEN lru' = Without(h) /\ bytesUsed' = bytesUsed - Size[h]
       ELSE UNCHANGED cache
    /\ req' = [req EXCEPT ![r] = AfterMiss(r)]
    /\ UNCHANGED <<files, writer, flight, gone>>

\* Mutants of Do: every caller runs its function, or the leader skips the
\* re-check of the cache.
DoUncoalesced(r) ==
    LET h == req[r].hash IN
    /\ req[r].pc = "join"
    /\ flight' = [flight EXCEPT ![h] = r]
    /\ req' = [req EXCEPT ![r].pc = "lookup", ![r].stage = "recheck"]
    /\ UNCHANGED <<cache, files, writer, gone>>

DoWithoutRecheck(r) ==
    LET h == req[r].hash IN
    /\ req[r].pc = "join"
    /\ IF flight[h] = NULL
       THEN /\ flight' = [flight EXCEPT ![h] = r]
            /\ req' = [req EXCEPT ![r].pc = "create", ![r].stage = "recheck"]
       ELSE /\ UNCHANGED flight
            /\ req' = [req EXCEPT ![r].pc = "wait"]
    /\ UNCHANGED <<cache, files, writer, gone>>

\* MissCoalescer.Do: the first caller leads and runs the function, which
\* begins with a re-check of the cache; the others wait.
Do(r) ==
    LET h == req[r].hash IN
    /\ req[r].pc = "join"
    /\ IF flight[h] = NULL
       THEN /\ flight' = [flight EXCEPT ![h] = r]
            /\ req' = [req EXCEPT ![r].pc = "lookup", ![r].stage = "recheck"]
       ELSE /\ UNCHANGED flight
            /\ req' = [req EXCEPT ![r].pc = "wait"]
    /\ UNCHANGED <<cache, files, writer, gone>>

-----------------------------------------------------------------------------
(***************************************************************************)
(* FetchAndCache and Put, run by the leader of a flight.                   *)
(***************************************************************************)

\* DownloadRange ends in an error, of its own or of its canceled context.
DownloadErrors(r) == {"failed"} \cup (IF r \in gone THEN {"canceled"} ELSE {})

PutFailed(r) == req' = [req EXCEPT ![r].pc = "drain", ![r].put = "failed"]

\* Mutant of PutCreate: the bytes are streamed to the final name.
PutCreateInPlace(r) ==
    LET h == req[r].hash IN
    /\ req[r].pc = "create"
    /\ writer' = [writer EXCEPT ![r] = "streaming"]
    /\ tmp' = [tmp EXCEPT ![h] = [content |-> "partial", by |-> r]]
    /\ disk' = [disk EXCEPT ![h] = "bad"]
    /\ req' = [req EXCEPT ![r].pc = "copy"]
    /\ UNCHANGED <<cache, flight, gone>>

\* The download goroutine starts; Put removes a stale temporary file and
\* creates its own.
PutCreate(r) ==
    LET h == req[r].hash IN
    /\ req[r].pc = "create"
    /\ \/ /\ writer' = [writer EXCEPT ![r] = "streaming"]
          /\ tmp' = [tmp EXCEPT ![h] = [content |-> "partial", by |-> r]]
          /\ req' = [req EXCEPT ![r].pc = "copy"]
       \/ /\ DiskFails
          /\ writer' = [writer EXCEPT ![r] = "blocked"]
          /\ tmp' = [tmp EXCEPT ![h] = NoTmp]
          /\ PutFailed(r)
    /\ UNCHANGED <<cache, disk, flight, gone>>

\* Mutant of PutCopy: neither the size nor the hash of the stream is compared.
PutCopyUnverified(r) ==
    LET h == req[r].hash IN
    /\ req[r].pc = "copy"
    /\ writer' = [writer EXCEPT ![r] = "ended"]
    /\ \E content \in {"good", "bad"} :
          tmp' = [tmp EXCEPT ![h].content = content]
    /\ req' = [req EXCEPT ![r].pc = "rename"]
    /\ UNCHANGED <<cache, disk, flight, gone>>

\* Mutant of PutCopy: the goroutine does not report a canceled download.
PutCopyKeepsCancel(r) ==
    LET h == req[r].hash
        cleanupTmp == tmp' = [tmp EXCEPT ![h] = NoTmp]
    IN
    /\ req[r].pc = "copy"
    /\ \/ /\ writer' = [writer EXCEPT ![r] = "ended"]
          /\ tmp' = [tmp EXCEPT ![h].content = IF tmp[h].by = r THEN "good" ELSE @]
          /\ req' = [req EXCEPT ![r].pc = "rename"]
       \/ /\ \E error \in {"ended", "failed"} : writer' = [writer EXCEPT ![r] = error]
          /\ cleanupTmp
          /\ PutFailed(r)
       \/ /\ r \in gone
          /\ UNCHANGED writer
          /\ cleanupTmp
          /\ PutFailed(r)
    /\ UNCHANGED <<cache, disk, flight, gone>>

\* The copy of the stream into the temporary file with the checks of size
\* and hash: it arrives whole; it arrives whole but is not what was asked
\* for, or fsync fails; the download fails or is canceled; the file cannot be
\* written and the rest of the stream is not read.
PutCopy(r) ==
    LET h == req[r].hash
        cleanupTmp == tmp' = [tmp EXCEPT ![h] = NoTmp]
    IN
    /\ req[r].pc = "copy"
    /\ \/ /\ writer' = [writer EXCEPT ![r] = "ended"]
          /\ tmp' = [tmp EXCEPT ![h].content = IF tmp[h].by = r THEN "good" ELSE @]
          /\ req' = [req EXCEPT ![r].pc = "rename"]
       \/ /\ writer' = [writer EXCEPT ![r] = "ended"]
          /\ cleanupTmp
          /\ PutFailed(r)
       \/ /\ \E error \in DownloadErrors(r) : writer' = [writer EXCEPT ![r] = error]
          /\ cleanupTmp
          /\ PutFailed(r)
       \/ /\ DiskFails
          /\ writer' = [writer EXCEPT ![r] = "blocked"]
          /\ cleanupTmp
          /\ PutFailed(r)
    /\ UNCHANGED <<cache, disk, flight, gone>>

\* os.Rename of whatever file has the temporary name by now.
PutRename(r) ==
    LET h == req[r].hash IN
    /\ req[r].pc = "rename"
    /\ tmp' = [tmp EXCEPT ![h] = NoTmp]
    /\ \/ /\ tmp[h] # NoTmp
          /\ disk' = [disk EXCEPT ![h] =
                        IF tmp[h].content = "good" THEN "good" ELSE "bad"]
          /\ req' = [req EXCEPT ![r].pc = "index"]
       \/ /\ tmp[h] = NoTmp \/ DiskFails
          /\ UNCHANGED disk
          /\ PutFailed(r)
    /\ UNCHANGED <<cache, writer, flight, gone>>

\* The sum of the sizes of a list's entries: how many bytes their files have.
SizeOf(list) == Cardinality(UNION {{h} \X (1..Size[h]) : h \in ToSet(list)})

\* evictLocked: how many tails go when `used` bytes are accounted to `list`.
evictLocked(list, used) ==
    CHOOSE k \in 0..Len(list) :
        /\ \/ k = Len(list)
           \/ used - SizeOf(SubSeq(list, Len(list) - k + 1, Len(list))) <= MaxBytes
        /\ \A j \in 0..(k - 1) :
              used - SizeOf(SubSeq(list, Len(list) - j + 1, Len(list))) > MaxBytes

\* The bookkeeping and eviction under the mutex.
PutIndex(r) ==
    LET h == req[r].hash
        list == <<h>> \o Without(h)
        used == (IF Cached(h) THEN bytesUsed - Size[h] ELSE bytesUsed) + Size[h]
        k == evictLocked(list, used)
        kept == SubSeq(list, 1, Len(list) - k)
        evicted == SubSeq(list, Len(list) - k + 1, Len(list))
    IN
    /\ req[r].pc = "index"
    /\ lru' = kept
    /\ bytesUsed' = used - SizeOf(evicted)
    /\ disk' = [g \in Hashes |-> IF g \in ToSet(evicted) THEN "none" ELSE disk[g]]
    /\ req' = [req EXCEPT ![r].pc = "drain", ![r].put = "ok"]
    /\ UNCHANGED <<tmp, writer, flight, gone>>

\* FetchAndCache waits for the download goroutine; its error comes first.
Drain(r) ==
    /\ req[r].pc = "drain"
    /\ writer[r] \notin {"streaming", "blocked"}
    /\ Land(req[r].hash,
            CASE writer[r] = "canceled" -> "canceled"
              [] writer[r] = "failed"   -> "failed"
              [] OTHER                  -> req[r].put)
    /\ writer' = [writer EXCEPT ![r] = "none"]
    /\ UNCHANGED <<cache, files, gone>>

\* A download whose pipe nobody reads any more is blocked in its next write:
\* it may still fail, or give up because its context is canceled.
WriterFails(r) ==
    /\ req[r].pc = "drain"
    /\ writer[r] = "blocked"
    /\ \E error \in DownloadErrors(r) : writer' = [writer EXCEPT ![r] = error]
    /\ UNCHANGED <<cache, files, req, flight, gone>>

-----------------------------------------------------------------------------
\* The bytes are sent from the open file, which is then closed.
Serve(r) ==
    /\ req[r].pc = "serve"
    /\ req' = [req EXCEPT ![r] = Answered("bytes")]
    /\ UNCHANGED <<cache, files, writer, flight, gone>>

Disconnect(r) ==
    /\ req[r].pc \notin {"idle", "done"}
    /\ r \notin gone
    /\ gone' = gone \cup {r}
    /\ UNCHANGED <<cache, files, req, writer, flight>>

\* The process dies; NewCache starts with a cold index, the files stay.
Restart ==
    /\ lru' = <<>>
    /\ bytesUsed' = 0
    /\ req' = [r \in Requests |-> IdleRequest]
    /\ writer' = [r \in Requests |-> "none"]
    /\ flight' = [h \in Hashes |-> NULL]
    /\ gone' = {}
    /\ tmp' = [h \in Hashes |-> [tmp[h] EXCEPT !.by = NULL]]
    /\ UNCHANGED disk

Init ==
    /\ lru = <<>>
    /\ bytesUsed = 0
    /\ disk = [h \in Hashes |-> "none"]
    /\ tmp = [h \in Hashes |-> NoTmp]
    /\ req = [r \in Requests |-> IdleRequest]
    /\ writer = [r \in Requests |-> "none"]
    /\ flight = [h \in Hashes |-> NULL]
    /\ gone = {}

\* The steps of a request that wait for nobody outside the gateway.
Proceed(r) ==
    \/ OpenLookup(r)
    \/ OpenFile(r)
    \/ OpenDrop(r)
    \/ Do(r)
    \/ PutCreate(r)
    \/ PutRename(r)
    \/ PutIndex(r)
    \/ Drain(r)

Continue(r) ==
    \/ Proceed(r)
    \/ PutCopy(r)
    \/ WriterFails(r)
    \/ Serve(r)

Next ==
    \/ \E r \in Requests, h \in Hashes : Start(r, h)
    \/ \E r \in Requests : Continue(r) \/ Disconnect(r)
    \/ Restart

Spec == Init /\ [][Next]_vars

(***************************************************************************)
(* Every goroutine keeps running.  A download that is being read ends once *)
(* the client of its leader is gone, because DownloadRange honours its     *)
(* context; nothing else in the gateway bounds one, so otherwise it may    *)
(* last for ever, as may one that is blocked on its pipe.  Clients owe     *)
(* nothing: they may stay for ever, read nothing and send nothing more.    *)
(***************************************************************************)
FairSpec ==
    /\ Spec
    /\ \A r \in Requests :
          WF_vars(Proceed(r)) /\ WF_vars(r \in gone /\ PutCopy(r))

-----------------------------------------------------------------------------
(***************************************************************************)
(* Invariants.                                                             *)
(***************************************************************************)

\* The requests in the function a flight runs, past the re-check.
Fetching(r) == req[r].pc \in {"create", "copy", "rename", "index", "drain"}

\* The download goroutine of a leader.
WriterState == {"none", "streaming", "blocked", "ended", "failed", "canceled"}

\* Every variable stays in its type; in particular a request that is under
\* way has a hash and a waiting one has a leader to wait for.
TypeOK ==
    /\ lru \in Seq(Hashes)
    /\ bytesUsed \in Int
    /\ disk \in [Hashes -> {"none", "good", "bad"}]
    /\ tmp \in [Hashes -> [content : {"none", "partial", "good", "bad"},
                           by      : Requests \cup {NULL}]]
    /\ req \in [Requests ->
                  [pc     : {"idle", "lookup", "open", "drop", "join", "wait",
                             "create", "copy", "rename", "index", "drain",
                             "serve", "done"},
                   hash   : Hashes \cup {NULL},
                   stage  : {"fast", "recheck", "reopen"},
                   fd     : {"none", "good", "bad"},
                   put    : {"none", "ok", "failed"},
                   answer : {"none", "bytes", "502", "empty"}]]
    /\ \A r \in Requests : req[r].pc = "wait" =>
          flight[req[r].hash] \in Requests \ {r}
    /\ writer \in [Requests -> WriterState]
    /\ flight \in [Hashes -> Requests \cup {NULL}]
    /\ gone \subseteq Requests

\* The byte count is the size of what is indexed and within the budget, with
\* no entry twice, although Open drops an entry it looked up in an earlier
\* critical section and Put inserts one it prepared outside the lock.
AccountingIsExact ==
    /\ bytesUsed = SizeOf(lru)
    /\ bytesUsed <= MaxBytes
    /\ \A m, n \in 1..Len(lru) : m # n => lru[m] # lru[n]

\* An indexed xorb is on disk, whole and verified: no eviction unlinks a file
\* that a concurrent Put has just renamed into place and is about to index.
IndexedFileIsGood == \A h \in Hashes : Cached(h) => disk[h] = "good"

\* No request ever sends bytes that were not verified against the hash, even
\* from a file left by a process that died.
ServedBytesAreVerified ==
    \A r \in Requests : req[r].pc = "serve" => req[r].fd = "good"

\* At most one Sia download runs per hash, so the fixed name of the temporary
\* file has one writer.
OneFetchPerHash ==
    \A r, s \in Requests :
        r # s /\ Fetching(r) /\ Fetching(s) => req[r].hash # req[s].hash

(***************************************************************************)
(* Action and liveness properties.                                         *)
(***************************************************************************)

\* A download begins only for a xorb the cache does not hold at that moment:
\* the re-check inside the flight closes the window between the fast path's
\* miss and the election of the leader.
NoRefetchOfCached ==
    [][\A r \in Requests : PutCreate(r) => ~Cached(req[r].hash)]_vars

\* The download of leader l does not end: Sia is still sending, or has gone
\* silent, and the client of l is there; or the local disk has failed, Put
\* has returned and the download is blocked on the pipe.
Unfinished(l) ==
    \/ req[l].pc = "copy" /\ l \notin gone
    \/ writer[l] = "blocked"

\* Request r leads, or waits for, a download that does not end.
HeldUp(r) ==
    \E h \in Hashes, l \in Requests :
        /\ req[r].hash = h /\ flight[h] = l
        /\ l = r \/ req[r].pc = "wait"
        /\ Unfinished(l)

\* Every request gets a file to send or an answer, whoever leads its flight
\* and whatever fails, unless the one download it shares never ends; and it
\* is left without bytes and without a 502 only when its own client is gone
\* or, since followers are handed the leader's error, the leader's is.
EveryRequestAnswered ==
    /\ \A r \in Requests :
          (req[r].pc \notin {"idle", "serve", "done"}) ~>
              (req[r].pc \in {"idle", "serve", "done"} \/ []HeldUp(r))
    /\ [][\A r \in Requests :
            req[r].answer # "empty" /\ req'[r].answer = "empty" =>
                \/ r \in gone
                \/ req[r].pc = "wait" /\ flight[req[r].hash] \in gone]_vars

(***************************************************************************)
(* What the comments say and the code does not do.                         *)
(***************************************************************************)

\* Put: "The function drains `src` to EOF before returning"; it returns when
\* the temporary file cannot be created or written, and FetchAndCache then
\* waits for a download that nobody reads, with every follower.
PutDrainsSource ==
    \A r \in Requests : writer[r] # "blocked"

\* getXorbSource: when the leader's context is canceled "the handler then
\* falls back to the legacy SDK-direct path via the nil-cache branch, OR
\* surfaces 502"; a follower gets the empty answer that ServeXorb keeps for
\* "Nothing to write; client is gone", and its own client is there.
EmptyAnswerMeansGone ==
    \A r \in Requests : req[r].answer = "empty" => r \in gone

=============================================================================
