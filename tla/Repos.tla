-------------------------------- MODULE Repos --------------------------------
(***************************************************************************)
(* The model hub: repositories, their commits and the ref `main`, and the  *)
(* two ways hf_hub reads them (a listing of HEAD followed by its files by  *)
(* commit, and a file by the name of the branch).                          *)
(*                                                                         *)
(* A handler runs one SQL statement at a time and others run in between.   *)
(* Nothing is locked while commit checks its files; its last five          *)
(* statements are one READ COMMITTED transaction, in which the upsert of   *)
(* the ref waits for the row's lock and everything becomes visible at      *)
(* once.  Contents stand for themselves and for their SHA-256; a file's    *)
(* Xet hash is named by its content too.                                   *)
(***************************************************************************)
EXTENDS Integers, Sequences, FiniteSets, SequencesExt

CONSTANTS
    Names,      \* {owner}/{name} pairs
    Requests,   \* writing requests being handled
    Clients,    \* readers
    Contents,   \* what a file can contain
    Large,      \* the contents that clients transfer ahead of the commit
    Paths,      \* paths inside a repository
    Payloads,   \* the file entries of a commit: sequences of Entry
    main,       \* the name of the branch
    MaxCommits, \* bound on the commit ids handed out
    NULL

Ids == 1..MaxCommits

\* CommitFile: what a line of the payload says about a file.
Entry ==
    [path : Paths, xet_hash : Contents \cup {NULL},
     oid : Contents \cup {NULL}, content : Contents \cup {NULL},
     sized : BOOLEAN]

\* A repo_files row but for its key: one of the two hashes is NULL.
XetFile(h) == [xet_hash |-> h, lfs_oid |-> NULL]
LfsFile(h) == [xet_hash |-> NULL, lfs_oid |-> h]
Files == {XetFile(h) : h \in Contents} \cup {LfsFile(h) : h \in Contents}

\* A repo_commits row with its repo_files; the history field payload is what it
\* was made from.
Commit ==
    [repo : Names, parent : Ids \cup {NULL}, payload : Seq(Entry),
     files : UNION {[P -> Files] : P \in SUBSET Paths}]

ASSUME ReposAssumption ==
    /\ MaxCommits \in Nat
    /\ Large \subseteq Contents
    /\ Payloads \subseteq Seq(Entry)
    /\ IsFiniteSet(Requests)
    /\ main \notin Ids
    /\ NULL \notin Ids \cup Contents \cup Commit

VARIABLES
    repo,       \* repos rows: the visibility, NULL without a row
    lfs,        \* contents in lfs_objects
    registered, \* contents with a reconstruction_files row
    xorbs,      \* hashes with an xorbs row
    commits,    \* repo_commits and their repo_files, NULL until visible
    next,       \* the next value of the repo_commits id sequence
    head,       \* repo_refs: the commit main points to
    ref_lock,   \* the transaction that holds the ref's row
    request,    \* where each writing request is
    client,     \* where each reader is
    log         \* history: the commits of a repository as they became visible

stored == <<lfs, registered, xorbs>>
vars == <<repo, stored, commits, next, head, ref_lock, request, client, log>>

Idle ==
    [pc |-> "idle", repo |-> NULL, private |-> FALSE, payload |-> <<>>,
     rows |-> <<>>, parent |-> NULL, id |-> NULL]

Away ==
    [pc |-> "away", repo |-> NULL, sha |-> NULL, listing |-> <<>>,
     path |-> NULL, from |-> NULL, file |-> NULL, said |-> NULL]

Init ==
    /\ repo = [n \in Names |-> NULL]
    /\ lfs = {} /\ registered = {} /\ xorbs = {}
    /\ commits = [i \in Ids |-> NULL]
    /\ next = 1
    /\ head = [n \in Names |-> NULL]
    /\ ref_lock = [n \in Names |-> NULL]
    /\ request = [r \in Requests |-> Idle]
    /\ client = [c \in Clients |-> Away]
    /\ log = [n \in Names |-> <<>>]

-----------------------------------------------------------------------------
(* create_repo: a SELECT, and an INSERT if it found nothing.  A second     *)
(* INSERT of the same name is refused by UNIQUE (owner_user_id, name).     *)

create_select(r, n, private) ==
    /\ request[r].pc = "idle"
    /\ repo[n] = NULL
    /\ request' = [request EXCEPT ![r] =
                       [Idle EXCEPT !.pc = "create", !.repo = n,
                                    !.private = private]]
    /\ UNCHANGED <<repo, stored, commits, next, head, ref_lock, client, log>>

create_insert(r) ==
    LET n == request[r].repo IN
    /\ request[r].pc = "create"
    /\ repo' = IF repo[n] # NULL THEN repo
               ELSE [repo EXCEPT ![n] = IF request[r].private
                                        THEN "private" ELSE "public"]
    /\ request' = [request EXCEPT ![r] = Idle]
    /\ UNCHANGED <<stored, commits, next, head, ref_lock, client, log>>

-----------------------------------------------------------------------------
(* What the content tables get from elsewhere.                             *)

\* lfs_upload: only a body that has the digest in the URL gets this far.
lfs_upload(c) ==
    /\ lfs' = lfs \cup {c}
    /\ UNCHANGED <<repo, registered, xorbs, commits, next, head, ref_lock,
                   request, client, log>>

\* A shard that describes the content, and an xorb of that hash.
RegisterShard(c) ==
    /\ registered' = registered \cup {c}
    /\ UNCHANGED <<repo, lfs, xorbs, commits, next, head, ref_lock, request,
                   client, log>>

UploadXorb(c) ==
    /\ xorbs' = xorbs \cup {c}
    /\ UNCHANGED <<repo, lfs, registered, commits, next, head, ref_lock,
                   request, client, log>>

-----------------------------------------------------------------------------
(* commit.                                                                 *)

\* Requests that may still take an id.
Pending ==
    {r \in Requests : request[r].pc \in {"check", "insert"}}

\* find_repo_id, require_ownership and the parsing of the body.
commit_begin(r, n, payload) ==
    /\ request[r].pc = "idle"
    /\ repo[n] # NULL
    /\ next + Cardinality(Pending) <= MaxCommits
    /\ request' = [request EXCEPT ![r] =
                       [Idle EXCEPT !.pc = "check", !.repo = n,
                                    !.payload = payload]]
    /\ UNCHANGED <<repo, stored, commits, next, head, ref_lock, client, log>>

\* Mutant of Backend: an oid that was never uploaded passes if it has a size.
Backend_vouched(e) ==
    IF e.xet_hash # NULL \/ (e.content = NULL /\ e.sized /\ e.oid \notin lfs)
    THEN XetFile(IF e.xet_hash # NULL THEN e.xet_hash ELSE e.oid)
    ELSE LfsFile(IF e.content # NULL THEN e.content ELSE e.oid)

\* The backend an entry resolves to, NULL when the commit is refused: an Xet
\* hash with an xorbs row or a size of its own, inline content that has the oid
\* if one is given, an oid in lfs_objects, or an oid and size that a shard
\* registered.
Backend(e) ==
    CASE e.xet_hash # NULL ->
            IF e.xet_hash \in xorbs \/ e.sized THEN XetFile(e.xet_hash)
            ELSE NULL
      [] e.xet_hash = NULL /\ e.content # NULL ->
            IF e.oid \in {NULL, e.content} THEN LfsFile(e.content) ELSE NULL
      [] e.xet_hash = NULL /\ e.content = NULL /\ e.oid \in lfs ->
            LfsFile(e.oid)
      [] e.xet_hash = NULL /\ e.content = NULL /\ e.oid \in registered \ lfs ->
            IF e.sized THEN XetFile(e.oid) ELSE NULL
      [] OTHER -> NULL

\* One entry of the validation loop; inline content is stored on the way, and
\* stays there when a later entry is refused.
commit_check(r) ==
    LET rq == request[r]
        e == rq.payload[Len(rq.rows) + 1]
        b == Backend(e)
    IN  /\ rq.pc = "check"
        /\ Len(rq.rows) < Len(rq.payload)
        /\ lfs' = IF b # NULL /\ b.lfs_oid # NULL THEN lfs \cup {b.lfs_oid}
                  ELSE lfs
        /\ request' = [request EXCEPT ![r] =
                           IF b = NULL THEN Idle
                           ELSE [rq EXCEPT !.rows =
                                     Append(@, [path |-> e.path, file |-> b])]]
        /\ UNCHANGED <<repo, registered, xorbs, commits, next, head, ref_lock,
                       client, log>>

\* Mutant of commit_parent: the parent is the last id handed out, not the ref.
commit_parent_last_id(r) ==
    LET rq == request[r] IN
    /\ rq.pc = "check"
    /\ Len(rq.rows) = Len(rq.payload)
    /\ request' = [request EXCEPT ![r] =
                       [rq EXCEPT !.pc = "insert",
                                  !.parent = IF next = 1 THEN NULL
                                             ELSE next - 1]]
    /\ UNCHANGED <<repo, stored, commits, next, head, ref_lock, client, log>>

\* The transaction begins: the SELECT of the parent.
commit_parent(r) ==
    LET rq == request[r] IN
    /\ rq.pc = "check"
    /\ Len(rq.rows) = Len(rq.payload)
    /\ request' = [request EXCEPT ![r] =
                       [rq EXCEPT !.pc = "insert", !.parent = head[rq.repo]]]
    /\ UNCHANGED <<repo, stored, commits, next, head, ref_lock, client, log>>

\* Mutant of commit_insert: the id is one above the largest visible one.
commit_insert_max_id(r) ==
    LET rq == request[r] IN
    /\ rq.pc = "insert"
    /\ request' = [request EXCEPT ![r] =
                       [rq EXCEPT !.pc = "upsert",
                                  !.id = 1 + Cardinality({i \in Ids :
                                                        commits[i] # NULL})]]
    /\ UNCHANGED <<repo, stored, commits, next, head, ref_lock, client, log>>

\* The INSERTs into repo_commits and repo_files, which nobody else sees yet.
\* Two entries of one path break the primary key: the transaction rolls back,
\* and its id is spent.
commit_insert(r) ==
    LET rq == request[r] IN
    /\ rq.pc = "insert"
    /\ next' = next + 1
    /\ request' = [request EXCEPT ![r] =
                       IF \E i, j \in DOMAIN rq.rows :
                              i # j /\ rq.rows[i].path = rq.rows[j].path
                       THEN Idle
                       ELSE [rq EXCEPT !.pc = "upsert", !.id = next]]
    /\ UNCHANGED <<repo, stored, commits, head, ref_lock, client, log>>

\* Mutant of commit_upsert: the upsert of the ref runs outside the transaction.
commit_upsert_autocommit(r) ==
    LET rq == request[r] IN
    /\ rq.pc = "upsert"
    /\ ref_lock[rq.repo] = NULL
    /\ head' = [head EXCEPT ![rq.repo] = rq.id]
    /\ request' = [request EXCEPT ![r].pc = "commit"]
    /\ UNCHANGED <<repo, stored, commits, next, ref_lock, client, log>>

\* The upsert of the ref waits for the transaction that holds its row.
commit_upsert(r) ==
    LET rq == request[r] IN
    /\ rq.pc = "upsert"
    /\ ref_lock[rq.repo] = NULL
    /\ ref_lock' = [ref_lock EXCEPT ![rq.repo] = r]
    /\ request' = [request EXCEPT ![r].pc = "commit"]
    /\ UNCHANGED <<repo, stored, commits, next, head, client, log>>

\* The manifest of a commit: the rows of this payload and no others.
Manifest(rows) ==
    [p \in {rows[i].path : i \in DOMAIN rows} |->
        rows[CHOOSE i \in DOMAIN rows : rows[i].path = p].file]

\* UPDATE repos and COMMIT: the commit, its files and the ref at once.
commit_commit(r) ==
    LET rq == request[r] IN
    /\ rq.pc = "commit"
    /\ commits' = [commits EXCEPT ![rq.id] =
                       [repo |-> rq.repo, parent |-> rq.parent,
                        payload |-> rq.payload, files |-> Manifest(rq.rows)]]
    /\ head' = [head EXCEPT ![rq.repo] = rq.id]
    /\ ref_lock' = [ref_lock EXCEPT ![rq.repo] = NULL]
    /\ log' = [log EXCEPT ![rq.repo] = Append(@, rq.id)]
    /\ request' = [request EXCEPT ![r] = Idle]
    /\ UNCHANGED <<repo, stored, next, client>>

\* Mutant of Drop: the connection returns to the pool with its transaction open.
Drop_keeps_lock(r) ==
    /\ request[r].pc # "idle"
    /\ request' = [request EXCEPT ![r] = Idle]
    /\ UNCHANGED <<repo, stored, commits, next, head, ref_lock, client, log>>

\* The handler is dropped: its process ends, its client leaves or a statement
\* fails.  An open transaction rolls back and its locks go.
Drop(r) ==
    /\ request[r].pc # "idle"
    /\ request' = [request EXCEPT ![r] = Idle]
    /\ ref_lock' = [n \in Names |->
                       IF ref_lock[n] = r THEN NULL ELSE ref_lock[n]]
    /\ UNCHANGED <<repo, stored, commits, next, head, client, log>>

-----------------------------------------------------------------------------
(* Reads.  hf_hub lists HEAD and then asks for its files by commit.        *)

\* require_readable.
Readable(n, owner) == repo[n] = "public" \/ (owner /\ repo[n] = "private")

\* The SHA in a URL is found among the repository's commits.
Revision(n, sha) == sha \in Ids /\ commits[sha] # NULL /\ commits[sha].repo = n

\* model_info, up to the first query of build_model_info.
model_info(c, n, owner) ==
    /\ client[c].pc = "away"
    /\ Readable(n, owner)
    /\ head[n] # NULL
    /\ client' = [client EXCEPT ![c] =
                      [Away EXCEPT !.pc = "listing", !.repo = n,
                                   !.sha = head[n]]]
    /\ UNCHANGED <<repo, stored, commits, next, head, ref_lock, request, log>>

\* Its second query.
siblings(c) ==
    /\ client[c].pc = "listing"
    /\ client' = [client EXCEPT ![c].pc = "listed",
                                ![c].listing = commits[client[c].sha].files]
    /\ UNCHANGED <<repo, stored, commits, next, head, ref_lock, request, log>>

\* Mutant of Resolved: every revision is served from HEAD.
Resolved_head(n, revision) == head[n]

\* The commit resolve_lookup takes a file from.
Resolved(n, revision) == IF revision = main THEN head[n] ELSE revision

\* resolve_head and resolve_get: the query of the file's row, by commit for a
\* file of the listing or by the name of the branch.
resolve_lookup(c, n, revision, p) ==
    LET i == Resolved(n, revision) IN
    /\ \/ client[c].pc = "listed" /\ n = client[c].repo
          /\ revision = client[c].sha /\ p \in DOMAIN client[c].listing
       \/ client[c].pc = "away" /\ revision = main /\ Readable(n, TRUE)
    /\ Revision(n, i)
    /\ p \in DOMAIN commits[i].files
    /\ client' = [client EXCEPT ![c] =
                      [@ EXCEPT !.pc = "row", !.repo = n, !.path = p,
                                !.from = i, !.file = commits[i].files[p]]]
    /\ UNCHANGED <<repo, stored, commits, next, head, ref_lock, request, log>>

\* Its last query: the HEAD that goes into x-repo-commit.
resolve_commit_sha(c) ==
    /\ client[c].pc = "row"
    /\ client' = [client EXCEPT ![c].pc = "resolved",
                                ![c].said = head[client[c].repo]]
    /\ UNCHANGED <<repo, stored, commits, next, head, ref_lock, request, log>>

\* The client takes the next file of its listing, or is done.
Continue(c) ==
    /\ client[c].pc = "resolved"
    /\ client' = [client EXCEPT ![c] =
                      IF @.sha = NULL THEN Away
                      ELSE [@ EXCEPT !.pc = "listed", !.path = NULL,
                                     !.from = NULL, !.file = NULL,
                                     !.said = NULL]]
    /\ UNCHANGED <<repo, stored, commits, next, head, ref_lock, request, log>>

Leave(c) ==
    /\ client[c].pc # "away"
    /\ client' = [client EXCEPT ![c] = Away]
    /\ UNCHANGED <<repo, stored, commits, next, head, ref_lock, request, log>>

-----------------------------------------------------------------------------
Handle(r) ==
    \/ create_insert(r)
    \/ commit_check(r)
    \/ commit_parent(r)
    \/ commit_insert(r)
    \/ commit_upsert(r)
    \/ commit_commit(r)

Next ==
    \/ \E r \in Requests, n \in Names, b \in BOOLEAN : create_select(r, n, b)
    \/ \E r \in Requests, n \in Names, p \in Payloads : commit_begin(r, n, p)
    \/ \E r \in Requests : Handle(r) \/ Drop(r)
    \/ \E h \in Large : lfs_upload(h) \/ RegisterShard(h) \/ UploadXorb(h)
    \/ \E c \in Clients, n \in Names, b \in BOOLEAN : model_info(c, n, b)
    \/ \E c \in Clients, n \in Names, i \in Ids \cup {main}, p \in Paths :
           resolve_lookup(c, n, i, p)
    \/ \E c \in Clients :
           siblings(c) \/ resolve_commit_sha(c) \/ Continue(c) \/ Leave(c)

Spec == Init /\ [][Next]_vars

\* The runtime polls every handler, and Postgres answers and hands its row
\* locks to those that wait.
FairSpec == Spec /\ \A r \in Requests : WF_vars(Handle(r))

-----------------------------------------------------------------------------
(* Properties.                                                             *)

TypeOK ==
    /\ repo \in [Names -> {"public", "private", NULL}]
    /\ lfs \subseteq Contents /\ registered \subseteq Contents
    /\ xorbs \subseteq Contents
    /\ next \in 1..MaxCommits + 1
    /\ \A i \in Ids :
           commits[i] = NULL \/
               /\ i < next
               /\ repo[commits[i].repo] # NULL
               /\ commits[i].parent \in 1..i-1 \cup {NULL}
               /\ Range(commits[i].files) \subseteq Files
    /\ \A n \in Names : head[n] \in 1..next-1 \cup {NULL}
    /\ ref_lock \in [Names -> Requests \cup {NULL}]

\* Whatever handlers are dropped and however they interleave, `main` points to
\* the commit that became visible last, and to no half of one: its manifest has
\* a row for every entry of its payload.  No commit is visible that `main` never
\* pointed to (hfapi.rs:977, "Commit + ref update in one tx so a crash between
\* them can't leave a dangling commit without ref update").
HeadIsLastCommit ==
    /\ \A n \in Names :
           /\ head[n] = IF log[n] = <<>> THEN NULL ELSE Last(log[n])
           /\ Range(log[n]) = {i \in Ids : Revision(n, i)}
    /\ \A i \in Ids : commits[i] # NULL =>
           DOMAIN commits[i].files =
               {commits[i].payload[k].path : k \in DOMAIN commits[i].payload}

\* The parent of a commit is a commit of the same repository that was visible
\* before it: a history that is walked from HEAD never meets a missing row or a
\* cycle, also when transactions become visible in another order than their ids.
ParentsAreOlder ==
    \A n \in Names : \A k \in DOMAIN log[n] :
        LET parent == commits[log[n][k]].parent IN
        parent # NULL => \E j \in 1..k-1 : log[n][j] = parent

\* What a commit lists can be downloaded: every file of a visible commit has the
\* content its entry named, in lfs_objects or behind a registered file id, but
\* for an entry with an Xet hash of its own (whose absence a size makes good).
CommittedFilesAreStored ==
    \A i \in Ids : commits[i] # NULL =>
        \A k \in DOMAIN commits[i].payload :
            LET e == commits[i].payload[k]
                f == commits[i].files[e.path]
            IN  e.xet_hash = NULL =>
                    \/ f.lfs_oid \in lfs \cap {e.oid, e.content}
                    \/ f.xet_hash \in registered \cap {e.oid}

\* What resolve answers fits the state it is asked about, whatever is committed
\* between its queries and between the requests of one download: a client that
\* listed HEAD gets the listed file by its commit, and the commit announced for a
\* file is never older than the one the file is from.
ResolveIsConsistent ==
    \A c \in Clients :
        /\ (client[c].pc \in {"row", "resolved"} /\ client[c].sha # NULL) =>
               client[c].file = client[c].listing[client[c].path]
        /\ client[c].pc = "resolved" =>
               LET l == log[client[c].repo] IN
               \E j \in DOMAIN l : \E k \in j..Len(l) :
                   l[j] = client[c].from /\ l[k] = client[c].said

\* No handler waits for ever: the ref's lock always comes back.
EveryRequestEnds ==
    \A r \in Requests : request[r].pc # "idle" ~> request[r].pc = "idle"

\* False of the code: the commits of a repository form one chain, each the child
\* of the one before it (0008_model_repos.sql:61, "Commits form a chain via
\* parent_commit_id"), so that no acknowledged commit drops out of the history
\* of HEAD.
HistoryIsAChain ==
    \A n \in Names : \A k \in DOMAIN log[n] :
        commits[log[n][k]].parent = IF k = 1 THEN NULL ELSE log[n][k-1]

=============================================================================
