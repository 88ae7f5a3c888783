----------------------------- MODULE ReposProofs -----------------------------
(***************************************************************************)
(* TLAPS proofs about Repos, for any repositories, writers, readers,       *)
(* payloads and number of commits.                                         *)
(***************************************************************************)
EXTENDS Repos, SequenceTheorems, FiniteSetTheorems, TLAPS

-----------------------------------------------------------------------------
(***************************************************************************)
(* The inductive invariant.                                                *)
(***************************************************************************)

Stages == {"idle", "create", "check", "insert", "upsert", "commit"}

Request ==
    [pc : Stages, repo : Names \cup {NULL}, private : BOOLEAN,
     payload : Seq(Entry), rows : Seq([path : Paths, file : Files]),
     parent : Ids \cup {NULL}, id : Ids \cup {NULL}]

Listing == UNION {[P -> Files] : P \in SUBSET Paths}

Reader ==
    [pc : {"away", "listing", "listed", "row", "resolved"},
     repo : Names \cup {NULL}, sha : Ids \cup {NULL},
     listing : Listing \cup {<<>>}, path : Paths \cup {NULL},
     from : Ids \cup {NULL}, file : Files \cup {NULL}, said : Ids \cup {NULL}]

Types ==
    /\ repo \in [Names -> {"public", "private", NULL}]
    /\ lfs \subseteq Contents /\ registered \subseteq Contents
    /\ xorbs \subseteq Contents
    /\ next \in Nat \ {0}
    /\ commits \in [Ids -> Commit \cup {NULL}]
    /\ head \in [Names -> Ids \cup {NULL}]
    /\ ref_lock \in [Names -> Requests \cup {NULL}]
    /\ request \in [Requests -> Request]
    /\ client \in [Clients -> Reader]
    /\ log \in [Names -> Seq(Ids)]

\* Every request that may still take an id finds one.
IdsSuffice == next + Cardinality(Pending) <= MaxCommits + 1

\* What an entry named is where its row says.
Stored(e, f) ==
    e.xet_hash = NULL =>
        \/ f.lfs_oid \in lfs \cap {e.oid, e.content}
        \/ f.xet_hash \in registered \cap {e.oid}

\* The rows of a request are those of the first entries of its payload.
RowsFit(q) ==
    /\ Len(q.rows) <= Len(q.payload)
    /\ \A k \in 1..Len(q.rows) :
           /\ q.rows[k].path = q.payload[k].path
           /\ Stored(q.payload[k], q.rows[k].file)

\* The parent a transaction read has become visible before.
ParentSeen(q) ==
    q.parent # NULL => \E j \in 1..Len(log[q.repo]) : log[q.repo][j] = q.parent

\* The id a transaction took is nobody else's.
IdIsFresh(q) ==
    /\ q.id \in 1..next-1
    /\ commits[q.id] = NULL
    /\ q.parent \in 1..q.id-1 \cup {NULL}

PathsDiffer(q) ==
    \A i, j \in 1..Len(q.rows) : i # j => q.rows[i].path # q.rows[j].path

\* What a request knows at each of its statements.
RequestKnows(q) ==
    /\ q.pc # "idle" => q.repo \in Names
    /\ q.pc \in {"check", "insert", "upsert", "commit"} =>
           repo[q.repo] # NULL /\ RowsFit(q)
    /\ q.pc \in {"insert", "upsert", "commit"} =>
           /\ Len(q.rows) = Len(q.payload)
           /\ ParentSeen(q)
           /\ q.parent \in 1..next-1 \cup {NULL}
    /\ q.pc \in {"upsert", "commit"} => IdIsFresh(q) /\ PathsDiffer(q)

RequestInv ==
    /\ \A r \in Requests : RequestKnows(request[r])
    /\ \A r, s \in Requests :
           (r # s /\ {request[r].pc, request[s].pc} \subseteq {"upsert", "commit"}) =>
               request[r].id # request[s].id

\* The rows of repo_commits refer to rows that are there.
CommitInv ==
    /\ \A i \in Ids : commits[i] # NULL =>
           /\ i < next
           /\ repo[commits[i].repo] # NULL
           /\ commits[i].parent \in 1..i-1 \cup {NULL}
    /\ \A n \in Names : head[n] \in 1..next-1 \cup {NULL}

\* What a reader has in hand is what its commit has.
ReaderKnows(q) ==
    /\ q.pc = "away" => q = Away
    /\ q.pc # "away" => q.repo \in Names
    /\ q.pc = "listing" => q.sha # NULL
    /\ q.sha # NULL => Revision(q.repo, q.sha)
    /\ (q.pc # "listing" /\ q.sha # NULL) => q.listing = commits[q.sha].files
    /\ q.pc = "listed" => q.sha # NULL
    /\ q.pc \in {"row", "resolved"} =>
           /\ Revision(q.repo, q.from)
           /\ q.file = commits[q.from].files[q.path]
           /\ q.sha # NULL => q.from = q.sha
    /\ q.pc = "resolved" =>
           \E j \in 1..Len(log[q.repo]) : \E k \in j..Len(log[q.repo]) :
               log[q.repo][j] = q.from /\ log[q.repo][k] = q.said

ReaderInv == \A c \in Clients : ReaderKnows(client[c])

IInv ==
    /\ Types /\ IdsSuffice /\ RequestInv /\ CommitInv
    /\ HeadIsLastCommit /\ ParentsAreOlder /\ CommittedFilesAreStored
    /\ ReaderInv

-----------------------------------------------------------------------------
(***************************************************************************)
(* What the statements of a handler make of its record, and the queries of *)
(* a read of its own.                                                      *)
(***************************************************************************)

LEMMA IdleFacts ==
    /\ Idle \in Request
    /\ Idle.pc = "idle" /\ Idle.repo = NULL /\ Idle.payload = <<>>
    /\ Idle.rows = <<>> /\ Idle.parent = NULL /\ Idle.id = NULL
  BY DEF Request, Stages, Idle

LEMMA AwayFacts ==
    /\ Away \in Reader
    /\ Away.pc = "away" /\ Away.repo = NULL /\ Away.sha = NULL
    /\ Away.listing = <<>> /\ Away.path = NULL /\ Away.from = NULL
    /\ Away.file = NULL /\ Away.said = NULL
  BY DEF Reader, Away

\* create_repo and the first statement of commit.
LEMMA RequestBegins ==
    ASSUME NEW n \in Names
    PROVE  /\ \A b \in BOOLEAN :
                 LET t == [Idle EXCEPT !.pc = "create", !.repo = n, !.private = b] IN
                 t \in Request /\ t.pc = "create" /\ t.repo = n
           /\ \A p \in Seq(Entry) :
                 LET t == [Idle EXCEPT !.pc = "check", !.repo = n, !.payload = p] IN
                 /\ t \in Request /\ t.pc = "check" /\ t.repo = n
                 /\ t.payload = p /\ t.rows = <<>>
  BY IdleFacts DEF Request, Stages

\* The later statements of commit.
LEMMA RequestMoves ==
    ASSUME NEW q \in Request
    PROVE  /\ \A row \in [path : Paths, file : Files] :
                 LET t == [q EXCEPT !.rows = Append(@, row)] IN
                 /\ t \in Request /\ t.pc = q.pc /\ t.repo = q.repo
                 /\ t.payload = q.payload /\ t.rows = Append(q.rows, row)
           /\ \A i \in Ids \cup {NULL} :
                 LET t == [q EXCEPT !.pc = "insert", !.parent = i] IN
                 /\ t \in Request /\ t.pc = "insert" /\ t.repo = q.repo
                 /\ t.payload = q.payload /\ t.rows = q.rows /\ t.parent = i
           /\ \A i \in Ids :
                 LET t == [q EXCEPT !.pc = "upsert", !.id = i] IN
                 /\ t \in Request /\ t.pc = "upsert" /\ t.repo = q.repo
                 /\ t.payload = q.payload /\ t.rows = q.rows
                 /\ t.parent = q.parent /\ t.id = i
           /\ LET t == [q EXCEPT !.pc = "commit"] IN
                 /\ t \in Request /\ t.pc = "commit" /\ t.repo = q.repo
                 /\ t.payload = q.payload /\ t.rows = q.rows
                 /\ t.parent = q.parent /\ t.id = q.id
  <1>1. ASSUME NEW row \in [path : Paths, file : Files]
        PROVE  LET t == [q EXCEPT !.rows = Append(@, row)] IN
               /\ t \in Request /\ t.pc = q.pc /\ t.repo = q.repo
               /\ t.payload = q.payload /\ t.rows = Append(q.rows, row)
    <2>1. Append(q.rows, row) \in Seq([path : Paths, file : Files])
      BY DEF Request
    <2> QED BY <2>1 DEF Request
  <1> QED BY <1>1 DEF Request, Stages

\* model_info, siblings, resolve_lookup, resolve_commit_sha and the next file.
LEMMA ReaderAsks ==
    ASSUME NEW n \in Names, NEW i \in Ids
    PROVE  LET t == [Away EXCEPT !.pc = "listing", !.repo = n, !.sha = i] IN
           /\ t \in Reader /\ t.pc = "listing" /\ t.repo = n /\ t.sha = i
  BY AwayFacts DEF Reader

LEMMA ReaderLists ==
    ASSUME NEW q \in Reader, NEW l \in Listing
    PROVE  LET t == [q EXCEPT !.pc = "listed", !.listing = l] IN
           /\ t \in Reader /\ t.pc = "listed" /\ t.repo = q.repo
           /\ t.sha = q.sha /\ t.listing = l
  BY DEF Reader

LEMMA ReaderFinds ==
    ASSUME NEW q \in Reader, NEW n \in Names, NEW p \in Paths, NEW i \in Ids,
           NEW f \in Files
    PROVE  LET t == [q EXCEPT !.pc = "row", !.repo = n, !.path = p,
                              !.from = i, !.file = f] IN
           /\ t \in Reader /\ t.pc = "row" /\ t.repo = n /\ t.path = p
           /\ t.from = i /\ t.file = f /\ t.sha = q.sha /\ t.listing = q.listing
  BY DEF Reader

LEMMA ReaderIsTold ==
    ASSUME NEW q \in Reader, NEW i \in Ids \cup {NULL}
    PROVE  LET t == [q EXCEPT !.pc = "resolved", !.said = i] IN
           /\ t \in Reader /\ t.pc = "resolved" /\ t.repo = q.repo
           /\ t.path = q.path /\ t.from = q.from /\ t.file = q.file
           /\ t.sha = q.sha /\ t.listing = q.listing /\ t.said = i
  BY DEF Reader

LEMMA ReaderContinues ==
    ASSUME NEW q \in Reader
    PROVE  LET t == [q EXCEPT !.pc = "listed", !.path = NULL, !.from = NULL,
                              !.file = NULL, !.said = NULL] IN
           /\ t \in Reader /\ t.pc = "listed" /\ t.repo = q.repo
           /\ t.sha = q.sha /\ t.listing = q.listing
  BY DEF Reader

\* The backend an entry resolves to holds what the entry named, once inline
\* content is stored.
LEMMA BackendIsStored ==
    ASSUME Types, NEW e \in Entry, Backend(e) # NULL
    PROVE  /\ Backend(e) \in Files
           /\ e.xet_hash = NULL =>
                 \/ /\ Backend(e).lfs_oid \in {e.oid, e.content}
                    /\ Backend(e).lfs_oid \in Contents
                 \/ Backend(e).xet_hash \in registered \cap {e.oid}
           /\ Backend(e).lfs_oid \in Contents \cup {NULL}
  <1>1. /\ e.xet_hash \in Contents \cup {NULL} /\ e.oid \in Contents \cup {NULL}
        /\ e.content \in Contents \cup {NULL}
    BY DEF Entry
  <1>2. \A h \in Contents : /\ XetFile(h) \in Files /\ LfsFile(h) \in Files
                            /\ XetFile(h).xet_hash = h /\ LfsFile(h).lfs_oid = h
                            /\ XetFile(h).lfs_oid = NULL
    BY DEF Files, XetFile, LfsFile
  <1>3. CASE e.xet_hash # NULL
    BY <1>1, <1>2, <1>3 DEF Backend
  <1>4. CASE e.xet_hash = NULL /\ e.content # NULL
    BY <1>1, <1>2, <1>4 DEF Backend
  <1>5. CASE e.xet_hash = NULL /\ e.content = NULL /\ e.oid \in lfs
    BY <1>1, <1>2, <1>5 DEF Backend, Types
  <1>6. CASE e.xet_hash = NULL /\ e.content = NULL /\ e.oid \in registered \ lfs
    BY <1>1, <1>2, <1>6 DEF Backend, Types
  <1>7. CASE e.xet_hash = NULL /\ e.content = NULL /\ e.oid \notin registered \cup lfs
    BY <1>7 DEF Backend
  <1> QED BY <1>3, <1>4, <1>5, <1>6, <1>7

\* The manifest of distinct paths has the row of every entry.
LEMMA ManifestFacts ==
    ASSUME NEW rows \in Seq([path : Paths, file : Files])
    PROVE  /\ Manifest(rows) \in Listing
           /\ DOMAIN Manifest(rows) = {rows[i].path : i \in 1..Len(rows)}
           /\ (\A i, j \in 1..Len(rows) : i # j => rows[i].path # rows[j].path) =>
                 \A k \in 1..Len(rows) : Manifest(rows)[rows[k].path] = rows[k].file
  <1> DEFINE P == {rows[i].path : i \in 1..Len(rows)}
             at(p) == CHOOSE i \in 1..Len(rows) : rows[i].path = p
  <1>1. DOMAIN rows = 1..Len(rows) /\ \A i \in 1..Len(rows) :
            rows[i].path \in Paths /\ rows[i].file \in Files
    <2>1. DOMAIN rows = 1..Len(rows)
      BY LenProperties
    <2>2. \A i \in 1..Len(rows) : rows[i] \in [path : Paths, file : Files]
      BY ElementOfSeq
    <2> QED BY <2>1, <2>2
  <1>2. \A p \in P : at(p) \in 1..Len(rows) /\ rows[at(p)].path = p
    OBVIOUS
  <1>3. Manifest(rows) = [p \in P |-> rows[at(p)].file]
    BY <1>1 DEF Manifest
  <1>4. P \in SUBSET Paths /\ \A p \in P : rows[at(p)].file \in Files
    BY <1>1, <1>2
  <1> HIDE DEF at, P
  <1>5. Manifest(rows) \in [P -> Files]
    BY <1>3, <1>4
  <1>6. Manifest(rows) \in Listing
    BY <1>4, <1>5 DEF Listing
  <1>7. ASSUME \A i, j \in 1..Len(rows) : i # j => rows[i].path # rows[j].path,
               NEW k \in 1..Len(rows)
        PROVE  Manifest(rows)[rows[k].path] = rows[k].file
    <2>1. rows[k].path \in P
      BY DEF P
    <2>2. at(rows[k].path) = k
      BY <1>2, <1>7, <2>1
    <2> QED BY <1>3, <2>1, <2>2
  <1> QED BY <1>5, <1>6, <1>7 DEF P

\* The requests that may still take an id are finitely many.
LEMMA PendingFacts ==
    /\ IsFiniteSet(Pending) /\ Cardinality(Pending) \in Nat
    /\ \A r \in Requests :
          /\ IsFiniteSet(Pending \cup {r}) /\ IsFiniteSet(Pending \ {r})
          /\ Cardinality(Pending \cup {r}) <= Cardinality(Pending) + 1
          /\ r \in Pending => Cardinality(Pending \ {r}) = Cardinality(Pending) - 1
          /\ Cardinality(Pending \ {r}) <= Cardinality(Pending)
          /\ Cardinality(Pending \ {r}) \in Nat
  <1>1. Pending \in SUBSET Requests
    BY DEF Pending
  <1>2. IsFiniteSet(Pending) /\ Cardinality(Pending) \in Nat
    BY <1>1, FS_Subset, FS_CardinalityType, ReposAssumption
  <1> HIDE DEF Pending
  <1>3. ASSUME NEW r \in Requests
        PROVE  /\ IsFiniteSet(Pending \cup {r}) /\ IsFiniteSet(Pending \ {r})
               /\ Cardinality(Pending \cup {r}) <= Cardinality(Pending) + 1
               /\ r \in Pending => Cardinality(Pending \ {r}) = Cardinality(Pending) - 1
               /\ Cardinality(Pending \ {r}) <= Cardinality(Pending)
               /\ Cardinality(Pending \ {r}) \in Nat
    <2>1. /\ IsFiniteSet(Pending \cup {r})
          /\ Cardinality(Pending \cup {r})
                = IF r \in Pending THEN Cardinality(Pending) ELSE Cardinality(Pending) + 1
      BY <1>2, FS_AddElement
    <2>2. /\ IsFiniteSet(Pending \ {r})
          /\ Cardinality(Pending \ {r})
                = IF r \in Pending THEN Cardinality(Pending) - 1 ELSE Cardinality(Pending)
      BY <1>2, FS_RemoveElement
    <2>3. Cardinality(Pending \ {r}) \in Nat
      BY <2>2, FS_CardinalityType
    <2> QED BY <1>2, <2>1, <2>2, <2>3
  <1> QED BY <1>2, <1>3

\* A request that is about to take an id finds one.
LEMMA NextIsAnId ==
    ASSUME Types, IdsSuffice, NEW r \in Requests, request[r].pc \in {"check", "insert"}
    PROVE  next \in Ids
  <1>1. r \in Pending
    BY DEF Pending
  <1>2. Cardinality(Pending) - 1 \in Nat /\ Cardinality(Pending) \in Nat
    BY <1>1, PendingFacts
  <1> QED BY <1>2, ReposAssumption DEF IdsSuffice, Types, Ids

\* No id is beyond the bound.
LEMMA NextIsBounded ==
    ASSUME Types, IdsSuffice
    PROVE  next \in 1..MaxCommits + 1
  BY PendingFacts, ReposAssumption DEF IdsSuffice, Types

-----------------------------------------------------------------------------
(***************************************************************************)
(* Types.                                                                  *)
(***************************************************************************)

LEMMA InitTypes == Init => Types
  <1> SUFFICES ASSUME Init PROVE Types
    OBVIOUS
  <1>1. log \in [Names -> Seq(Ids)]
    BY DEF Init
  <1>2. next \in Nat \ {0}
    BY DEF Init
  <1> QED BY <1>1, <1>2, IdleFacts, AwayFacts DEF Init, Types

\* The steps of a writing request keep the types.
LEMMA HandleKeepsTypes ==
    ASSUME IInv, NEW r \in Requests, Handle(r) \/ Drop(r)
    PROVE  Types'
  <1> DEFINE q == request[r]
  <1>1. Types /\ q \in Request /\ RequestKnows(q)
    BY DEF IInv, Types, RequestInv
  <1>2. CASE create_insert(r)
    <2>1. q.repo \in Names
      BY <1>1, <1>2 DEF create_insert, RequestKnows
    <2>2. repo' \in [Names -> {"public", "private", NULL}]
      BY <1>1, <1>2, <2>1 DEF create_insert, Types
    <2> QED BY <1>1, <1>2, <2>2, IdleFacts DEF create_insert, Types, stored
  <1>3. CASE commit_check(r)
    <2> DEFINE e == q.payload[Len(q.rows) + 1]
               b == Backend(e)
    <2>1. e \in Entry
      <3>1. q.payload \in Seq(Entry) /\ Len(q.rows) \in Nat
        BY <1>1 DEF Request
      <3>2. Len(q.rows) + 1 \in 1..Len(q.payload)
        BY <1>3, <3>1 DEF commit_check
      <3> QED BY <3>1, <3>2
    <2>2. CASE b = NULL
      <3>1. lfs' = lfs /\ request' = [request EXCEPT ![r] = Idle]
        BY <1>3, <2>2 DEF commit_check
      <3> QED BY <1>1, <1>3, <3>1, IdleFacts DEF commit_check, Types, stored
    <2>3. CASE b # NULL
      <3> DEFINE row == [path |-> e.path, file |-> b]
                 t == [q EXCEPT !.rows = Append(@, row)]
      <3>1. b \in Files /\ b.lfs_oid \in Contents \cup {NULL}
        BY <1>1, <2>1, <2>3, BackendIsStored
      <3>2. row \in [path : Paths, file : Files]
        BY <2>1, <3>1 DEF Entry
      <3>3. t \in Request
        BY <1>1, <3>2, RequestMoves
      <3>4. lfs' \subseteq Contents
        BY <1>1, <1>3, <3>1 DEF commit_check, Types
      <3>5. request' = [request EXCEPT ![r] = t]
        BY <1>3, <2>3 DEF commit_check
      <3> HIDE DEF t, row, e, b
      <3> QED BY <1>1, <1>3, <3>3, <3>4, <3>5 DEF commit_check, Types
    <2> QED BY <2>2, <2>3
  <1>4. CASE commit_parent(r)
    <2>1. head[q.repo] \in Ids \cup {NULL}
      BY <1>1, <1>4 DEF commit_parent, RequestKnows, Types
    <2>2. [q EXCEPT !.pc = "insert", !.parent = head[q.repo]] \in Request
      BY <1>1, <2>1, RequestMoves
    <2> QED BY <1>1, <1>4, <2>2 DEF commit_parent, Types, stored
  <1>5. CASE commit_insert(r)
    <2>1. next \in Ids
      BY <1>1, <1>5, NextIsAnId DEF commit_insert, IInv
    <2>2. [q EXCEPT !.pc = "upsert", !.id = next] \in Request
      BY <1>1, <2>1, RequestMoves
    <2>3. request' \in [Requests -> Request]
      BY <1>1, <1>5, <2>2, IdleFacts DEF commit_insert, Types
    <2>4. next' \in Nat \ {0}
      BY <1>1, <1>5 DEF commit_insert, Types
    <2> QED BY <1>1, <1>5, <2>3, <2>4 DEF commit_insert, Types, stored
  <1>6. CASE commit_upsert(r)
    <2>1. [q EXCEPT !.pc = "commit"] \in Request
      BY <1>1, RequestMoves
    <2>2. q.repo \in Names
      BY <1>1, <1>6 DEF commit_upsert, RequestKnows
    <2> QED BY <1>1, <1>6, <2>1, <2>2 DEF commit_upsert, Types, stored
  <1>7. CASE commit_commit(r)
    <2>1. q.repo \in Names /\ q.id \in Ids
      <3>1. next \in 1..MaxCommits + 1
        BY NextIsBounded DEF IInv
      <3>2. q.repo \in Names /\ q.id \in 1..next-1
        BY <1>1, <1>7 DEF commit_commit, RequestKnows, IdIsFresh
      <3> QED BY <3>1, <3>2, ReposAssumption DEF Ids
    <2>2. [repo |-> q.repo, parent |-> q.parent, payload |-> q.payload,
           files |-> Manifest(q.rows)] \in Commit
      BY <1>1, <2>1, ManifestFacts DEF Request, Commit, Listing
    <2>3. commits' \in [Ids -> Commit \cup {NULL}]
      BY <1>1, <1>7, <2>2 DEF commit_commit, Types
    <2>4. log' \in [Names -> Seq(Ids)]
      <3>1. Append(log[q.repo], q.id) \in Seq(Ids)
        BY <1>1, <2>1 DEF Types
      <3> QED BY <1>1, <1>7, <3>1 DEF commit_commit, Types
    <2>5. head' \in [Names -> Ids \cup {NULL}]
          /\ ref_lock' \in [Names -> Requests \cup {NULL}]
      BY <1>1, <1>7, <2>1 DEF commit_commit, Types
    <2>6. request' \in [Requests -> Request]
      BY <1>1, <1>7, IdleFacts DEF commit_commit, Types
    <2> QED BY <1>1, <1>7, <2>3, <2>4, <2>5, <2>6 DEF commit_commit, Types, stored
  <1>8. CASE Drop(r)
    BY <1>1, <1>8, IdleFacts DEF Drop, Types, stored
  <1> QED BY <1>2, <1>3, <1>4, <1>5, <1>6, <1>7, <1>8 DEF Handle

\* And so do the steps of a reader.
LEMMA ReadKeepsTypes ==
    ASSUME IInv, NEW c \in Clients,
           \/ \E n \in Names, b \in BOOLEAN : model_info(c, n, b)
           \/ \E n \in Names, i \in Ids \cup {main}, p \in Paths :
                 resolve_lookup(c, n, i, p)
           \/ siblings(c) \/ resolve_commit_sha(c) \/ Continue(c) \/ Leave(c)
    PROVE  Types'
  <1> DEFINE q == client[c]
  <1>1. Types /\ q \in Reader /\ ReaderKnows(q)
    BY DEF IInv, Types, ReaderInv
  <1>2. ASSUME NEW n \in Names, NEW b \in BOOLEAN, model_info(c, n, b)
        PROVE  Types'
    <2>1. head[n] \in Ids
      BY <1>1, <1>2 DEF model_info, Types
    <2>2. [Away EXCEPT !.pc = "listing", !.repo = n, !.sha = head[n]] \in Reader
      BY <1>1, <2>1, ReaderAsks
    <2> QED BY <1>1, <1>2, <2>2 DEF model_info, Types, stored
  <1>3. ASSUME NEW n \in Names, NEW i \in Ids \cup {main}, NEW p \in Paths,
               resolve_lookup(c, n, i, p)
        PROVE  Types'
    <2> DEFINE k == Resolved(n, i)
               f == commits[k].files[p]
               t == [q EXCEPT !.pc = "row", !.repo = n, !.path = p,
                              !.from = k, !.file = f]
    <2>1. k \in Ids /\ commits[k] \in Commit /\ p \in DOMAIN commits[k].files
      BY <1>1, <1>3 DEF resolve_lookup, Revision, Types
    <2>2. commits[k].files[p] \in Files
      BY <2>1 DEF Commit
    <2>3. t \in Reader
      <3>1. q \in Reader /\ k \in Ids /\ f \in Files
        BY <1>1, <2>1, <2>2
      <3> HIDE DEF q, k, f
      <3> QED BY <3>1 DEF Reader
    <2>4. client' = [client EXCEPT ![c] = t]
      BY <1>3 DEF resolve_lookup
    <2> HIDE DEF t
    <2> QED BY <1>1, <1>3, <2>3, <2>4 DEF resolve_lookup, Types, stored
  <1>4. CASE siblings(c)
    <2> DEFINE t == [q EXCEPT !.pc = "listed", !.listing = commits[q.sha].files]
    <2>1. commits[q.sha] \in Commit
      BY <1>1, <1>4 DEF siblings, ReaderKnows, Revision, Types
    <2>2. commits[q.sha].files \in Listing
      BY <2>1 DEF Commit, Listing
    <2>3. t \in Reader
      BY <1>1, <2>2, ReaderLists
    <2>4. client' = [client EXCEPT ![c] = t]
      BY <1>4 DEF siblings
    <2> HIDE DEF t
    <2> QED BY <1>1, <1>4, <2>3, <2>4 DEF siblings, Types, stored
  <1>5. CASE resolve_commit_sha(c)
    <2> DEFINE t == [q EXCEPT !.pc = "resolved", !.said = head[q.repo]]
    <2>1. head[q.repo] \in Ids \cup {NULL}
      BY <1>1, <1>5 DEF resolve_commit_sha, ReaderKnows, Types
    <2>2. t \in Reader
      BY <1>1, <2>1, ReaderIsTold
    <2>3. client' = [client EXCEPT ![c] = t]
      BY <1>5 DEF resolve_commit_sha
    <2> HIDE DEF t
    <2> QED BY <1>1, <1>5, <2>2, <2>3 DEF resolve_commit_sha, Types, stored
  <1>6. CASE Continue(c)
    <2> DEFINE t == [q EXCEPT !.pc = "listed", !.path = NULL, !.from = NULL,
                              !.file = NULL, !.said = NULL]
    <2>1. t \in Reader /\ Away \in Reader
      BY <1>1, ReaderContinues, AwayFacts
    <2>2. client' = [client EXCEPT ![c] = IF q.sha = NULL THEN Away ELSE t]
      BY <1>6 DEF Continue
    <2> HIDE DEF t
    <2> QED BY <1>1, <1>6, <2>1, <2>2 DEF Continue, Types, stored
  <1>7. CASE Leave(c)
    BY <1>1, <1>7, AwayFacts DEF Leave, Types, stored
  <1> QED BY <1>2, <1>3, <1>4, <1>5, <1>6, <1>7

LEMMA NextTypes == IInv /\ [Next]_vars => Types'
  <1> SUFFICES ASSUME IInv, [Next]_vars PROVE Types'
    OBVIOUS
  <1>1. Types
    BY DEF IInv
  <1>2. ASSUME NEW r \in Requests, NEW n \in Names, NEW b \in BOOLEAN,
               create_select(r, n, b)
        PROVE  Types'
    <2> DEFINE t == [Idle EXCEPT !.pc = "create", !.repo = n, !.private = b]
    <2>1. t \in Request
      BY RequestBegins
    <2>2. request' = [request EXCEPT ![r] = t]
      BY <1>2 DEF create_select
    <2> HIDE DEF t
    <2> QED BY <1>1, <1>2, <2>1, <2>2 DEF create_select, Types, stored
  <1>3. ASSUME NEW r \in Requests, NEW n \in Names, NEW p \in Payloads,
               commit_begin(r, n, p)
        PROVE  Types'
    <2> DEFINE t == [Idle EXCEPT !.pc = "check", !.repo = n, !.payload = p]
    <2>1. t \in Request
      BY RequestBegins, ReposAssumption
    <2>2. request' = [request EXCEPT ![r] = t]
      BY <1>3 DEF commit_begin
    <2> HIDE DEF t
    <2> QED BY <1>1, <1>3, <2>1, <2>2 DEF commit_begin, Types, stored
  <1>4. ASSUME NEW h \in Large, lfs_upload(h) \/ RegisterShard(h) \/ UploadXorb(h)
        PROVE  Types'
    BY <1>1, <1>4, ReposAssumption DEF lfs_upload, RegisterShard, UploadXorb, Types
  <1>5. CASE UNCHANGED vars
    BY <1>1, <1>5 DEF vars, stored, Types
  <1> QED BY <1>2, <1>3, <1>4, <1>5, HandleKeepsTypes, ReadKeepsTypes DEF Next

-----------------------------------------------------------------------------
(***************************************************************************)
(* What every step leaves alone: the tables only grow, and only COMMIT     *)
(* makes a commit visible.                                                 *)
(***************************************************************************)

Grows ==
    /\ lfs \subseteq lfs' /\ registered \subseteq registered' /\ next <= next'
    /\ \A n \in Names : repo[n] # NULL => repo'[n] # NULL

LEMMA TablesGrow == IInv /\ [Next]_vars => Grows
  <1> SUFFICES ASSUME IInv, [Next]_vars PROVE Grows
    OBVIOUS
  <1>1. next \in Nat
    BY DEF IInv, Types
  <1>2. ASSUME NEW r \in Requests, create_insert(r)
        PROVE  Grows
    <2>1. repo \in [Names -> {"public", "private", NULL}] /\ request[r].repo \in Names
      BY <1>2 DEF IInv, Types, RequestInv, RequestKnows, create_insert
    <2>2. \A n \in Names : repo[n] # NULL => repo'[n] # NULL
      BY <1>2, <2>1 DEF create_insert
    <2> QED BY <1>1, <1>2, <2>2 DEF create_insert, stored, Grows
  <1>3. CASE \E r \in Requests, n \in Names, b \in BOOLEAN : create_select(r, n, b)
    BY <1>1, <1>3 DEF create_select, stored, Grows
  <1>4. CASE \E r \in Requests, n \in Names, p \in Payloads : commit_begin(r, n, p)
    BY <1>1, <1>4 DEF commit_begin, stored, Grows
  <1>5. CASE \E h \in Large : lfs_upload(h) \/ RegisterShard(h) \/ UploadXorb(h)
    BY <1>1, <1>5 DEF lfs_upload, RegisterShard, UploadXorb, Grows
  <1>6. CASE UNCHANGED vars
    BY <1>1, <1>6 DEF vars, stored, Grows
  <1>7. ASSUME NEW r \in Requests, commit_check(r) PROVE Grows
    BY <1>1, <1>7 DEF commit_check, Grows
  <1>8. ASSUME NEW r \in Requests, commit_parent(r) \/ commit_insert(r) \/ commit_upsert(r)
        PROVE  Grows
    BY <1>1, <1>8 DEF commit_parent, commit_insert, commit_upsert, stored, Grows
  <1>9. ASSUME NEW r \in Requests, commit_commit(r) \/ Drop(r) PROVE Grows
    BY <1>1, <1>9 DEF commit_commit, Drop, stored, Grows
  <1>10. CASE \E c \in Clients, n \in Names, b \in BOOLEAN : model_info(c, n, b)
    BY <1>1, <1>10 DEF model_info, stored, Grows
  <1>11. CASE \E c \in Clients, n \in Names, i \in Ids \cup {main}, p \in Paths :
                  resolve_lookup(c, n, i, p)
    BY <1>1, <1>11 DEF resolve_lookup, stored, Grows
  <1>12. CASE \E c \in Clients :
                  siblings(c) \/ resolve_commit_sha(c) \/ Continue(c) \/ Leave(c)
    BY <1>1, <1>12 DEF siblings, resolve_commit_sha, Continue, Leave, stored, Grows
  <1> QED BY <1>2, <1>3, <1>4, <1>5, <1>6, <1>7, <1>8, <1>9, <1>10, <1>11, <1>12
          DEF Next, Handle

\* A step is a COMMIT, or no commit becomes visible.
LEMMA OnlyCommitPublishes ==
    ASSUME [Next]_vars
    PROVE  \/ \E r \in Requests : commit_commit(r)
           \/ UNCHANGED <<commits, head, log>>
  <1>1. ASSUME NEW r \in Requests, Handle(r) \/ Drop(r)
        PROVE  commit_commit(r) \/ UNCHANGED <<commits, head, log>>
    BY <1>1 DEF Handle, Drop, create_insert, commit_check, commit_parent, commit_insert,
       commit_upsert
  <1>2. CASE \E r \in Requests, n \in Names, b \in BOOLEAN : create_select(r, n, b)
    BY <1>2 DEF create_select
  <1>3. CASE \E r \in Requests, n \in Names, p \in Payloads : commit_begin(r, n, p)
    BY <1>3 DEF commit_begin
  <1>4. CASE \E h \in Large : lfs_upload(h) \/ RegisterShard(h) \/ UploadXorb(h)
    BY <1>4 DEF lfs_upload, RegisterShard, UploadXorb
  <1>5. CASE UNCHANGED vars
    BY <1>5 DEF vars
  <1>6. CASE \E c \in Clients, n \in Names, b \in BOOLEAN : model_info(c, n, b)
    BY <1>6 DEF model_info
  <1>7. CASE \E c \in Clients, n \in Names, i \in Ids \cup {main}, p \in Paths :
                 resolve_lookup(c, n, i, p)
    BY <1>7 DEF resolve_lookup
  <1>8. CASE \E c \in Clients :
                 siblings(c) \/ resolve_commit_sha(c) \/ Continue(c) \/ Leave(c)
    BY <1>8 DEF siblings, resolve_commit_sha, Continue, Leave
  <1> QED BY <1>1, <1>2, <1>3, <1>4, <1>5, <1>6, <1>7, <1>8 DEF Next

\* What COMMIT makes visible.
LEMMA Published ==
    ASSUME IInv, NEW r \in Requests, commit_commit(r)
    PROVE  LET q == request[r] IN
           /\ q \in Request /\ RequestKnows(q) /\ q.repo \in Names
           /\ q.id \in Ids /\ q.id < next /\ commits[q.id] = NULL
           /\ commits'[q.id] # NULL
           /\ commits'[q.id].repo = q.repo /\ commits'[q.id].parent = q.parent
           /\ commits'[q.id].payload = q.payload
           /\ commits'[q.id].files = Manifest(q.rows)
           /\ \A j \in Ids \ {q.id} : commits'[j] = commits[j]
           /\ head'[q.repo] = q.id
           /\ \A n \in Names \ {q.repo} : head'[n] = head[n] /\ log'[n] = log[n]
           /\ log'[q.repo] \in Seq(Ids)
           /\ Len(log[q.repo]) \in Nat /\ Len(log'[q.repo]) = Len(log[q.repo]) + 1
           /\ \A k \in 1..Len(log[q.repo]) : log'[q.repo][k] = log[q.repo][k]
           /\ log'[q.repo][Len(log[q.repo]) + 1] = q.id
  <1> DEFINE q == request[r]
             row == [repo |-> q.repo, parent |-> q.parent, payload |-> q.payload,
                     files |-> Manifest(q.rows)]
  <1>1. Types /\ q \in Request /\ RequestKnows(q) /\ q.pc = "commit"
    BY DEF IInv, Types, RequestInv, commit_commit
  <1>2. q.repo \in Names /\ IdIsFresh(q)
    BY <1>1 DEF RequestKnows
  <1>3. q.id \in Ids /\ q.id < next /\ commits[q.id] = NULL
    <2>1. next \in 1..MaxCommits + 1
      BY NextIsBounded DEF IInv
    <2> QED BY <1>2, <2>1, ReposAssumption DEF IdIsFresh, Ids
  <1>4. row \in Commit
    BY <1>1, <1>2, ManifestFacts DEF Request, Commit, Listing
  <1>5. row # NULL /\ row.repo = q.repo /\ row.parent = q.parent
        /\ row.payload = q.payload /\ row.files = Manifest(q.rows)
    BY <1>4, ReposAssumption
  <1>6. commits' = [commits EXCEPT ![q.id] = row]
    BY DEF commit_commit
  <1> HIDE DEF row
  <1>7. commits'[q.id] = row /\ \A j \in Ids \ {q.id} : commits'[j] = commits[j]
    BY <1>1, <1>3, <1>6 DEF Types
  <1>8. /\ head'[q.repo] = q.id /\ log'[q.repo] = Append(log[q.repo], q.id)
        /\ \A n \in Names \ {q.repo} : head'[n] = head[n] /\ log'[n] = log[n]
    BY <1>1, <1>2 DEF commit_commit, Types
  <1>9. log[q.repo] \in Seq(Ids)
    BY <1>1, <1>2 DEF Types
  <1>10. /\ log'[q.repo] \in Seq(Ids)
         /\ Len(log[q.repo]) \in Nat /\ Len(log'[q.repo]) = Len(log[q.repo]) + 1
         /\ \A k \in 1..Len(log[q.repo]) : log'[q.repo][k] = log[q.repo][k]
         /\ log'[q.repo][Len(log[q.repo]) + 1] = q.id
    BY <1>3, <1>8, <1>9
  <1> QED BY <1>1, <1>2, <1>3, <1>5, <1>7, <1>8, <1>10

\* What is visible stays as it is.
Persists ==
    /\ \A i \in Ids : commits[i] # NULL => commits'[i] = commits[i]
    /\ \A n \in Names :
          /\ Len(log[n]) \in Nat /\ Len(log'[n]) \in Nat /\ Len(log[n]) <= Len(log'[n])
          /\ \A k \in 1..Len(log[n]) : log'[n][k] = log[n][k]

LEMMA VisiblePersists == IInv /\ [Next]_vars => Persists
  <1> SUFFICES ASSUME IInv, [Next]_vars PROVE Persists
    OBVIOUS
  <1>1. \A n \in Names : Len(log[n]) \in Nat
    BY DEF IInv, Types
  <1>2. ASSUME NEW r \in Requests, commit_commit(r) PROVE Persists
    <2> DEFINE q == request[r]
    <2>1. /\ q.repo \in Names /\ commits[q.id] = NULL
          /\ \A j \in Ids \ {q.id} : commits'[j] = commits[j]
          /\ \A n \in Names \ {q.repo} : log'[n] = log[n]
          /\ Len(log'[q.repo]) = Len(log[q.repo]) + 1
          /\ \A k \in 1..Len(log[q.repo]) : log'[q.repo][k] = log[q.repo][k]
      BY <1>2, Published
    <2> HIDE DEF q
    <2>2. \A i \in Ids : commits[i] # NULL => commits'[i] = commits[i]
      BY <2>1
    <2>3. ASSUME NEW n \in Names
          PROVE  /\ Len(log'[n]) \in Nat /\ Len(log[n]) <= Len(log'[n])
                 /\ \A k \in 1..Len(log[n]) : log'[n][k] = log[n][k]
      <3>1. CASE n = q.repo
        BY <1>1, <2>1, <3>1
      <3>2. CASE n # q.repo
        BY <1>1, <2>1, <3>2
      <3> QED BY <3>1, <3>2
    <2> QED BY <1>1, <2>2, <2>3 DEF Persists
  <1>3. CASE UNCHANGED <<commits, head, log>>
    BY <1>1, <1>3 DEF Persists
  <1> QED BY <1>2, <1>3, OnlyCommitPublishes

-----------------------------------------------------------------------------
(***************************************************************************)
(* What each statement leaves in the record of its request.                *)
(***************************************************************************)

LEMMA CreateSelects ==
    ASSUME Types, NEW r \in Requests, NEW n \in Names, NEW b \in BOOLEAN,
           create_select(r, n, b)
    PROVE  /\ \A s \in Requests \ {r} : request'[s] = request[s]
           /\ request'[r] \in Request /\ request'[r].pc = "create"
           /\ request'[r].repo = n
  <1> DEFINE t == [Idle EXCEPT !.pc = "create", !.repo = n, !.private = b]
  <1>1. t \in Request /\ t.pc = "create" /\ t.repo = n
    BY IdleFacts DEF Request, Stages
  <1>2. request' = [request EXCEPT ![r] = t]
    BY DEF create_select
  <1> HIDE DEF t
  <1> QED BY <1>1, <1>2 DEF Types

LEMMA CommitBegins ==
    ASSUME Types, NEW r \in Requests, NEW n \in Names, NEW p \in Payloads,
           commit_begin(r, n, p)
    PROVE  /\ \A s \in Requests \ {r} : request'[s] = request[s]
           /\ request'[r] \in Request /\ request'[r].pc = "check"
           /\ request'[r].repo = n /\ request'[r].payload = p
           /\ request'[r].rows = <<>>
  <1> DEFINE t == [Idle EXCEPT !.pc = "check", !.repo = n, !.payload = p]
  <1>1. /\ t \in Request /\ t.pc = "check" /\ t.repo = n
        /\ t.payload = p /\ t.rows = <<>>
    BY IdleFacts, ReposAssumption DEF Request, Stages
  <1>2. request' = [request EXCEPT ![r] = t]
    BY DEF commit_begin
  <1> HIDE DEF t
  <1> QED BY <1>1, <1>2 DEF Types

LEMMA RequestEnds ==
    ASSUME Types, NEW r \in Requests, request' = [request EXCEPT ![r] = Idle]
    PROVE  /\ \A s \in Requests \ {r} : request'[s] = request[s]
           /\ request'[r] \in Request /\ request'[r].pc = "idle"
  BY IdleFacts DEF Types

\* An entry that passes the validation loop is stored when its row is there.
LEMMA CommitChecks ==
    ASSUME Types, NEW r \in Requests, commit_check(r)
    PROVE  /\ \A s \in Requests \ {r} : request'[s] = request[s]
           /\ request[r] \in Request /\ request'[r] \in Request
           /\ request[r].pc = "check"
           /\ \/ request'[r].pc = "idle"
              \/ /\ request'[r].pc = "check" /\ request'[r].repo = request[r].repo
                 /\ request'[r].payload = request[r].payload
                 /\ Len(request[r].rows) < Len(request[r].payload)
                 /\ \E b \in Files :
                       LET k == Len(request[r].rows) + 1
                           e == request[r].payload[k]
                       IN  /\ request'[r].rows =
                                 Append(request[r].rows, [path |-> e.path, file |-> b])
                           /\ e.xet_hash = NULL =>
                                 \/ b.lfs_oid \in lfs' \cap {e.oid, e.content}
                                 \/ b.xet_hash \in registered' \cap {e.oid}
                           /\ e.path \in Paths
  <1> DEFINE q == request[r]
             k == Len(q.rows) + 1
             e == q.payload[k]
             b == Backend(e)
  <1>1. q \in Request /\ q.pc = "check" /\ Len(q.rows) < Len(q.payload)
        /\ registered' = registered
    BY DEF Types, commit_check
  <1>2. e \in Entry
    <2>1. q.payload \in Seq(Entry) /\ Len(q.rows) \in Nat
      BY <1>1 DEF Request
    <2>2. k \in 1..Len(q.payload)
      BY <1>1, <2>1
    <2> QED BY <2>1, <2>2
  <1>3. CASE b = NULL
    <2>1. request' = [request EXCEPT ![r] = Idle]
      BY <1>3 DEF commit_check
    <2> QED BY <1>1, <2>1, RequestEnds
  <1>4. CASE b # NULL
    <2> DEFINE row == [path |-> e.path, file |-> b]
               t == [q EXCEPT !.rows = Append(@, row)]
    <2>1. /\ b \in Files /\ b.lfs_oid \in Contents \cup {NULL}
          /\ e.xet_hash = NULL =>
                \/ b.lfs_oid \in {e.oid, e.content} /\ b.lfs_oid \in Contents
                \/ b.xet_hash \in registered \cap {e.oid}
      BY <1>2, <1>4, BackendIsStored
    <2>2. row \in [path : Paths, file : Files] /\ e.path \in Paths
      BY <1>2, <2>1 DEF Entry
    <2>3. /\ t \in Request /\ t.pc = q.pc /\ t.repo = q.repo
          /\ t.payload = q.payload /\ t.rows = Append(q.rows, row)
      <3> HIDE DEF row
      <3>1. Append(q.rows, row) \in Seq([path : Paths, file : Files])
        BY <1>1, <2>2 DEF Request
      <3> QED BY <1>1, <3>1 DEF Request
    <2>4. request' = [request EXCEPT ![r] = t]
      BY <1>4 DEF commit_check
    <2>5. lfs' = IF b.lfs_oid # NULL THEN lfs \cup {b.lfs_oid} ELSE lfs
      BY <1>4 DEF commit_check
    <2> HIDE DEF t, b, e
    <2>6. e.xet_hash = NULL =>
              \/ b.lfs_oid \in lfs' \cap {e.oid, e.content}
              \/ b.xet_hash \in registered' \cap {e.oid}
      BY <1>1, <2>1, <2>5, ReposAssumption
    <2>7. request'[r] = t /\ \A s \in Requests \ {r} : request'[s] = request[s]
      BY <2>4 DEF Types
    <2> QED BY <1>1, <2>1, <2>2, <2>3, <2>6, <2>7 DEF e
  <1> QED BY <1>3, <1>4

LEMMA CommitReadsParent ==
    ASSUME Types, NEW r \in Requests, commit_parent(r), request[r].repo \in Names
    PROVE  /\ \A s \in Requests \ {r} : request'[s] = request[s]
           /\ request'[r] \in Request /\ request'[r].pc = "insert"
           /\ request'[r].repo = request[r].repo
           /\ request'[r].payload = request[r].payload
           /\ request'[r].rows = request[r].rows
           /\ request'[r].parent = head[request[r].repo]
  <1> DEFINE q == request[r]
             t == [q EXCEPT !.pc = "insert", !.parent = head[q.repo]]
  <1>1. q \in Request /\ head[q.repo] \in Ids \cup {NULL}
    BY DEF Types
  <1>2. /\ t \in Request /\ t.pc = "insert" /\ t.repo = q.repo
        /\ t.payload = q.payload /\ t.rows = q.rows /\ t.parent = head[q.repo]
    BY <1>1 DEF Request, Stages
  <1>3. request' = [request EXCEPT ![r] = t]
    BY DEF commit_parent
  <1> HIDE DEF t
  <1> QED BY <1>2, <1>3 DEF Types

LEMMA CommitInserts ==
    ASSUME Types, IdsSuffice, NEW r \in Requests, commit_insert(r)
    PROVE  /\ \A s \in Requests \ {r} : request'[s] = request[s]
           /\ request[r] \in Request /\ request'[r] \in Request
           /\ \/ request'[r].pc = "idle"
              \/ /\ request'[r].pc = "upsert" /\ request'[r].repo = request[r].repo
                 /\ request'[r].payload = request[r].payload
                 /\ request'[r].rows = request[r].rows
                 /\ request'[r].parent = request[r].parent
                 /\ request'[r].id = next /\ next \in Ids
                 /\ PathsDiffer(request[r])
  <1> DEFINE q == request[r]
             t == [q EXCEPT !.pc = "upsert", !.id = next]
             Twice == \E i, j \in DOMAIN q.rows : i # j /\ q.rows[i].path = q.rows[j].path
  <1>1. q \in Request /\ next \in Ids /\ DOMAIN q.rows = 1..Len(q.rows)
    <2>1. q \in Request /\ request[r].pc \in {"check", "insert"}
      BY DEF Types, commit_insert
    <2>2. next \in Ids
      BY <2>1, NextIsAnId
    <2>3. q.rows \in Seq([path : Paths, file : Files])
      BY <2>1 DEF Request
    <2> QED BY <2>1, <2>2, <2>3, LenProperties
  <1>2. /\ t \in Request /\ t.pc = "upsert" /\ t.repo = q.repo
        /\ t.payload = q.payload /\ t.rows = q.rows /\ t.parent = q.parent /\ t.id = next
    BY <1>1 DEF Request, Stages
  <1>3. request' = [request EXCEPT ![r] = IF Twice THEN Idle ELSE t]
    BY DEF commit_insert
  <1>4. CASE Twice
    <2>1. request' = [request EXCEPT ![r] = Idle]
      BY <1>3, <1>4
    <2> QED BY <1>1, <2>1, RequestEnds
  <1>5. CASE ~Twice
    <2>1. request' = [request EXCEPT ![r] = t] /\ PathsDiffer(q)
      BY <1>1, <1>3, <1>5 DEF PathsDiffer
    <2> HIDE DEF t
    <2>2. request'[r] = t /\ \A s \in Requests \ {r} : request'[s] = request[s]
      BY <2>1 DEF Types
    <2> QED BY <1>1, <1>2, <2>1, <2>2
  <1> QED BY <1>4, <1>5

LEMMA CommitUpserts ==
    ASSUME Types, NEW r \in Requests, commit_upsert(r)
    PROVE  /\ \A s \in Requests \ {r} : request'[s] = request[s]
           /\ request[r] \in Request /\ request'[r] \in Request
           /\ request[r].pc = "upsert" /\ request'[r].pc = "commit"
           /\ request'[r].repo = request[r].repo
           /\ request'[r].payload = request[r].payload
           /\ request'[r].rows = request[r].rows
           /\ request'[r].parent = request[r].parent
           /\ request'[r].id = request[r].id
  <1> DEFINE q == request[r]
             t == [q EXCEPT !.pc = "commit"]
  <1>1. q \in Request /\ q.pc = "upsert"
    BY DEF Types, commit_upsert
  <1>2. /\ t \in Request /\ t.pc = "commit" /\ t.repo = q.repo
        /\ t.payload = q.payload /\ t.rows = q.rows
        /\ t.parent = q.parent /\ t.id = q.id
    BY <1>1, RequestMoves
  <1>3. request' = [request EXCEPT ![r] = t]
    BY DEF commit_upsert
  <1> HIDE DEF t
  <1>4. request'[r] = t /\ \A s \in Requests \ {r} : request'[s] = request[s]
    BY <1>3 DEF Types
  <1> QED BY <1>1, <1>2, <1>4

-----------------------------------------------------------------------------
(***************************************************************************)
(* The ids suffice.                                                        *)
(***************************************************************************)

LEMMA FewerPending ==
    ASSUME Types, IdsSuffice, next' = next, NEW r \in Requests,
           Pending' \subseteq Pending
    PROVE  IdsSuffice'
  <1>1. IsFiniteSet(Pending) /\ Cardinality(Pending) \in Nat
    BY PendingFacts
  <1>2. Cardinality(Pending') <= Cardinality(Pending) /\ Cardinality(Pending') \in Nat
    BY <1>1, FS_Subset, FS_CardinalityType
  <1> QED BY <1>1, <1>2, ReposAssumption DEF IdsSuffice, Types

LEMMA NextIdsSuffice == IInv /\ [Next]_vars => IdsSuffice'
  <1> SUFFICES ASSUME IInv, [Next]_vars PROVE IdsSuffice'
    OBVIOUS
  <1>0. Types /\ IdsSuffice /\ Types'
    BY NextTypes DEF IInv
  <1>1. CASE UNCHANGED <<request, next>>
    BY <1>0, <1>1 DEF IdsSuffice, Pending
  <1>2. ASSUME NEW r \in Requests, next' = next, request'[r].pc \notin {"check", "insert"},
               \A s \in Requests \ {r} : request'[s] = request[s]
        PROVE  IdsSuffice'
    <2>1. Pending' \subseteq Pending
      BY <1>2 DEF Pending
    <2> QED BY <1>0, <1>2, <2>1, FewerPending
  <1>3. ASSUME NEW r \in Requests, NEW n \in Names, NEW b \in BOOLEAN,
               create_select(r, n, b)
        PROVE  IdsSuffice'
    <2>1. request'[r].pc = "create" /\ \A s \in Requests \ {r} : request'[s] = request[s]
      BY <1>0, <1>3, CreateSelects
    <2> QED BY <1>2, <1>3, <2>1 DEF create_select
  <1>4. ASSUME NEW r \in Requests, NEW n \in Names, NEW p \in Payloads,
               commit_begin(r, n, p)
        PROVE  IdsSuffice'
    <2>1. Pending' \subseteq Pending \cup {r}
      BY <1>0, <1>4 DEF commit_begin, Types, Pending
    <2>2. /\ IsFiniteSet(Pending \cup {r}) /\ Cardinality(Pending) \in Nat
          /\ Cardinality(Pending \cup {r}) <= Cardinality(Pending) + 1
      BY PendingFacts
    <2>3. /\ Cardinality(Pending \cup {r}) \in Nat /\ Cardinality(Pending') \in Nat
          /\ Cardinality(Pending') <= Cardinality(Pending \cup {r})
      BY <2>1, <2>2, FS_Subset, FS_CardinalityType
    <2>4. next' = next /\ next + Cardinality(Pending) <= MaxCommits
      BY <1>4 DEF commit_begin
    <2> QED BY <1>0, <2>2, <2>3, <2>4, ReposAssumption DEF IdsSuffice, Types
  <1>5. ASSUME NEW r \in Requests, create_insert(r) \/ commit_commit(r) \/ Drop(r)
        PROVE  IdsSuffice'
    <2>1. request' = [request EXCEPT ![r] = Idle] /\ next' = next
      BY <1>5 DEF create_insert, commit_commit, Drop
    <2>2. request'[r].pc = "idle" /\ \A s \in Requests \ {r} : request'[s] = request[s]
      BY <1>0, <2>1, IdleFacts DEF Types
    <2> QED BY <1>2, <2>1, <2>2
  <1>6. ASSUME NEW r \in Requests, commit_check(r)
        PROVE  IdsSuffice'
    <2>1. Pending' \subseteq Pending
      BY <1>0, <1>6 DEF commit_check, Pending, Types
    <2> QED BY <1>0, <1>6, <2>1, FewerPending DEF commit_check
  <1>7. ASSUME NEW r \in Requests, commit_parent(r)
        PROVE  IdsSuffice'
    <2>1. Pending' \subseteq Pending
      BY <1>0, <1>7 DEF commit_parent, Pending, Types
    <2> QED BY <1>0, <1>7, <2>1, FewerPending DEF commit_parent
  <1>8. ASSUME NEW r \in Requests, commit_insert(r)
        PROVE  IdsSuffice'
    <2>1. /\ request[r] \in Request /\ request[r].pc = "insert" /\ next' = next + 1
          /\ next \in Ids
      BY <1>0, <1>8, NextIsAnId DEF commit_insert, Types
    <2>2. request'[r].pc \in {"idle", "upsert"}
          /\ \A s \in Requests \ {r} : request'[s] = request[s]
      BY <1>0, <1>8, CommitInserts
    <2>3. Pending' \subseteq Pending \ {r} /\ r \in Pending
      BY <2>1, <2>2 DEF Pending
    <2>4. /\ IsFiniteSet(Pending \ {r}) /\ Cardinality(Pending \ {r}) \in Nat
          /\ Cardinality(Pending \ {r}) = Cardinality(Pending) - 1
          /\ Cardinality(Pending) \in Nat
      BY <2>3, PendingFacts
    <2>5. /\ Cardinality(Pending') \in Nat
          /\ Cardinality(Pending') <= Cardinality(Pending \ {r})
      BY <2>3, <2>4, FS_Subset, FS_CardinalityType
    <2> QED BY <1>0, <2>1, <2>4, <2>5, ReposAssumption DEF IdsSuffice, Types
  <1>9. ASSUME NEW r \in Requests, commit_upsert(r)
        PROVE  IdsSuffice'
    <2>1. request'[r].pc = "commit" /\ \A s \in Requests \ {r} : request'[s] = request[s]
      BY <1>0, <1>9, CommitUpserts
    <2> QED BY <1>2, <1>9, <2>1 DEF commit_upsert
  <1>10. ASSUME NEW h \in Large, lfs_upload(h) \/ RegisterShard(h) \/ UploadXorb(h)
         PROVE  IdsSuffice'
    BY <1>1, <1>10 DEF lfs_upload, RegisterShard, UploadXorb
  <1>11. CASE \E c \in Clients, n \in Names, b \in BOOLEAN : model_info(c, n, b)
    BY <1>1, <1>11 DEF model_info
  <1>12. CASE \E c \in Clients, n \in Names, i \in Ids \cup {main}, p \in Paths :
                  resolve_lookup(c, n, i, p)
    BY <1>1, <1>12 DEF resolve_lookup
  <1>13. CASE \E c \in Clients :
                  siblings(c) \/ resolve_commit_sha(c) \/ Continue(c) \/ Leave(c)
    BY <1>1, <1>13 DEF siblings, resolve_commit_sha, Continue, Leave
  <1>14. CASE UNCHANGED vars
    BY <1>1, <1>14 DEF vars
  <1> QED BY <1>3, <1>4, <1>5, <1>6, <1>7, <1>8, <1>9, <1>10, <1>11, <1>12, <1>13, <1>14
          DEF Next, Handle

-----------------------------------------------------------------------------
(***************************************************************************)
(* What a request knows stays true while others run.                       *)
(***************************************************************************)

LEMMA RowsStayFit ==
    ASSUME Grows, NEW q, RowsFit(q)
    PROVE  RowsFit(q)'
  BY DEF Grows, RowsFit, Stored

LEMMA ParentStaysSeen ==
    ASSUME Persists, NEW q, q.repo \in Names, ParentSeen(q)
    PROVE  ParentSeen(q)'
  <1> SUFFICES ASSUME q.parent # NULL
               PROVE  \E j \in 1..Len(log'[q.repo]) : log'[q.repo][j] = q.parent
    BY DEF ParentSeen
  <1>1. PICK j \in 1..Len(log[q.repo]) : log[q.repo][j] = q.parent
    BY DEF ParentSeen
  <1> QED BY <1>1 DEF Persists

LEMMA KnowledgeStays ==
    ASSUME Types, Grows, Persists, next' \in Nat, NEW q \in Request, RequestKnows(q),
           q.pc \in {"upsert", "commit"} => commits'[q.id] = NULL
    PROVE  RequestKnows(q)'
  <1>1. next \in Nat /\ next <= next'
    BY DEF Types, Grows
  <1>2. q.pc # "idle" => q.repo \in Names
    BY DEF RequestKnows
  <1>3. q.pc \in {"check", "insert", "upsert", "commit"} =>
            repo'[q.repo] # NULL /\ RowsFit(q)'
    BY <1>2, RowsStayFit DEF RequestKnows, Grows
  <1>4. q.pc \in {"insert", "upsert", "commit"} =>
           /\ Len(q.rows) = Len(q.payload)
           /\ ParentSeen(q)'
           /\ q.parent \in 1..next'-1 \cup {NULL}
    BY <1>1, <1>2, ParentStaysSeen DEF RequestKnows
  <1>5. q.pc \in {"upsert", "commit"} => IdIsFresh(q)' /\ PathsDiffer(q)
    BY <1>1 DEF RequestKnows, IdIsFresh
  <1> QED BY <1>2, <1>3, <1>4, <1>5 DEF RequestKnows, PathsDiffer

\* A step after which every request but one is as it was, and that one knows
\* what it needs and has an id of its own.
LEMMA OneRequestMoves ==
    ASSUME IInv, [Next]_vars, NEW r \in Requests,
           \A s \in Requests \ {r} : request'[s] = request[s],
           \A s \in Requests \ {r} :
               request[s].pc \in {"upsert", "commit"} => commits'[request[s].id] = NULL,
           RequestKnows(request[r])',
           request'[r].pc \in {"upsert", "commit"} =>
               \A s \in Requests \ {r} :
                   request[s].pc \in {"upsert", "commit"} => request'[r].id # request[s].id
    PROVE  RequestInv'
  <1>1. Types /\ Grows /\ Persists /\ next' \in Nat
    BY NextTypes, TablesGrow, VisiblePersists DEF IInv, Types
  <1>2. ASSUME NEW s \in Requests PROVE RequestKnows(request[s])'
    <2>1. CASE s = r
      BY <2>1
    <2>2. CASE s # r
      <3>1. /\ request[s] \in Request /\ RequestKnows(request[s])
            /\ request'[s] = request[s]
        BY <2>2 DEF IInv, Types, RequestInv
      <3>2. ASSUME NEW x \in Request, RequestKnows(x),
                   x.pc \in {"upsert", "commit"} => commits'[x.id] = NULL
            PROVE  RequestKnows(x)'
        BY <1>1, <3>2, KnowledgeStays
      <3> QED BY <2>2, <3>1, <3>2
    <2> QED BY <2>1, <2>2
  <1>3. ASSUME NEW s \in Requests, NEW u \in Requests, s # u,
               {request'[s].pc, request'[u].pc} \subseteq {"upsert", "commit"}
        PROVE  request'[s].id # request'[u].id
    <2>1. CASE r \notin {s, u}
      BY <1>3, <2>1 DEF IInv, RequestInv
    <2>2. CASE r \in {s, u}
      BY <1>3, <2>2
    <2> QED BY <2>1, <2>2
  <1> QED BY <1>2, <1>3 DEF RequestInv

LEMMA NextRequestInv == IInv /\ [Next]_vars => RequestInv'
  <1> SUFFICES ASSUME IInv, [Next]_vars PROVE RequestInv'
    OBVIOUS
  <1>0. /\ Types /\ IdsSuffice /\ Types' /\ Grows /\ Persists
        /\ next \in Nat /\ next' \in Nat /\ next <= next'
    BY NextTypes, TablesGrow, VisiblePersists DEF IInv, Types, Grows
  <1>1. ASSUME NEW s \in Requests, request[s].pc \in {"upsert", "commit"}
        PROVE  commits[request[s].id] = NULL /\ request[s].id \in 1..next-1
    BY <1>1 DEF IInv, RequestInv, RequestKnows, IdIsFresh
  <1>2. CASE UNCHANGED <<request, commits>>
    <2>1. ASSUME NEW x \in Request, RequestKnows(x),
                 x.pc \in {"upsert", "commit"} => commits'[x.id] = NULL
          PROVE  RequestKnows(x)'
      BY <1>0, <2>1, KnowledgeStays
    <2>2. ASSUME NEW s \in Requests PROVE RequestKnows(request[s])'
      <3>1. /\ request[s] \in Request /\ RequestKnows(request[s])
            /\ request'[s] = request[s] /\ commits' = commits
        BY <1>2 DEF IInv, Types, RequestInv
      <3> QED BY <1>1, <2>1, <3>1
    <2>3. \A s, u \in Requests : request'[s] = request[s] /\ request'[u] = request[u]
      BY <1>2
    <2> QED BY <2>2, <2>3 DEF IInv, RequestInv
  <1>3. ASSUME NEW r \in Requests, UNCHANGED commits,
               \A s \in Requests \ {r} : request'[s] = request[s],
               RequestKnows(request[r])',
               request'[r].pc \notin {"upsert", "commit"}
        PROVE  RequestInv'
    BY <1>1, <1>3, OneRequestMoves
  <1>4. ASSUME NEW r \in Requests, request'[r].pc = "idle"
        PROVE  RequestKnows(request[r])'
    BY <1>4 DEF RequestKnows
  <1>5. ASSUME NEW r \in Requests, NEW n \in Names, NEW b \in BOOLEAN,
               create_select(r, n, b)
        PROVE  RequestInv'
    <2>1. /\ \A s \in Requests \ {r} : request'[s] = request[s]
          /\ request'[r].pc = "create" /\ request'[r].repo = n
      BY <1>0, <1>5, CreateSelects
    <2>2. RequestKnows(request[r])'
      BY <2>1 DEF RequestKnows
    <2> QED BY <1>3, <1>5, <2>1, <2>2 DEF create_select
  <1>6. ASSUME NEW r \in Requests, NEW n \in Names, NEW p \in Payloads,
               commit_begin(r, n, p)
        PROVE  RequestInv'
    <2>1. /\ \A s \in Requests \ {r} : request'[s] = request[s]
          /\ request'[r].pc = "check" /\ request'[r].repo = n
          /\ request'[r].payload = p /\ request'[r].rows = <<>> /\ p \in Seq(Entry)
      BY <1>0, <1>6, CommitBegins, ReposAssumption
    <2>2. repo'[n] # NULL
      BY <1>6 DEF commit_begin
    <2>3. RowsFit(request[r])'
      BY <2>1 DEF RowsFit
    <2>4. RequestKnows(request[r])'
      BY <2>1, <2>2, <2>3 DEF RequestKnows
    <2> QED BY <1>3, <1>6, <2>1, <2>4 DEF commit_begin
  <1>7. ASSUME NEW r \in Requests, create_insert(r) \/ Drop(r)
        PROVE  RequestInv'
    <2>1. request' = [request EXCEPT ![r] = Idle] /\ UNCHANGED commits
      BY <1>7 DEF create_insert, Drop
    <2>2. \A s \in Requests \ {r} : request'[s] = request[s]
      BY <1>0, <2>1, RequestEnds
    <2>3. request'[r].pc = "idle"
      BY <1>0, <2>1, RequestEnds
    <2> QED BY <1>3, <1>4, <2>1, <2>2, <2>3
  <1>8. ASSUME NEW r \in Requests, commit_check(r)
        PROVE  RequestInv'
    <2> DEFINE q == request[r]
    <2>1. /\ \A s \in Requests \ {r} : request'[s] = request[s]
          /\ q \in Request /\ request'[r] \in Request /\ q.pc = "check"
      BY <1>0, <1>8, CommitChecks
    <2>2. CASE request'[r].pc = "idle"
      BY <1>3, <1>4, <1>8, <2>1, <2>2 DEF commit_check
    <2>3. CASE request'[r].pc # "idle"
      <3> DEFINE k == Len(q.rows) + 1
                 e == q.payload[k]
      <3>1. /\ request'[r].pc = "check" /\ request'[r].repo = q.repo
            /\ request'[r].payload = q.payload /\ Len(q.rows) < Len(q.payload)
            /\ \E b \in Files :
                  /\ request'[r].rows = Append(q.rows, [path |-> e.path, file |-> b])
                  /\ e.xet_hash = NULL =>
                        \/ b.lfs_oid \in lfs' \cap {e.oid, e.content}
                        \/ b.xet_hash \in registered' \cap {e.oid}
                  /\ e.path \in Paths
        BY <1>0, <1>8, <2>3, CommitChecks
      <3>2. PICK b \in Files :
                  /\ request'[r].rows = Append(q.rows, [path |-> e.path, file |-> b])
                  /\ e.xet_hash = NULL =>
                        \/ b.lfs_oid \in lfs' \cap {e.oid, e.content}
                        \/ b.xet_hash \in registered' \cap {e.oid}
                  /\ e.path \in Paths
        BY <3>1
      <3>3. RequestKnows(q) /\ RowsFit(q) /\ q.repo \in Names /\ repo[q.repo] # NULL
        BY <2>1 DEF IInv, RequestInv, RequestKnows
      <3>4. /\ Len(request'[r].rows) = k /\ Len(q.rows) \in Nat
            /\ Len(q.payload) \in Nat
            /\ \A j \in 1..Len(q.rows) : request'[r].rows[j] = q.rows[j]
            /\ request'[r].rows[k] = [path |-> e.path, file |-> b]
        <4>1. q.rows \in Seq([path : Paths, file : Files]) /\ q.payload \in Seq(Entry)
          BY <2>1 DEF Request
        <4>2. [path |-> e.path, file |-> b] \in [path : Paths, file : Files]
          BY <3>2
        <4> QED BY <3>2, <4>1, <4>2
      <3>5. /\ request'[r].rows[k].path = e.path
            /\ e.xet_hash = NULL =>
                  \/ request'[r].rows[k].file.lfs_oid \in lfs' \cap {e.oid, e.content}
                  \/ request'[r].rows[k].file.xet_hash \in registered' \cap {e.oid}
        <4>1. request'[r].rows[k].path = e.path /\ request'[r].rows[k].file = b
          BY <3>4
        <4> QED BY <3>2, <4>1
      <3>6. ASSUME NEW j \in 1..Len(q.rows)
            PROVE  /\ request'[r].rows[j].path = q.payload[j].path
                   /\ q.payload[j].xet_hash = NULL =>
                         \/ /\ request'[r].rows[j].file.lfs_oid \in lfs'
                            /\ request'[r].rows[j].file.lfs_oid
                                  \in {q.payload[j].oid, q.payload[j].content}
                         \/ /\ request'[r].rows[j].file.xet_hash \in registered'
                            /\ request'[r].rows[j].file.xet_hash = q.payload[j].oid
        BY <1>0, <3>3, <3>4 DEF RowsFit, Stored, Grows
      <3>7. RowsFit(request[r])'
        <4> DEFINE Fit(j) ==
                     /\ request'[r].rows[j].path = request'[r].payload[j].path
                     /\ request'[r].payload[j].xet_hash = NULL =>
                           \/ request'[r].rows[j].file.lfs_oid \in lfs'
                                 \cap {request'[r].payload[j].oid,
                                       request'[r].payload[j].content}
                           \/ request'[r].rows[j].file.xet_hash
                                 \in registered' \cap {request'[r].payload[j].oid}
        <4>1. Fit(k)
          BY <3>1, <3>5
        <4>2. ASSUME NEW j \in 1..Len(q.rows) PROVE Fit(j)
          BY <3>1, <3>6
        <4>3. /\ \A j \in 1..Len(request'[r].rows) : j = k \/ j \in 1..Len(q.rows)
              /\ Len(request'[r].rows) <= Len(request'[r].payload)
          BY <3>1, <3>4
        <4>4. \A j \in 1..Len(request'[r].rows) : Fit(j)
          <5> HIDE DEF Fit, k
          <5> QED BY <4>1, <4>2, <4>3
        <4> QED BY <4>3, <4>4 DEF RowsFit, Stored
      <3>8. RequestKnows(request[r])'
        BY <1>0, <3>1, <3>3, <3>7 DEF RequestKnows, Grows
      <3> QED BY <1>3, <1>8, <2>1, <3>1, <3>8 DEF commit_check
    <2> QED BY <2>2, <2>3
  <1>9. ASSUME NEW r \in Requests, commit_parent(r)
        PROVE  RequestInv'
    <2> DEFINE q == request[r]
    <2>1. /\ q \in Request /\ RequestKnows(q) /\ q.pc = "check" /\ q.repo \in Names
          /\ RowsFit(q) /\ repo[q.repo] # NULL /\ Len(q.rows) = Len(q.payload)
      BY <1>9 DEF IInv, RequestInv, RequestKnows, Types, commit_parent
    <2>2. /\ \A s \in Requests \ {r} : request'[s] = request[s]
          /\ request'[r] \in Request /\ request'[r].pc = "insert"
          /\ request'[r].repo = q.repo /\ request'[r].payload = q.payload
          /\ request'[r].rows = q.rows /\ request'[r].parent = head[q.repo]
      BY <1>0, <1>9, <2>1, CommitReadsParent
    <2>3. head[q.repo] # NULL =>
              \E j \in 1..Len(log[q.repo]) : log[q.repo][j] = head[q.repo]
      <3>1. log[q.repo] \in Seq(Ids)
        BY <1>0, <2>1 DEF Types
      <3>2. head[q.repo] # NULL => log[q.repo] # <<>> /\ head[q.repo] = Last(log[q.repo])
        BY <2>1 DEF IInv, HeadIsLastCommit
      <3> QED BY <3>1, <3>2 DEF Last
    <2>4. head[q.repo] \in 1..next-1 \cup {NULL} /\ log' = log /\ next' = next
      BY <1>9, <2>1 DEF IInv, CommitInv, commit_parent
    <2>5. RowsFit(request[r])'
      BY <1>0, <2>1, <2>2 DEF RowsFit, Stored, Grows
    <2>6. ParentSeen(request[r])'
      BY <2>2, <2>3, <2>4 DEF ParentSeen
    <2>7. RequestKnows(request[r])'
      BY <1>0, <2>1, <2>2, <2>4, <2>5, <2>6 DEF RequestKnows, Grows
    <2> QED BY <1>3, <1>9, <2>2, <2>7 DEF commit_parent
  <1>10. ASSUME NEW r \in Requests, commit_insert(r)
         PROVE  RequestInv'
    <2> DEFINE q == request[r]
    <2>1. /\ q \in Request /\ RequestKnows(q) /\ q.pc = "insert" /\ q.repo \in Names
          /\ RowsFit(q) /\ repo[q.repo] # NULL /\ Len(q.rows) = Len(q.payload)
          /\ ParentSeen(q) /\ q.parent \in 1..next-1 \cup {NULL}
      BY <1>10 DEF IInv, RequestInv, RequestKnows, Types, commit_insert
    <2>2. /\ \A s \in Requests \ {r} : request'[s] = request[s]
          /\ \/ request'[r].pc = "idle"
             \/ /\ request'[r].pc = "upsert" /\ request'[r].repo = q.repo
                /\ request'[r].payload = q.payload /\ request'[r].rows = q.rows
                /\ request'[r].parent = q.parent /\ request'[r].id = next
                /\ next \in Ids /\ PathsDiffer(q)
      BY <1>0, <1>10, CommitInserts
    <2>3. next' = next + 1 /\ UNCHANGED <<commits, log>>
      BY <1>10 DEF commit_insert
    <2>4. CASE request'[r].pc = "idle"
      BY <1>3, <1>4, <2>2, <2>3, <2>4
    <2>5. CASE request'[r].pc # "idle"
      <3>1. /\ request'[r].pc = "upsert" /\ request'[r].repo = q.repo
            /\ request'[r].payload = q.payload /\ request'[r].rows = q.rows
            /\ request'[r].parent = q.parent /\ request'[r].id = next
            /\ next \in Ids /\ PathsDiffer(q)
        BY <2>2, <2>5
      <3>2. commits[next] = NULL
        BY <1>0, <3>1 DEF IInv, CommitInv
      <3>3. IdIsFresh(request[r])'
        BY <1>0, <2>1, <2>3, <3>1, <3>2 DEF IdIsFresh, Types
      <3>4. RowsFit(request[r])' /\ PathsDiffer(request[r])'
        <4>1. PathsDiffer(request[r])'
          BY <3>1 DEF PathsDiffer
        <4>2. \A e, f : Stored(e, f) => Stored(e, f)'
          BY <1>0 DEF Stored, Grows
        <4> QED BY <2>1, <3>1, <4>1, <4>2 DEF RowsFit
      <3>5. ParentSeen(request[r])'
        BY <2>1, <2>3, <3>1 DEF ParentSeen
      <3>6. RequestKnows(request[r])'
        BY <1>0, <2>1, <2>3, <3>1, <3>3, <3>4, <3>5 DEF RequestKnows, Grows
      <3>7. ASSUME NEW s \in Requests \ {r}, request[s].pc \in {"upsert", "commit"}
            PROVE  request'[r].id # request[s].id /\ commits'[request[s].id] = NULL
        BY <1>0, <1>1, <2>3, <3>1, <3>7
      <3> QED BY <2>2, <3>6, <3>7, OneRequestMoves
    <2> QED BY <2>4, <2>5
  <1>11. ASSUME NEW r \in Requests, commit_upsert(r)
         PROVE  RequestInv'
    <2> DEFINE q == request[r]
    <2>1. /\ q \in Request /\ RequestKnows(q) /\ q.pc = "upsert" /\ q.repo \in Names
          /\ RowsFit(q) /\ repo[q.repo] # NULL /\ Len(q.rows) = Len(q.payload)
          /\ ParentSeen(q) /\ q.parent \in 1..next-1 \cup {NULL}
          /\ IdIsFresh(q) /\ PathsDiffer(q)
      BY <1>11 DEF IInv, RequestInv, RequestKnows, Types, commit_upsert
    <2>2. /\ \A s \in Requests \ {r} : request'[s] = request[s]
          /\ request'[r].pc = "commit" /\ request'[r].repo = q.repo
          /\ request'[r].payload = q.payload /\ request'[r].rows = q.rows
          /\ request'[r].parent = q.parent /\ request'[r].id = q.id
      BY <1>0, <1>11, CommitUpserts
    <2>3. UNCHANGED <<commits, log, next, repo, lfs, registered>>
      BY <1>11 DEF commit_upsert, stored
    <2>4. RowsFit(request[r])' /\ PathsDiffer(request[r])'
      <3>1. PathsDiffer(request[r])'
        BY <2>1, <2>2 DEF PathsDiffer
      <3>2. \A e, f : Stored(e, f) => Stored(e, f)'
        BY <2>3 DEF Stored
      <3> QED BY <2>1, <2>2, <3>1, <3>2 DEF RowsFit
    <2>5. ParentSeen(request[r])' /\ IdIsFresh(request[r])'
      BY <2>1, <2>2, <2>3 DEF ParentSeen, IdIsFresh
    <2>6. RequestKnows(request[r])'
      BY <2>1, <2>2, <2>3, <2>4, <2>5 DEF RequestKnows
    <2>7. ASSUME NEW s \in Requests \ {r}, request[s].pc \in {"upsert", "commit"}
          PROVE  request'[r].id # request[s].id /\ commits'[request[s].id] = NULL
      BY <1>1, <2>1, <2>2, <2>3, <2>7 DEF IInv, RequestInv
    <2> QED BY <2>2, <2>6, <2>7, OneRequestMoves
  <1>12. ASSUME NEW r \in Requests, commit_commit(r)
         PROVE  RequestInv'
    <2> DEFINE q == request[r]
    <2>1. request' = [request EXCEPT ![r] = Idle] /\ q.pc = "commit"
      BY <1>12 DEF commit_commit
    <2>2. \A s \in Requests \ {r} : request'[s] = request[s]
      BY <1>0, <2>1, RequestEnds
    <2>3. request'[r].pc = "idle"
      BY <1>0, <2>1, RequestEnds
    <2>4. ASSUME NEW s \in Requests \ {r}, request[s].pc \in {"upsert", "commit"}
          PROVE  commits'[request[s].id] = NULL
      <3>1. request[s].id # q.id
        BY <2>1, <2>4 DEF IInv, RequestInv
      <3>2. request[s].id \in Ids
        <4>1. next \in 1..MaxCommits + 1
          BY NextIsBounded DEF IInv
        <4> QED BY <1>1, <2>4, <4>1, ReposAssumption DEF Ids
      <3>3. commits'[request[s].id] = commits[request[s].id]
        BY <1>12, <3>1, <3>2, Published
      <3> QED BY <1>1, <2>4, <3>3
    <2>5. RequestKnows(request[r])'
      BY <1>4, <2>3
    <2> QED BY <2>2, <2>3, <2>4, <2>5, OneRequestMoves
  <1>13. ASSUME NEW h \in Large, lfs_upload(h) \/ RegisterShard(h) \/ UploadXorb(h)
         PROVE  RequestInv'
    BY <1>2, <1>13 DEF lfs_upload, RegisterShard, UploadXorb
  <1>14. CASE \E c \in Clients, n \in Names, b \in BOOLEAN : model_info(c, n, b)
    BY <1>2, <1>14 DEF model_info
  <1>15. CASE \E c \in Clients, n \in Names, i \in Ids \cup {main}, p \in Paths :
                  resolve_lookup(c, n, i, p)
    BY <1>2, <1>15 DEF resolve_lookup
  <1>16. CASE \E c \in Clients :
                  siblings(c) \/ resolve_commit_sha(c) \/ Continue(c) \/ Leave(c)
    BY <1>2, <1>16 DEF siblings, resolve_commit_sha, Continue, Leave
  <1>17. CASE UNCHANGED vars
    BY <1>2, <1>17 DEF vars
  <1> QED BY <1>5, <1>6, <1>7, <1>8, <1>9, <1>10, <1>11, <1>12, <1>13, <1>14, <1>15,
             <1>16, <1>17 DEF Next, Handle

-----------------------------------------------------------------------------
(***************************************************************************)
(* The commits and the ref.                                                *)
(***************************************************************************)

LEMMA NextCommitInv == IInv /\ [Next]_vars => CommitInv'
  <1> SUFFICES ASSUME IInv, [Next]_vars PROVE CommitInv'
    OBVIOUS
  <1>0. /\ Types /\ Types' /\ Grows /\ CommitInv
        /\ next \in Nat /\ next' \in Nat /\ next <= next'
    BY NextTypes, TablesGrow DEF IInv, Types, Grows
  <1>1. \A i \in Ids : commits[i] # NULL => commits[i].repo \in Names
    BY <1>0 DEF Types, Commit
  <1>2. CASE UNCHANGED <<commits, head, log>>
    <2>1. ASSUME NEW i \in Ids, commits'[i] # NULL
          PROVE  /\ i < next' /\ repo'[commits'[i].repo] # NULL
                 /\ commits'[i].parent \in 1..i-1 \cup {NULL}
      <3>1. /\ commits'[i] = commits[i] /\ commits[i].repo \in Names
            /\ i < next /\ repo[commits[i].repo] # NULL
            /\ commits[i].parent \in 1..i-1 \cup {NULL}
        BY <1>0, <1>1, <1>2, <2>1 DEF CommitInv
      <3>2. i < next'
        BY <1>0, <3>1 DEF Ids
      <3> QED BY <1>0, <3>1, <3>2 DEF Grows
    <2>2. ASSUME NEW n \in Names PROVE head'[n] \in 1..next'-1 \cup {NULL}
      BY <1>0, <1>2 DEF CommitInv
    <2> QED BY <2>1, <2>2 DEF CommitInv
  <1>3. ASSUME NEW r \in Requests, commit_commit(r) PROVE CommitInv'
    <2> DEFINE q == request[r]
    <2>1. /\ q \in Request /\ RequestKnows(q) /\ q.repo \in Names
          /\ q.id \in Ids /\ q.id < next
          /\ commits'[q.id].repo = q.repo /\ commits'[q.id].parent = q.parent
          /\ \A j \in Ids \ {q.id} : commits'[j] = commits[j]
          /\ head'[q.repo] = q.id
          /\ \A n \in Names \ {q.repo} : head'[n] = head[n]
      BY <1>3, Published
    <2>2. IdIsFresh(q) /\ repo[q.repo] # NULL /\ next' = next /\ repo' = repo
      BY <1>3, <2>1 DEF commit_commit, RequestKnows
    <2>3. ASSUME NEW i \in Ids, commits'[i] # NULL
          PROVE  /\ i < next' /\ repo'[commits'[i].repo] # NULL
                 /\ commits'[i].parent \in 1..i-1 \cup {NULL}
      BY <1>0, <2>1, <2>2, <2>3 DEF IdIsFresh, CommitInv
    <2>4. ASSUME NEW n \in Names PROVE head'[n] \in 1..next'-1 \cup {NULL}
      BY <1>0, <2>1, <2>2 DEF CommitInv, IdIsFresh
    <2> QED BY <2>3, <2>4 DEF CommitInv
  <1> QED BY <1>2, <1>3, OnlyCommitPublishes

LEMMA RangeOfLonger ==
    ASSUME NEW s, NEW t, NEW n \in Nat, NEW e, DOMAIN s = 1..n, DOMAIN t = 1..n+1,
           \A k \in 1..n : t[k] = s[k], t[n+1] = e
    PROVE  Range(t) = Range(s) \cup {e}
  BY DEF Range

LEMMA NextHeadIsLastCommit == IInv /\ [Next]_vars => HeadIsLastCommit'
  <1> SUFFICES ASSUME IInv, [Next]_vars PROVE HeadIsLastCommit'
    OBVIOUS
  <1>0. Types /\ Types' /\ HeadIsLastCommit
    BY NextTypes DEF IInv
  <1>1. CASE UNCHANGED <<commits, head, log>>
    BY <1>0, <1>1 DEF HeadIsLastCommit, Revision
  <1>2. ASSUME NEW r \in Requests, commit_commit(r) PROVE HeadIsLastCommit'
    <2> DEFINE q == request[r]
               l == log[q.repo]
    <2>1. /\ q \in Request /\ RequestKnows(q) /\ q.repo \in Names /\ q.id \in Ids
          /\ commits[q.id] = NULL /\ commits'[q.id] # NULL
          /\ commits'[q.id].repo = q.repo /\ commits'[q.id].payload = q.payload
          /\ commits'[q.id].files = Manifest(q.rows)
          /\ \A j \in Ids \ {q.id} : commits'[j] = commits[j]
          /\ head'[q.repo] = q.id
          /\ \A n \in Names \ {q.repo} : head'[n] = head[n] /\ log'[n] = log[n]
          /\ log'[q.repo] \in Seq(Ids) /\ Len(l) \in Nat /\ Len(log'[q.repo]) = Len(l) + 1
          /\ \A k \in 1..Len(l) : log'[q.repo][k] = l[k]
          /\ log'[q.repo][Len(l) + 1] = q.id
      BY <1>2, Published
    <2>2. Last(log'[q.repo]) = q.id /\ log'[q.repo] # <<>>
      BY <2>1 DEF Last
    <2>3. Range(log'[q.repo]) = Range(l) \cup {q.id}
      <3>1. DOMAIN l = 1..Len(l) /\ DOMAIN log'[q.repo] = 1..Len(l) + 1
        <4>1. l \in Seq(Ids)
          BY <1>0, <2>1 DEF Types
        <4> QED BY <2>1, <4>1, LenProperties
      <3> DEFINE t == log'[q.repo]
      <3>2. /\ Len(l) \in Nat /\ DOMAIN l = 1..Len(l) /\ DOMAIN t = 1..Len(l)+1
            /\ \A k \in 1..Len(l) : t[k] = l[k]
            /\ t[Len(l)+1] = q.id
        BY <2>1, <3>1
      <3> HIDE DEF t, l, q
      <3>3. Range(t) = Range(l) \cup {q.id}
        BY <3>2, RangeOfLonger
      <3> QED BY <3>3 DEF t
    <2>4. ASSUME NEW n \in Names
          PROVE  {i \in Ids : Revision(n, i)'} =
                     IF n = q.repo THEN {i \in Ids : Revision(n, i)} \cup {q.id}
                     ELSE {i \in Ids : Revision(n, i)}
      BY <2>1 DEF Revision
    <2>5. ASSUME NEW n \in Names
          PROVE  /\ head'[n] = IF log'[n] = <<>> THEN NULL ELSE Last(log'[n])
                 /\ Range(log'[n]) = {i \in Ids : Revision(n, i)'}
      <3>1. Range(log[n]) = {i \in Ids : Revision(n, i)}
        BY <1>0 DEF HeadIsLastCommit
      <3>2. CASE n = q.repo
        BY <2>1, <2>2, <2>3, <2>4, <3>1, <3>2
      <3>3. CASE n # q.repo
        BY <1>0, <2>1, <2>4, <3>1, <3>3 DEF HeadIsLastCommit
      <3> QED BY <3>2, <3>3
    <2>6. ASSUME NEW i \in Ids, commits'[i] # NULL
          PROVE  DOMAIN commits'[i].files =
                     {commits'[i].payload[k].path : k \in DOMAIN commits'[i].payload}
      <3>1. CASE i # q.id
        BY <1>0, <2>1, <2>6, <3>1 DEF HeadIsLastCommit
      <3>2. CASE i = q.id
        <4>1. /\ q.rows \in Seq([path : Paths, file : Files]) /\ q.payload \in Seq(Entry)
              /\ Len(q.rows) = Len(q.payload)
              /\ \A k \in 1..Len(q.rows) : q.rows[k].path = q.payload[k].path
          BY <1>2, <2>1 DEF Request, RequestKnows, RowsFit, commit_commit
        <4>2. DOMAIN Manifest(q.rows) = {q.rows[k].path : k \in 1..Len(q.rows)}
          BY <4>1, ManifestFacts
        <4>3. DOMAIN q.payload = 1..Len(q.rows)
          BY <4>1, LenProperties
        <4>4. {q.rows[k].path : k \in 1..Len(q.rows)} = {q.payload[k].path : k \in DOMAIN q.payload}
          BY <4>1, <4>3
        <4>5. commits'[i].files = Manifest(q.rows) /\ commits'[i].payload = q.payload
          BY <2>1, <3>2
        <4> HIDE DEF q
        <4> QED BY <4>2, <4>4, <4>5
      <3> QED BY <3>1, <3>2
    <2> QED BY <2>5, <2>6 DEF HeadIsLastCommit
  <1> QED BY <1>1, <1>2, OnlyCommitPublishes

\* The ids of a log are visible commits of its repository.
LEMMA LoggedAreVisible ==
    ASSUME IInv, NEW n \in Names, NEW k \in 1..Len(log[n])
    PROVE  log[n][k] \in Ids /\ commits[log[n][k]] # NULL /\ commits[log[n][k]].repo = n
  <1>1. log[n] \in Seq(Ids) /\ DOMAIN log[n] = 1..Len(log[n])
    BY LenProperties DEF IInv, Types
  <1>2. log[n][k] \in Range(log[n])
    BY <1>1 DEF Range
  <1>3. log[n][k] \in {i \in Ids : Revision(n, i)}
    BY <1>2 DEF IInv, HeadIsLastCommit
  <1> QED BY <1>3 DEF Revision

LEMMA NextParentsAreOlder == IInv /\ [Next]_vars => ParentsAreOlder'
  <1> SUFFICES ASSUME IInv, [Next]_vars PROVE ParentsAreOlder'
    OBVIOUS
  <1>0. Types /\ Types' /\ ParentsAreOlder /\ Persists
    BY NextTypes, VisiblePersists DEF IInv
  <1>1. CASE UNCHANGED <<commits, head, log>>
    BY <1>0, <1>1 DEF ParentsAreOlder
  <1>2. ASSUME NEW r \in Requests, commit_commit(r) PROVE ParentsAreOlder'
    <2> DEFINE q == request[r]
               l == log[q.repo]
    <2>1. /\ q \in Request /\ RequestKnows(q) /\ q.repo \in Names /\ q.id \in Ids
          /\ commits'[q.id].parent = q.parent
          /\ \A n \in Names \ {q.repo} : log'[n] = log[n]
          /\ log'[q.repo] \in Seq(Ids) /\ Len(l) \in Nat /\ Len(log'[q.repo]) = Len(l) + 1
          /\ \A k \in 1..Len(l) : log'[q.repo][k] = l[k]
          /\ log'[q.repo][Len(l) + 1] = q.id
      BY <1>2, Published
    <2>2. ASSUME NEW n \in Names, NEW k \in 1..Len(log'[n]),
                 commits'[log'[n][k]].parent # NULL
          PROVE  \E j \in 1..k-1 : log'[n][j] = commits'[log'[n][k]].parent
      <3>1. CASE k \in 1..Len(log[n])
        <4>1. log'[n][k] = log[n][k] /\ commits'[log[n][k]] = commits[log[n][k]]
          BY <1>0, <3>1, LoggedAreVisible DEF Persists
        <4>2. log[n] \in Seq(Ids) /\ k \in DOMAIN log[n] /\ Len(log[n]) \in Nat
          BY <1>0, <3>1, LenProperties DEF Types
        <4>3. PICK j \in 1..k-1 : log[n][j] = commits[log[n][k]].parent
          BY <1>0, <2>2, <4>1, <4>2 DEF ParentsAreOlder
        <4>4. j \in 1..Len(log[n])
          BY <3>1, <4>2
        <4> QED BY <1>0, <4>1, <4>3, <4>4 DEF Persists
      <3>2. CASE k \notin 1..Len(log[n])
        <4>1. n = q.repo /\ k = Len(l) + 1
          BY <2>1, <3>2
        <4>2. ParentSeen(q)
          BY <1>2, <2>1 DEF RequestKnows, commit_commit
        <4>3. PICK j \in 1..Len(l) : l[j] = q.parent
          BY <2>1, <2>2, <4>1, <4>2 DEF ParentSeen
        <4>4. log'[n][k] = q.id /\ commits'[log'[n][k]].parent = q.parent
          BY <2>1, <4>1
        <4>5. j \in 1..k-1 /\ log'[n][j] = l[j]
          BY <2>1, <4>1
        <4> QED BY <4>3, <4>4, <4>5
      <3> QED BY <3>1, <3>2
    <2>3. \A n \in Names : DOMAIN log'[n] = 1..Len(log'[n])
      BY <1>0, LenProperties DEF Types
    <2> QED BY <2>2, <2>3 DEF ParentsAreOlder
  <1> QED BY <1>1, <1>2, OnlyCommitPublishes

LEMMA NextCommittedFilesAreStored == IInv /\ [Next]_vars => CommittedFilesAreStored'
  <1> SUFFICES ASSUME IInv, [Next]_vars PROVE CommittedFilesAreStored'
    OBVIOUS
  <1>0. Types /\ CommittedFilesAreStored /\ Grows
    BY TablesGrow DEF IInv
  <1>1. CASE UNCHANGED <<commits, head, log>>
    BY <1>0, <1>1 DEF CommittedFilesAreStored, Grows
  <1>2. ASSUME NEW r \in Requests, commit_commit(r) PROVE CommittedFilesAreStored'
    <2> DEFINE q == request[r]
    <2>1. /\ q \in Request /\ RequestKnows(q) /\ q.id \in Ids
          /\ commits'[q.id].payload = q.payload
          /\ commits'[q.id].files = Manifest(q.rows)
          /\ \A j \in Ids \ {q.id} : commits'[j] = commits[j]
      BY <1>2, Published
    <2>2. UNCHANGED <<lfs, registered>>
      BY <1>2 DEF commit_commit, stored
    <2>3. ASSUME NEW k \in DOMAIN q.payload, q.payload[k].xet_hash = NULL
          PROVE  LET e == q.payload[k]
                     f == Manifest(q.rows)[e.path]
                 IN  \/ f.lfs_oid \in lfs \cap {e.oid, e.content}
                     \/ f.xet_hash \in registered \cap {e.oid}
      <3>1. /\ q.rows \in Seq([path : Paths, file : Files]) /\ q.payload \in Seq(Entry)
            /\ Len(q.rows) = Len(q.payload) /\ RowsFit(q) /\ PathsDiffer(q)
        BY <1>2, <2>1 DEF Request, RequestKnows, commit_commit
      <3>2. k \in 1..Len(q.rows)
        BY <3>1, LenProperties
      <3>3. q.rows[k].path = q.payload[k].path /\ Stored(q.payload[k], q.rows[k].file)
        BY <3>1, <3>2 DEF RowsFit
      <3>4. Manifest(q.rows)[q.rows[k].path] = q.rows[k].file
        BY <3>1, <3>2, ManifestFacts DEF PathsDiffer
      <3> QED BY <2>3, <3>3, <3>4 DEF Stored
    <2>4. ASSUME NEW i \in Ids, commits'[i] # NULL, NEW k \in DOMAIN commits'[i].payload,
                 commits'[i].payload[k].xet_hash = NULL
          PROVE  LET e == commits'[i].payload[k]
                     f == commits'[i].files[e.path]
                 IN  \/ f.lfs_oid \in lfs' \cap {e.oid, e.content}
                     \/ f.xet_hash \in registered' \cap {e.oid}
      <3>1. CASE i # q.id
        <4>1. commits'[i] = commits[i]
          BY <2>1, <3>1
        <4> QED BY <1>0, <2>2, <2>4, <4>1 DEF CommittedFilesAreStored
      <3>2. CASE i = q.id
        <4>1. commits'[i].files = Manifest(q.rows) /\ commits'[i].payload = q.payload
          BY <2>1, <3>2
        <4> HIDE DEF q
        <4> QED BY <2>2, <2>3, <2>4, <4>1
      <3> QED BY <3>1, <3>2
    <2> QED BY <2>4 DEF CommittedFilesAreStored
  <1> QED BY <1>1, <1>2, OnlyCommitPublishes

-----------------------------------------------------------------------------
(***************************************************************************)
(* The readers.                                                            *)
(***************************************************************************)

\* A commit found among those of a repository is in its log, and HEAD is last.
LEMMA VisibleAreLogged ==
    ASSUME IInv, NEW n \in Names
    PROVE  /\ Len(log[n]) \in Nat
           /\ \A i : Revision(n, i) => \E j \in 1..Len(log[n]) : log[n][j] = i
           /\ Len(log[n]) > 0 => head[n] = log[n][Len(log[n])]
           /\ head[n] # NULL => Revision(n, head[n])
  <1>1. /\ log[n] \in Seq(Ids) /\ Len(log[n]) \in Nat /\ DOMAIN log[n] = 1..Len(log[n])
        /\ Range(log[n]) = {i \in Ids : Revision(n, i)}
        /\ head[n] = IF log[n] = <<>> THEN NULL ELSE Last(log[n])
    BY LenProperties DEF IInv, Types, HeadIsLastCommit
  <1>2. ASSUME NEW i, Revision(n, i) PROVE \E j \in 1..Len(log[n]) : log[n][j] = i
    <2>1. i \in Range(log[n])
      BY <1>1, <1>2 DEF Revision
    <2> QED BY <1>1, <2>1 DEF Range
  <1>3. Len(log[n]) > 0 => head[n] = log[n][Len(log[n])]
    BY <1>1 DEF Last
  <1>4. head[n] # NULL => Len(log[n]) > 0
    BY <1>1
  <1>5. ASSUME head[n] # NULL PROVE Revision(n, head[n])
    <2>1. Len(log[n]) \in 1..Len(log[n])
      BY <1>1, <1>4, <1>5
    <2>2. /\ log[n][Len(log[n])] \in Ids /\ commits[log[n][Len(log[n])]] # NULL
          /\ commits[log[n][Len(log[n])]].repo = n
      BY <2>1, LoggedAreVisible
    <2> QED BY <1>3, <1>4, <1>5, <2>2 DEF Revision
  <1> QED BY <1>1, <1>2, <1>3, <1>5

LEMMA RevisionStays ==
    ASSUME Persists, NEW n, NEW i, Revision(n, i)
    PROVE  Revision(n, i)' /\ commits'[i] = commits[i]
  BY DEF Persists, Revision

LEMMA ReaderKnowledgeStays ==
    ASSUME Persists, NEW q, ReaderKnows(q)
    PROVE  ReaderKnows(q)'
  <1>1. q.sha # NULL => Revision(q.repo, q.sha)' /\ commits'[q.sha] = commits[q.sha]
    BY RevisionStays DEF ReaderKnows
  <1>2. q.pc \in {"row", "resolved"} =>
            Revision(q.repo, q.from)' /\ commits'[q.from] = commits[q.from]
    BY RevisionStays DEF ReaderKnows
  <1>3. ASSUME q.pc = "resolved"
        PROVE  \E j \in 1..Len(log'[q.repo]) : \E k \in j..Len(log'[q.repo]) :
                   log'[q.repo][j] = q.from /\ log'[q.repo][k] = q.said
    <2>1. q.repo \in Names
      BY <1>3 DEF ReaderKnows
    <2>2. PICK j \in 1..Len(log[q.repo]) : \E k \in j..Len(log[q.repo]) :
                   log[q.repo][j] = q.from /\ log[q.repo][k] = q.said
      BY <1>3 DEF ReaderKnows
    <2>3. PICK k \in j..Len(log[q.repo]) :
                   log[q.repo][j] = q.from /\ log[q.repo][k] = q.said
      BY <2>2
    <2>4. /\ Len(log[q.repo]) \in Nat /\ Len(log'[q.repo]) \in Nat
          /\ Len(log[q.repo]) <= Len(log'[q.repo])
          /\ \A i \in 1..Len(log[q.repo]) : log'[q.repo][i] = log[q.repo][i]
      BY <2>1 DEF Persists
    <2>5. /\ j \in 1..Len(log'[q.repo]) /\ k \in j..Len(log'[q.repo])
          /\ k \in 1..Len(log[q.repo])
      BY <2>4
    <2> QED BY <2>3, <2>4, <2>5
  <1> QED BY <1>1, <1>2, <1>3 DEF ReaderKnows

\* A step of one reader, which knows what it should.
LEMMA OneReaderMoves ==
    ASSUME IInv, UNCHANGED <<commits, log, head>>, NEW c \in Clients, NEW t \in Reader,
           client' = [client EXCEPT ![c] = t], ReaderKnows(t)
    PROVE  ReaderInv'
  <1>1. /\ client'[c] = t /\ \A d \in Clients \ {c} : client'[d] = client[d]
    BY DEF IInv, Types
  <1>2. \A d \in Clients : ReaderKnows(client'[d])
    BY <1>1 DEF IInv, ReaderInv
  <1> QED BY <1>2 DEF ReaderInv, ReaderKnows, Revision

LEMMA NextReaderInv == IInv /\ [Next]_vars => ReaderInv'
  <1> SUFFICES ASSUME IInv, [Next]_vars PROVE ReaderInv'
    OBVIOUS
  <1>0. Types /\ ReaderInv /\ Persists
    BY VisiblePersists DEF IInv
  <1>1. CASE UNCHANGED client
    <2>1. \A q : ReaderKnows(q) => ReaderKnows(q)'
      BY <1>0, ReaderKnowledgeStays
    <2> QED BY <1>0, <1>1, <2>1 DEF ReaderInv
  <1>2. ASSUME NEW c \in Clients, NEW n \in Names, NEW b \in BOOLEAN, model_info(c, n, b)
        PROVE  ReaderInv'
    <2> DEFINE t == [Away EXCEPT !.pc = "listing", !.repo = n, !.sha = head[n]]
    <2>1. head[n] \in Ids /\ head[n] # NULL
      BY <1>0, <1>2 DEF model_info, Types
    <2>2. t \in Reader /\ t.pc = "listing" /\ t.repo = n /\ t.sha = head[n]
      BY <2>1, AwayFacts DEF Reader
    <2>3. client' = [client EXCEPT ![c] = t] /\ UNCHANGED <<commits, log, head>>
      BY <1>2 DEF model_info
    <2> HIDE DEF t
    <2>4. ReaderKnows(t)
      BY <2>1, <2>2, VisibleAreLogged DEF ReaderKnows
    <2> QED BY <2>2, <2>3, <2>4, OneReaderMoves
  <1>3. ASSUME NEW c \in Clients, NEW n \in Names, NEW i \in Ids \cup {main},
               NEW p \in Paths, resolve_lookup(c, n, i, p)
        PROVE  ReaderInv'
    <2> DEFINE q == client[c]
               k == Resolved(n, i)
               t == [q EXCEPT !.pc = "row", !.repo = n, !.path = p,
                              !.from = k, !.file = commits[k].files[p]]
    <2>1. /\ q \in Reader /\ ReaderKnows(q) /\ Revision(n, k)
          /\ k \in Ids /\ commits[k] \in Commit /\ p \in DOMAIN commits[k].files
      BY <1>0, <1>3 DEF resolve_lookup, Revision, Types, ReaderInv
    <2>2. commits[k].files[p] \in Files
      BY <2>1 DEF Commit
    <2>3. /\ t \in Reader /\ t.pc = "row" /\ t.repo = n /\ t.path = p /\ t.from = k
          /\ t.file = commits[k].files[p] /\ t.sha = q.sha /\ t.listing = q.listing
      BY <2>1, <2>2 DEF Reader
    <2>4. client' = [client EXCEPT ![c] = t] /\ UNCHANGED <<commits, log, head>>
      BY <1>3 DEF resolve_lookup
    <2>5. q.sha # NULL =>
              /\ n = q.repo /\ k = q.sha
              /\ Revision(q.repo, q.sha) /\ q.listing = commits[q.sha].files
      <3>1. CASE q.pc = "away"
        BY <2>1, <3>1, AwayFacts DEF ReaderKnows
      <3>2. CASE q.pc = "listed" /\ n = q.repo /\ i = q.sha
        <4>1. q.sha # NULL => i # main
          BY <2>1, <3>2, ReposAssumption DEF Reader
        <4> QED BY <2>1, <3>2, <4>1 DEF ReaderKnows, Resolved
      <3> QED BY <1>3, <3>1, <3>2 DEF resolve_lookup
    <2> HIDE DEF t, k
    <2>6. ReaderKnows(t)
      BY <2>1, <2>3, <2>5 DEF ReaderKnows
    <2> QED BY <2>3, <2>4, <2>6, OneReaderMoves
  <1>4. ASSUME NEW c \in Clients, siblings(c)
        PROVE  ReaderInv'
    <2> DEFINE q == client[c]
               t == [q EXCEPT !.pc = "listed", !.listing = commits[q.sha].files]
    <2>1. /\ q \in Reader /\ ReaderKnows(q) /\ q.pc = "listing"
          /\ q.sha # NULL /\ Revision(q.repo, q.sha) /\ q.repo \in Names
      BY <1>0, <1>4 DEF siblings, ReaderInv, ReaderKnows, Types
    <2>2. commits[q.sha].files \in Listing
      BY <1>0, <2>1 DEF Revision, Types, Commit, Listing
    <2>3. /\ t \in Reader /\ t.pc = "listed" /\ t.repo = q.repo
          /\ t.sha = q.sha /\ t.listing = commits[q.sha].files
      BY <2>1, <2>2 DEF Reader
    <2>4. client' = [client EXCEPT ![c] = t] /\ UNCHANGED <<commits, log, head>>
      BY <1>4 DEF siblings
    <2> HIDE DEF t
    <2>5. ReaderKnows(t)
      BY <2>1, <2>3 DEF ReaderKnows
    <2> QED BY <2>3, <2>4, <2>5, OneReaderMoves
  <1>5. ASSUME NEW c \in Clients, resolve_commit_sha(c)
        PROVE  ReaderInv'
    <2> DEFINE q == client[c]
               t == [q EXCEPT !.pc = "resolved", !.said = head[q.repo]]
               l == log[q.repo]
    <2>1. /\ q \in Reader /\ ReaderKnows(q) /\ q.pc = "row" /\ q.repo \in Names
          /\ Revision(q.repo, q.from)
      BY <1>0, <1>5 DEF resolve_commit_sha, ReaderInv, ReaderKnows, Types
    <2>2. head[q.repo] \in Ids \cup {NULL}
      BY <1>0, <2>1 DEF Types
    <2>3. /\ t \in Reader /\ t.pc = "resolved" /\ t.repo = q.repo
          /\ t.path = q.path /\ t.from = q.from /\ t.file = q.file
          /\ t.sha = q.sha /\ t.listing = q.listing /\ t.said = head[q.repo]
      BY <2>1, <2>2 DEF Reader
    <2>4. client' = [client EXCEPT ![c] = t] /\ UNCHANGED <<commits, log, head>>
      BY <1>5 DEF resolve_commit_sha
    <2>5. Len(l) \in Nat /\ \E j \in 1..Len(l) : l[j] = q.from
      BY <2>1, VisibleAreLogged
    <2>6. PICK j \in 1..Len(l) : l[j] = q.from
      BY <2>5
    <2>7. Len(l) \in j..Len(l) /\ l[Len(l)] = head[q.repo]
      BY <2>1, <2>5, VisibleAreLogged
    <2> HIDE DEF t
    <2>8. \E a \in 1..Len(log[t.repo]) : \E k \in a..Len(log[t.repo]) :
              log[t.repo][a] = t.from /\ log[t.repo][k] = t.said
      BY <2>3, <2>6, <2>7
    <2>9. ReaderKnows(t)
      BY <2>1, <2>3, <2>8 DEF ReaderKnows
    <2> QED BY <2>3, <2>4, <2>9, OneReaderMoves
  <1>6. ReaderKnows(Away) /\ Away \in Reader
    BY AwayFacts DEF ReaderKnows
  <1>7. ASSUME NEW c \in Clients, Continue(c)
        PROVE  ReaderInv'
    <2> DEFINE q == client[c]
               t == [q EXCEPT !.pc = "listed", !.path = NULL, !.from = NULL,
                              !.file = NULL, !.said = NULL]
    <2>1. q \in Reader /\ ReaderKnows(q) /\ q.pc = "resolved" /\ q.repo \in Names
      BY <1>0, <1>7 DEF Continue, ReaderInv, ReaderKnows, Types
    <2>2. /\ t \in Reader /\ t.pc = "listed" /\ t.repo = q.repo
          /\ t.sha = q.sha /\ t.listing = q.listing
      BY <2>1 DEF Reader
    <2>3. /\ client' = [client EXCEPT ![c] = IF q.sha = NULL THEN Away ELSE t]
          /\ UNCHANGED <<commits, log, head>>
      BY <1>7 DEF Continue
    <2> HIDE DEF t
    <2>4. q.sha # NULL => ReaderKnows(t)
      BY <2>1, <2>2 DEF ReaderKnows
    <2>5. CASE q.sha = NULL
      BY <1>6, <2>3, <2>5, OneReaderMoves
    <2>6. CASE q.sha # NULL
      BY <2>2, <2>3, <2>4, <2>6, OneReaderMoves
    <2> QED BY <2>5, <2>6
  <1>8. ASSUME NEW c \in Clients, Leave(c)
        PROVE  ReaderInv'
    BY <1>6, <1>8, OneReaderMoves DEF Leave
  <1>9. CASE \E r \in Requests, n \in Names, b \in BOOLEAN : create_select(r, n, b)
    BY <1>1, <1>9 DEF create_select
  <1>10. CASE \E r \in Requests, n \in Names, p \in Payloads : commit_begin(r, n, p)
    BY <1>1, <1>10 DEF commit_begin
  <1>11. ASSUME NEW r \in Requests, Handle(r) \/ Drop(r)
         PROVE  ReaderInv'
    BY <1>1, <1>11 DEF Handle, Drop, create_insert, commit_check, commit_parent,
       commit_insert, commit_upsert, commit_commit
  <1>12. CASE \E h \in Large : lfs_upload(h) \/ RegisterShard(h) \/ UploadXorb(h)
    BY <1>1, <1>12 DEF lfs_upload, RegisterShard, UploadXorb
  <1>13. CASE UNCHANGED vars
    BY <1>1, <1>13 DEF vars
  <1> QED BY <1>2, <1>3, <1>4, <1>5, <1>7, <1>8, <1>9, <1>10, <1>11, <1>12, <1>13 DEF Next

-----------------------------------------------------------------------------
(***************************************************************************)
(* The theorems.                                                           *)
(***************************************************************************)

LEMMA InitIInv == Init => IInv
  <1> SUFFICES ASSUME Init PROVE IInv
    OBVIOUS
  <1>1. Types
    BY InitTypes
  <1>2. IdsSuffice
    <2>1. Pending = {}
      BY IdleFacts DEF Init, Pending
    <2>2. Cardinality(Pending) = 0
      BY <2>1, FS_EmptySet
    <2> QED BY <2>2, ReposAssumption DEF Init, IdsSuffice
  <1>3. RequestInv
    BY IdleFacts DEF Init, RequestInv, RequestKnows
  <1>4. CommitInv /\ CommittedFilesAreStored
    BY DEF Init, CommitInv, CommittedFilesAreStored
  <1>5. HeadIsLastCommit
    <2>1. \A n \in Names : Range(log[n]) = {} /\ log[n] = <<>> /\ head[n] = NULL
      BY DEF Init, Range
    <2>2. \A n \in Names : {i \in Ids : Revision(n, i)} = {}
      BY DEF Init, Revision
    <2> QED BY <2>1, <2>2 DEF Init, HeadIsLastCommit
  <1>6. ParentsAreOlder
    BY DEF Init, ParentsAreOlder
  <1>7. ReaderInv
    BY AwayFacts DEF Init, ReaderInv, ReaderKnows
  <1> QED BY <1>1, <1>2, <1>3, <1>4, <1>5, <1>6, <1>7 DEF IInv

\* The inductive invariant: what every statement of a handler and every query of
\* a read has established holds until the handler ends, whatever runs between.
THEOREM Inductive == Spec => []IInv
  <1>1. IInv /\ [Next]_vars => IInv'
    BY NextTypes, NextIdsSuffice, NextRequestInv, NextCommitInv, NextHeadIsLastCommit,
       NextParentsAreOlder, NextCommittedFilesAreStored, NextReaderInv DEF IInv
  <1> QED BY <1>1, InitIInv, PTL DEF Spec

\* Every row refers to rows that exist, and the ids that are handed out never
\* pass the bound.
THEOREM TypeCorrect == Spec => []TypeOK
  <1>1. IInv => TypeOK
    <2> SUFFICES ASSUME IInv PROVE TypeOK
      OBVIOUS
    <2>1. next \in 1..MaxCommits + 1
      BY NextIsBounded DEF IInv
    <2>2. ASSUME NEW i \in Ids, commits[i] # NULL
          PROVE  Range(commits[i].files) \subseteq Files
      BY <2>2 DEF IInv, Types, Commit, Range
    <2> QED BY <2>1, <2>2 DEF IInv, Types, CommitInv, TypeOK
  <1> QED BY <1>1, Inductive, PTL

\* commit: `main` points to the commit that became visible last, whole, for any
\* number of commits that race and of handlers that are dropped.
THEOREM HeadCorrect == Spec => []HeadIsLastCommit
  <1>1. IInv => HeadIsLastCommit
    BY DEF IInv
  <1> QED BY <1>1, Inductive, PTL

\* commit: the parent of a commit became visible before it, in its repository.
THEOREM ParentsCorrect == Spec => []ParentsAreOlder
  <1>1. IInv => ParentsAreOlder
    BY DEF IInv
  <1> QED BY <1>1, Inductive, PTL

\* commit: what was checked before the transaction is still stored after it.
THEOREM FilesCorrect == Spec => []CommittedFilesAreStored
  <1>1. IInv => CommittedFilesAreStored
    BY DEF IInv
  <1> QED BY <1>1, Inductive, PTL

\* resolve: its answers fit the listing and never announce an older commit than
\* the file's, whatever is committed between its queries.
THEOREM ResolveCorrect == Spec => []ResolveIsConsistent
  <1>1. IInv => ResolveIsConsistent
    <2> SUFFICES ASSUME IInv, NEW c \in Clients
                 PROVE  /\ (client[c].pc \in {"row", "resolved"} /\ client[c].sha # NULL) =>
                              client[c].file = client[c].listing[client[c].path]
                        /\ client[c].pc = "resolved" =>
                              LET l == log[client[c].repo] IN
                              \E j \in DOMAIN l : \E k \in j..Len(l) :
                                  l[j] = client[c].from /\ l[k] = client[c].said
      BY DEF ResolveIsConsistent
    <2>1. ReaderKnows(client[c])
      BY DEF IInv, ReaderInv
    <2>2. client[c].pc = "resolved" =>
              /\ client[c].repo \in Names
              /\ DOMAIN log[client[c].repo] = 1..Len(log[client[c].repo])
      BY <2>1, LenProperties DEF ReaderKnows, IInv, Types
    <2> QED BY <2>1, <2>2 DEF ReaderKnows
  <1> QED BY <1>1, Inductive, PTL

=============================================================================
