-------------------------------- MODULE Access --------------------------------
(***************************************************************************)
(* Who may do what in the CAS: sign-in (GitHub OAuth and the admin's       *)
(* password), console sessions, the API keys they create and revoke, the   *)
(* key cache of every CAS process, and the Xet tokens minted for a key.    *)
(*                                                                         *)
(* A handler awaits Postgres several times, and other handlers and the     *)
(* clock run in between: an OAuth callback is up to four steps, a handler  *)
(* behind the Session extractor two, a bearer call that misses the cache   *)
(* three.  Statements are merged where the second reads nothing that       *)
(* another handler could have changed since the first.                     *)
(*                                                                         *)
(* Time is kept as timers: what is left of a nonce, a session or a token,  *)
(* and the age of a cache entry, a revocation or a SELECT on its way, each *)
(* up to the value from which on it makes no difference any more.          *)
(***************************************************************************)
EXTENDS Integers, FiniteSets

CONSTANTS
    Processes,   \* CAS processes, each with its own key cache
    Requests,    \* requests being handled
    Keys,        \* api_keys rows that may be inserted
    Sessions,    \* sessions rows that may be minted
    Nonces,      \* OAuth states that may be started
    Tokens,      \* Xet tokens that may be minted
    Member,      \* a user who signs in with GitHub
    Admin,       \* ADMIN_USER_ID, the user of the password
    Guest,       \* a user of Hugging Face, known by the tokens HF issued
    CacheCap,    \* entries of a key cache
    KeyCacheTtl, SessionTtl, NonceTtl, TokenTtl,   \* lifetimes
    MaxFetch,    \* bound on the time a SELECT of a key takes to answer
    NULL

UserIds == {Member, Admin, Guest}

\* The age of a revocation from which on RevokedKeyFades is false.
TooLate == KeyCacheTtl + MaxFetch + 1

\* Where the key_hash of an api_keys row comes from: a random string create_key
\* shows once, or "hf-jwt:openweights:<user>" or "hf-jwt:<HF's user>" for the
\* row that stands for the tokens of a user.
Kinds == {"console", "own_token", "hf_token"}

\* History: what the credential at the start of a chain of tokens was, a right
\* to upload and whether it was a row upsert_synthetic_api_key made.
OriginRow == [upload : BOOLEAN, synthetic : BOOLEAN]

\* The rows of oauth_state, sessions and api_keys, and the tokens.  History
\* fields: the nonce of a session, the origin of a token, and whether the
\* credential that led to an api_keys row may upload.
NonceRow == [open : BOOLEAN, left : 0 .. NonceTtl]
SessionRow ==
    [user : UserIds, left : 0 .. SessionTtl, revoked : BOOLEAN,
     nonce : Nonces \cup {NULL}]
KeyRow ==
    [owner : UserIds, kind : Kinds, scopes : SUBSET {"upload", "download", "admin"},
     revoked : 0 .. TooLate \cup {NULL}, upload : BOOLEAN]
TokenRow ==
    [user : UserIds, origin : OriginRow, left : -1 .. TokenTtl,
     access : {"WRITE", "READ"}]

ASSUME AccessAssumption ==
    /\ CacheCap \in Nat \ {0}
    /\ {KeyCacheTtl, SessionTtl, NonceTtl, TokenTtl, MaxFetch} \subseteq Nat
    /\ Cardinality({Member, Admin, Guest}) = 3
    /\ NULL \notin Int \cup Nonces \cup NonceRow \cup SessionRow \cup KeyRow \cup TokenRow

VARIABLES
    users,     \* ids with a users row
    nonce,     \* oauth_state rows
    session,   \* sessions rows
    key,       \* api_keys rows, of every kind
    owners,    \* users who own a public repository
    cache,     \* cache[p][k]: the age of a cached key, NULL if not cached
    request,   \* where each request is
    token,     \* minted tokens
    late       \* history: the longest time after its revocation that a key was
               \* accepted

vars == <<users, nonce, session, key, owners, cache, request, token, late>>

-----------------------------------------------------------------------------
\* ConsoleScope::to_db_scopes.
to_db_scopes ==
    [read |-> {"download"}, write |-> {"upload"}, admin |-> {"admin"},
     readwrite |-> {"download", "upload"}]

\* XetJwtClaims::scopes.
claims_scopes == [WRITE |-> {"upload", "download"}, READ |-> {"download"}]

\* What a bearer call is for: an upload or a download of data, a repository, or
\* one of the two token endpoints.
Wants == {"upload", "download", "create_repo", "write_token", "read_token"}

\* Mutant of Required: the write-token endpoint behind the download scope.
RequiredLoose(want) ==
    IF want \in {"upload", "create_repo"} THEN "upload" ELSE "download"

\* The scope S of the handler's AuthScoped<S>.
Required(want) ==
    IF want \in {"upload", "create_repo", "write_token"} THEN "upload" ELSE "download"

Idle == [at |-> "idle"]

Goes(r, stage) == request' = [request EXCEPT ![r] = stage]

-----------------------------------------------------------------------------
\* start: a nonce is stored before the browser is sent to GitHub.
start(n) ==
    /\ nonce[n] = NULL
    /\ nonce' = [nonce EXCEPT ![n] = [open |-> TRUE, left |-> NonceTtl]]
    /\ UNCHANGED <<users, session, key, owners, cache, request, token, late>>

\* Mutant of Consumable: the UPDATE without "consumed_at IS NULL".
ConsumableTwice(n) == nonce[n] # NULL /\ nonce[n].left > 0

\* The WHERE clause of consume_oauth_state.
Consumable(n) ==
    /\ nonce[n] # NULL
    /\ nonce[n].open
    /\ nonce[n].left > 0

\* callback, first statement: consume_oauth_state.  A callback whose nonce is
\* unknown, consumed or too old is a 400 that changes nothing.
callback(r, n) ==
    /\ request[r] = Idle
    /\ Consumable(n)
    /\ nonce' = [nonce EXCEPT ![n].open = FALSE]
    /\ Goes(r, [at |-> "exchange", nonce |-> n])
    /\ UNCHANGED <<users, session, key, owners, cache, token, late>>

\* GitHub has answered with a profile: upsert_user.
upsert_user(r) ==
    /\ request[r].at = "exchange"
    /\ users' = users \cup {Member}
    /\ Goes(r, [request[r] EXCEPT !.at = "mint"])
    /\ UNCHANGED <<nonce, session, key, owners, cache, token, late>>

Minted(s, u, n) ==
    /\ session[s] = NULL
    /\ session' = [session EXCEPT ![s] =
           [user |-> u, left |-> SessionTtl, revoked |-> FALSE, nonce |-> n]]

\* mint_session for the callback.
mint_session(r, s) ==
    /\ request[r].at = "mint"
    /\ Minted(s, Member, request[r].nonce)
    /\ Goes(r, Idle)
    /\ UNCHANGED <<users, nonce, key, owners, cache, token, late>>

\* No code in the callback, GitHub refuses or times out, Postgres fails, the
\* client goes away: the handler ends where it is, and the nonce stays used.
Abandon(r) ==
    /\ request[r] # Idle
    /\ Goes(r, Idle)
    /\ UNCHANGED <<users, nonce, session, key, owners, cache, token, late>>

\* Mutant of login: the admin row is not ensured.
login_unensured(s) ==
    /\ Minted(s, Admin, NULL)
    /\ UNCHANGED <<users, nonce, key, owners, cache, request, token, late>>

\* login with the admin password: ensure_admin_user, mint_session.
login(s) ==
    /\ users' = users \cup {Admin}
    /\ Minted(s, Admin, NULL)
    /\ UNCHANGED <<nonce, key, owners, cache, request, token, late>>

\* logout: revoke_session, of a session that may have expired.
logout(s) ==
    /\ session[s] # NULL
    /\ ~session[s].revoked
    /\ session' = [session EXCEPT ![s].revoked = TRUE]
    /\ UNCHANGED <<users, nonce, key, owners, cache, request, token, late>>

\* Mutant of Live: the UPDATE without "expires_at > NOW()".
LiveForever(s) == session[s] # NULL /\ ~session[s].revoked

\* The WHERE clause of touch_session.
Live(s) ==
    /\ session[s] # NULL
    /\ ~session[s].revoked
    /\ session[s].left > 0

\* The Session extractor: one statement refreshes the session and returns its
\* user; the handler behind it runs next.
touch_session(r, s) ==
    /\ request[r] = Idle
    /\ Live(s)
    /\ session' = [session EXCEPT ![s].left = SessionTtl]
    /\ Goes(r, [at |-> "console", user |-> session[s].user])
    /\ UNCHANGED <<users, nonce, key, owners, cache, token, late>>

create_key(r, k, scope) ==
    /\ request[r].at = "console"
    /\ key[k] = NULL
    /\ key' = [key EXCEPT ![k] = [owner |-> request[r].user, kind |-> "console",
                                  scopes |-> to_db_scopes[scope], revoked |-> NULL,
                                  upload |-> "upload" \in to_db_scopes[scope]]]
    /\ Goes(r, Idle)
    /\ UNCHANGED <<users, nonce, session, owners, cache, token, late>>

Active(k) == key[k] # NULL /\ key[k].revoked = NULL

\* revoke_key, of a row of any kind: no cache is told.
revoke_key(r, k) ==
    /\ request[r].at = "console"
    /\ Active(k)
    /\ key[k].owner = request[r].user
    /\ key' = [key EXCEPT ![k].revoked = 0]
    /\ Goes(r, Idle)
    /\ UNCHANGED <<users, nonce, session, owners, cache, token, late>>

-----------------------------------------------------------------------------
mint_openweights_token(user, access, origin) ==
    [user |-> user, origin |-> origin, left |-> TokenTtl, access |-> access]

\* xet_token: a WRITE token for a repository of the caller, a READ token for a
\* public one.  The client may forget a token it holds.
Mint(t, want, user, origin) ==
    /\ want = "write_token" => user \in owners
    /\ want = "read_token" => owners # {}
    /\ token' = [token EXCEPT ![t] =
           mint_openweights_token(user, IF want = "write_token" THEN "WRITE" ELSE "READ",
                                  origin)]

\* What the handler behind AuthScoped does once the caller is known: create_repo
\* makes the caller an owner, a token endpoint mints.  One that refuses changes
\* as little here as an upload or a download.
Serve(want, user, origin) ==
    /\ owners' = IF want = "create_repo" THEN owners \cup {user} ELSE owners
    /\ IF want \in {"write_token", "read_token"}
       THEN \E t \in Tokens : Mint(t, want, user, origin)
       ELSE UNCHANGED token

\* The start of a chain of tokens whose first one is minted for a bearer key.
Origin(k) == [upload |-> key[k].upload, synthetic |-> key[k].kind # "console"]

\* A key has been found, in the cache or in Postgres; its scope decides
\* between the handler and a 403.
Accept(k, want) ==
    /\ Required(want) \in key[k].scopes
    /\ Serve(want, key[k].owner, Origin(k))
    /\ late' = IF key[k].revoked # NULL /\ key[k].revoked > late
               THEN key[k].revoked ELSE late

\* Mutant of Fresh: an entry is good for ever.
FreshForever(p, k) == cache[p][k] # NULL

\* KeyCache::get finds an entry that is not older than KEY_CACHE_TTL.
Fresh(p, k) == cache[p][k] # NULL /\ cache[p][k] <= KeyCacheTtl

\* AuthScoped::from_request_parts with a bearer string, cache hit: no await.  The
\* cache and the SELECT behind it go by the string's hash alone, so a row of any
\* kind is found by the string it was made from.
BearerHit(p, k, want) ==
    /\ Fresh(p, k)
    /\ Accept(k, want)
    /\ UNCHANGED <<users, nonce, session, key, cache, request>>

\* Cache miss, first step: an entry that is too old is popped, and the SELECT
\* of fetch_active_key_by_hash runs in Postgres.  No active row is a 401.
BearerMiss(r, p, k) ==
    /\ request[r] = Idle
    /\ ~Fresh(p, k)
    /\ cache' = [cache EXCEPT ![p][k] = NULL]
    /\ IF Active(k)
       THEN Goes(r, [at |-> "row", p |-> p, k |-> k, age |-> 0])
       ELSE key[k] # NULL /\ UNCHANGED request
    /\ UNCHANGED <<users, nonce, session, key, owners, token, late>>

\* KeyCache::put: at capacity the LRU drops another entry; any other, here.
Put(p, k) ==
    LET others == {q \in Keys \ {k} : cache[p][q] # NULL}
    IN  \E gone \in SUBSET others :
            /\ Cardinality(gone) = IF Cardinality(others) < CacheCap THEN 0 ELSE 1
            /\ cache' = [cache EXCEPT ![p] =
                   [q \in Keys |-> IF q = k THEN 0
                                   ELSE IF q \in gone THEN NULL ELSE cache[p][q]]]

\* Second step: the row has arrived, and loaded_at is the time it did:
\* the entry's age starts now, not when Postgres read the row.
BearerLoaded(r, want) ==
    LET q == request[r]
    IN  /\ q.at = "row"
        /\ Put(q.p, q.k)
        /\ Goes(r, Idle)
        /\ IF Required(want) \in key[q.k].scopes
           THEN Accept(q.k, want)
           ELSE UNCHANGED <<owners, token, late>>
        /\ UNCHANGED <<users, nonce, session, key>>

-----------------------------------------------------------------------------
\* upsert_synthetic_api_key: one row for each string, with both scopes whatever
\* the token grants.  A row that is there stays as it is, revoked or not.
upsert_synthetic_api_key(u, kind, up) ==
    IF \E k \in Keys : key[k] # NULL /\ key[k].owner = u /\ key[k].kind = kind
    THEN UNCHANGED key
    ELSE \E k \in Keys :
            /\ key[k] = NULL
            /\ key' = [key EXCEPT ![k] =
                   [owner |-> u, kind |-> kind, scopes |-> {"upload", "download"},
                    revoked |-> NULL, upload |-> up]]

\* The api_keys row the use of a token we minted is attributed to: an active
\* console key of its user, or else a synthetic row that is made on the spot.
Attribute(u, up) ==
    IF \E k \in Keys : Active(k) /\ key[k].owner = u /\ key[k].kind = "console"
    THEN UNCHANGED key
    ELSE upsert_synthetic_api_key(u, "own_token", up)

\* decode_and_validate and verify_openweights_signature on a token we minted:
\* one clock, so it is never issued in the future, and one signing key.
Valid(t) == token[t] # NULL /\ token[t].left >= 0

\* authenticate_xet_jwt with a token OpenWeights minted.
OwnToken(t, want) ==
    /\ Valid(t)
    /\ Required(want) \in claims_scopes[token[t].access]
    /\ token[t].user \in users
    /\ Attribute(token[t].user, token[t].origin.upload)
    /\ Serve(want, token[t].user, token[t].origin)
    /\ UNCHANGED <<users, nonce, session, cache, request, late>>

upsert_hf_user == users' = users \cup {Guest}

\* authenticate_xet_jwt with a token Hugging Face minted: upsert_hf_user and
\* upsert_synthetic_api_key, then the handler with the scopes of the access
\* claim.  The token is the start of the chain.  Its own expiry is outside.
HfToken(access, want) ==
    /\ Required(want) \in claims_scopes[access]
    /\ upsert_hf_user
    /\ upsert_synthetic_api_key(Guest, "hf_token", access = "WRITE")
    /\ Serve(want, Guest, [upload |-> access = "WRITE", synthetic |-> FALSE])
    /\ UNCHANGED <<nonce, session, cache, request, late>>

-----------------------------------------------------------------------------
\* A process restarts: its cache is empty and its bearer calls are gone.
Restart(p) ==
    /\ cache' = [cache EXCEPT ![p] = [k \in Keys |-> NULL]]
    /\ request' = [r \in Requests |->
           IF request[r].at = "row" THEN IF request[r].p = p THEN Idle ELSE request[r]
           ELSE request[r]]
    /\ UNCHANGED <<users, nonce, session, key, owners, token, late>>

Until(left, floor) == IF left > floor THEN left - 1 ELSE left
Aged(age, cap) == IF age # NULL /\ age < cap THEN age + 1 ELSE age

\* A unit of time passes.
Tick ==
    /\ \A r \in Requests : request[r].at = "row" => request[r].age < MaxFetch
    /\ request' = [r \in Requests |->
           IF request[r].at = "row" THEN [request[r] EXCEPT !.age = @ + 1] ELSE request[r]]
    /\ nonce' = [n \in Nonces |->
           IF nonce[n] = NULL THEN NULL ELSE [nonce[n] EXCEPT !.left = Until(@, 0)]]
    /\ session' = [s \in Sessions |->
           IF session[s] = NULL THEN NULL ELSE [session[s] EXCEPT !.left = Until(@, 0)]]
    /\ token' = [t \in Tokens |->
           IF token[t] = NULL THEN NULL ELSE [token[t] EXCEPT !.left = Until(@, -1)]]
    /\ cache' = [p \in Processes |-> [k \in Keys |-> Aged(cache[p][k], KeyCacheTtl + 1)]]
    /\ key' = [k \in Keys |->
           IF key[k] = NULL THEN NULL ELSE [key[k] EXCEPT !.revoked = Aged(@, TooLate)]]
    /\ UNCHANGED <<users, owners, late>>

Init ==
    /\ users = {}
    /\ nonce = [n \in Nonces |-> NULL]
    /\ session = [s \in Sessions |-> NULL]
    /\ key = [k \in Keys |-> NULL]
    /\ owners = {}
    /\ cache = [p \in Processes |-> [k \in Keys |-> NULL]]
    /\ request = [r \in Requests |-> Idle]
    /\ token = [t \in Tokens |-> NULL]
    /\ late = 0

SignIn ==
    \/ \E n \in Nonces : start(n) \/ \E r \in Requests : callback(r, n)
    \/ \E r \in Requests : upsert_user(r) \/ Abandon(r) \/ \E s \in Sessions : mint_session(r, s)
    \/ \E s \in Sessions : login(s) \/ logout(s)

Console ==
    \/ \E r \in Requests, s \in Sessions : touch_session(r, s)
    \/ \E r \in Requests, k \in Keys :
          revoke_key(r, k) \/ \E scope \in DOMAIN to_db_scopes : create_key(r, k, scope)

Bearer ==
    \/ \E p \in Processes, k \in Keys :
          \/ \E r \in Requests : BearerMiss(r, p, k)
          \/ \E want \in Wants : BearerHit(p, k, want)
    \/ \E want \in Wants :
          \/ \E r \in Requests : BearerLoaded(r, want)
          \/ \E t \in Tokens : OwnToken(t, want)
          \/ \E access \in DOMAIN claims_scopes : HfToken(access, want)

Next ==
    \/ SignIn
    \/ Console
    \/ Bearer
    \/ \E p \in Processes : Restart(p)
    \/ Tick

Spec == Init /\ [][Next]_vars

-----------------------------------------------------------------------------
\* Every variable stays in its type; in particular whoever a row belongs to
\* has a users row, so that the foreign keys hold.
TypeOK ==
    /\ users \subseteq UserIds
    /\ owners \subseteq users
    /\ \A n \in Nonces : nonce[n] \in NonceRow \cup {NULL}
    /\ \A s \in Sessions :
          session[s] = NULL \/ (session[s] \in SessionRow /\ session[s].user \in users)
    /\ \A k \in Keys :
          key[k] = NULL \/ (key[k] \in KeyRow /\ key[k].owner \in users)
    /\ cache \in [Processes -> [Keys -> 0 .. KeyCacheTtl + 1 \cup {NULL}]]
    /\ \A t \in Tokens :
          token[t] = NULL \/ (token[t] \in TokenRow /\ token[t].user \in users)
    /\ late \in 0 .. TooLate

\* A key is not accepted any more once the cache's TTL and the duration of the
\* SELECT that filled the cache have passed since it was revoked, whichever
\* process is asked and however its calls interleave with the revocation.
RevokedKeyFades == late <= KeyCacheTtl + MaxFetch

\* auth.rs: "revocation-staleness window is 5 s".
RevokedWithinTtl == late <= KeyCacheTtl

\* A nonce signs in once: two callbacks with the same state, racing through
\* their four steps, never end in two sessions.
OneSessionPerNonce ==
    \A s1, s2 \in Sessions :
        (session[s1] # NULL /\ session[s2] # NULL /\ s1 # s2) =>
            session[s1].nonce = NULL \/ session[s1].nonce # session[s2].nonce

\* A token that may upload goes back, through whatever tokens it was minted
\* with, to a credential that may: a console key with that scope or a WRITE token
\* of HF.  The one exception the code makes is a row upsert_synthetic_api_key
\* left behind, presented as a bearer key: it has both scopes whatever the token
\* it was made for grants.
UploadNeedsUpload ==
    \A t \in Tokens :
        (token[t] # NULL /\ token[t].access = "WRITE") =>
            token[t].origin.upload \/ token[t].origin.synthetic

\* The same without the exception.  xet_jwt.rs: the synthetic row is "one
\* sentinel row per user so the FK holds", no credential of its own.
NoRightIsGained ==
    \A t \in Tokens :
        (token[t] # NULL /\ token[t].access = "WRITE") => token[t].origin.upload

\* auth.rs: "For our mint-path tokens the caller had both upload+download (we
\* required it at the HF-API-compat layer)".
MinterHadBothScopes ==
    \A k \in Keys :
        (key[k] # NULL /\ Required("write_token") \in key[k].scopes) =>
            {"upload", "download"} \subseteq key[k].scopes

\* A session that can no longer be used.
Dead(s) == session[s] # NULL /\ (session[s].revoked \/ session[s].left = 0)

\* A session that was logged out or has expired stays so: a late request of
\* the same browser cannot extend it.
SessionsStayDead == [][\A s \in Sessions : Dead(s) => Dead(s)']_vars

=============================================================================
