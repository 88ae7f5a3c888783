----------------------------- MODULE AccessProofs -----------------------------
(***************************************************************************)
(* TLAPS proofs about Access, for any number of processes, requests, keys, *)
(* sessions, nonces and tokens, and any lifetimes.                         *)
(***************************************************************************)
EXTENDS Access, TLAPS

-----------------------------------------------------------------------------
(***************************************************************************)
(* The inductive invariant.                                                *)
(***************************************************************************)

SigningIn == [at : {"exchange", "mint"}, nonce : Nonces]
AtConsole == [at : {"console"}, user : UserIds]
Loading ==
    [at : {"row"}, p : Processes, k : Keys, age : 0 .. MaxFetch]

Types ==
    /\ users \subseteq UserIds /\ owners \subseteq users
    /\ nonce \in [Nonces -> NonceRow \cup {NULL}]
    /\ session \in [Sessions -> SessionRow \cup {NULL}]
    /\ key \in [Keys -> KeyRow \cup {NULL}]
    /\ cache \in [Processes -> [Keys -> 0 .. KeyCacheTtl + 1 \cup {NULL}]]
    /\ request \in [Requests -> {Idle} \cup SigningIn \cup AtConsole \cup Loading]
    /\ token \in [Tokens -> TokenRow \cup {NULL}]
    /\ late \in 0 .. KeyCacheTtl + MaxFetch

\* Whoever a row or a request belongs to has a users row.
OwnersExist ==
    /\ \A s \in Sessions : session[s] # NULL => session[s].user \in users
    /\ \A k \in Keys : key[k] # NULL => key[k].owner \in users
    /\ \A t \in Tokens : token[t] # NULL => token[t].user \in users
    /\ \A r \in Requests :
          /\ request[r].at = "mint" => Member \in users
          /\ request[r].at = "console" => request[r].user \in users

\* A nonce that somebody signs in with, or has signed in with, is consumed.
Spent(n) == nonce[n] # NULL /\ ~nonce[n].open

\* Each nonce is with one request or with one session at a time.
NoncesAreSingle ==
    /\ \A r \in Requests : request[r].at \in {"exchange", "mint"} => Spent(request[r].nonce)
    /\ \A s \in Sessions :
          (session[s] # NULL /\ session[s].nonce # NULL) => Spent(session[s].nonce)
    /\ \A r1, r2 \in Requests :
          (r1 # r2 /\ {request[r1].at, request[r2].at} \subseteq {"exchange", "mint"}) =>
              request[r1].nonce # request[r2].nonce
    /\ \A r \in Requests, s \in Sessions :
          (request[r].at \in {"exchange", "mint"} /\ session[s] # NULL) =>
              session[s].nonce # request[r].nonce

\* What is known of a key is at most as old as its revocation allows: the row a
\* SELECT returned was active when it began, and a cache entry when the SELECT
\* behind it did.
AgesAgree ==
    /\ \A p \in Processes, k \in Keys : cache[p][k] # NULL =>
          /\ key[k] # NULL
          /\ key[k].revoked # NULL => key[k].revoked <= cache[p][k] + MaxFetch
    /\ \A r \in Requests : request[r].at = "row" =>
          /\ key[request[r].k] # NULL
          /\ key[request[r].k].revoked # NULL => key[request[r].k].revoked <= request[r].age

\* What a row and a token record of the credential they go back to covers what
\* they grant, but for the synthetic rows.
OriginsCover ==
    /\ \A k \in Keys :
          (key[k] # NULL /\ key[k].kind = "console" /\ "upload" \in key[k].scopes) =>
              key[k].upload
    /\ UploadNeedsUpload

IInv ==
    /\ Types /\ OwnersExist /\ NoncesAreSingle /\ OneSessionPerNonce
    /\ AgesAgree /\ OriginsCover
-----------------------------------------------------------------------------
(***************************************************************************)
(* What the records hold.                                                  *)
(***************************************************************************)

Stage == {Idle} \cup SigningIn \cup AtConsole \cup Loading

LEMMA StageFacts ==
    ASSUME NEW q \in Stage
    PROVE  /\ q.at \in {"idle", "exchange", "mint", "console", "row"}
           /\ q.at = "idle" <=> q = Idle
           /\ q.at \in {"exchange", "mint"} <=> q \in SigningIn
           /\ q.at \in {"exchange", "mint"} => q.nonce \in Nonces
           /\ q.at = "console" => q.user \in UserIds
           /\ q.at = "row" => /\ q \in Loading /\ q.p \in Processes /\ q.k \in Keys
                              /\ q.age \in 0 .. MaxFetch
  BY DEF Stage, Idle, SigningIn, AtConsole, Loading

LEMMA IdleFacts == Idle \in Stage /\ Idle.at = "idle"
  BY DEF Stage, Idle

LEMMA NewStages ==
    /\ \A n \in Nonces : LET t == [at |-> "exchange", nonce |-> n] IN
          t \in Stage /\ t.at = "exchange" /\ t.nonce = n
    /\ \A u \in UserIds : LET t == [at |-> "console", user |-> u] IN
          t \in Stage /\ t.at = "console" /\ t.user = u
    /\ \A p \in Processes, k \in Keys :
          LET t == [at |-> "row", p |-> p, k |-> k, age |-> 0] IN
          t \in Stage /\ t.at = "row" /\ t.p = p /\ t.k = k /\ t.age = 0
  BY AccessAssumption DEF Stage, SigningIn, AtConsole, Loading

\* Types with the requests' one named.
LEMMA RequestType == Types => request \in [Requests -> Stage]
  BY DEF Types, Stage

LEMMA RequestGoes ==
    ASSUME Types, NEW r \in Requests, NEW q \in Stage, Goes(r, q)
    PROVE  /\ request' \in [Requests -> Stage] /\ request'[r] = q
           /\ \A s \in Requests \ {r} : request'[s] = request[s]
  BY RequestType DEF Goes

\* NULL is none of the values a row or a field may have.
LEMMA NotNull ==
    /\ \A x \in Nonces \cup NonceRow \cup SessionRow \cup KeyRow \cup TokenRow : x # NULL
    /\ \A x \in Int : x # NULL
  BY AccessAssumption

-----------------------------------------------------------------------------
(***************************************************************************)
(* Sign-in.                                                                *)
(***************************************************************************)

LEMMA StartStep ==
    ASSUME IInv, NEW n \in Nonces, start(n)
    PROVE  IInv'
  <1>1. Types /\ nonce[n] = NULL
    BY DEF IInv, start
  <1> DEFINE row == [open |-> TRUE, left |-> NonceTtl]
  <1>2. row \in NonceRow /\ row.open
    BY AccessAssumption DEF NonceRow
  <1>3. nonce' = [nonce EXCEPT ![n] = row]
    BY DEF start
  <1> HIDE DEF row
  <1>4. Types'
    BY <1>1, <1>2, <1>3 DEF start, Types
  <1>5. OwnersExist' /\ OneSessionPerNonce' /\ AgesAgree' /\ OriginsCover'
    BY DEF IInv, start, OwnersExist, OneSessionPerNonce, AgesAgree, OriginsCover,
       UploadNeedsUpload
  <1>6. \A m \in Nonces : Spent(m) => m # n /\ nonce'[m] = nonce[m]
    BY <1>1, <1>3 DEF Types, Spent
  <1>7. \A r \in Requests : request[r].at \in {"exchange", "mint"} =>
            request[r].nonce \in Nonces
    BY <1>1, RequestType, StageFacts
  <1>8. \A s \in Sessions : session[s] # NULL => session[s].nonce \in Nonces \cup {NULL}
    BY <1>1 DEF Types, SessionRow
  <1>9. NoncesAreSingle'
    BY <1>6, <1>7, <1>8 DEF IInv, start, NoncesAreSingle, Spent
  <1> QED BY <1>4, <1>5, <1>9 DEF IInv

LEMMA CallbackStep ==
    ASSUME IInv, NEW r \in Requests, NEW n \in Nonces, callback(r, n)
    PROVE  IInv'
  <1> DEFINE q == [at |-> "exchange", nonce |-> n]
  <1>1. /\ Types /\ request[r].at = "idle" /\ nonce[n] \in NonceRow /\ nonce[n].open
    BY IdleFacts DEF IInv, callback, Consumable, Types
  <1>2. q \in Stage /\ q.at = "exchange" /\ q.nonce = n
    BY NewStages
  <1>3. Goes(r, q)
    BY DEF callback
  <1> HIDE DEF q
  <1>4. /\ request' \in [Requests -> Stage] /\ request'[r] = q
        /\ \A s \in Requests \ {r} : request'[s] = request[s]
    BY <1>1, <1>2, <1>3, RequestGoes
  <1> DEFINE row == [nonce[n] EXCEPT !.open = FALSE]
  <1>5. row \in NonceRow /\ ~row.open
    BY <1>1 DEF NonceRow
  <1>6. nonce' = [nonce EXCEPT ![n] = row]
    BY DEF callback
  <1> HIDE DEF row
  <1>7. Types'
    BY <1>1, <1>4, <1>5, <1>6 DEF callback, Types, Stage
  <1>8. OwnersExist'
    BY <1>2, <1>4 DEF IInv, callback, OwnersExist
  <1>9. OneSessionPerNonce' /\ OriginsCover'
    BY DEF IInv, callback, OneSessionPerNonce, OriginsCover, UploadNeedsUpload
  <1>10. AgesAgree'
    BY <1>2, <1>4 DEF IInv, callback, AgesAgree
  <1>11. \A m \in Nonces : (Spent(m) => m # n /\ Spent(m)') /\ Spent(n)'
    BY <1>1, <1>5, <1>6, NotNull DEF Types, Spent
  <1>12. \A s \in Requests : request[s].at \in {"exchange", "mint"} =>
            request[s].nonce \in Nonces /\ Spent(request[s].nonce)
    BY <1>1, RequestType, StageFacts DEF IInv, NoncesAreSingle
  <1>13. \A s \in Sessions : (session[s] # NULL /\ session[s].nonce # NULL) =>
            session[s].nonce \in Nonces /\ Spent(session[s].nonce)
    BY <1>1 DEF Types, SessionRow, IInv, NoncesAreSingle
  <1>14. NoncesAreSingle'
    BY <1>1, <1>2, <1>4, <1>11, <1>12, <1>13, NotNull DEF IInv, callback, NoncesAreSingle
  <1> QED BY <1>7, <1>8, <1>9, <1>10, <1>14 DEF IInv

LEMMA UpsertUserStep ==
    ASSUME IInv, NEW r \in Requests, upsert_user(r)
    PROVE  IInv'
  <1> DEFINE q == [request[r] EXCEPT !.at = "mint"]
  <1>1. Types /\ request[r] \in SigningIn /\ request[r].at = "exchange"
    BY RequestType, StageFacts DEF IInv, upsert_user
  <1>2. q \in SigningIn /\ q.at = "mint" /\ q.nonce = request[r].nonce
    BY <1>1 DEF SigningIn
  <1>3. q \in Stage
    BY <1>2 DEF Stage
  <1>4. Goes(r, q)
    BY DEF upsert_user
  <1> HIDE DEF q
  <1>5. /\ request' \in [Requests -> Stage] /\ request'[r] = q
        /\ \A s \in Requests \ {r} : request'[s] = request[s]
    BY <1>1, <1>3, <1>4, RequestGoes
  <1>6. users' = users \cup {Member} /\ Member \in UserIds
    BY DEF upsert_user, UserIds
  <1>7. Types'
    BY <1>1, <1>5, <1>6 DEF upsert_user, Types, Stage
  <1>8. OwnersExist'
    BY <1>2, <1>5, <1>6 DEF IInv, upsert_user, OwnersExist
  <1>9. OneSessionPerNonce' /\ OriginsCover'
    BY DEF IInv, upsert_user, OneSessionPerNonce, OriginsCover, UploadNeedsUpload
  <1>10. AgesAgree'
    BY <1>2, <1>5 DEF IInv, upsert_user, AgesAgree
  <1>11. \A m : Spent(m)' <=> Spent(m)
    BY DEF upsert_user, Spent
  <1>12. NoncesAreSingle'
    BY <1>1, <1>2, <1>5, <1>11 DEF IInv, upsert_user, NoncesAreSingle
  <1> QED BY <1>7, <1>8, <1>9, <1>10, <1>12 DEF IInv

\* A request that ends leaves what the others know.
LEMMA EndKeeps ==
    ASSUME IInv, NEW r \in Requests, Goes(r, Idle)
    PROVE  /\ request' \in [Requests -> Stage] /\ request'[r] = Idle
           /\ request'[r].at = "idle"
           /\ \A s \in Requests \ {r} : request'[s] = request[s]
  BY IdleFacts, RequestGoes DEF IInv

LEMMA AbandonStep ==
    ASSUME IInv, NEW r \in Requests, Abandon(r)
    PROVE  IInv'
  <1>1. /\ request' \in [Requests -> Stage] /\ request'[r].at = "idle"
        /\ \A s \in Requests \ {r} : request'[s] = request[s]
    BY EndKeeps DEF Abandon
  <1>2. Types'
    BY <1>1 DEF IInv, Abandon, Types, Stage
  <1>3. OwnersExist'
    BY <1>1 DEF IInv, Abandon, OwnersExist
  <1>4. OneSessionPerNonce' /\ OriginsCover'
    BY DEF IInv, Abandon, OneSessionPerNonce, OriginsCover, UploadNeedsUpload
  <1>5. AgesAgree'
    BY <1>1 DEF IInv, Abandon, AgesAgree
  <1>6. \A m : Spent(m)' <=> Spent(m)
    BY DEF Abandon, Spent
  <1>7. NoncesAreSingle'
    BY <1>1, <1>6 DEF IInv, Abandon, NoncesAreSingle
  <1> QED BY <1>2, <1>3, <1>4, <1>5, <1>7 DEF IInv

\* A session that is minted.
LEMMA MintedFacts ==
    ASSUME Types, NEW s \in Sessions, NEW u \in UserIds, NEW n \in Nonces \cup {NULL},
           Minted(s, u, n)
    PROVE  /\ session' \in [Sessions -> SessionRow \cup {NULL}]
           /\ session[s] = NULL /\ session'[s] # NULL
           /\ session'[s].user = u /\ session'[s].nonce = n
           /\ \A x \in Sessions \ {s} : session'[x] = session[x]
  <1> DEFINE row == [user |-> u, left |-> SessionTtl, revoked |-> FALSE, nonce |-> n]
  <1>1. row \in SessionRow /\ row.user = u /\ row.nonce = n
    BY AccessAssumption DEF SessionRow
  <1>2. session' = [session EXCEPT ![s] = row] /\ session[s] = NULL
    BY DEF Minted
  <1> HIDE DEF row
  <1> QED BY <1>1, <1>2, NotNull DEF Types

LEMMA MintSessionStep ==
    ASSUME IInv, NEW r \in Requests, NEW s \in Sessions, mint_session(r, s)
    PROVE  IInv'
  <1> DEFINE n == request[r].nonce
  <1>1. /\ Types /\ request[r].at = "mint" /\ n \in Nonces /\ Member \in users
        /\ Member \in UserIds /\ Spent(n)
    BY RequestType, StageFacts DEF IInv, mint_session, OwnersExist, UserIds,
       NoncesAreSingle
  <1>2. /\ session' \in [Sessions -> SessionRow \cup {NULL}]
        /\ session[s] = NULL /\ session'[s] # NULL
        /\ session'[s].user = Member /\ session'[s].nonce = n
        /\ \A x \in Sessions \ {s} : session'[x] = session[x]
    BY <1>1, MintedFacts DEF mint_session
  <1>3. /\ request' \in [Requests -> Stage] /\ request'[r].at = "idle"
        /\ \A x \in Requests \ {r} : request'[x] = request[x]
    BY EndKeeps DEF mint_session
  <1>4. Types'
    BY <1>1, <1>2, <1>3 DEF mint_session, Types, Stage
  <1>5. OwnersExist'
    BY <1>1, <1>2, <1>3 DEF IInv, mint_session, OwnersExist
  <1>6. OriginsCover'
    BY DEF IInv, mint_session, OriginsCover, UploadNeedsUpload
  <1>7. AgesAgree'
    BY <1>3 DEF IInv, mint_session, AgesAgree
  <1>8. \A x \in Sessions : session[x] # NULL => session[x].nonce # n
    BY <1>1 DEF IInv, NoncesAreSingle
  <1>9. OneSessionPerNonce'
    BY <1>2, <1>8 DEF IInv, OneSessionPerNonce
  <1>10. \A m : Spent(m)' <=> Spent(m)
    BY DEF mint_session, Spent
  <1>11. NoncesAreSingle'
    <2>1. \A x \in Requests :
             request'[x].at \in {"exchange", "mint"} =>
                 x # r /\ request'[x] = request[x] /\ request[x].nonce # n
      BY <1>1, <1>3 DEF IInv, NoncesAreSingle
    <2> HIDE DEF n
    <2> QED BY <1>1, <1>2, <1>10, <2>1 DEF IInv, NoncesAreSingle
  <1> QED BY <1>4, <1>5, <1>6, <1>7, <1>9, <1>11 DEF IInv

LEMMA LoginStep ==
    ASSUME IInv, NEW s \in Sessions, login(s)
    PROVE  IInv'
  <1>1. Types /\ Admin \in UserIds /\ users' = users \cup {Admin} /\ UNCHANGED request
    BY DEF IInv, UserIds, login
  <1>2. /\ session' \in [Sessions -> SessionRow \cup {NULL}]
        /\ session[s] = NULL /\ session'[s] # NULL
        /\ session'[s].user = Admin /\ session'[s].nonce = NULL
        /\ \A x \in Sessions \ {s} : session'[x] = session[x]
    BY <1>1, MintedFacts DEF login
  <1>3. Types'
    BY <1>1, <1>2 DEF login, Types
  <1>4. OwnersExist'
    BY <1>1, <1>2 DEF IInv, login, OwnersExist
  <1>5. OriginsCover' /\ AgesAgree'
    BY DEF IInv, login, OriginsCover, UploadNeedsUpload, AgesAgree
  <1>6. OneSessionPerNonce'
    BY <1>2 DEF IInv, OneSessionPerNonce
  <1>7. \A m : Spent(m)' <=> Spent(m)
    BY DEF login, Spent
  <1>8. \A r \in Requests : request[r].at \in {"exchange", "mint"} => request[r].nonce # NULL
    BY <1>1, RequestType, StageFacts, NotNull
  <1>9. NoncesAreSingle'
    BY <1>1, <1>2, <1>7, <1>8 DEF IInv, NoncesAreSingle
  <1> QED BY <1>3, <1>4, <1>5, <1>6, <1>9 DEF IInv

-----------------------------------------------------------------------------
(***************************************************************************)
(* Sessions that are refreshed, revoked or grow older keep their user and  *)
(* their nonce.                                                            *)
(***************************************************************************)

SameSessions ==
    /\ session' \in [Sessions -> SessionRow \cup {NULL}]
    /\ \A s \in Sessions :
          /\ session'[s] # NULL <=> session[s] # NULL
          /\ session[s] # NULL => /\ session'[s].user = session[s].user
                                  /\ session'[s].nonce = session[s].nonce

LEMMA SessionChanges ==
    ASSUME Types, NEW s \in Sessions, NEW t \in SessionRow, session[s] # NULL,
           t.user = session[s].user, t.nonce = session[s].nonce,
           session' = [session EXCEPT ![s] = t]
    PROVE  SameSessions
  BY NotNull DEF Types, SameSessions

LEMMA SameSessionsKeep ==
    ASSUME IInv, SameSessions
    PROVE  /\ OneSessionPerNonce'
           /\ \A s \in Sessions : session'[s] # NULL => session'[s].user \in users
           /\ UNCHANGED <<nonce, request>> => NoncesAreSingle'
  <1>1. OneSessionPerNonce'
    BY DEF IInv, SameSessions, OneSessionPerNonce
  <1>2. \A s \in Sessions : session'[s] # NULL => session'[s].user \in users
    BY DEF IInv, SameSessions, OwnersExist
  <1>3. ASSUME UNCHANGED <<nonce, request>> PROVE NoncesAreSingle'
    <2>1. \A m : Spent(m)' <=> Spent(m)
      BY <1>3 DEF Spent
    <2> QED BY <1>3, <2>1 DEF IInv, SameSessions, NoncesAreSingle
  <1> QED BY <1>1, <1>2, <1>3

LEMMA LogoutStep ==
    ASSUME IInv, NEW s \in Sessions, logout(s)
    PROVE  IInv'
  <1> DEFINE t == [session[s] EXCEPT !.revoked = TRUE]
  <1>1. Types /\ session[s] # NULL /\ session[s] \in SessionRow
    BY DEF IInv, logout, Types
  <1>2. t \in SessionRow /\ t.user = session[s].user /\ t.nonce = session[s].nonce
    BY <1>1 DEF SessionRow
  <1>3. session' = [session EXCEPT ![s] = t]
    BY DEF logout
  <1> HIDE DEF t
  <1>4. SameSessions
    BY <1>1, <1>2, <1>3, SessionChanges
  <1>5. Types'
    BY <1>1, <1>4 DEF logout, Types, SameSessions
  <1>6. OwnersExist'
    BY <1>4, SameSessionsKeep DEF IInv, logout, OwnersExist
  <1>7. OriginsCover' /\ AgesAgree'
    BY DEF IInv, logout, OriginsCover, UploadNeedsUpload, AgesAgree
  <1>8. OneSessionPerNonce' /\ NoncesAreSingle'
    BY <1>4, SameSessionsKeep DEF logout
  <1> QED BY <1>5, <1>6, <1>7, <1>8 DEF IInv

LEMMA TouchSessionStep ==
    ASSUME IInv, NEW r \in Requests, NEW s \in Sessions, touch_session(r, s)
    PROVE  IInv'
  <1> DEFINE t == [session[s] EXCEPT !.left = SessionTtl]
             q == [at |-> "console", user |-> session[s].user]
  <1>1. /\ Types /\ session[s] # NULL /\ session[s] \in SessionRow
        /\ session[s].user \in users /\ session[s].user \in UserIds
        /\ request[r].at = "idle"
    BY IdleFacts DEF IInv, touch_session, Live, Types, OwnersExist
  <1>2. t \in SessionRow /\ t.user = session[s].user /\ t.nonce = session[s].nonce
    BY <1>1, AccessAssumption DEF SessionRow
  <1>3. q \in Stage /\ q.at = "console" /\ q.user = session[s].user
    BY <1>1 DEF Stage, AtConsole
  <1>4. session' = [session EXCEPT ![s] = t] /\ Goes(r, q)
    BY DEF touch_session
  <1> HIDE DEF t, q
  <1>5. SameSessions
    BY <1>1, <1>2, <1>4, SessionChanges
  <1>6. /\ request' \in [Requests -> Stage] /\ request'[r] = q
        /\ \A x \in Requests \ {r} : request'[x] = request[x]
    BY <1>1, <1>3, <1>4, RequestGoes
  <1>7. Types'
    BY <1>1, <1>5, <1>6 DEF touch_session, Types, SameSessions, Stage
  <1>8. OwnersExist'
    BY <1>1, <1>3, <1>5, <1>6, SameSessionsKeep DEF IInv, touch_session, OwnersExist
  <1>9. OriginsCover'
    BY DEF IInv, touch_session, OriginsCover, UploadNeedsUpload
  <1>10. AgesAgree'
    BY <1>3, <1>6 DEF IInv, touch_session, AgesAgree
  <1>11. OneSessionPerNonce'
    BY <1>5, SameSessionsKeep
  <1>12. \A m : Spent(m)' <=> Spent(m)
    BY DEF touch_session, Spent
  <1>13. NoncesAreSingle'
    BY <1>3, <1>5, <1>6, <1>12 DEF IInv, SameSessions, NoncesAreSingle
  <1> QED BY <1>7, <1>8, <1>9, <1>10, <1>11, <1>13 DEF IInv

-----------------------------------------------------------------------------
(***************************************************************************)
(* Keys.                                                                   *)
(***************************************************************************)

LEMMA ScopesOfKeys ==
    \A scope \in DOMAIN to_db_scopes :
        to_db_scopes[scope] \in SUBSET {"upload", "download", "admin"}
  BY DEF to_db_scopes

\* Handlers that only end their request disturb no nonce.
LEMMA EndKeepsNonces ==
    ASSUME IInv, NEW r \in Requests, Goes(r, Idle), UNCHANGED <<nonce, session>>
    PROVE  NoncesAreSingle' /\ OneSessionPerNonce'
  <1>1. /\ request'[r].at = "idle"
        /\ \A s \in Requests \ {r} : request'[s] = request[s]
    BY EndKeeps
  <1>2. \A m : Spent(m)' <=> Spent(m)
    BY DEF Spent
  <1>3. NoncesAreSingle'
    BY <1>1, <1>2 DEF IInv, NoncesAreSingle
  <1> QED BY <1>3 DEF IInv, OneSessionPerNonce

LEMMA CreateKeyStep ==
    ASSUME IInv, NEW r \in Requests, NEW k \in Keys, NEW scope \in DOMAIN to_db_scopes,
           create_key(r, k, scope)
    PROVE  IInv'
  <1> DEFINE row == [owner |-> request[r].user, kind |-> "console",
                     scopes |-> to_db_scopes[scope], revoked |-> NULL,
                     upload |-> "upload" \in to_db_scopes[scope]]
  <1>1. /\ Types /\ key[k] = NULL /\ request[r].user \in users
        /\ request[r].user \in UserIds
    BY RequestType, StageFacts DEF IInv, create_key, OwnersExist
  <1>2. /\ row \in KeyRow /\ row.owner = request[r].user /\ row.revoked = NULL
        /\ "upload" \in row.scopes => row.upload
    <2> DEFINE up == "upload" \in to_db_scopes[scope]
    <2>1. up \in BOOLEAN /\ to_db_scopes[scope] \in SUBSET {"upload", "download", "admin"}
      BY ScopesOfKeys
    <2>2. ("upload" \in to_db_scopes[scope]) = up
      OBVIOUS
    <2> HIDE DEF up
    <2>3. row \in KeyRow /\ row.owner = request[r].user /\ row.revoked = NULL
      BY <1>1, <2>1, <2>2 DEF KeyRow, Kinds
    <2>4. row.scopes = to_db_scopes[scope] /\ row.upload = up
      BY <2>2
    <2> QED BY <2>2, <2>3, <2>4
  <1>3. key' = [key EXCEPT ![k] = row]
    BY DEF create_key
  <1> HIDE DEF row
  <1>4. key'[k] = row /\ row # NULL /\ \A x \in Keys \ {k} : key'[x] = key[x]
    BY <1>1, <1>2, <1>3, NotNull DEF Types
  <1>5. /\ request' \in [Requests -> Stage] /\ request'[r].at = "idle"
        /\ \A s \in Requests \ {r} : request'[s] = request[s]
    BY EndKeeps DEF create_key
  <1>6. Types'
    BY <1>1, <1>2, <1>3, <1>5 DEF create_key, Types, Stage
  <1>7. OwnersExist'
    BY <1>1, <1>2, <1>4, <1>5 DEF IInv, create_key, OwnersExist
  <1>8. NoncesAreSingle' /\ OneSessionPerNonce'
    BY EndKeepsNonces DEF create_key
  <1>9. AgesAgree'
    BY <1>1, <1>2, <1>4, <1>5 DEF IInv, create_key, AgesAgree
  <1>10. OriginsCover'
    BY <1>2, <1>4 DEF IInv, create_key, OriginsCover, UploadNeedsUpload
  <1> QED BY <1>6, <1>7, <1>8, <1>9, <1>10 DEF IInv

LEMMA RevokeKeyStep ==
    ASSUME IInv, NEW r \in Requests, NEW k \in Keys, revoke_key(r, k)
    PROVE  IInv'
  <1> DEFINE row == [key[k] EXCEPT !.revoked = 0]
  <1>1. Types /\ key[k] # NULL /\ key[k] \in KeyRow
    BY DEF IInv, revoke_key, Active, Types
  <1>2. /\ row \in KeyRow /\ row.owner = key[k].owner /\ row.scopes = key[k].scopes
        /\ row.revoked = 0 /\ row.kind = key[k].kind /\ row.upload = key[k].upload
    BY <1>1, AccessAssumption DEF KeyRow, TooLate
  <1>3. key' = [key EXCEPT ![k] = row]
    BY DEF revoke_key
  <1> HIDE DEF row
  <1>4. key'[k] = row /\ row # NULL /\ \A x \in Keys \ {k} : key'[x] = key[x]
    BY <1>1, <1>2, <1>3, NotNull DEF Types
  <1>5. /\ request' \in [Requests -> Stage] /\ request'[r].at = "idle"
        /\ \A s \in Requests \ {r} : request'[s] = request[s]
    BY EndKeeps DEF revoke_key
  <1>6. Types'
    BY <1>1, <1>2, <1>3, <1>5 DEF revoke_key, Types, Stage
  <1>7. OwnersExist'
    BY <1>1, <1>2, <1>4, <1>5 DEF IInv, revoke_key, OwnersExist
  <1>8. NoncesAreSingle' /\ OneSessionPerNonce'
    BY EndKeepsNonces DEF revoke_key
  <1>9. /\ \A p \in Processes, x \in Keys : cache[p][x] # NULL => cache[p][x] \in Nat
        /\ \A s \in Requests : request[s].at = "row" => request[s].age \in Nat
        /\ MaxFetch \in Nat
    BY <1>1, RequestType, StageFacts, AccessAssumption DEF Types
  <1>10. AgesAgree'
    <2>1. ASSUME NEW p \in Processes, NEW x \in Keys, cache'[p][x] # NULL
          PROVE  key'[x] # NULL
                 /\ (key'[x].revoked # NULL => key'[x].revoked <= cache'[p][x] + MaxFetch)
      <3>1. cache'[p][x] = cache[p][x] /\ cache[p][x] \in Nat
        BY <1>9, <2>1 DEF revoke_key
      <3>2. CASE x = k
        BY <1>2, <1>4, <1>9, <3>1, <3>2
      <3>3. CASE x # k
        BY <1>4, <2>1, <3>1, <3>3 DEF IInv, AgesAgree
      <3> QED BY <3>2, <3>3
    <2>2. ASSUME NEW s \in Requests, request'[s].at = "row"
          PROVE  /\ key'[request'[s].k] # NULL
                 /\ key'[request'[s].k].revoked # NULL =>
                       key'[request'[s].k].revoked <= request'[s].age
      <3>1. /\ request'[s] = request[s] /\ request[s].age \in Nat /\ request[s].k \in Keys
            /\ request[s].at = "row"
        BY <1>1, <1>5, <1>9, <2>2, RequestType, StageFacts
      <3>2. CASE request[s].k = k
        BY <1>2, <1>4, <3>1, <3>2
      <3>3. CASE request[s].k # k
        BY <1>4, <3>1, <3>3 DEF IInv, AgesAgree
      <3> QED BY <3>2, <3>3
    <2> QED BY <2>1, <2>2 DEF AgesAgree
  <1>11. OriginsCover'
    BY <1>1, <1>2, <1>4 DEF IInv, revoke_key, OriginsCover, UploadNeedsUpload
  <1> QED BY <1>6, <1>7, <1>8, <1>10, <1>11 DEF IInv

-----------------------------------------------------------------------------
(***************************************************************************)
(* Bearer calls.                                                           *)
(***************************************************************************)

\* What a handler may do for a caller: become an owner, or hold a token that goes
\* back to the caller's own credential.
LEMMA ServeKeeps ==
    ASSUME IInv, NEW want \in Wants, NEW u \in users', NEW origin \in OriginRow,
           Required(want) = "upload" => origin.upload \/ origin.synthetic,
           Serve(want, u, origin), users \subseteq users', users' \subseteq UserIds
    PROVE  /\ token' \in [Tokens -> TokenRow \cup {NULL}]
           /\ \A t \in Tokens : token'[t] # NULL => token'[t].user \in users'
           /\ owners' \subseteq users'
           /\ UploadNeedsUpload'
  <1>1. Types /\ \A t \in Tokens : token[t] # NULL => token[t].user \in users
    BY DEF IInv, OwnersExist
  <1>2. owners' \subseteq users'
    BY <1>1 DEF Serve, Types
  <1>3. CASE UNCHANGED token
    BY <1>1, <1>2, <1>3 DEF IInv, Types, OriginsCover, UploadNeedsUpload
  <1>4. ASSUME NEW t \in Tokens, Mint(t, want, u, origin)
        PROVE  /\ token' \in [Tokens -> TokenRow \cup {NULL}]
               /\ \A x \in Tokens : token'[x] # NULL => token'[x].user \in users'
               /\ UploadNeedsUpload'
    <2> DEFINE row == [user |-> u, origin |-> origin, left |-> TokenTtl,
                       access |-> IF want = "write_token" THEN "WRITE" ELSE "READ"]
    <2>1. /\ row \in TokenRow /\ row.user = u /\ row.origin = origin
          /\ row.access = "WRITE" => want = "write_token"
      BY AccessAssumption DEF TokenRow
    <2>2. token' = [token EXCEPT ![t] = row]
      BY <1>4 DEF Mint, mint_openweights_token
    <2> HIDE DEF row
    <2>3. row.access = "WRITE" => row.origin.upload \/ row.origin.synthetic
      BY <2>1 DEF Required
    <2>4. token'[t] = row /\ \A x \in Tokens \ {t} : token'[x] = token[x]
      BY <1>1, <2>2 DEF Types
    <2>5. token' \in [Tokens -> TokenRow \cup {NULL}]
      BY <1>1, <2>1, <2>2 DEF Types
    <2>6. \A x \in Tokens : token'[x] # NULL => token'[x].user \in users'
      BY <1>1, <2>1, <2>4
    <2>7. UploadNeedsUpload'
      BY <2>3, <2>4 DEF IInv, OriginsCover, UploadNeedsUpload
    <2> QED BY <2>5, <2>6, <2>7
  <1> QED BY <1>2, <1>3, <1>4 DEF Serve

\* A key that is accepted was revoked at most so long ago, and is the origin of
\* what is minted for it.
LEMMA AcceptKeeps ==
    ASSUME IInv, NEW want \in Wants, NEW k \in Keys, key[k] # NULL,
           key[k].revoked # NULL => key[k].revoked <= KeyCacheTtl + MaxFetch,
           Accept(k, want), UNCHANGED <<key, users>>
    PROVE  /\ token' \in [Tokens -> TokenRow \cup {NULL}]
           /\ \A t \in Tokens : token'[t] # NULL => token'[t].user \in users
           /\ owners' \subseteq users
           /\ OriginsCover'
           /\ late' \in 0 .. KeyCacheTtl + MaxFetch
  <1>1. Types /\ key[k] \in KeyRow /\ key[k].owner \in users
    BY DEF IInv, Types, OwnersExist
  <1> DEFINE origin == Origin(k)
  <1>2. /\ origin \in OriginRow
        /\ Required(want) = "upload" => origin.upload \/ origin.synthetic
    <2>1. /\ key[k].upload \in BOOLEAN
          /\ Required(want) = "upload" => key[k].kind # "console" \/ key[k].upload
      BY <1>1 DEF Accept, IInv, OriginsCover, KeyRow
    <2> QED BY <2>1 DEF Origin, OriginRow
  <1>3. Serve(want, key[k].owner, origin)
    BY DEF Accept
  <1> HIDE DEF origin
  <1>4. /\ token' \in [Tokens -> TokenRow \cup {NULL}]
        /\ \A t \in Tokens : token'[t] # NULL => token'[t].user \in users
        /\ owners' \subseteq users
        /\ UploadNeedsUpload'
    <2>1. users' = users /\ users \subseteq UserIds
      BY <1>1 DEF Types
    <2> QED BY <1>1, <1>2, <1>3, <2>1, ServeKeeps
  <1>5. OriginsCover'
    BY <1>4 DEF IInv, OriginsCover
  <1>6. key[k].revoked # NULL => key[k].revoked \in Nat
    BY <1>1 DEF KeyRow
  <1>7. late' \in 0 .. KeyCacheTtl + MaxFetch
    BY <1>1, <1>6, AccessAssumption DEF Accept, Types
  <1> QED BY <1>4, <1>5, <1>7

LEMMA BearerHitStep ==
    ASSUME IInv, NEW p \in Processes, NEW k \in Keys, NEW want \in Wants,
           BearerHit(p, k, want)
    PROVE  IInv'
  <1>1. /\ Types /\ key[k] # NULL /\ cache[p][k] \in Nat /\ cache[p][k] <= KeyCacheTtl
        /\ key[k].revoked # NULL => key[k].revoked <= cache[p][k] + MaxFetch
    BY DEF IInv, BearerHit, Fresh, AgesAgree, Types
  <1>2. key[k].revoked # NULL => key[k].revoked \in Nat
    BY <1>1 DEF Types, KeyRow
  <1>3. key[k].revoked # NULL => key[k].revoked <= KeyCacheTtl + MaxFetch
    BY <1>1, <1>2, AccessAssumption
  <1>4. /\ token' \in [Tokens -> TokenRow \cup {NULL}]
        /\ \A t \in Tokens : token'[t] # NULL => token'[t].user \in users
        /\ owners' \subseteq users /\ OriginsCover'
        /\ late' \in 0 .. KeyCacheTtl + MaxFetch
    BY <1>1, <1>3, AcceptKeeps DEF BearerHit
  <1>5. Types'
    BY <1>1, <1>4 DEF BearerHit, Types
  <1>6. OwnersExist'
    BY <1>4 DEF IInv, BearerHit, OwnersExist
  <1>7. NoncesAreSingle' /\ OneSessionPerNonce' /\ AgesAgree'
    BY DEF IInv, BearerHit, NoncesAreSingle, Spent, OneSessionPerNonce, AgesAgree
  <1> QED BY <1>4, <1>5, <1>6, <1>7 DEF IInv

LEMMA BearerMissStep ==
    ASSUME IInv, NEW r \in Requests, NEW p \in Processes, NEW k \in Keys,
           BearerMiss(r, p, k)
    PROVE  IInv'
  <1> DEFINE q == [at |-> "row", p |-> p, k |-> k, age |-> 0]
  <1>1. Types /\ request[r].at = "idle"
    BY IdleFacts DEF IInv, BearerMiss
  <1>2. q \in Stage /\ q.at = "row" /\ q.k = k /\ q.age = 0
    BY AccessAssumption DEF Stage, Loading
  <1>3. /\ cache' = [cache EXCEPT ![p][k] = NULL]
        /\ \/ Active(k) /\ Goes(r, q)
           \/ UNCHANGED request
    BY DEF BearerMiss
  <1> HIDE DEF q
  <1>4. /\ request' \in [Requests -> Stage]
        /\ \A s \in Requests \ {r} : request'[s] = request[s]
        /\ request'[r] = request[r] \/ (request'[r] = q /\ Active(k))
    BY <1>1, <1>2, <1>3, RequestGoes, RequestType
  <1>5. /\ cache' \in [Processes -> [Keys -> 0 .. KeyCacheTtl + 1 \cup {NULL}]]
        /\ \A x \in Processes, y \in Keys : cache'[x][y] # NULL => cache'[x][y] = cache[x][y]
    BY <1>1, <1>3 DEF Types
  <1>6. Types'
    BY <1>1, <1>4, <1>5 DEF BearerMiss, Types, Stage
  <1>7. OwnersExist'
    BY <1>1, <1>2, <1>4 DEF IInv, BearerMiss, OwnersExist
  <1>8. OneSessionPerNonce' /\ OriginsCover'
    BY DEF IInv, BearerMiss, OneSessionPerNonce, OriginsCover, UploadNeedsUpload
  <1>9. \A m : Spent(m)' <=> Spent(m)
    BY DEF BearerMiss, Spent
  <1>10. NoncesAreSingle'
    BY <1>1, <1>2, <1>4, <1>9 DEF IInv, BearerMiss, NoncesAreSingle
  <1>11. AgesAgree'
    BY <1>1, <1>2, <1>4, <1>5 DEF IInv, BearerMiss, Active, AgesAgree
  <1> QED BY <1>6, <1>7, <1>8, <1>10, <1>11 DEF IInv

LEMMA BearerLoadedStep ==
    ASSUME IInv, NEW r \in Requests, NEW want \in Wants, BearerLoaded(r, want)
    PROVE  IInv'
  <1> DEFINE q == request[r]
  <1>1. /\ Types /\ q.at = "row" /\ q.p \in Processes /\ q.k \in Keys
        /\ q.age \in 0 .. MaxFetch
        /\ key[q.k] # NULL
        /\ key[q.k].revoked # NULL => key[q.k].revoked <= q.age
    BY RequestType, StageFacts DEF IInv, BearerLoaded, AgesAgree
  <1>2. key[q.k].revoked # NULL => key[q.k].revoked \in Nat
    BY <1>1 DEF Types, KeyRow
  <1>3. key[q.k].revoked # NULL =>
            key[q.k].revoked <= MaxFetch /\ key[q.k].revoked <= KeyCacheTtl + MaxFetch
    BY <1>1, <1>2, AccessAssumption
  <1>4. UNCHANGED <<key, users>>
    BY DEF BearerLoaded
  <1>5. /\ token' \in [Tokens -> TokenRow \cup {NULL}]
        /\ \A t \in Tokens : token'[t] # NULL => token'[t].user \in users
        /\ owners' \subseteq users /\ OriginsCover'
        /\ late' \in 0 .. KeyCacheTtl + MaxFetch
    <2>1. CASE Accept(q.k, want)
      BY <1>1, <1>3, <1>4, <2>1, AcceptKeeps
    <2>2. CASE UNCHANGED <<owners, token, late>>
      BY <1>1, <1>4, <2>2 DEF IInv, Types, OwnersExist, OriginsCover, UploadNeedsUpload
    <2> QED BY <2>1, <2>2 DEF BearerLoaded
  <1>6. /\ cache' \in [Processes -> [Keys -> 0 .. KeyCacheTtl + 1 \cup {NULL}]]
        /\ \A x \in Processes, y \in Keys : cache'[x][y] # NULL =>
               cache'[x][y] = cache[x][y] \/ (cache'[x][y] = 0 /\ y = q.k)
    <2>1. PICK gone : cache' = [cache EXCEPT ![q.p] =
                          [y \in Keys |-> IF y = q.k THEN 0
                                          ELSE IF y \in gone THEN NULL ELSE cache[q.p][y]]]
      BY DEF BearerLoaded, Put
    <2>2. 0 \in 0 .. KeyCacheTtl + 1
      BY AccessAssumption
    <2> QED BY <1>1, <2>1, <2>2 DEF Types
  <1>7. /\ request' \in [Requests -> Stage] /\ request'[r].at = "idle"
        /\ \A s \in Requests \ {r} : request'[s] = request[s]
    BY EndKeeps DEF BearerLoaded
  <1>8. Types'
    BY <1>1, <1>5, <1>6, <1>7 DEF BearerLoaded, Types, Stage
  <1>9. OwnersExist'
    BY <1>5, <1>7 DEF IInv, BearerLoaded, OwnersExist
  <1>10. NoncesAreSingle' /\ OneSessionPerNonce'
    BY EndKeepsNonces DEF BearerLoaded
  <1>11. AgesAgree'
    <2>1. ASSUME NEW x \in Processes, NEW y \in Keys, cache'[x][y] # NULL
          PROVE  /\ key'[y] # NULL
                 /\ key'[y].revoked # NULL => key'[y].revoked <= cache'[x][y] + MaxFetch
      <3>1. CASE cache'[x][y] = cache[x][y]
        BY <1>4, <2>1, <3>1 DEF IInv, AgesAgree
      <3>2. CASE cache'[x][y] = 0 /\ y = q.k
        BY <1>1, <1>3, <1>4, <3>2, AccessAssumption
      <3> QED BY <1>6, <2>1, <3>1, <3>2
    <2>2. ASSUME NEW s \in Requests, request'[s].at = "row"
          PROVE  /\ key'[request'[s].k] # NULL
                 /\ key'[request'[s].k].revoked # NULL =>
                       key'[request'[s].k].revoked <= request'[s].age
      BY <1>4, <1>7, <2>2 DEF IInv, AgesAgree
    <2> QED BY <2>1, <2>2 DEF AgesAgree
  <1> QED BY <1>5, <1>8, <1>9, <1>10, <1>11 DEF IInv

\* A synthetic row that is inserted: nobody knew of it.
LEMMA UpsertKeeps ==
    ASSUME IInv, NEW u \in users', NEW kind \in {"own_token", "hf_token"},
           NEW up \in BOOLEAN, users \subseteq users', users' \subseteq UserIds,
           UNCHANGED key \/ upsert_synthetic_api_key(u, kind, up),
           UNCHANGED <<cache, request>>
    PROVE  /\ key' \in [Keys -> KeyRow \cup {NULL}]
           /\ \A k \in Keys : key'[k] # NULL => key'[k].owner \in users'
           /\ AgesAgree'
           /\ \A k \in Keys :
                 (key'[k] # NULL /\ key'[k].kind = "console" /\ "upload" \in key'[k].scopes)
                     => key'[k].upload
  <1>1. Types /\ \A k \in Keys : key[k] # NULL => key[k].owner \in users
    BY DEF IInv, OwnersExist
  <1>2. CASE UNCHANGED key
    BY <1>1, <1>2 DEF IInv, Types, AgesAgree, OriginsCover
  <1>3. ASSUME NEW k \in Keys, key[k] = NULL,
               key' = [key EXCEPT ![k] =
                   [owner |-> u, kind |-> kind, scopes |-> {"upload", "download"},
                    revoked |-> NULL, upload |-> up]]
        PROVE  /\ key' \in [Keys -> KeyRow \cup {NULL}]
               /\ \A x \in Keys : key'[x] # NULL => key'[x].owner \in users'
               /\ AgesAgree'
               /\ \A x \in Keys :
                     (key'[x] # NULL /\ key'[x].kind = "console"
                        /\ "upload" \in key'[x].scopes) => key'[x].upload
    <2> DEFINE row == [owner |-> u, kind |-> kind, scopes |-> {"upload", "download"},
                       revoked |-> NULL, upload |-> up]
    <2>1. /\ row \in KeyRow /\ row.owner = u /\ row.kind = kind /\ row.revoked = NULL
      BY DEF KeyRow, Kinds
    <2>2. key' = [key EXCEPT ![k] = row]
      BY <1>3
    <2> HIDE DEF row
    <2>3. key'[k] = row /\ \A x \in Keys \ {k} : key'[x] = key[x]
      BY <1>1, <2>2 DEF Types
    <2>4. key' \in [Keys -> KeyRow \cup {NULL}]
      BY <1>1, <2>1, <2>2 DEF Types
    <2>5. \A x \in Keys : key'[x] # NULL => key'[x].owner \in users'
      BY <1>1, <2>1, <2>3
    <2>6. \A r \in Requests : request[r].at = "row" => request[r].k \in Keys
      BY <1>1, RequestType, StageFacts
    <2>7. AgesAgree'
      BY <1>3, <2>3, <2>6 DEF IInv, AgesAgree
    <2>8. row.kind # "console"
      BY <2>1
    <2>9. \A x \in Keys :
              (key'[x] # NULL /\ key'[x].kind = "console" /\ "upload" \in key'[x].scopes)
                  => key'[x].upload
      BY <2>3, <2>8 DEF IInv, OriginsCover
    <2> QED BY <2>4, <2>5, <2>7, <2>9
  <1>4. UNCHANGED key \/ \E k \in Keys :
            /\ key[k] = NULL
            /\ key' = [key EXCEPT ![k] =
                   [owner |-> u, kind |-> kind, scopes |-> {"upload", "download"},
                    revoked |-> NULL, upload |-> up]]
    BY DEF upsert_synthetic_api_key
  <1> QED BY <1>2, <1>3, <1>4

LEMMA OwnTokenStep ==
    ASSUME IInv, NEW t \in Tokens, NEW want \in Wants, OwnToken(t, want)
    PROVE  IInv'
  <1> DEFINE u == token[t].user
             origin == token[t].origin
  <1>1. /\ Types /\ token[t] # NULL /\ token[t] \in TokenRow
        /\ u \in users /\ token[t].access \in {"WRITE", "READ"}
        /\ origin \in OriginRow
        /\ token[t].access = "WRITE" => origin.upload \/ origin.synthetic
    BY DEF IInv, OwnToken, Valid, Types, TokenRow, OriginsCover, UploadNeedsUpload
  <1>2. Required(want) = "upload" => token[t].access = "WRITE"
    BY <1>1 DEF OwnToken, claims_scopes
  <1>3. /\ Serve(want, u, origin) /\ Attribute(u, origin.upload)
        /\ UNCHANGED <<users, nonce, session, cache, request, late>>
    BY DEF OwnToken
  <1>4. /\ u \in users' /\ users \subseteq users' /\ users' \subseteq UserIds
        /\ origin.upload \in BOOLEAN
    BY <1>1, <1>3 DEF Types, OriginRow
  <1>5. UNCHANGED key \/ upsert_synthetic_api_key(u, "own_token", origin.upload)
    BY <1>3 DEF Attribute
  <1>6. Required(want) = "upload" => origin.upload \/ origin.synthetic
    BY <1>1, <1>2
  <1> HIDE DEF u, origin
  <1>7. /\ token' \in [Tokens -> TokenRow \cup {NULL}]
        /\ \A x \in Tokens : token'[x] # NULL => token'[x].user \in users'
        /\ owners' \subseteq users' /\ UploadNeedsUpload'
    BY <1>1, <1>3, <1>4, <1>6, ServeKeeps
  <1>8. /\ key' \in [Keys -> KeyRow \cup {NULL}]
        /\ \A k \in Keys : key'[k] # NULL => key'[k].owner \in users'
        /\ AgesAgree'
        /\ \A k \in Keys :
              (key'[k] # NULL /\ key'[k].kind = "console" /\ "upload" \in key'[k].scopes)
                  => key'[k].upload
    BY <1>3, <1>4, <1>5, UpsertKeeps
  <1>9. Types'
    BY <1>1, <1>3, <1>7, <1>8 DEF Types
  <1>10. OwnersExist'
    BY <1>3, <1>7, <1>8 DEF IInv, OwnersExist
  <1>11. NoncesAreSingle' /\ OneSessionPerNonce'
    BY <1>3 DEF IInv, NoncesAreSingle, Spent, OneSessionPerNonce
  <1>12. OriginsCover'
    BY <1>7, <1>8 DEF OriginsCover
  <1> QED BY <1>8, <1>9, <1>10, <1>11, <1>12 DEF IInv

LEMMA HfTokenStep ==
    ASSUME IInv, NEW access \in DOMAIN claims_scopes, NEW want \in Wants,
           HfToken(access, want)
    PROVE  IInv'
  <1> DEFINE up == (access = "WRITE")
             origin == [upload |-> up, synthetic |-> FALSE]
  <1>1. /\ Types /\ Guest \in users' /\ users' = users \cup {Guest}
        /\ users' \subseteq UserIds
    BY DEF IInv, HfToken, upsert_hf_user, Types, UserIds
  <1>2. /\ Serve(want, Guest, origin) /\ upsert_synthetic_api_key(Guest, "hf_token", up)
        /\ UNCHANGED <<nonce, session, cache, request, late>>
    BY DEF HfToken
  <1>3. Required(want) = "upload" => up
    BY DEF HfToken, claims_scopes
  <1>4. up \in BOOLEAN /\ origin \in OriginRow /\ origin.upload = up
    BY DEF OriginRow
  <1> HIDE DEF up, origin
  <1>5. /\ token' \in [Tokens -> TokenRow \cup {NULL}]
        /\ \A x \in Tokens : token'[x] # NULL => token'[x].user \in users'
        /\ owners' \subseteq users' /\ UploadNeedsUpload'
    BY <1>1, <1>2, <1>3, <1>4, ServeKeeps
  <1>6. /\ key' \in [Keys -> KeyRow \cup {NULL}]
        /\ \A k \in Keys : key'[k] # NULL => key'[k].owner \in users'
        /\ AgesAgree'
        /\ \A k \in Keys :
              (key'[k] # NULL /\ key'[k].kind = "console" /\ "upload" \in key'[k].scopes)
                  => key'[k].upload
    BY <1>1, <1>2, <1>4, UpsertKeeps
  <1>7. Types'
    BY <1>1, <1>2, <1>5, <1>6 DEF Types
  <1>8. OwnersExist'
    BY <1>1, <1>2, <1>5, <1>6 DEF IInv, OwnersExist
  <1>9. NoncesAreSingle' /\ OneSessionPerNonce'
    BY <1>2 DEF IInv, NoncesAreSingle, Spent, OneSessionPerNonce
  <1>10. OriginsCover'
    BY <1>5, <1>6 DEF OriginsCover
  <1> QED BY <1>6, <1>7, <1>8, <1>9, <1>10 DEF IInv

-----------------------------------------------------------------------------
(***************************************************************************)
(* Restarts and the clock.                                                 *)
(***************************************************************************)

LEMMA RestartStep ==
    ASSUME IInv, NEW p \in Processes, Restart(p)
    PROVE  IInv'
  <1>1. Types /\ request \in [Requests -> Stage]
    BY RequestType DEF IInv
  <1>2. /\ request' \in [Requests -> Stage]
        /\ \A r \in Requests : request'[r] = request[r] \/ request'[r] = Idle
    BY <1>1, IdleFacts DEF Restart
  <1>3. /\ cache' \in [Processes -> [Keys -> 0 .. KeyCacheTtl + 1 \cup {NULL}]]
        /\ \A x \in Processes, y \in Keys : cache'[x][y] # NULL => cache'[x][y] = cache[x][y]
    BY <1>1 DEF Restart, Types
  <1>4. Types'
    BY <1>1, <1>2, <1>3 DEF Restart, Types, Stage
  <1>5. OwnersExist'
    BY <1>2, IdleFacts DEF IInv, Restart, OwnersExist
  <1>6. OneSessionPerNonce' /\ OriginsCover'
    BY DEF IInv, Restart, OneSessionPerNonce, OriginsCover, UploadNeedsUpload
  <1>7. \A m : Spent(m)' <=> Spent(m)
    BY DEF Restart, Spent
  <1>8. \A r \in Requests : request'[r].at # "idle" => request'[r] = request[r]
    BY <1>2, IdleFacts
  <1>9. NoncesAreSingle'
    BY <1>7, <1>8 DEF IInv, Restart, NoncesAreSingle
  <1>10. AgesAgree'
    BY <1>3, <1>8 DEF IInv, Restart, AgesAgree
  <1> QED BY <1>4, <1>5, <1>6, <1>9, <1>10 DEF IInv

\* One unit of time on each timer.
LEMMA NonceTicks ==
    ASSUME NEW x \in NonceRow
    PROVE  LET t == [x EXCEPT !.left = Until(@, 0)] IN
           t \in NonceRow /\ t.open = x.open
  BY AccessAssumption DEF NonceRow, Until

LEMMA SessionTicks ==
    ASSUME NEW x \in SessionRow
    PROVE  LET t == [x EXCEPT !.left = Until(@, 0)] IN
           /\ t \in SessionRow /\ t.user = x.user /\ t.nonce = x.nonce
           /\ t.revoked = x.revoked /\ (x.left = 0 => t.left = 0)
  BY AccessAssumption DEF SessionRow, Until

LEMMA TokenTicks ==
    ASSUME NEW x \in TokenRow
    PROVE  LET t == [x EXCEPT !.left = Until(@, -1)] IN
           /\ t \in TokenRow /\ t.user = x.user /\ t.origin = x.origin
           /\ t.access = x.access
  BY AccessAssumption DEF TokenRow, Until

LEMMA KeyTicks ==
    ASSUME NEW x \in KeyRow
    PROVE  LET t == [x EXCEPT !.revoked = Aged(@, TooLate)] IN
           /\ t \in KeyRow /\ t.owner = x.owner /\ t.scopes = x.scopes
           /\ t.kind = x.kind /\ t.upload = x.upload
           /\ t.revoked = Aged(x.revoked, TooLate)
  BY AccessAssumption, NotNull DEF KeyRow, Aged, TooLate

LEMMA LoadingTicks ==
    ASSUME NEW x \in Loading, x.age < MaxFetch
    PROVE  LET t == [x EXCEPT !.age = @ + 1] IN
           /\ t \in Loading /\ t.at = "row" /\ t.k = x.k /\ t.age = x.age + 1
  BY AccessAssumption DEF Loading

LEMMA TickStep == IInv /\ Tick => IInv'
  <1> SUFFICES ASSUME IInv, Tick PROVE IInv'
    OBVIOUS
  <1>1. Types /\ request \in [Requests -> Stage]
    BY RequestType DEF IInv
  <1>2. /\ nonce' \in [Nonces -> NonceRow \cup {NULL}]
        /\ \A n \in Nonces : Spent(n) => Spent(n)'
    <2> DEFINE t(x) == [x EXCEPT !.left = Until(@, 0)]
    <2>1. \A x \in NonceRow : t(x) \in NonceRow /\ t(x).open = x.open /\ t(x) # NULL
      BY NonceTicks, NotNull
    <2>2. nonce' = [n \in Nonces |-> IF nonce[n] = NULL THEN NULL ELSE t(nonce[n])]
      BY DEF Tick
    <2> HIDE DEF t
    <2> QED BY <1>1, <2>1, <2>2 DEF Types, Spent
  <1>3. SameSessions
    <2> DEFINE t(x) == [x EXCEPT !.left = Until(@, 0)]
    <2>1. \A x \in SessionRow : /\ t(x) \in SessionRow /\ t(x).user = x.user
                                /\ t(x).nonce = x.nonce /\ t(x) # NULL
      BY SessionTicks, NotNull
    <2>2. session' = [s \in Sessions |-> IF session[s] = NULL THEN NULL ELSE t(session[s])]
      BY DEF Tick
    <2> HIDE DEF t
    <2> QED BY <1>1, <2>1, <2>2 DEF Types, SameSessions
  <1>4. /\ token' \in [Tokens -> TokenRow \cup {NULL}]
        /\ \A x \in Tokens : token'[x] # NULL =>
               /\ token[x] # NULL /\ token'[x].user = token[x].user
               /\ token'[x].origin = token[x].origin
               /\ token'[x].access = token[x].access
    <2> DEFINE t(x) == [x EXCEPT !.left = Until(@, -1)]
    <2>1. \A x \in TokenRow : /\ t(x) \in TokenRow /\ t(x).user = x.user
                              /\ t(x).origin = x.origin /\ t(x).access = x.access
      BY TokenTicks
    <2>2. token' = [x \in Tokens |-> IF token[x] = NULL THEN NULL ELSE t(token[x])]
      BY DEF Tick
    <2> HIDE DEF t
    <2> QED BY <1>1, <2>1, <2>2 DEF Types
  <1>5. /\ key' \in [Keys -> KeyRow \cup {NULL}]
        /\ \A k \in Keys : /\ key'[k] # NULL <=> key[k] # NULL
                           /\ key[k] # NULL =>
                                 /\ key'[k].owner = key[k].owner
                                 /\ key'[k].scopes = key[k].scopes
                                 /\ key'[k].kind = key[k].kind
                                 /\ key'[k].upload = key[k].upload
                                 /\ key'[k].revoked = Aged(key[k].revoked, TooLate)
    <2> DEFINE t(x) == [x EXCEPT !.revoked = Aged(@, TooLate)]
    <2>1. \A x \in KeyRow : /\ t(x) \in KeyRow /\ t(x).owner = x.owner
                            /\ t(x).scopes = x.scopes /\ t(x) # NULL
                            /\ t(x).kind = x.kind /\ t(x).upload = x.upload
                            /\ t(x).revoked = Aged(x.revoked, TooLate)
      BY KeyTicks, NotNull
    <2>2. key' = [k \in Keys |-> IF key[k] = NULL THEN NULL ELSE t(key[k])]
      BY DEF Tick
    <2> HIDE DEF t
    <2> QED BY <1>1, <2>1, <2>2 DEF Types
  <1>6. /\ request' \in [Requests -> Stage]
        /\ \A r \in Requests :
              /\ request[r].at # "row" => request'[r] = request[r]
              /\ request[r].at = "row" =>
                    /\ request'[r].at = "row" /\ request'[r].k = request[r].k
                    /\ request'[r].age = request[r].age + 1
    <2> DEFINE t(x) == [x EXCEPT !.age = @ + 1]
    <2>1. \A x \in Loading : x.age < MaxFetch =>
              t(x) \in Loading /\ t(x).at = "row" /\ t(x).k = x.k /\ t(x).age = x.age + 1
      BY LoadingTicks
    <2>2. request' = [r \in Requests |->
              IF request[r].at = "row" THEN t(request[r]) ELSE request[r]]
      BY DEF Tick
    <2>3. \A r \in Requests : request[r].at = "row" =>
              request[r] \in Loading /\ request[r].age < MaxFetch
      BY <1>1, StageFacts DEF Tick
    <2>4. Loading \subseteq Stage
      BY DEF Stage
    <2> HIDE DEF t
    <2> QED BY <1>1, <2>1, <2>2, <2>3, <2>4
  <1>7. /\ cache' \in [Processes -> [Keys -> 0 .. KeyCacheTtl + 1 \cup {NULL}]]
        /\ \A p \in Processes, k \in Keys :
               cache'[p][k] = Aged(cache[p][k], KeyCacheTtl + 1)
    <2>1. \A x \in 0 .. KeyCacheTtl + 1 \cup {NULL} :
              Aged(x, KeyCacheTtl + 1) \in 0 .. KeyCacheTtl + 1 \cup {NULL}
      BY AccessAssumption, NotNull DEF Aged
    <2>2. cache' = [p \in Processes |->
                       [k \in Keys |-> Aged(cache[p][k], KeyCacheTtl + 1)]]
      BY DEF Tick
    <2> QED BY <1>1, <2>1, <2>2 DEF Types
  <1>8. Types'
    BY <1>1, <1>2, <1>3, <1>4, <1>5, <1>6, <1>7 DEF Tick, Types, SameSessions, Stage
  <1>9. OwnersExist'
    <2>1. \A r \in Requests : request'[r].at # "row" => request'[r] = request[r]
      BY <1>6
    <2> QED BY <1>3, <1>4, <1>5, <2>1, SameSessionsKeep DEF IInv, Tick, OwnersExist
  <1>10. OneSessionPerNonce'
    BY <1>3, SameSessionsKeep
  <1>11. NoncesAreSingle'
    <2>1. \A r \in Requests : request'[r].at \in {"exchange", "mint"} =>
              /\ request'[r] = request[r] /\ request[r].nonce \in Nonces
              /\ request[r].at \in {"exchange", "mint"}
      BY <1>1, <1>6, StageFacts
    <2>2. \A s \in Sessions : (session'[s] # NULL /\ session'[s].nonce # NULL) =>
              /\ session[s] # NULL /\ session[s].nonce # NULL
              /\ session'[s].nonce = session[s].nonce
              /\ session'[s].nonce \in Nonces
      BY <1>3 DEF SameSessions, SessionRow
    <2>3. \A r \in Requests : request[r].at \in {"exchange", "mint"} =>
              request[r].nonce # NULL
      BY <1>1, StageFacts, NotNull
    <2> QED BY <1>2, <1>3, <2>1, <2>2, <2>3 DEF IInv, NoncesAreSingle, SameSessions
  <1>12. OriginsCover'
    BY <1>4, <1>5 DEF IInv, OriginsCover, UploadNeedsUpload
  <1>13. AgesAgree'
    <2>1. ASSUME NEW p \in Processes, NEW k \in Keys, cache'[p][k] # NULL
          PROVE  /\ key'[k] # NULL
                 /\ key'[k].revoked # NULL => key'[k].revoked <= cache'[p][k] + MaxFetch
      <3>1. /\ cache[p][k] # NULL /\ cache[p][k] \in 0 .. KeyCacheTtl + 1
            /\ cache'[p][k] = Aged(cache[p][k], KeyCacheTtl + 1)
        BY <1>1, <1>7, <2>1 DEF Types, Aged
      <3>2. /\ key[k] # NULL /\ key[k] \in KeyRow
            /\ key[k].revoked # NULL => key[k].revoked <= cache[p][k] + MaxFetch
        BY <1>1, <3>1 DEF IInv, AgesAgree, Types
      <3>3. key[k].revoked \in 0 .. TooLate \cup {NULL}
        BY <3>2 DEF KeyRow
      <3>4. key'[k] # NULL /\ key'[k].revoked = Aged(key[k].revoked, TooLate)
        BY <1>5, <3>2
      <3> QED BY <3>1, <3>2, <3>3, <3>4, AccessAssumption DEF Aged, TooLate
    <2>2. ASSUME NEW r \in Requests, request'[r].at = "row"
          PROVE  /\ key'[request'[r].k] # NULL
                 /\ key'[request'[r].k].revoked # NULL =>
                       key'[request'[r].k].revoked <= request'[r].age
      <3>1. /\ request[r].at = "row" /\ request[r].k \in Keys /\ request[r].age \in Nat
            /\ request'[r].k = request[r].k /\ request'[r].age = request[r].age + 1
        BY <1>1, <1>6, <2>2, StageFacts
      <3> DEFINE k == request[r].k
      <3>2. /\ key[k] # NULL /\ key[k] \in KeyRow
            /\ key[k].revoked # NULL => key[k].revoked <= request[r].age
        BY <1>1, <3>1 DEF IInv, AgesAgree, Types
      <3>3. key[k].revoked \in 0 .. TooLate \cup {NULL}
        BY <3>2 DEF KeyRow
      <3>4. key'[k] # NULL /\ key'[k].revoked = Aged(key[k].revoked, TooLate)
        BY <1>5, <3>1, <3>2
      <3> QED BY <3>1, <3>2, <3>3, <3>4, AccessAssumption DEF Aged, TooLate
    <2> QED BY <2>1, <2>2 DEF AgesAgree
  <1> QED BY <1>8, <1>9, <1>10, <1>11, <1>12, <1>13 DEF IInv

-----------------------------------------------------------------------------
(***************************************************************************)
(* The theorems.                                                           *)
(***************************************************************************)

LEMMA InitIInv == Init => IInv
  <1> SUFFICES ASSUME Init PROVE IInv
    OBVIOUS
  <1>1. Types
    BY AccessAssumption DEF Init, Types
  <1>2. OwnersExist /\ NoncesAreSingle /\ OneSessionPerNonce /\ AgesAgree /\ OriginsCover
    BY IdleFacts DEF Init, OwnersExist, NoncesAreSingle, OneSessionPerNonce, AgesAgree,
       OriginsCover, UploadNeedsUpload
  <1> QED BY <1>1, <1>2 DEF IInv

LEMMA NextIInv == IInv /\ [Next]_vars => IInv'
  <1> SUFFICES ASSUME IInv, [Next]_vars PROVE IInv'
    OBVIOUS
  <1>1. CASE SignIn
    BY <1>1, StartStep, CallbackStep, UpsertUserStep, AbandonStep, MintSessionStep,
       LoginStep, LogoutStep DEF SignIn
  <1>2. CASE Console
    BY <1>2, TouchSessionStep, RevokeKeyStep, CreateKeyStep DEF Console
  <1>3. CASE Bearer
    BY <1>3, BearerHitStep, BearerMissStep, BearerLoadedStep, OwnTokenStep, HfTokenStep
       DEF Bearer
  <1>4. CASE UNCHANGED vars
    BY <1>4 DEF vars, IInv, Types, OwnersExist, NoncesAreSingle, Spent,
       OneSessionPerNonce, AgesAgree, OriginsCover, UploadNeedsUpload
  <1> QED BY <1>1, <1>2, <1>3, <1>4, RestartStep, TickStep DEF Next

\* The inductive invariant: owners exist, a nonce is with one request or one
\* session, a cached key is hardly older than its revocation, and the credential a
\* token goes back to covers the token, but for the synthetic rows.
THEOREM Inductive == Spec => []IInv
  BY InitIInv, NextIInv, PTL DEF Spec

\* Whoever a session, key or token belongs to has a users row, and every timer
\* stays in its range.
THEOREM TypeCorrect == Spec => []TypeOK
  <1>1. IInv => TypeOK
    <2> SUFFICES ASSUME IInv PROVE TypeOK
      OBVIOUS
    <2>1. late \in 0 .. TooLate
      BY AccessAssumption DEF IInv, Types, TooLate
    <2> QED BY <2>1 DEF IInv, Types, OwnersExist, TypeOK
  <1> QED BY <1>1, Inductive, PTL

\* KeyCache: no process accepts a key later than KEY_CACHE_TTL and the duration
\* of one SELECT after revoke_key, for any lifetimes and any number of processes.
THEOREM RevocationFades == Spec => []RevokedKeyFades
  <1>1. IInv => RevokedKeyFades
    BY AccessAssumption DEF IInv, Types, RevokedKeyFades
  <1> QED BY <1>1, Inductive, PTL

\* consume_oauth_state: a nonce never ends in two sessions, for any number of
\* racing callbacks.
THEOREM NoncesSignInOnce == Spec => []OneSessionPerNonce
  <1>1. IInv => OneSessionPerNonce
    BY DEF IInv
  <1> QED BY <1>1, Inductive, PTL

\* xet_token and authenticate_xet_jwt: a token that may upload goes back to a
\* console key or an HF token that may, or to a synthetic row presented as a key;
\* no chain of tokens gains the right in another way.
THEOREM UploadHasAnOrigin == Spec => []UploadNeedsUpload
  <1>1. IInv => UploadNeedsUpload
    BY DEF IInv, OriginsCover
  <1> QED BY <1>1, Inductive, PTL

\* touch_session and logout: no step brings a session back.
THEOREM DeadSessionsStayDead == Spec => SessionsStayDead
  <1> DEFINE A == \A s \in Sessions : Dead(s) => Dead(s)'
  <1>1. IInv /\ [Next]_vars => [A]_vars
    <2> SUFFICES ASSUME IInv, Next, NEW s \in Sessions, Dead(s)
                 PROVE  Dead(s)'
      OBVIOUS
    <2>1. /\ Types /\ session[s] # NULL /\ session[s] \in SessionRow
          /\ session[s].revoked \/ session[s].left = 0
      BY DEF IInv, Types, Dead
    <2>2. CASE session'[s] = session[s]
      BY <2>1, <2>2 DEF Dead
    <2>3. ASSUME NEW x \in Sessions, NEW u, NEW n, Minted(x, u, n)
          PROVE  session'[s] = session[s]
      BY <2>1, <2>3 DEF Minted, Types
    <2>4. ASSUME NEW x \in Sessions, logout(x)
          PROVE  Dead(s)'
      <3>1. CASE x # s
        BY <2>1, <2>2, <2>4, <3>1 DEF logout, Types
      <3>2. CASE x = s
        <4> DEFINE t == [session[s] EXCEPT !.revoked = TRUE]
        <4>1. t \in SessionRow /\ t.revoked
          BY <2>1 DEF SessionRow
        <4>2. session' = [session EXCEPT ![s] = t]
          BY <2>4, <3>2 DEF logout
        <4> HIDE DEF t
        <4> QED BY <2>1, <4>1, <4>2, NotNull DEF Dead, Types
      <3> QED BY <3>1, <3>2
    <2>5. ASSUME NEW r \in Requests, NEW x \in Sessions, touch_session(r, x)
          PROVE  session'[s] = session[s]
      <3>1. x # s
        BY <2>1, <2>5 DEF touch_session, Live, SessionRow
      <3> QED BY <2>1, <2>5, <3>1 DEF touch_session, Types
    <2>6. CASE Tick
      <3> DEFINE t(y) == [y EXCEPT !.left = Until(@, 0)]
      <3>1. \A y \in SessionRow : /\ t(y) \in SessionRow /\ t(y).revoked = y.revoked
                                  /\ y.left = 0 => t(y).left = 0
        BY SessionTicks
      <3>2. session' = [y \in Sessions |-> IF session[y] = NULL THEN NULL ELSE t(session[y])]
        BY <2>6 DEF Tick
      <3> HIDE DEF t
      <3> QED BY <2>1, <3>1, <3>2, NotNull DEF Dead
    <2>7. CASE SignIn
      <3>1. ASSUME NEW x \in Sessions, login(x) PROVE session'[s] = session[s]
        BY <2>3, <3>1 DEF login
      <3>2. ASSUME NEW r \in Requests, NEW x \in Sessions, mint_session(r, x)
            PROVE  session'[s] = session[s]
        BY <2>3, <3>2 DEF mint_session
      <3> QED BY <2>2, <2>4, <2>7, <3>1, <3>2
              DEF SignIn, start, callback, upsert_user, Abandon
    <2>8. CASE Console
      BY <2>2, <2>5, <2>8 DEF Console, create_key, revoke_key
    <2>9. CASE Bearer
      BY <2>2, <2>9 DEF Bearer, BearerHit, BearerMiss, BearerLoaded, OwnToken, HfToken
    <2>10. CASE \E p \in Processes : Restart(p)
      BY <2>2, <2>10 DEF Restart
    <2> QED BY <2>6, <2>7, <2>8, <2>9, <2>10 DEF Next
  <1> QED BY <1>1, Inductive, PTL DEF Spec, SessionsStayDead

=============================================================================
