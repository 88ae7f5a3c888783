------------------------------ MODULE SignedUrls ------------------------------
(***************************************************************************)
(* Signed URLs across a rotation of their key.  The CAS mints a URL with   *)
(* the current key of the environment it was started in; the gateway       *)
(* verifies it with the current key, then the previous one, of its own.    *)
(* The operator edits the environment and restarts the processes one by    *)
(* one, while clients hold URLs, fetch with them and, on a 403, ask the    *)
(* CAS for new ones.                                                       *)
(*                                                                         *)
(* A key is the number of the rotation that introduced it.  The fields a   *)
(* signature covers travel with the URL unchanged, so a URL is the key it  *)
(* was signed with and the time until its exp.                             *)
(***************************************************************************)
EXTENDS Integers

CONSTANTS
    Minters,    \* CAS processes
    Gateways,   \* gateway processes
    Clients,
    Ttl,        \* GATEWAY_URL_TTL_SECS
    MaxKey,     \* bound on the number of rotations
    NULL

ASSUME UrlAssumption ==
    /\ Ttl \in Nat \ {0}
    /\ MaxKey \in Nat \ {0}
    /\ Minters # {}
    /\ NULL \notin Int

VARIABLES
    env,      \* the two keys in the .env file
    minter,   \* the key each CAS process mints with
    keys,     \* the two keys of each gateway
    url,      \* the URL each client holds
    served,   \* the clients that have their bytes
    calm      \* time since the last CAS process took up a new key, up to Ttl

vars == <<env, minter, keys, url, served, calm>>

Key == 1 .. MaxKey

-----------------------------------------------------------------------------
\* Mutant of Loaded: an empty PREV is taken for a key.
LoadedUnfiltered(e) ==
    [cur |-> e.cur, prev |-> IF e.prev = NULL THEN 0 ELSE e.prev]

\* UrlSigner::new and NewUrlVerifier: an empty PREV is no key.
Loaded(e) == [cur |-> e.cur, prev |-> e.prev]

\* mint_v1 and mint_v1_multi_range: always the current key.
mint_v1(m) == [key |-> minter[m], left |-> Ttl]

\* Mutant of Verify: the previous key is not tried.
VerifyCurrentOnly(g, u) ==
    IF u.left = 0 THEN "expired"
    ELSE IF u.key = keys[g].cur THEN "ok"
    ELSE "bad_signature"

\* UrlVerifier.Verify: expiry first, then either key.
Verify(g, u) ==
    IF u.left = 0 THEN "expired"
    ELSE IF u.key \in {keys[g].cur, keys[g].prev} THEN "ok"
    ELSE "bad_signature"

\* A reconstruction query: the client gets a URL.
Query(c, m) ==
    /\ c \notin served
    /\ url[c] = NULL
    /\ url' = [url EXCEPT ![c] = mint_v1(m)]
    /\ UNCHANGED <<env, minter, keys, served, calm>>

\* ServeXorb, verified.
Fetch(c, g) ==
    /\ url[c] # NULL
    /\ Verify(g, url[c]) = "ok"
    /\ url' = [url EXCEPT ![c] = NULL]
    /\ served' = served \cup {c}
    /\ UNCHANGED <<env, minter, keys, calm>>

\* Mutant of Refused: another status than 403, on which the client does not
\* refresh.
RefusedForGood(c, g) == FALSE

\* respondVerifyErr: 403 for both reasons, on which the client refreshes.
Refused(c, g) ==
    /\ url[c] # NULL
    /\ Verify(g, url[c]) # "ok"
    /\ url' = [url EXCEPT ![c] = NULL]
    /\ UNCHANGED <<env, minter, keys, served, calm>>

\* Every process runs with the environment as it is.
Rolled ==
    /\ \A m \in Minters : minter[m] = env.cur
    /\ \A g \in Gateways : keys[g] = Loaded(env)

\* "copying CURRENT -> PREV, generating a new CURRENT", not before the last
\* rotation is over and older than the lifetime of a URL.
Rotate ==
    /\ Rolled
    /\ calm = Ttl
    /\ env.cur < MaxKey
    /\ env' = [cur |-> env.cur + 1, prev |-> env.cur]
    /\ UNCHANGED <<minter, keys, url, served, calm>>

\* "Leave empty when not rotating."
ClearPrev ==
    /\ Rolled
    /\ calm = Ttl
    /\ env.prev # NULL
    /\ env' = [env EXCEPT !.prev = NULL]
    /\ UNCHANGED <<minter, keys, url, served, calm>>

RestartMinter(m) ==
    /\ minter[m] # env.cur
    /\ minter' = [minter EXCEPT ![m] = Loaded(env).cur]
    /\ calm' = 0
    /\ UNCHANGED <<env, keys, url, served>>

RestartGateway(g) ==
    /\ keys[g] # Loaded(env)
    /\ keys' = [keys EXCEPT ![g] = Loaded(env)]
    /\ UNCHANGED <<env, minter, url, served, calm>>

Tick ==
    /\ calm' = IF calm < Ttl THEN calm + 1 ELSE calm
    /\ url' = [c \in Clients |->
           IF url[c] # NULL /\ url[c].left > 0
           THEN [url[c] EXCEPT !.left = @ - 1] ELSE url[c]]
    /\ UNCHANGED <<env, minter, keys, served>>

Init ==
    /\ env = [cur |-> 1, prev |-> NULL]
    /\ minter = [m \in Minters |-> 1]
    /\ keys = [g \in Gateways |-> Loaded([cur |-> 1, prev |-> NULL])]
    /\ url = [c \in Clients |-> NULL]
    /\ served = {}
    /\ calm = Ttl

Next ==
    \/ \E c \in Clients, m \in Minters : Query(c, m)
    \/ \E c \in Clients, g \in Gateways : Fetch(c, g) \/ Refused(c, g)
    \/ Rotate
    \/ ClearPrev
    \/ \E m \in Minters : RestartMinter(m)
    \/ \E g \in Gateways : RestartGateway(g)
    \/ Tick

Spec == Init /\ [][Next]_vars

\* The operator finishes a rotation; a client does not stop; and a client that
\* again and again holds a URL that is good does not each time leave it for two
\* hours before it uses it.
FairSpec ==
    /\ Spec
    /\ \A m \in Minters : WF_vars(RestartMinter(m))
    /\ \A g \in Gateways : WF_vars(RestartGateway(g))
    /\ \A c \in Clients :
          /\ WF_vars(\E m \in Minters : Query(c, m))
          /\ WF_vars(\E g \in Gateways : Refused(c, g))
          /\ SF_vars(\E g \in Gateways : Fetch(c, g))

-----------------------------------------------------------------------------
\* Every variable stays in its type: in particular a PREV left empty is no
\* key of the gateway.
TypeOK ==
    /\ env \in [cur : Key, prev : Key \cup {NULL}]
    /\ minter \in [Minters -> Key]
    /\ keys \in [Gateways -> [cur : Key, prev : Key \cup {NULL}]]
    /\ url \in [Clients -> [key : Key, left : 0 .. Ttl] \cup {NULL}]
    /\ served \subseteq Clients
    /\ calm \in 0 .. Ttl

\* A URL that has not expired is refused only by a gateway that was not yet
\* restarted with the key it is signed with: the previous key covers every
\* URL that is older, whatever the order of the restarts, and a rotation that
\* waits for the lifetime of a URL leaves none behind.
OrphanedOnlyByOldGateway ==
    \A c \in Clients, g \in Gateways :
        (url[c] # NULL /\ Verify(g, url[c]) = "bad_signature") => keys[g].cur < url[c].key

\* signed_url.rs: "any rotation wider than 2h guarantees no in-flight signed
\* URL is orphaned".
NoUrlIsOrphaned ==
    \A c \in Clients, g \in Gateways :
        url[c] # NULL => Verify(g, url[c]) # "bad_signature"

\* Through any number of rotations every client gets its bytes: a 403 leads to
\* a new URL, and the gateway catches up.
EveryClientServed == \A c \in Clients : <>(c \in served)

=============================================================================
