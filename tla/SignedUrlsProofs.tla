--------------------------- MODULE SignedUrlsProofs ---------------------------
(***************************************************************************)
(* What a rotation leaves behind, for any number of processes, clients and *)
(* rotations and any lifetime of a URL.                                    *)
(***************************************************************************)
EXTENDS SignedUrls, TLAPS

\* The environment is between two keys, or has one only.
EnvInv == env.prev = NULL \/ env.prev = env.cur - 1

\* A CAS process mints with the current key, or still with the previous one.
MinterInv ==
    \A m \in Minters :
        minter[m] = env.cur \/ (minter[m] = env.cur - 1 /\ env.prev = env.cur - 1)

\* A gateway is up to date, or not yet restarted since the rotation, or not
\* yet restarted since PREV was cleared.
GatewayInv ==
    \A g \in Gateways :
        \/ keys[g] = env
        \/ env.prev = env.cur - 1 /\ keys[g].cur = env.cur - 1
        \/ env.prev = NULL /\ keys[g].cur = env.cur /\ keys[g].prev = env.cur - 1

\* A URL of the previous key that has not expired: either a CAS process still
\* mints such URLs, or it expires before the rotation counts as over.
UrlInv ==
    \A c \in Clients :
        (url[c] # NULL /\ url[c].left > 0) =>
            \/ url[c].key = env.cur
            \/ /\ url[c].key = env.cur - 1
               /\ env.prev = env.cur - 1
               /\ \/ \E m \in Minters : minter[m] # env.cur
                  \/ url[c].left + calm <= Ttl

IInv == TypeOK /\ EnvInv /\ MinterInv /\ GatewayInv /\ UrlInv

LEMMA EnvIsRecord ==
    ASSUME TypeOK
    PROVE  /\ env.cur \in Int /\ env.cur \in Key /\ env.prev \in Key \cup {NULL}
           /\ env = [cur |-> env.cur, prev |-> env.prev]
           /\ Loaded(env) = env
BY UrlAssumption DEF TypeOK, Key, Loaded

THEOREM InitIInv == Init => IInv
<1> SUFFICES ASSUME Init PROVE IInv
    OBVIOUS
<1>1. 1 \in Key
    BY UrlAssumption DEF Key
<1>2. TypeOK
    BY <1>1, UrlAssumption DEF Init, TypeOK, Loaded
<1>3. EnvInv /\ MinterInv /\ GatewayInv /\ UrlInv
    BY DEF Init, EnvInv, MinterInv, GatewayInv, UrlInv, Loaded
<1> QED BY <1>2, <1>3 DEF IInv

\* A rotation that is over has left no live URL of the previous key.
LEMMA RolledIsClean ==
    ASSUME IInv, Rolled, calm = Ttl
    PROVE  /\ \A m \in Minters : minter[m] = env.cur
           /\ \A g \in Gateways : keys[g] = env
           /\ \A c \in Clients : (url[c] # NULL /\ url[c].left > 0) => url[c].key = env.cur
<1>1. \A m \in Minters : minter[m] = env.cur
    BY DEF Rolled
<1>2. \A g \in Gateways : keys[g] = env
    BY EnvIsRecord DEF Rolled, IInv
<1>3. ASSUME NEW c \in Clients, url[c] # NULL, url[c].left > 0
      PROVE  url[c].key = env.cur
    <2>1. url[c].left \in Nat /\ Ttl \in Nat
        BY <1>3, UrlAssumption DEF IInv, TypeOK
    <2>2. ~(url[c].left + calm <= Ttl)
        BY <1>3, <2>1
    <2> QED BY <1>1, <1>3, <2>2 DEF IInv, UrlInv
<1> QED BY <1>1, <1>2, <1>3

LEMMA QueryKeepsIInv ==
    ASSUME IInv, NEW c \in Clients, NEW m \in Minters, Query(c, m)
    PROVE  IInv'
<1>1. minter[m] \in Key /\ Ttl \in Nat /\ Ttl > 0
    BY UrlAssumption DEF IInv, TypeOK
<1>2. mint_v1(m) \in [key : Key, left : 0 .. Ttl] /\ mint_v1(m).key = minter[m]
    BY <1>1 DEF mint_v1
<1>3. TypeOK'
    BY <1>2 DEF Query, IInv, TypeOK
<1>4. UrlInv'
    <2> SUFFICES ASSUME NEW d \in Clients, url'[d] # NULL, url'[d].left > 0
                 PROVE  \/ url'[d].key = env.cur
                        \/ /\ url'[d].key = env.cur - 1
                           /\ env.prev = env.cur - 1
                           /\ \/ \E n \in Minters : minter[n] # env.cur
                              \/ url'[d].left + calm <= Ttl
        BY DEF Query, UrlInv
    <2>1. CASE d = c
        <3>1. url'[d].key = minter[m]
            BY <1>2, <2>1 DEF Query, IInv, TypeOK
        <3>2. minter[m] = env.cur \/ (minter[m] = env.cur - 1 /\ env.prev = env.cur - 1)
            BY DEF IInv, MinterInv
        <3> QED BY <3>1, <3>2
    <2>2. CASE d # c
        BY <2>2 DEF Query, IInv, TypeOK, UrlInv
    <2> QED BY <2>1, <2>2
<1> QED BY <1>3, <1>4 DEF Query, IInv, EnvInv, MinterInv, GatewayInv

\* Fetch and Refused take a URL away.
LEMMA DroppedKeepsIInv ==
    ASSUME IInv, NEW c \in Clients, url' = [url EXCEPT ![c] = NULL],
           served' \subseteq Clients, UNCHANGED <<env, minter, keys, calm>>
    PROVE  IInv'
<1>1. TypeOK'
    BY DEF IInv, TypeOK
<1>2. UrlInv'
    BY DEF IInv, TypeOK, UrlInv
<1> QED BY <1>1, <1>2 DEF IInv, EnvInv, MinterInv, GatewayInv

LEMMA RotateKeepsIInv ==
    ASSUME IInv, Rotate
    PROVE  IInv'
<1>1. /\ env.cur \in Int /\ env.cur \in Key
      /\ env' = [cur |-> env.cur + 1, prev |-> env.cur]
      /\ env.cur < MaxKey /\ MaxKey \in Nat
      /\ UNCHANGED <<minter, keys, url, served, calm>>
    BY EnvIsRecord, UrlAssumption DEF IInv, Rotate
<1>2. env'.cur = env.cur + 1 /\ env'.prev = env.cur /\ env'.prev = env'.cur - 1
    BY <1>1
<1>3. env'.cur \in Key
    BY <1>1, <1>2 DEF Key
<1>4. TypeOK'
    BY <1>1, <1>3 DEF IInv, TypeOK, Key
<1>5. MinterInv'
    BY <1>1, <1>2, RolledIsClean DEF Rotate, MinterInv
<1>6. GatewayInv'
    BY <1>1, <1>2, RolledIsClean DEF Rotate, GatewayInv
<1>7. UrlInv'
    <2>1. PICK m \in Minters : TRUE
        BY UrlAssumption
    <2>2. minter'[m] # env'.cur
        BY <1>1, <1>2, RolledIsClean DEF Rotate
    <2>3. \A c \in Clients : (url[c] # NULL /\ url[c].left > 0) => url[c].key = env'.cur - 1
        BY <1>1, <1>2, RolledIsClean DEF Rotate
    <2> QED BY <1>1, <1>2, <2>2, <2>3 DEF UrlInv
<1> QED BY <1>2, <1>4, <1>5, <1>6, <1>7 DEF IInv, EnvInv

LEMMA ClearPrevKeepsIInv ==
    ASSUME IInv, ClearPrev
    PROVE  IInv'
<1>1. /\ env' = [cur |-> env.cur, prev |-> NULL]
      /\ env.cur \in Key /\ env.prev = env.cur - 1
      /\ UNCHANGED <<minter, keys, url, served, calm>>
    BY EnvIsRecord DEF IInv, EnvInv, ClearPrev
<1>2. env'.cur = env.cur /\ env'.prev = NULL
    BY <1>1
<1>3. TypeOK'
    BY <1>1 DEF IInv, TypeOK, Key
<1>4. MinterInv' /\ UrlInv'
    BY <1>1, <1>2, RolledIsClean DEF ClearPrev, MinterInv, UrlInv
<1>5. GatewayInv'
    BY <1>1, <1>2, RolledIsClean DEF ClearPrev, GatewayInv
<1> QED BY <1>2, <1>3, <1>4, <1>5 DEF IInv, EnvInv

LEMMA RestartMinterKeepsIInv ==
    ASSUME IInv, NEW m \in Minters, RestartMinter(m)
    PROVE  IInv'
<1>1. /\ minter' = [minter EXCEPT ![m] = env.cur] /\ calm' = 0
      /\ env.cur \in Key /\ minter \in [Minters -> Key]
      /\ UNCHANGED <<env, keys, url, served>>
    BY EnvIsRecord DEF IInv, TypeOK, RestartMinter
<1>2. TypeOK'
    BY <1>1, UrlAssumption DEF IInv, TypeOK, Key
<1>3. MinterInv'
    BY <1>1 DEF IInv, MinterInv
<1>4. UrlInv'
    <2> SUFFICES ASSUME NEW c \in Clients, url[c] # NULL, url[c].left > 0, url[c].key # env.cur
                 PROVE  url[c].key = env.cur - 1 /\ env.prev = env.cur - 1
                        /\ url[c].left + calm' <= Ttl
        BY <1>1 DEF UrlInv
    <2>1. url[c].left \in 0 .. Ttl /\ Ttl \in Nat
        BY UrlAssumption DEF IInv, TypeOK
    <2>2. url[c].left + 0 <= Ttl
        BY <2>1
    <2> QED BY <1>1, <2>2 DEF IInv, UrlInv
<1> QED BY <1>1, <1>2, <1>3, <1>4 DEF IInv, EnvInv, GatewayInv

LEMMA RestartGatewayKeepsIInv ==
    ASSUME IInv, NEW g \in Gateways, RestartGateway(g)
    PROVE  IInv'
<1>1. /\ keys' = [keys EXCEPT ![g] = env]
      /\ env \in [cur : Key, prev : Key \cup {NULL}]
      /\ keys \in [Gateways -> [cur : Key, prev : Key \cup {NULL}]]
      /\ UNCHANGED <<env, minter, url, served, calm>>
    BY EnvIsRecord DEF IInv, TypeOK, RestartGateway
<1>2. TypeOK'
    BY <1>1 DEF IInv, TypeOK, Key
<1>3. GatewayInv'
    BY <1>1 DEF IInv, GatewayInv
<1> QED BY <1>1, <1>2, <1>3 DEF IInv, EnvInv, MinterInv, UrlInv

LEMMA TickKeepsIInv ==
    ASSUME IInv, Tick
    PROVE  IInv'
<1>1. /\ calm \in 0 .. Ttl /\ Ttl \in Nat
      /\ calm' = IF calm < Ttl THEN calm + 1 ELSE calm
      /\ url \in [Clients -> [key : Key, left : 0 .. Ttl] \cup {NULL}]
      /\ UNCHANGED <<env, minter, keys, served>>
    BY UrlAssumption DEF IInv, TypeOK, Tick
<1>2. ASSUME NEW c \in Clients, url[c] # NULL, url[c].left > 0
      PROVE  /\ url'[c].key = url[c].key
             /\ url'[c].left = url[c].left - 1
             /\ url[c].left \in 1 .. Ttl
             /\ url'[c] \in [key : Key, left : 0 .. Ttl]
    <2>1. url[c] \in [key : Key, left : 0 .. Ttl]
        BY <1>1, <1>2
    <2>2. url'[c] = [url[c] EXCEPT !.left = url[c].left - 1]
        BY <1>2 DEF Tick
    <2>3. url[c].left \in 1 .. Ttl
        BY <1>1, <1>2, <2>1
    <2>4. url[c].left - 1 \in 0 .. Ttl
        BY <1>1, <2>3
    <2> QED BY <2>1, <2>2, <2>3, <2>4
<1>3. ASSUME NEW c \in Clients, ~(url[c] # NULL /\ url[c].left > 0)
      PROVE  url'[c] = url[c]
    BY <1>3 DEF Tick
<1>4. TypeOK'
    <2>1. calm' \in 0 .. Ttl
        BY <1>1
    <2>2. ASSUME NEW c \in Clients
          PROVE  url'[c] \in [key : Key, left : 0 .. Ttl] \cup {NULL}
        <3>1. CASE url[c] # NULL /\ url[c].left > 0
            BY <1>2, <3>1
        <3>2. CASE ~(url[c] # NULL /\ url[c].left > 0)
            BY <1>1, <1>3, <3>2
        <3> QED BY <3>1, <3>2
    <2>3. url' = [c \in Clients |-> url'[c]]
        BY DEF Tick
    <2>4. url' \in [Clients -> [key : Key, left : 0 .. Ttl] \cup {NULL}]
        BY <2>2, <2>3
    <2> QED BY <1>1, <2>1, <2>4 DEF IInv, TypeOK, Key
<1>5. UrlInv'
    <2> SUFFICES ASSUME NEW c \in Clients, url'[c] # NULL, url'[c].left > 0,
                        url'[c].key # env.cur
                 PROVE  /\ url'[c].key = env.cur - 1
                        /\ env.prev = env.cur - 1
                        /\ \/ \E m \in Minters : minter[m] # env.cur
                           \/ url'[c].left + calm' <= Ttl
        BY <1>1 DEF UrlInv
    <2>1. url[c] # NULL /\ url[c].left > 0
        BY <1>3
    <2>2. /\ url'[c].key = url[c].key /\ url'[c].left = url[c].left - 1
          /\ url[c].left \in 1 .. Ttl
        BY <1>2, <2>1
    <2>3. /\ url[c].key = env.cur - 1
          /\ env.prev = env.cur - 1
          /\ \/ \E m \in Minters : minter[m] # env.cur
             \/ url[c].left + calm <= Ttl
        BY <2>1, <2>2 DEF IInv, UrlInv
    <2>4. url[c].left + calm <= Ttl => url'[c].left + calm' <= Ttl
        BY <1>1, <2>2
    <2> QED BY <2>2, <2>3, <2>4
<1> QED BY <1>1, <1>4, <1>5 DEF IInv, EnvInv, MinterInv, GatewayInv

THEOREM NextIInv == IInv /\ [Next]_vars => IInv'
<1> SUFFICES ASSUME IInv, [Next]_vars PROVE IInv'
    OBVIOUS
<1>1. ASSUME NEW c \in Clients, NEW m \in Minters, Query(c, m) PROVE IInv'
    BY <1>1, QueryKeepsIInv
<1>2. ASSUME NEW c \in Clients, NEW g \in Gateways, Fetch(c, g) \/ Refused(c, g) PROVE IInv'
    <2>1. served \subseteq Clients
        BY DEF IInv, TypeOK
    <2> QED BY <1>2, <2>1, DroppedKeepsIInv DEF Fetch, Refused
<1>3. ASSUME NEW m \in Minters, RestartMinter(m) PROVE IInv'
    BY <1>3, RestartMinterKeepsIInv
<1>4. ASSUME NEW g \in Gateways, RestartGateway(g) PROVE IInv'
    BY <1>4, RestartGatewayKeepsIInv
<1>5. CASE UNCHANGED vars
    BY <1>5 DEF vars, IInv, TypeOK, Key, EnvInv, MinterInv, GatewayInv, UrlInv
<1> QED BY <1>1, <1>2, <1>3, <1>4, <1>5, RotateKeepsIInv, ClearPrevKeepsIInv, TickKeepsIInv
        DEF Next

THEOREM SpecIInv == Spec => []IInv
BY InitIInv, NextIInv, PTL DEF Spec

\* No step of the operator, the processes or the clients leaves the types.
THEOREM RotationTypeCorrect == Spec => []TypeOK
<1>1. IInv => TypeOK
    BY DEF IInv
<1> QED BY <1>1, SpecIInv, PTL

\* Only a gateway that has not been restarted since refuses a live URL.
THEOREM RotationOrphansNothingOld == Spec => []OrphanedOnlyByOldGateway
<1>1. IInv => OrphanedOnlyByOldGateway
    <2> SUFFICES ASSUME IInv, NEW c \in Clients, NEW g \in Gateways, url[c] # NULL,
                        Verify(g, url[c]) = "bad_signature"
                 PROVE  keys[g].cur < url[c].key
        BY DEF OrphanedOnlyByOldGateway
    <2>1. url[c].left # 0 /\ url[c].key # keys[g].cur /\ url[c].key # keys[g].prev
        BY DEF Verify
    <2>2. url[c].left > 0
        BY <2>1, UrlAssumption DEF IInv, TypeOK
    <2>3. env.cur \in Int
        BY EnvIsRecord DEF IInv
    <2>4. \/ url[c].key = env.cur
          \/ url[c].key = env.cur - 1 /\ env.prev = env.cur - 1
        BY <2>2 DEF IInv, UrlInv
    <2>5. \/ keys[g] = env
          \/ env.prev = env.cur - 1 /\ keys[g].cur = env.cur - 1
          \/ env.prev = NULL /\ keys[g].cur = env.cur /\ keys[g].prev = env.cur - 1
        BY DEF IInv, GatewayInv
    <2>6. keys[g].cur = env.cur - 1 /\ url[c].key = env.cur
        BY <2>1, <2>4, <2>5
    <2> QED BY <2>3, <2>6
<1> QED BY <1>1, SpecIInv, PTL

=============================================================================
