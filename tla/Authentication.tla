--------------------------- MODULE Authentication ---------------------------
(***************************************************************************)
(* The authentication of requests (services/auth_middleware): the cache of *)
(* Keycloak's public keys (keycloak_jwks.py), the permission matrix        *)
(* (role_permissions.py) and the dependency that uses both                 *)
(* (auth_middleware.py).                                                   *)
(*                                                                         *)
(* Requests are coroutines of one event loop; get() blocks the loop while  *)
(* it refreshes, under the lock.  Background refreshes are threads: they   *)
(* fetch without the lock and take it to store.  Of the keys only the time *)
(* at which Keycloak answered is kept.  Two things are assumed that the    *)
(* code does not give: a thread that waits for the lock gets it before the *)
(* loop asks for it again (threading.RLock promises no order), and a whole *)
(* fetch is bounded: httpx.get(timeout=5.0) limits its connecting, its     *)
(* writing, each of its reads and its wait for a connection, not the sum.  *)
(***************************************************************************)
EXTENDS Integers, Sequences, FiniteSetsExt

CONSTANTS
  Client, Refresher,
  KeysTtl,      \* JWKS_CACHE_TTL: 300 s
  Margin,       \* seconds before the expiry a background refresh starts: 30
  FetchTime,    \* the most a whole fetch takes: assumed
  AskedMethod, AskedPath, AskedRoles,   \* what requests ask for, and with which roles
  MaxAuthTime   \* bound

ASSUME AuthAssumption ==
  /\ {KeysTtl, Margin, FetchTime, MaxAuthTime} \subseteq Nat /\ Margin <= KeysTtl

VARIABLES
  authTime,   \* time.monotonic
  keys,       \* time of the answer in _keys; NoKeys for an empty dict
  expires,    \* _expires_at
  refresher,  \* background threads
  syncSince,  \* start of the refresh the loop is blocked in, or NotBlocked
  asked,      \* the last request of each client
  hasPool     \* whether _db_pool was created

authVars == <<authTime, keys, expires, refresher, syncSince, asked, hasPool>>
cacheVars == <<keys, expires, refresher>>

NoKeys == -1
NotBlocked == -1
Free == [at |-> "free", since |-> 0, answer |-> NoKeys]
Quiet == [at |-> "quiet"]

---------------------------------------------------------------------------
(* role_permissions.py                                                     *)
OC == "Operations_Controller"
SO == "Security_Officer"
ET == "Engineering_Team"
GO == "Governance_Officer"

(* PERMISSION_RULES: method, resource, roles.                              *)
Rules ==
  << <<"*", "advisories", {OC}>>, <<"*", "scheduler", {OC}>>, <<"GET", "digital-twin", {OC, ET}>>,
     <<"POST", "acknowledge", {SO}>>, <<"GET", "forensics", {SO}>>, <<"*", "security", {SO}>>,
     <<"POST", "rollback", {ET}>>, <<"POST", "models", {ET}>>, <<"PUT", "models", {ET}>>,
     <<"*", "mlflow", {ET}>>,
     <<"GET", "lineage", {GO}>>, <<"*", "retention", {GO}>>, <<"*", "holds", {SO, GO}>>,
     <<"GET", "audit", {SO, ET, GO}>>, <<"GET", "traceability", {ET, SO}>>,
     <<"GET", "delay-predictor", {OC, ET}>>, <<"POST", "delay-predictor", {OC, ET}>>,
     <<"GET", "maintenance", {OC, ET}>>, <<"GET", "defect-detector", {OC, ET}>> >>

(* A pattern may also match what lies below its resource.                  *)
Matches(rule, method, path) ==
  /\ rule[1] \in {"*", method}
  /\ rule[2] = path \/ <<rule[2], path>> \in {<<"models", "rollback">>, <<"retention", "holds">>}

(* get_required_roles: of the first rule that matches; without one nobody  *)
(* is permitted.                                                           *)
RequiredRoles(method, path) ==
  LET matching == {i \in DOMAIN Rules : Matches(Rules[i], method, path)}
  IN IF matching = {} THEN {} ELSE Rules[Min(matching)][3]

IsPermitted(method, path, roles) == roles \cap RequiredRoles(method, path) # {}

---------------------------------------------------------------------------
AuthInit ==
  /\ authTime = 0 /\ keys = NoKeys /\ expires = 0
  /\ refresher = [r \in Refresher |-> Free]
  /\ syncSince = NotBlocked
  /\ asked = [c \in Client |-> Quiet] /\ hasPool = FALSE

AuthTypeOK ==
  /\ authTime \in 0 .. MaxAuthTime /\ keys \in {NoKeys} \cup 0 .. authTime
  /\ expires \in 0 .. authTime + KeysTtl
  /\ \A r \in Refresher : refresher[r].at \in {"free", "sleep", "fetch", "store"}
  /\ syncSince \in {NotBlocked} \cup 0 .. authTime
  /\ \A c \in Client : asked[c].at \in {"quiet", "token", "refresh", "pool", "write", "served"}

(* Fetches end in time, and a thread does not leave a free lock.           *)
AuthTimePasses ==
  /\ authTime < MaxAuthTime /\ authTime' = authTime + 1
  /\ syncSince # NotBlocked => authTime - syncSince < FetchTime
  /\ \A r \in Refresher :
       /\ refresher[r].at = "fetch" => authTime - refresher[r].since < FetchTime
       /\ refresher[r].at = "store" => syncSince # NotBlocked
  /\ UNCHANGED <<cacheVars, syncSince, asked, hasPool>>

(* __call__, up to decode_token: a request with a token.                   *)
RequestComes(c) ==
  /\ syncSince = NotBlocked /\ asked[c].at \in {"quiet", "served"}
  /\ asked' = [asked EXCEPT ![c] = [at |-> "token"]]
  /\ UNCHANGED <<authTime, cacheVars, syncSince, hasPool>>

(* jwt.decode with the keys: 401, or the roles of the claims, what they    *)
(* permit, and on to the audit.                                            *)
Decoded(c, k, failed) ==
  \/ asked' = [asked EXCEPT ![c] = Quiet]
  \/ \E m \in AskedMethod, p \in AskedPath, rs \in AskedRoles :
       asked' = [asked EXCEPT ![c] =
         [at |-> "pool", path |-> p, roles |-> rs, permitted |-> IsPermitted(m, p, rs),
          age |-> authTime - k, failed |-> failed]]

(* get, with keys that have not expired.                                   *)
GetCached(c) ==
  /\ syncSince = NotBlocked /\ asked[c].at = "token" /\ authTime < expires
  /\ Decoded(c, keys, FALSE)
  /\ UNCHANGED <<authTime, cacheVars, syncSince, hasPool>>

(* get, with keys that have: _refresh under the lock.                      *)
GetExpired(c) ==
  /\ syncSince = NotBlocked /\ asked[c].at = "token" /\ authTime >= expires
  /\ \A r \in Refresher : refresher[r].at # "store"
  /\ syncSince' = authTime /\ asked' = [asked EXCEPT ![c].at = "refresh"]
  /\ UNCHANGED <<authTime, cacheVars, hasPool>>

ExpiryAfter_also_failure(answer) == authTime + KeysTtl

(* _refresh: what the keys and the expiry become; a fetch may raise.       *)
ExpiryAfter(answer) == IF answer = NoKeys THEN expires ELSE authTime + KeysTtl
Refreshed(answer) ==
  /\ keys' = IF answer = NoKeys THEN keys ELSE answer
  /\ expires' = ExpiryAfter(answer)

(* _schedule_background_refresh: after the synchronous refresh, and only   *)
(* after that one.                                                         *)
Scheduled(r) ==
  refresher' = [refresher EXCEPT ![r] =
    [at |-> "sleep", since |-> Max({authTime, expires' - Margin}), answer |-> NoKeys]]

RefreshReturns(c) ==
  /\ asked[c].at = "refresh"
  /\ \E answer \in {NoKeys} \cup syncSince .. authTime, r \in Refresher :
       /\ refresher[r] = Free
       /\ Refreshed(answer) /\ Scheduled(r)
       /\ IF keys' = NoKeys THEN asked' = [asked EXCEPT ![c] = Quiet]
                            ELSE Decoded(c, keys', answer = NoKeys)
  /\ syncSince' = NotBlocked
  /\ UNCHANGED <<authTime, hasPool>>

(* The background thread: it sleeps, fetches and stores.                   *)
Wakes(r) ==
  /\ refresher[r].at = "sleep" /\ authTime >= refresher[r].since
  /\ refresher' = [refresher EXCEPT ![r].at = "fetch", ![r].since = authTime]
  /\ UNCHANGED <<authTime, keys, expires, syncSince, asked, hasPool>>

Fetched(r) ==
  /\ refresher[r].at = "fetch"
  /\ \E answer \in {NoKeys} \cup refresher[r].since .. authTime :
       refresher' = [refresher EXCEPT ![r] =
         IF answer = NoKeys THEN Free ELSE [at |-> "store", since |-> @.since, answer |-> answer]]
  /\ UNCHANGED <<authTime, keys, expires, syncSince, asked, hasPool>>

Stores(r) ==
  /\ refresher[r].at = "store" /\ syncSince = NotBlocked
  /\ Refreshed(refresher[r].answer)
  /\ refresher' = [refresher EXCEPT ![r] = Free]
  /\ UNCHANGED <<authTime, syncSince, asked, hasPool>>

(* get_db_pool: coroutines that all find no pool create one each; a pool   *)
(* that cannot be had is logged, and the request goes on.                  *)
GetPool(c) ==
  /\ syncSince = NotBlocked /\ asked[c].at = "pool"
  /\ hasPool' = TRUE /\ asked' = [asked EXCEPT ![c].at = "write"]
  /\ UNCHANGED <<authTime, cacheVars, syncSince>>

(* The end of __call__: 403, or the request is let through.                *)
Answered(c) ==
  /\ asked' = [asked EXCEPT ![c] = IF @.permitted THEN [@ EXCEPT !.at = "served"] ELSE Quiet]
  /\ UNCHANGED <<authTime, cacheVars, syncSince, hasPool>>

PoolFails(c) ==
  /\ syncSince = NotBlocked /\ asked[c].at = "pool" /\ ~hasPool
  /\ Answered(c)

(* _write_auth_audit swallows what goes wrong.                             *)
WriteAuthAudit(c) == syncSince = NotBlocked /\ asked[c].at = "write" /\ Answered(c)

AuthNext ==
  \/ AuthTimePasses
  \/ \E c \in Client :
       \/ RequestComes(c) \/ GetCached(c) \/ GetExpired(c) \/ RefreshReturns(c)
       \/ GetPool(c) \/ PoolFails(c) \/ WriteAuthAudit(c)
  \/ \E r \in Refresher : Wakes(r) \/ Fetched(r) \/ Stores(r)

AuthSpec == AuthInit /\ [][AuthNext]_authVars

---------------------------------------------------------------------------
(* The actions of the test "no single role can do everything" and who may  *)
(* take them.                                                              *)
Owner == [advisories |-> OC, acknowledge |-> SO, rollback |-> ET, lineage |-> GO]

(* A request that is let through was checked with keys that Keycloak gave  *)
(* out at most a life of the cache and two fetches before, unless the      *)
(* refresh of that very request failed: also when a background refresh had *)
(* to wait for the lock, brought an older answer than the one in the cache *)
(* or failed.  And each of the critical actions is taken by its owner.     *)
ServedWithFreshKeys ==
  \A c \in Client : asked[c].at = "served" =>
    /\ asked[c].failed \/ asked[c].age <= KeysTtl + 2 * FetchTime
    /\ asked[c].path \in DOMAIN Owner => Owner[asked[c].path] \in asked[c].roles
=============================================================================
