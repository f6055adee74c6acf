------------------------------- MODULE ApiKeys -------------------------------
(***************************************************************************)
(* The API keys of the account whose sessions Sessions describes           *)
(* (src/certify/api.py: create_api_key, revoke_api_key and the API-key     *)
(* branch of principal).  A key is stored and looked up at every request,  *)
(* so it follows the account; what was looked up is used for the rest of   *)
(* the request, while the key is revoked and the account changes.          *)
(***************************************************************************)
EXTENDS Sessions

CONSTANTS
    Keys,               \* the rows that can be in table api_keys
    Clients,            \* threads serving requests that carry a key
    RequestTime,        \* bound: ticks one such request takes
    NoKey,              \* the row does not exist
    Unused,             \* the thread serves no request
    Never               \* revoked_at is NULL

VARIABLES
    keys,               \* table api_keys: scope and revoked_at of each row
    request,            \* threads: what the lookup of principal returned
    keyUse              \* the last use of a key, as the properties see it

keyVars == <<vars, keys, request, keyUse>>

Scopes == {"read", "read_write"}
Rows == [scope : Scopes, revokedAt : {Never} \cup 0..MaxTime]

ASSUME KeyAssumption == RequestTime \in Nat /\ NoKey \notin Rows

KeyInit ==
    /\ Init
    /\ keys = [k \in Keys |-> NoKey]
    /\ request = [c \in Clients |-> Unused]
    /\ keyUse = Nothing

(* POST /api-keys by a session: the INSERT of the pending row and the      *)
(* UPDATE of its hash are one transaction.                                 *)
CreateKey(t, k, scope) ==
    /\ SessionRequest(t) /\ ~Required(t)
    /\ keys[k] = NoKey
    /\ keys' = [keys EXCEPT ![k] = [scope |-> scope, revokedAt |-> Never]]
    /\ keyUse' = Nothing
    /\ UNCHANGED request

(* UPDATE api_keys SET revoked_at=... WHERE id=? AND revoked_at IS NULL *)
Revocable(k) == keys[k] # NoKey /\ keys[k].revokedAt = Never

RevokeKey(k) ==
    /\ Revocable(k)
    /\ keys' = [keys EXCEPT ![k] = [scope |-> keys[k].scope, revokedAt |-> now]]

(* DELETE /api-keys/{id} by a session. *)
RevokeBySession(t, k) ==
    /\ SessionRequest(t) /\ ~Required(t)
    /\ RevokeKey(k)
    /\ keyUse' = Nothing
    /\ UNCHANGED request

(* Mutant: a revoked key still has its hash. *)
UsableIfEnabled(k) == keys[k] # NoKey /\ enabled

(* ... WHERE k.id=? AND k.revoked_at IS NULL AND u.active=1 *)
Usable(k) == Revocable(k) /\ enabled

(* A key with scope read is for GET, HEAD and OPTIONS. *)
Allows(key, write) == write => key.scope = "read_write"

(* principal: one SELECT finds key, account and role; the UPDATE of        *)
(* last_used_at after it changes nothing that is looked at.                *)
LookupKey(c, k, write) ==
    /\ request[c] = Unused
    /\ Usable(k)
    /\ Allows(keys[k], write)
    /\ request' = [request EXCEPT ![c] =
          [key |-> k, role |-> role, write |-> write, at |-> now]]
    /\ keyUse' = Nothing /\ answer' = Nothing
    /\ UNCHANGED <<now, account, logins, tokens, keys>>

(* The handler does its work as the principal of the lookup. *)
KeyRequest(c) ==
    /\ request[c] # Unused
    /\ keyUse' = request[c]
    /\ request' = [request EXCEPT ![c] = Unused]
    /\ answer' = Nothing
    /\ UNCHANGED <<now, account, logins, tokens, keys>>

(* DELETE /api-keys/{id} by a key: also one that was revoked meanwhile. *)
RevokeByKey(c, k) ==
    /\ request[c] # Unused /\ request[c].write
    /\ RevokeKey(k)
    /\ keyUse' = request[c]
    /\ request' = [request EXCEPT ![c] = Unused]
    /\ answer' = Nothing
    /\ UNCHANGED <<now, account, logins, tokens>>

(* Sessions, the account and the clock go on as without keys. *)
Without ==
    /\ Next
    /\ \A c \in Clients :
          request[c] # Unused => now' <= request[c].at + RequestTime
    /\ keyUse' = Nothing
    /\ UNCHANGED <<keys, request>>

KeyNext ==
    \/ Without
    \/ \E t \in tokens, k \in Keys :
          RevokeBySession(t, k) \/ \E s \in Scopes : CreateKey(t, k, s)
    \/ \E c \in Clients :
          \/ KeyRequest(c)
          \/ \E k \in Keys : RevokeByKey(c, k)
                             \/ \E w \in BOOLEAN : LookupKey(c, k, w)

KeySpec == KeyInit /\ [][KeyNext]_keyVars

-------------------------------------------------------------------------------
Uses == [key : Keys, role : Roles, write : BOOLEAN, at : 0..MaxTime]

KeyTypeOK ==
    /\ TypeOK
    /\ keys \in [Keys -> {NoKey} \cup Rows]
    /\ request \in [Clients -> {Unused} \cup Uses]
    /\ keyUse \in {Nothing} \cup Uses

(* A key follows its account: what is done with a key is done with a role  *)
(* the enabled account had, and with a key that was not revoked, no longer *)
(* ago than one request takes; and only a read_write key changes anything. *)
(* Unlike a session, no key outlives a demotion or a deactivation.         *)
KeyUseIsFresh ==
    keyUse # Nothing =>
        LET key == keys[keyUse.key] IN
        /\ now - heldAt[keyUse.role] <= RequestTime
        /\ key.revokedAt # Never => now - key.revokedAt <= RequestTime
        /\ keyUse.write => key.scope = "read_write"

===============================================================================
