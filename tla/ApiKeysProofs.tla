----------------------------- MODULE ApiKeysProofs -----------------------------
(***************************************************************************)
(* Proofs about sessions and API keys, for any roles, logins, keys, times  *)
(* and bounds.  A token is never dated from before the account state its   *)
(* login read, and a request never from before the row its lookup read:    *)
(* the inductive invariant says how far each can be behind.                *)
(***************************************************************************)
EXTENDS ApiKeys, TLAPS

AccountInv ==
    /\ enabled => heldAt[role] = now
    /\ changedAt <= now
    /\ \A r \in Roles : heldAt[r] <= now

LoginsInv ==
    \A l \in Logins :
        /\ read[l].at <= heldAt[read[l].role]
        /\ read[l].changedAt <= changedAt
        /\ pc[l] = "verify" => now <= read[l].at + LoginTime

TokenInv(t) ==
    /\ 0 <= heldAt[t.role]
    /\ t.exp <= heldAt[t.role] + SessionTime + LoginTime
    /\ ~t.required => t.exp < changedAt + PasswordMaxAge + SessionTime

TokensInv == \A t \in tokens : TokenInv(t)

SessionsInv ==
    TypeOK /\ AccountInv /\ LoginsInv /\ TokensInv
           /\ StaleRoleIsBounded /\ PasswordAgeIsBounded

(* What a request knows of its key and its role is at most RequestTime old. *)
UseInv(u) ==
    /\ u.at <= heldAt[u.role]
    /\ now <= u.at + RequestTime
    /\ keys[u.key] \in Rows
    /\ keys[u.key].revokedAt # Never => u.at <= keys[u.key].revokedAt
    /\ u.write => keys[u.key].scope = "read_write"

KeyInv ==
    /\ SessionsInv /\ KeyTypeOK
    /\ \A c \in Clients : request[c] # Unused => UseInv(request[c])
    /\ keyUse # Nothing => UseInv(keyUse)

-------------------------------------------------------------------------------
USE DEF account, logins

(* The login has just been read or is still within its time: the token is  *)
(* not dated later than the state it was issued for allows.                *)
LEMMA IssuedTokenInv ==
    ASSUME SessionsInv, NEW l \in Logins, pc[l] = "verify"
    PROVE  /\ TokenInv(TokenOf(read[l], now))
           /\ TokenOf(read[l], now) \in
                [role : Roles, required : BOOLEAN, exp : 0..(MaxTime + SessionTime)]
<1> DEFINE T == [role : Roles, required : BOOLEAN, exp : 0..(MaxTime + SessionTime)]
<1>1. /\ read[l] \in [role : Roles, changedAt : 0..MaxTime, at : 0..MaxTime]
      /\ now \in 0..MaxTime /\ changedAt \in 0..MaxTime
      /\ heldAt[read[l].role] \in -1..MaxTime
      /\ SessionTime \in Nat /\ PasswordMaxAge \in Nat /\ LoginTime \in Nat
      /\ MaxTime \in Nat
  BY TimeAssumption DEF SessionsInv, TypeOK
<1>2. /\ read[l].at <= heldAt[read[l].role]
      /\ read[l].changedAt <= changedAt
      /\ now <= read[l].at + LoginTime
  BY DEF SessionsInv, LoginsInv
<1> DEFINE new == TokenOf(read[l], now)
<1>3. new.role = read[l].role /\ new.exp = now + SessionTime
  BY DEF TokenOf
<1>4. new.required = Expired(read[l].changedAt, now)
  BY DEF TokenOf
<1>5. ~new.required => read[l].changedAt + PasswordMaxAge > now
  <2>1. ~new.required => ~Expired(read[l].changedAt, now)
    BY <1>4
  <2>2. ~Expired(read[l].changedAt, now) => read[l].changedAt + PasswordMaxAge > now
    BY <1>1 DEF Expired
  <2> QED BY <2>1, <2>2
<1>6. TokenInv(new)
  <2> HIDE DEF new
  <2>1. heldAt[new.role] = heldAt[read[l].role]
    BY <1>3
  <2> QED BY <1>1, <1>2, <1>3, <1>5, <2>1 DEF TokenInv
<1>7. Expired(read[l].changedAt, now) \in BOOLEAN
  BY DEF Expired
<1>8. now + SessionTime \in 0..(MaxTime + SessionTime) /\ read[l].role \in Roles
  BY <1>1
<1>9. TokenOf(read[l], now) \in T
  BY <1>7, <1>8 DEF TokenOf
<1> QED BY <1>6, <1>9

(* A token that is accepted is at most as old as StaleRoleIsBounded and    *)
(* PasswordAgeIsBounded say.                                               *)
LEMMA RequestInv ==
    ASSUME SessionsInv, NEW t \in tokens, SessionRequest(t)
    PROVE  SessionsInv'
<1>1. TypeOK'
  BY DEF SessionsInv, TypeOK, SessionRequest
<1>2. (AccountInv /\ LoginsInv /\ TokensInv)'
  BY DEF SessionsInv, AccountInv, LoginsInv, TokensInv, TokenInv, SessionRequest
<1>3. /\ t \in [role : Roles, required : BOOLEAN, exp : 0..(MaxTime + SessionTime)]
      /\ now \in 0..MaxTime /\ changedAt \in 0..MaxTime
      /\ heldAt[t.role] \in -1..MaxTime
      /\ SessionTime \in Nat /\ PasswordMaxAge \in Nat /\ LoginTime \in Nat
      /\ MaxTime \in Nat
  BY TimeAssumption DEF SessionsInv, TypeOK
<1>4. TokenInv(t) /\ t.exp >= now
  BY DEF SessionsInv, TokensInv, SessionRequest, Valid
<1>5. StaleRoleIsBounded'
  BY <1>3, <1>4 DEF StaleRoleIsBounded, Accepted, SessionRequest, TokenInv
<1>6. PasswordAgeIsBounded'
  <2> SUFFICES ASSUME Accepted'
               PROVE  now' - changedAt' < PasswordMaxAge + SessionTime
    BY DEF PasswordAgeIsBounded
  <2>1. answer' = [role |-> t.role, accepted |-> ~Required(t)]
    BY DEF SessionRequest
  <2>2. ~Required(t)
    BY <2>1 DEF Accepted
  <2>3. ~t.required \/ changedAt + PasswordMaxAge > now
    BY <2>2, <1>3 DEF Required, Expired
  <2> QED BY <1>3, <1>4, <2>3 DEF SessionRequest, TokenInv
<1> QED BY <1>1, <1>2, <1>5, <1>6 DEF SessionsInv

(* Every step of the sessions, with or without keys beside them. *)
LEMMA SessionsStep ==
    ASSUME SessionsInv,
           \/ Next \/ UNCHANGED vars
           \/ answer' = Nothing /\ UNCHANGED <<now, account, logins, tokens>>
    PROVE  SessionsInv'
<1> USE TimeAssumption
<1>1. TypeOK /\ AccountInv /\ LoginsInv /\ TokensInv
  BY DEF SessionsInv
<1>2. CASE answer' = Nothing /\ UNCHANGED <<now, account, logins, tokens>>
  BY <1>2 DEF SessionsInv, TypeOK, AccountInv, LoginsInv, TokensInv, TokenInv,
              StaleRoleIsBounded, PasswordAgeIsBounded, Accepted
<1>3. CASE UNCHANGED vars
  BY <1>3 DEF vars, SessionsInv, TypeOK, AccountInv, LoginsInv, TokensInv, TokenInv,
              StaleRoleIsBounded, PasswordAgeIsBounded, Accepted
<1>4. ASSUME answer' = Nothing, (TypeOK /\ AccountInv /\ LoginsInv /\ TokensInv)'
      PROVE  SessionsInv'
  BY <1>4 DEF SessionsInv, StaleRoleIsBounded, PasswordAgeIsBounded, Accepted
<1>5. CASE Tick
  <2>1. TypeOK'
    BY <1>1, <1>5 DEF TypeOK, Tick
  <2>2. AccountInv'
    BY <1>1, <1>5 DEF TypeOK, AccountInv, Tick
  <2>3. LoginsInv'
    <3> SUFFICES ASSUME NEW l \in Logins
                 PROVE  (/\ read[l].at <= heldAt[read[l].role]
                         /\ read[l].changedAt <= changedAt
                         /\ pc[l] = "verify" => now <= read[l].at + LoginTime)'
      BY DEF LoginsInv
    <3>1. /\ read[l] \in [role : Roles, changedAt : 0..MaxTime, at : 0..MaxTime]
          /\ heldAt \in [Roles -> -1..MaxTime] /\ now \in 0..MaxTime
          /\ read[l].at <= heldAt[read[l].role]
          /\ read[l].changedAt <= changedAt
          /\ heldAt[read[l].role] <= now /\ role \in Roles
      BY <1>1 DEF TypeOK, LoginsInv, AccountInv
    <3>2. heldAt'[read[l].role] >= heldAt[read[l].role]
      BY <3>1, <1>5 DEF Tick
    <3>3. heldAt'[read[l].role] \in Int
      BY <3>1, <1>5 DEF Tick
    <3> QED BY <3>1, <3>2, <3>3, <1>5 DEF Tick
  <2>4. TokensInv'
    <3> SUFFICES ASSUME NEW t \in tokens'
                 PROVE  TokenInv(t)'
      BY DEF TokensInv
    <3>1. /\ t \in [role : Roles, required : BOOLEAN, exp : 0..(MaxTime + SessionTime)]
          /\ heldAt \in [Roles -> -1..MaxTime] /\ now \in 0..MaxTime
          /\ heldAt[t.role] <= now /\ role \in Roles
          /\ TokenInv(t) /\ changedAt \in 0..MaxTime
      BY <1>1, <1>5 DEF TypeOK, TokensInv, AccountInv, Tick
    <3>2. heldAt'[t.role] >= heldAt[t.role] /\ heldAt'[t.role] \in Int
      BY <3>1, <1>5 DEF Tick
    <3> QED BY <3>1, <3>2, <1>5 DEF Tick, TokenInv
  <2> QED BY <2>1, <2>2, <2>3, <2>4, <1>4, <1>5 DEF Tick
<1>6. ASSUME NEW l \in Logins, ReadAccount(l)
      PROVE  SessionsInv'
  <2>1. TypeOK'
    BY <1>1, <1>6 DEF TypeOK, ReadAccount
  <2>2. (AccountInv /\ TokensInv)'
    BY <1>1, <1>6 DEF AccountInv, TokensInv, TokenInv, ReadAccount
  <2>3. LoginsInv'
    BY <1>1, <1>6 DEF TypeOK, LoginsInv, AccountInv, ReadAccount
  <2> QED BY <2>1, <2>2, <2>3, <1>4, <1>6 DEF ReadAccount
<1>7. ASSUME NEW l \in Logins, IssueToken(l)
      PROVE  SessionsInv'
  <2> DEFINE new == TokenOf(read[l], now)
  <2>1. /\ TokenInv(new)
        /\ new \in [role : Roles, required : BOOLEAN, exp : 0..(MaxTime + SessionTime)]
    BY <1>7, IssuedTokenInv DEF IssueToken
  <2>2. tokens' = tokens \cup {new} /\ answer' = Nothing
    BY <1>7 DEF IssueToken
  <2> HIDE DEF new
  <2>3. TypeOK'
    BY <1>1, <1>7, <2>1, <2>2 DEF TypeOK, IssueToken
  <2>4. AccountInv'
    BY <1>1, <1>7 DEF AccountInv, IssueToken
  <2>5. LoginsInv'
    BY <1>1, <1>7 DEF TypeOK, LoginsInv, IssueToken
  <2>6. TokensInv'
    BY <1>1, <1>7, <2>1, <2>2 DEF TokensInv, TokenInv, IssueToken
  <2> QED BY <2>2, <2>3, <2>4, <2>5, <2>6, <1>4
<1>8. ASSUME NEW l \in Logins, RejectLogin(l)
      PROVE  SessionsInv'
  <2>1. (TypeOK /\ AccountInv /\ TokensInv)'
    BY <1>1, <1>8 DEF TypeOK, AccountInv, TokensInv, TokenInv, RejectLogin
  <2>2. LoginsInv'
    BY <1>1, <1>8 DEF TypeOK, LoginsInv, RejectLogin
  <2> QED BY <2>1, <2>2, <1>4, <1>8 DEF RejectLogin
<1>9. ASSUME NEW t \in tokens, ChangePassword(t)
      PROVE  SessionsInv'
  <2>1. (TypeOK /\ AccountInv)'
    BY <1>1, <1>9 DEF TypeOK, AccountInv, ChangePassword
  <2>2. LoginsInv'
    BY <1>1, <1>9 DEF TypeOK, LoginsInv, AccountInv, ChangePassword
  <2>3. TokensInv'
    BY <1>1, <1>9 DEF TypeOK, TokensInv, TokenInv, AccountInv, ChangePassword
  <2> QED BY <2>1, <2>2, <2>3, <1>4, <1>9 DEF ChangePassword
<1>10. ASSUME NEW r \in Roles, NEW e \in BOOLEAN, UpdateUser(r, e)
       PROVE  SessionsInv'
  <2>1. TypeOK'
    BY <1>1, <1>10 DEF TypeOK, UpdateUser
  <2>2. AccountInv'
    BY <1>1, <1>10 DEF TypeOK, AccountInv, UpdateUser
  <2>3. ASSUME NEW q \in Roles
        PROVE  heldAt'[q] >= heldAt[q] /\ heldAt'[q] \in Int /\ heldAt[q] \in Int
    BY <1>1, <1>10 DEF TypeOK, AccountInv, UpdateUser
  <2>4. LoginsInv'
    BY <1>1, <1>10, <2>3 DEF TypeOK, LoginsInv, UpdateUser
  <2>5. TokensInv'
    BY <1>1, <1>10, <2>3 DEF TypeOK, TokensInv, TokenInv, UpdateUser
  <2> QED BY <2>1, <2>2, <2>4, <2>5, <1>4, <1>10 DEF UpdateUser
<1> QED BY <1>2, <1>3, <1>5, <1>6, <1>7, <1>8, <1>9, <1>10, RequestInv DEF Next

-------------------------------------------------------------------------------
(* The steps that are not the lookup leave what a request knows as it was, *)
(* or touch a key that is not its own, or revoke it.                       *)
LEMMA KeyInitInv == KeyInit => KeyInv
<1> SUFFICES ASSUME KeyInit PROVE KeyInv
  OBVIOUS
<1> USE TimeAssumption DEF KeyInit, Init
<1>1. TypeOK
  BY DEF TypeOK
<1>2. AccountInv /\ TokensInv
  BY DEF AccountInv, TokensInv
<1>3. LoginsInv
  BY DEF LoginsInv
<1>4. StaleRoleIsBounded /\ PasswordAgeIsBounded
  BY DEF StaleRoleIsBounded, PasswordAgeIsBounded, Accepted
<1>5. KeyTypeOK
  BY <1>1 DEF KeyTypeOK
<1> QED BY <1>1, <1>2, <1>3, <1>4, <1>5 DEF KeyInv, SessionsInv

(* Time passes, or the account changes: roles are only held later, and the *)
(* clock stays within the time of every request.                           *)
LEMMA LaterHeld ==
    ASSUME SessionsInv, Next
    PROVE  \A r \in Roles : heldAt'[r] >= heldAt[r] /\ {heldAt[r], heldAt'[r]} \subseteq Int
<1>1. TypeOK /\ AccountInv
  BY DEF SessionsInv
<1>2. /\ heldAt \in [Roles -> -1..MaxTime] /\ now \in 0..MaxTime /\ role \in Roles
      /\ \A r \in Roles : heldAt[r] <= now
  BY <1>1 DEF TypeOK, AccountInv
<1>3. CASE Tick
  BY <1>2, <1>3 DEF Tick
<1>4. CASE UNCHANGED heldAt
  BY <1>2, <1>4
<1>5. ASSUME NEW r \in Roles, NEW e \in BOOLEAN, UpdateUser(r, e)
      PROVE  \A q \in Roles : heldAt'[q] >= heldAt[q]
                              /\ {heldAt[q], heldAt'[q]} \subseteq Int
  BY <1>2, <1>5 DEF UpdateUser
<1> QED BY <1>3, <1>4, <1>5
        DEF Next, ReadAccount, IssueToken, RejectLogin, SessionRequest, ChangePassword

LEMMA KeyStep == KeyInv /\ [KeyNext]_keyVars => KeyInv'
<1> SUFFICES ASSUME KeyInv, [KeyNext]_keyVars PROVE KeyInv'
  OBVIOUS
<1> USE KeyAssumption
<1>1. SessionsInv /\ KeyTypeOK /\ TypeOK
  BY DEF KeyInv, SessionsInv
<1>2. /\ keys \in [Keys -> {NoKey} \cup Rows]
      /\ request \in [Clients -> {Unused} \cup Uses]
      /\ now \in 0..MaxTime /\ role \in Roles
      /\ heldAt \in [Roles -> -1..MaxTime]
  BY <1>1 DEF KeyTypeOK, TypeOK
<1>3. \A c \in Clients : request[c] # Unused => UseInv(request[c])
  BY DEF KeyInv
<1>4. CASE UNCHANGED keyVars
  <2>1. SessionsInv'
    BY <1>1, <1>4, SessionsStep DEF keyVars
  <2> QED BY <1>4, <2>1 DEF keyVars, vars, KeyInv, KeyTypeOK, UseInv, SessionsInv
<1>5. CASE Without
  <2>1. SessionsInv'
    BY <1>1, <1>5, SessionsStep DEF Without
  <2>2. KeyTypeOK'
    BY <1>1, <1>5, <2>1 DEF KeyTypeOK, SessionsInv, Without
  <2>3. ASSUME NEW c \in Clients, request'[c] # Unused
        PROVE  UseInv(request[c])'
    <3>1. /\ request' = request /\ keys' = keys
          /\ now' <= request[c].at + RequestTime
      BY <1>5, <2>3 DEF Without
    <3>2. UseInv(request[c]) /\ request[c] \in Uses
      BY <1>2, <1>3, <2>3, <3>1
    <3>3. heldAt'[request[c].role] >= heldAt[request[c].role]
          /\ {heldAt[request[c].role], heldAt'[request[c].role]} \subseteq Int
      BY <1>1, <1>5, <3>2, LaterHeld DEF Without, Uses
    <3>4. request[c].at <= heldAt'[request[c].role]
      BY <3>2, <3>3 DEF UseInv, Uses
    <3> QED BY <3>1, <3>2, <3>4 DEF UseInv
  <2> QED BY <2>1, <2>2, <2>3, <1>5 DEF KeyInv, Without
<1>6. ASSUME NEW t \in tokens, NEW k \in Keys, NEW s \in Scopes, CreateKey(t, k, s)
      PROVE  KeyInv'
  <2>1. SessionsInv'
    BY <1>1, <1>6, RequestInv DEF CreateKey
  <2>2. KeyTypeOK'
    BY <1>1, <1>6, <2>1 DEF KeyTypeOK, SessionsInv, CreateKey, Rows
  <2>3. ASSUME NEW c \in Clients, request'[c] # Unused
        PROVE  UseInv(request[c])'
    <3>1. /\ request' = request /\ keys[k] = NoKey
          /\ keys' = [keys EXCEPT ![k] = [scope |-> s, revokedAt |-> Never]]
          /\ UNCHANGED <<now, heldAt>>
      BY <1>6 DEF CreateKey, SessionRequest
    <3>2. UseInv(request[c]) /\ request[c] \in Uses
      BY <1>2, <1>3, <2>3, <3>1
    <3>3. request[c].key # k /\ request[c].key \in Keys
      BY <3>1, <3>2 DEF UseInv, Uses
    <3>4. keys'[request[c].key] = keys[request[c].key]
      BY <1>2, <3>1, <3>3
    <3> QED BY <3>1, <3>2, <3>4 DEF UseInv
  <2> QED BY <2>1, <2>2, <2>3, <1>6 DEF KeyInv, CreateKey
<1>7. ASSUME NEW k \in Keys, RevokeKey(k), UNCHANGED <<now, heldAt>>
      PROVE  /\ keys' \in [Keys -> {NoKey} \cup Rows]
             /\ \A u \in Uses : UseInv(u) => UseInv(u)'
  <2>1. /\ keys[k] \in Rows
        /\ keys' = [keys EXCEPT ![k] = [scope |-> keys[k].scope, revokedAt |-> now]]
    BY <1>2, <1>7 DEF RevokeKey, Revocable
  <2>2. keys' \in [Keys -> {NoKey} \cup Rows]
    BY <1>2, <2>1 DEF Rows
  <2>3. ASSUME NEW u \in Uses, UseInv(u)
        PROVE  UseInv(u)'
    <3>1. /\ u.key \in Keys /\ u.role \in Roles /\ u.at \in 0..MaxTime
          /\ u.at <= heldAt[u.role] /\ now <= u.at + RequestTime
          /\ keys[u.key] \in Rows
      BY <2>3 DEF UseInv, Uses
    <3>2. CASE u.key # k
      BY <1>2, <1>7, <2>1, <2>3, <3>1, <3>2 DEF UseInv
    <3>3. CASE u.key = k
      <4>1. keys'[u.key] = [scope |-> keys[u.key].scope, revokedAt |-> now]
        BY <1>2, <2>1, <3>1, <3>3
      <4>2. heldAt[u.role] <= now
        BY <1>1, <3>1 DEF SessionsInv, AccountInv
      <4>3. u.at <= now
        BY <1>2, <3>1, <4>2
      <4>4. keys'[u.key] \in Rows /\ keys'[u.key].scope = keys[u.key].scope
            /\ keys'[u.key].revokedAt = now
        BY <1>2, <3>1, <4>1 DEF Rows
      <4> QED BY <1>7, <2>3, <3>1, <4>3, <4>4 DEF UseInv
    <3> QED BY <3>2, <3>3
  <2> QED BY <2>2, <2>3
<1>8. ASSUME NEW t \in tokens, NEW k \in Keys, RevokeBySession(t, k)
      PROVE  KeyInv'
  <2>1. SessionsInv'
    BY <1>1, <1>8, RequestInv DEF RevokeBySession
  <2>2. UNCHANGED <<now, heldAt, request>> /\ RevokeKey(k) /\ keyUse' = Nothing
    BY <1>8 DEF RevokeBySession, SessionRequest
  <2>3. KeyTypeOK'
    BY <1>1, <1>7, <2>1, <2>2 DEF KeyTypeOK, SessionsInv
  <2>4. \A c \in Clients : request'[c] # Unused => UseInv(request[c])'
    BY <1>2, <1>3, <1>7, <2>2 DEF UseInv
  <2> QED BY <2>1, <2>2, <2>3, <2>4 DEF KeyInv
<1>9. ASSUME answer' = Nothing, UNCHANGED <<now, account, logins, tokens>>
      PROVE  SessionsInv' /\ TypeOK'
  BY <1>1, <1>9, SessionsStep DEF SessionsInv
<1>10. ASSUME NEW c \in Clients, NEW k \in Keys, NEW w \in BOOLEAN, LookupKey(c, k, w)
       PROVE  KeyInv'
  <2> DEFINE new == [key |-> k, role |-> role, write |-> w, at |-> now]
  <2>1. /\ request' = [request EXCEPT ![c] = new] /\ keyUse' = Nothing
        /\ UNCHANGED <<now, account, keys>>
        /\ SessionsInv' /\ TypeOK'
    BY <1>9, <1>10 DEF LookupKey
  <2>2. new \in Uses
    BY <1>2 DEF Uses
  <2>3. /\ keys[k] # NoKey /\ keys[k].revokedAt = Never /\ enabled
        /\ w => keys[k].scope = "read_write"
    BY <1>10 DEF LookupKey, Usable, Revocable, Allows
  <2>4. keys[k] \in Rows /\ heldAt[role] = now /\ now <= now + RequestTime
    BY <1>1, <1>2, <2>3 DEF SessionsInv, AccountInv
  <2>5. UseInv(new)
    BY <1>2, <2>3, <2>4 DEF UseInv
  <2> HIDE DEF new
  <2>6. KeyTypeOK'
    BY <1>1, <2>1, <2>2 DEF KeyTypeOK
  <2>7. \A d \in Clients : request'[d] # Unused => UseInv(request'[d])
    BY <1>2, <1>3, <2>1, <2>5
  <2>8. \A d \in Clients : request'[d] # Unused => UseInv(request[d])'
    BY <2>1, <2>7 DEF UseInv
  <2> QED BY <2>1, <2>6, <2>8 DEF KeyInv
<1>11. ASSUME NEW c \in Clients, request[c] # Unused,
              keyUse' = request[c], request' = [request EXCEPT ![c] = Unused],
              UNCHANGED <<now, heldAt>>, SessionsInv', TypeOK',
              keys' \in [Keys -> {NoKey} \cup Rows],
              \A u \in Uses : UseInv(u) => UseInv(u)'
       PROVE  KeyInv'
  <2>1. request[c] \in Uses
    BY <1>2, <1>11
  <2>2. KeyTypeOK'
    BY <1>2, <1>11, <2>1 DEF KeyTypeOK
  <2>3. \A d \in Clients : request'[d] # Unused => request'[d] = request[d]
    BY <1>2, <1>11
  <2>4. \A u \in Uses : UseInv(u) =>
          /\ u.at <= heldAt'[u.role]
          /\ now' <= u.at + RequestTime
          /\ keys'[u.key] \in Rows
          /\ keys'[u.key].revokedAt # Never => u.at <= keys'[u.key].revokedAt
          /\ u.write => keys'[u.key].scope = "read_write"
    BY <1>11 DEF UseInv
  <2>5. \A d \in Clients : request'[d] # Unused => UseInv(request[d])'
    BY <1>2, <1>3, <2>3, <2>4 DEF UseInv
  <2>6. UseInv(keyUse)'
    BY <1>3, <1>11, <2>1, <2>4 DEF UseInv
  <2> QED BY <1>11, <2>2, <2>5, <2>6 DEF KeyInv
<1>12. ASSUME NEW c \in Clients, KeyRequest(c)
       PROVE  KeyInv'
  <2>1. SessionsInv' /\ TypeOK'
    BY <1>9, <1>12 DEF KeyRequest
  <2>2. \A u \in Uses : UseInv(u) => UseInv(u)'
    BY <1>12 DEF KeyRequest, UseInv
  <2> QED BY <1>2, <1>11, <1>12, <2>1, <2>2 DEF KeyRequest
<1>13. ASSUME NEW c \in Clients, NEW k \in Keys, RevokeByKey(c, k)
       PROVE  KeyInv'
  <2>1. SessionsInv' /\ TypeOK'
    BY <1>9, <1>13 DEF RevokeByKey
  <2> QED BY <1>7, <1>11, <1>13, <2>1 DEF RevokeByKey
<1> QED BY <1>4, <1>5, <1>6, <1>8, <1>10, <1>12, <1>13 DEF KeyNext

THEOREM KeyInvariant == KeySpec => []KeyInv
BY KeyInitInv, KeyStep, PTL DEF KeySpec

(* Every variable of sessions and keys keeps its type. *)
THEOREM KeyTypeCorrect == KeySpec => []KeyTypeOK
<1>1. KeyInv => KeyTypeOK
  BY DEF KeyInv
<1> QED BY <1>1, KeyInvariant, PTL

(* A session outlives a demotion or a deactivation by no more than its     *)
(* own lifetime and the time the login took.                               *)
THEOREM StaleRoleCorrect == KeySpec => []StaleRoleIsBounded
<1>1. KeyInv => StaleRoleIsBounded
  BY DEF KeyInv, SessionsInv
<1> QED BY <1>1, KeyInvariant, PTL

(* No session works with a password older than its maximum age and one     *)
(* session together.                                                       *)
THEOREM PasswordAgeCorrect == KeySpec => []PasswordAgeIsBounded
<1>1. KeyInv => PasswordAgeIsBounded
  BY DEF KeyInv, SessionsInv
<1> QED BY <1>1, KeyInvariant, PTL

(* What is done with a key is done with a role the enabled account had,    *)
(* and with a key that was not revoked, within the time of one request.    *)
THEOREM KeyUseCorrect == KeySpec => []KeyUseIsFresh
<1>1. ASSUME KeyInv
      PROVE  KeyUseIsFresh
  <2> SUFFICES ASSUME keyUse # Nothing
               PROVE  /\ now - heldAt[keyUse.role] <= RequestTime
                      /\ keys[keyUse.key].revokedAt # Never
                            => now - keys[keyUse.key].revokedAt <= RequestTime
                      /\ keyUse.write => keys[keyUse.key].scope = "read_write"
    BY DEF KeyUseIsFresh
  <2>1. UseInv(keyUse) /\ keyUse \in Uses
    BY <1>1 DEF KeyInv, KeyTypeOK
  <2>2. /\ heldAt[keyUse.role] \in Int /\ now \in Int /\ keyUse.at \in Int
        /\ RequestTime \in Int
        /\ keys[keyUse.key].revokedAt # Never => keys[keyUse.key].revokedAt \in Int
    BY <1>1, <2>1, KeyAssumption DEF KeyInv, KeyTypeOK, TypeOK, Uses, UseInv, Rows
  <2> QED BY <2>1, <2>2 DEF UseInv
<1> QED BY <1>1, KeyInvariant, PTL
===============================================================================
