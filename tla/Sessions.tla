------------------------------- MODULE Sessions -------------------------------
(***************************************************************************)
(* The sessions of one account (src/certify/api.py: login, principal,      *)
(* roles, update_user; sign_token and verify_token of                      *)
(* src/certify/security.py).  A session token is signed, not stored: it    *)
(* carries the role and the password state read at login until it expires, *)
(* while administrators change the account.                                *)
(***************************************************************************)
EXTENDS Integers, FiniteSets

CONSTANTS
    Logins,             \* threads serving POST /auth/login
    Roles,
    SessionTime,        \* CERTIFY_SESSION_MINUTES, in ticks
    PasswordMaxAge,     \* CERTIFY_PASSWORD_MAX_AGE_DAYS, in ticks
    LoginTime,          \* bound: ticks one login takes (scrypt, audit lock)
    MaxTokens,          \* bound on the sessions open at once
    MaxTime,            \* bound of the clock
    Nothing             \* no request

ASSUME TimeAssumption ==
    /\ {SessionTime, PasswordMaxAge} \subseteq Nat \ {0}
    /\ {LoginTime, MaxTokens, MaxTime} \subseteq Nat

VARIABLES
    now,                \* the clock of the server
    role, enabled,      \* users.role and users.active
    changedAt,          \* users.password_changed_at
    heldAt,             \* ghost: when each role was last the enabled account's
    pc, read,           \* logins: where they are and what they read
    tokens,             \* the session tokens handed out
    answer              \* the last request answered, as the properties see it

account == <<role, enabled, changedAt, heldAt>>
logins == <<pc, read>>
vars == <<now, account, logins, tokens, answer>>

Init ==
    /\ now = 0
    /\ role \in Roles
    /\ enabled = TRUE
    /\ changedAt = 0
    /\ heldAt = [r \in Roles |-> IF r = role THEN 0 ELSE -1]
    /\ pc = [l \in Logins |-> "idle"]
    /\ read = [l \in Logins |-> [role |-> role, changedAt |-> 0, at |-> 0]]
    /\ tokens = {}
    /\ answer = Nothing

Expired(changed, t) == changed + PasswordMaxAge <= t

(* SELECT * FROM users WHERE username=? AND active=1 *)
ReadAccount(l) ==
    /\ pc[l] = "idle"
    /\ enabled
    /\ read' = [read EXCEPT ![l] = [role |-> role, changedAt |-> changedAt, at |-> now]]
    /\ pc' = [pc EXCEPT ![l] = "verify"]
    /\ answer' = Nothing
    /\ UNCHANGED <<now, account, tokens>>

(* Mutant: the age of the password is not looked at. *)
NeverRequired(row, t) ==
    [role |-> row.role, required |-> FALSE, exp |-> t + SessionTime]

(* The payload that sign_token gets at time t for the row read before. *)
TokenOf(row, t) ==
    [role     |-> row.role,
     required |-> Expired(row.changedAt, t),
     exp      |-> t + SessionTime]

(* Password and TOTP were right. *)
IssueToken(l) ==
    /\ pc[l] = "verify"
    /\ Cardinality(tokens) < MaxTokens
    /\ tokens' = tokens \cup {TokenOf(read[l], now)}
    /\ pc' = [pc EXCEPT ![l] = "idle"]
    /\ answer' = Nothing
    /\ UNCHANGED <<now, account, read>>

(* A wrong password or code, or an audit entry that cannot be written. *)
RejectLogin(l) ==
    /\ pc[l] = "verify"
    /\ pc' = [pc EXCEPT ![l] = "idle"]
    /\ answer' = Nothing
    /\ UNCHANGED <<now, account, read, tokens>>

(* Mutant: off by one at the expiry. *)
ValidOneLonger(t) == t.exp >= now - 1

(* principal, for a session token: valid up to and including its expiry    *)
(* second.  A token that demands a new password is looked at again.        *)
Valid(t) == t.exp >= now

Required(t) == t.required /\ Expired(changedAt, now)

(* A request to any other path than /users/me and its password. *)
SessionRequest(t) ==
    /\ Valid(t)
    /\ answer' = [role |-> t.role, accepted |-> ~Required(t)]
    /\ UNCHANGED <<now, account, logins, tokens>>

(* PUT /users/me/password with a fresh password. *)
ChangePassword(t) ==
    /\ Valid(t)
    /\ changedAt' = now
    /\ answer' = Nothing
    /\ UNCHANGED <<now, role, enabled, heldAt, logins, tokens>>

(* PUT /users/{id} by an administrator: role and account status. *)
UpdateUser(r, e) ==
    /\ role' = r
    /\ enabled' = e
    /\ heldAt' = IF e THEN [heldAt EXCEPT ![r] = now] ELSE heldAt
    /\ answer' = Nothing
    /\ UNCHANGED <<now, changedAt, logins, tokens>>

Tick ==
    /\ now < MaxTime
    /\ \A l \in Logins : pc[l] = "verify" => now < read[l].at + LoginTime
    /\ now' = now + 1
    /\ heldAt' = IF enabled THEN [heldAt EXCEPT ![role] = now + 1] ELSE heldAt
    /\ tokens' = {t \in tokens : t.exp >= now}     \* older ones are never valid again
    /\ answer' = Nothing
    /\ UNCHANGED <<role, enabled, changedAt, logins>>

Next ==
    \/ Tick
    \/ \E l \in Logins : ReadAccount(l) \/ IssueToken(l) \/ RejectLogin(l)
    \/ \E t \in tokens : SessionRequest(t) \/ ChangePassword(t)
    \/ \E r \in Roles, e \in BOOLEAN : UpdateUser(r, e)

Spec == Init /\ [][Next]_vars

-------------------------------------------------------------------------------
TypeOK ==
    /\ now \in 0..MaxTime
    /\ role \in Roles /\ enabled \in BOOLEAN
    /\ changedAt \in 0..MaxTime
    /\ heldAt \in [Roles -> -1..MaxTime]
    /\ pc \in [Logins -> {"idle", "verify"}]
    /\ read \in [Logins -> [role : Roles, changedAt : 0..MaxTime, at : 0..MaxTime]]
    /\ tokens \subseteq [role : Roles, required : BOOLEAN, exp : 0..(MaxTime + SessionTime)]
    /\ answer = Nothing \/ answer \in [role : Roles, accepted : BOOLEAN]

Accepted == answer # Nothing /\ answer.accepted

(* Tokens are not revoked, so a session outlives a demotion or the         *)
(* deactivation of the account; but never by more than its own lifetime    *)
(* and the time the login took.                                            *)
StaleRoleIsBounded ==
    Accepted =>
        /\ heldAt[answer.role] >= 0
        /\ now - heldAt[answer.role] <= SessionTime + LoginTime

(* A password that reaches its maximum age during a session is not noticed *)
(* by it; but no session does ordinary work with a password older than the *)
(* maximum age and a session together.                                     *)
PasswordAgeIsBounded ==
    Accepted => now - changedAt < PasswordMaxAge + SessionTime
===============================================================================
