--------------------------- MODULE CertificateOrders ---------------------------
(***************************************************************************)
(* Certificate orders, the CA accounts they use, their key material and    *)
(* whom they are assigned to (src/certify/api.py, create_certificate to    *)
(* generate_key).  A handler's SELECTs run in autocommit mode and its      *)
(* write transaction opens with the first INSERT, UPDATE or DELETE, so     *)
(* another request may commit between what a handler reads and what it     *)
(* writes.  A CSR is modelled by the key it belongs to.                    *)
(***************************************************************************)
EXTENDS Naturals, Sequences, FiniteSets

CONSTANTS
    Threads,            \* threads serving the users' requests
    Users,              \* operators and administrators
    Admins,             \* the administrators
    Accounts,           \* CA accounts
    Directories,        \* their ACME directories
    Targets,            \* target systems
    ClientKeys,         \* the users' own private keys
    ServerKeys,         \* those generate_key can draw
    MaxOrders,          \* bound on the orders
    None

ASSUME OrderAssumption ==
    /\ MaxOrders \in Nat /\ Admins \subseteq Users
    /\ None \notin Accounts \cup ClientKeys \cup ServerKeys

VARIABLES
    account,            \* table ca_accounts
    orders,             \* table certificates: the rows so far
    members, assigned,  \* tables certificate_users and certificate_targets
    generated,          \* keys ec.generate_private_key has drawn
    pc, user, order,    \* a thread: its step, who asks, for which order
    body,               \* what the request says or what the thread made
    directory,          \* the directory it has read from the account
    raced               \* ghost: an account changed while orders were created

tables == <<account, orders, members, assigned>>
thread == <<pc, user, order, body, directory>>
vars == <<tables, generated, thread, raced>>

Keys == ClientKeys \cup ServerKeys
Account == [directory : Directories, enabled : BOOLEAN]
Order == [account : Accounts \cup {None}, directory : Directories, mode : {"managed", "csr"},
          key : Keys \cup {None}, csr : Keys \cup {None}, creator : Users]

Init ==
    /\ account \in [Accounts -> {a \in Account : a.enabled}]
    /\ orders = <<>>
    /\ members = {} /\ assigned = {}
    /\ generated = {}
    /\ pc = [t \in Threads |-> "idle"]
    /\ user \in [Threads -> Users]
    /\ order = [t \in Threads |-> 0]
    /\ body = [t \in Threads |-> None]
    /\ directory = [t \in Threads |-> None]
    /\ raced = FALSE

Creating == \E t \in Threads : pc[t] = "insert"
Ids == DOMAIN orders

-------------------------------------------------------------------------------
(* update_ca_account, disable_ca_account and enable_ca_account: each is    *)
(* one UPDATE.                                                             *)
ChangeAccount(a, new) ==
    /\ new # account[a]
    /\ account' = [account EXCEPT ![a] = new]
    /\ UNCHANGED <<orders, members, assigned, generated, thread>>

(* Mutant: the account may be disabled. *)
SelectAnyAccount(t, u, a, mode, csr) ==
    /\ pc[t] = "idle"
    /\ Len(orders) + Cardinality({v \in Threads : pc[v] = "insert"}) < MaxOrders
    /\ mode = "csr" => csr # None
    /\ user' = [user EXCEPT ![t] = u]
    /\ body' = [body EXCEPT ![t] = [account |-> a, mode |-> mode, csr |-> csr]]
    /\ \E d \in IF a = None THEN Directories ELSE {account[a].directory} :
          directory' = [directory EXCEPT ![t] = d]
    /\ pc' = [pc EXCEPT ![t] = "insert"]
    /\ UNCHANGED <<tables, generated, order>>

(* create_certificate: CSR mode needs a CSR (else 422); the account, if    *)
(* one is named, is enabled (else 409) and gives the directory.  Its terms *)
(* are accepted: the column cannot be NULL.                                *)
SelectAccount(t, u, a, mode, csr) ==
    /\ pc[t] = "idle"
    /\ Len(orders) + Cardinality({v \in Threads : pc[v] = "insert"}) < MaxOrders
    /\ mode = "csr" => csr # None
    /\ a # None => account[a].enabled
    /\ user' = [user EXCEPT ![t] = u]
    /\ body' = [body EXCEPT ![t] = [account |-> a, mode |-> mode, csr |-> csr]]
    /\ \E d \in IF a = None THEN Directories ELSE {account[a].directory} :
          directory' = [directory EXCEPT ![t] = d]
    /\ pc' = [pc EXCEPT ![t] = "insert"]
    /\ UNCHANGED <<tables, generated, order>>

(* Mutant: the columns of certificate_users are swapped. *)
InsertSwapped(t, ts) ==
    LET b == body[t] IN
    /\ pc[t] = "insert"
    /\ orders' = Append(orders,
          [account |-> b.account, directory |-> directory[t], mode |-> b.mode,
           key |-> None, csr |-> b.csr, creator |-> user[t]])
    /\ members' = members \cup {<<user[t], Len(orders')>>}
    /\ assigned' = assigned \cup {<<Len(orders'), x>> : x \in ts}
    /\ pc' = [pc EXCEPT ![t] = "idle"]
    /\ UNCHANGED <<account, generated, user, order, body, directory>>

(* The write transaction: the order, its creator and its targets. *)
InsertOrder(t, ts) ==
    LET b == body[t] IN
    /\ pc[t] = "insert"
    /\ orders' = Append(orders,
          [account |-> b.account, directory |-> directory[t], mode |-> b.mode,
           key |-> None, csr |-> b.csr, creator |-> user[t]])
    /\ members' = members \cup {<<Len(orders'), user[t]>>}
    /\ assigned' = assigned \cup {<<Len(orders'), x>> : x \in ts}
    /\ pc' = [pc EXCEPT ![t] = "idle"]
    /\ UNCHANGED <<account, generated, user, order, body, directory>>

-------------------------------------------------------------------------------
(* require_certificate_access (else 403). *)
Access(u, o) == u \in Admins \/ <<o, u>> \in members

(* upload_csr: the CSR is valid PEM (else 422). *)
AdmitUpload(t, u, o, k) ==
    /\ pc[t] = "idle"
    /\ Access(u, o)
    /\ user' = [user EXCEPT ![t] = u]
    /\ order' = [order EXCEPT ![t] = o]
    /\ body' = [body EXCEPT ![t] = k]
    /\ pc' = [pc EXCEPT ![t] = "upload"]
    /\ UNCHANGED <<tables, generated, directory>>

(* Mutant: an uploaded CSR leaves the generated key in place. *)
StoreCsrOnly(t) ==
    /\ pc[t] = "upload"
    /\ orders' = [orders EXCEPT ![order[t]] =
          [@ EXCEPT !.mode = "csr", !.csr = body[t]]]
    /\ pc' = [pc EXCEPT ![t] = "idle"]
    /\ UNCHANGED <<account, members, assigned, generated, user, order, body, directory>>

StoreCsr(t) ==
    /\ pc[t] = "upload"
    /\ orders' = [orders EXCEPT ![order[t]] =
          [@ EXCEPT !.mode = "csr", !.csr = body[t], !.key = None]]
    /\ pc' = [pc EXCEPT ![t] = "idle"]
    /\ UNCHANGED <<account, members, assigned, generated, user, order, body, directory>>

(* generate_key: a fresh key and a CSR for it, outside any transaction. *)
GenerateKey(t, u, o, k) ==
    /\ pc[t] = "idle"
    /\ Access(u, o)
    /\ k \in ServerKeys \ generated
    /\ generated' = generated \cup {k}
    /\ user' = [user EXCEPT ![t] = u]
    /\ order' = [order EXCEPT ![t] = o]
    /\ body' = [body EXCEPT ![t] = k]
    /\ pc' = [pc EXCEPT ![t] = "generate"]
    /\ UNCHANGED <<tables, directory>>

StoreKey(t) ==
    /\ pc[t] = "generate"
    /\ orders' = [orders EXCEPT ![order[t]] =
          [@ EXCEPT !.mode = "managed", !.key = body[t], !.csr = body[t]]]
    /\ pc' = [pc EXCEPT ![t] = "answer"]
    /\ UNCHANGED <<account, members, assigned, generated, user, order, body, directory>>

(* The audit entry is written, the CSR goes to the client. *)
AnswerCsr(t) ==
    /\ pc[t] = "answer"
    /\ pc' = [pc EXCEPT ![t] = "idle"]
    /\ UNCHANGED <<tables, generated, user, order, body, directory>>

(* The request fails before its transaction or is rolled back. *)
Fail(t) ==
    /\ pc[t] \notin {"idle", "answer"}
    /\ pc' = [pc EXCEPT ![t] = "idle"]
    /\ UNCHANGED <<tables, generated, user, order, body, directory>>

-------------------------------------------------------------------------------
(* assign_user: INSERT OR IGNORE. *)
AssignUser(o, u) ==
    /\ members' = members \cup {<<o, u>>}
    /\ UNCHANGED <<account, orders, assigned, generated, thread>>

(* assign_targets: DELETE and INSERT of all targets in one transaction;    *)
(* assign_target adds one.                                                 *)
AssignTargets(o, ts) ==
    /\ assigned' = {p \in assigned : p[1] # o} \cup {<<o, x>> : x \in ts}
    /\ UNCHANGED <<account, orders, members, generated, thread>>

AssignTarget(o, x) ==
    /\ assigned' = assigned \cup {<<o, x>>}
    /\ UNCHANGED <<account, orders, members, generated, thread>>

(* The keys for which somebody has a CSR to send. *)
Known == ClientKeys \cup generated

Step ==
    \/ \E a \in Accounts, new \in Account : ChangeAccount(a, new)
    \/ \E t \in Threads :
        \/ \E u \in Users :
            \/ \E a \in Accounts \cup {None}, mode \in {"managed", "csr"},
                  csr \in Known \cup {None} : SelectAccount(t, u, a, mode, csr)
            \/ \E o \in Ids, k \in Known : AdmitUpload(t, u, o, k)
            \/ \E o \in Ids, k \in ServerKeys : GenerateKey(t, u, o, k)
        \/ \E ts \in SUBSET Targets : InsertOrder(t, ts)
        \/ StoreCsr(t) \/ StoreKey(t) \/ AnswerCsr(t) \/ Fail(t)
    \/ \E o \in Ids :
        \/ \E u \in Users : AssignUser(o, u)
        \/ \E ts \in SUBSET Targets : AssignTargets(o, ts)
        \/ \E x \in Targets : AssignTarget(o, x)

Next == Step /\ raced' = (raced \/ (account' # account /\ Creating))

Spec == Init /\ [][Next]_vars

-------------------------------------------------------------------------------
TypeOK ==
    /\ account \in [Accounts -> Account]
    /\ orders \in Seq(Order)
    /\ members \subseteq Ids \X Users
    /\ assigned \subseteq Ids \X Targets
    /\ generated \subseteq ServerKeys
    /\ pc \in [Threads -> {"idle", "insert", "upload", "generate", "answer"}]
    /\ user \in [Threads -> Users]
    /\ order \in [Threads -> {0} \cup Ids]
    /\ directory \in [Threads -> Directories \cup {None}]
    /\ raced \in BOOLEAN

(* docs/architecture.md: an order is either managed or CSR.  However       *)
(* uploads and key generations of one order overlap, a stored private key  *)
(* belongs to the stored CSR, and an order in CSR mode has a CSR and no    *)
(* private key.                                                            *)
KeyMatchesCsr ==
    \A o \in Ids :
        /\ orders[o].key # None => orders[o].mode = "managed" /\ orders[o].csr = orders[o].key
        /\ orders[o].mode = "csr" => orders[o].csr # None

(* app.js, "Diese CA-Anbindung für neue Anfragen deaktivieren?": a new     *)
(* order of an account is made while that is enabled, and with the         *)
(* directory it has, unless the account changes between the check and the  *)
(* insert; enabling and moving it again at other times does no harm.       *)
Suits(o) ==
    o.account # None =>
        account[o.account] = [enabled |-> TRUE, directory |-> o.directory]
NewOrdersUseAccount ==
    [][\A o \in DOMAIN orders' \ Ids : Suits(orders'[o]) \/ raced]_vars
===============================================================================
