------------------------ MODULE CertificateOrdersProofs ------------------------
(***************************************************************************)
(* Proofs about certificate orders, for any threads, users, accounts and   *)
(* keys.  A thread writes what it read or made some steps before: the      *)
(* invariant says what is still true of it (ThreadInv), and that each row  *)
(* has key and CSR together (Paired).                                      *)
(***************************************************************************)
EXTENDS CertificateOrders, SequenceTheorems, TLAPS

Modes == {"managed", "csr"}

Request == [account : Accounts \cup {None}, mode : Modes, csr : Keys \cup {None}]

Paired(row) ==
    /\ row.key # None => row.mode = "managed" /\ row.csr = row.key
    /\ row.mode = "csr" => row.csr # None

(* The account of a request under way is as it was when it was checked. *)
Current(t) ==
    body[t].account # None =>
        account[body[t].account] = [enabled |-> TRUE, directory |-> directory[t]]

ThreadInv(t) ==
    /\ pc[t] = "insert" =>
          /\ body[t] \in Request
          /\ body[t].mode = "csr" => body[t].csr # None
          /\ directory[t] \in Directories
          /\ raced \/ Current(t)
    /\ pc[t] \in {"upload", "generate"} => body[t] \in Keys /\ order[t] \in Ids

OrdersInv ==
    /\ TypeOK /\ DOMAIN body = Threads
    /\ KeyMatchesCsr /\ \A t \in Threads : ThreadInv(t)

-------------------------------------------------------------------------------
USE OrderAssumption

(* A new row is the last one, and the others stay. *)
LEMMA AppendRow ==
    ASSUME TypeOK, KeyMatchesCsr, NEW row \in Order, Paired(row),
           orders' = Append(orders, row)
    PROVE  /\ orders' \in Seq(Order)
           /\ Ids' = Ids \cup {Len(orders')} /\ Len(orders') \notin Ids
           /\ orders'[Len(orders')] = row
           /\ KeyMatchesCsr'
<1>1. orders \in Seq(Order) /\ Len(orders) \in Nat /\ Ids = 1..Len(orders)
  BY LenProperties DEF TypeOK, Ids
<1>2. /\ orders' \in Seq(Order) /\ Len(orders') = Len(orders) + 1
      /\ \A i \in 1..Len(orders) : orders'[i] = orders[i]
      /\ orders'[Len(orders) + 1] = row
  BY <1>1, AppendProperties
<1>3. Ids' = 1..(Len(orders) + 1)
  BY <1>2, LenProperties DEF Ids
<1>4. Ids' = Ids \cup {Len(orders')} /\ Len(orders') \notin Ids
  BY <1>1, <1>2, <1>3
<1>5. \A i \in Ids : orders'[i] = orders[i]
  BY <1>1, <1>2
<1>6. orders'[Len(orders')] = row
  BY <1>2
<1>7. KeyMatchesCsr'
  BY <1>4, <1>5, <1>6 DEF KeyMatchesCsr, Paired
<1> QED BY <1>2, <1>4, <1>6, <1>7

(* One row gives way to another. *)
LEMMA ReplaceRow ==
    ASSUME TypeOK, KeyMatchesCsr, NEW o \in Ids, NEW row \in Order, Paired(row),
           orders' = [orders EXCEPT ![o] = row]
    PROVE  orders' \in Seq(Order) /\ Ids' = Ids /\ KeyMatchesCsr'
<1>1. orders \in Seq(Order) /\ Len(orders) \in Nat /\ Ids = 1..Len(orders)
  BY LenProperties DEF TypeOK, Ids
<1>2. /\ orders' \in Seq(Order) /\ Len(orders') = Len(orders)
      /\ \A i \in 1..Len(orders) : orders'[i] = IF i = o THEN row ELSE orders[i]
  BY <1>1, ExceptSeq
<1>3. Ids' = Ids
  BY <1>1, <1>2, LenProperties DEF Ids
<1>4. KeyMatchesCsr'
  BY <1>1, <1>2, <1>3 DEF KeyMatchesCsr, Paired
<1> QED BY <1>2, <1>3, <1>4

(* A thread that a step of another one does not touch keeps what it knows, *)
(* if no row is lost and a change of an account is noted.                  *)
LEMMA OthersKnow ==
    ASSUME NEW t \in Threads, ThreadInv(t), Ids \subseteq Ids',
           pc'[t] = pc[t], body'[t] = body[t], order'[t] = order[t],
           directory'[t] = directory[t],
           raced' = (raced \/ (account' # account /\ Creating))
    PROVE  ThreadInv(t)'
BY DEF ThreadInv, Current, Creating

LEMMA OrdersInit == Init => OrdersInv
<1> SUFFICES ASSUME Init PROVE OrdersInv
  OBVIOUS
<1>1. orders = <<>> /\ orders \in Seq(Order) /\ Ids = {}
  BY DEF Init, Ids
<1>2. TypeOK
  BY <1>1 DEF Init, TypeOK
<1>3. KeyMatchesCsr
  BY <1>1 DEF KeyMatchesCsr
<1>4. \A t \in Threads : ThreadInv(t)
  BY DEF Init, ThreadInv
<1>5. DOMAIN body = Threads
  BY DEF Init
<1> QED BY <1>2, <1>3, <1>4, <1>5 DEF OrdersInv

-------------------------------------------------------------------------------
(* Steps that leave the threads alone: accounts and assignments. *)
LEMMA TableStep ==
    ASSUME OrdersInv, UNCHANGED <<orders, generated, thread>>,
           account' \in [Accounts -> Account], members' \subseteq Ids \X Users,
           assigned' \subseteq Ids \X Targets,
           raced' = (raced \/ (account' # account /\ Creating))
    PROVE  OrdersInv'
<1>1. Ids' = Ids /\ raced' \in BOOLEAN
  BY Zenon DEF OrdersInv, TypeOK, Ids, Creating
<1>2. TypeOK'
  BY <1>1 DEF OrdersInv, TypeOK, thread
<1>3. KeyMatchesCsr'
  BY <1>1 DEF OrdersInv, KeyMatchesCsr
<1>4. \A t \in Threads : ThreadInv(t)'
  BY <1>1, OthersKnow DEF OrdersInv, thread
<1>5. DOMAIN body' = Threads
  BY DEF OrdersInv, thread
<1> QED BY <1>2, <1>3, <1>4, <1>5 DEF OrdersInv

(* Steps of one thread that leave the tables alone. *)
LEMMA ReadStep ==
    ASSUME OrdersInv, NEW t \in Threads, UNCHANGED tables, generated' \subseteq ServerKeys,
           raced' = raced,
           pc' \in [Threads -> {"idle", "insert", "upload", "generate", "answer"}],
           user' \in [Threads -> Users], order' \in [Threads -> {0} \cup Ids],
           directory' \in [Threads -> Directories \cup {None}],
           \A v \in Threads \ {t} :
               /\ pc'[v] = pc[v] /\ body'[v] = body[v]
               /\ order'[v] = order[v] /\ directory'[v] = directory[v],
           DOMAIN body' = Threads, ThreadInv(t)'
    PROVE  OrdersInv'
<1>1. Ids' = Ids
  BY DEF tables, Ids
<1>2. TypeOK'
  BY <1>1 DEF OrdersInv, TypeOK, tables
<1>3. KeyMatchesCsr'
  BY <1>1 DEF OrdersInv, KeyMatchesCsr, tables
<1>4. raced' = (raced \/ (account' # account /\ Creating))
  BY DEF tables, OrdersInv, TypeOK
<1>5. \A v \in Threads \ {t} : ThreadInv(v)'
  BY <1>1, <1>4, OthersKnow DEF OrdersInv
<1> QED BY <1>2, <1>3, <1>5 DEF OrdersInv

(* Steps of one thread that write one row. *)
LEMMA WriteStep ==
    ASSUME OrdersInv, NEW t \in Threads, orders' \in Seq(Order), KeyMatchesCsr',
           Ids \subseteq Ids', members' \subseteq Ids' \X Users,
           assigned' \subseteq Ids' \X Targets, raced' = raced,
           pc[t] # "idle", NEW step \in {"idle", "answer"},
           pc' = [pc EXCEPT ![t] = step],
           UNCHANGED <<account, generated, user, order, body, directory>>
    PROVE  OrdersInv'
<1>1. /\ pc' \in [Threads -> {"idle", "insert", "upload", "generate", "answer"}]
      /\ pc'[t] = step /\ \A v \in Threads \ {t} : pc'[v] = pc[v]
  BY DEF OrdersInv, TypeOK
<1>2. order' \in [Threads -> {0} \cup Ids']
  BY DEF OrdersInv, TypeOK
<1>3. TypeOK'
  BY <1>1, <1>2 DEF OrdersInv, TypeOK
<1>4. raced' = (raced \/ (account' # account /\ Creating))
  BY DEF OrdersInv, TypeOK
<1>5. \A v \in Threads \ {t} : ThreadInv(v)'
  BY <1>1, <1>4, OthersKnow DEF OrdersInv
<1>6. ThreadInv(t)'
  BY <1>1 DEF ThreadInv
<1>7. DOMAIN body' = Threads
  BY DEF OrdersInv
<1> QED BY <1>3, <1>5, <1>6, <1>7 DEF OrdersInv

-------------------------------------------------------------------------------
(* What the steps of a thread make of it. *)
LEMMA ThreadStep ==
    ASSUME OrdersInv, NEW t \in Threads, Next,
           \/ \E u \in Users :
                \/ \E a \in Accounts \cup {None}, mode \in Modes,
                      csr \in Known \cup {None} : SelectAccount(t, u, a, mode, csr)
                \/ \E o \in Ids, k \in Known : AdmitUpload(t, u, o, k)
                \/ \E o \in Ids, k \in ServerKeys : GenerateKey(t, u, o, k)
           \/ \E ts \in SUBSET Targets : InsertOrder(t, ts)
           \/ StoreCsr(t) \/ StoreKey(t) \/ AnswerCsr(t) \/ Fail(t)
    PROVE  OrdersInv'
<1>1. /\ TypeOK /\ KeyMatchesCsr /\ ThreadInv(t)
      /\ account \in [Accounts -> Account] /\ orders \in Seq(Order)
      /\ members \subseteq Ids \X Users /\ assigned \subseteq Ids \X Targets
      /\ generated \subseteq ServerKeys
      /\ pc \in [Threads -> {"idle", "insert", "upload", "generate", "answer"}]
      /\ user \in [Threads -> Users] /\ order \in [Threads -> {0} \cup Ids]
      /\ directory \in [Threads -> Directories \cup {None}]
      /\ Known \subseteq Keys /\ DOMAIN body = Threads
  BY DEF OrdersInv, TypeOK, Known, Keys
<1>2. raced' = (raced \/ (account' # account /\ Creating)) /\ raced \in BOOLEAN
  BY DEF Next, OrdersInv, TypeOK
<1>3. account' = account => raced' = raced
  BY <1>2
<1>4. ASSUME NEW u \in Users, NEW a \in Accounts \cup {None}, NEW mode \in Modes,
             NEW csr \in Known \cup {None}, SelectAccount(t, u, a, mode, csr)
      PROVE  OrdersInv'
  <2> DEFINE b == [account |-> a, mode |-> mode, csr |-> csr]
  <2>1. /\ UNCHANGED <<account, orders, members, assigned, generated, order>>
        /\ user' = [user EXCEPT ![t] = u] /\ body' = [body EXCEPT ![t] = b]
        /\ pc' = [pc EXCEPT ![t] = "insert"]
        /\ mode = "csr" => csr # None
    BY <1>4 DEF SelectAccount, tables
  <2>2. PICK d \in IF a = None THEN Directories ELSE {account[a].directory} :
            directory' = [directory EXCEPT ![t] = d]
    BY <1>4 DEF SelectAccount
  <2>3. a # None => account[a] \in Account /\ account[a].enabled /\ d = account[a].directory
    BY <1>1, <1>4, <2>2 DEF SelectAccount
  <2>4. a # None => account[a] = [enabled |-> TRUE, directory |-> d]
    BY <2>3 DEF Account
  <2>5. d \in Directories
    BY <2>2, <2>3 DEF Account
  <2>6. b \in Request
    BY <1>1 DEF Request
  <2> HIDE DEF b
  <2>7. pc'[t] = "insert" /\ directory'[t] = d /\ body'[t] = b
    BY <1>1, <2>1, <2>2
  <2>8. b.account = a /\ b.mode = mode /\ b.csr = csr
    BY DEF b
  <2>9. ThreadInv(t)'
    BY <2>1, <2>4, <2>5, <2>6, <2>7, <2>8 DEF ThreadInv, Current
  <2>10. directory' \in [Threads -> Directories \cup {None}]
    BY <1>1, <2>2, <2>5
  <2>11. raced' = raced /\ UNCHANGED tables
    BY <1>3, <2>1 DEF tables
  <2>12. \A v \in Threads \ {t} :
            /\ pc'[v] = pc[v] /\ body'[v] = body[v]
            /\ order'[v] = order[v] /\ directory'[v] = directory[v]
    BY <1>1, <2>1, <2>2
  <2>13. DOMAIN body' = Threads
    BY <1>1, <2>1
  <2>14. /\ pc' \in [Threads -> {"idle", "insert", "upload", "generate", "answer"}]
         /\ user' \in [Threads -> Users] /\ order' \in [Threads -> {0} \cup Ids]
         /\ generated' \subseteq ServerKeys
    BY <1>1, <2>1
  <2> QED BY <2>9, <2>10, <2>11, <2>12, <2>13, <2>14, ReadStep
<1>5. ASSUME NEW u \in Users, NEW o \in Ids, NEW k \in Keys, NEW g \in SUBSET ServerKeys,
             NEW step \in {"upload", "generate"},
             user' = [user EXCEPT ![t] = u], order' = [order EXCEPT ![t] = o],
             body' = [body EXCEPT ![t] = k], pc' = [pc EXCEPT ![t] = step],
             generated' = g, UNCHANGED <<tables, directory>>
      PROVE  OrdersInv'
  <2>1. pc'[t] = step /\ body'[t] = k /\ order'[t] = o
    BY <1>1, <1>5
  <2>2. Ids' = Ids /\ raced' = raced
    BY <1>3, <1>5 DEF tables, Ids
  <2>3. ThreadInv(t)'
    BY <2>1, <2>2 DEF ThreadInv
  <2>4. \A v \in Threads \ {t} :
            /\ pc'[v] = pc[v] /\ body'[v] = body[v]
            /\ order'[v] = order[v] /\ directory'[v] = directory[v]
    BY <1>1, <1>5
  <2>5. DOMAIN body' = Threads
    BY <1>1, <1>5
  <2>6. /\ pc' \in [Threads -> {"idle", "insert", "upload", "generate", "answer"}]
        /\ user' \in [Threads -> Users] /\ order' \in [Threads -> {0} \cup Ids]
        /\ directory' \in [Threads -> Directories \cup {None}]
        /\ generated' \subseteq ServerKeys
    BY <1>1, <1>5
  <2> QED BY <1>5, <2>2, <2>3, <2>4, <2>5, <2>6, ReadStep
<1>6. ASSUME NEW u \in Users, NEW o \in Ids, NEW k \in Known, AdmitUpload(t, u, o, k)
      PROVE  OrdersInv'
  <2>1. /\ user' = [user EXCEPT ![t] = u] /\ order' = [order EXCEPT ![t] = o]
        /\ body' = [body EXCEPT ![t] = k] /\ pc' = [pc EXCEPT ![t] = "upload"]
        /\ generated' = generated /\ UNCHANGED <<tables, directory>>
    BY <1>6 DEF AdmitUpload
  <2> QED BY <1>1, <1>5, <2>1
<1>7. ASSUME NEW u \in Users, NEW o \in Ids, NEW k \in ServerKeys, GenerateKey(t, u, o, k)
      PROVE  OrdersInv'
  <2>1. /\ user' = [user EXCEPT ![t] = u] /\ order' = [order EXCEPT ![t] = o]
        /\ body' = [body EXCEPT ![t] = k] /\ pc' = [pc EXCEPT ![t] = "generate"]
        /\ generated' = generated \cup {k} /\ UNCHANGED <<tables, directory>>
    BY <1>7 DEF GenerateKey
  <2>2. k \in Keys /\ generated \cup {k} \in SUBSET ServerKeys
    BY <1>1 DEF Keys
  <2> QED BY <1>5, <2>1, <2>2
<1>8. ASSUME NEW ts \in SUBSET Targets, InsertOrder(t, ts)
      PROVE  OrdersInv'
  <2> DEFINE b == body[t]
             row == [account |-> b.account, directory |-> directory[t], mode |-> b.mode,
                     key |-> None, csr |-> b.csr, creator |-> user[t]]
  <2>1. /\ pc[t] = "insert" /\ orders' = Append(orders, row)
        /\ members' = members \cup {<<Len(orders'), user[t]>>}
        /\ assigned' = assigned \cup {<<Len(orders'), x>> : x \in ts}
        /\ pc' = [pc EXCEPT ![t] = "idle"]
        /\ UNCHANGED <<account, generated, user, order, body, directory>>
    BY <1>8 DEF InsertOrder
  <2>2. b \in Request /\ directory[t] \in Directories /\ (b.mode = "csr" => b.csr # None)
    BY <1>1, <2>1 DEF ThreadInv
  <2>3. row \in Order /\ Paired(row)
    <3> HIDE DEF b
    <3> QED BY <1>1, <2>2 DEF Request, Order, Paired, Modes
  <2> HIDE DEF row
  <2>4. /\ orders' \in Seq(Order) /\ KeyMatchesCsr'
        /\ Ids' = Ids \cup {Len(orders')}
    BY <1>1, <2>1, <2>3, AppendRow
  <2>5. members' \subseteq Ids' \X Users /\ assigned' \subseteq Ids' \X Targets
    <3> DEFINE n == Len(orders')
    <3>1. /\ members' = members \cup {<<n, user[t]>>}
          /\ assigned' = assigned \cup {<<n, x>> : x \in ts} /\ Ids' = Ids \cup {n}
      BY <2>1, <2>4
    <3> HIDE DEF n
    <3>2. user[t] \in Users
      BY <1>1
    <3> QED BY <1>1, <3>1, <3>2
  <2> QED BY <1>3, <2>1, <2>4, <2>5, WriteStep
<1>9. ASSUME pc[t] \in {"upload", "generate"}, NEW row \in Order, Paired(row),
             orders' = [orders EXCEPT ![order[t]] = row],
             NEW step \in {"idle", "answer"}, pc' = [pc EXCEPT ![t] = step],
             UNCHANGED <<account, members, assigned, generated, user, order, body, directory>>
      PROVE  OrdersInv'
  <2>1. order[t] \in Ids
    BY <1>1, <1>9 DEF ThreadInv
  <2>2. orders' \in Seq(Order) /\ Ids' = Ids /\ KeyMatchesCsr'
    BY <1>1, <1>9, <2>1, ReplaceRow
  <2> QED BY <1>1, <1>3, <1>9, <2>2, WriteStep
<1>10. pc[t] \in {"upload", "generate"} =>
          orders[order[t]] \in Order /\ body[t] \in Keys /\ body[t] # None
  <2>1. \A o \in Ids : orders[o] \in Order
    BY <1>1, ElementOfSeq, LenProperties DEF Ids
  <2> QED BY <1>1, <2>1 DEF ThreadInv, Keys
<1>11. CASE StoreCsr(t)
  <2> DEFINE old == orders[order[t]]
             row == [old EXCEPT !.mode = "csr", !.csr = body[t], !.key = None]
  <2>1. /\ pc[t] = "upload" /\ orders' = [orders EXCEPT ![order[t]] = row]
        /\ pc' = [pc EXCEPT ![t] = "idle"]
        /\ UNCHANGED <<account, members, assigned, generated, user, order, body, directory>>
    BY <1>11 DEF StoreCsr
  <2>2. row \in Order /\ Paired(row)
    <3>1. old \in Order /\ body[t] \in Keys /\ body[t] # None
      BY <1>10, <2>1
    <3> HIDE DEF old
    <3> QED BY <3>1 DEF Order, Paired
  <2> HIDE DEF row
  <2> QED BY <1>9, <2>1, <2>2
<1>12. CASE StoreKey(t)
  <2> DEFINE old == orders[order[t]]
             row == [old EXCEPT !.mode = "managed", !.key = body[t], !.csr = body[t]]
  <2>1. /\ pc[t] = "generate" /\ orders' = [orders EXCEPT ![order[t]] = row]
        /\ pc' = [pc EXCEPT ![t] = "answer"]
        /\ UNCHANGED <<account, members, assigned, generated, user, order, body, directory>>
    BY <1>12 DEF StoreKey
  <2>2. row \in Order /\ Paired(row)
    <3>1. old \in Order /\ body[t] \in Keys /\ body[t] # None
      BY <1>10, <2>1
    <3> HIDE DEF old
    <3> QED BY <3>1 DEF Order, Paired
  <2> HIDE DEF row
  <2> QED BY <1>9, <2>1, <2>2
<1>13. CASE AnswerCsr(t) \/ Fail(t)
  <2>1. /\ pc[t] # "idle" /\ pc' = [pc EXCEPT ![t] = "idle"]
        /\ UNCHANGED <<account, orders, members, assigned, generated,
                       user, order, body, directory>>
    BY <1>13 DEF AnswerCsr, Fail, tables
  <2>2. Ids' = Ids /\ KeyMatchesCsr' /\ raced' = raced
    BY <1>1, <1>3, <2>1 DEF Ids, KeyMatchesCsr
  <2> QED BY <1>1, <2>1, <2>2, WriteStep
<1> QED BY <1>4, <1>6, <1>7, <1>8, <1>11, <1>12, <1>13

LEMMA OrdersStep ==
    ASSUME OrdersInv, [Next]_vars
    PROVE  OrdersInv'
<1>1. /\ account \in [Accounts -> Account]
      /\ members \subseteq Ids \X Users /\ assigned \subseteq Ids \X Targets
  BY DEF OrdersInv, TypeOK
<1>2. CASE UNCHANGED vars
  <2>1. UNCHANGED <<orders, generated, thread, account, members, assigned, raced>>
    BY <1>2 DEF vars, tables
  <2>2. raced' = (raced \/ (account' # account /\ Creating))
    BY <2>1 DEF OrdersInv, TypeOK
  <2> QED BY <1>1, <2>1, <2>2, TableStep
<1>3. ASSUME Next, NEW a \in Accounts, NEW new \in Account, ChangeAccount(a, new)
      PROVE  OrdersInv'
  <2>1. /\ account' \in [Accounts -> Account]
        /\ UNCHANGED <<orders, generated, thread, members, assigned>>
    BY <1>1, <1>3 DEF ChangeAccount
  <2> QED BY <1>1, <1>3, <2>1, TableStep DEF Next
<1>4. ASSUME Next, UNCHANGED <<account, orders, generated, thread>>,
             members' \subseteq Ids \X Users, assigned' \subseteq Ids \X Targets
      PROVE  OrdersInv'
  BY <1>1, <1>4, TableStep DEF Next
<1>5. ASSUME Next, NEW o \in Ids, NEW u \in Users, AssignUser(o, u)
      PROVE  OrdersInv'
  BY <1>1, <1>4, <1>5 DEF AssignUser
<1>6. ASSUME Next, NEW o \in Ids, NEW ts \in SUBSET Targets, AssignTargets(o, ts)
      PROVE  OrdersInv'
  BY <1>1, <1>4, <1>6 DEF AssignTargets
<1>7. ASSUME Next, NEW o \in Ids, NEW x \in Targets, AssignTarget(o, x)
      PROVE  OrdersInv'
  BY <1>1, <1>4, <1>7 DEF AssignTarget
<1> QED BY <1>2, <1>3, <1>5, <1>6, <1>7, ThreadStep DEF Next, Step, Modes

THEOREM OrdersInvariant == Spec => []OrdersInv
BY OrdersInit, OrdersStep, PTL DEF Spec

(* Every variable of the certificate orders keeps its type. *)
THEOREM OrdersTypeCorrect == Spec => []TypeOK
<1>1. OrdersInv => TypeOK
  BY DEF OrdersInv
<1> QED BY <1>1, OrdersInvariant, PTL

(* However uploads and key generations of one order overlap, a stored      *)
(* private key belongs to the stored CSR, and an order in CSR mode has a   *)
(* CSR and no private key.                                                 *)
THEOREM KeyCorrect == Spec => []KeyMatchesCsr
<1>1. OrdersInv => KeyMatchesCsr
  BY DEF OrdersInv
<1> QED BY <1>1, OrdersInvariant, PTL

(* A new order of an account is made while that is enabled, with the       *)
(* directory it has, unless an account changed between a request's check   *)
(* and its insert.                                                         *)
THEOREM NewOrdersCorrect == Spec => NewOrdersUseAccount
<1>1. OrdersInv /\ [Next]_vars =>
        [\A o \in DOMAIN orders' \ Ids : Suits(orders'[o]) \/ raced]_vars
  <2> SUFFICES ASSUME OrdersInv, Next, ~raced, NEW o \in DOMAIN orders' \ Ids
               PROVE  Suits(orders'[o])
    OBVIOUS
  <2>1. TypeOK /\ KeyMatchesCsr
    BY DEF OrdersInv
  <2>2. CASE \E t \in Threads, ts \in SUBSET Targets : InsertOrder(t, ts)
    <3>1. PICK t \in Threads, ts \in SUBSET Targets : InsertOrder(t, ts)
      BY <2>2
    <3> DEFINE b == body[t]
               row == [account |-> b.account, directory |-> directory[t], mode |-> b.mode,
                       key |-> None, csr |-> b.csr, creator |-> user[t]]
    <3>2. pc[t] = "insert" /\ orders' = Append(orders, row) /\ account' = account
      BY <3>1 DEF InsertOrder
    <3>3. /\ b \in Request /\ directory[t] \in Directories
          /\ (b.mode = "csr" => b.csr # None)
          /\ Current(t)
      BY <3>2 DEF OrdersInv, ThreadInv
    <3>4. user[t] \in Users
      BY <2>1 DEF TypeOK
    <3>5. row \in Order /\ Paired(row)
      <4> HIDE DEF b
      <4> QED BY <3>3, <3>4 DEF Request, Order, Paired, Modes
    <3>6. row.account = b.account /\ row.directory = directory[t]
      OBVIOUS
    <3> HIDE DEF row
    <3>7. orders'[o] = row
      BY <2>1, <3>2, <3>5, AppendRow DEF Ids
    <3> QED BY <3>3, <3>6, <3>7 DEF Suits, Current
  <2>3. CASE Ids' = Ids
    BY <2>3 DEF Ids
  <2>4. ASSUME NEW t \in Threads, StoreCsr(t) \/ StoreKey(t)
        PROVE  Ids' = Ids
    BY <2>4 DEF StoreCsr, StoreKey, Ids
  <2> QED BY <2>2, <2>3, <2>4 DEF Next, Step, ChangeAccount, SelectAccount, AdmitUpload,
        GenerateKey, AnswerCsr, Fail, AssignUser, AssignTargets, AssignTarget, tables, Ids
<1> QED BY <1>1, OrdersInvariant, PTL DEF Spec, NewOrdersUseAccount
===============================================================================
