------------------------------- MODULE AuditLog -------------------------------
(***************************************************************************)
(* AuditLog.append (src/certify/audit.py): the keyed hash chain, written   *)
(* by request threads of the API and by the command line, each on its own  *)
(* SQLite connection.  BEGIN IMMEDIATE takes the database's single write   *)
(* lock, which the handlers' own transactions compete for too.             *)
(***************************************************************************)
EXTENDS AuditChain, FiniteSets

CONSTANTS
    Writers,            \* threads and processes that call append
    NoWriter,           \* the write lock is free
    Handler,            \* some handler's own write transaction holds it
    MaxEntries          \* bound on the log, rows and calls in flight together

ASSUME SentinelAssumption == NoWriter \notin Writers /\ Handler \notin Writers
                             /\ Handler # NoWriter
ASSUME BoundAssumption == MaxEntries \in Nat
ASSUME WritersAssumption == IsFiniteSet(Writers)

VARIABLES
    rows,               \* table audit_log in sequence order
    lock,               \* who holds SQLite's write lock
    pc,                 \* where a writer is in append
    event,              \* the event it was called with
    previous,           \* the chain tip it selected
    returned            \* the digests append has returned

vars == <<rows, lock, pc, event, previous, returned>>

Tip == TipOf(rows)

Steps == {"idle", "begin", "select", "insert", "return"}
InFlight == {w \in Writers : pc[w] \in {"begin", "select", "insert"}}

Init ==
    /\ rows = <<>>
    /\ lock = NoWriter
    /\ pc = [w \in Writers |-> "idle"]
    /\ event \in [Writers -> Events]
    /\ previous = [w \in Writers |-> Genesis]
    /\ returned = {}

(* A caller enters append with its event. *)
Call(w, e) ==
    /\ pc[w] = "idle"
    /\ Len(rows) + Cardinality(InFlight) < MaxEntries
    /\ pc' = [pc EXCEPT ![w] = "begin"]
    /\ event' = [event EXCEPT ![w] = e]
    /\ UNCHANGED <<rows, lock, previous, returned>>

(* Mutant: a deferred BEGIN, which takes no lock before the INSERT. *)
BeginDeferred(w) ==
    /\ pc[w] = "begin"
    /\ pc' = [pc EXCEPT ![w] = "select"]
    /\ UNCHANGED <<rows, lock, event, previous, returned>>

(* BEGIN IMMEDIATE: waits for the write lock and takes it. *)
BeginImmediate(w) ==
    /\ pc[w] = "begin"
    /\ lock = NoWriter
    /\ lock' = w
    /\ pc' = [pc EXCEPT ![w] = "select"]
    /\ UNCHANGED <<rows, event, previous, returned>>

(* BEGIN IMMEDIATE gives up after the ten seconds of sqlite3.connect. *)
BeginTimeout(w) ==
    /\ pc[w] = "begin"
    /\ lock # NoWriter
    /\ pc' = [pc EXCEPT ![w] = "idle"]
    /\ UNCHANGED <<rows, lock, event, previous, returned>>

(* Inside the transaction: the hash of the last row, or the genesis hash. *)
SelectTip(w) ==
    /\ pc[w] = "select"
    /\ previous' = [previous EXCEPT ![w] = Tip]
    /\ pc' = [pc EXCEPT ![w] = "insert"]
    /\ UNCHANGED <<rows, lock, event, returned>>

(* INSERT and, on leaving the with block, COMMIT.  The row becomes visible *)
(* to the other connections with the commit; entry_hash is UNIQUE.         *)
InsertAndCommit(w) ==
    LET entry == Entry(event[w], previous[w]) IN
    /\ pc[w] = "insert"
    /\ lock \in {w, NoWriter}
    /\ \A i \in DOMAIN rows : rows[i].hash # entry.hash
    /\ rows' = Append(rows, entry)
    /\ lock' = NoWriter
    /\ pc' = [pc EXCEPT ![w] = "return"]
    /\ UNCHANGED <<event, previous, returned>>

(* Mutant: the digest is handed out before the row is committed. *)
ReturnBeforeCommit(w) ==
    /\ pc[w] \in {"insert", "return"}
    /\ returned' = returned \cup {Hmac(event[w], previous[w])}
    /\ pc' = [pc EXCEPT ![w] = "idle"]
    /\ lock' = IF lock = w THEN NoWriter ELSE lock
    /\ UNCHANGED <<rows, event, previous>>

(* The caller receives the digest of its committed row. *)
Return(w) ==
    /\ pc[w] = "return"
    /\ returned' = returned \cup {Hmac(event[w], previous[w])}
    /\ pc' = [pc EXCEPT ![w] = "idle"]
    /\ UNCHANGED <<rows, lock, event, previous>>

(* Mutant: no rollback, the connection keeps its transaction open. *)
AbortKeepsLock(w) ==
    /\ pc[w] # "idle"
    /\ pc' = [pc EXCEPT ![w] = "idle"]
    /\ UNCHANGED <<rows, lock, event, previous, returned>>

(* An exception or the death of the writer: SQLite rolls the transaction   *)
(* back and frees the lock.  A committed row stays, unacknowledged.        *)
Abort(w) ==
    /\ pc[w] # "idle"
    /\ pc' = [pc EXCEPT ![w] = "idle"]
    /\ lock' = IF lock = w THEN NoWriter ELSE lock
    /\ UNCHANGED <<rows, event, previous, returned>>

(* The write transactions of the handlers, on the same database. *)
HandlerBegins ==
    /\ lock = NoWriter
    /\ lock' = Handler
    /\ UNCHANGED <<rows, pc, event, previous, returned>>

HandlerEnds ==
    /\ lock = Handler
    /\ lock' = NoWriter
    /\ UNCHANGED <<rows, pc, event, previous, returned>>

Step(w) ==
    \/ BeginImmediate(w)
    \/ SelectTip(w)
    \/ InsertAndCommit(w)
    \/ Return(w)

Next ==
    \/ \E w \in Writers, e \in Events : Call(w, e)
    \/ \E w \in Writers : Step(w) \/ BeginTimeout(w) \/ Abort(w)
    \/ HandlerBegins
    \/ HandlerEnds

Spec == Init /\ [][Next]_vars

(* A thread keeps running its call (BEGIN IMMEDIATE either gets the lock   *)
(* or times out), and every transaction of a handler ends: connect commits *)
(* or rolls back on every path.  Nothing forces a call or an abort.        *)
Fairness ==
    /\ \A w \in Writers : WF_vars(Step(w) \/ BeginTimeout(w))
    /\ WF_vars(HandlerEnds)

-------------------------------------------------------------------------------
TypeOK ==
    /\ rows \in Seq([event : Events, previous : Digests, hash : Digests])
    /\ lock \in Writers \cup {NoWriter, Handler}
    /\ pc \in [Writers -> Steps]
    /\ event \in [Writers -> Events]
    /\ previous \in [Writers -> Digests]
    /\ returned \subseteq Digests

(* Every row links to the digest of the row before it (the first one to    *)
(* the genesis hash) and carries the digest of its own content: no two     *)
(* concurrent appends extend the same tip.                                 *)
ChainLinked ==
    \A i \in DOMAIN rows :
        /\ rows[i].previous = IF i = 1 THEN Genesis ELSE rows[i - 1].hash
        /\ rows[i].hash = Hmac(rows[i].event, rows[i].previous)

(* The tip a writer has selected cannot go stale before its insert: until  *)
(* then it alone holds the write lock.                                     *)
SelectedTipIsCurrent ==
    \A w \in Writers :
        pc[w] = "insert" => lock = w /\ previous[w] = Tip

(* A digest that append returned is the digest of a row of the table, also *)
(* after later appends, timeouts and rollbacks.                            *)
ReturnedIsDurable == \A d \in returned : \E i \in DOMAIN rows : rows[i].hash = d

(* The table is append-only: no step changes or drops a row, and one step  *)
(* adds at most one.                                                       *)
Extends ==
    \/ UNCHANGED rows
    \/ /\ Len(rows') = Len(rows) + 1
       /\ SubSeq(rows', 1, Len(rows)) = rows
AppendOnly == [][Extends]_vars

(* No append keeps the database's write lock: whether it returns, fails or *)
(* its thread dies, the lock that BEGIN IMMEDIATE took is given back.      *)
LockReleased == \A w \in Writers : lock = w ~> lock = NoWriter

(* The hash chain implements the audit trail. *)
Trail == INSTANCE AuditTrail WITH
            trail <- [i \in DOMAIN rows |-> rows[i].event],
            receipts <- returned
ImplementsTrail == Trail!Spec
===============================================================================
