-------------------------- MODULE AuditVerification --------------------------
(***************************************************************************)
(* AuditLog.verify (src/certify/audit.py) next to the writers of AuditLog: *)
(* it reads the whole table in one SELECT and walks the rows outside any   *)
(* transaction, while appends go on and somebody may have changed the      *)
(* table past the program.  Who changes it does not know the audit key:    *)
(* every digest he stores is one the program issued, or worthless.         *)
(***************************************************************************)
EXTENDS AuditChain

CONSTANTS
    Forged,             \* stands in a digest made without the key
    MaxEntries,         \* bound on the rows
    MaxTampers          \* bound on the outside changes

ASSUME ForgedAssumption == Forged \notin Events
ASSUME TamperBoundAssumption == MaxTampers \in Nat

VARIABLES
    rows,               \* table audit_log in sequence order
    issued,             \* every digest the program ever committed
    tampers,            \* outside changes so far
    vpc,                \* "idle", "checking" or "done"
    snapshot,           \* the rows fetchall returned
    row,                \* the loop's position
    expected,           \* variable previous of the loop
    verdict             \* TRUE, or FALSE for a broken chain

tableVars == <<rows, issued, tampers>>
verifyVars == <<vpc, snapshot, row, expected, verdict>>
vars == <<tableVars, verifyVars>>

Init ==
    /\ rows = <<>>
    /\ issued = {}
    /\ tampers = 0
    /\ vpc = "idle"
    /\ snapshot = <<>>
    /\ row = 1
    /\ expected = Genesis
    /\ verdict = TRUE

(* One append.  It is a single step here because the write lock keeps all  *)
(* other writers away from BEGIN IMMEDIATE to COMMIT (AuditLog).           *)
AppendRow(e) ==
    /\ Len(rows) < MaxEntries
    /\ rows' = Append(rows, Entry(e, TipOf(rows)))
    /\ issued' = issued \cup {Hmac(e, TipOf(rows))}
    /\ UNCHANGED <<tampers, verifyVars>>

(* previous = GENESIS and the SELECT of all rows in sequence order. *)
Fetch ==
    /\ vpc # "checking"
    /\ snapshot' = rows
    /\ expected' = Genesis
    /\ row' = 1
    /\ verdict' = TRUE
    /\ vpc' = "checking"
    /\ UNCHANGED tableVars

(* Mutant: each row is checked for itself, its place in the chain is not. *)
IntactAlone(r, prev) == r.hash = Hmac(r.event, r.previous)

Intact(r, prev) == r.previous = prev /\ r.hash = Hmac(r.event, r.previous)

(* Mutant: `previous` is not carried on to the next turn. *)
CheckRowForgets ==
    /\ vpc = "checking"
    /\ row <= Len(snapshot)
    /\ Intact(snapshot[row], expected)
    /\ row' = row + 1
    /\ UNCHANGED <<tableVars, vpc, snapshot, expected, verdict>>

(* One turn of the loop over the rows. *)
CheckRow ==
    /\ vpc = "checking"
    /\ row <= Len(snapshot)
    /\ Intact(snapshot[row], expected)
    /\ expected' = snapshot[row].hash
    /\ row' = row + 1
    /\ UNCHANGED <<tableVars, vpc, snapshot, verdict>>

(* Mutant: the row after the broken one is named. *)
ReportNextRow ==
    /\ vpc = "checking"
    /\ row <= Len(snapshot)
    /\ ~Intact(snapshot[row], expected)
    /\ row' = row + 1
    /\ verdict' = FALSE
    /\ vpc' = "done"
    /\ UNCHANGED <<tableVars, snapshot, expected>>

(* return False, row["sequence"] *)
ReportBroken ==
    /\ vpc = "checking"
    /\ row <= Len(snapshot)
    /\ ~Intact(snapshot[row], expected)
    /\ verdict' = FALSE
    /\ vpc' = "done"
    /\ UNCHANGED <<tableVars, snapshot, row, expected>>

(* json.loads raises: what somebody has made of the details is no JSON,    *)
(* and so nothing the program has issued a digest for.  The request ends   *)
(* with an error and without a verdict.                                    *)
RaiseAtBroken ==
    /\ vpc = "checking"
    /\ row <= Len(snapshot)
    /\ ~Intact(snapshot[row], expected)
    /\ vpc' = "idle"
    /\ UNCHANGED <<tableVars, snapshot, row, expected, verdict>>

(* Mutant: the loop runs once too often. *)
ReportPastEnd ==
    /\ vpc = "checking"
    /\ row > Len(snapshot)
    /\ row' = row + 1
    /\ vpc' = "done"
    /\ UNCHANGED <<tableVars, snapshot, expected, verdict>>

(* return True, None *)
ReportValid ==
    /\ vpc = "checking"
    /\ row > Len(snapshot)
    /\ vpc' = "done"
    /\ UNCHANGED <<tableVars, snapshot, row, expected, verdict>>

(* An UPDATE of a row past the program (as test_audit.py does it). *)
Alter(i, r) ==
    /\ tampers < MaxTampers
    /\ rows[i] # r
    /\ rows' = [rows EXCEPT ![i] = r]
    /\ tampers' = tampers + 1
    /\ UNCHANGED <<issued, verifyVars>>

(* A DELETE of a row past the program. *)
Delete(i) ==
    /\ tampers < MaxTampers
    /\ rows' = SubSeq(rows, 1, i - 1) \o SubSeq(rows, i + 1, Len(rows))
    /\ tampers' = tampers + 1
    /\ UNCHANGED <<issued, verifyVars>>

Known == issued \cup {Genesis, <<Forged>>}

(* What somebody past the program may do to row i. *)
Tamper(i) ==
    \/ Delete(i)
    \/ \E e \in Events : Alter(i, [rows[i] EXCEPT !.event = e])
    \/ \E p \in Known, h \in Known : Alter(i, [rows[i] EXCEPT !.previous = p, !.hash = h])

Next ==
    \/ \E e \in Events : AppendRow(e)
    \/ Fetch \/ CheckRow \/ ReportBroken \/ RaiseAtBroken \/ ReportValid
    \/ \E i \in DOMAIN rows : Tamper(i)

Spec == Init /\ [][Next]_vars

-------------------------------------------------------------------------------
AnyDigest == Seq(Events \cup {Forged})

TypeOK ==
    LET Row == [event : Events, previous : AnyDigest, hash : AnyDigest] IN
    /\ rows \in Seq(Row) /\ snapshot \in Seq(Row)
    /\ issued \subseteq AnyDigest
    /\ tampers \in 0..MaxTampers
    /\ vpc \in {"idle", "checking", "done"}
    /\ row \in 1..(Len(snapshot) + 1)
    /\ expected \in AnyDigest
    /\ verdict \in BOOLEAN

Reported(v) == vpc = "done" /\ verdict = v

(* A table that verify calls valid is, from its first row on, a history    *)
(* the program itself wrote: the last digest was issued by the program and *)
(* commits to exactly the events of the rows in their order.  (A missing   *)
(* tail is therefore all that can escape it.)                              *)
ValidMeansWritten ==
    Reported(TRUE) /\ snapshot # <<>> =>
        LET last == snapshot[Len(snapshot)].hash IN
        /\ last \in issued
        /\ last = History(snapshot, Len(snapshot))

(* Nobody touched the table: verify says so, also while appends run.       *)
UntouchedIsValid == tampers = 0 => ~Reported(FALSE)

(* The row verify names is the first one at which the chain is broken: all *)
(* rows before it are a genuine history.                                   *)
BrokenRowIsFirst ==
    Reported(FALSE) =>
        /\ row \in DOMAIN snapshot
        /\ \A i \in 1..(row - 1) :
              snapshot[i].hash = History(snapshot, i)
        /\ \/ snapshot[row].hash # History(snapshot, row)
           \/ snapshot[row].previous # History(snapshot, row - 1)
===============================================================================
