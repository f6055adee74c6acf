--------------------------- MODULE SchemaMigration ---------------------------
(***************************************************************************)
(* Database.initialize (src/certify/database.py) on a database of an       *)
(* earlier release, which a restoration has just put in place: migrations  *)
(* by several processes or threads (the service's start, a restoration,    *)
(* certify init-admin) while requests change the password of an account.   *)
(* Python's sqlite3 commits every ALTER TABLE on its own until the first   *)
(* UPDATE opens a transaction, which holds the write lock to the end.      *)
(***************************************************************************)
EXTENDS PasswordHistory

CONSTANTS
    Migrators,          \* callers of initialize
    Null,               \* password_changed_at of an account without one
    Free                \* nobody holds the write lock

ASSUME FreeAssumption == Free \notin Migrators /\ Null \notin Nat

VARIABLES
    columns,            \* the columns added since the first release
    changedAt,          \* users.password_changed_at: the number of a password
    createdAt,          \* users.created_at, in the same numbers
    dated,              \* ghost: which of the two counted at the beginning
    writer,             \* the migrator whose transaction holds the write lock
    at,                 \* where each migrator is
    found,              \* the columns it found when it read the table
    added               \* the columns its transaction has added so far

schema == <<columns, changedAt>>
birth == <<createdAt, dated>>
migrators == <<writer, at, found, added>>
migrationVars == <<vars, schema, birth, migrators>>

(* One column of users before password_changed_at, it, and one of the      *)
(* later tables stand for all of them.                                     *)
UserColumns == {"email", "password_changed_at"}
LaterColumns == {"hostname"}
Columns == UserColumns \cup LaterColumns

(* login and principal: datetime(password_changed_at or created_at) *)
EffectiveChange == IF changedAt = Null THEN createdAt ELSE changedAt

(* Password 1 is the one at the beginning.  It is the account's first, or  *)
(* (created_at is 0) was set by a release that did not note when; if the   *)
(* column is there, it may also have been filled or set since.             *)
MigrationInit ==
    /\ Init
    /\ columns \in {{}, {"email"}, UserColumns, Columns}
    /\ createdAt \in {0, 1}
    /\ changedAt \in IF "password_changed_at" \in columns
                     THEN {Null, createdAt, 1} ELSE {Null}
    /\ dated = EffectiveChange
    /\ writer = Free
    /\ at = [m \in Migrators |-> "idle"]
    /\ found = [m \in Migrators |-> {}]
    /\ added = [m \in Migrators |-> {}]

Goto(m, step) == at' = [at EXCEPT ![m] = step]

(* PRAGMA table_info(users), after CREATE TABLE IF NOT EXISTS. *)
ReadUsers(m) ==
    /\ at[m] = "idle"
    /\ Goto(m, "users")
    /\ found' = [found EXCEPT ![m] = columns \cap UserColumns]
    /\ UNCHANGED <<schema, writer, added>>

(* ALTER TABLE for a column that was not found, committed at once. *)
AddUserColumn(m, c) ==
    /\ at[m] = "users" /\ writer = Free
    /\ c \in UserColumns \ found[m]
    /\ c = "password_changed_at" => "email" \in found[m]
    /\ c \notin columns
    /\ columns' = columns \cup {c}
    /\ found' = [found EXCEPT ![m] = @ \cup {c}]
    /\ Goto(m, IF c = "password_changed_at" THEN "fill" ELSE "users")
    /\ UNCHANGED <<changedAt, writer, added>>

(* UPDATE ... WHERE password_changed_at IS NULL opens the transaction.     *)
(* What it writes is seen by others after the commit, and nobody else      *)
(* writes until then.                                                      *)
Fill(m) ==
    /\ at[m] = "fill" /\ writer = Free
    /\ writer' = m
    /\ Goto(m, "filled")
    /\ UNCHANGED <<schema, found, added>>

(* PRAGMA table_info(targets), inside the transaction or outside. *)
ReadTargets(m) ==
    /\ \/ at[m] = "users" /\ UserColumns \subseteq found[m]
       \/ at[m] = "filled"
    /\ Goto(m, "targets")
    /\ found' = [found EXCEPT ![m] = columns \cap LaterColumns]
    /\ UNCHANGED <<schema, writer, added>>

(* ALTER TABLE of a later table: part of the transaction if there is one. *)
AddLaterColumn(m, c) ==
    /\ at[m] = "targets" /\ writer \in {m, Free}
    /\ c \in LaterColumns \ found[m] /\ c \notin columns
    /\ found' = [found EXCEPT ![m] = @ \cup {c}]
    /\ IF writer = m
       THEN added' = [added EXCEPT ![m] = @ \cup {c}] /\ UNCHANGED columns
       ELSE columns' = columns \cup {c} /\ UNCHANGED added
    /\ UNCHANGED <<changedAt, writer, at>>

(* Mutant: the UPDATE has no condition. *)
FilledAlways(t) == createdAt

(* What the UPDATE makes of a value. *)
Filled(t) == IF t = Null THEN createdAt ELSE t

(* The end of the with block: COMMIT, if there is a transaction. *)
Complete(m) ==
    /\ at[m] = "targets" /\ LaterColumns \subseteq found[m]
    /\ IF writer = m
       THEN /\ columns' = columns \cup added[m]
            /\ changedAt' = Filled(changedAt)
            /\ writer' = Free
       ELSE UNCHANGED <<schema, writer>>
    /\ Goto(m, "done")
    /\ UNCHANGED <<found, added>>

(* Mutant: a column that is there already ends the migration as done. *)
InterruptedGracefully(m) ==
    /\ at[m] \in {"users", "fill", "filled", "targets"}
    /\ Goto(m, "done")
    /\ writer' = IF writer = m THEN Free ELSE writer
    /\ added' = [added EXCEPT ![m] = {}]
    /\ UNCHANGED <<schema, found>>

(* "duplicate column name", "database is locked", or the end of the        *)
(* process: the transaction is rolled back, what was committed stays.      *)
Interrupted(m) ==
    /\ at[m] \in {"users", "fill", "filled", "targets"}
    /\ Goto(m, "idle")
    /\ writer' = IF writer = m THEN Free ELSE writer
    /\ added' = [added EXCEPT ![m] = {}]
    /\ UNCHANGED <<schema, found>>

Migrate(m) ==
    \/ ReadUsers(m) \/ Fill(m) \/ ReadTargets(m) \/ Complete(m) \/ Interrupted(m)
    \/ \E c \in Columns : AddUserColumn(m, c) \/ AddLaterColumn(m, c)

(* change_password: its UPDATE names the column, so the transaction fails  *)
(* while it is missing, and it waits for the write lock.                   *)
Change(r) ==
    /\ Step(r)
    /\ overlapped' = (overlapped \/ Overlap')
    /\ IF past' # past
       THEN /\ "password_changed_at" \in columns /\ writer = Free
            /\ changedAt' = Len(past')
       ELSE UNCHANGED changedAt
    /\ UNCHANGED <<columns, birth, migrators>>

MigrationNext ==
    \/ \E m \in Migrators : Migrate(m) /\ UNCHANGED <<vars, birth>>
    \/ \E r \in Requests : Change(r)

MigrationSpec == MigrationInit /\ [][MigrationNext]_migrationVars

-------------------------------------------------------------------------------
MigrationTypeOK ==
    /\ TypeOK
    /\ columns \subseteq Columns
    /\ changedAt \in Nat \cup {Null}
    /\ createdAt \in Nat /\ dated \in Nat
    /\ writer \in Migrators \cup {Free}
    /\ at \in [Migrators -> {"idle", "users", "fill", "filled", "targets", "done"}]
    /\ found \in [Migrators -> SUBSET Columns]
    /\ added \in [Migrators -> SUBSET LaterColumns]

(* However many migrations overlap, fail or die between ALTER and UPDATE,  *)
(* and whatever passwords are changed meanwhile: a password set since has  *)
(* its own age, and the one the database came with keeps the age it had.   *)
(* (That is the account's if the column was missing: the password may be   *)
(* younger than the API takes it for, but never older.)                    *)
AgeIsOfPassword ==
    /\ EffectiveChange = IF Len(past) = 1 THEN dated ELSE Len(past)
    /\ EffectiveChange <= Len(past)

(* Who returned from initialize has the whole schema, also if another      *)
(* migration failed beside it.                                             *)
SuccessMeansComplete ==
    \A m \in Migrators : at[m] = "done" => columns = Columns
===============================================================================
