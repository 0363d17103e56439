----------------------------- MODULE Migrations -----------------------------
(***************************************************************************)
(* Database migrations over SQLite and Postgres: apply_migration,          *)
(* apply_migrations and rollback_migration, run by any number of processes *)
(* against one database.                                                   *)
(*                                                                         *)
(* Each command opens a connection and does everything in one transaction  *)
(* under one lock: BEGIN IMMEDIATE takes the write lock of a SQLite file,  *)
(* pg_advisory_xact_lock a lock of its own; both go with the transaction.  *)
(* A script is a sequence of statements, each of which creates or drops    *)
(* one part of the schema, cannot run, or manages the transaction.  What   *)
(* END does, which the transaction guard lets through, is modelled for     *)
(* SQLite: it commits, gives the lock up, and leaves the connection in     *)
(* autocommit mode, where every further statement is a transaction.        *)
(***************************************************************************)
EXTENDS Integers, Sequences

CONSTANTS
    Migrators,   \* commands that may be in progress at once
    Drivers,     \* "sqlite", "postgres"
    Parts,       \* what statements create and drop
    Versions,    \* the versions, as numbers in the order of their texts
    Checksums,
    Library,     \* the migrations at hand
    Batches,     \* the batches a command may be given
    NoRow,       \* the history has no row for this version
    Nobody       \* the lock is free

Stmts == [do : {"create", "drop", "bad", "begin", "end"}, part : Parts]
Migration == [version : Versions, checksum : Checksums, up : Seq(Stmts), down : Seq(Stmts)]
Database == [schema : SUBSET Parts, history : [Versions -> Checksums \cup {NoRow}]]

ASSUME LibraryAssumption ==
    /\ Library \subseteq Migration
    /\ Batches \subseteq Seq(Library)
    /\ Drivers \subseteq {"sqlite", "postgres"}
    /\ Versions \subseteq Nat
ASSUME NoRowAssumption == NoRow \notin Checksums
ASSUME NobodyAssumption == Nobody \notin Migrators

VARIABLES
    driver,
    disk,        \* the committed database
    holder,      \* who holds the migration lock
    work         \* [Migrators -> Work], the commands

vars == <<driver, disk, holder, work>>

Steps == {"begin", "check", "run", "record", "commit"}
Answers == {"idle", "done", "failed", "unsure"}

(* open: the transaction has not ended yet; db: the database as it sees it. *)
(* wrote: the command has changed the committed database (history).         *)
Work == [pc : Steps \cup Answers, op : {"apply", "rollback"}, skip : BOOLEAN,
         todo : Seq(Library), script : Seq(Stmts), db : Database, open : BOOLEAN,
         applied : SUBSET Versions, wrote : BOOLEAN]

Empty == [schema |-> {}, history |-> [v \in Versions |-> NoRow]]

Idle == [pc |-> "idle", op |-> "apply", skip |-> FALSE, todo |-> <<>>, script |-> <<>>,
         db |-> Empty, open |-> FALSE, applied |-> {}, wrote |-> FALSE]

Busy(m) == work[m].pc \in Steps

(* The database as the connection of m sees it. *)
View(m) == IF work[m].open THEN work[m].db ELSE disk

-----------------------------------------------------------------------------
(* The words reject_migration_transaction_control looks for, of which       *)
(* "begin" stands for all; "end" is not among them.                         *)
Rejected(mig) ==
    \E s \in {mig.up[i] : i \in DOMAIN mig.up} \cup {mig.down[i] : i \in DOMAIN mig.down} :
        s.do = "begin"

Runs(s, db) ==
    \/ s.do = "create" /\ s.part \notin db.schema
    \/ s.do = "drop" /\ s.part \in db.schema

Effect(s, db) ==
    [db EXCEPT !.schema = IF s.do = "create" THEN @ \cup {s.part} ELSE @ \ {s.part}]

(* Wrong: only the version is compared. *)
IsTargetByVersion(mig, history) ==
    /\ history[mig.version] # NoRow
    /\ \A v \in Versions : history[v] # NoRow => v <= mig.version

(* validate_rollback_target against the row with the greatest version. *)
IsTarget(mig, history) ==
    /\ history[mig.version] = mig.checksum
    /\ \A v \in Versions : history[v] # NoRow => v <= mig.version

-----------------------------------------------------------------------------
Init ==
    /\ driver \in Drivers
    /\ disk = Empty
    /\ holder = Nobody
    /\ work = [m \in Migrators |-> Idle]

(* Any command that is over says so and leaves nothing open. *)
Answer(m, answer, applied, wrote) ==
    work' = [work EXCEPT ![m] = [Idle EXCEPT !.pc = answer, !.applied = applied, !.wrote = wrote]]

(* Wrong: an early return commits what the transaction did so far. *)
FailCommitting(m) ==
    /\ Answer(m, "failed", {}, work[m].wrote \/ View(m) # disk)
    /\ holder' = IF holder = m THEN Nobody ELSE holder
    /\ disk' = View(m)

(* An error drops the transaction, which rolls back whatever is open. *)
Fail(m) ==
    /\ Answer(m, "failed", {}, work[m].wrote)
    /\ holder' = IF holder = m THEN Nobody ELSE holder
    /\ UNCHANGED disk

(* apply_migration (one migration, which must be new) or apply_migrations  *)
(* (any number, known ones are skipped), up to the opening of a connection. *)
Migrate(m, batch, skip) ==
    /\ ~ Busy(m)
    /\ ~ skip => Len(batch) = 1
    /\ IF \E i \in DOMAIN batch : Rejected(batch[i]) THEN Answer(m, "failed", {}, FALSE)
       ELSE IF batch = <<>> THEN Answer(m, "done", {}, FALSE)
       ELSE work' = [work EXCEPT ![m] = [Idle EXCEPT !.pc = "begin", !.skip = skip, !.todo = batch]]
    /\ UNCHANGED <<driver, disk, holder>>

(* rollback_migration, likewise. *)
Revert(m, mig) ==
    /\ ~ Busy(m)
    /\ IF Rejected(mig) THEN Answer(m, "failed", {}, FALSE)
       ELSE work' = [work EXCEPT ![m] =
                        [Idle EXCEPT !.pc = "begin", !.op = "rollback", !.todo = <<mig>>]]
    /\ UNCHANGED <<driver, disk, holder>>

(* Wrong: the transaction begins without the lock. *)
BeginUnlocked(m) ==
    /\ work[m].pc = "begin"
    /\ work' = [work EXCEPT ![m].pc = "check", ![m].open = TRUE, ![m].db = disk]
    /\ UNCHANGED <<driver, disk, holder>>

(* The transaction begins and takes the lock; it waits while another has   *)
(* it, and gives up (Break) when it has waited too long.                   *)
Begin(m) ==
    /\ work[m].pc = "begin"
    /\ holder = Nobody
    /\ holder' = m
    /\ work' = [work EXCEPT ![m].pc = "check", ![m].open = TRUE, ![m].db = disk]
    /\ UNCHANGED <<driver, disk>>

(* The next migration of the batch against the history. *)
CheckApply(m) ==
    /\ work[m].pc = "check" /\ work[m].op = "apply"
    /\ \/ /\ work[m].todo = <<>>
          /\ work' = [work EXCEPT ![m].pc = "commit"]
          /\ UNCHANGED <<disk, holder>>
       \/ /\ work[m].todo # <<>>
          /\ LET mig == Head(work[m].todo)  row == View(m).history[mig.version] IN
             \/ /\ row = NoRow
                /\ work' = [work EXCEPT ![m].pc = "run", ![m].script = mig.up]
                /\ UNCHANGED <<disk, holder>>
             \/ /\ row = mig.checksum /\ work[m].skip
                /\ work' = [work EXCEPT ![m].todo = Tail(@)]
                /\ UNCHANGED <<disk, holder>>
             \/ /\ row # NoRow
                /\ ~ (row = mig.checksum /\ work[m].skip)
                /\ Fail(m)
    /\ UNCHANGED driver

(* The migration to roll back against the latest row of the history. *)
CheckRollback(m) ==
    LET mig == Head(work[m].todo) IN
    /\ work[m].pc = "check" /\ work[m].op = "rollback"
    /\ \/ /\ IsTarget(mig, View(m).history)
          /\ work' = [work EXCEPT ![m].pc = "run", ![m].script = mig.down]
          /\ UNCHANGED <<disk, holder>>
       \/ /\ ~ IsTarget(mig, View(m).history)
          /\ Fail(m)
    /\ UNCHANGED driver

(* A write of m that succeeds: into its transaction, or, in autocommit     *)
(* mode, straight into the database as soon as nobody has it locked.       *)
Writes(m, db) ==
    /\ work[m].open \/ holder = Nobody
    /\ disk' = IF work[m].open THEN disk ELSE db
    /\ UNCHANGED holder

Written(m, db) ==
    IF work[m].open THEN [work[m] EXCEPT !.db = db] ELSE [work[m] EXCEPT !.wrote = TRUE]

(* One statement of the up or down script. *)
Run(m) ==
    LET s == Head(work[m].script)  rest == Tail(work[m].script) IN
    /\ work[m].pc = "run"
    /\ \/ /\ work[m].script = <<>>
          /\ work' = [work EXCEPT ![m].pc = "record"]
          /\ UNCHANGED <<disk, holder>>
       \/ /\ work[m].script # <<>> /\ s.do = "end" /\ work[m].open
          /\ disk' = work[m].db
          /\ holder' = Nobody
          /\ work' = [work EXCEPT ![m].script = rest, ![m].open = FALSE, ![m].db = Empty,
                                 ![m].wrote = @ \/ work[m].db # disk]
       \/ /\ work[m].script # <<>> /\ Runs(s, View(m))
          /\ Writes(m, Effect(s, View(m)))
          /\ work' = [work EXCEPT ![m] = [Written(m, Effect(s, View(m))) EXCEPT !.script = rest]]
       \/ /\ work[m].script # <<>> /\ ~ Runs(s, View(m))
          /\ ~ (s.do = "end" /\ work[m].open)
          /\ Fail(m)
    /\ UNCHANGED driver

(* The history row that goes with the script: insert or delete. *)
Record(m) ==
    LET mig == Head(work[m].todo)  v == mig.version
        With(row) == [View(m) EXCEPT !.history[v] = row]
    IN
    /\ work[m].pc = "record"
    /\ \/ /\ work[m].op = "apply" /\ View(m).history[v] = NoRow
          /\ Writes(m, With(mig.checksum))
          /\ work' = [work EXCEPT ![m] =
                         [Written(m, With(mig.checksum)) EXCEPT
                             !.pc = "check", !.todo = Tail(@), !.applied = @ \cup {v}]]
       \/ /\ work[m].op = "apply" /\ View(m).history[v] # NoRow
          /\ Fail(m)
       \/ /\ work[m].op = "rollback"
          /\ Writes(m, With(NoRow))
          /\ work' = [work EXCEPT ![m] = [Written(m, With(NoRow)) EXCEPT !.pc = "commit"]]
    /\ UNCHANGED driver

(* COMMIT.  Over a connection its success may fail to arrive; without a    *)
(* transaction it is an error of SQLite.                                   *)
Commit(m) ==
    /\ work[m].pc = "commit"
    /\ \/ /\ work[m].open
          /\ disk' = work[m].db
          /\ holder' = IF holder = m THEN Nobody ELSE holder
          /\ \E answer \in IF driver = "postgres" THEN {"done", "unsure"} ELSE {"done"} :
                Answer(m, answer, work[m].applied, work[m].db # disk)
       \/ /\ ~ work[m].open
          /\ Fail(m)
    /\ UNCHANGED driver

(* The lock does not come in time, a statement fails for reasons of its    *)
(* own, the connection is lost, or the process dies: before COMMIT.        *)
Break(m) ==
    /\ Busy(m)
    /\ Fail(m)
    /\ UNCHANGED driver

Next ==
    \/ \E m \in Migrators, batch \in Batches, skip \in BOOLEAN : Migrate(m, batch, skip)
    \/ \E m \in Migrators, mig \in Library : Revert(m, mig)
    \/ \E m \in Migrators : Begin(m)
    \/ \E m \in Migrators : CheckApply(m)
    \/ \E m \in Migrators : CheckRollback(m)
    \/ \E m \in Migrators : Run(m)
    \/ \E m \in Migrators : Record(m)
    \/ \E m \in Migrators : Commit(m)
    \/ \E m \in Migrators : Break(m)

Spec == Init /\ [][Next]_vars

-----------------------------------------------------------------------------
TypeOK ==
    /\ driver \in Drivers
    /\ disk \in Database
    /\ holder \in Migrators \cup {Nobody}
    /\ work \in [Migrators -> Work]
    /\ \A m \in Migrators : work[m].open <=> holder = m

(* "failed migration batch rolls back every pending version": a command    *)
(* that answers with an error has changed nothing, neither the schema nor  *)
(* the history.                                                            *)
FailedChangesNothing ==
    \A m \in Migrators : work[m].pc = "failed" => ~ work[m].wrote

(* What a migration that works leaves in the schema. *)
Created(mig) == {mig.up[i].part : i \in DOMAIN mig.up}

Works(mig) == ~ Rejected(mig) /\ \A i \in DOMAIN mig.up : mig.up[i].do = "create"

(* No script of L ends the transaction that it runs in.                    *)
EndFree(L) ==
    \A g \in L : /\ \A i \in DOMAIN g.up : g.up[i].do # "end"
                 /\ \A i \in DOMAIN g.down : g.down[i].do # "end"

(* What the commands expect of the migrations L and cannot see: up scripts *)
(* add to the schema, the down script of a migration that works drops what *)
(* it created, and a checksum tells two texts of a version apart.          *)
Orderly(L) ==
    /\ EndFree(L)
    /\ \A g \in L : \A i \in DOMAIN g.up : g.up[i].do # "drop"
    /\ \A g \in L : Works(g) =>
          /\ \A i \in DOMAIN g.down : g.down[i].do = "drop"
          /\ {g.down[i].part : i \in DOMAIN g.down} = Created(g)
    /\ \A g, h \in L : g.version = h.version /\ g.checksum = h.checksum => g = h

(* The database is the outcome of whole batches and whole rollbacks of the *)
(* latest migration, in some order, with the scripts its history names.    *)
Ledger == INSTANCE MigrationLedger WITH
    Scripts <- {[version |-> mig.version, checksum |-> mig.checksum, parts |-> Created(mig)] :
                   mig \in {g \in Library : Works(g)}},
    schema <- disk.schema,
    history <- disk.history

ImplementsLedger == Ledger!Spec
=============================================================================
