-------------------------- MODULE Migrations_proofs --------------------------
(***************************************************************************)
(* Proofs about module Migrations, for any number of commands, of          *)
(* migrations and of batches.  The types need nothing; that a failed       *)
(* command changes nothing needs EndFree, and that the database changes by *)
(* whole migrations needs Orderly, of the library at hand.                 *)
(***************************************************************************)
EXTENDS Migrations, SequenceTheorems, TLAPS

PartsOf(script) == {script[i].part : i \in DOMAIN script}
Fine(script) == \A i \in DOMAIN script : script[i].do = "create"

-----------------------------------------------------------------------------
(* What is still to do has passed the transaction guard, and a migration   *)
(* is at hand where one is worked on.                                      *)
Admitted == {g \in Library : ~ Rejected(g)}

WorkAtHand ==
    \A m \in Migrators :
        /\ work[m].open => Busy(m)
        /\ Busy(m) => work[m].todo \in Seq(Admitted)
        /\ work[m].pc \in {"run", "record"} \/ (Busy(m) /\ work[m].op = "rollback")
              => work[m].todo # <<>>

TInv == TypeOK /\ WorkAtHand

(* Without END a command works in its transaction from Begin to its end,   *)
(* and writes nothing but by its COMMIT.                                   *)
Transactional ==
    \A m \in Migrators :
        /\ work[m].pc \in {"check", "run", "record", "commit"} => work[m].open
        /\ work[m].pc \in Steps \cup {"idle", "failed"} => ~ work[m].wrote
        /\ \A i \in DOMAIN work[m].script : work[m].script[i].do # "end"

FInv == TInv /\ Transactional

-----------------------------------------------------------------------------
(* What the ledger calls a migration that works.                           *)
ScriptOf(g) == [version |-> g.version, checksum |-> g.checksum, parts |-> Created(g)]
WorkingScripts == {ScriptOf(g) : g \in {h \in Library : Works(h)}}

Distinct(S) == \A s, t \in S : s.version = t.version => s = t

(* The history and the schema with the migrations of S.                    *)
WithRows(S, history) ==
    [v \in Versions |-> IF \E s \in S : s.version = v THEN Ledger!Checksum(S, v) ELSE history[v]]
WithParts(S, schema) == schema \cup UNION {s.parts : s \in S}

(* Every row of the history is of a migration that works.                  *)
HistoryIsOfScripts ==
    \A v \in Versions : disk.history[v] # NoRow =>
        \E g \in Library : Works(g) /\ g.version = v /\ g.checksum = disk.history[v]

(* The transaction of the apply command w on the database d: migrations S   *)
(* are in, and the next one is as far as its script.                        *)
Applying(w, d, S) ==
    /\ Distinct(S)
    /\ \A s \in S : d.history[s.version] = NoRow
    /\ w.db.history = WithRows(S, d.history)
    /\ w.pc \in {"check", "commit"} => w.db.schema = WithParts(S, d.schema)
    /\ w.pc = "run" =>
          /\ w.db.schema \cup PartsOf(w.script) = WithParts(S, d.schema) \cup Created(Head(w.todo))
          /\ \A i \in DOMAIN w.script : w.script[i].do # "drop"
          /\ Fine(w.script) => Fine(Head(w.todo).up)
    /\ w.pc = "record" => /\ w.db.schema = WithParts(S, d.schema) \cup Created(Head(w.todo))
                          /\ Fine(Head(w.todo).up)

(* The transaction of the rollback command w on the database d.             *)
Reverting(w, d) ==
    LET mig == Head(w.todo) IN
    /\ w.pc = "check" => w.db = d
    /\ w.pc \in {"run", "record", "commit"} => IsTarget(mig, d.history)
    /\ w.pc \in {"run", "record"} => w.db.history = d.history
    /\ w.pc = "run" => /\ w.db.schema \ PartsOf(w.script) = d.schema \ Created(mig)
                       /\ \A i \in DOMAIN w.script : w.script[i].do = "drop"
    /\ w.pc \in {"record", "commit"} => w.db.schema = d.schema \ Created(mig)
    /\ w.pc = "commit" => w.db.history = [d.history EXCEPT ![mig.version] = NoRow]

Whole ==
    \A m \in Migrators : work[m].open =>
        /\ work[m].op = "apply" => \E S \in SUBSET WorkingScripts : Applying(work[m], disk, S)
        /\ work[m].op = "rollback" => Reverting(work[m], disk)

LInv == FInv /\ HistoryIsOfScripts /\ Whole
-----------------------------------------------------------------------------
(* A command stays one when one of its fields changes.                     *)
LEMMA WorkUpdates ==
    ASSUME NEW w \in Work
    PROVE  /\ \A x \in Steps \cup Answers : [w EXCEPT !.pc = x] \in Work
           /\ \A x \in Seq(Library) : [w EXCEPT !.todo = x] \in Work
           /\ \A x \in {"apply", "rollback"} : [w EXCEPT !.op = x] \in Work
           /\ \A x \in BOOLEAN : [w EXCEPT !.skip = x] \in Work
           /\ \A x \in Seq(Stmts) : [w EXCEPT !.script = x] \in Work
           /\ \A x \in Database : [w EXCEPT !.db = x] \in Work
           /\ \A x \in BOOLEAN : [w EXCEPT !.open = x] \in Work
           /\ \A x \in SUBSET Versions : [w EXCEPT !.applied = x] \in Work
           /\ \A x \in BOOLEAN : [w EXCEPT !.wrote = x] \in Work
  BY DEF Work

LEMMA IdleIsWork == Idle \in Work
<1>1. Empty \in Database
  BY DEF Empty, Database
<1>2. <<>> \in Seq(Library) /\ <<>> \in Seq(Stmts)
  BY EmptySeq
<1>. QED
  BY <1>1, <1>2 DEF Idle, Work, Answers

(* A statement of a script, and the rest of it.                            *)
LEMMA ScriptParts ==
    ASSUME NEW S, NEW script \in Seq(S), script # <<>>
    PROVE  /\ Head(script) \in S
           /\ Tail(script) \in Seq(S)
           /\ DOMAIN script = 1 .. Len(script)
           /\ DOMAIN Tail(script) = 1 .. Len(script) - 1
           /\ Len(script) \in Nat \ {0}
           /\ Head(script) = script[1]
           /\ \A i \in DOMAIN Tail(script) : i + 1 \in DOMAIN script /\ Tail(script)[i] = script[i + 1]
           /\ \A i \in DOMAIN script \ {1} : i - 1 \in DOMAIN Tail(script)
                                             /\ script[i] = Tail(script)[i - 1]
  BY HeadTailProperties, LenProperties, EmptySeq

(* What statements and history rows make of a database is a database.      *)
LEMMA ViewType ==
    ASSUME TypeOK, NEW m \in Migrators
    PROVE  View(m) \in Database
  BY DEF TypeOK, View, Work

LEMMA EffectType ==
    ASSUME NEW db \in Database, NEW s \in Stmts
    PROVE  Effect(s, db) \in Database
  BY DEF Database, Stmts, Effect

LEMMA WithRowType ==
    ASSUME NEW db \in Database, NEW v \in Versions, NEW row \in Checksums \cup {NoRow}
    PROVE  [db EXCEPT !.history[v] = row] \in Database
  BY DEF Database

-----------------------------------------------------------------------------
(* What each action makes of the command that it moves.                    *)
Over(w, answer, wrote) ==
    /\ w.pc = answer /\ w.todo = <<>> /\ w.script = <<>>
    /\ ~ w.open /\ w.wrote = wrote

Keeps(w, u) == w.op = u.op /\ w.open = u.open /\ w.wrote = u.wrote

LEMMA AnswerMoves ==
    ASSUME NEW m \in Migrators, NEW answer \in Answers, NEW applied \in SUBSET Versions,
           NEW wrote \in BOOLEAN, Answer(m, answer, applied, wrote)
    PROVE  \E w \in Work : work' = [work EXCEPT ![m] = w] /\ Over(w, answer, wrote)
<1>. DEFINE w == [[[Idle EXCEPT !.pc = answer] EXCEPT !.applied = applied] EXCEPT !.wrote = wrote]
<1>1. [Idle EXCEPT !.pc = answer] \in Work
  BY IdleIsWork, WorkUpdates
<1>2. [[Idle EXCEPT !.pc = answer] EXCEPT !.applied = applied] \in Work
  BY <1>1, WorkUpdates
<1>3. w \in Work
  BY <1>2, WorkUpdates
<1>4. work' = [work EXCEPT ![m] = w]
  BY Zenon DEF Answer
<1>5. Over(w, answer, wrote)
  BY DEF Over, Idle
<1>. QED
  BY <1>3, <1>4, <1>5

LEMMA FailMoves ==
    ASSUME NEW m \in Migrators, TypeOK, Fail(m)
    PROVE  \E w \in Work : work' = [work EXCEPT ![m] = w] /\ Over(w, "failed", work[m].wrote)
<1>1. work[m].wrote \in BOOLEAN
  BY DEF TypeOK, Work
<1>. QED
  BY <1>1, AnswerMoves DEF Fail, Answers

(* What migrate leaves of the command: over at once, or at its first       *)
(* migration.                                                              *)
Begun(w, batch) ==
    \/ Over(w, "failed", FALSE) \/ Over(w, "done", FALSE)
    \/ /\ w.pc = "begin" /\ w.op = "apply" /\ w.todo = batch /\ w.script = <<>>
       /\ ~ w.open /\ ~ w.wrote
       /\ \A i \in DOMAIN batch : ~ Rejected(batch[i])

LEMMA MigrateMoves ==
    ASSUME NEW m \in Migrators, NEW batch \in Batches, NEW skip \in BOOLEAN, Migrate(m, batch, skip)
    PROVE  \E w \in Work : work' = [work EXCEPT ![m] = w] /\ Begun(w, batch)
<1>1. CASE \E i \in DOMAIN batch : Rejected(batch[i])
  <2>1. Answer(m, "failed", {}, FALSE)
    BY <1>1 DEF Migrate
  <2>. QED
    BY <2>1, AnswerMoves DEF Answers, Begun
<1>2. CASE ~ (\E i \in DOMAIN batch : Rejected(batch[i])) /\ batch = <<>>
  <2>1. Answer(m, "done", {}, FALSE)
    BY <1>2 DEF Migrate
  <2>. QED
    BY <2>1, AnswerMoves DEF Answers, Begun
<1>3. CASE ~ (\E i \in DOMAIN batch : Rejected(batch[i])) /\ batch # <<>>
  <2>. DEFINE w == [[[Idle EXCEPT !.pc = "begin"] EXCEPT !.skip = skip] EXCEPT !.todo = batch]
  <2>1. [Idle EXCEPT !.pc = "begin"] \in Work
    BY IdleIsWork, WorkUpdates DEF Steps
  <2>2. [[Idle EXCEPT !.pc = "begin"] EXCEPT !.skip = skip] \in Work
    BY <2>1, WorkUpdates
  <2>3. w \in Work
    BY <2>2, WorkUpdates, LibraryAssumption
  <2>4. work' = [work EXCEPT ![m] = w]
    BY <1>3, Zenon DEF Migrate
  <2>5. w.pc = "begin" /\ w.op = "apply" /\ w.todo = batch /\ w.script = <<>>
    BY DEF Idle
  <2>6. ~ w.open /\ ~ w.wrote
    BY DEF Idle
  <2>. QED
    BY <1>3, <2>3, <2>4, <2>5, <2>6 DEF Begun
<1>. QED
  BY <1>1, <1>2, <1>3

LEMMA RevertMoves ==
    ASSUME NEW m \in Migrators, NEW mig \in Library, Revert(m, mig)
    PROVE  \E w \in Work :
              /\ work' = [work EXCEPT ![m] = w]
              /\ \/ Over(w, "failed", FALSE)
                 \/ /\ w.pc = "begin" /\ w.op = "rollback" /\ w.todo = <<mig>> /\ w.script = <<>>
                    /\ ~ w.open /\ ~ w.wrote /\ ~ Rejected(mig)
<1>1. CASE Rejected(mig)
  <2>1. Answer(m, "failed", {}, FALSE)
    BY <1>1 DEF Revert
  <2>. QED
    BY <2>1, AnswerMoves DEF Answers
<1>2. CASE ~ Rejected(mig)
  <2>. DEFINE w == [[[Idle EXCEPT !.pc = "begin"] EXCEPT !.op = "rollback"] EXCEPT !.todo = <<mig>>]
  <2>1. [Idle EXCEPT !.pc = "begin"] \in Work
    BY IdleIsWork, WorkUpdates DEF Steps
  <2>2. [[Idle EXCEPT !.pc = "begin"] EXCEPT !.op = "rollback"] \in Work
    BY <2>1, WorkUpdates
  <2>3. <<mig>> \in Seq(Library)
    OBVIOUS
  <2>4. w \in Work
    BY <2>2, <2>3, WorkUpdates
  <2>5. work' = [work EXCEPT ![m] = w]
    BY <1>2, Zenon DEF Revert
  <2>6. w.pc = "begin" /\ w.op = "rollback" /\ w.todo = <<mig>> /\ w.script = <<>>
    BY DEF Idle
  <2>7. ~ w.open /\ ~ w.wrote
    BY DEF Idle
  <2>. QED
    BY <1>2, <2>4, <2>5, <2>6, <2>7
<1>. QED
  BY <1>1, <1>2

LEMMA BeginMoves ==
    ASSUME NEW m \in Migrators, TypeOK, Begin(m)
    PROVE  \E w \in Work :
              /\ work' = [work EXCEPT ![m] = w]
              /\ w.pc = "check" /\ w.op = work[m].op /\ w.todo = work[m].todo
              /\ w.script = work[m].script /\ w.db = disk /\ w.open /\ w.wrote = work[m].wrote
<1>. DEFINE w == [[[work[m] EXCEPT !.pc = "check"] EXCEPT !.open = TRUE] EXCEPT !.db = disk]
<1>0. work[m] \in Work /\ disk \in Database
  BY DEF TypeOK
<1>1. [work[m] EXCEPT !.pc = "check"] \in Work
  BY <1>0, WorkUpdates DEF Steps
<1>2. [[work[m] EXCEPT !.pc = "check"] EXCEPT !.open = TRUE] \in Work
  BY <1>1, WorkUpdates
<1>3. w \in Work
  BY <1>0, <1>2, WorkUpdates
<1>4. work' = [work EXCEPT ![m] = w]
  BY Zenon DEF TypeOK, Begin, Work
<1>5. w.pc = "check" /\ w.op = work[m].op /\ w.todo = work[m].todo /\ w.script = work[m].script
  BY <1>0 DEF Work
<1>6. w.db = disk /\ w.open /\ w.wrote = work[m].wrote
  BY <1>0 DEF Work
<1>. QED
  BY <1>1, <1>3, <1>4, <1>5, <1>6

LEMMA CheckApplyMoves ==
    ASSUME NEW m \in Migrators, TypeOK, CheckApply(m)
    PROVE  \/ Fail(m)
           \/ /\ UNCHANGED <<disk, holder>>
              /\ \E w \in Work :
                    /\ work' = [work EXCEPT ![m] = w]
                    /\ Keeps(w, work[m]) /\ w.db = work[m].db
                    /\ \/ /\ work[m].todo = <<>> /\ w.pc = "commit"
                          /\ w.todo = work[m].todo /\ w.script = work[m].script
                       \/ /\ work[m].todo # <<>> /\ w.pc = "run" /\ w.todo = work[m].todo
                          /\ View(m).history[Head(work[m].todo).version] = NoRow
                          /\ w.script = Head(work[m].todo).up
                       \/ /\ work[m].todo # <<>> /\ w.pc = "check"
                          /\ w.todo = Tail(work[m].todo) /\ w.script = work[m].script
<1>0. work[m] \in Work /\ work[m].todo \in Seq(Library) /\ work[m].pc = "check"
  BY DEF TypeOK, Work, CheckApply
<1>1. CASE Fail(m)
  BY <1>1
<1>2. ~ Fail(m) => UNCHANGED <<disk, holder>>
  BY Zenon DEF CheckApply
<1>3. \/ Fail(m)
      \/ work[m].todo = <<>> /\ work' = [work EXCEPT ![m].pc = "commit"]
      \/ /\ work[m].todo # <<>> /\ View(m).history[Head(work[m].todo).version] = NoRow
         /\ work' = [work EXCEPT ![m].pc = "run", ![m].script = Head(work[m].todo).up]
      \/ work[m].todo # <<>> /\ work' = [work EXCEPT ![m].todo = Tail(@)]
  BY Zenon DEF CheckApply
<1>4. CASE work[m].todo = <<>> /\ work' = [work EXCEPT ![m].pc = "commit"]
  <2>. DEFINE w == [work[m] EXCEPT !.pc = "commit"]
  <2>1. w \in Work
    BY <1>0, WorkUpdates DEF Steps
  <2>2. work' = [work EXCEPT ![m] = w]
    BY <1>4, Zenon
  <2>3. Keeps(w, work[m]) /\ w.db = work[m].db /\ w.pc = "commit" /\ w.todo = work[m].todo
        /\ w.script = work[m].script
    BY <1>0 DEF Work, Keeps
  <2>. QED
    BY <1>2, <1>4, <2>1, <2>2, <2>3
<1>5. CASE /\ work[m].todo # <<>> /\ View(m).history[Head(work[m].todo).version] = NoRow
           /\ work' = [work EXCEPT ![m].pc = "run", ![m].script = Head(work[m].todo).up]
  <2>. DEFINE w == [[work[m] EXCEPT !.pc = "run"] EXCEPT !.script = Head(work[m].todo).up]
  <2>1. Head(work[m].todo).up \in Seq(Stmts)
    BY <1>0, <1>5, ScriptParts, LibraryAssumption DEF Migration
  <2>2. [work[m] EXCEPT !.pc = "run"] \in Work
    BY <1>0, WorkUpdates DEF Steps
  <2>3. w \in Work
    BY <2>1, <2>2, WorkUpdates
  <2>4. work' = [work EXCEPT ![m] = w]
    BY <1>5, Zenon
  <2>5. Keeps(w, work[m]) /\ w.db = work[m].db /\ w.pc = "run" /\ w.todo = work[m].todo
        /\ w.script = Head(work[m].todo).up
    BY <1>0 DEF Work, Keeps
  <2>. QED
    BY <1>2, <1>5, <2>3, <2>4, <2>5
<1>6. CASE work[m].todo # <<>> /\ work' = [work EXCEPT ![m].todo = Tail(@)]
  <2>. DEFINE w == [work[m] EXCEPT !.todo = Tail(work[m].todo)]
  <2>1. w \in Work
    BY <1>0, <1>6, WorkUpdates, ScriptParts
  <2>2. work' = [work EXCEPT ![m] = w]
    BY <1>6, Zenon
  <2>3. Keeps(w, work[m]) /\ w.db = work[m].db /\ w.pc = "check" /\ w.todo = Tail(work[m].todo)
        /\ w.script = work[m].script
    BY <1>0 DEF Work, Keeps
  <2>. QED
    BY <1>2, <1>6, <2>1, <2>2, <2>3
<1>. QED
  BY <1>1, <1>3, <1>4, <1>5, <1>6

LEMMA CheckRollbackMoves ==
    ASSUME NEW m \in Migrators, TypeOK, work[m].todo # <<>>, CheckRollback(m)
    PROVE  \/ Fail(m)
           \/ /\ UNCHANGED <<disk, holder>>
              /\ IsTarget(Head(work[m].todo), View(m).history)
              /\ \E w \in Work :
                    /\ work' = [work EXCEPT ![m] = w]
                    /\ Keeps(w, work[m]) /\ w.db = work[m].db
                    /\ w.pc = "run" /\ w.todo = work[m].todo
                    /\ w.script = Head(work[m].todo).down
<1>. DEFINE w == [[work[m] EXCEPT !.pc = "run"] EXCEPT !.script = Head(work[m].todo).down]
<1>0. work[m] \in Work /\ work[m].todo \in Seq(Library)
  BY DEF TypeOK, Work
<1>1. CASE Fail(m)
  BY <1>1
<1>2. CASE ~ Fail(m)
  <2>1. /\ IsTarget(Head(work[m].todo), View(m).history) /\ UNCHANGED <<disk, holder>>
        /\ work' = [work EXCEPT ![m].pc = "run", ![m].script = Head(work[m].todo).down]
    BY <1>2, Zenon DEF CheckRollback
  <2>2. Head(work[m].todo).down \in Seq(Stmts)
    BY <1>0, ScriptParts, LibraryAssumption DEF Migration
  <2>3. [work[m] EXCEPT !.pc = "run"] \in Work
    BY <1>0, WorkUpdates DEF Steps
  <2>4. w \in Work
    BY <2>2, <2>3, WorkUpdates
  <2>5. work' = [work EXCEPT ![m] = w]
    BY <2>1, Zenon
  <2>6. Keeps(w, work[m]) /\ w.db = work[m].db /\ w.pc = "run" /\ w.todo = work[m].todo
        /\ w.script = Head(work[m].todo).down
    BY <1>0 DEF Work, Keeps
  <2>. QED
    BY <2>1, <2>4, <2>5, <2>6
<1>. QED
  BY <1>1, <1>2

LEMMA RunMoves ==
    ASSUME NEW m \in Migrators, TypeOK, Run(m)
    PROVE  \/ Fail(m)
           \/ /\ UNCHANGED <<disk, holder>>
              /\ \E w \in Work :
                    /\ work' = [work EXCEPT ![m] = w]
                    /\ Keeps(w, work[m]) /\ w.db = work[m].db /\ w.todo = work[m].todo
                    /\ work[m].script = <<>> /\ w.pc = "record" /\ w.script = <<>>
           \/ /\ work[m].open /\ disk' = work[m].db /\ holder' = Nobody
              /\ work[m].script # <<>> /\ Head(work[m].script).do = "end"
              /\ \E w \in Work :
                    /\ work' = [work EXCEPT ![m] = w]
                    /\ w.pc = "run" /\ w.op = work[m].op /\ w.todo = work[m].todo
                    /\ w.script = Tail(work[m].script) /\ ~ w.open
           \/ /\ UNCHANGED holder
              /\ work[m].open => disk' = disk
              /\ ~ work[m].open => disk' \in Database
              /\ work[m].script # <<>> /\ Runs(Head(work[m].script), View(m))
              /\ \E w \in Work :
                    /\ work' = [work EXCEPT ![m] = w]
                    /\ w.pc = "run" /\ w.op = work[m].op /\ w.todo = work[m].todo
                    /\ w.script = Tail(work[m].script) /\ w.open = work[m].open
                    /\ work[m].open => /\ w.wrote = work[m].wrote
                                       /\ w.db = Effect(Head(work[m].script), work[m].db)
<1>. DEFINE s == Head(work[m].script)
            rest == Tail(work[m].script)
            db == Effect(Head(work[m].script), View(m))
<1>0. work[m] \in Work /\ work[m].script \in Seq(Stmts) /\ disk \in Database
      /\ work[m].open \in BOOLEAN /\ work[m].wrote \in BOOLEAN /\ work[m].pc = "run"
  BY DEF TypeOK, Work, Run
<1>1. \/ Fail(m)
      \/ /\ work[m].script = <<>> /\ work' = [work EXCEPT ![m].pc = "record"]
         /\ UNCHANGED <<disk, holder>>
      \/ /\ work[m].open /\ work[m].script # <<>> /\ s.do = "end" /\ disk' = work[m].db /\ holder' = Nobody
         /\ work' = [work EXCEPT ![m].script = rest, ![m].open = FALSE, ![m].db = Empty,
                                ![m].wrote = @ \/ work[m].db # disk]
      \/ /\ work[m].script # <<>> /\ Runs(s, View(m)) /\ Writes(m, db)
         /\ work' = [work EXCEPT ![m] = [Written(m, db) EXCEPT !.script = rest]]
  BY Zenon DEF Run
<1>2. CASE Fail(m)
  BY <1>2
<1>3. CASE /\ work[m].script = <<>> /\ work' = [work EXCEPT ![m].pc = "record"]
           /\ UNCHANGED <<disk, holder>>
  <2>. DEFINE w == [work[m] EXCEPT !.pc = "record"]
  <2>1. w \in Work
    BY <1>0, WorkUpdates DEF Steps
  <2>2. work' = [work EXCEPT ![m] = w]
    BY <1>3, Zenon
  <2>3. Keeps(w, work[m]) /\ w.db = work[m].db /\ w.todo = work[m].todo /\ w.pc = "record"
        /\ w.script = work[m].script
    BY <1>0 DEF Work, Keeps
  <2>. QED
    BY <1>3, <2>1, <2>2, <2>3
<1>4. CASE /\ work[m].open /\ work[m].script # <<>> /\ s.do = "end" /\ disk' = work[m].db /\ holder' = Nobody
           /\ work' = [work EXCEPT ![m].script = rest, ![m].open = FALSE, ![m].db = Empty,
                                  ![m].wrote = @ \/ work[m].db # disk]
  <2>. DEFINE w1 == [work[m] EXCEPT !.script = rest]
              w2 == [w1 EXCEPT !.open = FALSE]
              w3 == [w2 EXCEPT !.db = Empty]
              w == [w3 EXCEPT !.wrote = (work[m].wrote \/ work[m].db # disk)]
  <2>1. w1 \in Work
    BY <1>0, <1>4, WorkUpdates, ScriptParts
  <2>2. w2 \in Work
    BY <2>1, WorkUpdates
  <2>3. w3 \in Work
    <3>1. Empty \in Database
      BY DEF Empty, Database
    <3>. QED
      BY <2>2, <3>1, WorkUpdates
  <2>4. w \in Work
    BY <2>3, WorkUpdates
  <2>5. work' = [work EXCEPT ![m] = w]
    <3>1. work' = [work EXCEPT ![m] = [[[[work[m] EXCEPT !.script = rest] EXCEPT !.open = FALSE]
                         EXCEPT !.db = Empty] EXCEPT !.wrote = @ \/ work[m].db # disk]]
      BY <1>4, Zenon DEF TypeOK
    <3>2. w3.wrote = work[m].wrote
      BY <1>0 DEF Work
    <3>. QED
      BY <3>1, <3>2, Zenon
  <2>6. w.pc = "run" /\ w.op = work[m].op /\ w.todo = work[m].todo /\ w.script = rest
    BY <1>0 DEF Work
  <2>7. ~ w.open
    BY <1>0 DEF Work
  <2>. QED
    BY <1>4, <2>4, <2>5, <2>6, <2>7
<1>5. CASE /\ work[m].script # <<>> /\ Runs(s, View(m)) /\ Writes(m, db)
           /\ work' = [work EXCEPT ![m] = [Written(m, db) EXCEPT !.script = rest]]
  <2>1. db \in Database
    BY <1>0, <1>5, ScriptParts, ViewType, EffectType
  <2>2. PICK u : u = Written(m, db)
    OBVIOUS
  <2>3. u \in Work
    BY <1>0, <2>1, <2>2, WorkUpdates DEF Written
  <2>. DEFINE w == [u EXCEPT !.script = rest]
  <2>4. w \in Work
    BY <1>0, <1>5, <2>3, WorkUpdates, ScriptParts
  <2>5. work' = [work EXCEPT ![m] = w]
    BY <1>5, <2>2, Zenon
  <2>6. u.pc = "run" /\ u.op = work[m].op /\ u.todo = work[m].todo /\ u.open = work[m].open
    BY <1>0, <2>2 DEF Written, Work
  <2>7. work[m].open => u.wrote = work[m].wrote /\ u.db = db
    BY <1>0, <2>2 DEF Written, Work
  <2>8. work[m].open => db = Effect(s, work[m].db)
    BY DEF View
  <2>9. w.pc = u.pc /\ w.op = u.op /\ w.todo = u.todo /\ w.open = u.open /\ w.wrote = u.wrote
        /\ w.db = u.db /\ w.script = rest
    BY <2>3 DEF Work
  <2>10. UNCHANGED holder /\ disk' = IF work[m].open THEN disk ELSE db
    BY <1>5 DEF Writes
  <2>11. \E y \in Work :
            /\ work' = [work EXCEPT ![m] = y]
            /\ y.pc = "run" /\ y.op = work[m].op /\ y.todo = work[m].todo
            /\ y.script = rest /\ y.open = work[m].open
            /\ work[m].open => y.wrote = work[m].wrote /\ y.db = Effect(s, work[m].db)
    BY <2>4, <2>5, <2>6, <2>7, <2>8, <2>9
  <2>12. (work[m].open => disk' = disk) /\ (~ work[m].open => disk' \in Database)
    BY <2>1, <2>10
  <2>. QED
    BY <1>5, <2>10, <2>11, <2>12, Zenon
<1>. QED
  BY <1>1, <1>2, <1>3, <1>4, <1>5

LEMMA RecordMoves ==
    ASSUME NEW m \in Migrators, TypeOK, work[m].todo # <<>>, Record(m)
    PROVE  \/ Fail(m)
           \/ /\ UNCHANGED holder
              /\ work[m].open => disk' = disk
              /\ ~ work[m].open => disk' \in Database
              /\ \E w \in Work :
                    /\ work' = [work EXCEPT ![m] = w]
                    /\ w.op = work[m].op /\ w.script = work[m].script /\ w.open = work[m].open
                    /\ work[m].open => w.wrote = work[m].wrote
                    /\ \/ /\ work[m].op = "apply" /\ w.pc = "check" /\ w.todo = Tail(work[m].todo)
                          /\ View(m).history[Head(work[m].todo).version] = NoRow
                          /\ work[m].open => w.db = [work[m].db EXCEPT
                                !.history[Head(work[m].todo).version] = Head(work[m].todo).checksum]
                       \/ /\ work[m].op = "rollback" /\ w.pc = "commit" /\ w.todo = work[m].todo
                          /\ work[m].open => w.db = [work[m].db EXCEPT
                                !.history[Head(work[m].todo).version] = NoRow]
<1>. DEFINE mig == Head(work[m].todo)
            v == mig.version
            With(row) == [View(m) EXCEPT !.history[v] = row]
<1>0. /\ work[m] \in Work /\ work[m].todo \in Seq(Library) /\ disk \in Database
      /\ work[m].open \in BOOLEAN /\ work[m].wrote \in BOOLEAN /\ work[m].pc = "record"
      /\ mig \in Library /\ v \in Versions /\ mig.checksum \in Checksums
      /\ Tail(work[m].todo) \in Seq(Library) /\ work[m].applied \subseteq Versions
  <2>1. work[m] \in Work /\ work[m].todo \in Seq(Library) /\ disk \in Database
      /\ work[m].open \in BOOLEAN /\ work[m].wrote \in BOOLEAN /\ work[m].pc = "record"
      /\ work[m].applied \subseteq Versions
    BY DEF TypeOK, Work, Record
  <2>2. mig \in Library /\ Tail(work[m].todo) \in Seq(Library)
    BY <2>1, ScriptParts
  <2>. QED
    BY <2>1, <2>2, LibraryAssumption DEF Migration
<1>1. \/ Fail(m)
      \/ /\ work[m].op = "apply" /\ View(m).history[v] = NoRow /\ Writes(m, With(mig.checksum))
         /\ work' = [work EXCEPT ![m] =
                         [Written(m, With(mig.checksum)) EXCEPT
                             !.pc = "check", !.todo = Tail(@), !.applied = @ \cup {v}]]
      \/ /\ work[m].op = "rollback" /\ Writes(m, With(NoRow))
         /\ work' = [work EXCEPT ![m] = [Written(m, With(NoRow)) EXCEPT !.pc = "commit"]]
  BY Zenon DEF Record
<1>2. ASSUME NEW row \in Checksums \cup {NoRow}, NEW u, u = Written(m, With(row))
      PROVE  /\ u \in Work
             /\ u.pc = work[m].pc /\ u.op = work[m].op /\ u.todo = work[m].todo
             /\ u.script = work[m].script /\ u.open = work[m].open
             /\ u.applied = work[m].applied
             /\ work[m].open => u.wrote = work[m].wrote
             /\ work[m].open => u.db = [work[m].db EXCEPT !.history[v] = row]
             /\ Writes(m, With(row)) => /\ UNCHANGED holder
                                        /\ work[m].open => disk' = disk
                                        /\ ~ work[m].open => disk' \in Database
  <2>1. With(row) \in Database
    BY <1>0, ViewType, WithRowType
  <2>2. PICK db : db = With(row)
    OBVIOUS
  <2>3. u = Written(m, db) /\ db \in Database
    BY <1>2, <2>1, <2>2
  <2>4. CASE work[m].open
    <3>1. u = [work[m] EXCEPT !.db = db] /\ db = [work[m].db EXCEPT !.history[v] = row]
      BY <2>2, <2>3, <2>4 DEF Written, View
    <3>2. Writes(m, With(row)) => UNCHANGED <<holder, disk>>
      BY <2>4 DEF Writes
    <3>3. u \in Work
      <4>1. work[m] \in Work /\ db \in Database
        BY <1>0, <2>3
      <4>2. [work[m] EXCEPT !.db = db] \in Work
        BY <4>1, WorkUpdates
      <4>. QED
        BY <3>1, <4>2
    <3>4. u.pc = work[m].pc /\ u.op = work[m].op /\ u.todo = work[m].todo
             /\ u.script = work[m].script /\ u.open = work[m].open
             /\ u.applied = work[m].applied /\ u.wrote = work[m].wrote /\ u.db = db
      BY <1>0, <3>1 DEF Work
    <3>. QED
      BY <2>4, <3>1, <3>2, <3>3, <3>4, Zenon
  <2>5. CASE ~ work[m].open
    <3>1. u = [work[m] EXCEPT !.wrote = TRUE]
      BY <2>3, <2>5 DEF Written
    <3>2. Writes(m, With(row)) => UNCHANGED holder /\ disk' \in Database
      BY <2>1, <2>5 DEF Writes
    <3>3. u \in Work
      BY <1>0, <3>1, WorkUpdates
    <3>4. u.pc = work[m].pc /\ u.op = work[m].op /\ u.todo = work[m].todo
             /\ u.script = work[m].script /\ u.open = work[m].open
             /\ u.applied = work[m].applied
      BY <1>0, <3>1 DEF Work
    <3>. QED
      BY <2>5, <3>2, <3>3, <3>4
  <2>. QED
    BY <2>4, <2>5
<1>3. CASE Fail(m)
  BY <1>3
<1>4. CASE /\ work[m].op = "apply" /\ View(m).history[v] = NoRow /\ Writes(m, With(mig.checksum))
           /\ work' = [work EXCEPT ![m] =
                         [Written(m, With(mig.checksum)) EXCEPT
                             !.pc = "check", !.todo = Tail(@), !.applied = @ \cup {v}]]
  <2>0. PICK row \in Checksums \cup {NoRow} : row = mig.checksum
    BY <1>0
  <2>1. PICK u : u = Written(m, With(row))
    OBVIOUS
  <2>2. /\ u \in Work
        /\ u.op = work[m].op /\ u.todo = work[m].todo /\ u.script = work[m].script
        /\ u.open = work[m].open /\ u.applied = work[m].applied
        /\ work[m].open => u.wrote = work[m].wrote
        /\ work[m].open => u.db = [work[m].db EXCEPT !.history[v] = mig.checksum]
        /\ UNCHANGED holder
        /\ work[m].open => disk' = disk
        /\ ~ work[m].open => disk' \in Database
    <3>1. Writes(m, With(row))
      BY <1>4, <2>0
    <3>. QED
      BY <1>2, <2>0, <2>1, <3>1
  <2>. DEFINE w1 == [u EXCEPT !.pc = "check"]
              w2 == [w1 EXCEPT !.todo = Tail(u.todo)]
              w == [w2 EXCEPT !.applied = u.applied \cup {v}]
  <2>3. w1 \in Work
    BY <2>2, WorkUpdates DEF Steps
  <2>4. w2 \in Work
    BY <1>0, <2>2, <2>3, WorkUpdates
  <2>5. w \in Work
    BY <1>0, <2>2, <2>4, WorkUpdates
  <2>6. work' = [work EXCEPT ![m] = w]
    <3>1. work' = [work EXCEPT ![m] =
                     [u EXCEPT !.pc = "check", !.todo = Tail(@), !.applied = @ \cup {v}]]
      BY <1>4, <2>0, <2>1, Zenon
    <3>2. [u EXCEPT !.pc = "check", !.todo = Tail(@), !.applied = @ \cup {v}] = w
      BY <2>2 DEF Work
    <3>. QED
      BY <3>1, <3>2, Zenon
  <2>7. w.pc = "check" /\ w.op = u.op /\ w.todo = Tail(u.todo) /\ w.script = u.script
        /\ w.open = u.open /\ w.wrote = u.wrote /\ w.db = u.db
    BY <2>2 DEF Work
  <2>8. PICK x \in Work :
          /\ work' = [work EXCEPT ![m] = x]
          /\ x.pc = "check" /\ x.op = u.op /\ x.todo = Tail(u.todo) /\ x.script = u.script
          /\ x.open = u.open /\ x.wrote = u.wrote /\ x.db = u.db
    BY <2>5, <2>6, <2>7
  <2>9. \E y \in Work :
           /\ work' = [work EXCEPT ![m] = y]
           /\ y.op = work[m].op /\ y.script = work[m].script /\ y.open = work[m].open
           /\ work[m].open => y.wrote = work[m].wrote
           /\ y.pc = "check" /\ y.todo = Tail(work[m].todo)
           /\ work[m].open => y.db = [work[m].db EXCEPT !.history[v] = mig.checksum]
    BY <2>2, <2>8
  <2>. QED
    BY <1>4, <2>2, <2>9, Zenon
<1>5. CASE /\ work[m].op = "rollback" /\ Writes(m, With(NoRow))
           /\ work' = [work EXCEPT ![m] = [Written(m, With(NoRow)) EXCEPT !.pc = "commit"]]
  <2>1. PICK u : u = Written(m, With(NoRow))
    OBVIOUS
  <2>2. /\ u \in Work
        /\ u.op = work[m].op /\ u.todo = work[m].todo /\ u.script = work[m].script
        /\ u.open = work[m].open
        /\ work[m].open => u.wrote = work[m].wrote
        /\ work[m].open => u.db = [work[m].db EXCEPT !.history[v] = NoRow]
        /\ UNCHANGED holder
        /\ work[m].open => disk' = disk
        /\ ~ work[m].open => disk' \in Database
    BY <1>0, <1>2, <1>5, <2>1
  <2>. DEFINE w == [u EXCEPT !.pc = "commit"]
  <2>3. w \in Work
    BY <2>2, WorkUpdates DEF Steps
  <2>4. work' = [work EXCEPT ![m] = w]
    BY <1>5, <2>1, Zenon
  <2>5. w.pc = "commit" /\ w.op = u.op /\ w.todo = u.todo /\ w.script = u.script
        /\ w.open = u.open /\ w.wrote = u.wrote /\ w.db = u.db
    BY <2>2 DEF Work
  <2>6. PICK x \in Work :
          /\ work' = [work EXCEPT ![m] = x]
          /\ x.pc = "commit" /\ x.op = u.op /\ x.todo = u.todo /\ x.script = u.script
          /\ x.open = u.open /\ x.wrote = u.wrote /\ x.db = u.db
    BY <2>3, <2>4, <2>5
  <2>7. \E y \in Work :
           /\ work' = [work EXCEPT ![m] = y]
           /\ y.op = work[m].op /\ y.script = work[m].script /\ y.open = work[m].open
           /\ work[m].open => y.wrote = work[m].wrote
           /\ y.pc = "commit" /\ y.todo = work[m].todo
           /\ work[m].open => y.db = [work[m].db EXCEPT !.history[v] = NoRow]
    BY <2>2, <2>6
  <2>. QED
    BY <1>5, <2>2, <2>7, Zenon
<1>. QED
  BY <1>1, <1>3, <1>4, <1>5

LEMMA CommitMoves ==
    ASSUME NEW m \in Migrators, TypeOK, Commit(m)
    PROVE  \/ Fail(m)
           \/ /\ work[m].open /\ disk' = work[m].db
              /\ holder' = IF holder = m THEN Nobody ELSE holder
              /\ \E answer \in {"done", "unsure"}, wrote \in BOOLEAN, w \in Work :
                    work' = [work EXCEPT ![m] = w] /\ Over(w, answer, wrote)
<1>1. CASE Fail(m)
  BY <1>1
<1>2. CASE ~ Fail(m)
  <2>1. /\ work[m].open /\ disk' = work[m].db
        /\ holder' = IF holder = m THEN Nobody ELSE holder
    BY <1>2, Zenon DEF Commit
  <2>2. PICK wrote \in BOOLEAN : wrote = (work[m].db # disk)
    OBVIOUS
  <2>3. PICK answer \in {"done", "unsure"} : Answer(m, answer, work[m].applied, wrote)
    BY <1>2, <2>2, Zenon DEF Commit
  <2>4. work[m].applied \in SUBSET Versions
    BY DEF TypeOK, Work
  <2>5. \E w \in Work : work' = [work EXCEPT ![m] = w] /\ Over(w, answer, wrote)
    BY <2>3, <2>4, AnswerMoves DEF Answers
  <2>. QED
    BY <2>1, <2>5
<1>. QED
  BY <1>1, <1>2

-----------------------------------------------------------------------------
(* Types.  A step that moves m keeps them when the new state of m is in     *)
(* keeping with the lock and has a migration at hand where one is needed.  *)
LEMMA TypeStep ==
    ASSUME TInv, NEW m \in Migrators, NEW w \in Work, work' = [work EXCEPT ![m] = w],
           UNCHANGED driver, disk' \in Database, holder' \in Migrators \cup {Nobody},
           w.open <=> holder' = m,
           \A n \in Migrators \ {m} : holder' = n <=> holder = n,
           w.open => w.pc \in Steps,
           w.pc \in Steps => w.todo \in Seq(Admitted),
           w.pc \in {"run", "record"} \/ (w.pc \in Steps /\ w.op = "rollback") => w.todo # <<>>
    PROVE  TInv'
<1>1. work' \in [Migrators -> Work]
  BY DEF TInv, TypeOK
<1>2. work'[m] = w /\ \A n \in Migrators \ {m} : work'[n] = work[n]
  BY DEF TInv, TypeOK
<1>3. \A n \in Migrators : work'[n].open <=> holder' = n
  BY <1>2 DEF TInv, TypeOK
<1>4. TypeOK'
  BY <1>1, <1>3 DEF TInv, TypeOK
<1>5. WorkAtHand'
  BY <1>2 DEF TInv, WorkAtHand, Busy
<1>. QED
  BY <1>4, <1>5 DEF TInv

LEMMA FailTypes ==
    ASSUME TInv, NEW m \in Migrators, Fail(m), UNCHANGED driver
    PROVE  TInv'
<1>1. PICK w \in Work : work' = [work EXCEPT ![m] = w] /\ Over(w, "failed", work[m].wrote)
  BY FailMoves DEF TInv
<1>2. w.pc = "failed" /\ ~ w.open
  BY <1>1 DEF Over
<1>3. disk' = disk /\ holder' = IF holder = m THEN Nobody ELSE holder
  BY DEF Fail
<1>4. disk' \in Database /\ holder' \in Migrators \cup {Nobody} /\ holder' # m
      /\ \A n \in Migrators \ {m} : holder' = n <=> holder = n
  BY <1>3, NobodyAssumption DEF TInv, TypeOK
<1>. QED
  BY <1>1, <1>2, <1>4, TypeStep DEF Steps

(* A step that leaves the lock and the transaction of m as they are.       *)
LEMMA KeepingTypes ==
    ASSUME TInv, NEW m \in Migrators, NEW w \in Work, work' = [work EXCEPT ![m] = w],
           UNCHANGED <<driver, holder>>, disk' \in Database,
           w.open = work[m].open,
           w.pc \in Steps, w.todo \in Seq(Admitted),
           w.pc \in {"run", "record"} \/ w.op = "rollback" => w.todo # <<>>
    PROVE  TInv'
<1>1. w.open <=> holder' = m
  BY DEF TInv, TypeOK
<1>2. holder' \in Migrators \cup {Nobody} /\ \A n \in Migrators \ {m} : holder' = n <=> holder = n
  BY DEF TInv, TypeOK
<1>. QED
  BY <1>1, <1>2, TypeStep

(* The migrations of an admitted batch.                                    *)
LEMMA AdmittedBatch ==
    ASSUME NEW batch \in Seq(Library), \A i \in DOMAIN batch : ~ Rejected(batch[i])
    PROVE  batch \in Seq(Admitted)
<1>1. Len(batch) \in Nat /\ DOMAIN batch = 1 .. Len(batch) /\ batch \in [1 .. Len(batch) -> Library]
  BY LenProperties
<1>2. batch \in [1 .. Len(batch) -> Admitted]
  BY <1>1 DEF Admitted
<1>. QED
  BY <1>1, <1>2, SeqDef

LEMMA InitTypes == Init => TInv
<1>1. Empty \in Database
  BY DEF Empty, Database
<1>2. ~ Idle.open /\ Idle.pc = "idle"
  BY DEF Idle
<1>. QED
  BY <1>1, <1>2, IdleIsWork, NobodyAssumption
  DEF Init, TInv, TypeOK, WorkAtHand, Busy, Steps

LEMMA NextTypes == TInv /\ [Next]_vars => TInv'
<1>. SUFFICES ASSUME TInv, [Next]_vars PROVE TInv'
  OBVIOUS
<1>. USE DEF Steps
<1>0. /\ TypeOK /\ WorkAtHand /\ disk \in Database
      /\ \A m \in Migrators : work[m] \in Work /\ (work[m].open <=> holder = m)
  BY DEF TInv, TypeOK
<1>1. ASSUME NEW m \in Migrators, NEW batch \in Batches, NEW skip \in BOOLEAN,
             Migrate(m, batch, skip)
      PROVE  TInv'
  <2>0. PICK w \in Work : work' = [work EXCEPT ![m] = w] /\ Begun(w, batch)
    BY <1>1, MigrateMoves
  <2>1. /\ work' = [work EXCEPT ![m] = w]
        /\ \/ Over(w, "failed", FALSE) \/ Over(w, "done", FALSE)
           \/ /\ w.pc = "begin" /\ w.op = "apply" /\ w.todo = batch /\ w.script = <<>>
              /\ ~ w.open /\ ~ w.wrote
              /\ \A i \in DOMAIN batch : ~ Rejected(batch[i])
    BY <2>0 DEF Begun
  <2>2. /\ ~ w.open
        /\ \/ w.pc \in {"failed", "done"}
           \/ w.pc = "begin" /\ w.op = "apply" /\ w.todo \in Seq(Admitted)
    BY <2>1, AdmittedBatch, LibraryAssumption DEF Over
  <2>3. UNCHANGED <<driver, disk, holder>> /\ holder # m
    BY <1>0, <1>1 DEF Migrate, WorkAtHand, TypeOK
  <2>. QED
    BY <1>0, <2>1, <2>2, <2>3, TypeStep DEF TypeOK
<1>2. ASSUME NEW m \in Migrators, NEW mig \in Library, Revert(m, mig)
      PROVE  TInv'
  <2>1. PICK w \in Work :
           /\ work' = [work EXCEPT ![m] = w]
           /\ \/ Over(w, "failed", FALSE)
              \/ /\ w.pc = "begin" /\ w.op = "rollback" /\ w.todo = <<mig>> /\ w.script = <<>>
                 /\ ~ w.open /\ ~ w.wrote /\ ~ Rejected(mig)
    BY <1>2, RevertMoves
  <2>2. /\ ~ w.open
        /\ \/ w.pc = "failed"
           \/ w.pc = "begin" /\ w.todo \in Seq(Admitted) /\ w.todo # <<>>
    <3>1. ~ Rejected(mig) => <<mig>> \in Seq(Admitted) /\ <<mig>> # <<>>
      BY DEF Admitted
    <3>. QED
      BY <2>1, <3>1 DEF Over
  <2>3. UNCHANGED <<driver, disk, holder>> /\ holder # m
    BY <1>0, <1>2 DEF Revert, WorkAtHand, TypeOK
  <2>. QED
    BY <1>0, <2>1, <2>2, <2>3, TypeStep DEF TypeOK
<1>3. ASSUME NEW m \in Migrators, Begin(m)
      PROVE  TInv'
  <2>1. PICK w \in Work :
           /\ work' = [work EXCEPT ![m] = w]
           /\ w.pc = "check" /\ w.op = work[m].op /\ w.todo = work[m].todo
           /\ w.script = work[m].script /\ w.db = disk /\ w.open /\ w.wrote = work[m].wrote
    BY <1>0, <1>3, BeginMoves
  <2>2. holder = Nobody /\ holder' = m /\ UNCHANGED <<driver, disk>> /\ work[m].pc = "begin"
    BY <1>3 DEF Begin
  <2>3. w.todo \in Seq(Admitted) /\ (w.op = "rollback" => w.todo # <<>>)
    BY <1>0, <2>1, <2>2 DEF WorkAtHand, Busy
  <2>. QED
    BY <1>0, <2>1, <2>2, <2>3, TypeStep, NobodyAssumption
<1>4. ASSUME NEW m \in Migrators, CheckApply(m)
      PROVE  TInv'
  <2>1. CASE Fail(m)
    BY <1>4, <2>1, FailTypes DEF CheckApply
  <2>2. CASE ~ Fail(m)
    <3>1. UNCHANGED <<driver, disk, holder>> /\ work[m].pc = "check" /\ work[m].op = "apply"
      BY <1>0, <1>4, <2>2, CheckApplyMoves DEF CheckApply
    <3>2. PICK w \in Work :
             /\ work' = [work EXCEPT ![m] = w]
             /\ Keeps(w, work[m])
             /\ \/ w.pc = "commit" /\ w.todo = work[m].todo
                \/ w.pc = "run" /\ w.todo = work[m].todo /\ work[m].todo # <<>>
                \/ w.pc = "check" /\ w.todo = Tail(work[m].todo) /\ work[m].todo # <<>>
      BY <1>0, <1>4, <2>2, CheckApplyMoves
    <3>3. work[m].todo \in Seq(Admitted)
      BY <1>0, <3>1 DEF WorkAtHand, Busy
    <3>4. w.todo \in Seq(Admitted)
      BY <3>2, <3>3, ScriptParts
    <3>. QED
      BY <1>0, <3>1, <3>2, <3>4, KeepingTypes DEF Keeps
  <2>. QED
    BY <2>1, <2>2
<1>5. ASSUME NEW m \in Migrators, CheckRollback(m)
      PROVE  TInv'
  <2>1. work[m].pc = "check" /\ work[m].op = "rollback" /\ UNCHANGED driver
    BY <1>5 DEF CheckRollback
  <2>2. work[m].todo \in Seq(Admitted) /\ work[m].todo # <<>>
    BY <1>0, <2>1 DEF WorkAtHand, Busy
  <2>3. CASE Fail(m)
    BY <2>1, <2>3, FailTypes
  <2>4. CASE ~ Fail(m)
    <3>1. PICK w \in Work :
             /\ work' = [work EXCEPT ![m] = w]
             /\ Keeps(w, work[m]) /\ w.pc = "run" /\ w.todo = work[m].todo
      BY <1>0, <1>5, <2>2, <2>4, CheckRollbackMoves
    <3>2. UNCHANGED <<disk, holder>>
      BY <1>0, <1>5, <2>2, <2>4, CheckRollbackMoves
    <3>. QED
      BY <1>0, <2>1, <2>2, <3>1, <3>2, KeepingTypes DEF Keeps
  <2>. QED
    BY <2>3, <2>4
<1>6. ASSUME NEW m \in Migrators, Run(m)
      PROVE  TInv'
  <2>1. work[m].pc = "run" /\ UNCHANGED driver
    BY <1>6 DEF Run
  <2>2. work[m].todo \in Seq(Admitted) /\ work[m].todo # <<>>
    BY <1>0, <2>1 DEF WorkAtHand, Busy
  <2>3. CASE Fail(m)
    BY <2>1, <2>3, FailTypes
  <2>4. CASE /\ UNCHANGED <<disk, holder>>
             /\ \E w \in Work :
                   /\ work' = [work EXCEPT ![m] = w]
                   /\ Keeps(w, work[m]) /\ w.db = work[m].db /\ w.todo = work[m].todo
                   /\ work[m].script = <<>> /\ w.pc = "record" /\ w.script = <<>>
    BY <1>0, <2>1, <2>2, <2>4, KeepingTypes DEF Keeps
  <2>5. CASE /\ work[m].open /\ disk' = work[m].db /\ holder' = Nobody
             /\ \E w \in Work :
                   /\ work' = [work EXCEPT ![m] = w]
                   /\ w.pc = "run" /\ w.op = work[m].op /\ w.todo = work[m].todo
                   /\ w.script = Tail(work[m].script) /\ ~ w.open
    <3>1. disk' \in Database
      BY <1>0, <2>5 DEF Work
    <3>2. \A n \in Migrators \ {m} : holder' = n <=> holder = n
      BY <1>0, <2>5, NobodyAssumption
    <3>. QED
      BY <2>1, <2>2, <2>5, <3>1, <3>2, TypeStep, NobodyAssumption
  <2>6. CASE /\ UNCHANGED holder
             /\ work[m].open => disk' = disk
             /\ ~ work[m].open => disk' \in Database
             /\ \E w \in Work :
                   /\ work' = [work EXCEPT ![m] = w]
                   /\ w.pc = "run" /\ w.op = work[m].op /\ w.todo = work[m].todo
                   /\ w.script = Tail(work[m].script) /\ w.open = work[m].open
    <3>1. disk' \in Database
      BY <1>0, <2>6
    <3>. QED
      BY <2>1, <2>2, <2>6, <3>1, KeepingTypes
  <2>. QED
    BY <1>0, <1>6, <2>3, <2>4, <2>5, <2>6, RunMoves
<1>7. ASSUME NEW m \in Migrators, Record(m)
      PROVE  TInv'
  <2>1. work[m].pc = "record" /\ UNCHANGED driver
    BY <1>7 DEF Record
  <2>2. work[m].todo \in Seq(Admitted) /\ work[m].todo # <<>>
    BY <1>0, <2>1 DEF WorkAtHand, Busy
  <2>3. CASE Fail(m)
    BY <2>1, <2>3, FailTypes
  <2>4. CASE ~ Fail(m)
    <3>1. PICK w \in Work :
             /\ work' = [work EXCEPT ![m] = w]
             /\ w.op = work[m].op /\ w.open = work[m].open
             /\ \/ work[m].op = "apply" /\ w.pc = "check" /\ w.todo = Tail(work[m].todo)
                \/ work[m].op = "rollback" /\ w.pc = "commit" /\ w.todo = work[m].todo
      BY <1>0, <1>7, <2>2, <2>4, RecordMoves
    <3>2. UNCHANGED holder /\ disk' \in Database
      BY <1>0, <1>7, <2>2, <2>4, RecordMoves
    <3>3. Tail(work[m].todo) \in Seq(Admitted)
      BY <2>2, ScriptParts
    <3>. QED
      BY <2>1, <2>2, <3>1, <3>2, <3>3, KeepingTypes
  <2>. QED
    BY <2>3, <2>4
<1>8. ASSUME NEW m \in Migrators, Commit(m)
      PROVE  TInv'
  <2>1. UNCHANGED driver
    BY <1>8 DEF Commit
  <2>2. CASE Fail(m)
    BY <2>1, <2>2, FailTypes
  <2>3. CASE ~ Fail(m)
    <3>1. /\ disk' = work[m].db
          /\ holder' = IF holder = m THEN Nobody ELSE holder
          /\ \E answer \in {"done", "unsure"}, wrote \in BOOLEAN, w \in Work :
                work' = [work EXCEPT ![m] = w] /\ Over(w, answer, wrote)
      BY <1>0, <1>8, <2>3, CommitMoves
    <3>2. PICK w \in Work : work' = [work EXCEPT ![m] = w] /\ w.pc \in {"done", "unsure"} /\ ~ w.open
      BY <3>1 DEF Over
    <3>3. disk' \in Database /\ holder' \in Migrators \cup {Nobody} /\ holder' # m
          /\ \A n \in Migrators \ {m} : holder' = n <=> holder = n
      BY <1>0, <3>1, NobodyAssumption DEF TypeOK, Work
    <3>. QED
      BY <2>1, <3>2, <3>3, TypeStep
  <2>. QED
    BY <2>2, <2>3
<1>9. ASSUME NEW m \in Migrators, Break(m)
      PROVE  TInv'
  BY <1>9, FailTypes DEF Break
<1>10. CASE UNCHANGED vars
  BY <1>10 DEF vars, TInv, TypeOK, WorkAtHand, Busy
<1>. QED
  BY <1>1, <1>2, <1>3, <1>4, <1>5, <1>6, <1>7, <1>8, <1>9, <1>10 DEF Next

(* The variables have their types, and a transaction is open exactly where *)
(* the lock is held, whatever the scripts do.                              *)
THEOREM TypeCorrect == Spec => []TypeOK
<1>1. Init => TInv
  BY InitTypes
<1>2. TInv /\ [Next]_vars => TInv'
  BY NextTypes
<1>3. TInv => TypeOK
  BY DEF TInv
<1>. QED
  BY <1>1, <1>2, <1>3, PTL DEF Spec

-----------------------------------------------------------------------------
(* Transactions, when no script ends one.                                  *)
LEMMA TransactionalStep ==
    ASSUME FInv, NEW m \in Migrators, NEW w, work' = [work EXCEPT ![m] = w],
           w.pc \in {"check", "run", "record", "commit"} => w.open,
           w.pc \in Steps \cup {"idle", "failed"} => ~ w.wrote,
           \A i \in DOMAIN w.script : w.script[i].do # "end"
    PROVE  Transactional'
<1>1. work'[m] = w /\ \A n \in Migrators \ {m} : work'[n] = work[n]
  BY DEF FInv, TInv, TypeOK
<1>2. ASSUME NEW n \in Migrators
      PROVE  /\ work'[n].pc \in {"check", "run", "record", "commit"} => work'[n].open
             /\ work'[n].pc \in Steps \cup {"idle", "failed"} => ~ work'[n].wrote
             /\ \A i \in DOMAIN work'[n].script : work'[n].script[i].do # "end"
  BY <1>1 DEF FInv, Transactional
<1>. QED
  BY <1>2 DEF Transactional

LEMMA EmptyScript == \A i \in DOMAIN <<>> : <<>>[i].do # "end"
  BY LenProperties, EmptySeq

LEMMA FailTransactional ==
    ASSUME FInv, NEW m \in Migrators, Busy(m), Fail(m)
    PROVE  Transactional' /\ UNCHANGED disk
<1>1. PICK w \in Work : work' = [work EXCEPT ![m] = w] /\ Over(w, "failed", work[m].wrote)
  BY FailMoves DEF FInv, TInv
<1>2. ~ work[m].wrote
  BY DEF FInv, Transactional, Busy
<1>3. w.pc = "failed" /\ ~ w.wrote /\ w.script = <<>>
  BY <1>1, <1>2 DEF Over
<1>4. \A i \in DOMAIN w.script : w.script[i].do # "end"
  BY <1>3, EmptyScript
<1>5. UNCHANGED disk
  BY DEF Fail
<1>. QED
  BY <1>1, <1>3, <1>4, <1>5, TransactionalStep

(* The scripts of what is still to do do not end a transaction.            *)
LEMMA NextMigration ==
    ASSUME TInv, NEW m \in Migrators, Busy(m), work[m].todo # <<>>
    PROVE  /\ Head(work[m].todo) \in Library /\ ~ Rejected(Head(work[m].todo))
           /\ Tail(work[m].todo) \in Seq(Admitted)
<1>1. work[m].todo \in Seq(Admitted)
  BY DEF TInv, WorkAtHand
<1>. QED
  BY <1>1, ScriptParts DEF Admitted

LEMMA InitTransactional == Init => Transactional
<1>1. Idle.pc = "idle" /\ Idle.script = <<>>
  BY DEF Idle
<1>2. ~ Idle.wrote
  BY DEF Idle
<1>. QED
  BY <1>1, <1>2, EmptyScript DEF Init, Transactional

(* Nothing but a COMMIT changes the database.                              *)
LEMMA NextTransactional ==
    ASSUME EndFree(Library), FInv, [Next]_vars
    PROVE  /\ Transactional'
           /\ \/ UNCHANGED disk
              \/ \E m \in Migrators : Commit(m) /\ work[m].open /\ disk' = work[m].db
<1>0. TInv /\ TypeOK /\ Transactional
  BY DEF FInv, TInv
<1>. USE DEF Steps
<1>1. ASSUME NEW m \in Migrators, NEW batch \in Batches, NEW skip \in BOOLEAN,
             Migrate(m, batch, skip)
      PROVE  Transactional' /\ UNCHANGED disk
  <2>0. PICK w \in Work : work' = [work EXCEPT ![m] = w] /\ Begun(w, batch)
    BY <1>1, MigrateMoves
  <2>1. /\ work' = [work EXCEPT ![m] = w]
        /\ \/ Over(w, "failed", FALSE) \/ Over(w, "done", FALSE)
           \/ /\ w.pc = "begin" /\ w.op = "apply" /\ w.todo = batch /\ w.script = <<>>
              /\ ~ w.open /\ ~ w.wrote
              /\ \A i \in DOMAIN batch : ~ Rejected(batch[i])
    BY <2>0 DEF Begun
  <2>2. UNCHANGED disk
    BY <1>1 DEF Migrate
  <2>3. w.pc \in {"failed", "done", "begin"} /\ ~ w.wrote /\ w.script = <<>>
    BY <2>1 DEF Over
  <2>4. \A i \in DOMAIN w.script : w.script[i].do # "end"
    BY <2>3, EmptyScript
  <2>. QED
    BY <2>1, <2>2, <2>3, <2>4, TransactionalStep
<1>2. ASSUME NEW m \in Migrators, NEW mig \in Library, Revert(m, mig)
      PROVE  Transactional' /\ UNCHANGED disk
  <2>1. PICK w \in Work :
           /\ work' = [work EXCEPT ![m] = w]
           /\ w.pc \in {"failed", "begin"} /\ ~ w.wrote /\ w.script = <<>>
    BY <1>2, RevertMoves DEF Over
  <2>2. UNCHANGED disk
    BY <1>2 DEF Revert
  <2>3. \A i \in DOMAIN w.script : w.script[i].do # "end"
    BY <2>1, EmptyScript
  <2>. QED
    BY <2>1, <2>2, <2>3, TransactionalStep
<1>3. ASSUME NEW m \in Migrators, Begin(m)
      PROVE  Transactional' /\ UNCHANGED disk
  <2>1. PICK w \in Work :
           /\ work' = [work EXCEPT ![m] = w]
           /\ w.pc = "check" /\ w.script = work[m].script /\ w.open /\ w.wrote = work[m].wrote
    BY <1>0, <1>3, BeginMoves
  <2>2. ~ work[m].wrote /\ \A i \in DOMAIN work[m].script : work[m].script[i].do # "end"
    BY <1>0, <1>3 DEF Transactional, Begin
  <2>3. UNCHANGED disk
    BY <1>3 DEF Begin
  <2>. QED
    BY <2>1, <2>2, <2>3, TransactionalStep
<1>4. ASSUME NEW m \in Migrators, CheckApply(m)
      PROVE  Transactional' /\ UNCHANGED disk
  <2>1. Busy(m) /\ work[m].open /\ ~ work[m].wrote
        /\ \A i \in DOMAIN work[m].script : work[m].script[i].do # "end"
    BY <1>0, <1>4 DEF CheckApply, Busy, Transactional
  <2>2. CASE Fail(m)
    BY <2>1, <2>2, FailTransactional
  <2>3. CASE ~ Fail(m)
    <3>1. PICK w \in Work :
             /\ work' = [work EXCEPT ![m] = w] /\ Keeps(w, work[m])
             /\ \/ w.script = work[m].script
                \/ work[m].todo # <<>> /\ w.script = Head(work[m].todo).up
      BY <1>0, <1>4, <2>3, CheckApplyMoves
    <3>2. UNCHANGED disk
      BY <1>0, <1>4, <2>3, CheckApplyMoves
    <3>3. \A i \in DOMAIN w.script : w.script[i].do # "end"
      BY <1>0, <2>1, <3>1, NextMigration DEF EndFree
    <3>. QED
      BY <2>1, <3>1, <3>2, <3>3, TransactionalStep DEF Keeps
  <2>. QED
    BY <2>2, <2>3
<1>5. ASSUME NEW m \in Migrators, CheckRollback(m)
      PROVE  Transactional' /\ UNCHANGED disk
  <2>1. Busy(m) /\ work[m].open /\ ~ work[m].wrote /\ work[m].todo # <<>>
    BY <1>0, <1>5 DEF CheckRollback, Busy, Transactional, TInv, WorkAtHand
  <2>2. CASE Fail(m)
    BY <2>1, <2>2, FailTransactional
  <2>3. CASE ~ Fail(m)
    <3>1. PICK w \in Work :
             /\ work' = [work EXCEPT ![m] = w] /\ Keeps(w, work[m])
             /\ w.script = Head(work[m].todo).down
      BY <1>0, <1>5, <2>1, <2>3, CheckRollbackMoves
    <3>2. UNCHANGED disk
      BY <1>0, <1>5, <2>1, <2>3, CheckRollbackMoves
    <3>3. \A i \in DOMAIN w.script : w.script[i].do # "end"
      BY <1>0, <2>1, <3>1, NextMigration DEF EndFree
    <3>. QED
      BY <2>1, <3>1, <3>2, <3>3, TransactionalStep DEF Keeps
  <2>. QED
    BY <2>2, <2>3
<1>6. ASSUME NEW m \in Migrators, Run(m)
      PROVE  Transactional' /\ UNCHANGED disk
  <2>1. Busy(m) /\ work[m].open /\ ~ work[m].wrote /\ work[m].script \in Seq(Stmts)
        /\ \A i \in DOMAIN work[m].script : work[m].script[i].do # "end"
    BY <1>0, <1>6 DEF Run, Busy, Transactional, TypeOK, Work
  <2>2. work[m].script # <<>> =>
           /\ Head(work[m].script).do # "end"
           /\ \A i \in DOMAIN Tail(work[m].script) : Tail(work[m].script)[i].do # "end"
    BY <2>1, ScriptParts
  <2>3. CASE Fail(m)
    BY <2>1, <2>3, FailTransactional
  <2>4. CASE ~ Fail(m)
    <3>1. \E w \in Work :
             /\ work' = [work EXCEPT ![m] = w]
             /\ w.open = work[m].open /\ w.wrote = work[m].wrote
             /\ \/ w.script = <<>>
                \/ work[m].script # <<>> /\ w.script = Tail(work[m].script)
      BY <1>0, <1>6, <2>1, <2>2, <2>4, RunMoves DEF Keeps
    <3>2. UNCHANGED disk
      BY <1>0, <1>6, <2>1, <2>2, <2>4, RunMoves
    <3>3. PICK w \in Work :
             /\ work' = [work EXCEPT ![m] = w]
             /\ w.open = work[m].open /\ w.wrote = work[m].wrote
             /\ \/ w.script = <<>>
                \/ work[m].script # <<>> /\ w.script = Tail(work[m].script)
      BY <3>1
    <3>4. \A i \in DOMAIN w.script : w.script[i].do # "end"
      BY <2>2, <3>3, EmptyScript
    <3>. QED
      BY <2>1, <3>2, <3>3, <3>4, TransactionalStep
  <2>. QED
    BY <2>3, <2>4
<1>7. ASSUME NEW m \in Migrators, Record(m)
      PROVE  Transactional' /\ UNCHANGED disk
  <2>1. Busy(m) /\ work[m].open /\ ~ work[m].wrote /\ work[m].todo # <<>>
        /\ \A i \in DOMAIN work[m].script : work[m].script[i].do # "end"
    BY <1>0, <1>7 DEF Record, Busy, Transactional, TInv, WorkAtHand
  <2>2. CASE Fail(m)
    BY <2>1, <2>2, FailTransactional
  <2>3. CASE ~ Fail(m)
    <3>1. PICK w \in Work :
             /\ work' = [work EXCEPT ![m] = w]
             /\ w.open = work[m].open /\ w.wrote = work[m].wrote /\ w.script = work[m].script
      BY <1>0, <1>7, <2>1, <2>3, RecordMoves
    <3>2. UNCHANGED disk
      BY <1>0, <1>7, <2>1, <2>3, RecordMoves
    <3>. QED
      BY <2>1, <3>1, <3>2, TransactionalStep
  <2>. QED
    BY <2>2, <2>3
<1>8. ASSUME NEW m \in Migrators, Commit(m)
      PROVE  Transactional' /\ (UNCHANGED disk \/ (work[m].open /\ disk' = work[m].db))
  <2>1. Busy(m)
    BY <1>8 DEF Commit, Busy
  <2>2. CASE Fail(m)
    BY <2>1, <2>2, FailTransactional
  <2>3. CASE ~ Fail(m)
    <3>1. work[m].open /\ disk' = work[m].db
      BY <1>0, <1>8, <2>3, CommitMoves
    <3>2. PICK w \in Work : /\ work' = [work EXCEPT ![m] = w]
                            /\ w.pc \in {"done", "unsure"} /\ w.script = <<>>
      BY <1>0, <1>8, <2>3, CommitMoves DEF Over
    <3>3. \A i \in DOMAIN w.script : w.script[i].do # "end"
      BY <3>2, EmptyScript
    <3>. QED
      BY <3>1, <3>2, <3>3, TransactionalStep
  <2>. QED
    BY <2>2, <2>3
<1>9. ASSUME NEW m \in Migrators, Break(m)
      PROVE  Transactional' /\ UNCHANGED disk
  BY <1>9, FailTransactional DEF Break
<1>10. CASE UNCHANGED vars
  BY <1>0, <1>10 DEF vars, Transactional
<1>. QED
  BY <1>1, <1>2, <1>3, <1>4, <1>5, <1>6, <1>7, <1>8, <1>9, <1>10 DEF Next

(* A command that answers with an error has changed nothing, as long as no *)
(* migration at hand contains END.                                         *)
THEOREM FailuresAreAtomic ==
    ASSUME EndFree(Library)
    PROVE  Spec => []FailedChangesNothing
<1>1. Init => FInv
  BY InitTypes, InitTransactional DEF FInv
<1>2. FInv /\ [Next]_vars => FInv'
  BY NextTypes, NextTransactional DEF FInv
<1>3. FInv => FailedChangesNothing
  BY DEF FInv, Transactional, FailedChangesNothing
<1>. QED
  BY <1>1, <1>2, <1>3, PTL DEF Spec

-----------------------------------------------------------------------------
(* The parts and the kinds of a script, statement by statement.            *)
LEMMA ScriptSplit ==
    ASSUME NEW script \in Seq(Stmts), script # <<>>
    PROVE  /\ PartsOf(script) = {Head(script).part} \cup PartsOf(Tail(script))
           /\ Head(script).do = "create" /\ Fine(Tail(script)) => Fine(script)
           /\ \A do : (\A i \in DOMAIN script : script[i].do # do) =>
                         /\ Head(script).do # do
                         /\ \A i \in DOMAIN Tail(script) : Tail(script)[i].do # do
           /\ \A do : (\A i \in DOMAIN script : script[i].do = do) =>
                         /\ Head(script).do = do
                         /\ \A i \in DOMAIN Tail(script) : Tail(script)[i].do = do
<1>. DEFINE tail == Tail(script)
<1>1. /\ 1 \in DOMAIN script /\ Head(script) = script[1]
      /\ \A i \in DOMAIN tail : i + 1 \in DOMAIN script /\ tail[i] = script[i + 1]
      /\ \A i \in DOMAIN script \ {1} : i - 1 \in DOMAIN tail /\ script[i] = tail[i - 1]
  BY ScriptParts
<1>2. PartsOf(script) = {Head(script).part} \cup PartsOf(tail)
  <2>1. ASSUME NEW p \in PartsOf(script) PROVE p \in {Head(script).part} \cup PartsOf(tail)
    <3>1. PICK i \in DOMAIN script : p = script[i].part
      BY <2>1 DEF PartsOf
    <3>2. CASE i = 1
      BY <1>1, <3>1, <3>2
    <3>3. CASE i # 1
      BY <1>1, <3>1, <3>3 DEF PartsOf
    <3>. QED
      BY <3>2, <3>3
  <2>2. ASSUME NEW p \in {Head(script).part} \cup PartsOf(tail) PROVE p \in PartsOf(script)
    BY <1>1, <2>2 DEF PartsOf
  <2>. QED
    BY <2>1, <2>2
<1>3. Head(script).do = "create" /\ Fine(tail) => Fine(script)
  <2>1. ASSUME Head(script).do = "create", Fine(tail), NEW i \in DOMAIN script
        PROVE  script[i].do = "create"
    <3>1. CASE i = 1
      BY <1>1, <2>1, <3>1
    <3>2. CASE i # 1
      <4>1. i - 1 \in DOMAIN tail /\ script[i] = tail[i - 1]
        BY <1>1, <3>2
      <4>. QED
        BY <2>1, <4>1 DEF Fine
    <3>. QED
      BY <3>1, <3>2
  <2>. QED
    BY <2>1 DEF Fine
<1>4. ASSUME NEW do, \A i \in DOMAIN script : script[i].do # do
      PROVE  Head(script).do # do /\ \A i \in DOMAIN tail : tail[i].do # do
  BY <1>1, <1>4
<1>5. ASSUME NEW do, \A i \in DOMAIN script : script[i].do = do
      PROVE  Head(script).do = do /\ \A i \in DOMAIN tail : tail[i].do = do
  BY <1>1, <1>5
<1>. QED
  BY <1>2, <1>3, <1>4, <1>5

(* Nothing is left of a script that has run to its end.                    *)
LEMMA NoScript == PartsOf(<<>>) = {} /\ Fine(<<>>)
  BY LenProperties, EmptySeq DEF PartsOf, Fine

LEMMA WorkingFacts ==
    ASSUME NEW s \in WorkingScripts
    PROVE  s.version \in Versions /\ s.checksum \in Checksums /\ s.checksum # NoRow
  BY LibraryAssumption, NoRowAssumption DEF WorkingScripts, ScriptOf, Migration

LEMMA ChecksumIs ==
    ASSUME NEW S, Distinct(S), NEW s \in S
    PROVE  Ledger!Checksum(S, s.version) = s.checksum
  BY DEF Distinct, Ledger!Checksum

(* A batch that begins.                                                    *)
LEMMA NothingApplied ==
    ASSUME NEW d \in Database
    PROVE  /\ Distinct({})
           /\ WithRows({}, d.history) = d.history
           /\ WithParts({}, d.schema) = d.schema
  BY DEF Database, Distinct, WithRows, WithParts

(* One migration more.                                                     *)
LEMMA OneMore ==
    ASSUME NEW d \in Database, NEW S \in SUBSET WorkingScripts, Distinct(S),
           \A s \in S : d.history[s.version] = NoRow,
           NEW t \in WorkingScripts, WithRows(S, d.history)[t.version] = NoRow
    PROVE  /\ Distinct(S \cup {t})
           /\ \A s \in S \cup {t} : d.history[s.version] = NoRow
           /\ WithRows(S \cup {t}, d.history) = [WithRows(S, d.history) EXCEPT ![t.version] = t.checksum]
           /\ WithParts(S \cup {t}, d.schema) = WithParts(S, d.schema) \cup t.parts
<1>1. \A s \in S : s.version # t.version
  <2>1. SUFFICES ASSUME NEW s \in S, s.version = t.version PROVE FALSE
    OBVIOUS
  <2>2. WithRows(S, d.history)[t.version] = s.checksum
    BY <2>1, ChecksumIs, WorkingFacts DEF WithRows
  <2>. QED
    BY <2>2, WorkingFacts
<1>2. Distinct(S \cup {t})
  BY <1>1 DEF Distinct
<1>3. d.history[t.version] = NoRow
  BY <1>1, WorkingFacts DEF WithRows
<1>4. WithRows(S \cup {t}, d.history) = [WithRows(S, d.history) EXCEPT ![t.version] = t.checksum]
  <2>1. ASSUME NEW v \in Versions
        PROVE  WithRows(S \cup {t}, d.history)[v]
                  = [WithRows(S, d.history) EXCEPT ![t.version] = t.checksum][v]
    <3>1. CASE v = t.version
      <4>1. Ledger!Checksum(S \cup {t}, v) = t.checksum
        BY <1>2, <3>1, ChecksumIs
      <4>. QED
        BY <3>1, <4>1 DEF WithRows
    <3>2. CASE v # t.version /\ \E s \in S : s.version = v
      <4>1. PICK s \in S : s.version = v
        BY <3>2
      <4>2. Ledger!Checksum(S \cup {t}, v) = s.checksum /\ Ledger!Checksum(S, v) = s.checksum
        BY <1>2, <4>1, ChecksumIs
      <4>. QED
        BY <3>2, <4>1, <4>2 DEF WithRows
    <3>3. CASE v # t.version /\ ~ \E s \in S : s.version = v
      BY <3>3 DEF WithRows
    <3>. QED
      BY <3>1, <3>2, <3>3
  <2>. DEFINE f == WithRows(S \cup {t}, d.history)
              g == [WithRows(S, d.history) EXCEPT ![t.version] = t.checksum]
  <2>2. f = [v \in Versions |-> f[v]] /\ g = [v \in Versions |-> g[v]]
    BY DEF WithRows
  <2>3. \A v \in Versions : f[v] = g[v]
    BY <2>1
  <2>. HIDE DEF f, g
  <2>4. f = g
    BY <2>2, <2>3
  <2>. QED
    BY <2>4 DEF f, g
<1>5. WithParts(S \cup {t}, d.schema) = WithParts(S, d.schema) \cup t.parts
  BY DEF WithParts
<1>. QED
  BY <1>1, <1>2, <1>3, <1>4, <1>5

-----------------------------------------------------------------------------
(* What a transaction holds of the database does not change for the others *)
(* when one command moves on.                                              *)
LEMMA WholeStep ==
    ASSUME LInv, NEW m \in Migrators, NEW w, work' = [work EXCEPT ![m] = w], UNCHANGED disk,
           w.open /\ w.op = "apply" => \E S \in SUBSET WorkingScripts : Applying(w, disk, S),
           w.open /\ w.op = "rollback" => Reverting(w, disk)
    PROVE  Whole'
<1>1. work'[m] = w /\ \A n \in Migrators \ {m} : work'[n] = work[n]
  BY DEF LInv, FInv, TInv, TypeOK
<1>2. ASSUME NEW n \in Migrators, work'[n].open
      PROVE  /\ work'[n].op = "apply" =>
                   \E S \in SUBSET WorkingScripts : Applying(work'[n], disk, S)
             /\ work'[n].op = "rollback" => Reverting(work'[n], disk)
  <2>1. CASE n = m
    BY <1>1, <1>2, <2>1
  <2>2. CASE n # m
    <3>1. work'[n] = work[n] /\ work[n].open
      BY <1>1, <1>2, <2>2
    <3>. QED
      BY <3>1, Zenon DEF LInv, Whole
  <2>. QED
    BY <2>1, <2>2
<1>3. ASSUME NEW n \in Migrators, work'[n].open
      PROVE  /\ work'[n].op = "apply" =>
                   \E S \in SUBSET WorkingScripts : Applying(work'[n], disk', S)
             /\ work'[n].op = "rollback" => Reverting(work'[n], disk')
  <2>1. disk' = disk
    OBVIOUS
  <2>. QED
    BY <1>2, <1>3, <2>1, Zenon
<1>. QED
  BY <1>3, Zenon DEF Whole

LEMMA FailWhole ==
    ASSUME LInv, NEW m \in Migrators, Fail(m)
    PROVE  Whole' /\ UNCHANGED disk
<1>1. PICK w \in Work : work' = [work EXCEPT ![m] = w] /\ Over(w, "failed", work[m].wrote)
  BY FailMoves DEF LInv, FInv, TInv
<1>2. ~ w.open
  BY <1>1 DEF Over
<1>3. UNCHANGED disk
  BY DEF Fail
<1>. QED
  BY <1>1, <1>2, <1>3, WholeStep

(* The steps of an apply command inside its transaction.                   *)
LEMMA ApplyChecks ==
    ASSUME Orderly(Library), LInv, NEW m \in Migrators, CheckApply(m)
    PROVE  Whole' /\ UNCHANGED disk
<1>0. /\ TypeOK /\ TInv /\ disk \in Database
      /\ work[m].pc = "check" /\ work[m].op = "apply" /\ work[m].open /\ Busy(m)
  BY DEF LInv, FInv, Transactional, TInv, TypeOK, CheckApply, Busy, Steps
<1>1. PICK S \in SUBSET WorkingScripts : Applying(work[m], disk, S)
  BY <1>0 DEF LInv, Whole
<1>2. CASE Fail(m)
  BY <1>2, FailWhole
<1>3. CASE ~ Fail(m)
  <2>1. UNCHANGED disk
    BY <1>0, <1>3, CheckApplyMoves
  <2>2. PICK w \in Work :
           /\ work' = [work EXCEPT ![m] = w]
           /\ Keeps(w, work[m]) /\ w.db = work[m].db
           /\ \/ w.pc \in {"check", "commit"}
              \/ /\ work[m].todo # <<>> /\ w.pc = "run" /\ w.todo = work[m].todo
                 /\ w.script = Head(work[m].todo).up
    BY <1>0, <1>3, CheckApplyMoves
  <2>3. CASE w.pc \in {"check", "commit"}
    <3>1. Applying(w, disk, S)
      BY <1>0, <1>1, <2>2, <2>3 DEF Applying
    <3>. QED
      BY <1>0, <2>1, <2>2, <3>1, WholeStep DEF Keeps
  <2>4. CASE /\ work[m].todo # <<>> /\ w.pc = "run" /\ w.todo = work[m].todo
             /\ w.script = Head(work[m].todo).up
    <3>1. Head(w.todo) \in Library
      BY <1>0, <2>4, NextMigration
    <3>2. \A i \in DOMAIN w.script : w.script[i].do # "drop"
      BY <2>4, <3>1 DEF Orderly
    <3>3. PartsOf(w.script) = Created(Head(w.todo))
      BY <2>4 DEF PartsOf, Created
    <3>4. Applying(w, disk, S)
      BY <1>0, <1>1, <2>2, <2>4, <3>2, <3>3 DEF Applying
    <3>. QED
      BY <1>0, <2>1, <2>2, <3>4, WholeStep DEF Keeps
  <2>. QED
    BY <2>2, <2>3, <2>4
<1>. QED
  BY <1>2, <1>3

LEMMA ApplyRuns ==
    ASSUME Orderly(Library), LInv, NEW m \in Migrators, Run(m), work[m].op = "apply"
    PROVE  Whole' /\ UNCHANGED disk
<1>0. /\ TypeOK /\ TInv /\ disk \in Database /\ work[m] \in Work
      /\ work[m].pc = "run" /\ work[m].open /\ work[m].script \in Seq(Stmts)
      /\ work[m].db \in Database
      /\ \A i \in DOMAIN work[m].script : work[m].script[i].do # "end"
  BY DEF LInv, FInv, Transactional, TInv, TypeOK, Run, Work
<1>1. PICK S \in SUBSET WorkingScripts : Applying(work[m], disk, S)
  BY <1>0 DEF LInv, Whole
<1>2. CASE Fail(m)
  BY <1>2, FailWhole
<1>3. CASE /\ UNCHANGED <<disk, holder>>
           /\ \E w \in Work :
                 /\ work' = [work EXCEPT ![m] = w]
                 /\ Keeps(w, work[m]) /\ w.db = work[m].db /\ w.todo = work[m].todo
                 /\ work[m].script = <<>> /\ w.pc = "record" /\ w.script = <<>>
  <2>1. PICK w \in Work :
           /\ work' = [work EXCEPT ![m] = w]
           /\ Keeps(w, work[m]) /\ w.db = work[m].db /\ w.todo = work[m].todo
           /\ work[m].script = <<>> /\ w.pc = "record"
    BY <1>3
  <2>2. Applying(w, disk, S)
    BY <1>0, <1>1, <2>1, NoScript DEF Applying
  <2>. QED
    BY <1>3, <2>1, <2>2, WholeStep DEF Keeps
<1>4. CASE /\ UNCHANGED holder
           /\ work[m].open => disk' = disk
           /\ work[m].script # <<>> /\ Runs(Head(work[m].script), View(m))
           /\ \E w \in Work :
                 /\ work' = [work EXCEPT ![m] = w]
                 /\ w.pc = "run" /\ w.op = work[m].op /\ w.todo = work[m].todo
                 /\ w.script = Tail(work[m].script) /\ w.open = work[m].open
                 /\ work[m].open => /\ w.wrote = work[m].wrote
                                    /\ w.db = Effect(Head(work[m].script), work[m].db)
  <2>1. PICK w \in Work :
           /\ work' = [work EXCEPT ![m] = w]
           /\ w.pc = "run" /\ w.op = work[m].op /\ w.todo = work[m].todo
           /\ w.script = Tail(work[m].script) /\ w.open = work[m].open
           /\ w.db = Effect(Head(work[m].script), work[m].db)
    BY <1>0, <1>4
  <2>2. Head(work[m].script).do = "create"
    <3>1. Head(work[m].script).do # "drop"
      BY <1>0, <1>1, <1>4, ScriptSplit DEF Applying
    <3>. QED
      BY <1>4, <3>1 DEF Runs
  <2>3. /\ w.db.history = work[m].db.history
        /\ w.db.schema = work[m].db.schema \cup {Head(work[m].script).part}
    BY <1>0, <2>1, <2>2 DEF Effect, Database
  <2>4. /\ PartsOf(work[m].script) = {Head(work[m].script).part} \cup PartsOf(w.script)
        /\ Fine(w.script) => Fine(work[m].script)
        /\ \A i \in DOMAIN w.script : w.script[i].do # "drop"
    BY <1>0, <1>1, <1>4, <2>1, <2>2, ScriptSplit DEF Applying
  <2>5. w.db.schema \cup PartsOf(w.script) = work[m].db.schema \cup PartsOf(work[m].script)
    BY <2>3, <2>4
  <2>6. Applying(w, disk, S)
    BY <1>0, <1>1, <2>1, <2>3, <2>4, <2>5 DEF Applying
  <2>. QED
    BY <1>0, <1>4, <2>1, <2>6, WholeStep
<1>5. work[m].script # <<>> => Head(work[m].script).do # "end"
  BY <1>0, ScriptSplit
<1>. QED
  BY <1>0, <1>2, <1>3, <1>4, <1>5, RunMoves

LEMMA ApplyRecords ==
    ASSUME Orderly(Library), LInv, NEW m \in Migrators, Record(m), work[m].op = "apply"
    PROVE  Whole' /\ UNCHANGED disk
<1>. DEFINE mig == Head(work[m].todo)
<1>0. /\ TypeOK /\ TInv /\ disk \in Database /\ work[m] \in Work /\ work[m].db \in Database
      /\ work[m].pc = "record" /\ work[m].open /\ Busy(m) /\ work[m].todo # <<>>
  BY DEF LInv, FInv, Transactional, TInv, TypeOK, WorkAtHand, Record, Busy, Work, Steps
<1>1. PICK S \in SUBSET WorkingScripts : Applying(work[m], disk, S)
  BY <1>0 DEF LInv, Whole
<1>2. CASE Fail(m)
  BY <1>2, FailWhole
<1>3. CASE ~ Fail(m)
  <2>1. UNCHANGED disk
    BY <1>0, <1>3, RecordMoves
  <2>2. PICK w \in Work :
           /\ work' = [work EXCEPT ![m] = w]
           /\ w.op = work[m].op /\ w.open = work[m].open
           /\ w.pc = "check" /\ View(m).history[mig.version] = NoRow
           /\ w.db = [work[m].db EXCEPT !.history[mig.version] = mig.checksum]
    BY <1>0, <1>3, RecordMoves
  <2>3. mig \in Library /\ Works(mig)
    BY <1>0, <1>1, NextMigration DEF Applying, Works, Fine
  <2>4. PICK t \in WorkingScripts : t = ScriptOf(mig)
    BY <2>3 DEF WorkingScripts
  <2>5. t.version = mig.version /\ t.checksum = mig.checksum /\ t.parts = Created(mig)
    BY <2>4 DEF ScriptOf
  <2>6. /\ Distinct(S) /\ \A s \in S : disk.history[s.version] = NoRow
        /\ work[m].db.history = WithRows(S, disk.history)
        /\ work[m].db.schema = WithParts(S, disk.schema) \cup Created(mig)
    BY <1>0, <1>1 DEF Applying
  <2>7. WithRows(S, disk.history)[t.version] = NoRow
    BY <1>0, <2>2, <2>5, <2>6 DEF View
  <2>8. /\ Distinct(S \cup {t})
        /\ \A s \in S \cup {t} : disk.history[s.version] = NoRow
        /\ WithRows(S \cup {t}, disk.history)
              = [WithRows(S, disk.history) EXCEPT ![t.version] = t.checksum]
        /\ WithParts(S \cup {t}, disk.schema) = WithParts(S, disk.schema) \cup t.parts
    BY <1>0, <2>6, <2>7, OneMore
  <2>9. /\ w.db.history = [work[m].db.history EXCEPT ![mig.version] = mig.checksum]
        /\ w.db.schema = work[m].db.schema
    BY <1>0, <2>2 DEF Database
  <2>10. Applying(w, disk, S \cup {t})
    BY <2>2, <2>5, <2>6, <2>8, <2>9 DEF Applying
  <2>. QED
    BY <1>0, <2>1, <2>2, <2>10, WholeStep
<1>. QED
  BY <1>2, <1>3

(* The steps of a rollback command inside its transaction.  What it rolls  *)
(* back is a migration that works: the history has its row.                *)
LEMMA TargetWorks ==
    ASSUME Orderly(Library), LInv, NEW mig \in Library, IsTarget(mig, disk.history)
    PROVE  Works(mig)
<1>1. mig.version \in Versions /\ disk.history[mig.version] # NoRow
      /\ disk.history[mig.version] = mig.checksum
  BY LibraryAssumption, NoRowAssumption DEF IsTarget, Migration
<1>2. PICK g \in Library : Works(g) /\ g.version = mig.version
                           /\ g.checksum = disk.history[mig.version]
  BY <1>1 DEF LInv, HistoryIsOfScripts
<1>3. g = mig
  BY <1>1, <1>2 DEF Orderly
<1>. QED
  BY <1>2, <1>3

LEMMA RollbackChecks ==
    ASSUME Orderly(Library), LInv, NEW m \in Migrators, CheckRollback(m)
    PROVE  Whole' /\ UNCHANGED disk
<1>. DEFINE mig == Head(work[m].todo)
<1>0. /\ TypeOK /\ TInv /\ work[m] \in Work
      /\ work[m].pc = "check" /\ work[m].op = "rollback" /\ work[m].open
      /\ Busy(m) /\ work[m].todo # <<>>
  BY DEF LInv, FInv, Transactional, TInv, TypeOK, WorkAtHand, CheckRollback, Busy, Steps
<1>1. Reverting(work[m], disk)
  BY <1>0 DEF LInv, Whole
<1>2. CASE Fail(m)
  BY <1>2, FailWhole
<1>3. CASE ~ Fail(m)
  <2>1. UNCHANGED disk /\ IsTarget(mig, View(m).history)
    BY <1>0, <1>3, CheckRollbackMoves
  <2>2. PICK w \in Work :
           /\ work' = [work EXCEPT ![m] = w]
           /\ Keeps(w, work[m]) /\ w.db = work[m].db
           /\ w.pc = "run" /\ w.todo = work[m].todo /\ w.script = mig.down
    BY <1>0, <1>3, CheckRollbackMoves
  <2>3. work[m].db = disk
    BY <1>0, <1>1 DEF Reverting
  <2>4. IsTarget(mig, disk.history)
    BY <1>0, <2>1, <2>3 DEF View
  <2>5. mig \in Library /\ Works(mig)
    BY <1>0, <2>4, NextMigration, TargetWorks
  <2>6. PartsOf(w.script) = Created(mig) /\ \A i \in DOMAIN w.script : w.script[i].do = "drop"
    BY <2>2, <2>5 DEF Orderly, PartsOf
  <2>7. Reverting(w, disk)
    BY <2>2, <2>3, <2>4, <2>6 DEF Reverting
  <2>. QED
    BY <1>0, <2>1, <2>2, <2>7, WholeStep DEF Keeps
<1>. QED
  BY <1>2, <1>3

LEMMA RollbackRuns ==
    ASSUME Orderly(Library), LInv, NEW m \in Migrators, Run(m), work[m].op = "rollback"
    PROVE  Whole' /\ UNCHANGED disk
<1>0. /\ TypeOK /\ TInv /\ disk \in Database /\ work[m] \in Work
      /\ work[m].pc = "run" /\ work[m].open /\ work[m].script \in Seq(Stmts)
      /\ work[m].db \in Database
      /\ \A i \in DOMAIN work[m].script : work[m].script[i].do # "end"
  BY DEF LInv, FInv, Transactional, TInv, TypeOK, Run, Work
<1>1. Reverting(work[m], disk)
  BY <1>0 DEF LInv, Whole
<1>2. CASE Fail(m)
  BY <1>2, FailWhole
<1>3. CASE /\ UNCHANGED <<disk, holder>>
           /\ \E w \in Work :
                 /\ work' = [work EXCEPT ![m] = w]
                 /\ Keeps(w, work[m]) /\ w.db = work[m].db /\ w.todo = work[m].todo
                 /\ work[m].script = <<>> /\ w.pc = "record" /\ w.script = <<>>
  <2>1. PICK w \in Work :
           /\ work' = [work EXCEPT ![m] = w]
           /\ Keeps(w, work[m]) /\ w.db = work[m].db /\ w.todo = work[m].todo
           /\ work[m].script = <<>> /\ w.pc = "record"
    BY <1>3
  <2>2. Reverting(w, disk)
    BY <1>0, <1>1, <2>1, NoScript DEF Reverting
  <2>. QED
    BY <1>0, <1>3, <2>1, <2>2, WholeStep DEF Keeps
<1>4. CASE /\ UNCHANGED holder
           /\ work[m].open => disk' = disk
           /\ work[m].script # <<>> /\ Runs(Head(work[m].script), View(m))
           /\ \E w \in Work :
                 /\ work' = [work EXCEPT ![m] = w]
                 /\ w.pc = "run" /\ w.op = work[m].op /\ w.todo = work[m].todo
                 /\ w.script = Tail(work[m].script) /\ w.open = work[m].open
                 /\ work[m].open => /\ w.wrote = work[m].wrote
                                    /\ w.db = Effect(Head(work[m].script), work[m].db)
  <2>1. PICK w \in Work :
           /\ work' = [work EXCEPT ![m] = w]
           /\ w.pc = "run" /\ w.op = work[m].op /\ w.todo = work[m].todo
           /\ w.script = Tail(work[m].script) /\ w.open = work[m].open
           /\ w.db = Effect(Head(work[m].script), work[m].db)
    BY <1>0, <1>4
  <2>2. /\ Head(work[m].script).do = "drop"
        /\ \A i \in DOMAIN w.script : w.script[i].do = "drop"
        /\ PartsOf(work[m].script) = {Head(work[m].script).part} \cup PartsOf(w.script)
    BY <1>0, <1>1, <1>4, <2>1, ScriptSplit DEF Reverting
  <2>3. /\ w.db.history = work[m].db.history
        /\ w.db.schema = work[m].db.schema \ {Head(work[m].script).part}
    BY <1>0, <2>1, <2>2 DEF Effect, Database
  <2>4. w.db.schema \ PartsOf(w.script) = work[m].db.schema \ PartsOf(work[m].script)
    BY <2>2, <2>3
  <2>5. Reverting(w, disk)
    BY <1>0, <1>1, <2>1, <2>2, <2>3, <2>4 DEF Reverting
  <2>. QED
    BY <1>0, <1>4, <2>1, <2>5, WholeStep
<1>5. work[m].script # <<>> => Head(work[m].script).do # "end"
  BY <1>0, ScriptSplit
<1>. QED
  BY <1>0, <1>2, <1>3, <1>4, <1>5, RunMoves

LEMMA RollbackRecords ==
    ASSUME Orderly(Library), LInv, NEW m \in Migrators, Record(m), work[m].op = "rollback"
    PROVE  Whole' /\ UNCHANGED disk
<1>. DEFINE mig == Head(work[m].todo)
<1>0. /\ TypeOK /\ TInv /\ work[m] \in Work /\ work[m].db \in Database
      /\ work[m].pc = "record" /\ work[m].open /\ Busy(m) /\ work[m].todo # <<>>
  BY DEF LInv, FInv, Transactional, TInv, TypeOK, WorkAtHand, Record, Busy, Work, Steps
<1>1. Reverting(work[m], disk)
  BY <1>0 DEF LInv, Whole
<1>2. CASE Fail(m)
  BY <1>2, FailWhole
<1>3. CASE ~ Fail(m)
  <2>1. UNCHANGED disk
    BY <1>0, <1>3, RecordMoves
  <2>2. PICK w \in Work :
           /\ work' = [work EXCEPT ![m] = w]
           /\ w.op = work[m].op /\ w.open = work[m].open
           /\ w.pc = "commit" /\ w.todo = work[m].todo
           /\ w.db = [work[m].db EXCEPT !.history[mig.version] = NoRow]
    BY <1>0, <1>3, RecordMoves
  <2>3. /\ w.db.history = [work[m].db.history EXCEPT ![mig.version] = NoRow]
        /\ w.db.schema = work[m].db.schema
    BY <1>0, <2>2 DEF Database
  <2>4. Reverting(w, disk)
    BY <1>0, <1>1, <2>2, <2>3 DEF Reverting
  <2>. QED
    BY <1>0, <2>1, <2>2, <2>4, WholeStep
<1>. QED
  BY <1>2, <1>3

-----------------------------------------------------------------------------
(* COMMIT puts a whole batch, or a whole rollback, into the database.      *)
LEMMA Commits ==
    ASSUME Orderly(Library), LInv, NEW m \in Migrators, Commit(m), ~ Fail(m)
    PROVE  Whole' /\ HistoryIsOfScripts' /\ Ledger!Next
<1>0. /\ TypeOK /\ TInv /\ disk \in Database /\ work[m] \in Work /\ work[m].db \in Database
      /\ work[m].pc = "commit" /\ work[m].open /\ Busy(m) /\ disk' = work[m].db
      /\ holder = m /\ \A n \in Migrators : work[n].open <=> holder = n
      /\ work[m].op \in {"apply", "rollback"}
  BY CommitMoves DEF LInv, FInv, Transactional, TInv, TypeOK, Commit, Busy, Work, Steps
<1>1. Whole'
  <2>1. PICK w \in Work : work' = [work EXCEPT ![m] = w] /\ ~ w.open
    BY <1>0, CommitMoves DEF Over
  <2>2. \A n \in Migrators : ~ work'[n].open
    BY <1>0, <2>1 DEF TypeOK
  <2>. QED
    BY <2>2 DEF Whole
<1>2. CASE work[m].op = "apply"
  <2>1. PICK S \in SUBSET WorkingScripts : Applying(work[m], disk, S)
    BY <1>0, <1>2 DEF LInv, Whole
  <2>2. /\ Distinct(S) /\ \A s \in S : disk.history[s.version] = NoRow
        /\ disk'.history = WithRows(S, disk.history)
        /\ disk'.schema = WithParts(S, disk.schema)
    BY <1>0, <2>1 DEF Applying
  <2>3. Ledger!Apply(S)
    BY <2>2 DEF Ledger!Apply, Distinct, WithRows, WithParts
  <2>4. HistoryIsOfScripts'
    <3>1. ASSUME NEW v \in Versions, disk'.history[v] # NoRow
          PROVE  \E g \in Library : Works(g) /\ g.version = v /\ g.checksum = disk'.history[v]
      <4>1. CASE \E s \in S : s.version = v
        <5>1. PICK s \in S : s.version = v
          BY <4>1
        <5>2. disk'.history[v] = s.checksum
          BY <2>2, <5>1, ChecksumIs DEF WithRows
        <5>3. PICK g \in Library : Works(g) /\ s = ScriptOf(g)
          BY <5>1 DEF WorkingScripts
        <5>. QED
          BY <5>1, <5>2, <5>3 DEF ScriptOf
      <4>2. CASE ~ \E s \in S : s.version = v
        <5>1. disk'.history[v] = disk.history[v]
          BY <2>2, <4>2 DEF WithRows
        <5>. QED
          BY <3>1, <5>1 DEF LInv, HistoryIsOfScripts
      <4>. QED
        BY <4>1, <4>2
    <3>. QED
      BY <3>1 DEF HistoryIsOfScripts
  <2>. QED
    BY <1>1, <2>3, <2>4 DEF Ledger!Next, WorkingScripts, ScriptOf
<1>3. CASE work[m].op = "rollback"
  <2>. DEFINE mig == Head(work[m].todo)
  <2>1. Reverting(work[m], disk)
    BY <1>0, <1>3 DEF LInv, Whole
  <2>2. /\ IsTarget(mig, disk.history)
        /\ disk'.history = [disk.history EXCEPT ![mig.version] = NoRow]
        /\ disk'.schema = disk.schema \ Created(mig)
    BY <1>0, <2>1 DEF Reverting
  <2>3. work[m].todo # <<>>
    BY <1>0, <1>3 DEF TInv, WorkAtHand
  <2>4. mig \in Library /\ Works(mig)
    BY <1>0, <2>2, <2>3, NextMigration, TargetWorks
  <2>5. PICK s \in WorkingScripts : s = ScriptOf(mig)
    BY <2>4 DEF WorkingScripts
  <2>6. s.version = mig.version /\ s.checksum = mig.checksum /\ s.parts = Created(mig)
    BY <2>5 DEF ScriptOf
  <2>7. \A v \in Versions : v > mig.version => disk.history[v] = NoRow
    <3>1. mig.version \in Nat /\ \A v \in Versions : v \in Nat
      BY <2>4, LibraryAssumption DEF Migration
    <3>2. \A v \in Versions : disk.history[v] # NoRow => v <= mig.version
      BY <2>2 DEF IsTarget
    <3>. QED
      BY <3>1, <3>2
  <2>8. Ledger!Rollback(s)
    BY <2>2, <2>6, <2>7 DEF Ledger!Rollback, IsTarget
  <2>9. HistoryIsOfScripts'
    <3>1. \A v \in Versions : disk'.history[v] # NoRow => disk'.history[v] = disk.history[v]
      BY <1>0, <2>2 DEF Database
    <3>. QED
      BY <3>1 DEF LInv, HistoryIsOfScripts
  <2>. QED
    BY <1>1, <2>8, <2>9 DEF Ledger!Next, WorkingScripts, ScriptOf
<1>. QED
  BY <1>0, <1>2, <1>3

LEMMA InitWhole == Init => HistoryIsOfScripts /\ Whole
<1>1. ~ Idle.open
  BY DEF Idle
<1>2. \A v \in Versions : Empty.history[v] = NoRow
  BY DEF Empty
<1>. QED
  BY <1>1, <1>2 DEF Init, HistoryIsOfScripts, Whole

LEMMA NextWhole ==
    ASSUME Orderly(Library), LInv, [Next]_vars
    PROVE  /\ Whole' /\ HistoryIsOfScripts'
           /\ Ledger!Next \/ UNCHANGED disk
<1>0. TypeOK /\ TInv /\ FInv /\ EndFree(Library) /\ disk \in Database
  BY DEF LInv, FInv, TInv, TypeOK, Orderly
<1>. USE DEF Steps
<1>h. UNCHANGED disk => HistoryIsOfScripts'
  BY DEF LInv, HistoryIsOfScripts
<1>1. ASSUME NEW m \in Migrators, NEW batch \in Batches, NEW skip \in BOOLEAN,
             Migrate(m, batch, skip)
      PROVE  Whole' /\ UNCHANGED disk
  <2>0. PICK w \in Work : work' = [work EXCEPT ![m] = w] /\ Begun(w, batch)
    BY <1>1, MigrateMoves
  <2>1. /\ work' = [work EXCEPT ![m] = w]
        /\ \/ Over(w, "failed", FALSE) \/ Over(w, "done", FALSE)
           \/ /\ w.pc = "begin" /\ w.op = "apply" /\ w.todo = batch /\ w.script = <<>>
              /\ ~ w.open /\ ~ w.wrote
              /\ \A i \in DOMAIN batch : ~ Rejected(batch[i])
    BY <2>0 DEF Begun
  <2>2. ~ w.open
    BY <2>1 DEF Over
  <2>3. UNCHANGED disk
    BY <1>1 DEF Migrate
  <2>. QED
    BY <2>1, <2>2, <2>3, WholeStep
<1>2. ASSUME NEW m \in Migrators, NEW mig \in Library, Revert(m, mig)
      PROVE  Whole' /\ UNCHANGED disk
  <2>1. PICK w \in Work :
           /\ work' = [work EXCEPT ![m] = w]
           /\ \/ Over(w, "failed", FALSE)
              \/ /\ w.pc = "begin" /\ w.op = "rollback" /\ w.todo = <<mig>> /\ w.script = <<>>
                 /\ ~ w.open /\ ~ w.wrote /\ ~ Rejected(mig)
    BY <1>2, RevertMoves
  <2>2. ~ w.open
    BY <2>1 DEF Over
  <2>3. UNCHANGED disk
    BY <1>2 DEF Revert
  <2>. QED
    BY <2>1, <2>2, <2>3, WholeStep
<1>3. ASSUME NEW m \in Migrators, Begin(m)
      PROVE  Whole' /\ UNCHANGED disk
  <2>1. PICK w \in Work : work' = [work EXCEPT ![m] = w] /\ w.pc = "check" /\ w.db = disk
    BY <1>0, <1>3, BeginMoves
  <2>2. UNCHANGED disk
    BY <1>3 DEF Begin
  <2>3. Applying(w, disk, {})
    BY <1>0, <2>1, NothingApplied DEF Applying
  <2>4. Reverting(w, disk)
    BY <2>1 DEF Reverting
  <2>. QED
    BY <2>1, <2>2, <2>3, <2>4, WholeStep
<1>4. ASSUME NEW m \in Migrators, CheckApply(m)
      PROVE  Whole' /\ UNCHANGED disk
  BY <1>4, ApplyChecks
<1>5. ASSUME NEW m \in Migrators, CheckRollback(m)
      PROVE  Whole' /\ UNCHANGED disk
  BY <1>5, RollbackChecks
<1>6. ASSUME NEW m \in Migrators, Run(m) \/ Record(m)
      PROVE  Whole' /\ UNCHANGED disk
  <2>1. work[m].op \in {"apply", "rollback"}
    BY <1>0 DEF TypeOK, Work
  <2>. QED
    BY <1>6, <2>1, ApplyRuns, RollbackRuns, ApplyRecords, RollbackRecords
<1>7. ASSUME NEW m \in Migrators, Commit(m)
      PROVE  /\ Whole' /\ HistoryIsOfScripts'
             /\ Ledger!Next \/ UNCHANGED disk
  BY <1>7, <1>h, Commits, FailWhole
<1>8. ASSUME NEW m \in Migrators, Break(m)
      PROVE  Whole' /\ UNCHANGED disk
  BY <1>8, FailWhole DEF Break
<1>9. CASE UNCHANGED vars
  <2>1. Whole'
    BY <1>9, Zenon DEF vars, LInv, Whole
  <2>. QED
    BY <1>9, <1>h, <2>1 DEF vars
<1>. QED
  BY <1>1, <1>2, <1>3, <1>4, <1>5, <1>6, <1>7, <1>8, <1>9, <1>h DEF Next

(* The database changes by whole batches and whole rollbacks of the latest *)
(* migration, however many commands run at once and wherever they break,   *)
(* and its history names the scripts its schema came from: the migration   *)
(* commands implement the ledger.                                          *)
THEOREM CommandsImplementLedger ==
    ASSUME Orderly(Library)
    PROVE  Spec => ImplementsLedger
<1>1. Init => LInv
  BY InitTypes, InitTransactional, InitWhole DEF LInv, FInv
<1>2. LInv /\ [Next]_vars => LInv'
  BY NextTypes, NextTransactional, NextWhole DEF LInv, FInv, Orderly
<1>3. Init => Ledger!Init
  BY DEF Init, Ledger!Init, Empty
<1>4. LInv /\ [Next]_vars => [Ledger!Next]_(Ledger!vars)
  BY NextWhole DEF Ledger!vars
<1>. QED
  BY <1>1, <1>2, <1>3, <1>4, PTL DEF Spec, ImplementsLedger, Ledger!Spec
=============================================================================
