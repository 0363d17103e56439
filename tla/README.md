# Axonyx Runtime in TLA+

Specifications, model checking and proofs for the runtime in this repository
(`crates/axonyx-runtime`, `crates/axonyx-core`, `crates/axonyx-state-wasm`).
`PROJECT.json` lists the components, the runs, the lines every definition
stands for, the hazards and the theorems.

To check a run: `tlc -config Sessions.cfg MCSessions.tla`; to check the proofs
of a module: `tlapm Sessions_proofs.tla`.

## Inventory

| Component | State it keeps | Operations | What makes it hard | What makes it correct |
|---|---|---|---|---|
| Session manager and stores (`session.rs`, `session/*.rs`) | rows in memory, SQLite or Postgres; cookies in browsers | create, load, refresh, destroy, purge | every request makes up to two store calls with a clock reading taken before the first; SQL answers get lost; restarts change policy or lose the store | a request is never granted a session past its lifetime or after its revocation; a cookie never promises more than the row; sessions are not lost |
| Login throttle (`login_throttle.rs`) | bounded map of fixed windows | try_acquire | clock read outside the lock; capacity; window boundaries; Retry-After in whole seconds | at most two budgets close together; bounded; a budget lasts its window |
| Migrations (`backend.rs`) | schema and `_axonyx_migrations` | apply one, apply batch, roll back, history | several processes at start-up; a script that fails half-way; edited scripts; a lost COMMIT answer; scripts that end the transaction | the database changes by whole batches and whole rollbacks of the latest version |
| Browser state bridge (script in `lib.rs`) | signals, aliases, subscribers, storage, pending writes, nodes of keyed lists | set, subscribe, events, executor, manifest, snapshot, reconciliation | three asynchronous loads race with the user; a list may be refused; arrays are shared | storage, state and screen agree; edits survive; the nodes show one whole list |
| State WASM (`axonyx-state-wasm`), `state.rs`, `reactive.rs` | fixed buffers; plain cells on the server | apply, evaluate, reconcile keys | numeric edges, buffer bounds | same results as the JavaScript fallback |
| Action form bridge (script in `lib.rs`) | pending forms, disabled controls, page roots | submit, refresh, patch, redirect, document action | answers out of order, a refresh that replaces the root a form is in, failures at every call | one submission of a form at a time, controls come back as they were, no form stays pending, a success is shown |
| Database runtime (`backend.rs`) | lazy pool in a once-cell, checked-out connections, attempts | reads, raw queries, writes, transactions | concurrent first use, an exhausted pool, transient failures, lost answers | nothing is executed twice, transactions are whole, answers are true, every request is answered |
| Preview store (`lib.rs`) | in-memory collections | insert, update, delete, transactions, queries with joins | ids used again, strings and numbers, joins by first match, several orders | a query answers what its clauses say of what the store holds |
| Preview executor and generated code (`lib.rs`, `ax_backend_codegen.rs`) | collections, sessions, invalidations, headers of the answer | actions and API routes | failure in the middle of an action; two implementations of one plan | an answer tells all that was done; guards first; both do the same |
| CSRF and mutation guards (`csrf_http.rs`, `mutation_security.rs`) | cookies, proofs | issue, verify | login, logout, expiry and key changes between issue and use, several tabs | an action acts for a session only with its proof; a proof that nothing has overtaken works |
| Server (`server.rs`) | routes, middleware | dispatch, hooks, policies, contracts | order of guards, error answers, body limits | guards run before handlers, policies reach every answer |
| Form results (`form_result.rs`) | replayed input | render | which response carries what | secrets never replay |
| Native functions, storage, passwords, input, validation | registries, files | calls | none between calls | |
| Compiler (`axonyx-core`): parsers, lowering, types, SQL, code generation, editor services, layout | none between calls | text to tree to text | sequential | agreement between preview, SQL and generated code |

Interactions: the server runs the mutation guard and the CSRF guard before an
action, throttle and login hooks before the handler of a route, session calls
through the session manager, whose store is SQL (by way of the database runtime)
or memory; the browser scripts talk to the server over fetch only, and to each
other through events of the document and the roots of the page.

## Modules

| Module | Models | Kind |
|---|---|---|
| `SessionRegistry` | what the session manager promises | abstract specification |
| `Sessions` | `AxSessionManager` over any store | detailed specification, implements `SessionRegistry` |
| `Sessions_proofs` | | theorems |
| `LoginThrottle` | `AxLoginThrottle` | specification |
| `LoginThrottle_proofs` | | theorems |
| `MigrationLedger` | what the migration commands promise | abstract specification |
| `Migrations` | apply and rollback, statement by statement | detailed specification, implements `MigrationLedger` |
| `Migrations_proofs` | | theorems |
| `MutationGuard` | the CSRF guard between the tabs of a browser and the actions | specification, composed with `SessionRegistry` |
| `MutationGuard_proofs` | | theorems |
| `ActionForm` | the browser's action form bridge | specification, with liveness |
| `DatabaseRuntime` | requests over the lazy Postgres pool | specification, with liveness |
| `Handlers` | actions and API routes, previewed and compiled side by side | specification |
| `Handlers_proofs` | | theorems |
| `PreviewStore` | the in-memory store and its queries | specification, with a reference definition of a query |
| `Data_proofs` | | theorems about `DatabaseRuntime` and `PreviewStore` |
| `StateBridge` | the browser's state bridge: bootstrap, aliases, storage, listeners | specification |
| `StateBridge_proofs` | | theorems |
| `StateLists` | the state bridge: a keyed list, an expression, listeners that set the signal, the WASM executor | specification |
| `FormsAndLists_proofs` | | theorems about `ActionForm` and `StateLists` |
| `MC*` | small instances for TLC | |

Operators whose comment begins with "Wrong:" are the plausible bugs that the
properties are shown to catch; no action uses them.

### Sessions

A worker is a request in progress. `Begin` and `BeginCreate` read the clock,
each further action is one call to the store: `Save`, `Read` (the lookup and the
decision taken on the copy), `Reap` (the delete of a row found expired),
`Extend` (`refresh_live`), `Erase` (`destroy`). `Purge` is the statement of the
SQL stores, with a clock reading that may be old. `CallFails` is a call that has
no effect, the Boolean argument of the others a call whose success does not
arrive; the memory store has no such calls. `Restart` may bring another policy.
`MaxInt` stands for `i64::MAX`.

*Run `sessions`* (three requests, one session, clock 0..4, one restart,
`MaxInt = 4`, two policies whose TTL and absolute bound cross): three requests
are what it takes to have a reader, a refresher and a reaper interleave; ids do
not interact (each action touches one), so one id is enough and the theorems
cover any number. It shows lifetimes, coverage of the cookies, revocation, the
refinement, and that a live session is lost only when a load that saw it expired
deletes it after a refresh with an earlier clock reading extended it
(`OnlyRacedReapsLoseSessions` names that race exactly: it exists in the code).

### Login throttle

`Arrive` reads the clock, `Acquire` is `acquire_at` from lock to unlock: retain,
limit, capacity, count. `recent` is a history: `recent[i]` counts the attempts
of one key admitted in this tick and the `i` before it. Time is
bounded by `MaxTime`; `MaxStall` bounds the time a request waits for the lock
with a clock reading in hand: only `AtMostTwoBudgets` needs it, whose span is
shorter than a window by that stall (with the whole window it fails).

*Run `login_throttle`*: three requests, three keys, a map of two, limit 2, a
window of four ticks, two ticks to the second, clock 0..6: long enough for a
window, its renewal and the boundary between them, and small windows are the
hard ones.

### Migrations

A command takes the lock (`Begin`), goes through its batch (`CheckApply`, `Run`
once per statement, `Record`) or its one migration (`CheckRollback`, `Run`,
`Record`), and commits; `Break` is any failure before COMMIT, the death of the
process included; an answer lost after COMMIT is the answer "unsure". A script
is a sequence of statements that create or drop parts of the schema, fail, or
manage the transaction. Versions are numbers in the order of their texts.

`EndFree` says that no script contains END, `Orderly` that a script that works
as a whole creates parts, that its down script drops exactly these, and that a
checksum stands for one script. The code can check neither what a script does
nor that its author kept to it; the theorems about failures and about the ledger
suppose it, and `MCMigrations` asserts `Orderly` of the library of the passing
run and that the one of `migrations_end` is not `EndFree`.

*Run `migrations`* (two commands, two versions, one of them in two forms with
different checksums, one script that fails half-way, one with transaction
control; both drivers): the committed database only ever changes as
`MigrationLedger` allows: no version is applied over itself, and only the latest
is rolled back, by the script it came from. A command that answers with an error
has changed nothing. Two commands suffice, since the lock admits one at a
time and what the other may do is wait, or read what is committed.

*Run `migrations_end`* is a disagreement: `reject_migration_transaction_control`
does not reject `END`, which SQLite executes as COMMIT; a batch with it that
fails later stays half applied. (Rejecting every statement that begins with END
would also reject the bodies of SQLite triggers.) In `Run` the effect of END is
modelled for SQLite only.

### State bridge

One text signal of one page, known by its key and by aliases; storage outlives
the page (`Reload`). Each action is one task of the browser: `Ready` is `init`,
`Type` the events of a bound node, `Set` a call of the application, `Manifest`
and `ManifestFails` the two ends of `loadManifest`, `Snapshot` that of
`loadSnapshot`. `Edit` is `writeSignal` with `persistStorageCapability`, whose
`setItem` may fail; `Stop`, `ReboundSubs` and `ReboundValue` are the loop of
`rebindAliasedSignals`, which throws when it has to push an array of subscribers
to the `Set` of the key; `PendingValue` and `Hydrate` are the flush of pending
writes or the restoring of what is stored. `edit` and `lost` are history: the
last edit, and what got in the way of it. An input typed before its node is
registered is no edit: the bridge drops it as a duplicate, and registration
takes it for the initial value.

*Run `state_bridge`* (one alias, two nodes, one listener, two values and two page
loads, so that there is something to restore): edits reach storage, only a
snapshot takes them off the signal, nodes show their signal, and the listener
follows it through the rebinding and its exception.
`NodesOfOneNameShowTheirSignal` excludes the manifest that meets different
values under two names, and the exception: a node registered under an alias and
a value set under another name before the manifest are joined by it, the code
does not write the value to the node, and the node keeps showing what the signal
no longer holds until the next write.

The model also allows what the code does with a signal that had nothing stored
at the manifest: an edit between manifest and snapshot stays in storage and is
taken off the screen by the snapshot (`hydrated` is set by the manifest only).

### Lists, expressions and listeners

`StateLists` is another part of the same script: one list signal, the nodes of a
keyed each block (`ax-state-each`), an expression `rows[0].text`, and two
listeners. Each action is one task of the browser: `LoadExecutor`,
`LoadManifest`, `LoadSnapshot` and `LoadFails` are the script's bootstrap, in
its order; `Ready` is `init`; `Set` and `SetAgain` are calls of the application
with another list and with the signal's own; `EditInPlace` is the application
changing the array it got from `get`; `Touch` is the user in the node of an
item. `Write` is `writeSignal`: a list set before the signal has a type becomes
text, one that is not valid (`Valid`: the schemas of records come with the
manifest, and a list of unknown type must be encoded) is refused, and any
other reaches the nodes (`Reconciled`, if `Outcome` says so), the expression and
the listeners. `encoder` says whether the browser has a `TextEncoder`: the script
looks for one when it starts, long before the executor, and without it there is
no executor, nor are two objects ever found to be equal items (`Changed`).
A listener may set the signal from within its call (`Calls`). JavaScript arrays
are references: `page.same` says that the list the nodes were reconciled with is
the array the signal holds, and `edited` is the history of edits in place.

The code asks for a refresh (`axonyx:each-refresh-required`) when a list is
emptied that was not empty, when one is filled that was, and when an item cannot
be shown, since the server renders a template only with items and a node for no
items only without. Nothing in the script answers that event: the old nodes stay.

*Run `state_lists`* (six lists of up to two items that differ by insertion,
removal, change, exchange, a repeated key, and an item that cannot be shown
after one that has changed; two of them are corrected by a listener, so the
others, the exchange and the insertion among them, are written as they are; one
edit of the nodes' array in place; two listeners; browsers with an encoder and
without): the nodes show exactly the list they were last reconciled with,
whatever was refused, and an item the user has touched keeps its node as long as
it is in the list; with the executor, whenever it comes, the expression shows
what the signal holds; and a listener's last call tells it what the signal
holds. What the properties leave out is what the code does: a list edited in
place is compared with itself, so its nodes may stay wrong for ever
(`ListsAreWhole`); listeners subscribed after one that sets the signal hear the
older value last (`ListenersAreCurrent`); and an item that a write removes and
the correction of that write brings back has a new node (`ItemsKeepTheirNodes`;
`between` is the history of what the nodes showed in between). Not modelled:
structured values in storage, aliases of list signals (as in `StateBridge`), and
lists longer than the executor's buffers, for which the bridge falls back to the
same plan in JavaScript.

### CSRF and mutation guards

The tabs of one browser share a cookie jar; each has at most one request on its
way. `Open` asks for a page, `Deliver` is `delivery` of `csrf_http.rs` (the
proof is for the session, else for the anonymous identity of the request, else
for a new one), `Submit` sends the form with the cookies of that moment,
`CheckProof` is `reject_mutation`, and `Act`, `Login` and `Logout` are what an
action does with the session, which it loads separately from the guard.
`Arrive` is the answer reaching the jar. Sessions are `SessionRegistry` by
INSTANCE, the specification `Sessions` is shown to implement. `End` is any other
end of a session, `Rotate` a restart of the server with another key. A
signature is the pair of what was signed and the key. `fresh` is history: since
the tab's page was requested neither the jar, nor a session, nor the key has
changed, nor has the anonymous identity of the proof lapsed. `NamesAssumption`
says that session ids (UUIDs) are not anonymous identities
(`anonymous:{time}:{uuid}`), `BoundsAssumption` that the anonymous TTL is not
zero: an identity that lapses in the tick it is issued in would never work.

*Run `mutation_guard`* (two tabs, two sessions, two nonces, an anonymous TTL of
one tick, one change of key): no action acts for a session unless the submitted
form holds its proof under the current key, and the guard refuses only what
something has overtaken. Two tabs are what it takes for one to log in or out
under the other. What `fresh` leaves out is in the code: of two tabs without a
session the second replaces the identity of the first, and an identity still
accepted is used again without a new cookie, so a form opened late in its life
lapses early. The rules on `Origin` and `Referer` compare header text and are
not modelled; a client that sends neither of them, nor cookies, needs no proof.

### Action forms

A submission goes through the token, the action, and the handling of the answer
(`Progress`): page, error, patches, refreshes of the page's data, redirect, end.
A refresh (`Apply` is `applyDataRefresh`) replaces the page root and with it every
form in it; the submission goes on with a node that nobody sees (`attached` says
whether it is still in the document). `shown` is the version of the data that
the root shows, and `source` the history of where it came from: the submission
whose refresh it was, or a page load. `Throws` is any rejection before the end,
of a lost answer to an action that ran too; a redirect to a "bad" URL throws in
`location.assign`, after the refreshes. `patches` of an answer says that it has
patches and that the state bridge is there to apply them.

*Run `action_form`* (two submissions, two forms of which one is inside the
root, two parallel refreshes, page loads): a form is pending exactly while a
submission of it is in flight; when it ends its controls are as they were; no
form stays pending. `SuccessIsShown` is about a success with somewhere to go:
when its refreshes are settled the user is taken there, or has its patches, or
sees a page with its effect. What the page shows may lack the effect only if a
refresh of the submission was shown and one of another submission, read
before the action ran, was shown after it: the code replaces roots in the
order of arrival. What others have shown does not excuse a redirect that is
dropped when the submission's own refreshes have all failed. If they fail and
there is no redirect or patch, the old page stays. The document event "complete"
of a form replaced meanwhile goes to a detached node; nobody in the bridge
listens for it. Uploads go the same way as other submissions; their progress
events are not modelled.

### Database runtime

A request is a read, a raw query, a write or a transaction. `Step` takes it from
the once-cell of the pool (`FindPool`, `BuildPool`) through checkout, statements
and answer, to a retry or its end. The pool is made by whoever is first; several
may build one, and one is kept. `staged` counts the statements executed in an
open transaction, `effects` is the history of how often each statement has taken
effect, and `unsure` that an answer was lost. The code retries a raw query
as a read, whatever its SQL does: "raw" stands for a SELECT that calls a
function with an effect, "read" for queries and loads without any.

*Run `database_runtime`* (three requests on a pool of two, one retry,
transactions of two statements): a write or a transaction is never executed
twice, and a raw query with an effect at most once in each attempt; a
transaction is whole or absent, a success is told only of what is done, an error
may hide an effect only if an answer was lost, all that hold a connection
hold one of the single pool and never more than its size, and every request is
answered. Three requests on two connections are the least for somebody to wait.

### Handlers

A plan is a sequence of steps (let, require, insert, session create and destroy,
revalidate, transaction, send and so on) of an action or an API route. Each
behaviour executes a plan twice in the same world: once as the preview
interprets it (`lib.rs`), once as the code generator writes it
(`ax_backend_codegen.rs`). The world decides which calls fail, which
requirements are unmet, which guards are spent, and whether the declared answer
is broken; it is the same for both. The preview goes first only because it makes
fewer states than going together.

*Run `handlers`* (every valid plan of up to three steps over two collections
and two guards): a successful answer revalidates everything that was written and
carries the cookie of every session made; nothing is done before a guard has
passed; headers of policies are on every answer, refusals included; the two
executions agree but for `KnownToDiffer`. The known differences, all read from
the code: the order in which a hook's and a step's header win, cookies next to
`notFound`, `return redirect` in an action, null where the other says ok, the
answer to a broken contract (500 or error), the `after Auth` hooks, and `send`
and `revalidate`, which the preview passes over. A transaction has at most two
operations. Two things the properties do
not promise, because the code does not: an error answer carries no
invalidations, so pages stay stale after partial effects; and a broken contract
drops the cookies of sessions already made.

*Run `handlers_globals`* is a disagreement with README.md:52: the data bindings
of the backend root run in the generated code before the handler's login guard.

External to this model: the backend runtime behind the calls. Not modelled: the
session loaded for `Auth.subject` before the guards, private binary routes, the
middleware chain and the route table (the preview takes the most static match,
the generated table the first declared).

### Preview store

Posts with an author and users, made by inserts, updates, deletes, and
transactions. A transaction works on a clone of the store that then replaces it
(`Transaction`); operations are prepared before the first is applied, and
applying them does not fail, so there is nothing to roll back. A query is a
join, a filter, two orders and a window, executed as in the code: joins by the
first match, filters, stable sorts from the last order to the first, then offset
and limit. Values are tagged as in `AxValue`: the id a row gets
(`assign_preview_id`) is a string, and a number with the same digits is another
value, which a filter or a join does not find equal.

*Run `preview_store`* (three posts, two users, 108 queries in every store that
can be reached): a query answers what `Meaning` says, a definition by sets and
quantifiers, in which numbers are ordered as numbers. Two conditions are those
of the property. Ids are given out by the length of the collection, so an id may
be given twice after a delete: the joined ids must differ. And the code compares
the texts of what it orders by, in which 10 comes before 9, unlike a numeric
column of the SQL adapters: `OrdersLikeTexts` says that the numbers to order by
are in order as texts too. In the run they always are (one digit); the theorem
is about numbers of up to two digits, of which `Text` gives the place among the
texts (`RowAssumption`). Rows inserted with an id of their own, null filter
values and missing fields are not modelled.

## Fairness

Two runs are about liveness.

- `action_form`: weak fairness of each submission's `Progress` (the browser runs
  the continuation of a promise that is settled, and every fetch settles, by an
  answer or by an error) and of `Load` (a navigation that has begun ends). Nobody
  has to submit anything.
- `database_runtime`: weak fairness of each request's `Step`. The async runtime
  polls a woken task, a call to the database ends with an answer or an error
  (statements have the server's `statement_timeout`), and a checkout ends with a
  connection or with the pool's timeout: a request that waits can always go on to
  fail, so its `Step` is enabled until it is answered, and nothing is assumed of
  the order in which connections are given out. What this excludes is a peer
  that vanishes without closing the connection.

All other runs are about safety and assume no fairness. Deadlock is checked in
`login_throttle`, `migrations`, `migrations_end`, `state_bridge`, `state_lists`
and `mutation_guard`. The others really stop: the one
session id and the clock run out (`sessions`), all submissions or requests are
over (`action_form`, `database_runtime`), a plan has been executed twice
(`handlers`, `handlers_globals`), the inserts are used up (`preview_store`).

## What is proved

For all values of the constants that satisfy the named assumptions.

`Sessions_proofs`: `TypeCorrect`, `LifetimeHolds`, `CookiesAreCovered`,
`RevocationIsFinal`, `LossIsRaced` and `Refinement`. None of the invariants is
inductive alone. The strengthening says of every request in progress what its
local copy has to do with the store: a copy was created when its id was born, a
copy read for deletion was expired or past its deadline at the request's clock
reading, a copy to be merged expires within the deadline, an id with a save
still to come has no row, no birth and no cookie, and clock readings are never
ahead of the clock. `LossIsRaced` and `Refinement` are step properties that
follow from it, one step per action.

`LoginThrottle_proofs`: `TypeCorrect`, `MapIsBounded`, `BudgetsLast`,
`WaitingSuffices`, `TwoBudgetsAtMost`. The invariant adds to the types and the
bounds that neither a bucket starts nor a request read the clock in the future;
it needs the lemmas that rounding up to whole seconds never falls short
(division) and that `retain` keeps a subset of the buckets (cardinality).
`TwoBudgetsAtMost` rests on the spacing of buckets (`Spaced`): what was admitted
since the bucket of the key was made is what the bucket counts, and a span that
reaches back before it sees at most one budget more, since a bucket replaces
another only after a full window by a clock reading that is at most `MaxStall`
old (`StallsAreBounded`).

`Data_proofs`, of `DatabaseRuntime`: `TypeCorrect`, `NothingIsDoneTwice`,
`AnswersAreTrue`, `EverythingIsAccounted` and `PoolIsBounded`. The invariant
`Accounted` ties where a request is to what it has had executed: what is done
outside a transaction is done once and only in states after the statement, what
a transaction has done counts only from its commit, and a raw query has had at
most one effect for each attempt it has used up (`RawTruth`). `PoolInv` adds that whoever
waits for a connection, or has one, has found the pool. The theorems use
only the initial states and the steps, not the fairness in `Spec`.

`Data_proofs`, of `PreviewStore`: `QueriesAnswer`, for collections of up to 99
rows, any numbers of at most two digits, and the queries of the
model (a join or none, at most one filter, no order or two, any rows), under the
two conditions of the property. The
inductive invariant is only that the store holds sequences of records
(`StoreTypeCorrect`); the rest is about what a query computes, and rests on one
idea. An order is a set of pairs, and a function that lists a set in a strict
order is the one that puts each element in the place its number of predecessors
gives it (`RanksEnumerate`, `OneEnumeration`, by injections between sets of one
size). Every stage of `Evaluate` keeps that its rows are those of a set of posts
listed in an order (`Lists`): a join and a filter take away from the set and
keep the order (`ChosenLists`, `JoinLists`, `FilterLists`), a stable sort keeps
the set and puts its text before the order there was (`SortLists`), which is to
put its key before it where texts are in the order of the numbers
(`KeysLikeTexts`). After the two sorts, the last order first, the order is the lexicographic one of `Meaning`
(`SortedLists`), so both are the same function. The recursive functions over
the filters, the orders and the operations of a transaction are unfolded, as
their lengths are known (`FilterAllCases`, `SortAllCases`, `TransactionOfTwo`):
for queries of any length the same step would need induction. `StoreSpec`,
`StoreInit` and `StoreNext` have names of their own because the proof module
extends both specifications.

`Migrations_proofs`: `TypeCorrect` for any scripts; `FailuresAreAtomic` for
libraries without END; `CommandsImplementLedger` for orderly libraries. The
invariant says that a transaction is open exactly where its command holds the
lock, that until the commit the committed database is what the command found,
and, for the refinement, that what the command has done in its transaction is
what the ledger says of the part of the batch it has gone through, with the
statements of the current script up to the one it is at. `EndFree` is
exactly what the finding of the run `migrations_end` violates.

`MutationGuard_proofs`: `OnlyWithProof` and `DeliveredProofsWork`, from the
invariant that session tokens name sessions that were created, that a request that has passed
the guard holds the proof of the session it names under the key of that moment,
that an answer's cookies are decided when it is made (`AnswersInOrder`), and that the proof of a
fresh tab fits the jar. The step properties need the registry's rule that a
session once gone never lives again.

`FormsAndLists_proofs`, of `ActionForm`: `PendingIsInFlight`,
`ControlsAreRestored` and `SuccessReachesTheUser`, by an invariant that keeps
for each submission how far its refreshes are (`RefreshesFollow`: a refresh
reads what the action did) and that, once one of them was shown, the page has
the effect of its action or came from a later refresh of another submission
(`ShownOrReplaced`). The theorems use the steps only, not the fairness in `Spec`.

`StateBridge_proofs`: `TypeCorrect`, `EditsAreKept`, `NodesShowTheirSignal`,
`ListenersFollow`, `SnapshotAloneOverwrites`, for any aliases, nodes, listeners
and values. The invariant adds that the manifest is applied once
(`ManifestOnce`), that nodes and listeners are in the bucket of the name they
were registered under, or in one that rebinding made
(`NodesInTheirBucket`, `ListenersInTheirBucket`), that the queue of pending
writes agrees with the signal and has the last edit in it (`QueueIsCurrent`), and
that an edit lost to none of the named causes has a storage to go to
(`EditsHaveStorage`). The aliases are a
sequence (`NamesAssumption`): the loop goes through them in the order of the
manifest, and the lemmas on the first bucket that is found need the least
element of a set of positions.

`Handlers_proofs`: `TypeCorrect`, `GuardsAreFirst`, `AnswersTellEffects`,
`PoliciesHold` and `CompiledAgrees`, for plans of any length over any collections
and guards. Every action is first shown to be one of two things (`Outcome`): it
passes a step of the plan, with what that step does to each part of the
execution (`Passes`), or it ends it for a reason (`Ends`, `Reason`). The
invariant is then about the plan alone: no step passed had a reason to end the
execution, and what was charged, read, written, sent and put in cookies is what
the steps passed say. `GuardsAreFirst` follows since the generator has validated
the handler's own steps. For `CompiledAgrees` each execution is shown to be the
course of the plan up to where it is (`ToldInOrder`: a sequence of states, each
made from the one before by the step between), both stop at the same step
because they have the same reasons to (`HaltsAlike`, which is where
`KnownToDiffer` is needed), and two courses of one plan to the same step are
equal (`CoursesAreOne`, by the least step at which they would differ).

`FormsAndLists_proofs`, of `StateLists`: `ListsStayWhole`, `NodesStayWithItems`,
`ExpressionStaysCurrent` and `ListenersStayCurrent`, for any set of lists, any
finite set of listeners in any order, and any lists that the corrector does not
want (`ListsAssumption`, `CorrectionAssumption`). The lemmas are about
`Reconciled` and `Calls`. What `InOrder` enumerates is a bijection that
increases (`InOrderFacts`; that there is one is `CanBeOrdered`, by the least
bound under which some set could have none). A list of
unique keys is one to one with its keys (`UniqueKeys`), so that nodes that show
such a list show the next one after a reconciliation, and none is left behind
(`ShowsNext`). `TouchStays` needs neither: a touched node is left where it is or
placed with its item, also when an edit in place has left several nodes of one
key. The last call of a listener not after the corrector is among those of the
correction (`ToldCorrected`). The inductive invariant `ListInv` adds to the
properties that the nodes show the list they were last reconciled with wherever
that was not edited in place (`Whole`), that nothing is reconciled before
`init`, and that a list is the signal's own after its reconciliation (`PageOK`):
without that an edit in place could change what the nodes are compared with
unseen. `ListSpec`, `ListInit`, `ListNext` and `listVars` have names of their
own because the proof module extends both specifications.

Only model-checked: liveness (`EveryFormSettles`, `EveryRequestAnswered`), which
is outside the prover's reach. Every other property of a passing run is stated
by a theorem.

## Not modelled

`PROJECT.json` gives the reason for each component. The greater part of the
source in lines is the compiler: text to trees to text, sequential and without
state between calls; what its output does is in `Handlers`. In the modelled
components: session subjects and data, signatures and HMAC, the text of SQL, the
poisoned lock of the throttle (no step under it can panic), `migration_history`
(it reads the committed database, of which the ledger speaks), SQLite and the
HTTP adapter of the database runtime (one call each), health and metrics, the
restart of a server while a request waits, loaders and their cache (a map that
lives for one page), upload progress, drag and drop.

## Plan

1. The rest of the state bridge and the state WASM core: numeric casts and local
   operations, conditions, matches, and the nodes a data refresh
   detaches (`applyDataRefresh` replaces the root, and the state bridge does not
   register the new nodes).
2. Route dispatch: the preview's most static match and the generated table.
3. Form results: replay of input and errors through redirects.
4. Type checker operators against reference definitions.

Runs stay small: two or three actors, one or two resources each, and bounds that
let every limit be reached and left again.
