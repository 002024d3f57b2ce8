# Verification of config.anudeep.pro

TLA+ models of the configuration registry under `src/`, the TLC runs that check them on
small instances, and TLAPS proofs for every value of the constants. Paths below are relative
to `src/src/` unless they begin with `src/`.

## 1. The system

One Node process on one host keeps configuration in a file database, serves it over a Unix
socket, lets people edit it in a web console, and backs it up to Git.

| Component | State | Operations | Hard because |
| --- | --- | --- | --- |
| Database engine: `store/data-layer.ts`, `transaction-journal.ts`, `file-writer.ts`, `git/write-lock.ts` | documents, `.revision`, `.journal/transactions/<uuid>/`, path locks, publication lock, `recoveryRequired` | `snapshot`, `writeMany` (validate, compare ETags, stage, record the intent, install, revise, attribute, complete), `recover` | concurrent batches, a crash or a failed file operation at any await, redo after a restart |
| Git backup: `store/write-journal.ts`, `sync-engine.ts`, `sync-scheduler.ts`, `sync-status.ts`, `pending-sync.ts`, `auto-sync-store.ts`, `git/syncer.ts` | `pending.jsonl`, `sending.jsonl`, the run under way, debounce and interval timers, the sticky notice, `auto-sync.json`, `syncedCommit` | append, rotate, drain, discard, recover; `syncNow`, timers, switch, dismiss; retry of unpushed commits | a write during a sync, failed pushes, crashes, several callers of one run |
| Git repository: `git/repository.ts` | the clone: working tree, HEAD, tracking branch; the remote | commit, push, fetch and rebase and push again, pull | other hosts push too; poll, retry and sync share one clone and no lock |
| Serving state and read API: `boot/repository-state.ts`, `store/cache.ts`, `snapshot.ts`, `loader.ts`, `routes/internal.ts`, `identity/access-guard.ts` | grant table, schemas, break-glass record, cache (commit, values, flags), snapshot file, held requests | reload by each write's route, poll and webhook; boot with a fallback; held reads | reloads overlap and read the store at several moments; a grant is revoked during a hold |
| Product operations: `store/product-write-operations.ts` | none of its own: schema, values, registry and archive documents of the engine | create, save, retire, archive, promote, add keys, delete keys | each is one optimistic batch over several documents |
| Flag and schema services: `flags/`, `schema/schema-write-service.ts` | `flags.yaml`, `schema.yaml` | set a flag, save a schema after a dry run | read, modify and write |
| Schema rules: `schema/validator.ts`, `builder.ts`, `routes/product-form.ts`, the key fields of `views/` | none: what a form says, what is stored, what is shown and posted back | build, read, create, show, post | one rule is written in three places, with conversions in between |
| Console: `routes/live-ui.ts` | none on the server: what a page carries (ETags, typed values, the base of a confirmation) | pages, saves, confirmations | pages are old by the time they are posted |
| Database bootstrap: `store/bootstrap-db.ts` | the first copy of the clone | copy when the database is empty | a crash in the middle |
| Sign-in: `auth/break-glass.ts`, `totp.ts`, `oidc.ts`, `session.ts`, `routes/auth.ts` | the last code spent, whether IAM answers, the record in use; two cookies per browser | attempt; login, callback, logout | concurrent attempts around an `await`; callbacks of several flows |
| Config client: `client/config-client.ts` | values in use, commit, cache file | load, refresh, watch | overlapping answers, a server that comes and goes |
| Log sink: `logging/db-sink.ts` | two buffers, a timer | push, flush, close | a slow or failed database, limits |
| Encryption, pages, CLI, deployment | none | external programs, rendering | |

How they interact. A console route calls a product operation, which takes `db.snapshot()` and
calls `db.writeMany()`. When files are installed the engine calls `onWrite`, still under the
publication lock: the write journal appends a line and the scheduler restarts its debounce
timer. The route then awaits `RepositoryState.reload()`, which replaces the grant table, the
schemas and the cache, wakes the held reads, and saves the snapshot file. The sync engine
rotates the journal, mirrors `db.snapshot()` into the clone, commits and pushes. Timers of
`server.ts` retry unpushed commits and pull from the remote; nothing that is pulled ever enters
the database after the first boot.

What makes each part correct:

- engine: atomic and durable batches, no lost update, truthful answers, a journal every boot
  can finish, every request answered;
- backup: the author of a write is not forgotten before git has the write, the report of what is
  pending and the notices are honest, and the remote comes to hold what the store holds;
- repository: neither side's published commits are dropped;
- serving: what is served is granted, no change is missed by a held read, and a failed or
  overtaken reload heals;
- product operations and console: a registered product has a schema and its files a product, a
  uid has one owner, what is written validates against the schema it lands beside, operations are
  serializable, what is destroyed is what was confirmed, an editor keeps what others wrote;
- schema rules: what the form builds is read back and means what the form said, and a page that
  is saved untouched changes nothing;
- sign-in: a code is spent once, and a session is for whom the browser authenticated;
- log sink: every line is inserted, or counted as lost;
- client: it ends with the served commit and its handlers know, whatever overlaps or fails.

## 2. Modules

| Module | What it is |
| --- | --- |
| `Documents` | what a batch of writes is and when its values are acceptable; shared by the two below |
| `AtomicStore` | abstract specification: a batch takes effect at one instant, on the state it was checked against |
| `DBEngine` | the engine as it is coded; `Abstract` instantiates `AtomicStore` under a refinement mapping |
| `GitHistory` | histories, trees, rebase and fast-forward as pure operators; external to the source |
| `SyncPipeline` | write journal, sync engine, scheduler, notices, clone and remote, retry and poll, boot |
| `ServingState` | reloads, cache, snapshot file, boot fallback, held reads |
| `SchemaRules` | pure operators: the reader of schemas, the check of values, the builder |
| `SchemaForm` | a key's way from the form to the schema, the file, the page and back |
| `ProductWrites` | pure operators: what every product and flag operation would write, given a snapshot |
| `Console` | pages, posts, decisions and commits of several browsers over one store |
| `SignIn` | both ways into the console, with the clock, the identity provider and restarts |
| `LogSink` | buffers, flushes and the shutdown |
| `ConfigClient` | memory and cache file of a consuming service, refreshes and watches |
| `*Proofs` | the theorems about the module of that name |
| `MC*` | instances for TLC |

`SyncPipeline` and `Console` use the store as `AtomicStore` describes it, which `DBEngine`
implements; `ServingState` and `ConfigClient` are the two ends of the read API, each with the
other as its environment.

### DBEngine

An action ends wherever the code awaits something that lets another request run, where the
process may die, or where a file operation may fail. A *request* is one caller: `Begin` and
`Snapshot` are `db.snapshot()`, `Submit` is the call of `writeMany`, `LockPath` takes the sorted
path locks, `Validate`/`RejectInvalid`, `ReadEtag`/`ReplyConflict` are the checks under them,
`Prepare` and `Stage` write the payloads, `RefuseStale`, `ReplyUnchanged` and `RecordIntent`
happen under the publication lock, and `CheckIntent`, `Apply`, `WriteRevision`, `Attribute`,
`Complete` and `RemoveDirectory` are `finish()`, which `recover()` shares. The actions whose name
ends in `Fails` are the same steps when the file system refuses; after a failure that leaves an
intent, `healthy` (the negation of `recoveryRequired`) keeps every later write out. `Crash` loses
all that is not on disk and `Boot` finds what is left. Locks are queues, because `WriteLock` chains
promises in arrival order. SHA-256 is taken as injective: a content stands for its ETag.

The abstract store changes at the moment the intent is durable, although files are installed one
by one later: while an intent exists no reader can get the publication lock before it is finished.
That is what the refinement mapping (`CommittedStore`, `CommittedRevision`, `Status`) says.

### GitHistory and SyncPipeline

A history is the sequence of commits since the clone was created; it also names the sha of its
last commit. A commit is the set of files it changes plus the writers its message names. A rebase
fails where both sides changed one document: every write of a document changes its `version` line,
so git's finer merges do not succeed there. A git command on the clone is one step and may fail,
which includes git's own lock held by another command. A push takes three steps, because it talks
to another host and its caller is a promise: it reads HEAD (`Send`), the remote takes that or
refuses it (`Lands`, `PushFails`), and the caller goes on (`Pushed`), with whatever a sync, a pull
or another push has done in between. Its answer may be lost after the remote has taken it. `sent`
is the HEAD that a push under way has read.

Writes are numbered; a number stands for the content, the author and the journal line. The store
is the abstract one that `DBEngine` implements, with the interval between publication and
attribution kept (`unlogged`). `stage["sync"]` follows `performSync` and then
`GitRepository.push`; `stage["retry"]` follows `retryUnpushed` through the same push;
`stage["poll"]` is the pull. `known` says whether the clone has an `origin/main`: without it `git
log` fails, and `Unpushed` is empty, as in the code. `waiting` is who awaits the shared run,
because a result is noted only for console requests. The boot runs `recover()` file operation by
file operation.

### ServingState

A revision stands for every document as of that write. Each reloader (a route, the poll, the
boot) walks through `registry`, `schemas`, `sources`, `flags`, `install`, and the file operations
of `SnapshotStore.save`. All of them share one temporary file: `file[r]` says under which name
the file that reload `r` has open is linked now, and `None` (0) is a file that is cut short.
`Install` is one step with the wake-up, as the cache calls its listeners synchronously. A
consumer asks with the commit it has, is held when that is the commit served, and is authorized
again when it is woken. The first load of a boot is one step, because no listener or timer runs
yet. The webhook does what the poll does and is the same action.

### SchemaRules and SchemaForm

A value is a pair of a sort and a code; strings are the classes the rules tell apart (blank, a
word, an http URL, another URL, ciphertext, text with a comma) and numerals, which have a sort of
their own because the reader of an environment file may take their text for a number. A number is
coded by its double, so that whole and broken numbers both occur. `Values` are the values there
are, and `Row` the rows an operator may post; text listed as an allowed value holds no comma, as
`parseRows` splits the field at commas. `KeyReads`, `Reads`, `MayHold` and `Validates` are
`SchemaSet`; `DraftSound`, `Builds` and `Built` are `buildSchema`; `Formatted` and `Converted` are
the way of a stored value into a field of the page and back. `SchemaForm` walks through `Parse`,
`Build`, `Read`, `Create`, an optional `Change` and `Post`; its interest is in the data, so its
steps are sequential and its initial states are all the rows of the instance. `Stored` are the
values the schema is tried on; `StoredAssumption` asks that they include those at which two schemas
can differ: one of each kind and the bounds and allowed values of every row.

### ProductWrites and Console

Each operation is a function of a snapshot that gives a *plan*: a verdict, the documents it
writes, and the documents (`expects`) and sets of environment files (`collections`) it requires
to be unchanged, exactly as `ProductMutation` collects writes and checks. `Decide` is the snapshot
and the plan, `Commit` or `Conflict` is `writeMany`, and other browsers run in between. A page is
the ETag, the fields and the confirmation base that its HTML carries; `Save` posts all fields, as
the form does; `Rerender` is the page a refusal answers with, which holds the typed values under
the fresh ETag. `SetFlag` reads and writes in the same way, but requires the ETag the caller sent
and not the one it read. Which keys exist, which are secret and which refuse ill-typed text is
the data of a schema; the types themselves are in `SchemaRules`.

### SignIn

Time passes in the 30 second steps of the codes. `up` is the identity provider, `reachable` what
the last health probe said. `call[b]` is an attempt or a callback between the `await` it is
suspended at and its answer: a break-glass attempt reads the clock and the probe, then waits for
scrypt, then compares the code with the last one spent and spends it in one step. The flow cookie
of a browser is overwritten by every new flow and cleared by every answer. `built` is the record
that the console was constructed with.

### LogSink

A flush is a batch on its way through `insertApp` and then `insertAccess`; up to its first `await`
it is one step (`Swap`). Batches overlap. `own` is the flush that `close()` awaits; the process
exits after the pool ended, whatever other batches do.

### ConfigClient

A *task* is one call of `refresh()` or one loop of `watch()`; a loop that was stopped still waits
for its answer, so that a second one may run beside it. `Apply` replaces the values in one step;
`Open`, `Fill`, `Rename` and `Unlink` are the file operations of `writeCache`, over the temporary
file that all tasks share; handlers run after them (`AfterWrite`). `Held(t)` is a server that has
nothing newer: it may answer 304, or the 2 second timeout of the client may come first.

## 3. Runs

| Run | Shows | Bounds |
| --- | --- | --- |
| `engine_refines` | `DBEngine` implements `AtomicStore`; recovery can always finish, no lost update, acknowledged is durable, refused leaves no trace, attribution follows; every request is answered, every boot ends in service | two requests, two documents, all kinds of batch, two crashes, two failed file operations |
| `sync_outage` | attribution, pending report, notices and synced commit through an outage and two deaths; in the end the remote holds the store | one document, two writes, no switch; one failure, of the commit or of a network command, whose answer may be lost; two deaths, in service or in the boot |
| `sync_remote_edits` | neither side's commits are dropped | two documents, one write, one foreign edit, one switch of auto sync, one failed network command, no crash, with and without a remote |
| `serving` | wake-ups, grants during a hold, flags no older than the commit, healing | two revisions, one route and the poll, one consumer, one crash, two failed reads |
| `schema_form` | what the form builds is read, means what was typed, and survives a save of its page | every combination of a row's fields, alone or with a second row |
| `console` | products stay whole, commits are serial and valid, destruction is confirmed, editors keep others' changes | two browsers, two posts and their confirmations, two products, two environments, a plain and a secret key, five databases to start from |
| `signin` | a code is spent once; a session is for whom the browser authenticated | two browsers, accounts and records, three steps of the clock, two flows, two changes (outage, rotation, restart) |
| `log_sink` | losses are counted; no line is forgotten | batches of two, a cap of three, four lines, any statement may fail |
| `config_client` | handlers know the last values; the watch catches up | two commits, one change, one refresh, two watches, one fault |
| `sync_rotate_race`, `serving_degraded`, `console_stale_editor` | three disagreements, below | the smallest instances that have them; the last needs three posts, and has one uid, one flag and one database with no flags set |

Why the bounds are enough. Two batches can collide, and a redo that is itself interrupted needs two
crashes; one failure anywhere leaves the state that `recoveryRequired` guards, and a second one
meets the recovery. That a third request changes nothing in the safety properties is proved. In
the pipeline, the second write is the one that arrives during the sync of the first, or is committed
while the retry's push of the first is under way; a commit that fails leaves a rotated journal, and
the second death is the one in the boot that the first death caused: with these, `sync_outage`
reaches both steps that `Lapse` names. One foreign edit makes a push be rejected and a pull move the
clone. In the serving state the second
revision is the one that arrives during a reload; a reload that fails, then a boot that falls back
and fails again, are the two faults. In the console every property is broken by two posts that
overlap, or by one that is posted from an old page; the five databases are the stages of a
product's life, so that two posts reach each operation. A sign-in through the provider needs two
flows to be mixed up, and a code two posts. A batch that is full and one that waits for the timer
need four lines. Two tasks that apply and one that was stopped are all that can share the
client's temporary file in these ways.

### Fairness

`DBEngine`: weak fairness of `Boot` and of every request's own steps: the event loop runs each
ready continuation, and somebody restarts a process that died, which `src/docs/runbook.md:160`
asks for; no fairness of new requests, failures or crashes.
`SyncPipeline`: the interval timers of sync, retry and poll, the steps of runs under way and the
boot; not the operator, not writes. A tick of the retry whose `git log` fails for another reason
than a missing `origin/main` changes nothing, and the next tick is another attempt. `BackedUp`
assumes auto sync is on and stays on, and that failures are finite.
`ServingState`: the poll interval, each reload's steps, the boot, and the reconnecting consumer
(`watch()` in `client/config-client.ts` asks again for ever).
`LogSink`: a set timer fires and a query ends. `connectionTimeoutMillis` of the pool bounds only the
wait for a connection; that a statement which has one ends, by an answer or a broken connection,
rests on the database, and `LinesSettle` with it.
`ConfigClient`: the steps of each task; not the server's return, which `WatchCatchesUp` assumes.
That a request ends is the timeout's doing while it waits; an answer that is cut off in its body
has no listener in `client/config-client.ts:214-237` and is outside of what is assumed. `Console`,
`SignIn` and `SchemaForm` state safety only. In all runs deadlock is not checked: with all bounds
spent, or all requests answered, the model may stop; the liveness properties say where it may not.

### Disagreements

Each is a run that TLC refutes; `PROJECT.json` quotes the sentence.

1. `sync_rotate_race`: the journal is rotated before the snapshot is taken, so a write in between
   is committed without its author.
2. `serving_degraded`: the boot falls back to the snapshot, and then dies in `state.reload()`.
3. `console_stale_editor`: the page that answers a refused save shows the old values under the
   new ETag, so that saving it again undoes what somebody else wrote, in fields the operator
   never touched.

Others were met while modelling and have no run of their own. The models contain the steps; no
property claims the opposite.

- A sync that fails before its commit leaves its entries in `sending.jsonl`, and the next sync
  deletes the file before it looks (`store/write-journal.ts:40`). `recover()` truncates
  `pending.jsonl` before it fills it. `AttributionKept` names these two steps (`Lapse`), and that
  no other step forgets a writer.
- After a rebase, `syncedCommit` names a commit that is on no remote; a boot reports HEAD, pushed
  or not. A clean sync does not push confirmed commits. A successful background sync leaves a
  notice up. The mirror overwrites what a pull brought.
- A retry clears a notice it has nothing to do with: `clear()` runs after its push has ended
  (`server.ts:341-343`), so that the notice may be about a commit a sync made while that push was
  under way, or about changes that no commit holds. `ClearedAfterPush` says what remains true: the
  remote has all that the clone had committed when the push began.
- Where `git log` fails, nothing is unpushed (`git/repository.ts:280-283`). Until a fetch or a push
  creates `origin/main`, the retry publishes nothing and the report shows the journal only.
- A write between the read of the grants and the read of the values is served under the old
  grants until its own reload. `retiring` may be older than the commit a consumer is then held at.
  Overlapping reloads install out of order and share a temporary file.
- The blank field of a key that is not set is posted as a value (`routes/live-ui.ts:550`), where
  `src/docs/system-design.md:136` calls declared but unset keys harmless. A schema the builder
  accepts may be one the reader refuses: `BuilderAndReaderDiffer` lists the three reasons.
- `setFlag` compares the caller's ETag and not that of the file it read
  (`flags/flag-write-service.ts:50`); clicks on `/features` send none.
- The comment at `server.ts:292` says that a rotated break-glass record takes effect with the next
  reload; the console keeps the record of its construction. A restart forgets the codes spent, all
  those of the step and of the one before it.
- The buffer cap of the log sink is never reached, since a buffer is flushed at a smaller size;
  what grows are the batches in flight. Lines that arrive during `close()` are lost at the exit.
- `refresh()` may return while the cache file is empty, cut short through the shared temporary
  file (`client/config-client.ts:289`). A watch that is refused asks again without a pause.

## 4. Proofs

Each proof module shows, for every value of the constants, that an inductive invariant holds
at first and is preserved by every step (one lemma per action or handler, combined in one lemma
about `Next`); the theorems follow from it. The invariant is `Inv` where one serves all theorems
of a module, and a conjunction of the parts named below where theorems need different ones.
Leaves that take a prover more than a moment name it with a time limit (`SMTT`, `ZenonT`), so that
whether a proof passes does not depend on how busy the machine is.

The assumptions are those named in the modules. That bounds are naturals and that `Absent`, `Any`
and the names of processes are not documents, contents or each other (`BoundsAssumption`,
`DataAssumption`, `ClientAssumption`) says nothing of the code. Paths are integers so that they
sort, and a batch writes something and compares only what it writes (`DocumentAssumption`); a
batch of the log sink fits the buffer's cap (`SinkAssumption`), as the constants at
`logging/db-sink.ts:13` do. Environments are a sequence that is not empty and has no repetition
(`OrderAssumption`): `EnvironmentOrder` refuses neither, so these are the deployments whose
`environments.yaml` is in order. The console starts from databases whose
documents are well formed and whose products are whole (`ConsoleAssumption`): `Console` models
one deployment from a database that this code, or the first copy of the clone, has left. Rows and
values are those of `RowsAssumption` and `StoredAssumption` above.

`DBEngineProofs`: the type invariant, one intent, recoverability, no lost update, durability, the
finality of refusals, unique revisions, attribution after publication, and the refinement of
`AtomicStore`. None of these is inductive alone. `Inv` in `DBEngine` adds what they rest on: locks
have one holder, and a request in `finish()` holds the publication lock (`LockInv`); in each mode
only certain requests run (`ModeInv`); an intent belongs to the request in `finish()`, or, when the
engine is not healthy, to one that waits for the restart (`IntentInv`); payloads stay until they
are installed (`RequestInv`); only the pending intent may be one revision ahead of `.revision`
(`RevisionInv`); and the ledger follows the revision, the end of the intent and the answer follow
the ledger (`LedgerInv`).

The refinement needs to know, besides, that the abstract store is seen right by those who look at
it while files are being installed. `MappingInv` says what a request at each step has already
checked (its values were accepted, no ETag it compares is stale), which of its files are installed,
and who still waits for an answer; with `SeenIsCurrent`, what was compared under the path locks is
still what the mapped store holds. A reader sees the disk only when there is no intent, where disk
and mapped store agree. Then `RecordIntent` is the abstract commit, answers, failures and the crash
are their namesakes, and the installation and the recovery of files stutter.

`SyncPipelineProofs` begins with lemmas about histories: what a file holds is what the last commit
that touches it says; a history is a prefix of its extensions; a rebase keeps the other side as a
prefix and every commit of this one. From these:

- `BothSidesKept` needs the types (`Typed`) only.
- `ClearedAfterPush` needs `LandedIsKept`: from the moment the remote has taken a push until its
  caller goes on, the remote extends what was sent, because every other push is a fast-forward.
- `SyncedIsOnRemote` needs that, and `OursIsAhead`: with nobody else pushing, what is reported,
  tracked, sent and published is a prefix of the clone, so that no rebase ever renames a commit, and
  the push of a run carries the commit of that run.
- `AttributionKept` needs `MirroredIsKept` (what was mirrored is in the working tree, or in a
  commit already, though a rebase or a pull may replace the file between two documents of a
  mirror) and `WritersKnown`. The latter says of an entry that is not lost yet where it is
  (`Journaled`): where the run or the recovery under way will not overlook it, thus in
  `sending.jsonl` during a mirror only if the snapshot has the write. `EntriesStep` says which steps
  remove entries at all, and `JournalStep` what such a step means for a write that git lacks.
- `ReportIsHonest` needs `TrackingIsPast` (the tracking branch was the remote's at some time, so
  that a commit which the remote lacks is one that `git log` lists) and `SavedInBoot` (in service,
  `recover()` holds no entry in memory, so that an attributed write is in a file or in a commit).

None of these has a hypothesis about failures: any stage may fail, and the process may die in any
mode.

`ServingStateProofs`: the type invariant, `FlagsNotOlder`, `NoMissedWake` and `HoldIsNoWayAround`.
Needed besides: no snapshot file is ahead of the store (`FilesInv`), for the boot that falls back
to one and reads today's flags; and what a reload is about to install already has its flags of
the commit or later (`ReloadInv`).

`ConsoleProofs` rests on one fact about every operation of `ProductWrites`: its plan depends on
nothing but the documents and collections that it expects (`PlansAlike`). A plan that lands found
these unchanged, so that it is the plan of the store it lands on; that is `CommitIsSerial`, and
with it what an operation checks of its snapshot holds of the store it changes, which gives
`WhatLandsValidates`, `ConfirmedIsWhatHappens` and, with a lemma per operation that keeps products
whole, `ProductsAreWhole`. The inductive invariant is `Consistent`: the store is well formed, pages
carry what their kind carries, and every plan under way was made on *some* well-formed store, since
the one it was made on is gone.

`EditorsKeepOthers` relates a page to a store that may be many commits younger, and needs a memory
(`Remembered`): for every page and request, either the environment file it is about has the
version whose ETag it carries and the fields shown are its values, or that version is gone for good
(`Gone`). That holds because a file's version only grows until its product is archived, because
secrets stay secret, and because an archive is never removed (`Ages`, proved for every operation,
creations included). The exception is a product that is archived and created anew: its files start
at version 1 again. The model's ciphertexts are their plaintexts, so that an old file may recur
there with the same ETag, where the code would have encrypted its secrets anew. The theorem
therefore has the hypothesis `NothingRevived`, that no creation lands under the name of an archived
product; new names are created freely. The run revives names too, but an archive and a creation
are its two requests, so that no save of an older page follows.

`SchemaFormProofs`: all four properties of `SchemaForm`, for any rows, names and values. The lemmas
say what `Parse` makes of a row, when the reader takes what the builder made of a sound draft
(`ReaderOnDraft`), that the schema then takes the values the row says (`RowMeans`), at least one
of those tried (`SomeValueFits`), and that a value comes back from its field as it went in, but for
the two that cannot (`FieldsRoundTrip`). `FormInv` says at each phase which of the others the state
was made from.

`ConfigClientProofs`: the type invariant and `HandlersToldLast`. Needed besides: while the handlers
have not run for what is current, some task that has applied values is still on its way to them
and remembers that they changed (`NoticePending`). It may be another task than the one whose
values are current, which is why a task that applies the same commit again need not notify.

`SignInProofs`: the type invariant, `SpentOnce` and `SignedInAsOneself`. Needed besides: nothing
above the last code spent has let anybody in (`SpentInv`); a state belongs to one browser, in its
cookie as in its links (`FlowInv`); and a callback under way holds a link of its own browser
(`CallInv`).

`LogSinkProofs`: the type invariant and `CountCoversLoss`. For the latter: a buffer holds less than
a batch, so that the cap never cuts one (`Shape`); and a failing flush counts at least the distinct
lines its batch still carries, by the cardinality of unions from the library. The invariant holds
after the exit too, where the property claims nothing: what an exit leaves in buffers and batches
is outside of this count. For the type invariant, whose bound on `dropped` is not obvious, `Tidy`
says the converse: a line is in one place at most, and `dropped` is at most the number of lines that
are neither buffered nor in a batch under way (`Settled`).

Only model-checked: the liveness properties (no prover here for fairness and `ENABLED`). Outside
the theorems is `EditorsKeepOthers` where an archived product is created anew. Every other
invariant and action property of a passing run is a theorem.

## 5. What is not modelled

- Several processes on one database or one socket: the code supports one. `app.ts` probes a
  socket before it removes it, with a timeout; two instances that start together are not covered.
- Torn writes below `rename`: `FileWriter` flushes file and directory, and a step of the model is
  one such replacement.
- A remote that has no `main` yet: a fetch of it fails for ever, while a push creates it.
- At most one retry and one pull are under way; the code's timers could start a second one when
  the first takes longer than the interval.
- Console routes await `onCommitted`, the reload of `ServingState`; that it may throw is in
  `ServingState`, and the 500 that the operator then gets for a change that is in the store is not
  in `Console`.
- `schema/schema-write-service.ts` writes `schema.yaml`, which no reader of the repository reads.
  The first copy of the clone (`store/bootstrap-db.ts`) runs before anything else; its hazard is
  listed.
- Patterns of names, the layout of YAML and HTML, encryption, signatures, hashes, formats of logs
  and cookies. A document that does not decrypt is a failed read.
- Components with status `not_modelled` in `PROJECT.json`.

## 6. Plan

Done: all modules of section 2 and the proofs of section 4. Left, in this order:

1. `EditorsKeepOthers` where archived products are created anew, which needs ciphertexts that are
   never the same twice.
2. `ServingState` and `ConfigClient` composed, so that a consumer's file and handlers are checked
   against the grants and commits of the server.
3. `Bootstrap`: a crash during the first copy.
