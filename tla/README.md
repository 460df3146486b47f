# SeSQLite: a TLA+ verification project

SeSQLite (`src/ext/security/sesqlite/`) adds mandatory access control to SQLite:
every table, column and row has an SELinux label, and an authorizer asks SELinux
before a statement touches them. Labels are stored as small integers; the table
`selinux_id` says what an integer means. Most of the code is sequential, but its
state lives in three places with different lifetimes: the database file (which
follows transactions), the process's globals (which follow nothing) and a cache
of decisions (which follows hooks). What can go wrong is mostly that these
three stop agreeing, and that is what this project is about.

Below it lies SQLite itself, 200 000 lines that SeSQLite changes in a few places.
Its labels are worth what SQLite's transactions are worth, so the two commit
protocols of the core that decide this are modelled as well: the rollback
journal with the file locks, and the write-ahead log. The rest of the core is modelled
only as far as SeSQLite relies on it (see "Not modelled").

## Inventory

| Component | State | Operations | What makes it correct | Module |
|---|---|---|---|---|
| Label store (`sesqlite_init.c`, `_authorizer.c`, `_compute_label.c`, `_hash.c`) | table `selinux_id`; BiHash `hash_id` (`key2val`, `val2key`); `contexts` | `insert_id`, `insert_context`, `lookup_security_label`, `load_contexts_from_table`; transactions, crash | memory and table agree on each visible row; an id on disk never changes meaning | `LabelStore`, `LabelRegistry`, `LabelStoreProofs` |
| Access vector cache (`sesqlite_authorizer.c/.h`) | `avc`: packed key to allow/deny | `checkAccess`, `selinux_check_access()`, commit and rollback hooks, `PRAGMA clearavc` | a cached decision is the policy's decision for the label the id has now | `AccessVectorCache`, `CacheAndRowProofs` |
| Initialisation (`sesqlite_init.c`) | both internal tables, the globals, the program counter of `sqlite3SelinuxInit` | `isReopen`, `create_internal_table`, `initialize_mapping`, `load_sesqlite_contexts`, `load_contexts_from_table`, `insert_id` for the subject | an open succeeds only on a completely initialised database; the open of a known subject fails only by an error of its own statements | `Lifecycle`, `LifecycleProofs` |
| Contexts file (`sesqlite_contexts.c`, `_compute_label.c`) | five sorted lists of patterns | `read_sesqlite_context`, `sorted_insert`, `compute_sql_context`, `reload_sesqlite_contexts` | the most specific line labels an object | `Contexts`, `ContextsProofs`, `Catalog` |
| Hash table (`hash/sqlite/`) | element list, buckets, `htsize` | find, insert, replace, remove, grow, clear | it is a map | `HashTable`, `Map`, `HashTableProofs` |
| Object catalog | table `selinux_context`, global `hash` | create, drop, rename, alter, `chcon`, `restorecon`, `getContext` | the table describes the schema; memory and table agree on each object | `Lifecycle` (first open), `Catalog`, `CatalogProofs` |
| Authorizer | none of its own | `selinuxAuthorizer`, `checkAllColumns`, `getContext` | every access is checked against the right object | `Authorizer`, `Catalog`, `AccessVectorCache` |
| Row level | hidden column `security_context` | `getcon_id`, `selinux_check_access` in the added predicates, hooks in `insert.c`, `select.c`, `update.c`, `delete.c`, `alter.c` | rows are filtered by their own label, and keep it | `RowLevel`, `CacheAndRowProofs` |
| PRAGMAs | - | `clearavc`, `chcon`, `restorecon`; `getcon`, `getdefaultcon` print | | `AccessVectorCache`, `Catalog` |
| Pager, rollback journal (`pager.c`) | database, journal, page caches, `eState` | shared lock and hot journal, begin, write, spill, commit, rollback, errors | a transaction is atomic, a reader sees one commit | `Pager`, `PagerProofs` |
| Unix file locks (`os_unix.c`) | a lock level per process | `unixLock`, `unixCheckReservedLock` | one writer, no reader beside EXCLUSIVE, no starved writer | `UnixLock`, `Pager` |
| Write-ahead log (`wal.c`) | log, wal-index, read marks, locks | read, write, restart, checkpoint, recover, close | snapshots, no lost update, durability | `Wal`, `WalProofs` |
| Commit over several files, shared cache, B-tree, VDBE, parser, planner, extensions, shell, virtual table, utilities, tests | | | | not modelled |

How they interact. `sqlite3SelinuxInit` creates the globals and the tables, reads
the contexts file (first open) or the tables (reopen), installs the authorizer
with its hooks, and registers the process's own label. Afterwards SQLite calls
the authorizer while it compiles a statement, which may be long before it runs, and
`selinux_check_access` while it runs one; both look the object's id up in `hash`, its label in `hash_id`, and
the decision in `avc`. New labels are registered from inside other statements,
so their rows belong to whatever transaction is open. All three maps are instances of
the hash table. CREATE TABLE, DROP TABLE and ALTER TABLE call
hooks that write `selinux_context`, some while the statement is compiled and some when it
runs; INSERT fills `security_context` in, and SELECT, UPDATE and DELETE get a predicate
over it. All of these tables are pages of a file that the pager or the log
commits; processes meet only there, in its locks and in the wal-index.

The hard parts. (1) A rollback removes rows of `selinux_id` and gives their
rowids out again, and no code touches `hash_id` then. (2) The cache is keyed by
id, not by label. (3) No transaction surrounds the initialisation, and nothing
on disk says that it ended. (4) Several return codes are ignored. (5) Several
processes may run the initialisation together. (6) A row stores an id, and `ROLLBACK TO`
may bring rows and labels back in different combinations. (7) The catalog has two
halves written by different statements, and a statement is authorised when it is compiled, not when it runs. (8) A process can die and power can
fail between any two file operations of a commit, and what was not synced may be there or
not. (9) In the log, headers, marks and frames are read and locked one
after the other. `PROJECT.json` lists these as
hazards, each at its line, with the properties aimed at it.

## Modules

**LabelStore.** `table` is `selinux_id` as the connection sees it: a rowid is
"largest rowid + 1" and nothing deletes a row, so it is a sequence, and a
savepoint is the length it had. `saved` is the stack of open savepoints, its
first entry the transaction. `key2val` and `val2key` are the two halves of
`hash_id`; no action for a transaction changes them, because no code does.
`Register` is `insert_id`, `insert_context` and `lookup_security_label`, which run the
same statement and the same `SESQLITE_BIHASH_INSERT`; `RegisterFails` is the same call
when the insertion fails and the ignored return code lets it go on. The constant `Faults` says
what else may go wrong: insertions ("insert"), the reload, which takes a read error for the end of the
table and may so have read any part of it ("read"), and another process that registers labels
(`OtherRegisters`, "process"), which an open process never learns. `spoiled` is a history variable: `hash_id` lost
track of the table through one of these, and no code noticed; the next complete reload ends it.
`BihashInsert` follows the macro's order: the old value is fetched, freed by the
insertion, and then given to `HASH_REMOVE`; reading freed memory is a choice
among the outcomes (the old label, the new one in the reused block, neither).
`OpenNew` and `Reopen` are the two outcomes of `sqlite3SelinuxInit`, `Crash` the
end of the process. **LabelRegistry** is what the stored ids need of all this:
an append-only list of different labels.

**AccessVectorCache** extends LabelStore: each of its actions is a LabelStore
action plus what the hooks and the cache do. `Compress` keeps the shifts and
the 16-bit truncation of `compress`. `wrote` records whether the transaction
wrote, because SQLite runs the commit hook only then. `ROLLBACK TO` runs no hook.
The policy and the subject are fixed.

**RowLevel** extends AccessVectorCache by the rows of one table: `data.rows` holds for each row the
id in `security_context`, and, as history, the label that was meant and whether it was
in `selinux_id` then. `savedData` runs along `saved`, so savepoints restore rows and labels together.
`Insert` without a
column list writes the id as the last value, so `AlterAdd` (which puts a column behind
`security_context`) changes what an insertion writes. The predicate that SELECT, UPDATE and
DELETE get is evaluated row by row through the cache: `RowCheck` asks and remembers, `Permits` is
the answer, cached or new, and an UPDATE or a DELETE goes on with the rows that passed (`Passed`).

**Authorizer** is `selinuxAuthorizer` as a table: the permission each action code asks of
the database, the table, the column, or all columns. It has no state. ATTACH,
DETACH and PRAGMA are left out: they name no labelled object, and the
callback refuses some of them outright.

**Catalog** uses it. `db` is what the connection sees of the file (the schema with the columns of each
table, and the rows of `selinux_context` by rowid), `saved` what it was when the open transaction began,
`hash` the labels in memory, `contexts` the version of the contexts file that the patterns in memory
came from, or none. `vacuum` is the flag that suppresses the hooks. A statement that changes the schema
is two actions. Compiling it (`CompileCreate`, `CompileDrop`, ...) asks the authorizer, computes the labels of the rows
it will insert, and puts it in `prepared`; running it (`CreateTable`, `DropTable`, ...) takes it from there,
at any later time, and asks nothing. In between it is dropped when the schema cookie or the schema's
generation changes (`SchemaChanged`, `Vacuum`), when a transaction that changed the schema (`internChanges`) is rolled
back, and when the connection closes; `sqlite3_prepare_v2`, which compiles again in that
case, is another `Compile`. A PRAGMA changes labels and no cookie: the field `stale` of a statement is
history and says that this happened since it was compiled. `oneSided` is a history
variable too: the objects whose label the code last wrote on one side only. `MaxOps` bounds the
statements compiled, and the PRAGMAs run, in a behaviour.

**Lifecycle** takes `sqlite3SelinuxInit` apart into its statements, for several
processes on one file. Each process has its own globals; a second open in a
process replaces `hash` and `hash_id` and keeps `contexts`. A failing `assert`
and a dereference of a NULL `contexts` both lead to `aborted`, so the model is of a build that
keeps its assertions. `WriteMayFail` and `ReadMayFail` let statements fail; `StatementFails` is every error
that `sqlite3SelinuxInit` returns before it loads anything: a statement that cannot be compiled (`isReopen`, `prepare_stmt`,
`load_contexts_from_table`), a CREATE TABLE, also one that finds its table and only
cannot get the lock to verify the schema. Two
history variables condition the properties: `knew` (the database was there with the subject's
label when `isReopen` looked, and no statement of this open has returned an error since) and `slipped` (an error was ignored:
a `stmt_insert` that failed, a read error taken for the end of a table, or a second
try in a process whose first open failed with `contexts` set).
The `security_context` column of `selinux_id` is only the flag `stamped`.

**Contexts** reads a file line by line into the five lists and compares the first
match with a reference definition that never mentions string order. A
name is a number that orders like the name; `NameAssumption` says no name
sorts before `*`. Lines longer than the 255-byte buffer of `fgets` are
left out.

**HashTable** has the list, the buckets with `chain` and `count`, growth and
failed allocations; **Map** is its abstract specification. Hash and comparison
functions are the constant `HashOf`. A first table of 8 buckets is the
parameter `InitSize`, 1 in the run so that four keys make the table grow twice.

**UnixLock** has the five levels and when `unixLock` grants one. **Pager** has an action
for each file operation, since another process or a crash can come between any two. The
journal is a sequence of sectors, each a header or a record with the nonce of its
header; they are read back the way `readJournalHdr` and `pager_playback_one_page` do.
`dbLoss`, `jDisk` and `ghosts` are what a loss of power may leave: any written but unsynced value of
a page, the sectors as last synced, a journal whose deletion was not synced.
The file has a fixed number of pages and page 1 stands for the change counter. `com` is
the last transaction's contents, as history.

**Wal** has the log with its salt, both copies of the wal-index header, the page index,
`nBackfill` and the read marks. Steps of their own are whatever the
protocol has to survive: copying the header, choosing a mark, locking it and looking again,
each frame a writer appends, both header writes, each mark a checkpoint reads, each frame it
copies, its syncs. Simplified: a header copy is read in one step (a torn
copy fails its checksum), the scan for the best mark is one step, recovery and closing are one step
each under their exclusive locks, the log header is written and synced with the first
frame, the salt is the number of the transaction that restarted the log, the database
does not grow, and a RESTART checkpoint is a FULL one followed by a wait. `overrun` is a history
variable: a checkpoint or a reset lost track of the log, as
the run `wal_backfill` shows it can; the other properties of the module are about
behaviours without it.

Operators whose comment begins with "Mutation" are plausible mistakes in the
definition that follows; no specification uses them. `PROJECT.json` pairs each
checked property with one that breaks it.

## Runs

Sizes are distinct states. Constants are small sets of model values; every bound
is a named constant.

| Run | Instance | Checks | Shows |
|---|---|---|---|
| `label_store` | 4 labels, ids to 4, 2 savepoints, all three faults; 190 430 | `LabelsAgree`, `MirrorInv`, `DurableMeaning`, `Implements` | `hash_id` mirrors `selinux_id` through rollbacks, reused rowids and crashes until a fault spoils it, and again after the next complete reload; the disk implements LabelRegistry whatever the faults |
| `access_vector_cache` | the same without faults, 2 (class, permission) pairs; 330 577 | `SoundAtRest`, `SoundForDurable`, `StaleOnlyInFlight` | stale decisions exist only inside a writing transaction and only about ids it has not committed |
| `lifecycle` | 2 processes, reads and writes may fail; 660 168 | `OpenMirrors`, `OpenComplete`, `KnownSubjectSafe`, `KnownSubjectOpens` | unless an error was ignored no open succeeds on a half-initialised database and memory is then the disk; the open of a subject the database knows never aborts, fails only by an error of its own, and else succeeds |
| `contexts` | 15 lines, files of up to 4; 108 484 | `Sorted`, `NothingLost`, `MostSpecificWins` | first match in string order = most specific line, the later of equal ones |
| `hash_table` | 4 keys, 2 values, collisions at 2 and 4 buckets, allocations may fail; 3 637 | `Runs`, `IsMap` | buckets stay contiguous runs, and the table implements Map |
| `row_level` | 1 row, 3 labels, ids to 2, 2 savepoints, the 3 tuple permissions; 1 320 018 | `RowMeaning`, `SavedMeaning`, `FilterExact` | a row whose label was registered when it was written keeps it, also in every copy a savepoint can bring back; once the label is committed it decides what the cache or SELinux answers |
| `catalog` | 2 tables, 2 labels, 2 versions of the contexts file, 4 statements; 716 248 | `CatalogMatchesSchema`, `MemoryAgrees`, `DropAsStored` | `selinux_context` describes the schema; `hash` differs from it only where the code writes one side; no table is dropped that its stored label protects, unless it was relabelled after the DROP was compiled |
| `pager` | 2 processes, page 1 and a data page, 2 transactions, 4 sectors, DELETE mode, `fullSync` on and off, I/O errors, crashes, loss of power; 238 450 | `Recoverable`, `Snapshot`, `NotStarved` | commits are atomic, a reader sees the last one, a writer with PENDING gets EXCLUSIVE or gives up |
| `pager_journal` | 1 process, 2 data pages, 6 sectors, all three modes, `fullSync`; 2.13 million | `Recoverable` | journals with several headers, and over the remains of older ones, still recover |
| `wal` | 2 symmetric processes, 2 pages, 3 read locks, 2 frames, 2 transactions, `synchronous=FULL`, both checkpoints, crashes, loss of power; 1 126 923 | `Snapshot`, `Recoverable`, `NoLostUpdate`, `Durable` | the promises of the log, as long as `nBackfill` has not run past it |

Every run that has a `TypeOK` (`CacheTypeOK`, `RowTypeOK`) checks it too.

Why the bounds are enough. Three ids above the initial one and two savepoints are
what it takes to register a label, roll back to an inner savepoint, reuse its
rowid for another label and roll back again, which is the longest dependency any
property of the label store has, with an id to spare; rows add steps to it (written and checked before the
rollback, read after it), and do not influence each other, so one suffices, and one id above
the initial one, which two labels can claim in turn. Two processes
suffice for every race in the initialisation, since a process only looks at the file. Four lines with
the same class cover a middle insertion between two others and a tie. Four keys and two
doublings cover a move between buckets while an insertion is pending. In the
catalog the longest dependency is create, change one side, drop or rename, create
again under the name: four statements, with transactions, crashes, openings and new files between
them for free. For the pager, two processes are a writer and a reader, or two readers
of one hot journal; two transactions let a cache go stale and an old journal lie
under a new one; four sectors are a header and a record for each page with one to spare,
six are two headers with theirs. For the log, two frames and two
transactions are enough to restart it while another process holds an old header,
and three read locks to have a mark besides 0 that is in use and one that is free.
Deadlock checking is on except in `contexts`, where the file ends, and in `hash_table`, where
the model stops once a freed element is linked.

Fairness. `Lifecycle!Spec` has weak fairness on `Step(p)` for each process, the
next statement of `sqlite3SelinuxInit`: it waits for no other process (a lock that
is held makes the statement fail, and that is `WriteMayFail`/`ReadMayFail`). Opening
and ending a process are not fair. `Pager!Spec` has weak fairness on what ends by itself: a
reader's statement (`ReadStep`) and its end (`Unlock`), a playback (`EndStep`), the reset of a connection in the error state (`UnlockError`), and the
next try for EXCLUSIVE (`ExclusiveLock`, the busy handler). That a reader ends its
transaction is an assumption on the application, and without it `NotStarved` is false of any
lock. A writer's other steps are not fair.

### Where the code and its own words differ

Two runs expect a violation.

| Run | Property | What happens |
|---|---|---|
| `wal_backfill` | `BackfillBound` ("The nBackfill number is never greater than WalIndexHdr.mxFrame", `wal.c:322`) | all of the log is backfilled; a further checkpoint copies the header, and before it looks at `nBackfill` a writer restarts the log; the checkpoint then stores the old `mxFrame` in `nBackfill` (`wal.c:1680`, `1764`), and later commits are taken for backfilled |
| `row_level_rolled_back` | `RowHasItsLabel` (`test_tuple_level.c:129` expects a row relabelled by `getcon_id` to be filtered by that label) | the label was rolled back and is still found in `hash_id`; the row gets an id without a row in `selinux_id`, and the next label registered takes the id, and the row, over |

More are reached by the models and have no run of their own.

Label store and cache:
- `stmt_insert` fails and its return code is dropped (`sesqlite_authorizer.c:50`): the label
  gets the id of an earlier row (`RegisterFails`).
- the old value is freed before `HASH_REMOVE` uses it (`sesqlite_hash.c:39-42`): the old association may stay.
- `ROLLBACK TO` runs no hook, so a grant is applied to the next label with that id until the
  transaction ends (`sesqlite_authorizer.c:883`; `StaleOnlyInFlight` is the exact limit). A row that was given such a
  label can be shown, changed or hidden wrongly until then.
- a process never learns of labels that another one registers after it opened the database: their ids have no
  label for it, and registering one of them itself fails and gives the label a wrong id (`OtherRegisters`, `RegisterFails`).

Initialisation:
- without a contexts file the first open fails after it created the tables; the next open takes
  them for an initialised database and dereferences `contexts`, which is NULL.
- `isReopen` counts tables: after a crash between the two CREATE TABLEs every open fails.
- a read error is taken for the end of a table (`sesqlite_init.c:269`).
- if the UPDATE of a first open fails and the application opens the file again in the same
  process, the open succeeds with no object labelled.
- two first opens at once both find no table; the slower one's insertion in `initialize_mapping`
  violates UNIQUE and its `assert( rc==SQLITE_DONE )` fails.

Hash table and catalog:
- `sqliteHashInsert` leaves the old `nData` when it replaces a value, and when it
  cannot allocate the copy it frees an element that stays linked (`ReplaceFails`).
- a NULL filter of `restorecon` is called a wildcard and is none (`sesqlite_contexts.c:272-274`).
- DROP TABLE is authorised when it is compiled (`build.c:2525`). A `PRAGMA restorecon` that protects the table changes no
  schema cookie, so a DROP that was compiled before still drops it.
- CREATE TABLE writes the labels `hash` had when it was compiled: a chcon before it runs leaves
  the two sides different.
- `PRAGMA restorecon` in a process that only reopened frees `contexts`, which is NULL
  (`sesqlite_init.c:313`), and dies.
- a VACUUM that fails leaves its flag set (`vacuum.c:234`): tables created later in the process
  have neither `security_context` nor labels (`CompileInVacuum`).

Pager and log:
- a crash between the header write and `nBackfill = 0` (`wal.c:2619-2620`) has the effect of `wal_backfill`.
- in DELETE and TRUNCATE mode the deletion or truncation that commits is not synced
  (`pager.c:1979`, `1958`): a loss of power may bring the journal back and take the commit
  with it, although the transaction is called committed (`pager.c:6244-6245`). The model keeps such
  a journal in `ghosts` with the state it recovers to, and a loss of power that brings it back makes that
  state the last commit: `Recoverable` is about atomicity there, not durability.
- with `synchronous=NORMAL` and PERSIST mode an old header may be played back, which the
  comment at `pager.c:3426-3431` admits; `pager_journal` uses `fullSync`.

The properties that hold are stated for the conditions under which the code keeps them:
`LabelsAgree` until `spoiled`, the properties of an open without `slipped` or, for a known subject, without an
error of its own, `RowMeaning` for labels that were registered and `FilterExact` for those that are committed, `MemoryAgrees` outside
`oneSided`, `DropAsStored` outside `oneSided` and `stale`, `IsMap` until a
replacement fails, those of the log without `overrun`. These history variables exclude the cases listed above,
they do not catch them: what the properties show is that nothing else goes wrong.

## Proofs

Eight modules hold theorems, checked by TLAPS (SMT, Zenon and LS4). They hold for every set
of processes, labels, pages and names and for every bound that the named assumptions allow. Each
extends the module it is about and its proof has one lemma or step per action.

**LabelStoreProofs**
- `TypeCorrect`: `Spec => [](TypeOK /\ Nested)`. `TypeOK` is not inductive: a
  savepoint that remembered more rows than there are would cut the table to
  something that is no table, so `Nested` is carried along.
- `Mirror`: `Spec => [](LabelsAgree /\ MirrorInv)`, for any `Faults`. `LabelsAgree`
  speaks of visible rows only, and is not inductive because registering a label
  reuses an id under which a rollback may have left another label, whose entry
  `BIHASH_INSERT` then tries to drop. The strengthening says no label is under two
  ids (`Key2ValInjective`) and every label under an id is found (`Key2ValFound`): so
  a label that `FINDKEY` misses is under no id, and the label that is dropped is no
  visible row's. `BihashInsertEffect` covers all outcomes of the read of freed memory.
- `DurableIds`: `Spec => DurableMeaning`, from `DiskGrows` (every
  step leaves the disk a prefix of the next) and `Mirror`'s invariant.
- `Implementation`: `Spec => Implements`, the refinement of LabelRegistry, whatever the
  faults. `UNIQUE` gives `Distinct(table)`; `DiskGrows` the rest.

**CacheAndRowProofs**, the two users of the label store
- `CacheStale` and `CacheSound`: `CacheTypeOK`, `StaleOnlyInFlight`, and from it `SoundAtRest` and
  `SoundForDurable`. The invariant is `StaleOnlyInFlight` with the mirror: a stale entry needs an open
  transaction that wrote and an id above the disk's. `KeyInjective` shows that `compress` gives
  different questions different keys when ids are below 65536, the subject's id
  below 2032, classes below 8 and permissions below 32; `StoreStep` that each
  cache step is a step of the label store or none, so `Mirror` applies.
- `RowsKeepMeaning`: `RowTypeOK`, `RowMeaning` and `SavedMeaning`. Rows and labels are
  saved on two stacks; the invariant `AllSettled` says of every pair of levels what
  `RowMeaning` says of the visible one, so that no `ROLLBACK TO` can combine a row with
  a label that took its id over. `TuplePublished` says the label an INSERT
  stores is on disk from the first open on.
- `FilterDecides`: `FilterExact`, for every policy. A row step is a cache step or leaves the label store and the cache alone, so
  `StaleOnlyInFlight` holds here too: a cached answer about a committed id is the policy's for the
  label `hash_id` has under it, and `RowMeaning` says that this is the row's.

**ContextsProofs**, for a file of any length
- `ListsSorted`, `EntriesKept`, `FirstMatchIsBest`. That a list is sorted does not say which of two
  equal patterns is in front; the invariant keeps, for each list, an injection from its entries
  to the lines of the file under which the later line is in front (`Comes`).
  The first match is the most specific because the order of the patterns extends
  specificity; `NameAssumption` (no name sorts before `*`) is what makes that true.

**LifecycleProofs**, for any number of processes that initialise one file
- `LifeTypes`: `TypeOK`, with `CountersOK` for the loops.
- `KnownSubjectIsSafe`: `KnownSubjectSafe`. `KnownInv` follows the open from `isReopen` on.
- `OpensAreComplete`, `OpensMirrorDisk`: `OpenComplete` and `OpenMirrors`. The code records
  nowhere that an initialisation ended. The invariant (`InitInv`) says why none is needed: the
  assertions of `initialize_mapping` let one process (`Leads`) past the first tuple label, until it registers
  its own label nobody else adds a row, and so a subject's row (`Done`) means that all
  before it is there (`Complete`).

**CatalogProofs**, for any tables, labels, policy and versions of the contexts file
- `CatalogTypes`, `RowsDescribeSchema`, `LabelsMirrored`: `TypeOK`, `CatalogMatchesSchema` and `MemoryAgrees`. The invariant
  `CatalogInv` says of the visible database and of the one a rollback would bring back that their rows describe their schema
  (`Describes`). It adds to the property that a row under the name, or the text, of the column ALTER TABLE adds exists only
  once the column does (`AddedExist`), without which adding it could meet an older row. Of `hash` it says
  more than the property (`Mirrors`): an object that has a row is in `hash`, under the label of its last row. `MemoryAgrees` alone
  is not inductive, because `getContext` would enter a default for an object that `hash` had lost.
  For statements that run long after they were compiled it adds `Statements`: each one in `prepared` could still
  be compiled against the schema as it is (`Ready`), the rows a CREATE will insert have the labels `hash` has, and the label a DROP was granted
  on is the one in `hash`, unless the statement is `stale`. `ReadyStays` shows that whatever does not change the
  schema keeps this; what does change it empties `prepared`, or, at a rollback, must have set `internChanges`.
- `DropsAreGranted`: `DropAsStored`, from the same invariant and what the authorizer asks for DROP TABLE (`DropAsked`).

**WalProofs**
- `WalTypes`: `TypeOK`, with the types of all steps in between and the exclusion of shared and
  exclusive holders of a read lock.
- `UpdatesNotLost`: `NoLostUpdate`. The invariant `WriterInv` says what a process knows between
  taking the write lock and comparing its header with the index; the proof does not need the
  exclusion of `overrun` that the property states.
- `SnapshotIsolation`, `CommitsRecoverable`, `CommitsDurable`: `Snapshot`, `Recoverable` and `Durable`, all from the
  invariant `SnapshotInv`. None of the three is inductive: a reader's snapshot depends on what a checkpoint may copy under it, that on
  what a loss of power leaves, and that on what older frames in the log could be taken for. The invariant names a number `A`,
  the frames a loss of power cannot take: up to it the log on disk is valid and ends in a commit, and only pages of these
  frames may differ from the state the log starts from (`AnchorOK`, `LossOK`). A checkpoint moves `A` to its
  own header when it has synced the log and before it copies, the first frame of a log that is started over moves it to 0. In terms of `A`:
  - the log (`LogInv`): any frame with the salt of the log whose checksum goes through the first `A` frames gives,
    if it is a commit, the state recorded for that transaction (`CommitsOK`). This covers the frames of a transaction that
    was rolled back or died, which are still in the file and which the checksum of a later frame excludes; it is
    why any mixture of written and synced frames is safe;
  - the wal-index (`IdxInv`): its header ends in the last commit, and the first `nBackfill` frames are in the database;
  - a writer (`WrtInv`): what it has added shows the last commit with its own pages over it, and everything behind its
    last frame is of earlier transactions;
  - a reader (`RdInv`): its mark is not beyond its header, and its frames, over pages nobody copies to, show its commit;
    with read lock 0 the database alone does;
  - a checkpoint (`CkInv`): it stays below the header of every reader whose mark it has passed, and as long as one of its frames is
    not in the database no writer can start the log over.

**PagerProofs**, for any number of processes, pages, transactions and sectors
- `PagerTypes`: `TypeOK`. `TypeInv` adds that two levels held at once are compatible (`Alone`), which lock
  each state goes with (`Locked`), and that the pages a transaction has journalled are in its cache (`Present`).
- `Recovers`: `Ordered => (SafeSpec => []Recoverable)`, and `ReadersSeeCommits`: `Ordered => (SafeSpec => []Snapshot)`.
  Neither is inductive. The invariant `PagerInv` speaks about every journal a loss of power could leave:
  `Safe(slot, disk, loss, com)` says that any mixture of written and synced sectors, played back over any
  mixture of written and synced pages, gives the last commit, and of each unsynced deletion (`ghosts`) that the
  journal it may bring back gives the commit it belongs to. For a journal that is being written (`BuildInv`) this comes from three
  facts: up to the last header the reading gives exactly the synced pages (`Before`),
  the records behind it are original contents under its nonce (`Segment`), and what of them is not
  synced is older and so has another nonce (`OnDisk`); hence the reading stops, or goes on
  honestly. `CacheInv` says a cache whose version is the file's change counter holds pages of the last commit only,
  which needs every commit to raise the counter (`LiveInv`).
  The hypothesis `Ordered` is that every connection syncs the records before the header (`fullSync`), or none
  uses PERSIST. Without it the statement is false, as the comment at `pager.c:3426-3431` admits and
  TLC confirms: a header of an earlier journal that is still on disk may be taken for the
  continuation of the new one.

**HashTableProofs**, for any keys, any hash function and any number of elements
- `HashTableTypes`, `BucketsAreRuns`: `TypeOK` and `Runs`. `Runs` measures a run by a cardinality; the invariant
  `TableInv` has instead what the code relies on: `count` positions from `chain` on, and no other, hold the elements
  of the bucket. `GrownOther` and `ShrunkOther` show that an insertion in front of a bucket's
  first element, or of the whole list, cuts no other run, and neither does a removal; `ShrunkOwn` that `chain` may move to "the next
  element" because a bucket that keeps an element has it there. `RehashGood` follows the growth
  element by element.
- `TableIsMap`: `Spec => IsMap`, the refinement of Map, from the same invariant and `FoundIff`: the walk of `count`
  elements finds exactly the keys on the list.

Assumptions: `NoLabel` is no label; the initial labels are different and at
least one; the widths just named (`SubjectAssumption`, `ClassAssumption`,
`WidthAssumption`); in the cache and row modules, no faults (`NoFaultAssumption`); the row checks are among the checked pairs (`PermAssumption`), and the label a
table's rows get is one of the initial ones (`TupleAssumption`); in Lifecycle, no process runs with a label that is also the label of an object or of tuples, so that
a subject's row is written by `RegisterSubject` alone (its `SubjectAssumption`); the tables of a schema are finitely many and none has the empty name, whose entry would be
the database's (`TableAssumption`); values that stand for "none" are
no processes (`Nobody` in `Wal`, `None` in `Pager`), and 0 is no page of `Wal`: pages are numbered from 1, and an empty slot of the wal-index holds 0; a journal has at least one sector; the first hash table has at least one
bucket, and a hash value is any integer: `sqliteIntHash` may be negative, and `h & (size - 1)` is then still the
remainder, because the sizes are powers of two.

Statements about all lengths (the lists of `Contexts`, the sectors of a journal, the elements a growing table moves) need
induction, and the library's induction theorems cannot be instantiated by the installed provers. `NatMin`
(a nonempty set of numbers has a least element, from the well-foundedness of `<`) and `UpTo` (a set that contains the start of an
interval and with each number the next contains the interval) say the same of sets, which SMT can use.

Only model-checked: liveness (`KnownSubjectOpens`, `NotStarved`), which the prover does not
handle, and the two expected violations. Every invariant and action property of the passing
runs is stated by a theorem.

## Not modelled

- Commit over several files (the master journal of `vdbeaux.c` and `pager.c`): a protocol over several
  instances of `Pager`, and the next thing to add.
- Shared cache, unlock-notify, threads that share an inode, other locking styles,
  exclusive and memory journal modes, savepoints in pager and log, growth and truncation of the file.
- B-tree, page cache, VDBE, parser, code generator, planner, FTS, R-tree, ICU, the shell and the
  tools: sequential upstream code over large data structures, nine tenths of the repository's lines. A
  model small enough to check would have to leave out what makes it
  difficult, so the share of the repository's lines that the modules translate stays small.
- Of the hooks in the core: CREATE TABLE AS SELECT, views, and how names are resolved
  to the hidden column.
- Several processes in the cache, the rows and the catalog: these modules have one. What another process
  does to the labels is in `LabelStore` ("process") and, while it opens the database, in `Lifecycle`; its schema changes,
  restorecon and rows are not modelled.
- Two connections of one process to different files, which share SeSQLite's globals; a
  policy that is reloaded while the cache is full.
- The virtual table (`sesqlite_vtab.c`): nothing registers it. Printing, utilities, tests. The
  SELinux library is a constant, the policy.

## Plan

1. Done: label store, cache, initialisation, contexts file, hash table, rows, authorizer, catalog,
   rollback journal with locks, write-ahead log; proofs of every safety property of all of them.
2. Later: the master journal over two pagers, and two connections sharing the globals.
