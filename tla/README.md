# A verification project for SQLite3-Encryption

TLA+ models, TLC runs and TLAPS proofs for this repository: the SQLite 3.9.2
amalgamation (`src/src/sqlite3.c`) with the key-based codec of wxSQLite3
(`codec.c`, `codecext.c`) and the user authentication extension (`userauth.c`),
built for Windows with `SQLITE_HAS_CODEC`, `THREADSAFE=1` and
`SQLITE_USER_AUTHENTICATION` (`premake4.lua`, `sqlite3secure.c`). Line numbers
below are those of `sqlite3.c` unless another file is named.

## 1. Inventory

| component | state it keeps | operations | what makes it hard | what makes it correct |
|---|---|---|---|---|
| **File lock of the Windows VFS** (`winLock` 37385, `winCheckReservedLock` 37529, `winUnlock` 37565) | `winFile.locktype`; three lockable places of the file, shared by all processes | raise a lock, lower it, ask whether somebody is writing | a range cannot be converted from shared to exclusive: it is given up and asked for again, with other processes in between; upgrades that fail half way; handles that vanish | exclusion, one writer, no new readers while a writer waits, no lock lost and none left behind, no starvation |
| **Pager** (42867 ff.) | `Pager.eState`, the page cache, `pInJournal`, `dbFileVers`; on disk the database file and the rollback journal | shared lock with hot-journal recovery, read, begin, write, spill, commit, rollback | a crash, a power failure or an I/O error between any two steps; other processes looking at journal and locks at the same time | atomic commit, isolation, durability, a cache that is never stale |
| **Key-based codec** (`codecext.c`, key handling of `codec.c`) | read key, write key and three flags per database | `sqlite3_key_v2`, `sqlite3_rekey_v2`, encryption of a page for the file or for the journal | a rekey rewrites the file in one transaction that may fail, be spilled, or be interrupted; part of it runs outside `db->mutex` | the file is always under one key; a connection always has the key of its file |
| **Codec algorithms** (`codec.c`, `rijndael.c`, `sha2.c`) | none | derive a key, encrypt, decrypt | arithmetic | decryption inverts encryption |
| **User authentication** (`userauth.c`) | `db->auth`, the table `sqlite_user` | authenticate, add, change, delete | the level of a connection is kept while other connections change the table | only an administrator changes users, and there is always one |
| **Write-ahead log** (50300 ff., `winShmLock`) | the log, the wal-index, eight lock bytes | read, append, checkpoint, recover | readers, a writer and a checkpointer at once; crash recovery of the index | snapshot isolation, no frame lost before it is checkpointed |
| **Page cache** (40444, 41118) | hash of pages, dirty list, LRU list | fetch, unpin, make dirty, stress | its limits, recycling, groups of caches | no pinned page is recycled |
| **B-tree, shared cache** (53484, 54503) | the list of `BtShared`, their mutexes and reference counts; transactions and table locks of each `Btree`; trees, cursors | open, close, enter, leave, begin, lock a table, end; cursors | several mutexes taken in any order by several threads; one opens a file while another closes it; a `SQLITE_LOCKED` that must end | no deadlock; one `BtShared` for a file; table locks that exclude; tree invariants |
| **Backup** (64159) | cursor into the source | step, finish, update, restart | the source changes between steps | the copy equals the source |
| **ATTACH, VACUUM, multi-file commit** (`vdbeCommit` 68690, `pager_delmaster` 45443; 91914, 116385) | list of databases; a rollback journal per file and a master journal that names them | commit of several files, recovery of each; attach, detach, vacuum | a crash between files, files recovered one by one by different connections | all files or none |
| **SQL compiler, VDBE, extensions, shell** | | | sequential and large | out of scope |

How they interact: the B-tree calls the pager (`sqlite3PagerSharedLock`,
`Acquire`, `Write`, `CommitPhaseOne`, ...); the pager calls the VFS for locks,
reads, writes, syncs, truncation and deletion, the page cache for pages, and is
called back by it when memory is short (`pagerStress`). The codec is a callback
of the pager: a page passes through `sqlite3Codec` on every read (mode 3), every
write to the database file (mode 6) and every write to the journal (mode 7).
`sqlite3_rekey_v2` is a client of B-tree and pager that changes the codec under
them. Connections of different processes share nothing but the files and their
locks; in WAL mode also the wal-index, a piece of shared memory with lock bytes
of its own. Connections of one process may share a `BtShared`, and with it pager
and cache, under its mutex. `vdbeCommit` drives the pagers of all files of a
connection. The compiler of statements asks `userauth.c` for the level of the
connection, which reads the user table through SQL statements of its own.

`PROJECT.json` lists every component with its status, and the hazards, each at
the line where it bites.

## 2. Modules

| module | models | built on |
|---|---|---|
| `FileLock` | what the lock calls of a VFS grant: sets of readers, the exclusive owner, the next writer, and who is between giving up a range and getting it back | |
| `WinLock` | the Windows implementation, one action per `LockFileEx`/`UnlockFileEx` | instantiates `FileLock` |
| `WinLockProofs` | inductive invariant, safety theorems and the refinement | `WinLock` |
| `AtomicStore` | what the pager promises: one image of the database, one writer, readers that see one image each | |
| `Pager` | the pager in rollback-journal mode | extends `FileLock`, instantiates `AtomicStore` |
| `PagerInvariant` | its inductive invariant | extends `Pager` |
| `PagerProofs` | that it is inductive, for connections with any keys; then, for those with one key, the safety theorems and the refinement | `PagerInvariant` |
| `Rekey` | the codec's keys and `sqlite3_rekey_v2` | extends `Pager` |
| `RekeyInvariant` | its inductive invariant, which adds to that of the pager | extends `Rekey`, `PagerInvariant` |
| `RekeyProofs` | that it is one, and the safety theorems | `RekeyInvariant`, `PagerProofs` |
| `SnapshotStore` | what the log promises: readers that keep their image, one writer that builds on the newest | |
| `Wal` | the write-ahead log, the wal-index and its locks, checkpoints, recovery | instantiates `SnapshotStore` |
| `WalInvariant` | its inductive invariant | extends `Wal` |
| `WalDurable` | the part of it about the disk and what recovery makes of it | extends `WalInvariant` |
| `WalConnProofs` | the steps that leave the database file and what is committed alone: those of readers, read marks, a writer behind the end of the log, a reset | `WalInvariant` |
| `WalProofs` | commit, recovery, the copies of a checkpoint and the faults; the invariant and its theorems; then `WalDurable`, that no commit is lost, and the refinement | `WalConnProofs`, `WalDurable` |
| `MultiCommit` | the commit of several files with a master journal | |
| `MultiInvariant`, `MultiCommitProofs` | its inductive invariant, and the proof that it is one | `MultiCommit` |
| `BtMutex` | shared cache: the list of `BtShared`, their mutexes, opening and closing | |
| `SharedCache` | transactions and table locks of shared cache | extends `BtMutex` |
| `MCSharedCache` | the symmetry of `SharedCache` for TLC | extends `SharedCache` |
| `SharedCacheProofs` | inductive invariants of both, deadlock freedom, exclusion | `SharedCache` |
| `UserAuth` | the user table and what each connection takes from it | |
| `UserAuthProofs` | inductive invariant and safety theorems | `UserAuth` |

The file lock is specified once and used twice: `WinLock` implements `FileLock`,
and `Pager` takes the actions of `FileLock` as its lock calls. So what the
pager's runs assume about locks is what the Windows code is proved to grant.

### FileLock and WinLock

`WinLock` has one variable per place in the file (`pendingByte`, `reservedByte`
with its shared holders `probes`, and the shared range with `readers` and
`rangeOwner`), `locktype` as `winFile` has it, and per connection the program
counter `pc` and the level `want` of the call in progress. `Lock` and `Unlock`
are the checks at the start of a call and choose its path; each later action is
one system call. Two facts about Windows matter: an exclusive request fails on
any lock of any handle, the caller's included, and unlocking what one does not
own fails without effect. Three attempts at the PENDING byte (37427) are one
step, since only the last one counts. `Crash` is `winClose` or the end of the
process.

The code reaches EXCLUSIVE_LOCK in two ways: from RESERVED_LOCK or PENDING_LOCK
(a writer), or straight from SHARED_LOCK (recovery of a hot journal, 48040). The
constant `Direct` says which connections do the second, so that the runs and
theorems can say which properties survive it.

In `FileLock` the state between giving up the range and asking again is explicit
(`converting`): the connection holds nothing of the range there. `ConvertUp` and
`ConvertDown` are the conversions that `fcntl` makes in one call and that only
the unix VFS uses.

### Pager

Processes share `db`, `jrnl` and the lock variables; `pager[c]` is the `struct
Pager` of connection `c`, with `at` as the place in the call that is in
progress. A page's content is the transaction that wrote it (`tid`) and, for
page 1, the change counter (`ctr`); in a file it carries the key that encrypted
it, and reading it with another key gives `Garbage`. Bytes 24..39 that
`dbFileVers` compares are taken from the stored page, as the code takes them
before decryption (45945) and after encryption (47299).

What a disk does: `dbOld[p]` are older contents of page `p` that may be there
after a power failure, until a sync; a write that fails or is cut short leaves
`Torn`, which is the whole page where the file had the same one before. The
journal has the records its headers count (`cnt`) and those known to be on disk
(`dur`); any part of the difference may survive. `jrnlOld` is a finalized
journal whose directory entry has not been synced and which may come back.
`firm` says whether the entry of a new journal has been synced.

The first header of a journal is written with zeros in place of its magic bytes
(`NewJournal`, 44430-44437), and `syncJournal` fills them in under
EXCLUSIVE_LOCK (`JournalHeader`, 47142-47175). Until then the journal of a
writer is not hot for anybody (`magic` in `HotByte` and `HotOpen`), and one that
a dead writer leaves is ignored and overwritten by the next; nothing of the file
has been changed, and a power failure may leave it empty or take its name away.
Recovery can meet such a journal all the same, when it takes a journal that is
being deleted for a hot one (47939) and another writer has begun meanwhile: it
plays nothing back, and then deletes it, or with TRUNCATE leaves it as it is,
since nothing was read (`NothingRead`, 44962). The zero byte that `syncJournal`
writes over an old header behind the records (47115-47153) needs no model here:
a journal without magic has no second header, one with magic is played back
before anybody writes, and old records fail their checksums, whose start value
is random; only PERSIST leaves whole headers behind.

`exposed` is a history variable: it becomes true when the lock calls have left a
reader without its read lock (section 4). No action depends on it. The
properties say what holds until then, on either VFS; on Unix it stays false.

One action per step between two VFS calls: `SharedLock`, the four looks of
`hasHotJournal` (`HotExists`, `HotReserved`, `HotOpen`, and `HotByte`, which
reads the first byte of what was opened), `HotLock` .. `HotFailed`, `Recover`,
`Replay`, `ReplaySync`, `Finalize`, `Downgrade`, `Regain`, `EndTransaction`,
`Validate`; `Read`, `EndRead`, `Begin`, `Write`, `Spill`; `Commit` with
`LockPending` .. `LockExclusive`, `JournalHeader`, `JournalSync`, `WriteDb`,
`DbSync` and `Finalize`; `Rollback`. Faults are `IoError`, `DeleteFails`
(Windows does not delete an open file), `Crash` of one process and `PowerLoss`
of all.

`AtomicStore` is the abstract specification: `StartRead`, `StartWrite`,
`Replace` (the commit, in one step and with no reader around), `Abandon` and
`Stop`. Under the refinement mapping the image is the last committed one, what a
reader sees is its cache where a page is cached and the decrypted file where it
is not, and a connection writes until its journal is finalized.

Left out, and why it does not change what is checked: a transaction that changes
nothing is committed as it is rolled back (both only release locks); the state
ERROR is the step `unlock`, since no page is referenced between calls; the
branch of `hasHotJournal` for an empty database file (47910) cannot be reached
with a first page on disk; the change counter, which with a codec is derived
from encrypted bytes, is modelled as one more than before (the source calls a
collision "vanishingly small"). Not modelled: WAL, savepoints, master journals,
`locking_mode=EXCLUSIVE`, `BEGIN EXCLUSIVE`, `synchronous=OFF`, the journal
modes PERSIST, MEMORY and OFF, auto-vacuum, failing writes to the journal in the
middle of `pager_write`, and a journal that is truncated but whose sync then
fails (`IoError` strikes before the effect of a call; only a page of the
database file can be left half written). WAL and master journals have modules of
their own.

### Rekey

`codec[c]` has the flags and keys of a `Codec`. `ReadKey` and `WriteKey` are
what `sqlite3Codec` makes of them, and `SetCodec` keeps the pager's `rkey` and
`wkey` in step. The actions are the stages of `sqlite3_rekey_v2`: `RekeyStart`
changes the codec before the mutex (233-280), `RekeyEnter` takes it (282),
`RekeyBegin`, `RekeyPage`, `RekeyCommit` and `RekeyUndo` drive the pager in
between, `RekeyFail` is any of those calls returning an error, and `RekeyFinish`
settles the keys after the mutex is released (354-395). `Threaded` allows other
threads of the connection to call SQLite where the mutex is not held;
`InTransaction` allows the call inside a write transaction. Keys are set with
`Open` on a connection that has not read anything; `Mistaken` are the
connections that may be given another key than that of the file.

### SnapshotStore and Wal

`Wal` has the files (`db`, and `wal` with its header `head` and its frames), the
wal-index `shm` (both copies of the header, `nBackfill`, the read marks and the
page numbers of the frames) and `con[c]`, the `struct Wal` of a connection with
its locks (`rl` the READ lock it shares, `wl` WRITE, `cl` CKPT, `ex` the READ
locks it has exclusively), its copy `hdr` of the header, its `cache`, and the
place `at` of the call in progress. A connection can be preempted between any
two accesses to the index or to a file; in particular `walIndexWriteHdr`, which
writes the second copy and then the first, is two steps (`AppendIndex` and
`Publish`, `Reset` and `Reset2`, `Recover` and `Recover2`), `walRestartHdr` has
`nBackfill` and the marks in a third one (`Reset3`), and a checkpointer reads a
mark (`ReadMark`) before it tries its lock (`RaiseMark`). `disturbed` is a
history variable: it becomes true when a log is reset while a checkpoint without
the WRITE lock has already read the header (`Undisturbed`), or when a process
dies between the steps of a reset. No action depends on it, all of these steps
are taken, and the properties say what holds until then; section 4 has what
comes after.

| code | actions |
|---|---|
| `walIndexReadHdr` 52328, `walIndexTryHdr` | `BeginRead`, `RetryHdr`, `LockHdr`, `CannotLockHdr`, `ReadLocked` |
| `walIndexRecover` 51362 | `Recover`, `Recover2`, `Recover3`, `CannotRecover` |
| `walTryBeginRead` 52445 | `Choose` (READ0), `Marks`, `LockMark` |
| `sqlite3WalBeginWriteTransaction` 52826 | `BeginWrite` |
| `sqlite3WalFrames` 53089, `walRestartLog` | `Spill` or `Commit`, `Restart`, `Reset`.., `Header`, `HeaderSync`, `WriteFrame`, `AppendIndex`, `Publish` |
| `sqlite3WalUndo`, `pagerRollbackWal` | `Rollback` |
| `sqlite3WalCheckpoint` 53282, `walCheckpoint` | `CkptStart`, `Ckpt`, `ReadMark`, `RaiseMark`, `Backfill`, `Copy`, `Backfilled`, `Done`, `Cut`, `CkptEnd` |
| `sqlite3WalClose` 52191 | `Close`, and the checkpoint above |

A page is the transaction that wrote it. The salts of a generation of the log
are a member of `Salt`. New salts are random: `NewGen` gives some that are
nowhere in use (`Unused`), and `Salt` has enough of them that there are always
some, so that its size bounds nothing in the runs. A writer has the pages it has
yet to write in the set `job`, and those it has written since the index was last
told of any in `log`, in the order of their numbers. The checksum of a frame,
which covers all frames before it, is the transaction of the frame before it. As
in `Pager` the disk may keep, of everything that was not synced, any part
(`dbOld`, `walOld`, `headOld`); a log that was cut or deleted may come back
whole (`cutOld`).

What was written to the log before a header with other salts is in doubt for as
long as the wal-index has the old ones, since a writer may then write a header
with these again (`HeaderSync`): a frame of a commit that failed counts again
from then on. The attempt to prove `Recoverable` showed this; it takes three
transactions and forty steps, more than the bounds of the runs allow.

Under the refinement mapping the image of `SnapshotStore` is what the first copy
of the header publishes, `doubt` what a failure may leave instead (the
transaction whose last frame is being written, and in `synchronous=NORMAL` those
not yet synced), and what a connection sees is its cache without its own
changes.

Abstractions. The database keeps its size, so `nPage` and `nTruncate` are left
out; so is `iChange`, since two headers that differ in it differ in their salts
or checksum as well. Both copies of the header are read in one step, a lock and
the check behind it are one step (with the lock held nothing that is checked can
change), and a reader reads all pages at once where the code reads them when
they are needed: `SnapshotKept` says that it makes no difference. The locks of a
checkpoint (53308-53342) are taken together. A reader that gives up after a
hundred attempts fails. FULL and RESTART are one mode: the latter also waits for
the readers, and changes nothing. Left out: savepoints,
`locking_mode=EXCLUSIVE`, read-only connections, an index in heap memory, frames
padded to a sector, and failing reads.

### MultiCommit

Where `Pager` has one file in full detail, `MultiCommit` has several in outline:
a file is one page, the set of transactions it has in it; its journal has the
page as it was (`orig`), whether it was synced (`firm`) and the `master` journal
it names. `vdbeCommit` is `Commit`, `ExclusiveLock` of each file, `Master`, then
for each file `WriteMaster`, `SyncJournal`, `WriteDb`, `SyncDb`
(`sqlite3PagerCommitPhaseOne`), then `DeleteMaster`, `SyncDirectory`, and
`PhaseTwo` of each file. A recovery, whether a hot journal is found or a
transaction is rolled back, is `SyncHotJournal`, `CheckMaster`, `Restore`,
`SyncRestored`, `EndPlayback` (`pager_playback`) and `DelMaster`, which looks at
one journal of the master at a time. Processes die, the power fails and calls
return errors in between; several connections may recover different files of one
transaction at the same time. An unlink that was not synced may be undone by a
power failure; `Ordered` says that unlinks are undone in reverse order of the
way they were made, as a journaling file system does it.

Left out: the temporary database, a commit hook, virtual tables, a master
journal whose name collides, `journal_mode` other than DELETE, lock conversions
(that is `WinLock` and `Pager`), and the three looks of `hasHotJournal`, which
are one step with the lock that follows.

### BtMutex and SharedCache

Connections here are threads of one process. `BtMutex` has
`sqlite3SharedCacheList` (`cache`: the file of each `BtShared` on the list, by
address, and `nRef`), who holds `MUTEX_STATIC_OPEN` and each `BtShared.mutex`,
and for each connection the `BtShared` it has a `Btree` on (`handle`),
`wantToLock` and `locked`. `EnterThen` is `sqlite3BtreeEnter` with the first
half of `btreeLockCarefully`: it takes a free mutex at once, or lets go of those
of larger address and waits (`Obtain`), and takes them again one by one
(`Relock`). `sqlite3BtreeOpen` is `Open`, `OpenMutex`, `Find`, `Create`, `Link`
(which enters the mutex in `sqlite3BtreeSchema`) and `Opened`;
`sqlite3BtreeClose` is `Close`, `Closing` and `Unref`. A freed address can be
used again by the next `Create`.

`SharedCache` adds `inTrans`, the table locks, and `inTransaction`,
`nTransaction`, `pWriter`, `BTS_EXCLUSIVE` and `BTS_PENDING` of each `BtShared`.
Its actions run under the mutex, so each is one step: `BeginTrans`, `LockTable`,
`Downgrade`, `EndTransaction`; and closing a handle ends its transaction. Its
other steps are those of `BtMutex` (theorem `SharedCacheUsesMutexes`).

One thread uses a connection at a time, which `db->mutex` sees to.
`MUTEX_STATIC_MASTER` is only held within single steps. Left out:
read-uncommitted connections, the connection that `BtShared.db` names, cursors,
other processes, and failing allocations other than in `Create`.

### UserAuth

The table is a function from names to rows (`users`, or `NoTable`). A connection
has a `level`, the `user` and `pw` it was given, and what its copy of the
`schema` says of the table: the copy is refreshed by statements of the
application (`Refresh`), but not by `userTableExists`. `sqlite3_user_add` is
three statements: `Add` (the check and CREATE TABLE), `Insert`, `LogInFirst`; a
process may die between them (`Die`). `strcmp` with the null pointer of a user
who has not logged in ends the process: `Stop`. That a connection's level is
temporarily raised to that of an admin, without `db->mutex`, is not modelled:
one thread uses a connection. Nor is the check of an attached database (92127).

All connections are open at once, and any call may fail: the INSERT
(`InsertFails`), the statements of a login (`Levels`); reading the schema does
not fail here, as its failure would be taken for a database without users. Two
history variables record what the properties are about; no action depends on
them. `founded[c]`: the level of `c` was found in the row of its user, and no
other connection has written that row since. `lapse`: the first admin was not
inserted, or a connection whose level is not founded has changed users. Section
4 has what happens then.

## 3. Runs

All bounds are constants of the cfg files: connections, pages, files and frames,
`MaxTxn` (write transactions, all connections together) and `MaxFault` (crashes,
power failures and I/O errors together).

| run | asks | bounds and size |
|---|---|---|
| `WinLockWritePath` | do the promises of os.h hold when writers go through RESERVED? `ExclusivePrecludes`, `ReadLockInPlace`, `PendingBlocksReaders`, and `WriterNotStarved` under fairness | 3 connections, one read-only, crashes at any point; 4,176 states |
| `WinLockAnyPath` | what holds if anybody may upgrade from SHARED? `TypeOK`, `Exclusion`, `OneReserved`, `NothingLeaks`, and the refinement `FileLockSpec` | 3 connections; 312,613 states |
| `PagerWinDelete` | atomic commit (`Recoverable`), isolation (`SnapshotReads`), cache validation (`VersionTellsContent`) and `TypeOK` over Windows locks and undeletable open journals, until a reader is left without its read lock (`exposed`) | 2 processes, 2 pages, 2 transactions, 2 faults; 1,228,286 states |
| `PagerUnixTruncate` | does the pager implement `AtomicStore` with a truncated and synced journal (`StoreSpec`), with `Recoverable` and durability (`Irrevocable`)? | same; 345,911 states |
| `Rekey` | `OneKey`, `KeyFollowsFile`, `WriteKeyRestored`, `NothingGarbled`, `Recoverable`, `RekeyTypeOK` while a database is encrypted or gets another key, one thread, no open transaction | 2 processes (the one that rekeys may also be opened with a wrong key), 2 pages, 1 transaction, 1 fault; 684,982 states |
| `Wal` | does a log in use implement `SnapshotStore` (`StoreSpec`)? `SnapshotKept`, `HeaderTellsContent`, `WalTypeOK`, until a reset is `disturbed` | 2 connections that read and write, one of them also checkpoints (passive, truncate); 2 pages, 2 frames, 2 read marks, 2 transactions; 1,556,106 states |
| `WalFaults` | is what a commit has returned ever lost (`Recoverable`), and is a failure more than the end of transactions (`StoreSpec`)? | a reader and writer that may die, a truncating checkpointer that also closes; 2 pages, 2 frames, 1 read mark, 2 transactions, 2 faults, up to a disturbed reset; 1,505,890 states |
| `WalReset` | is `nBackfill` never beyond the end of the log (`BackfillBounded`)? It is: section 4 | as `Wal`; a counterexample |
| `MultiCommit` | `AllOrNone`, `CommitStays`, `ReadTogether` | 2 processes that both write, 2 files, 2 transactions, 3 faults; 696,000 states |
| `SharedCache` | `NoDeadlock`, `OneCache`, `TablesExclude`, `PendingEnds` | 2 threads, 2 files, 2 tables; 956,000 states up to symmetry of threads and of files |
| `UserAuth` | `AlwaysAdmin`, `LevelTrue`, `OwnPrivilegeKept` | 2 connections at once, 2 users, 2 passwords; 348,253 states |
| `RekeyDecrypt` | does a failed rekey restore the write key? It does not: section 4 | as `Rekey`; a counterexample |

Why the bounds are enough for the cases that matter. Two processes are a writer
and a recoverer, or a writer and a stale reader; three connections on the lock
add the reader that comes while a writer waits. Two pages are the least that
tells half a transaction from a whole one, and with `InitSize = 1` the second
one is appended, so that a rollback must cut the file; in `Rekey` both pages
exist, so that the file can be under two keys. Two transactions let one
process's cache be made stale by the other's commit, and let a finalized journal
of the first come back behind the second. Two faults are a crash and another one
during the recovery from it, or a power failure that undoes the deletion of a
journal. `PagerWinDelete` has every schedule of the Windows lock calls, those
that expose a reader included, and goes on after them.

In `Wal` two frames are a log that is filled, copied and written again from its
beginning, which is where old frames could be taken for new ones; a page of one
transaction can also be spilled before the commit, which takes the second frame.
Two transactions are one before and one after that reset. Two read marks let one
reader hold an old snapshot while the other mark moves. A fault of `WalFaults`
can be in the middle of a commit, of a checkpoint, of the last close and of a
recovery, since the first recovery follows an open or a header that another
connection has not finished. A power failure or an I/O error can be in the
middle of a reset as well; the death of one process there is a step of the run,
but the run does not go on from it (the constraint `NotDisturbed`), since
everything it checks is about what comes before. It takes two to see what a
recovery leaves open: `walIndexRecover` accepts frames that it does not sync, so
that after the death of a writer a power failure may still take away what the
recovery has brought back, until the next sync of the log. `doubt` keeps the
image before the recovery for that long. In `MultiCommit` three faults are the
crash of a commit, one of the recovery of its first file, and a power failure
that brings back what was not synced. In `SharedCache` two threads that take two
mutexes in opposite order are the smallest deadlock; the theorems of section 5
are about any number.

Deadlock is checked in every passing run: some connection can always take a
step, at the bounds too, since a read transaction can always be started or
ended.

Fairness is assumed in `WinLockWritePath` only. `WF` on `Continue`: a lock call
that has begun returns. `SF` on `Lock(p, EXCLUSIVE_LOCK)`: the writer's busy
handler asks again (46798), and since the action is disabled while a call is in
progress, weak fairness would not oblige it to. `SF` on a reader's `Unlock`:
statements end. Nothing is assumed of new readers, which may come and go
forever. The other modules have no liveness property: the loops of
`walTryBeginRead` give up after a hundred attempts, and lock requests of the
pager fail and are left to the application. That `BTS_PENDING` is left again
depends on an application that ends its transactions; `PendingEnds` says as an
invariant that there is one to end.

## 4. Where the code and its words differ

Runs `RekeyDecrypt` and `WalReset` show the first two of these. The others have
a constant, a property or a definition to change in a passing run; TLC then
finds the counterexample.

* **A failed decryption** (`RekeyDecrypt`). `hasWriteKey` is cleared at
  `codecext.c:269` and not restored at 369-373, which claim to "Restore write
  key if necessary": after a decrypting rekey that failed the connection writes
  plain text into an encrypted file.
* **A reset of the log is not one step** (`WalReset`). "The nBackfill number is
  never greater than WalIndexHdr.mxFrame" (50621). The first connection commits;
  a passive checkpoint of the second copies everything; the first begins its
  next write with the lock READ0; the second begins another checkpoint and loads
  the header; the first resets the log, holding WRITE and the READ locks but not
  CKPT. The second now finds `nBackfill = 0` below its own `mxFrame`, copies the
  frames of the old log once more, and stores the old `nBackfill` beside the new
  header. This costs more than the sentence: without `disturbed \/` each of
  `Recoverable`, `SnapshotKept`, `HeaderTellsContent` and `StoreSpec` is
  violated within the bounds of `Wal.cfg`, and nothing fails or dies. The
  checkpoint may copy a frame that the writer has meanwhile overwritten with a
  page of an uncommitted transaction; and a reader that believes `nBackfill`
  reads the file where it should read the log. A process that dies inside
  `walRestartHdr` has the same effect, or leaves the two copies of the header
  different while the log is empty; recovery then makes a header of zeros, and
  an idle connection whose own header is zero keeps a cache that may be older
  ("The Pager layer will use this to know that is cache is stale", 52646).
* **Keys change outside the mutex** (`Rekey` with `Threaded = TRUE`, `OneKey`):
  `codecext.c:278` against 282. Another thread of the connection commits a page
  under the new key before the rekey has taken `db->mutex`, although the library
  "will itself serialize access" (1747).
* **Rekey in an open transaction** (`Rekey` with `InTransaction = TRUE`,
  `NothingGarbled`): a page spilled under the new key is read again with the old
  one.
* **A reader without its read lock** (`PagerWinDelete`, `SnapshotReads` and
  `VersionTellsContent` without `exposed \/`; `MaxFault = 0` will do). A range
  is not converted but given up and asked for again, and `winLock` takes the
  PENDING byte on the way to EXCLUSIVE_LOCK from RESERVED_LOCK only (37423). A
  connection that looks for a hot journal while another commits finds it deleted
  when it wants to open it, and takes it for a hot one, since "the automatic
  journal playback and recovery mechanism will deal with it" (47942; ticket
  #3883). It has a read lock, with which the next writer's upgrade fails; in the
  moment in which that writer, having given up its own read lock (37489), asks
  for it again (37496), the recoverer gives up its read lock as well and takes
  the whole range, straight from SHARED_LOCK. The writer does not get its read
  lock back, `winLock` ignores that (37497), and after a rollback the writer
  reads on with no lock at all, while others commit. The way down has the same
  gap: a recoverer that is done goes to SHARED_LOCK by giving up the range and
  locking it again (37576), a writer may get it first, and the result is ignored
  when there was no journal to play back (48092). "This should never happen. We
  should always be able to reacquire the read lock" (37577). With a truncated
  journal and no faults nobody is exposed, since no journal is ever missing. At
  these bounds and with one fault the file itself stays whole: `Recoverable`
  holds without `exposed \/`. `ExclusivePrecludes` and `ReadLockInPlace` fail for the
  same reason when `Direct` is not empty.
* **A commit can be taken back** (`PagerWinDelete` with the property
  `Irrevocable`). Deleting the journal without a sync of the directory (44994)
  does not make the commit irrevocable as 49290 says; the branch for TRUNCATE
  next to it has the sync, and `PagerUnixTruncate` shows that it suffices. For
  the same reason `StoreSpec` is checked with a truncated journal.
* **A checkpoint that meets half a header.** `assert( badHdr==0 ||
  pWal->writeLock==0 )` (52353) does not hold for a FULL or TRUNCATE checkpoint
  after a writer died between the two copies of the header. Without assertions
  its own WRITE lock is refused to it and it returns `SQLITE_BUSY`; so has
  `TryHdr` it.
* **The directory sync of a master journal** (`MultiCommit` with `Ordered =
  FALSE`, `AllOrNone`). "After doing this the directory is synced again before
  any individual transaction files are deleted" (68891) holds in the process
  that commits. If it dies between unlink and sync, the next process finds the
  master gone (`pager_playback` 45730), deletes one journal, and a power failure
  that undoes the older unlink but not the newer one leaves one file committed
  and the other rolled back. `winDelete` ignores the request for a sync
  altogether. And a sync of the directory that fails after the unlink makes
  COMMIT return an error although the transaction is in all files.
* **Attaching from a function** (`SharedCache` with `AttachInCallback = TRUE`,
  `NoDeadlock`). A function that a statement calls, and that opens a file
  through the same connection, waits for `MUTEX_STATIC_OPEN` with `BtShared`
  mutexes held; another thread that holds it may be waiting for one of these in
  `sqlite3BtreeSchema`. ATTACH as a statement of its own holds none. The comment
  at 54394, that all are entered "in accending order by BtShared pointer
  address", is not what the loop over `aDb` does; it is `btreeLockCarefully`
  that avoids the deadlock, in any order.
* **Levels that are kept** (`UserAuth`, any of the three properties without
  `founded` or `lapse`). A level or a schema is not looked at again when another
  connection changes the table: a deleted user stays an admin, and an admin
  deleted by another one that is deleted by the first leaves none, although that
  the user who is logged in cannot be deleted "guarantees that there is always
  an admin user" (`userauth.c:331`).
* **A login before there are users** (`AlwaysAdmin` without `lapse`). "If the
  SQLITE_USER table is not present in the database file, then this interface is
  a harmless no-op" (`userauth.c:194`). It keeps the name, and
  `sqlite3_user_add` then does not log the connection in as the user it adds
  (270): the connection is an admin under a name that is not in the table, and
  may delete the only admin there is or take away its privilege. One connection
  is enough.
* **A first user that is not inserted** (`AlwaysAdmin` without `lapse`). CREATE
  TABLE and INSERT are two transactions: a failure or the end of the process in
  between leaves a table without users, which nobody can log in to.

## 5. Proofs

`WinLockProofs` proves about `WinLock`, for every set of connections and every
choice of `Direct` and `RdOnly`, from `ConnAssumption` only:

* `LockInvariant`: the inductive invariant `LockInv`. The properties are not
  inductive: that two connections are not both at RESERVED_LOCK follows from who
  owns the RESERVED byte, which in turn depends on where each connection is in
  its call and on the level it has recorded. `LockInv` says, for each of the
  places, which `pc` and `locktype` its owner can have, and for each `pc`, which
  places its connection owns.
* `TypeCorrect`, `MutualExclusion`, `SingleWriter` and `NoLockLeaks`: the four
  invariants of run `WinLockAnyPath`.
* `Refinement`: `Spec => FileLockSpec`, one step per action: each system call is
  an action of `FileLock` or leaves its variables unchanged. The mapping hides a
  PENDING byte that is held only for the time of a call (`PendingHolder`) and
  calls a connection between giving up the range and asking again `converting`.
* `WritePathExclusive`, `WritePathReads` and `WritePathPending`: under `Direct =
  {}`, a second invariant, `PathInv`, says that a connection owns the PENDING
  and the RESERVED byte from the moment it gives up the range until it has
  released it again, and that a connection outside such a conversion has the
  read lock that its level stands for. They are the safety properties of
  `WinLockWritePath`.

`PagerProofs` proves about `Pager`, for any number of connections, pages, keys,
transactions and faults, either VFS and either journal mode. What it proves is
`exposed \/ P`: P holds until the lock calls have left a reader without its read
lock. `UnixKeepsLocks` proves that on Unix this never happens; on Windows it
does (section 4).

* `PagerInvariance`: the inductive invariant `PagerInv` of `PagerInvariant`,
  which is `InvUnder(k)` for the key `k` of the database, and `SameKeys(k)`:
  every connection reads and writes with it. `InvUnder` alone leaves the keys of
  the connections open. A step of one connection keeps it (lemma `StepOK`) under
  the three conditions of `KeysFit`: a writer knows the key of the file, what it
  reads after a legible page 1 is legible, and it commits under another key only
  when it has rewritten every page. With `SameKeys` they hold by themselves;
  `RekeyProofs` has them from the stages of the rekey. `InvUnder` has a clause
  for each thing the code relies on. `InPlace` and `Locked` say which locks a
  connection has in each place of its calls, `Restores` that rolling back the
  journal, and any journal the disk may bring back, gives the committed image
  whatever part of the unsynced records has survived; a journal without magic
  restores nothing, and the file is the committed image then. `HeaderOK` says in
  which places of a call the journal has its magic bytes, and `OpenOK` that who
  has written to it has it open, so that Windows lets nobody delete it.
  `MayLose` is where an upgrade that fails can cost a writer its read lock; its
  PENDING byte keeps others from committing until it has rolled back. That a
  recovery without a header leaves the database alone, whoever's journal it
  meets, is lemma `NothingDone`. Of a connection, `StaleOK` says what its cache
  is worth between transactions, `SettledOK` in a transaction that has nothing
  to write, `JournalledOK`, `CachedOK` and `WrittenOK` what journal, cache and
  file have of the changes of a writer, `CommitOK` what is left to write of its
  commit, and `ReplayOK` what is left to play back.
* `PagerTypeCorrect`, `AtomicCommit`, `Isolation` and `VersionIsEnough`: the
  four invariants of `PagerWinDelete`. The first is more than types: no page
  that a connection could not decrypt is ever written to a file.
* `CommitIrrevocable` and `PagerIsAtomicStore`, with a journal that is truncated
  and synced: `Irrevocable`, and the refinement `Spec => StoreSpec` step by
  step. What a connection sees is the committed image or nothing; its commit is
  the step that cuts the journal, when it has the file to itself; every other
  step changes no image.

`RekeyProofs` proves about `Rekey`, for any number of connections, which may all
rekey and may have been given wrong keys, any number of pages, keys,
transactions and faults, either VFS, under `RekeyAlone`, which is what a caller
has to see to, and each part of it is needed: nobody else uses the connection
during the call (`Threaded`), it is made outside of a transaction
(`InTransaction`), and it does not decrypt (section 4 and the run `RekeyDecrypt`
have what happens otherwise). As above it is `exposed \/ P` that is proved, and
`RekeyKeepsLocks` that on Unix `exposed` stays false.

* `RekeyInvariance`: the inductive invariant `RekeyInv` of `RekeyInvariant`. The
  database is under one key in `InvUnder(k)`, and `k` changes with the commit of
  a rekey; until it has settled its codec, that connection reads with the old
  key what is under the new one, and only its cache keeps it from doing so.
  `CodecOK` says which keys are behind the flags of the codec, `StageOK` what
  the pager can be doing in each stage of `sqlite3_rekey_v2`. `KnownOK` is what
  a connection has learnt from reading page 1 legibly: `KeyNow`, its read key or
  after the commit its write key, is that of the database, or, between
  transactions, that of the version it has in its cache. `ReadableOK` and
  `PagesOK` are the loop over the pages: those behind are dirty or under the new
  key in the file (a spill may have written them), those ahead are untouched.
* `DatabaseUnderOneKey` (`OneKey`), `ConnectionKeepsKey` (`KeyFollowsFile`),
  `WriteKeyIsRestored` (`WriteKeyRestored`), `NothingIsGarbled`
  (`NothingGarbled`), `RekeyIsAtomic` (`Recoverable`) and `RekeyTypeCorrect`
  (`RekeyTypeOK`): the six invariants of run `Rekey`. A crash, a power failure
  or an I/O error in any step of the rekey, and the recovery by a connection
  with whatever key, are part of the specification.

`MultiCommitProofs` proves about `MultiCommit`, for any number of connections,
files, transactions and faults, with `Ordered = TRUE`:

* `MultiInvariance`: the inductive invariant `Inv` of `MultiInvariant`. Locks
  decide who touches a file and its journal (`LocksOK`). A synced journal has no
  older version on the disk, and a file without a journal that counts is whole,
  and any journal that the disk may bring back agrees with it but for the
  transaction of that journal (`FileOK`). A commit has made its steps in each of
  its files (`Staged`), and its master journal is there from its first file to
  the last (`Mastered`). A transaction whose master journal exists is rolled
  back everywhere, and a master journal that may come back finds all of its
  journals or no trace of the transaction (`MastersOK`): this is where the order
  of the unlinks is needed.
* `AtomicOverFiles`, `CommitIsFinal` and `ReadersSeeWhole`: the three invariants
  of run `MultiCommit`. A step changes what recovery would make of the files for
  one transaction at most, which is that of `DeleteMaster`, and then in all of
  its files; a power failure only for one whose master journal has come back,
  and again in all.

`WalConnProofs` and `WalProofs` prove about `Wal`, for any number of
connections, pages, read marks, frames, transactions and faults, that the
properties hold until a reset of the log is `disturbed`; after that they are
false (section 4, "A reset of the log is not one step").

* `WalInvariance`: the inductive invariant `Inv` of `WalInvariant`. `InPlace`,
  `Locked` and `Apart` say where in which call a connection can be and which of
  the eight locks it has there. `IndexOK` is what the wal-index says: its header
  is that of a chain of frames that ends with a commit, whose pages over the
  database file are the committed image, and the last frames of their pages up
  to `nBackfill` are in the file already. `HdrKnown` says what a header in the
  hands of a connection is worth: while it is the newest one of its generation
  the cache is the committed image. `SnapshotOK` has the snapshot: all that is
  to be read from the file instead of the log is copied already, and the mark
  that the reader holds does not exceed the end of its snapshot. `CheckpointOK`
  and `Behind` are the other side of it: what a checkpoint is about to copy is
  not beyond the end of any snapshot, but for those of marks that it has yet to
  look at; between reading a mark and trying its lock it knows only that whoever
  has that lock is not behind the value read. `WriterOK`, `JobOK` and
  `WrittenOK` say that a writer builds on the newest image, and that its frames
  continue the chain behind the last commit, where no reader looks. `ResetOK`,
  `Fresh` and `Half` are about the moments in which the two copies of the header
  differ: nobody has a header of the generation that a reset begins, and
  recovery, after a death in between, finds none that a cache is described by.
* `SnapshotsStay` (`SnapshotKept`), `HeadersVouch` (`HeaderTellsContent`), and
  `WalTypes` (`WalTypeOK`): the three invariants of run `Wal`. `BackfillInLog`
  is the other side of run `WalReset`: nothing but a disturbed reset brings
  `nBackfill` beyond the end of the log. A crash, a power failure or an I/O
  error at any step, and the recovery after it, are part of `Next`, so the
  theorems say of them what they say of the others.
* `CommitsSurvive` (`Recoverable`, run `WalFaults`): whatever dies or fails,
  recovery finds the committed image, or one whose commit has not returned. It
  takes a second inductive invariant, `Durable` of `WalDurable`, about what the
  disk may have of the log and the file (`walOld`, `headOld`, `cutOld`, `dbOld`)
  and about `doubt`. `Left` are all the logs that may be left, with any version
  of any frame and any header, the one a writer may still write with the same
  salts included; `Ends` are the places where recovery may find such a log to
  end, and `Outcomes` the images that it may give. `Floor(n)` holds for some
  `n`: the first `n` frames are on the disk (`OnDisk`); a log that has them, or
  that ends nowhere near them, gives an outcome wherever it ends (`Survives`);
  and the pages of the file that are not known to be on the disk, or are about
  to be copied, are all among these frames (`Covers`), so that they are read
  from the log instead. A sync of the log raises `n`, a reset makes it 0, and
  nobody writes into the first `n` frames. `FramesOK` and `WriterFits` say that
  the salts and the transaction tell which frame it is, so that what is written
  behind the end is not taken for the continuation of what was there before.
  `HeadOK` and `ClosingOK` have that a log is only cut when the file has all of
  it, synced; `CutOK` is a cut log that comes back.
* `WalIsSnapshotStore` (`StoreSpec`, runs `Wal` and `WalFaults`): each step is
  one of `SnapshotStore` or changes nothing there. A commit is `Publish`, which
  replaces the image by the one the writer has in its cache; a recovery
  (`Recover2`), which nobody watches, may replace it by one of `doubt`; a reader
  that gets its snapshot (`Choose`, `LockMark`) sees the image, and no other
  step changes what a connection sees.

`IsLast`, `Overlay` and `Max` are about sets of frames: that a set of numbers
has a last one is proved from the well-foundedness of the strict subsets of a
finite set (lemma `FirstOf`), an instance of the library's theorems that takes
no operator.

`SharedCacheProofs` proves first about `BtMutex`, for any number of connections,
files and `BtShared`, assuming `~AttachInCallback`:

* `BtMutexInductive`: the inductive invariant `BtMutexInv`. `LockInv` says of a
  connection that waits that it holds smaller mutexes only, and of one that is
  taking its mutexes again (`relock`) which are still to come; `ListInv` says
  that whoever is looking for a file or adding one holds `MUTEX_STATIC_OPEN`,
  that a file about to be added is not on the list, and that `nRef` counts the
  handles.
* `DeadlockFree`: from it. In a set of connections that wait for one another,
  the one that waits for the largest mutex waits for one whose holder, in the
  set as well, waits for a larger one still (lemma `AwaitsLarger`), with
  `MUTEX_STATIC_OPEN` the smallest of all.
* `CacheShared` and `EnteredHeld`: `OneCache` and `HoldsWhatItEntered`.

About `SharedCache` it proves `SharedCacheUsesMutexes`, `SharedSpec =>
BtMutexSpec`, and from `SharedInductive` the exclusion of table locks
(`TablesExcluded`), that a pending lock can be left (`PendingIsLeft`) and that
no lock and no count outlives its transaction (`LeavesNothing`).
`querySharedCacheTableLock` lets a write lock pass a write lock, so exclusion is
not in its test; it follows from there being one writer (`Trans`), which follows
from how `pWriter` and `inTransaction` are kept. `SharedDeadlockFree` and
`SharedOneCache` are the theorems about `BtMutex` for `SharedCache`.

`UserAuthProofs` proves about `UserAuth`, for any number of connections at once,
users and passwords, and with calls that fail and processes that die in any of
them: the inductive invariant `UserInv` (`UserInductive`), types (`UserTypes`),
`AlwaysAdmin` (`AdminRemains`), `LevelTrue` (`LevelIsTrue`) and
`OwnPrivilegeKept` (`PrivilegeKept`). The invariant says what a connection knows
of the table in each place of `sqlite3_user_add`, in which the table may exist
without an admin, and that a founded level is the one in the table. It is what
makes `AlwaysAdmin` inductive: a founded admin who deletes or demotes somebody
else is still there.

Every invariant used in a proof was first checked with TLC. What stays with TLC:
`WriterNotStarved` (liveness under fairness is out of the prover's reach).

## 6. Not modelled

* **SQL compiler, virtual machine, trees and cursors, extensions, shell.** They
  are sequential, and by far the largest part of the file; what they do to the
  layers below is the environment of the modules here. That `PRAGMA rekey` drops
  the result of the rekey (107688) belongs here.
* **Codec algorithms, `sqlite_crypt`.** Arithmetic on bytes.
* **Online backup** (64159). It needs a source pager in detail and a destination
  pager; on top of `Pager` that is beyond what TLC finishes.
* **A second `sqlite3_key`, ATTACH and VACUUM with inherited keys**
  (`codecext.c:149`, 92104): several files with keys, neither in `Rekey` nor in
  `MultiCommit`.
* **Who owns a codec's memory** (`codecext.c:384`): no module has an allocator
  other than for `BtShared`.
* **The pools of `pcache1.c`, unlock-notify, malloc.**
* **The unix VFS's inode table**, through which threads of one process share
  locks: not compiled by this repository.
* **Savepoints, `locking_mode=EXCLUSIVE`, the journal modes PERSIST, MEMORY and
  OFF, auto-vacuum, and switching between rollback journal and WAL.**

## 7. Plan

What is left: the keys of several files (a second `sqlite3_key`, ATTACH, VACUUM)
and the online backup, on `AtomicStore` in place of `Pager`.

The number of runs is kept small: each asks a question of its own, and variants
of a question are in section 4 with the constants to change.
