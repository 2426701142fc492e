-------------------------------- MODULE Pager --------------------------------
(***************************************************************************)
(* The pager in rollback-journal mode: atomic commit, rollback and         *)
(* hot-journal recovery of one database file by several connections, each  *)
(* a process of its own.  A connection is preempted between any two calls  *)
(* into the VFS; processes die, the power fails and calls return errors    *)
(* between any two of them.                                                *)
(*                                                                         *)
(* A page is known by the transaction that wrote it.  On disk it is        *)
(* encrypted: pages of the database file with the write key of the         *)
(* connection, pages of the journal with its read key, and the bytes that  *)
(* Pager.dbFileVers compares are taken from the page as it is stored.      *)
(***************************************************************************)
EXTENDS FileLock, Integers, FiniteSets, FiniteSetsExt

CONSTANTS
  MaxPage,       \* the largest page number
  InitSize,      \* pages of the database file to begin with
  Key,           \* encryption keys
  Absent,        \* no such page: not in the file, journal or cache
  Torn,          \* a page of which the disk has written a part
  Garbage,       \* what a page decrypts to under the wrong key
  Vfs,           \* "win" or "unix"
  JournalMode,   \* "delete" or "truncate"
  MaxTxn,        \* bound on the number of write transactions
  MaxFault       \* bound on crashes, power failures and I/O errors

ASSUME PagerAssumption ==
  /\ MaxPage \in Nat /\ InitSize \in 1 .. MaxPage
  /\ Vfs \in {"win", "unix"}
  /\ JournalMode \in {"delete", "truncate"}
  /\ MaxTxn \in Nat /\ MaxFault \in Nat

Page == 1 .. MaxPage

VARIABLES
  db,         \* the database file as processes see it
  dbOld,      \* per page, older contents that the disk may still hold
  jrnl,       \* the rollback journal
  jrnlOld,    \* a finalized journal that may come back after a power failure
  jopen,      \* connections with the journal open
  rkey,       \* the read key of each connection's codec
  wkey,       \* the write key of each connection's codec
  pager,      \* struct Pager of each connection
  committed,  \* history: the database image of the last commit
  exposed,    \* history: a reader has not kept its read lock
  ntxn,       \* history: write transactions begun
  nfault      \* history: faults so far

files   == <<db, dbOld, jrnl, jrnlOld>>
keys    == <<rkey, wkey>>
history == <<committed, exposed, ntxn, nfault>>
vars    == <<lockVars, files, jopen, keys, pager, history>>

Plain(t, n)  == [tid |-> t, ctr |-> n]
Encrypt(k, d) == [key |-> k, tid |-> d.tid, ctr |-> d.ctr]
Decrypt(k, s) == IF s \in {Absent, Torn} \/ s.key # k
                 THEN Garbage ELSE Plain(s.tid, s.ctr)

Content == [tid : 0 .. MaxTxn, ctr : Nat]
Stored  == [key : Key, tid : 0 .. MaxTxn, ctr : Nat]

(* The bytes 24..39 of page 1 as the file has them.                        *)
Version(s) == IF s \in {Absent, Torn} THEN s ELSE [key |-> s.key, ctr |-> s.ctr]

FileVers == [key : Key, ctr : Nat]

(* What is no page, part of a page or not legible differs from any page.   *)
ASSUME MarkAssumption ==
  /\ \A x \in {Absent, Torn, Garbage} :
       x \notin Content /\ x \notin Stored /\ x \notin FileVers
  /\ Absent # Torn /\ Absent # Garbage

Size(f) == Cardinality({p \in Page : f[p] # Absent})

Empty == [p \in Page |-> Absent]

(* An empty file has orig = 0.  The first header begins with zeros in      *)
(* place of the magic bytes until the journal is synced; cnt are the       *)
(* records that the nRec fields of its headers count, dur those known to   *)
(* be on disk.                                                             *)
NoJournal ==
  [exists |-> FALSE, magic |-> FALSE, orig |-> 0, rec |-> Empty,
   cnt |-> {}, dur |-> {}, firm |-> FALSE]

Truncated == [NoJournal EXCEPT !.exists = TRUE]

(* writeJournalHdr.  What follows in the file from an older journal fails  *)
(* its checksums: the first header is the only one with its number.        *)
NewJournal(n) == [Truncated EXCEPT !.orig = n]

Journal ==
  [exists : BOOLEAN, magic : BOOLEAN, orig : 0 .. MaxPage,
   rec : [Page -> Stored \cup {Absent}],
   cnt : SUBSET Page, dur : SUBSET Page, firm : BOOLEAN]

(* Records that are in the journal file, and those a hot rollback replays. *)
Records(j)  == {p \in 1 .. j.orig : j.rec[p] # Absent}
Playable(j) == IF j.magic THEN Records(j) \cap j.cnt ELSE {}

EState == {"OPEN", "READER", "WRITER_LOCKED", "WRITER_CACHEMOD",
           "WRITER_DBMOD", "WRITER_FINISHED"}
Modified == {"WRITER_CACHEMOD", "WRITER_DBMOD", "WRITER_FINISHED"}
Writer   == Modified \cup {"WRITER_LOCKED"}

Fresh ==
  [eState |-> "OPEN", at |-> "idle", goal |-> "none", job |-> {},
   cache |-> Empty, dirty |-> {}, needSync |-> {}, inJournal |-> {},
   dbSize |-> 0, dbOrigSize |-> 0, dbFileVers |-> Absent, tid |-> 0]

At == {"idle", "hotExists", "hotReserved", "hotOpen", "hotByte", "hotLock",
       "hotExclusive", "hotFailed", "recover", "replay", "finalize", "downgrade", "regain",
       "release", "validate", "pending", "upgrade", "exclusive", "reread",
       "header", "sync", "write", "failed", "unlock"}

PagerState ==
  [eState : EState, at : At,
   goal : {"none", "spill", "commit", "rollback", "hot", "quiet"},
   job : SUBSET Page, cache : [Page -> Content \cup {Absent, Garbage}],
   dirty : SUBSET Page, needSync : SUBSET Page, inJournal : SUBSET Page,
   dbSize : 0 .. MaxPage, dbOrigSize : 0 .. MaxPage,
   dbFileVers : FileVers \cup {Absent, Torn}, tid : 0 .. MaxTxn]

TypeOK ==
  /\ LockTypeOK
  /\ db \in [Page -> Stored \cup {Absent, Torn}]
  /\ dbOld \in [Page -> SUBSET (Stored \cup {Absent, Torn})]
  /\ jrnl \in Journal
  /\ jrnlOld \in [jrnl : Journal, image : [Page -> Stored \cup {Absent}]]
  /\ jopen \subseteq Conn
  /\ rkey \in [Conn -> Key] /\ wkey \in [Conn -> Key]
  /\ committed \in [Page -> Stored \cup {Absent}]
  /\ ntxn \in 0 .. MaxTxn /\ nfault \in 0 .. MaxFault
  /\ pager \in [Conn -> PagerState]

NoneOld == [jrnl |-> NoJournal, image |-> Empty]

Init ==
  /\ LockInit
  /\ \E k \in Key :
       /\ db = [p \in Page |->
                 IF p <= InitSize THEN Encrypt(k, Plain(0, 0)) ELSE Absent]
       /\ rkey = [c \in Conn |-> k]
  /\ wkey = rkey
  /\ dbOld = [p \in Page |-> {}]
  /\ jrnl = NoJournal
  /\ jrnlOld = NoneOld
  /\ jopen = {}
  /\ pager = [c \in Conn |-> Fresh]
  /\ committed = db
  /\ exposed = FALSE
  /\ ntxn = 0
  /\ nfault = 0

-----------------------------------------------------------------------------
Goto(c, label) == pager' = [pager EXCEPT ![c].at = label]

(* Writing s to page p: the disk may keep what was there until the sync.   *)
Store(p, s) ==
  /\ db' = [db EXCEPT ![p] = s]
  /\ dbOld' = [dbOld EXCEPT ![p] = IF s = db[p] THEN @ ELSE @ \cup {db[p], Torn}]

(* pager_truncate: the file is cut to n pages.                             *)
Cut(n) ==
  /\ db' = [p \in Page |-> IF p > n THEN Absent ELSE db[p]]
  /\ dbOld' = [p \in Page |->
                IF p > n /\ db[p] # Absent THEN dbOld[p] \cup {db[p]} ELSE dbOld[p]]

(* A handle to the journal survives the end of a transaction only in       *)
(* journal_mode=TRUNCATE where an open file cannot be deleted.             *)
KeepsOpen == Vfs = "win" /\ JournalMode = "truncate"

(* pager_unlock: the locks go, and after an error the cache goes too.      *)
PagerUnlock(c, clear) ==
  /\ ReleaseAll(c)
  /\ jopen' = IF KeepsOpen THEN jopen ELSE jopen \ {c}
  /\ pager' = [pager EXCEPT ![c] =
       [Fresh EXCEPT !.cache = IF clear THEN Empty ELSE pager[c].cache,
                     !.dbFileVers = pager[c].dbFileVers]]

-----------------------------------------------------------------------------
(* When unixLock can turn a read lock into the whole range.                *)
Alone(c) == shared = {c} /\ excl = NoConn /\ pending \in {NoConn, c}

(* A reader is exposed when another connection takes the range that it has *)
(* given up after a recovery and has yet to ask for again ("We should      *)
(* always be able to reacquire the read lock"), or when it has been a      *)
(* writer and an upgrade that failed has cost it its read lock.            *)
LeftAlone(c) ==
  \A d \in Conn \ {c} : ~(pager[d].at = "regain" /\ pager[d].eState = "OPEN")

(* winLock takes the whole range.                                          *)
TakeRange(c) ==
  /\ AcquireExclusive(c)
  /\ exposed' = (exposed \/ ~LeftAlone(c))

(* sqlite3PagerSharedLock.                                                 *)
SharedLock(c) ==
  /\ pager[c].eState = "OPEN" /\ pager[c].at = "idle"
  /\ AcquireShared(c)
  /\ Goto(c, IF c \in jopen THEN "hotReserved" ELSE "hotExists")
  /\ UNCHANGED <<files, jopen, keys, history>>

(* hasHotJournal: four looks at the world, with other processes moving in  *)
(* between: does the journal exist, is somebody RESERVED, can it be opened *)
(* and does it start with a byte other than zero?  A journal that cannot   *)
(* be opened any more is taken for a hot one.                              *)
HotExists(c) ==
  /\ pager[c].at = "hotExists"
  /\ Goto(c, IF jrnl.exists THEN "hotReserved" ELSE "validate")
  /\ UNCHANGED <<lockVars, files, jopen, keys, history>>

HotReserved(c) ==
  /\ pager[c].at = "hotReserved"
  /\ Goto(c, IF reserved = NoConn THEN "hotOpen" ELSE "validate")
  /\ UNCHANGED <<lockVars, files, jopen, keys, history>>

HotOpen(c) ==
  /\ pager[c].at = "hotOpen"
  /\ IF c \in jopen
     THEN Goto(c, IF jrnl.magic THEN "hotLock" ELSE "validate") /\ UNCHANGED jopen
     ELSE IF jrnl.exists
     THEN Goto(c, "hotByte") /\ jopen' = jopen \cup {c}
     ELSE Goto(c, "hotLock") /\ UNCHANGED jopen
  /\ UNCHANGED <<lockVars, files, keys, history>>

HotByte(c) ==
  /\ pager[c].at = "hotByte"
  /\ Goto(c, IF jrnl.magic THEN "hotLock" ELSE "validate")
  /\ jopen' = jopen \ {c}
  /\ UNCHANGED <<lockVars, files, keys, history>>

(* EXCLUSIVE_LOCK straight from SHARED_LOCK, without a busy handler.       *)
HotLock(c) ==
  /\ pager[c].at = "hotLock"
  /\ IF Vfs = "win"
     THEN DropRead(c) /\ Goto(c, "hotExclusive")
     ELSE \/ ConvertUp(c) /\ Goto(c, "recover")
          \/ ~Alone(c) /\ Goto(c, "unlock") /\ UNCHANGED lockVars
  /\ UNCHANGED <<files, jopen, keys, history>>

HotExclusive(c) ==
  /\ pager[c].at = "hotExclusive"
  /\ \/ TakeRange(c) /\ Goto(c, "recover")
     \/ /\ shared # {} \/ excl # NoConn
        /\ Goto(c, "hotFailed")
        /\ UNCHANGED <<lockVars, exposed>>
  /\ UNCHANGED <<files, jopen, keys, committed, ntxn, nfault>>

HotFailed(c) ==
  /\ pager[c].at = "hotFailed"
  /\ RegainRead(c) \/ LoseRead(c)
  /\ Goto(c, "unlock")
  /\ UNCHANGED <<files, jopen, keys, history>>

(* Under the EXCLUSIVE lock: open the journal if it is still there, sync   *)
(* it and start the playback, which begins with cutting the database file  *)
(* to its original size.  Without a header in the journal there is none.   *)
Recover(c) ==
  /\ pager[c].at = "recover"
  /\ IF jrnl.exists
     THEN /\ jopen' = jopen \cup {c}
          /\ jrnl' = [jrnl EXCEPT !.dur = Records(jrnl)]
          /\ IF jrnl.magic THEN Cut(jrnl.orig) ELSE UNCHANGED <<db, dbOld>>
          /\ pager' = [pager EXCEPT
               ![c].at = "replay",
               ![c].goal = "hot",
               ![c].job = Playable(jrnl),
               ![c].cache = IF Playable(jrnl) = {} THEN @ ELSE Empty]
     ELSE /\ pager' = [pager EXCEPT ![c].at = "downgrade", ![c].goal = "quiet"]
          /\ UNCHANGED <<db, dbOld, jrnl, jopen>>
  /\ UNCHANGED <<lockVars, jrnlOld, keys, history>>

(* pager_playback: records go back to the database file as they are, still *)
(* encrypted.                                                              *)
Replay(c) ==
  /\ pager[c].at = "replay"
  /\ \E p \in pager[c].job :
       /\ Store(p, jrnl.rec[p])
       /\ pager' = [pager EXCEPT ![c].job = @ \ {p}]
  /\ UNCHANGED <<lockVars, jrnl, jrnlOld, jopen, keys, history>>

ReplaySync(c) ==
  /\ pager[c].at = "replay" /\ pager[c].job = {}
  /\ dbOld' = [p \in Page |-> {}]
  /\ Goto(c, "finalize")
  /\ UNCHANGED <<lockVars, db, jrnl, jrnlOld, jopen, keys, history>>

(* Pager.journalOff is 0: a recovery has found no header.                  *)
NothingRead(c) == pager[c].goal = "hot" /\ ~jrnl.magic

(* Mutant: the truncated journal is not synced.                            *)
FinalizeJournalUnsynced(c) ==
  /\ jrnl' = IF NothingRead(c) THEN jrnl ELSE Truncated
  /\ jrnlOld' = [jrnl |-> jrnl, image |-> committed]
  /\ UNCHANGED jopen

(* pager_end_transaction: the journal is deleted, or truncated and synced. *)
(* Deleting it does not sync the directory: after a power failure it may   *)
(* be there again, and take the last commit back.  Windows does not delete *)
(* a file that another process has open; the call then fails.              *)
FinalizeJournal(c) ==
  IF JournalMode = "delete"
  THEN /\ Vfs = "win" => jopen \subseteq {c}
       /\ jrnl' = NoJournal
       /\ jrnlOld' = [jrnl |-> jrnl, image |-> committed]
       /\ jopen' = jopen \ {c}
  ELSE /\ jrnl' = IF NothingRead(c) THEN jrnl ELSE Truncated
       /\ jrnlOld' = NoneOld
       /\ UNCHANGED jopen

Finalize(c) ==
  /\ pager[c].at = "finalize"
  /\ FinalizeJournal(c)
  /\ committed' = IF pager[c].goal = "commit" THEN db ELSE committed
  /\ pager' = [pager EXCEPT
       ![c].at = IF excl = c THEN "downgrade" ELSE "release",
       ![c].inJournal = {}, ![c].dirty = {}, ![c].needSync = {}]
  /\ UNCHANGED <<lockVars, db, dbOld, keys, exposed, ntxn, nfault>>

(* Back to SHARED_LOCK.  Of the four callers only the one that found no    *)
(* journal to roll back ignores an error.                                  *)
Downgrade(c) ==
  /\ pager[c].at = "downgrade"
  /\ IF Vfs = "win"
     THEN DropExclusive(c) /\ Goto(c, "regain")
     ELSE ConvertDown(c) /\ Goto(c, "release")
  /\ UNCHANGED <<files, jopen, keys, history>>

Regain(c) ==
  /\ pager[c].at = "regain"
  /\ \/ RegainRead(c) /\ Goto(c, "release")
     \/ LoseRead(c) /\ Goto(c, IF pager[c].goal = "quiet" THEN "release" ELSE "unlock")
  /\ UNCHANGED <<files, jopen, keys, history>>

EndTransaction(c) ==
  /\ pager[c].at = "release"
  /\ ReleaseWriter(c)
  /\ pager' = [pager EXCEPT
       ![c].at = IF pager[c].goal \in {"hot", "quiet"} THEN "validate" ELSE "idle",
       ![c].eState = IF @ \in Writer THEN "READER" ELSE @,
       ![c].goal = "none",
       ![c].tid = 0]
  /\ exposed' = (exposed \/ c \notin shared)
  /\ UNCHANGED <<files, jopen, keys, committed, ntxn, nfault>>

(* Mutant: the cache is kept whatever the file has become.                 *)
ValidateUnchecked(c) ==
  /\ pager[c].at = "validate"
  /\ pager' = [pager EXCEPT
       ![c].at = "idle", ![c].eState = "READER", ![c].dbSize = Size(db)]
  /\ UNCHANGED <<lockVars, files, jopen, keys, history>>

(* The cache is kept if the file has the version that it was read from.    *)
Validate(c) ==
  /\ pager[c].at = "validate"
  /\ pager' = [pager EXCEPT
       ![c].at = "idle",
       ![c].eState = "READER",
       ![c].dbSize = Size(db),
       ![c].cache = IF pager[c].dbFileVers = Version(db[1]) THEN @ ELSE Empty]
  /\ UNCHANGED <<lockVars, files, jopen, keys, history>>

(* The end of a failed call: pager_error and pager_unlock.                 *)
Unlock(c) ==
  /\ pager[c].at = "unlock"
  /\ PagerUnlock(c, TRUE)
  /\ UNCHANGED <<files, keys, history>>

-----------------------------------------------------------------------------
Ready(c, states) == pager[c].at = "idle" /\ pager[c].eState \in states

(* sqlite3PagerAcquire: page 1 is fetched before any other page.           *)
Read(c, p) ==
  /\ Ready(c, {"READER"} \cup Writer)
  /\ p <= pager[c].dbSize
  /\ pager[c].cache[p] = Absent
  /\ p = 1 \/ pager[c].cache[1] # Absent
  /\ pager' = [pager EXCEPT
       ![c].cache[p] = Decrypt(rkey[c], db[p]),
       ![c].dbFileVers = IF p = 1 THEN Version(db[1]) ELSE @]
  /\ UNCHANGED <<lockVars, files, jopen, keys, history>>

(* The last page reference goes: pagerUnlockIfUnused.                      *)
EndRead(c) ==
  /\ Ready(c, {"READER"})
  /\ PagerUnlock(c, FALSE)
  /\ UNCHANGED <<files, keys, history>>

Begin(c) ==
  /\ Ready(c, {"READER"})
  /\ pager[c].cache[1] \notin {Absent, Garbage}
  /\ ntxn < MaxTxn
  /\ AcquireReserved(c)
  /\ ntxn' = ntxn + 1
  /\ pager' = [pager EXCEPT
       ![c].eState = "WRITER_LOCKED",
       ![c].dbOrigSize = pager[c].dbSize,
       ![c].tid = ntxn + 1]
  /\ UNCHANGED <<files, jopen, keys, committed, exposed, nfault>>

(* pager_write: page p becomes d in the cache of c, and is saved in the    *)
(* journal j first unless it is new or was saved before.                   *)
Saves(c, p) == p <= pager[c].dbOrigSize /\ p \notin pager[c].inJournal

(* Mutant: the journal is written with the key of the database file.       *)
SavedWriteKey(c, p, j) ==
  IF Saves(c, p) THEN [j EXCEPT !.rec[p] = Encrypt(wkey[c], pager[c].cache[p])]
                 ELSE j

Saved(c, p, j) ==
  IF Saves(c, p) THEN [j EXCEPT !.rec[p] = Encrypt(rkey[c], pager[c].cache[p])]
                 ELSE j

(* Mutant: an appended page is counted twice.                              *)
DirtiedCountedTwice(c, p, d) ==
  LET new == p > pager[c].dbOrigSize /\ pager[c].eState # "WRITER_DBMOD"
  IN  [pager[c] EXCEPT
         !.cache[p] = d,
         !.dirty = @ \cup {p},
         !.needSync = IF Saves(c, p) \/ new THEN @ \cup {p} ELSE @,
         !.inJournal = IF Saves(c, p) THEN @ \cup {p} ELSE @,
         !.eState = IF @ = "WRITER_LOCKED" THEN "WRITER_CACHEMOD" ELSE @,
         !.dbSize = IF p > @ THEN p + 1 ELSE @]

Dirtied(c, p, d) ==
  LET new == p > pager[c].dbOrigSize /\ pager[c].eState # "WRITER_DBMOD"
  IN  [pager[c] EXCEPT
         !.cache[p] = d,
         !.dirty = @ \cup {p},
         !.needSync = IF Saves(c, p) \/ new THEN @ \cup {p} ELSE @,
         !.inJournal = IF Saves(c, p) THEN @ \cup {p} ELSE @,
         !.eState = IF @ = "WRITER_LOCKED" THEN "WRITER_CACHEMOD" ELSE @,
         !.dbSize = IF p > @ THEN p ELSE @]

(* The first write opens the journal and begins its header.  The caller    *)
(* has looked at the page and does not write one that is garbled.          *)
Write(c, p) ==
  /\ Ready(c, {"WRITER_LOCKED", "WRITER_CACHEMOD", "WRITER_DBMOD"})
  /\ p <= pager[c].dbSize => pager[c].cache[p] \notin {Absent, Garbage}
  /\ p <= pager[c].dbSize + 1
  /\ p \notin pager[c].dirty
  /\ LET opens == pager[c].eState = "WRITER_LOCKED"
         old   == pager[c].cache[p]
         d     == Plain(pager[c].tid, IF old = Absent THEN 0 ELSE old.ctr)
     IN  /\ jrnl' = Saved(c, p, IF opens THEN NewJournal(pager[c].dbOrigSize) ELSE jrnl)
         /\ pager' = [pager EXCEPT ![c] = Dirtied(c, p, d)]
  /\ jopen' = jopen \cup {c}
  /\ UNCHANGED <<lockVars, db, dbOld, jrnlOld, keys, history>>

(* Where sqlite3PagerExclusiveLock starts, with what c holds already.      *)
LockStart(c) == IF excl = c THEN "header"
                ELSE IF pending = c THEN "upgrade" ELSE "pending"

(* Mutant: the change counter is written as it was read.                   *)
CommitSameCounter(c) ==
  /\ Ready(c, {"WRITER_CACHEMOD", "WRITER_DBMOD"})
  /\ jrnl' = Saved(c, 1, jrnl)
  /\ LET d == Plain(pager[c].tid, pager[c].dbFileVers.ctr)
     IN  pager' = [pager EXCEPT ![c] =
           [Dirtied(c, 1, d) EXCEPT !.at = LockStart(c), !.goal = "commit"]]
  /\ UNCHANGED <<lockVars, db, dbOld, jrnlOld, jopen, keys, history>>

(* sqlite3PagerCommitPhaseOne starts: the change counter, derived from the *)
(* bytes that were read from the file, is put into page 1.                 *)
Commit(c) ==
  /\ Ready(c, {"WRITER_CACHEMOD", "WRITER_DBMOD"})
  /\ jrnl' = Saved(c, 1, jrnl)
  /\ LET d == Plain(pager[c].tid, pager[c].dbFileVers.ctr + 1)
     IN  pager' = [pager EXCEPT ![c] =
           [Dirtied(c, 1, d) EXCEPT !.at = LockStart(c), !.goal = "commit"]]
  /\ UNCHANGED <<lockVars, db, dbOld, jrnlOld, jopen, keys, history>>

(* pagerStress: the cache is full and page p must go; page 1 is in use for *)
(* as long as the transaction is.                                          *)
Spill(c, p) ==
  /\ Ready(c, {"WRITER_CACHEMOD", "WRITER_DBMOD"})
  /\ p \in pager[c].dirty \ {1}
  /\ LET syncs == p \in pager[c].needSync \/ pager[c].eState = "WRITER_CACHEMOD"
     IN  pager' = [pager EXCEPT
           ![c].at = IF syncs THEN LockStart(c) ELSE "write",
           ![c].goal = "spill",
           ![c].job = {p}]
  /\ UNCHANGED <<lockVars, files, jopen, keys, history>>

(* SQLITE_BUSY: the transaction stays open.                                *)
Busy(c) ==
  pager' = [pager EXCEPT ![c].at = "idle", ![c].goal = "none", ![c].job = {}]

LockPending(c) ==
  /\ pager[c].at = "pending"
  /\ \/ AcquirePending(c) /\ Goto(c, "upgrade")
     \/ pending # NoConn /\ Busy(c) /\ UNCHANGED lockVars
  /\ UNCHANGED <<files, jopen, keys, history>>

LockUpgrade(c) ==
  /\ pager[c].at = "upgrade"
  /\ IF Vfs = "win"
     THEN DropRead(c) /\ Goto(c, "exclusive")
     ELSE \/ ConvertUp(c) /\ Goto(c, "header")
          \/ ~Alone(c) /\ Busy(c) /\ UNCHANGED lockVars
  /\ UNCHANGED <<files, jopen, keys, history>>

LockExclusive(c) ==
  /\ pager[c].at = "exclusive"
  /\ \/ TakeRange(c) /\ Goto(c, "header")
     \/ /\ shared # {} \/ excl # NoConn
        /\ Goto(c, "reread")
        /\ UNCHANGED <<lockVars, exposed>>
  /\ UNCHANGED <<files, jopen, keys, committed, ntxn, nfault>>

Reread(c) ==
  /\ pager[c].at = "reread"
  /\ RegainRead(c) \/ LoseRead(c)
  /\ Busy(c)
  /\ UNCHANGED <<files, jopen, keys, history>>

(* Mutant: the journal is not synced before the database file is written.  *)
JournalSyncSkipped(c) ==
  /\ pager[c].at = "sync"
  /\ pager' = [pager EXCEPT
       ![c].at = "write",
       ![c].job = IF pager[c].goal = "commit" THEN pager[c].dirty ELSE @,
       ![c].needSync = {},
       ![c].eState = "WRITER_DBMOD"]
  /\ UNCHANGED <<lockVars, files, jopen, keys, history>>

(* syncJournal: the magic bytes and nRec are written under EXCLUSIVE_LOCK, *)
(* then the journal is synced; from then on the database file may be       *)
(* modified.  The sync makes the name of a new journal durable too, and an *)
(* older file of that name cannot come back.                               *)
JournalHeader(c) ==
  /\ pager[c].at = "header"
  /\ jrnl' = [jrnl EXCEPT !.magic = TRUE, !.cnt = pager[c].inJournal]
  /\ Goto(c, "sync")
  /\ UNCHANGED <<lockVars, db, dbOld, jrnlOld, jopen, keys, history>>

JournalSync(c) ==
  /\ pager[c].at = "sync"
  /\ jrnl' = [jrnl EXCEPT !.dur = jrnl.cnt, !.firm = TRUE]
  /\ jrnlOld' = NoneOld
  /\ pager' = [pager EXCEPT
       ![c].at = "write",
       ![c].job = IF pager[c].goal = "commit" THEN pager[c].dirty ELSE @,
       ![c].needSync = {},
       ![c].eState = "WRITER_DBMOD"]
  /\ UNCHANGED <<lockVars, db, dbOld, jopen, keys, history>>

(* pager_write_pagelist, in the order of page numbers.  A spilled page is  *)
(* clean afterwards, and its place in the cache is used for another.       *)
WriteDb(c) ==
  /\ pager[c].at = "write" /\ pager[c].job # {}
  /\ LET p == Min(pager[c].job)
         s == Encrypt(wkey[c], pager[c].cache[p])
         written == [pager[c] EXCEPT
           !.job = @ \ {p},
           !.dbFileVers = IF p = 1 THEN Version(s) ELSE @]
     IN  /\ Store(p, s)
         /\ pager' = [pager EXCEPT ![c] =
              IF pager[c].goal = "commit" THEN written
              ELSE [written EXCEPT !.at = "idle", !.goal = "none",
                                   !.dirty = @ \ {p}, !.cache[p] = Absent]]
  /\ UNCHANGED <<lockVars, jrnl, jrnlOld, jopen, keys, history>>

(* Mutant: the database file is not synced before the journal goes.        *)
DbSyncSkipped(c) ==
  /\ pager[c].at = "write" /\ pager[c].job = {} /\ pager[c].goal = "commit"
  /\ pager' = [pager EXCEPT ![c].at = "finalize", ![c].eState = "WRITER_FINISHED"]
  /\ UNCHANGED <<lockVars, files, jopen, keys, history>>

DbSync(c) ==
  /\ pager[c].at = "write" /\ pager[c].job = {} /\ pager[c].goal = "commit"
  /\ dbOld' = [p \in Page |-> {}]
  /\ pager' = [pager EXCEPT ![c].at = "finalize", ![c].eState = "WRITER_FINISHED"]
  /\ UNCHANGED <<lockVars, db, jrnl, jrnlOld, jopen, keys, history>>

(* Mutant: a rollback leaves the cache as it is when no page of the        *)
(* database file was written.                                              *)
UndoKeepsCache(c) ==
  /\ LET r == pager[c]
         mod == r.eState = "WRITER_DBMOD"
     IN  /\ IF mod /\ jrnl.orig # 0 THEN Cut(jrnl.orig) ELSE UNCHANGED <<db, dbOld>>
         /\ pager' = [pager EXCEPT ![c] = [r EXCEPT
              !.at = IF mod THEN "replay"
                     ELSE IF r.eState = "WRITER_LOCKED" THEN "release" ELSE "finalize",
              !.goal = "rollback",
              !.job = IF mod THEN Records(jrnl) \cap jrnl.dur ELSE {},
              !.dbSize = r.dbOrigSize]]
  /\ UNCHANGED <<lockVars, jrnl, jrnlOld, jopen, keys, history>>

(* sqlite3PagerRollback, asked for or after a commit that failed.  Pages   *)
(* return to the cache from the journal, to the file only those of them    *)
(* that may have been written, and the file gets its old size.             *)
Undo(c) ==
  /\ LET r    == pager[c]
         back == Records(jrnl)
         size == IF jrnl.orig = 0 THEN r.dbSize ELSE jrnl.orig
         mod  == r.eState = "WRITER_DBMOD"
     IN  IF r.eState = "WRITER_LOCKED"
         THEN /\ pager' = [pager EXCEPT ![c].at = "release"]
              /\ UNCHANGED <<db, dbOld>>
         ELSE /\ IF mod /\ jrnl.orig # 0 THEN Cut(size) ELSE UNCHANGED <<db, dbOld>>
              /\ pager' = [pager EXCEPT ![c] = [r EXCEPT
                   !.at = IF mod THEN "replay" ELSE "finalize",
                   !.goal = "rollback",
                   !.job = IF mod THEN back \cap jrnl.dur ELSE {},
                   !.cache = [p \in Page |->
                     IF p > size THEN Absent
                     ELSE IF p \in back /\ r.cache[p] # Absent
                          THEN Decrypt(rkey[c], jrnl.rec[p]) ELSE r.cache[p]],
                   !.dbFileVers = IF 1 \in back THEN Version(jrnl.rec[1]) ELSE @,
                   !.dbSize = size]]
  /\ UNCHANGED <<lockVars, jrnl, jrnlOld, jopen, keys, history>>

Rollback(c) == Ready(c, Writer) /\ Undo(c)

FailedCommit(c) == pager[c].at = "failed" /\ Undo(c)

-----------------------------------------------------------------------------
(* Faults.                                                                 *)
Fault ==
  nfault < MaxFault /\ nfault' = nfault + 1 /\ UNCHANGED <<committed, exposed, ntxn>>

(* A write or sync of the VFS fails; a page may have been written in part, *)
(* which is the whole of it where the file had the same page before.       *)
(* A failed commit is rolled back.  An error anywhere else ends in         *)
(* pager_unlock, which leaves the journal for the next reader.             *)
IoError(c) ==
  /\ Fault
  /\ pager[c].at \in {"recover", "replay", "finalize", "header", "sync", "write"}
  /\ \/ UNCHANGED <<db, dbOld>>
     \/ /\ pager[c].at \in {"replay", "write"} /\ pager[c].job # {}
        /\ LET p == Min(pager[c].job)
           IN  /\ pager[c].at = "replay" => jrnl.rec[p] # db[p]
               /\ Store(p, Torn)
  /\ Goto(c, IF pager[c].goal = "commit" /\ pager[c].at # "finalize"
             THEN "failed" ELSE "unlock")
  /\ UNCHANGED <<lockVars, jrnl, jrnlOld, jopen, keys>>

(* Windows does not delete a journal that another process has open.        *)
DeleteFails(c) ==
  /\ pager[c].at = "finalize"
  /\ Vfs = "win" /\ JournalMode = "delete" /\ ~(jopen \subseteq {c})
  /\ Goto(c, "unlock")
  /\ UNCHANGED <<lockVars, files, jopen, keys, history>>

(* A process dies.  What it wrote is kept by the system.                   *)
Die(c) ==
  /\ Fault
  /\ pager[c] # Fresh
  /\ ReleaseAll(c)
  /\ jopen' = jopen \ {c}
  /\ pager' = [pager EXCEPT ![c] = Fresh]
  /\ UNCHANGED files

Crash(c) == Die(c) /\ UNCHANGED keys

(* The power fails: every process dies, and of what was not synced any     *)
(* part may be lost or torn.                                               *)
LosePower ==
  /\ nfault < MaxFault /\ nfault' = nfault + 1
  /\ shared' = {} /\ excl' = NoConn /\ reserved' = NoConn
  /\ pending' = NoConn /\ converting' = {}
  /\ jopen' = {}
  /\ pager' = [c \in Conn |-> Fresh]
  /\ db' \in {f \in [Page -> UNION {dbOld[p] \cup {db[p]} : p \in Page}] :
               \A p \in Page : f[p] \in dbOld[p] \cup {db[p]}}
  /\ dbOld' = [p \in Page |-> {}]
  /\ jrnlOld' = NoneOld
  /\ \/ \E kept \in SUBSET (jrnl.cnt \ jrnl.dur) :
          LET cnt == kept \cup (jrnl.cnt \cap jrnl.dur)
          IN  jrnl' = [jrnl EXCEPT !.cnt = cnt, !.dur = cnt, !.firm = TRUE]
        /\ committed' = committed
     \/ /\ ~jrnl.firm
        /\ jrnl' \in {NoJournal, [jrnl EXCEPT !.magic = FALSE, !.cnt = {}, !.dur = {}, !.firm = TRUE]}
        /\ committed' = committed
     \/ /\ jrnlOld # NoneOld
        /\ jrnl' = [jrnlOld.jrnl EXCEPT !.firm = TRUE]
        /\ committed' = jrnlOld.image
  /\ UNCHANGED <<exposed, ntxn>>

PowerLoss == LosePower /\ UNCHANGED keys

(* A call into the pager begins, and a call that has begun goes on.        *)
Call(c) ==
  \/ SharedLock(c) \/ EndRead(c) \/ Begin(c) \/ Commit(c) \/ Rollback(c)
  \/ \E p \in Page : Read(c, p) \/ Write(c, p) \/ Spill(c, p)

Continue(c) ==
  \/ HotExists(c) \/ HotReserved(c) \/ HotOpen(c) \/ HotByte(c)
  \/ HotLock(c) \/ HotExclusive(c) \/ HotFailed(c)
  \/ Recover(c) \/ Replay(c) \/ ReplaySync(c) \/ Finalize(c) \/ DeleteFails(c)
  \/ Downgrade(c) \/ Regain(c) \/ EndTransaction(c) \/ Validate(c) \/ Unlock(c)
  \/ LockPending(c) \/ LockUpgrade(c) \/ LockExclusive(c) \/ Reread(c)
  \/ JournalHeader(c) \/ JournalSync(c) \/ WriteDb(c) \/ DbSync(c)
  \/ FailedCommit(c) \/ IoError(c)

Step(c) == Call(c) \/ Continue(c) \/ Crash(c)

Next == (\E c \in Conn : Step(c)) \/ PowerLoss

Spec == Init /\ [][Next]_vars

-----------------------------------------------------------------------------
(* Properties.                                                             *)

(* The database that the next reader would see if every process died now   *)
(* and it rolled the journal back.                                         *)
Surviving ==
  IF jrnl.exists /\ jrnl.magic
  THEN [p \in Page |-> IF p > jrnl.orig THEN Absent
                       ELSE IF p \in Playable(jrnl) THEN jrnl.rec[p] ELSE db[p]]
  ELSE db

(* Atomic commit: in every state, those that a crash or a power failure    *)
(* leaves behind included, rolling the journal back gives exactly the      *)
(* database of the last commit.                                            *)
Recoverable == exposed \/ Surviving = committed

(* Isolation: what a connection has in its cache while it holds a          *)
(* transaction is the last committed content, or what it wrote itself.     *)
SnapshotReads ==
  exposed \/ \A c \in Conn :
    pager[c].eState \in {"READER"} \cup Writer /\ pager[c].at # "unlock"
    => \A p \in Page :
         LET d == pager[c].cache[p]
         IN  \/ d = Absent
             \/ d = Decrypt(rkey[c], committed[p])
             \/ pager[c].eState \in Modified /\ d # Garbage /\ d.tid = pager[c].tid

(* Bytes 24..39 of page 1 change with every modification of the database,  *)
(* so that "other connections on the same database ... flush their         *)
(* caches": a connection whose dbFileVers is that of the last commit has   *)
(* no page in its cache that a later commit has changed.                   *)
VersionTellsContent ==
  exposed \/ \A c \in Conn :
    pager[c].eState \in {"OPEN", "READER"} /\ pager[c].at # "unlock"
    /\ pager[c].dbFileVers = Version(committed[1])
    => \A p \in Page :
         pager[c].cache[p] \in {Absent, Decrypt(rkey[c], committed[p])}

(* "Once this is done the transaction is irrevocably committed": the       *)
(* committed database only ever changes by a commit.                       *)
Irrevocable ==
  [][committed' # committed =>
       \E c \in Conn : pager[c].at = "finalize" /\ pager[c].goal = "commit"]_vars

(* The refinement.  A connection that has not changed anything sees what   *)
(* it would read: pages in its cache as they are, the others as they are   *)
(* in the file.  It writes until its journal is finalized.                 *)
HasTransaction(c, states) ==
  pager[c].eState \in states /\ pager[c].at # "unlock"

Seen(c) ==
  [p \in Page |->
    IF p > pager[c].dbSize THEN Absent
    ELSE IF pager[c].cache[p] # Absent THEN pager[c].cache[p]
    ELSE Decrypt(rkey[c], db[p])]

CommittedImage ==
  [p \in Page |-> IF committed[p] = Absent THEN Absent
                  ELSE Plain(committed[p].tid, committed[p].ctr)]

View(c) ==
  IF HasTransaction(c, {"READER", "WRITER_LOCKED"}) THEN Seen(c)
  ELSE IF HasTransaction(c, Modified) THEN CommittedImage
  ELSE Absent

Writing == {c \in Conn : HasTransaction(c, Writer)
                         /\ pager[c].at \notin {"downgrade", "regain", "release"}}

A == INSTANCE AtomicStore WITH
       Image <- [Page -> Content \cup {Absent, Garbage}],
       NoView <- Absent,
       image <- CommittedImage,
       view <- [c \in Conn |-> View(c)],
       writer <- IF Writing = {} THEN NoConn ELSE CHOOSE c \in Writing : TRUE

(* The database is an atomic store: each transaction sees one committed    *)
(* image, commits are single steps that nobody watches, and no fault takes *)
(* one back.                                                               *)
StoreSpec == A!StoreInit /\ [][exposed' \/ A!StoreNext]_(A!storeVars)

=============================================================================
