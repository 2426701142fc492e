--------------------------------- MODULE Wal ---------------------------------
(***************************************************************************)
(* The write-ahead log: readers, one writer, checkpointers and recovery of *)
(* one database, each connection a process of its own that is preempted    *)
(* between any two accesses to the wal-index or to a file.  Processes die, *)
(* the power fails and calls of the VFS return errors in between.          *)
(*                                                                         *)
(* A page is known by the transaction that wrote it, a generation of the   *)
(* log by its salts.  The checksum of a frame covers all frames before it; *)
(* a frame keeps the transaction of the frame before it instead.           *)
(***************************************************************************)
EXTENDS Integers, FiniteSets, FiniteSetsExt, Sequences

CONSTANTS
  Conn,          \* connections
  NoConn,        \* the writer when nobody writes
  Readers,       \* connections that read
  Writers,       \* those of them that write
  Checkpointers, \* connections that run checkpoints
  Modes,         \* checkpoint modes in use
  Closers,       \* connections that close the database
  Mortal,        \* connections whose process may die and whose calls may fail
  NPage,         \* pages of the database file
  Batches,       \* sets of pages that are dirty at a commit
  NReader,       \* WAL_NREADER
  MaxFrame,      \* bound on the frames of the log
  Salt,          \* salts of a generation of the log
  NoFrame,       \* no frame, or one whose checksum is wrong
  NoImage,       \* no cache, no view
  Torn,          \* a page of the database file that is written in part
  SyncFull,      \* synchronous=FULL, otherwise NORMAL
  MaxTxn,        \* bound on the number of write transactions
  MaxFault       \* bound on crashes, power failures and I/O errors

ASSUME WalAssumption ==
  /\ Readers \subseteq Conn /\ Writers \subseteq Readers
  /\ Checkpointers \subseteq Conn /\ Closers \subseteq Conn /\ Mortal \subseteq Conn
  /\ Modes \subseteq {"passive", "full", "truncate"}
  /\ NPage \in Nat \ {0} /\ NReader \in Nat \ {0, 1} /\ MaxFrame \in Nat \ {0}
  /\ \A P \in Batches : P \subseteq 1 .. NPage /\ P # {} /\ Cardinality(P) <= MaxFrame
  /\ Salt \subseteq Nat \ {0}
  /\ SyncFull \in BOOLEAN
  /\ MaxTxn \in Nat /\ MaxFault \in Nat

Page  == 1 .. NPage
Index == 1 .. MaxFrame
Slots == 1 .. NReader - 1       \* read locks whose holders use the log

VARIABLES
  db,         \* the database file as processes see it
  dbOld,      \* per page, older contents that the disk may still hold
  wal,        \* the log
  walOld,     \* per frame, older contents that the disk may still hold
  headOld,    \* older headers of the log that the disk may still hold
  cutOld,     \* the log before it was cut or deleted, if the disk may hold it
  shm,        \* the wal-index
  con,        \* struct Wal of each connection and where it is
  committed,  \* history: the image that new readers are to see
  doubt,      \* history: images that a failure may leave instead
  disturbed,  \* history: a reset of the log was not left alone
  ntxn,       \* history: write transactions begun
  nfault      \* history: faults so far

files   == <<db, dbOld, wal, walOld, headOld, cutOld>>
history == <<committed, doubt, disturbed, ntxn, nfault>>
vars    == <<files, shm, con, history>>

Hdr   == [mx : 0 .. MaxFrame, gen : Salt \cup {0}, sum : 0 .. MaxTxn, init : BOOLEAN]
Frame == [pg : Page, tid : 1 .. MaxTxn, com : BOOLEAN, gen : Salt \cup {0}, prev : 0 .. MaxTxn]
Pages == 0 .. MaxTxn
Image == [Page -> Pages \cup {Torn}]

(* What is no frame, no image or part of a page differs from any.          *)
ASSUME MarkAssumption ==
  NoFrame \notin Frame /\ NoImage \notin Image /\ Torn \notin Pages

NotUsed == MaxFrame + 1         \* READMARK_NOT_USED
NoHead  == [gen |-> 0, nck |-> FALSE]
NoHdr   == [mx |-> 0, gen |-> 0, sum |-> 0, init |-> FALSE]
NoPages == [i \in Index |-> 0]
NoWal   == [head |-> NoHead, frame |-> [i \in Index |-> NoFrame]]

(* The wal-index: two copies of the header, the checkpoint information and *)
(* the page number of each frame.                                          *)
NoShm ==
  [h0 |-> NoHdr, h1 |-> NoHdr, backfill |-> 0,
   mark |-> [i \in Slots |-> 0], pg |-> NoPages]

Closed ==
  [at |-> "closed", goal |-> "none", mode |-> "passive",
   rl |-> -1, wl |-> FALSE, cl |-> FALSE, ex |-> {},
   hdr |-> NoHdr, nck |-> FALSE, chg |-> FALSE, mi |-> 0, cache |-> NoImage,
   tid |-> 0, job |-> {}, log |-> <<>>, com |-> FALSE,
   it |-> [p \in Page |-> 0], i |-> 0, y |-> 0, safe |-> 0, bf |-> 0]

(* What is left of a connection between two transactions.                  *)
Idle(r) ==
  [Closed EXCEPT !.at = "idle", !.hdr = r.hdr, !.nck = r.nck, !.cache = r.cache]

(* Mutant: it is kept.                                                     *)
CheckpointedKeepsHdr(r) == Idle(r)

(* A checkpoint that has loaded a new header forgets it: the cache of the  *)
(* pager is older.                                                         *)
Checkpointed(r) ==
  [Idle(r) EXCEPT !.hdr = IF r.chg THEN NoHdr ELSE @]

(* A checkpoint that fails; the connection that was to be closed is.       *)
Failed(r) == IF r.goal = "close" THEN Closed ELSE Checkpointed(r)

Init ==
  /\ db = [p \in Page |-> 0]
  /\ dbOld = [p \in Page |-> {}]
  /\ wal = NoWal
  /\ walOld = [i \in Index |-> {}]
  /\ headOld = {}
  /\ cutOld = NoWal
  /\ shm = NoShm
  /\ con = [c \in Conn |-> Idle(Closed)]
  /\ committed = db
  /\ doubt = {}
  /\ disturbed = FALSE
  /\ ntxn = 0
  /\ nfault = 0

-----------------------------------------------------------------------------
(* Locks.  Recovery holds CKPT and every READ lock.                        *)
Others(c)     == Conn \ {c}
Recovering(d) == con[d].at \in {"recover2", "recover3"}
WriteFree(c)  == \A d \in Others(c) : ~con[d].wl
CkptFree(c)   == \A d \in Others(c) : ~con[d].cl /\ ~Recovering(d)
ShareFree(c, i) == \A d \in Others(c) : i \notin con[d].ex

(* Mutant: a lock is granted exclusively while others share it.            *)
LockFreeShared(c, i) == ShareFree(c, i)

LockFree(c, i)  == ShareFree(c, i) /\ \A d \in Others(c) : con[d].rl # i
AllFree(c, s)   == \A i \in s : LockFree(c, i)

(* What a connection finds: the newest frame of a page within its          *)
(* snapshot, or the page in the database file.                             *)
Visible(r) ==
  [p \in Page |->
    LET found == {i \in r.mi .. r.hdr.mx : shm.pg[i] = p}
    IN  IF r.rl = 0 \/ r.hdr.mx = 0 \/ found = {} THEN db[p]
        ELSE IF wal.frame[Max(found)] = NoFrame THEN Torn
        ELSE wal.frame[Max(found)].tid]

(* What walIndexRecover makes of a log file: the frames of the longest     *)
(* chain with the salts of the header, the last of them that ends a        *)
(* transaction, and the image.                                             *)
Chain(w) ==
  LET good(i) == /\ w.frame[i] # NoFrame
                 /\ w.frame[i].gen = w.head.gen
                 /\ w.frame[i].prev = IF i = 1 THEN 0 ELSE w.frame[i - 1].tid
  IN  IF w.head = NoHead THEN {} ELSE {i \in Index : \A j \in 1 .. i : good(j)}

(* Mutant: recovery takes the frames of a transaction without its commit.  *)
LastCommitAny(w) == Max({0} \cup Chain(w))

LastCommit(w) == Max({0} \cup {i \in Chain(w) : w.frame[i].com})

Recovered(w) ==
  [p \in Page |->
    LET found == {i \in 1 .. LastCommit(w) : w.frame[i].pg = p}
    IN  IF found = {} THEN db[p] ELSE w.frame[Max(found)].tid]

RecoveredHdr(w) ==
  [mx |-> LastCommit(w), gen |-> w.head.gen, init |-> TRUE,
   sum |-> IF LastCommit(w) = 0 THEN 0 ELSE w.frame[LastCommit(w)].tid]

(* New salts are random: none that is still around.                        *)
Unused ==
  Salt \ ({wal.head.gen, shm.h0.gen, shm.h1.gen}
          \cup {h.gen : h \in headOld}
          \cup {con[c].hdr.gen : c \in Conn}
          \cup {f.gen : f \in (UNION {walOld[i] \cup {wal.frame[i]} : i \in Index})
                              \ {NoFrame}})

NewGen == CHOOSE g \in Unused : TRUE

(* Of what was in doubt only what the log now holds remains.               *)
Remaining(w) == doubt \cap {Recovered(w)}

SyncWal ==
  /\ walOld' = [i \in Index |-> {}]
  /\ headOld' = {}
  /\ cutOld' = NoWal

-----------------------------------------------------------------------------
(* Opening.  The first connection zeroes the wal-index; nobody comes while *)
(* the last one holds the file exclusively to close it.                    *)
Open(c) ==
  /\ con[c].at = "closed"
  /\ \A d \in Conn : con[d].goal # "close"
  /\ shm' = IF \A d \in Conn : con[d].at = "closed" THEN NoShm ELSE shm
  /\ con' = [con EXCEPT ![c] = Idle(Closed)]
  /\ UNCHANGED <<files, history>>

(* The wal-index header: both copies are read and must agree.              *)
Readable == shm.h0 = shm.h1 /\ shm.h0.init

Loaded(r) ==
  [r EXCEPT !.hdr = shm.h0, !.chg = @ \/ r.hdr # shm.h0,
            !.at = IF r.goal = "read" THEN "choose" ELSE "ckpt"]

(* If it cannot be read, maybe because of a writer, another try is made    *)
(* with the WRITE lock; it is not granted to a checkpoint that has it.     *)
TryHdr(c, r) ==
  /\ con' = [con EXCEPT ![c] = IF Readable THEN Loaded(r)
                               ELSE IF r.wl THEN Failed(r)
                               ELSE [r EXCEPT !.at = "badhdr"]]
  /\ UNCHANGED <<files, shm, history>>

BeginRead(c) ==
  con[c].at = "idle" /\ c \in Readers /\ TryHdr(c, [con[c] EXCEPT !.goal = "read"])

RetryHdr(c) == con[c].at = "hdr" /\ TryHdr(c, con[c])

LockHdr(c) ==
  /\ con[c].at = "badhdr" /\ WriteFree(c)
  /\ con' = [con EXCEPT ![c] = [con[c] EXCEPT !.wl = TRUE, !.at = "locked"]]
  /\ UNCHANGED <<files, shm, history>>

(* Without that lock a reader tries again, or gives up after a hundred     *)
(* times or because of a recovery; a checkpoint fails.                     *)
CannotLockHdr(c) ==
  /\ con[c].at = "badhdr" /\ ~WriteFree(c)
  /\ \E next \in IF con[c].goal = "read"
                 THEN {[con[c] EXCEPT !.at = "hdr"], [Idle(con[c]) EXCEPT !.cache = NoImage]}
                 ELSE {Failed(con[c])} :
       con' = [con EXCEPT ![c] = next]
  /\ UNCHANGED <<files, shm, history>>

ReadLocked(c) ==
  /\ con[c].at = "locked"
  /\ Readable
  /\ con' = [con EXCEPT ![c] = [Loaded(con[c]) EXCEPT !.wl = FALSE]]
  /\ UNCHANGED <<files, shm, history>>

(* Recovery: the index of the log is made from the log.                    *)
Recover(c) ==
  /\ con[c].at = "locked"
  /\ ~Readable
  /\ CkptFree(c) /\ AllFree(c, {0} \cup Slots)
  /\ con' = [con EXCEPT ![c] = [con[c] EXCEPT
               !.at = "recover2", !.ex = {0} \cup Slots, !.chg = TRUE,
               !.hdr = RecoveredHdr(wal), !.nck = wal.head.nck]]
  /\ shm' = [shm EXCEPT
       !.h1 = RecoveredHdr(wal),
       !.pg = IF wal.head = NoHead THEN @
              ELSE [i \in Index |-> IF i \in Chain(wal) THEN wal.frame[i].pg ELSE 0]]
  /\ UNCHANGED <<files, history>>

CannotRecover(c) ==
  /\ con[c].at = "locked"
  /\ ~Readable
  /\ ~(CkptFree(c) /\ AllFree(c, {0} \cup Slots))
  /\ con' = [con EXCEPT ![c] =
       IF con[c].goal = "read" THEN [con[c] EXCEPT !.at = "hdr", !.wl = FALSE, !.chg = TRUE]
       ELSE Failed([con[c] EXCEPT !.chg = TRUE])]
  /\ UNCHANGED <<files, shm, history>>

Recover2(c) ==
  /\ con[c].at = "recover2"
  /\ con' = [con EXCEPT ![c].at = "recover3"]
  /\ shm' = [shm EXCEPT !.h0 = con[c].hdr]
  /\ committed' = Recovered(wal)
  /\ doubt' = (doubt \cup {committed}) \ {committed'}
  /\ UNCHANGED <<files, disturbed, ntxn, nfault>>

Recover3(c) ==
  /\ con[c].at = "recover3"
  /\ con' = [con EXCEPT ![c] = [Loaded(con[c]) EXCEPT !.wl = FALSE, !.ex = {}]]
  /\ shm' = [shm EXCEPT
       !.backfill = 0,
       !.mark = [i \in Slots |-> IF i = 1 /\ con[c].hdr.mx # 0
                                 THEN con[c].hdr.mx ELSE NotUsed]]
  /\ UNCHANGED <<files, history>>

-----------------------------------------------------------------------------
(* walTryBeginRead after the header.  A lock, and the check that what was  *)
(* read before is still so, are one step: nothing else happens in between  *)
(* unless the lock is given back.                                          *)
Retry(r) ==
  [r EXCEPT !.rl = -1, !.mi = 0, !.i = 0, !.y = 0,
            !.at = IF r.goal = "read" THEN "hdr" ELSE "marks"]

(* The cache of the pager is kept if the header is the one it knows.  The  *)
(* model reads every page that is not in the cache at once.                *)
Reading(r) ==
  [r EXCEPT !.at = "read", !.goal = "none", !.chg = FALSE, !.i = 0, !.y = 0,
            !.cache = IF r.chg \/ @ = NoImage THEN Visible(r) ELSE @]

(* A log that is copied completely is not used, if READ0 can be had and    *)
(* nothing was committed meanwhile.                                        *)
Choose(c) ==
  /\ con[c].at = "choose"
  /\ con' = [con EXCEPT ![c] =
       IF shm.backfill # con[c].hdr.mx \/ ~ShareFree(c, 0)
       THEN [con[c] EXCEPT !.at = "marks"]
       ELSE IF shm.h0 = con[c].hdr THEN Reading([con[c] EXCEPT !.rl = 0])
       ELSE Retry(con[c])]
  /\ UNCHANGED <<files, shm, history>>

(* The largest read mark within the snapshot; if it is not the end of the  *)
(* snapshot, the first mark nobody uses is made that.                      *)
Marks(c) ==
  /\ con[c].at = "marks"
  /\ LET r    == con[c]
         ok   == {i \in Slots : shm.mark[i] <= r.hdr.mx}
         best == Max({0} \cup {i \in ok : \A j \in ok : shm.mark[j] <= shm.mark[i]})
         free == {i \in Slots : LockFree(c, i)}
         raise == (best = 0 \/ shm.mark[best] < r.hdr.mx) /\ free # {}
         slot == IF raise THEN Min(free) ELSE best
     IN  /\ shm' = IF raise THEN [shm EXCEPT !.mark[slot] = r.hdr.mx] ELSE shm
         /\ con' = [con EXCEPT ![c] =
              IF slot = 0 THEN Retry(r)
              ELSE [r EXCEPT !.at = "lock", !.i = slot, !.y = shm'.mark[slot]]]
  /\ UNCHANGED <<files, history>>

(* Mutant: the mark and the header are not looked at again.                *)
LockMarkUnchecked(c) ==
  /\ con[c].at = "lock"
  /\ LET r    == con[c]
         mine == [r EXCEPT !.rl = r.i, !.mi = shm.backfill + 1, !.i = 0, !.y = 0]
     IN  con' = [con EXCEPT ![c] =
           IF ~ShareFree(c, r.i) THEN Retry(r)
           ELSE IF r.goal = "read" THEN Reading(mine)
           ELSE [mine EXCEPT !.at = IF r.hdr.mx = 0 THEN "header" ELSE "frame"]]
  /\ UNCHANGED <<files, shm, history>>

LockMark(c) ==
  /\ con[c].at = "lock"
  /\ LET r    == con[c]
         mine == [r EXCEPT !.rl = r.i, !.mi = shm.backfill + 1, !.i = 0, !.y = 0]
     IN  con' = [con EXCEPT ![c] =
           IF ~ShareFree(c, r.i) \/ shm.mark[r.i] # r.y \/ shm.h0 # r.hdr
           THEN Retry(r)
           ELSE IF r.goal = "read" THEN Reading(mine)
           ELSE [mine EXCEPT !.at = IF r.hdr.mx = 0 THEN "header" ELSE "frame"]]
  /\ UNCHANGED <<files, shm, history>>

EndRead(c) ==
  /\ con[c].at = "read"
  /\ con' = [con EXCEPT ![c] = Idle(con[c])]
  /\ UNCHANGED <<files, shm, history>>

-----------------------------------------------------------------------------
(* Mutant: the snapshot is not compared with the newest one.               *)
BeginWriteStale(c) ==
  /\ con[c].at = "read" /\ c \in Writers
  /\ WriteFree(c)
  /\ ntxn < MaxTxn /\ ntxn' = ntxn + 1
  /\ con' = [con EXCEPT ![c] = [con[c] EXCEPT
               !.at = "write", !.wl = TRUE, !.tid = ntxn + 1]]
  /\ UNCHANGED <<files, shm, committed, doubt, disturbed, nfault>>

(* A write transaction, only on the newest snapshot.                       *)
BeginWrite(c) ==
  /\ con[c].at = "read" /\ c \in Writers
  /\ WriteFree(c)
  /\ shm.h0 = con[c].hdr
  /\ ntxn < MaxTxn /\ ntxn' = ntxn + 1
  /\ con' = [con EXCEPT ![c] = [con[c] EXCEPT
               !.at = "write", !.wl = TRUE, !.tid = ntxn + 1]]
  /\ UNCHANGED <<files, shm, committed, doubt, disturbed, nfault>>

(* The pages P are changed and written to the log: one to free its place   *)
(* in the cache, which is never page 1, or all that are dirty to commit.   *)
Log(c, P, commit) ==
  /\ con[c].at = "write"
  /\ con[c].rl = 0 \/ con[c].hdr.mx + Cardinality(P) <= MaxFrame
  /\ con' = [con EXCEPT ![c] = [con[c] EXCEPT
       !.at = IF con[c].rl = 0 THEN "restart"
              ELSE IF con[c].hdr.mx = 0 THEN "header" ELSE "frame",
       !.goal = "write", !.com = commit, !.job = P, !.log = <<>>,
       !.cache = [p \in Page |-> IF p \in P THEN con[c].tid ELSE @[p]]]]
  /\ UNCHANGED <<files, shm, history>>

Spill(c) ==
  con[c].at = "write" /\ \E p \in Page \ {1} :
    con[c].cache[p] # con[c].tid /\ Log(c, {p}, FALSE)

Commit(c) == \E P \in Batches : Log(c, P, TRUE)

(* Nobody has read the header for a checkpoint: only one without the WRITE *)
(* lock can have done that before a reset.                                 *)
Undisturbed(c) ==
  \A d \in Others(c) : con[d].cl => con[d].at \in {"hdr", "badhdr", "locked"}

(* walRestartHdr: the header of an empty log with other salts.             *)
ResetHdr(c) ==
  [con[c].hdr EXCEPT !.mx = 0, !.gen = NewGen, !.init = TRUE]

Reset(c) ==
  /\ Unused # {}
  /\ shm' = [shm EXCEPT !.h1 = ResetHdr(c)]
  /\ con' = [con EXCEPT ![c] = [con[c] EXCEPT
               !.at = "reset2", !.hdr = ResetHdr(c), !.nck = TRUE, !.ex = Slots]]

(* walRestartLog: a log that nobody needs is written from the beginning.   *)
(* Either way the writer now needs one of the other read locks.            *)
Restart(c) ==
  /\ con[c].at = "restart"
  /\ IF shm.backfill > 0 /\ AllFree(c, Slots)
     THEN Reset(c) /\ disturbed' = (disturbed \/ ~Undisturbed(c))
     ELSE /\ con[c].hdr.mx + Cardinality(con[c].job) <= MaxFrame
          /\ con' = [con EXCEPT ![c] = Retry(con[c])]
          /\ UNCHANGED <<shm, disturbed>>
  /\ UNCHANGED <<files, committed, doubt, ntxn, nfault>>

Reset2(c) ==
  /\ con[c].at = "reset2"
  /\ shm' = [shm EXCEPT !.h0 = con[c].hdr]
  /\ con' = [con EXCEPT ![c].at = "reset3"]
  /\ UNCHANGED <<files, history>>

Reset3(c) ==
  /\ con[c].at = "reset3"
  /\ shm' = [shm EXCEPT !.backfill = 0,
                        !.mark = [i \in Slots |-> IF i = 1 THEN 0 ELSE NotUsed]]
  /\ con' = [con EXCEPT ![c] = IF con[c].goal = "write"
                               THEN Retry([con[c] EXCEPT !.ex = {}])
                               ELSE [con[c] EXCEPT !.at = "cut"]]
  /\ UNCHANGED <<files, history>>

(* sqlite3WalFrames: the header of the log, synced before any frame.       *)
Header(c) ==
  /\ con[c].at = "header"
  /\ con[c].nck \/ Unused # {}
  /\ LET g == IF con[c].nck THEN con[c].hdr.gen ELSE NewGen
     IN  /\ wal' = [wal EXCEPT !.head = [gen |-> g, nck |-> con[c].nck]]
         /\ con' = [con EXCEPT ![c] = [con[c] EXCEPT
                      !.at = "hdrsync", !.hdr.gen = g, !.hdr.sum = 0]]
  /\ headOld' = headOld \cup {wal.head, NoHead}
  /\ UNCHANGED <<db, dbOld, walOld, cutOld, shm, history>>

(* Frames that are in the log already stay in doubt if they belong to the  *)
(* salts that the wal-index has: another header may have these again.      *)
HeaderSync(c) ==
  /\ con[c].at = "hdrsync"
  /\ con' = [con EXCEPT ![c].at = "frame"]
  /\ SyncWal
  /\ doubt' = Remaining(wal) \cup Remaining([wal EXCEPT !.head.gen = shm.h0.gen])
  /\ UNCHANGED <<db, dbOld, wal, shm, committed, disturbed, ntxn, nfault>>

(* The pages are written in the order of their numbers; the last one of a  *)
(* commit says so.                                                         *)
WriteFrame(c) ==
  /\ con[c].at = "frame"
  /\ LET r    == con[c]
         k    == r.hdr.mx + Len(r.log) + 1
         p    == Min(r.job)
         last == r.job = {p}
     IN  /\ wal' = [wal EXCEPT !.frame[k] =
              [pg |-> p, tid |-> r.tid, com |-> r.com /\ last,
               gen |-> r.hdr.gen, prev |-> r.hdr.sum]]
         /\ walOld' = [walOld EXCEPT ![k] = @ \cup {wal.frame[k], NoFrame}]
         /\ con' = [con EXCEPT ![c] = [r EXCEPT
              !.job = @ \ {p}, !.log = Append(@, p), !.hdr.sum = r.tid,
              !.at = IF last THEN "index" ELSE "frame"]]
         /\ doubt' = IF r.com /\ last THEN doubt \cup {r.cache} ELSE doubt
  /\ UNCHANGED <<db, dbOld, headOld, cutOld, shm, committed, disturbed, ntxn, nfault>>

(* Mutant: the log is not synced at a commit.                              *)
AppendIndexUnsynced(c) ==
  /\ con[c].at = "index"
  /\ LET r   == con[c]
         end == r.hdr.mx + Len(r.log)
         hdr == [r.hdr EXCEPT !.mx = end, !.init = @ \/ r.com]
     IN  /\ shm' = [shm EXCEPT
              !.pg = [i \in Index |-> IF i <= r.hdr.mx THEN @[i]
                                      ELSE IF i <= end THEN r.log[i - r.hdr.mx] ELSE 0],
              !.h1 = IF r.com THEN hdr ELSE @]
         /\ con' = [con EXCEPT ![c] = [r EXCEPT
              !.hdr = hdr, !.goal = "none", !.log = <<>>, !.com = FALSE,
              !.at = IF r.com THEN "publish" ELSE "write"]]
  /\ UNCHANGED <<files, history>>

(* The log is synced if a commit is to be durable, and the frames enter    *)
(* the wal-index.  Entries behind the end of the log are remnants of a     *)
(* writer that did not finish.                                             *)
AppendIndex(c) ==
  /\ con[c].at = "index"
  /\ LET r   == con[c]
         end == r.hdr.mx + Len(r.log)
         hdr == [r.hdr EXCEPT !.mx = end, !.init = @ \/ r.com]
     IN  /\ shm' = [shm EXCEPT
              !.pg = [i \in Index |-> IF i <= r.hdr.mx THEN @[i]
                                      ELSE IF i <= end THEN r.log[i - r.hdr.mx] ELSE 0],
              !.h1 = IF r.com THEN hdr ELSE @]
         /\ con' = [con EXCEPT ![c] = [r EXCEPT
              !.hdr = hdr, !.goal = "none", !.log = <<>>, !.com = FALSE,
              !.at = IF r.com THEN "publish" ELSE "write"]]
         /\ IF r.com /\ SyncFull THEN SyncWal /\ doubt' = {r.cache}
            ELSE UNCHANGED <<walOld, headOld, cutOld, doubt>>
  /\ UNCHANGED <<db, dbOld, wal, committed, disturbed, ntxn, nfault>>

(* The commit.                                                             *)
Publish(c) ==
  /\ con[c].at = "publish"
  /\ shm' = [shm EXCEPT !.h0 = con[c].hdr]
  /\ con' = [con EXCEPT ![c] = [con[c] EXCEPT !.at = "read", !.wl = FALSE, !.tid = 0]]
  /\ committed' = con[c].cache
  /\ doubt' = IF SyncFull THEN {} ELSE (doubt \cup {committed}) \ {committed'}
  /\ UNCHANGED <<files, disturbed, ntxn, nfault>>

(* Rollback: the snapshot as it was, and none of the pages that were       *)
(* changed in the cache.                                                   *)
Rollback(c) ==
  /\ con[c].at \in {"write", "failed"}
  /\ LET r    == con[c]
         undone == [r EXCEPT !.hdr = shm.h0]
     IN  /\ shm' = IF r.hdr.mx = shm.h0.mx \/ shm.h0.mx = 0 THEN shm
                   ELSE [shm EXCEPT !.pg = [i \in Index |->
                          IF i <= shm.h0.mx THEN @[i] ELSE 0]]
         /\ con' = [con EXCEPT ![c] = [undone EXCEPT
              !.at = "read", !.goal = "none", !.wl = FALSE, !.tid = 0,
              !.job = {}, !.log = <<>>, !.com = FALSE,
              !.cache = [p \in Page |-> IF @[p] = r.tid THEN Visible(undone)[p]
                                        ELSE @[p]]]]
  /\ UNCHANGED <<files, history>>

-----------------------------------------------------------------------------
(* sqlite3WalCheckpoint.  FULL and TRUNCATE take the WRITE lock too; when  *)
(* they cannot have it they go on as PASSIVE.  The last connection to      *)
(* close runs a passive one.                                               *)
CkptStart(c) ==
  /\ con[c].at = "idle" /\ c \in Checkpointers
  /\ CkptFree(c)
  /\ \E m \in Modes :
       LET wl == m # "passive" /\ WriteFree(c)
       IN  con' = [con EXCEPT ![c] = [con[c] EXCEPT
             !.at = "hdr", !.goal = "ckpt", !.cl = TRUE, !.wl = wl,
             !.mode = IF wl THEN m ELSE "passive"]]
  /\ UNCHANGED <<files, shm, history>>

Close(c) ==
  /\ con[c].at = "idle" /\ c \in Closers
  /\ IF \A d \in Others(c) : con[d].at = "closed"
     THEN con' = [con EXCEPT ![c] = [con[c] EXCEPT
            !.at = "hdr", !.goal = "close", !.mode = "passive", !.cl = TRUE]]
     ELSE con' = [con EXCEPT ![c] = Closed]
  /\ UNCHANGED <<files, shm, history>>

(* The iterator: the last frame of each page.                              *)
Ckpt(c) ==
  /\ con[c].at = "ckpt"
  /\ LET last(p) == Max({0} \cup {i \in 1 .. con[c].hdr.mx : shm.pg[i] = p})
     IN  con' = [con EXCEPT ![c] = [con[c] EXCEPT
           !.at = IF shm.backfill < con[c].hdr.mx THEN "mark" ELSE "done",
           !.it = IF shm.backfill < con[c].hdr.mx THEN [p \in Page |-> last(p)] ELSE @,
           !.safe = con[c].hdr.mx, !.i = 1]]
  /\ UNCHANGED <<files, shm, history>>

NextMark(r) ==
  [r EXCEPT !.y = 0, !.i = IF r.i = NReader - 1 THEN 0 ELSE r.i + 1,
            !.at = IF r.i = NReader - 1 THEN "backfill" ELSE "mark"]

(* A read mark is read without its lock.                                   *)
ReadMark(c) ==
  /\ con[c].at = "mark"
  /\ LET r == con[c]
         y == shm.mark[r.i]
     IN  con' = [con EXCEPT ![c] = IF r.safe > y
                                   THEN [r EXCEPT !.at = "marklock", !.y = y]
                                   ELSE NextMark(r)]
  /\ UNCHANGED <<files, shm, history>>

(* A mark that nobody uses moves out of the way, one in use is the limit.  *)
RaiseMark(c) ==
  /\ con[c].at = "marklock"
  /\ LET r == con[c]
     IN  IF LockFree(c, r.i)
         THEN /\ shm' = [shm EXCEPT !.mark[r.i] = IF r.i = 1 THEN r.safe ELSE NotUsed]
              /\ con' = [con EXCEPT ![c] = NextMark(r)]
         ELSE /\ con' = [con EXCEPT ![c] = NextMark([r EXCEPT !.safe = r.y])]
              /\ UNCHANGED shm
  /\ UNCHANGED <<files, history>>

(* READ0 keeps those away that read the database file only.  The log is    *)
(* synced before anything is copied from it.                               *)
Backfill(c) ==
  /\ con[c].at = "backfill"
  /\ IF shm.backfill < con[c].safe /\ LockFree(c, 0)
     THEN /\ con' = [con EXCEPT ![c] = [con[c] EXCEPT
                       !.at = "copy", !.ex = {0}, !.bf = shm.backfill]]
          /\ SyncWal
          /\ doubt' = Remaining(wal)
     ELSE /\ con' = [con EXCEPT ![c].at = "done"]
          /\ UNCHANGED <<walOld, headOld, cutOld, doubt>>
  /\ UNCHANGED <<db, dbOld, wal, shm, committed, disturbed, ntxn, nfault>>

ToCopy(r) == {p \in Page : p > r.i /\ r.it[p] \in r.bf + 1 .. r.safe}

Store(p, d) ==
  /\ db' = [db EXCEPT ![p] = d]
  /\ dbOld' = [dbOld EXCEPT ![p] = @ \cup {db[p], Torn}]

Copy(c) ==
  /\ con[c].at = "copy" /\ ToCopy(con[c]) # {}
  /\ LET p == Min(ToCopy(con[c]))
         f == wal.frame[con[c].it[p]]
     IN  /\ Store(p, IF f = NoFrame THEN Torn ELSE f.tid)
         /\ con' = [con EXCEPT ![c].i = p]
  /\ UNCHANGED <<wal, walOld, headOld, cutOld, shm, history>>

(* The database is synced if it now has all of the log.                    *)
Backfilled(c) ==
  /\ con[c].at = "copy" /\ ToCopy(con[c]) = {}
  /\ dbOld' = IF con[c].safe = shm.h0.mx THEN [p \in Page |-> {}] ELSE dbOld
  /\ shm' = [shm EXCEPT !.backfill = con[c].safe]
  /\ con' = [con EXCEPT ![c] = [con[c] EXCEPT !.at = "done", !.ex = {}]]
  /\ UNCHANGED <<db, wal, walOld, headOld, cutOld, history>>

(* The end of a checkpoint.  When all is copied and nobody uses the log,   *)
(* TRUNCATE resets and cuts it.  The last connection deletes it.           *)
Done(c) ==
  /\ con[c].at = "done"
  /\ con[c].mode = "truncate" /\ shm.backfill >= con[c].hdr.mx /\ AllFree(c, Slots)
  /\ Reset(c)
  /\ UNCHANGED <<files, history>>

NoLog ==
  /\ wal' = NoWal
  /\ walOld' = [i \in Index |-> {}]
  /\ headOld' = {}
  /\ cutOld' = wal

CkptEnd(c) ==
  /\ con[c].at = "done"
  /\ ~(con[c].mode = "truncate" /\ shm.backfill >= con[c].hdr.mx /\ AllFree(c, Slots))
  /\ IF con[c].goal = "close" THEN NoLog ELSE UNCHANGED <<wal, walOld, headOld, cutOld>>
  /\ con' = [con EXCEPT ![c] = IF con[c].goal = "close" THEN Closed
                               ELSE Checkpointed(con[c])]
  /\ UNCHANGED <<db, dbOld, shm, history>>

Cut(c) ==
  /\ con[c].at = "cut"
  /\ NoLog
  /\ con' = [con EXCEPT ![c] = Checkpointed(con[c])]
  /\ UNCHANGED <<db, dbOld, shm, history>>

-----------------------------------------------------------------------------
(* Faults.                                                                 *)
Fault == nfault < MaxFault /\ nfault' = nfault + 1

(* A write or a sync fails.  A commit that fails is rolled back.  Anything *)
(* else drops the cache and the locks, the log and its index are as they   *)
(* are.  The frame or page may have been written in part.                  *)
IoError(c) ==
  /\ Fault /\ c \in Mortal
  /\ \/ con[c].at \in {"header", "hdrsync", "frame", "copy", "cut"}
     \/ con[c].at = "index" /\ con[c].com /\ SyncFull
  /\ con' = [con EXCEPT ![c] =
       IF con[c].goal \in {"ckpt", "close"} THEN Failed(con[c])
       ELSE IF con[c].com THEN [con[c] EXCEPT !.at = "failed"]
       ELSE [Idle(con[c]) EXCEPT !.cache = NoImage]]
  /\ IF con[c].at = "copy" /\ ToCopy(con[c]) # {}
     THEN Store(Min(ToCopy(con[c])), Torn) ELSE UNCHANGED <<db, dbOld>>
  /\ IF con[c].at = "frame"
     THEN LET k == con[c].hdr.mx + Len(con[c].log) + 1
          IN  /\ wal' = [wal EXCEPT !.frame[k] = NoFrame]
              /\ walOld' = [walOld EXCEPT ![k] = @ \cup {wal.frame[k]}]
     ELSE UNCHANGED <<wal, walOld>>
  /\ UNCHANGED <<headOld, cutOld, shm, committed, doubt, disturbed, ntxn>>

(* A process dies, maybe between two parts of a reset.                     *)
Crash(c) ==
  /\ Fault /\ c \in Mortal
  /\ con[c].at # "closed"
  /\ con' = [con EXCEPT ![c] = Closed]
  /\ disturbed' = (disturbed \/ con[c].at \in {"reset2", "reset3"})
  /\ UNCHANGED <<files, shm, committed, doubt, ntxn>>

(* The power fails: of what was not synced any part may be lost or torn.   *)
PowerLoss ==
  /\ Fault
  /\ \E c \in Conn : con[c].at # "closed"
  /\ con' = [c \in Conn |-> Closed]
  /\ shm' = NoShm
  /\ \E d \in [Page -> UNION {dbOld[p] \cup {db[p]} : p \in Page}] :
       /\ \A p \in Page : d[p] \in dbOld[p] \cup {db[p]}
       /\ db' = d
  /\ \/ \E f \in [Index -> UNION {walOld[i] \cup {wal.frame[i]} : i \in Index}],
           h \in headOld \cup {wal.head} :
          /\ \A i \in Index : f[i] \in walOld[i] \cup {wal.frame[i]}
          /\ wal' = [head |-> h, frame |-> f]
     \/ cutOld # NoWal /\ wal' = cutOld
  /\ dbOld' = [p \in Page |-> {}]
  /\ SyncWal
  /\ UNCHANGED <<committed, doubt, disturbed, ntxn>>

Read(c) ==
  \/ BeginRead(c) \/ RetryHdr(c) \/ LockHdr(c) \/ CannotLockHdr(c) \/ ReadLocked(c)
  \/ Recover(c) \/ CannotRecover(c) \/ Recover2(c) \/ Recover3(c) \/ Choose(c) \/ Marks(c) \/ LockMark(c) \/ EndRead(c)

Write(c) ==
  \/ BeginWrite(c) \/ Spill(c) \/ Commit(c) \/ Restart(c) \/ Reset2(c) \/ Reset3(c)
  \/ Header(c) \/ HeaderSync(c) \/ WriteFrame(c) \/ AppendIndex(c)
  \/ Publish(c) \/ Rollback(c)

Checkpoint(c) ==
  \/ CkptStart(c) \/ Ckpt(c) \/ ReadMark(c) \/ RaiseMark(c) \/ Backfill(c) \/ Copy(c)
  \/ Backfilled(c) \/ Done(c) \/ Cut(c) \/ CkptEnd(c)

Next ==
  \/ \E c \in Conn : Open(c) \/ Read(c) \/ Write(c) \/ Checkpoint(c) \/ Close(c)
                     \/ IoError(c) \/ Crash(c)
  \/ PowerLoss

Spec == Init /\ [][Next]_vars

-----------------------------------------------------------------------------
(* Properties.                                                             *)
(* The types, with what every connection holds while it holds it: READ     *)
(* locks are shared or exclusive, WRITE and CKPT are each held by one.     *)
WalTypeOK ==
  /\ db \in Image
  /\ \A i \in Index : wal.frame[i] \in Frame \cup {NoFrame}
  /\ {shm.h0, shm.h1} \cup {con[c].hdr : c \in Conn} \subseteq Hdr
  /\ shm.backfill \in 0 .. MaxFrame
  /\ shm.mark \in [Slots -> 0 .. NotUsed]
  /\ shm.pg \in [Index -> 0 .. NPage]
  /\ \A c \in Conn : con[c].cache \in Image \cup {NoImage}
  /\ \A c, d \in Conn : c # d =>
       /\ ~(con[c].wl /\ con[d].wl)
       /\ ~(con[c].cl /\ con[d].cl)
       /\ con[c].rl \notin con[d].ex
       /\ con[c].ex \cap con[d].ex = {}

(* A reset is disturbed if its process dies in the middle, or if it goes   *)
(* unnoticed by a checkpoint that has read the header before.  The README  *)
(* shows what that breaks; the properties are about what comes before, and *)
(* a run need not go on from there.                                        *)
NotDisturbed == ~disturbed

(* Whatever dies or fails, what recovery would make of the files is the    *)
(* committed image or one whose commit has not returned: in                *)
(* synchronous=NORMAL one that has not been synced.                        *)
Recoverable == disturbed \/ Recovered(wal) \in {committed} \cup doubt

InTransaction(c) ==
  con[c].at \in {"read", "write", "publish"} \/ con[c].goal = "write"

(* "The checkpointer may only transfer frames ... less than or equal to    *)
(* every aReadMark[] that is in use": a connection keeps its snapshot, and *)
(* what the pager has cached of it is what it would read now, until it     *)
(* lets it go; the pages it has changed itself aside.                      *)
SnapshotKept ==
  disturbed \/ \A c \in Conn : InTransaction(c) /\ con[c].rl # -1 =>
    \A p \in Page : \/ con[c].cache[p] = Visible(con[c])[p]
                    \/ con[c].wl /\ con[c].cache[p] = con[c].tid

(* "The nBackfill number is never greater than WalIndexHdr.mxFrame", but   *)
(* for the moment in which a reset or a recovery has yet to write it: not  *)
(* so once a reset has been disturbed.                                     *)
BackfillBounded ==
  Readable /\ (\A c \in Conn : con[c].at \notin {"reset3", "recover3"})
  => shm.backfill <= shm.h0.mx

(* The cache of a connection whose header is the current one is the        *)
(* committed database: the pager need not look at it again.                *)
HeaderTellsContent ==
  disturbed \/ \A c \in Conn :
    /\ con[c].at = "idle" /\ con[c].cache # NoImage
    /\ con[c].hdr = shm.h0 /\ con[c].hdr.init
    => con[c].cache = committed

(* The refinement: a connection sees the snapshot it has, without its own  *)
(* changes until they are committed.                                       *)
View(c) ==
  IF ~InTransaction(c) THEN NoImage
  ELSE [p \in Page |-> IF con[c].wl /\ con[c].cache[p] = con[c].tid
                       THEN committed[p] ELSE con[c].cache[p]]

Writing == {c \in Conn : InTransaction(c) /\ con[c].wl}

A == INSTANCE SnapshotStore WITH
       NoView <- NoImage, Durable <- SyncFull,
       image <- committed,
       view <- [c \in Conn |-> View(c)],
       writer <- IF Writing = {} THEN NoConn ELSE CHOOSE c \in Writing : TRUE

(* The log makes the database a store of snapshots, until a reset is       *)
(* disturbed: a transaction sees one committed image, a commit builds on   *)
(* the newest, is one step, disturbs nobody and stays.                     *)
StoreSpec == A!StoreInit /\ [][disturbed' \/ A!StoreNext]_(A!storeVars)

=============================================================================
