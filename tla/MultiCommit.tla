----------------------------- MODULE MultiCommit -----------------------------
(***************************************************************************)
(* A transaction over several database files: each file has a rollback     *)
(* journal, a master journal names them, and deleting the master journal   *)
(* commits.  Processes die, the power fails, calls return errors; files    *)
(* are rolled back one by one, by whoever comes first.                     *)
(*                                                                         *)
(* What Pager models in detail is coarse here: a file is one page, known   *)
(* by the transactions it has in it, and the lock levels are those that    *)
(* matter between connections.                                             *)
(***************************************************************************)
EXTENDS Integers, FiniteSets, FiniteSetsExt

CONSTANTS
  Conn,          \* connections
  Writers,       \* connections that write
  NFile,         \* database files, attached in the same order everywhere
  NoJournal,     \* no journal
  Ordered,       \* unlinks reach the disk in the order they are made in
  MaxTxn,        \* bound on the number of transactions
  MaxFault       \* bound on crashes, power failures and I/O errors

ASSUME MultiAssumption ==
  /\ Writers \subseteq Conn
  /\ NFile \in Nat \ {0} /\ Ordered \in BOOLEAN
  /\ MaxTxn \in Nat /\ MaxFault \in Nat
  /\ NoJournal \notin
       [orig : SUBSET (0 .. MaxTxn), firm : BOOLEAN, master : 0 .. MaxTxn]

File == 1 .. NFile
Txn  == 1 .. MaxTxn
Torn == {0}            \* a file that is written in part

VARIABLES
  db, dbOld,      \* database files; older contents that the disk may hold
  jrnl, jrnlOld,  \* journals; older ones, or none, that the disk may hold
  mj, mjOld,      \* master journals, by transaction; those that may return,
                  \* each with the journals that named it when it went
  named,          \* the files that each master journal names
  lock,           \* locks of each connection on each file
  con,            \* where each connection is
  returned,       \* history: transactions whose commit has returned
  ntxn, nfault    \* history: transactions begun, faults so far

disk == <<db, dbOld, jrnl, jrnlOld, mj, mjOld>>
vars == <<disk, named, lock, con, returned, ntxn, nfault>>

(* tid and files of the transaction; todo, the files that the loop under   *)
(* way has yet to visit; in a rollback, the file and the master of its     *)
(* journal, whether that exists, and the journals it names yet to look at. *)
Idle ==
  [at |-> "idle", tid |-> 0, files |-> {}, todo |-> {},
   cur |-> 0, master |-> 0, res |-> FALSE, left |-> {}]

Init ==
  /\ db = [f \in File |-> {}]
  /\ dbOld = [f \in File |-> {}]
  /\ jrnl = [f \in File |-> NoJournal]
  /\ jrnlOld = [f \in File |-> {}]
  /\ mj = {}
  /\ mjOld = {}
  /\ named = [t \in Txn |-> {}]
  /\ lock = [c \in Conn |-> [f \in File |-> "none"]]
  /\ con = [c \in Conn |-> Idle]
  /\ returned = {}
  /\ ntxn = 0
  /\ nfault = 0

-----------------------------------------------------------------------------
Held(f, levels, c) == \E d \in Conn \ {c} : lock[d][f] \in levels

(* The next file of the loop under way; the next step when there is none.  *)
This(c) == Min(con[c].todo)

Advance(r, more, done) ==
  LET rest == r.todo \ {Min(r.todo)}
  IN  IF rest = {} THEN [r EXCEPT !.at = done, !.todo = r.files]
      ELSE [r EXCEPT !.at = more, !.todo = rest]

Fault == nfault < MaxFault /\ nfault' = nfault + 1

(* What is left to do after the journal of one file: the other files of a  *)
(* rollback, or the transaction that came upon a hot journal, if any.      *)
RolledBack(r) ==
  IF r.todo = {} THEN [Idle EXCEPT !.tid = r.tid, !.files = r.files]
  ELSE [r EXCEPT !.at = "check", !.cur = Min(r.todo), !.todo = @ \ {Min(r.todo)},
                 !.master = 0, !.res = FALSE, !.left = {}]

Put(f, content) ==
  /\ db' = [db EXCEPT ![f] = content]
  /\ dbOld' = [dbOld EXCEPT ![f] = @ \cup {db[f], Torn}]

Names(f, m) == jrnl[f] # NoJournal /\ jrnl[f].master = m

UnlinkMaster(m) ==
  /\ mj' = mj \ {m}
  /\ mjOld' = mjOld \cup {[tid |-> m, by |-> {f \in named[m] : Names(f, m)}]}

(* A journal is deleted without a sync of its directory.                   *)
Unlink(f) ==
  /\ jrnl' = [jrnl EXCEPT ![f] = NoJournal]
  /\ jrnlOld' = [jrnlOld EXCEPT ![f] = @ \cup {jrnl[f]}]

-----------------------------------------------------------------------------
(* A connection starts to read a file.  A journal that no writer holds     *)
(* RESERVED_LOCK for is rolled back first, under EXCLUSIVE_LOCK.           *)
Read(c, f) ==
  /\ con[c].at = "idle" /\ lock[c][f] = "none"
  /\ ~Held(f, {"exclusive"}, c)
  /\ IF jrnl[f] # NoJournal /\ ~Held(f, {"reserved"}, c)
     THEN /\ ~Held(f, {"shared"}, c)
          /\ lock' = [lock EXCEPT ![c][f] = "exclusive"]
          /\ con' = [con EXCEPT ![c] = [@ EXCEPT !.at = "hot", !.cur = f]]
     ELSE /\ lock' = [lock EXCEPT ![c][f] = "shared"]
          /\ UNCHANGED con
  /\ UNCHANGED <<disk, named, returned, ntxn, nfault>>

EndRead(c, f) ==
  /\ con[c].at = "idle" /\ lock[c][f] = "shared"
  /\ lock' = [lock EXCEPT ![c][f] = "none"]
  /\ UNCHANGED <<disk, named, con, returned, ntxn, nfault>>

(* The first change of a file in a transaction: its journal is made.  The  *)
(* file itself is not written before the commit.                           *)
Write(c, f) ==
  /\ con[c].at = "idle" /\ c \in Writers
  /\ lock[c][f] = "shared"
  /\ ~Held(f, {"reserved", "exclusive"}, c)
  /\ con[c].tid = 0 => ntxn < MaxTxn
  /\ ntxn' = IF con[c].tid = 0 THEN ntxn + 1 ELSE ntxn
  /\ lock' = [lock EXCEPT ![c][f] = "reserved"]
  /\ con' = [con EXCEPT ![c] = [con[c] EXCEPT
               !.tid = IF @ = 0 THEN ntxn + 1 ELSE @, !.files = @ \cup {f}]]
  /\ jrnl' = [jrnl EXCEPT ![f] = [orig |-> db[f], firm |-> FALSE, master |-> 0]]
  /\ jrnlOld' = [jrnlOld EXCEPT ![f] = @ \cup {NoJournal}]
  /\ UNCHANGED <<db, dbOld, mj, mjOld, named, returned, nfault>>

-----------------------------------------------------------------------------
(* vdbeCommit: EXCLUSIVE_LOCK on every file; who cannot have it tries      *)
(* again or rolls back.                                                    *)
Commit(c) ==
  /\ con[c].at = "idle" /\ con[c].files # {}
  /\ con' = [con EXCEPT ![c] = [con[c] EXCEPT !.at = "lock", !.todo = con[c].files]]
  /\ UNCHANGED <<disk, named, lock, returned, ntxn, nfault>>

Multi(c) == Cardinality(con[c].files) > 1

(* Mutant: readers are not waited for.                                     *)
ExclusiveLockAmongReaders(c) ==
  /\ con[c].at = "lock"
  /\ lock' = [lock EXCEPT ![c][This(c)] = "exclusive"]
  /\ con' = [con EXCEPT ![c] = Advance(@, "lock", IF Multi(c) THEN "master" ELSE "name")]
  /\ UNCHANGED <<disk, named, returned, ntxn, nfault>>

ExclusiveLock(c) ==
  /\ con[c].at = "lock"
  /\ IF Held(This(c), {"shared"}, c)
     THEN /\ con' = [con EXCEPT ![c] = [@ EXCEPT !.at = "idle", !.todo = {}]]
          /\ UNCHANGED lock
     ELSE /\ lock' = [lock EXCEPT ![c][This(c)] = "exclusive"]
          /\ con' = [con EXCEPT ![c] =
               Advance(@, "lock", IF Multi(c) THEN "master" ELSE "name")]
  /\ UNCHANGED <<disk, named, returned, ntxn, nfault>>

(* The master journal names the journals and is synced with its directory; *)
(* until then nothing refers to it.                                        *)
Master(c) ==
  /\ con[c].at = "master"
  /\ mj' = mj \cup {con[c].tid}
  /\ named' = [named EXCEPT ![con[c].tid] = con[c].files]
  /\ con' = [con EXCEPT ![c].at = "name"]
  /\ UNCHANGED <<db, dbOld, jrnl, jrnlOld, mjOld, lock, returned, ntxn, nfault>>

(* sqlite3PagerCommitPhaseOne: the name of the master goes to the end of   *)
(* the journal, ...                                                        *)
WriteMaster(c) ==
  /\ con[c].at = "name"
  /\ jrnl' = [jrnl EXCEPT ![This(c)].master = IF Multi(c) THEN con[c].tid ELSE 0]
  /\ jrnlOld' = [jrnlOld EXCEPT ![This(c)] = @ \cup {jrnl[This(c)]}]
  /\ con' = [con EXCEPT ![c].at = "syncjournal"]
  /\ UNCHANGED <<db, dbOld, mj, mjOld, named, lock, returned, ntxn, nfault>>

(* ... the journal is synced, with its directory, ...                      *)
SyncJournal(c) ==
  /\ con[c].at = "syncjournal"
  /\ jrnl' = [jrnl EXCEPT ![This(c)].firm = TRUE]
  /\ jrnlOld' = [jrnlOld EXCEPT ![This(c)] = {}]
  /\ con' = [con EXCEPT ![c].at = "write"]
  /\ UNCHANGED <<db, dbOld, mj, mjOld, named, lock, returned, ntxn, nfault>>

(* ... the database file is written ...                                    *)
WriteDb(c) ==
  /\ con[c].at = "write"
  /\ Put(This(c), db[This(c)] \cup {con[c].tid})
  /\ con' = [con EXCEPT ![c].at = "syncdb"]
  /\ UNCHANGED <<jrnl, jrnlOld, mj, mjOld, named, lock, returned, ntxn, nfault>>

(* ... and synced; then the next file.                                     *)
SyncDb(c) ==
  /\ con[c].at = "syncdb"
  /\ dbOld' = [dbOld EXCEPT ![This(c)] = {}]
  /\ con' = [con EXCEPT ![c] =
       Advance(@, "name", IF Multi(c) THEN "unlink" ELSE "phase2")]
  /\ UNCHANGED <<db, jrnl, jrnlOld, mj, mjOld, named, lock, returned, ntxn, nfault>>

(* Mutant: the directory is not synced.                                    *)
DeleteMasterUnsynced(c) ==
  /\ con[c].at = "unlink"
  /\ UnlinkMaster(con[c].tid)
  /\ con' = [con EXCEPT ![c].at = "phase2"]
  /\ UNCHANGED <<db, dbOld, jrnl, jrnlOld, named, lock, returned, ntxn, nfault>>

(* The master journal is deleted, and its directory synced before any of   *)
(* the journals goes.                                                      *)
DeleteMaster(c) ==
  /\ con[c].at = "unlink"
  /\ UnlinkMaster(con[c].tid)
  /\ con' = [con EXCEPT ![c].at = "syncdir"]
  /\ UNCHANGED <<db, dbOld, jrnl, jrnlOld, named, lock, returned, ntxn, nfault>>

SyncDirectory(c) ==
  /\ con[c].at = "syncdir"
  /\ mjOld' = {o \in mjOld : o.tid # con[c].tid}
  /\ con' = [con EXCEPT ![c].at = "phase2"]
  /\ UNCHANGED <<db, dbOld, jrnl, jrnlOld, mj, named, lock, returned, ntxn, nfault>>

(* sqlite3PagerCommitPhaseTwo of each file.  After the master journal an   *)
(* error is ignored: the pager lets go of a file whose journal remains.    *)
PhaseTwo(c) ==
  /\ con[c].at = "phase2"
  /\ LET next == Advance(con[c], "phase2", "done")
     IN  /\ con' = [con EXCEPT ![c] = IF next.at = "done" THEN Idle ELSE next]
         /\ returned' = IF next.at = "done" THEN returned \cup {con[c].tid} ELSE returned
  /\ \/ /\ Unlink(This(c))
        /\ lock' = [lock EXCEPT ![c][This(c)] = "shared"]
        /\ UNCHANGED nfault
     \/ /\ Multi(c) /\ Fault
        /\ lock' = [lock EXCEPT ![c][This(c)] = "none"]
        /\ UNCHANGED <<jrnl, jrnlOld>>
  /\ UNCHANGED <<db, dbOld, mj, mjOld, named, ntxn>>

-----------------------------------------------------------------------------
(* ROLLBACK, by the application or after a commit that failed.             *)
Undo(c) ==
  LET first == Min(con[c].files)
  IN  [Idle EXCEPT !.at = "check", !.cur = first, !.todo = con[c].files \ {first}]

Rollback(c) ==
  /\ con[c].at = "idle" /\ con[c].files # {}
  /\ con' = [con EXCEPT ![c] = Undo(c)]
  /\ UNCHANGED <<disk, named, lock, returned, ntxn, nfault>>

(* A hot journal is synced before it is used.                              *)
SyncHotJournal(c) ==
  /\ con[c].at = "hot"
  /\ jrnlOld' = [jrnlOld EXCEPT ![con[c].cur] = {}]
  /\ con' = [con EXCEPT ![c].at = "check"]
  /\ UNCHANGED <<db, dbOld, jrnl, mj, mjOld, named, lock, returned, ntxn, nfault>>

(* pager_playback: a journal that names a master journal that is gone is   *)
(* not rolled back.                                                        *)
CheckMaster(c) ==
  /\ con[c].at = "check"
  /\ LET m   == jrnl[con[c].cur].master
         res == m = 0 \/ m \in mj
     IN  con' = [con EXCEPT ![c] = [@ EXCEPT
           !.master = m, !.res = res, !.at = IF res THEN "restore" ELSE "sync"]]
  /\ UNCHANGED <<disk, named, lock, returned, ntxn, nfault>>

(* A journal that was never synced has nothing to restore.                 *)
Restore(c) ==
  /\ con[c].at = "restore"
  /\ LET f == con[c].cur
     IN  IF jrnl[f].firm THEN Put(f, jrnl[f].orig) ELSE UNCHANGED <<db, dbOld>>
  /\ con' = [con EXCEPT ![c].at = "sync"]
  /\ UNCHANGED <<jrnl, jrnlOld, mj, mjOld, named, lock, returned, ntxn, nfault>>

SyncRestored(c) ==
  /\ con[c].at = "sync"
  /\ dbOld' = [dbOld EXCEPT ![con[c].cur] = {}]
  /\ con' = [con EXCEPT ![c].at = "finish"]
  /\ UNCHANGED <<db, jrnl, jrnlOld, mj, mjOld, named, lock, returned, ntxn, nfault>>

EndPlayback(c) ==
  /\ con[c].at = "finish"
  /\ Unlink(con[c].cur)
  /\ lock' = [lock EXCEPT ![c][con[c].cur] = "shared"]
  /\ con' = [con EXCEPT ![c] =
       IF @.master # 0 /\ @.res
       THEN [@ EXCEPT !.at = "delmaster", !.left = named[con[c].master]]
       ELSE RolledBack(@)]
  /\ UNCHANGED <<db, dbOld, mj, mjOld, named, returned, ntxn, nfault>>

(* Mutant: the master journal goes with the first journal rolled back.     *)
DelMasterAtOnce(c) ==
  /\ con[c].at = "delmaster"
  /\ con' = [con EXCEPT ![c] = RolledBack(con[c])]
  /\ UnlinkMaster(con[c].master)
  /\ UNCHANGED <<db, dbOld, jrnl, jrnlOld, named, lock, returned, ntxn, nfault>>

(* pager_delmaster: the master journal goes when no journal names it.      *)
DelMaster(c) ==
  /\ con[c].at = "delmaster"
  /\ LET r == con[c]
         m == r.master
         inUse == r.left # {} /\ Names(Min(r.left), m)
     IN  IF m \in mj /\ r.left # {} /\ ~inUse
         THEN /\ con' = [con EXCEPT ![c].left = @ \ {Min(@)}]
              /\ UNCHANGED <<mj, mjOld>>
         ELSE /\ con' = [con EXCEPT ![c] = RolledBack(r)]
              /\ IF inUse \/ m \notin mj THEN UNCHANGED <<mj, mjOld>>
                                          ELSE UnlinkMaster(m)
  /\ UNCHANGED <<db, dbOld, jrnl, jrnlOld, named, lock, returned, ntxn, nfault>>

-----------------------------------------------------------------------------
(* A call of the commit fails, and the transaction is rolled back.  The    *)
(* database file may be written in part.  An unlink may have been done     *)
(* although the sync of the directory failed.                              *)
IoError(c) ==
  /\ Fault
  /\ \/ con[c].at \in {"master", "name", "syncjournal", "write",
                        "syncdb", "unlink", "syncdir"}
     \/ con[c].at = "phase2" /\ ~Multi(c)
  /\ IF con[c].at = "write" THEN Put(This(c), Torn) ELSE UNCHANGED <<db, dbOld>>
  /\ con' = [con EXCEPT ![c] = Undo(c)]
  /\ UNCHANGED <<jrnl, jrnlOld, mj, mjOld, named, lock, returned, ntxn>>

Crash(c) ==
  /\ Fault
  /\ con[c] # Idle \/ \E f \in File : lock[c][f] # "none"
  /\ con' = [con EXCEPT ![c] = Idle]
  /\ lock' = [lock EXCEPT ![c] = [f \in File |-> "none"]]
  /\ UNCHANGED <<disk, named, returned, ntxn>>

PowerLoss ==
  /\ Fault
  /\ \E d \in [File -> UNION {dbOld[f] \cup {db[f]} : f \in File}] :
       /\ \A f \in File : d[f] \in dbOld[f] \cup {db[f]}
       /\ db' = d
  /\ \E j \in [File -> UNION {jrnlOld[f] \cup {jrnl[f]} : f \in File}] :
       /\ \A f \in File : j[f] \in jrnlOld[f] \cup {jrnl[f]}
       /\ jrnl' = j
  /\ \E back \in SUBSET mjOld :
       /\ Ordered => \A o \in back : \A f \in o.by :
                       jrnl'[f] # NoJournal /\ jrnl'[f].master = o.tid
       /\ mj' = mj \cup {o.tid : o \in back}
  /\ dbOld' = [f \in File |-> {}]
  /\ jrnlOld' = [f \in File |-> {}]
  /\ mjOld' = {}
  /\ con' = [c \in Conn |-> Idle]
  /\ lock' = [c \in Conn |-> [f \in File |-> "none"]]
  /\ UNCHANGED <<named, returned, ntxn>>

Step(c) ==
  \/ \E f \in File : Read(c, f) \/ EndRead(c, f) \/ Write(c, f)
  \/ Commit(c) \/ ExclusiveLock(c) \/ Master(c) \/ WriteMaster(c)
  \/ SyncJournal(c) \/ WriteDb(c) \/ SyncDb(c)
  \/ DeleteMaster(c) \/ SyncDirectory(c) \/ PhaseTwo(c)
  \/ Rollback(c) \/ SyncHotJournal(c) \/ CheckMaster(c) \/ Restore(c)
  \/ SyncRestored(c) \/ EndPlayback(c) \/ DelMaster(c)
  \/ IoError(c) \/ Crash(c)

Next == (\E c \in Conn : Step(c)) \/ PowerLoss

Spec == Init /\ [][Next]_vars

-----------------------------------------------------------------------------
(* What the next reader of a file will find after recovery.                *)
Recovered(f) ==
  IF jrnl[f] # NoJournal /\ jrnl[f].firm /\ jrnl[f].master \in mj \cup {0}
  THEN jrnl[f].orig ELSE db[f]

(* A master journal "is required for an atomic commit": whatever dies or   *)
(* fails, and in whatever order the files are recovered, a transaction is  *)
(* in all of its files or in none.                                         *)
AllOrNone ==
  /\ \A f \in File : 0 \notin Recovered(f)
  /\ \A t \in Txn : \A f, g \in named[t] : t \in Recovered(f) <=> t \in Recovered(g)

(* "Delete the master journal file.  This commits the transaction": once   *)
(* the commit over several files has returned it stays.                    *)
CommitStays ==
  \A t \in returned : \A f \in named[t] : t \in Recovered(f)

(* A connection never reads a file that has yet to be rolled back, and one *)
(* that reads two files at once finds a transaction in both or in neither. *)
ReadTogether ==
  \A c \in Conn :
    LET reads == {f \in File : lock[c][f] = "shared"}
    IN  con[c].at = "idle" =>
          /\ \A f \in reads : db[f] = Recovered(f)
          /\ \A t \in Txn : \A f, g \in reads \cap named[t] :
               t \in db[f] <=> t \in db[g]

=============================================================================
