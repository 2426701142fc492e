----------------------------- MODULE SharedCache -----------------------------
(***************************************************************************)
(* Transactions and table locks of the connections that share a BtShared,  *)
(* on top of the mutexes of BtMutex: a Btree works on its BtShared between *)
(* sqlite3BtreeEnter and sqlite3BtreeLeave, and a close ends its           *)
(* transaction.  Connections do not read uncommitted data.                 *)
(***************************************************************************)
EXTENDS BtMutex

CONSTANT NTable      \* tables of a file, the first of which is sqlite_master

ASSUME SharedCacheAssumption == NTable \in Nat \ {0}

Table == 1 .. NTable

None  == 0           \* TRANS_NONE, no lock
Read  == 1           \* TRANS_READ, READ_LOCK
Write == 2           \* TRANS_WRITE, WRITE_LOCK

VARIABLES
  inTrans,        \* Btree.inTrans
  tableLock,      \* BtShared.pLock, by connection and table
  inTransaction,  \* BtShared.inTransaction
  nTransaction,   \* BtShared.nTransaction
  pWriter,        \* BtShared.pWriter
  exclusive,      \* BTS_EXCLUSIVE
  pending         \* BTS_PENDING

transVars == <<inTrans, tableLock, inTransaction, nTransaction, pWriter, exclusive, pending>>
sharedVars == <<mutexVars, transVars>>

NoLocks == [t \in Table |-> None]

SharedInit ==
  /\ BtMutexInit
  /\ inTrans = [c \in Conn |-> [a \in Addr |-> None]]
  /\ tableLock = [c \in Conn |-> [a \in Addr |-> NoLocks]]
  /\ inTransaction = [a \in Addr |-> None]
  /\ nTransaction = [a \in Addr |-> 0]
  /\ pWriter = [a \in Addr |-> NoConn]
  /\ exclusive = [a \in Addr |-> FALSE]
  /\ pending = [a \in Addr |-> FALSE]

-----------------------------------------------------------------------------
(* querySharedCacheTableLock: two write locks are not told apart from none *)
(* in conflict, as there is one writer.                                    *)
LockedBy(c, a, t, lock) ==
  {d \in Conn \ {c} : tableLock[d][a][t] \notin {None, lock}}

Refused(c, a, t, lock) ==
  \/ exclusive[a] /\ pWriter[a] # c
  \/ LockedBy(c, a, t, lock) # {}

(* Mutant: a write transaction of another connection is not looked for.    *)
BlockedNoWriter(c, a, wrflag) ==
  \/ pending[a]
  \/ wrflag > 1 /\ \E d \in Conn \ {c} : tableLock[d][a] # NoLocks

(* sqlite3BtreeBeginTrans(p, wrflag), when no other process is in the way. *)
Blocked(c, a, wrflag) ==
  \/ wrflag > 0 /\ inTransaction[a] = Write
  \/ pending[a]
  \/ wrflag > 1 /\ \E d \in Conn \ {c} : tableLock[d][a] # NoLocks

BeginTrans(c, a, wrflag) ==
  /\ inTrans[c][a] # Write /\ (wrflag = 0 => inTrans[c][a] = None)
  /\ ~Blocked(c, a, wrflag) /\ ~Refused(c, a, 1, Read)
  /\ LET kind == IF wrflag > 0 THEN Write ELSE Read
     IN  /\ inTrans' = [inTrans EXCEPT ![c][a] = kind]
         /\ inTransaction' = [inTransaction EXCEPT ![a] = IF kind > @ THEN kind ELSE @]
  /\ IF inTrans[c][a] = None
     THEN /\ nTransaction' = [nTransaction EXCEPT ![a] = @ + 1]
          /\ tableLock' = [tableLock EXCEPT ![c][a][1] = Read]
     ELSE UNCHANGED <<nTransaction, tableLock>>
  /\ IF wrflag > 0
     THEN /\ pWriter' = [pWriter EXCEPT ![a] = c]
          /\ exclusive' = [exclusive EXCEPT ![a] = wrflag > 1]
     ELSE UNCHANGED <<pWriter, exclusive>>
  /\ UNCHANGED pending

(* sqlite3BtreeLockTable: a writer that readers are in the way of has new  *)
(* transactions wait.                                                      *)
LockTable(c, a, t, lock) ==
  /\ inTrans[c][a] >= lock
  /\ IF Refused(c, a, t, lock)
     THEN /\ pending' = [pending EXCEPT ![a] = @ \/ lock = Write]
          /\ UNCHANGED tableLock
     ELSE /\ tableLock' = [tableLock EXCEPT ![c][a][t] = IF lock > @ THEN lock ELSE @]
          /\ UNCHANGED pending
  /\ UNCHANGED <<inTrans, inTransaction, nTransaction, pWriter, exclusive>>

-----------------------------------------------------------------------------
(* downgradeAllSharedCacheTableLocks: other statements of the connection   *)
(* still read.                                                             *)
Downgrade(c, a) ==
  /\ IF pWriter[a] = c
     THEN /\ pWriter' = [pWriter EXCEPT ![a] = NoConn]
          /\ exclusive' = [exclusive EXCEPT ![a] = FALSE]
          /\ pending' = [pending EXCEPT ![a] = FALSE]
          /\ tableLock' = [d \in Conn |-> [tableLock[d] EXCEPT ![a] =
               [t \in Table |-> IF @[t] = None THEN None ELSE Read]]]
     ELSE UNCHANGED <<pWriter, exclusive, pending, tableLock>>
  /\ inTrans' = [inTrans EXCEPT ![c][a] = Read]
  /\ inTransaction' = [inTransaction EXCEPT ![a] = IF inTrans[c][a] = Write THEN Read ELSE @]
  /\ UNCHANGED nTransaction

(* Mutant: the last reader to go leaves BTS_PENDING set.                   *)
ClearLocksPending(c, a) ==
  /\ tableLock' = [tableLock EXCEPT ![c][a] = NoLocks]
  /\ IF pWriter[a] = c
     THEN /\ pWriter' = [pWriter EXCEPT ![a] = NoConn]
          /\ exclusive' = [exclusive EXCEPT ![a] = FALSE]
          /\ pending' = [pending EXCEPT ![a] = FALSE]
     ELSE UNCHANGED <<pWriter, exclusive, pending>>

(* clearAllSharedCacheTableLocks                                           *)
ClearLocks(c, a) ==
  /\ tableLock' = [tableLock EXCEPT ![c][a] = NoLocks]
  /\ IF pWriter[a] = c
     THEN /\ pWriter' = [pWriter EXCEPT ![a] = NoConn]
          /\ exclusive' = [exclusive EXCEPT ![a] = FALSE]
          /\ pending' = [pending EXCEPT ![a] = FALSE]
     ELSE /\ pending' = [pending EXCEPT ![a] = @ /\ nTransaction[a] # 2]
          /\ UNCHANGED <<pWriter, exclusive>>

(* sqlite3BtreeCommitPhaseTwo and sqlite3BtreeRollback, with               *)
(* btreeEndTransaction.                                                    *)
EndTransaction(c, a) ==
  IF inTrans[c][a] = None THEN UNCHANGED transVars
  ELSE /\ ClearLocks(c, a)
       /\ nTransaction' = [nTransaction EXCEPT ![a] = @ - 1]
       /\ inTransaction' = [inTransaction EXCEPT ![a] =
            IF nTransaction[a] = 1 THEN None
            ELSE IF inTrans[c][a] = Write THEN Read ELSE @]
       /\ inTrans' = [inTrans EXCEPT ![c][a] = None]

Transaction(c, a) ==
  /\ at[c].step = "idle" /\ a \in locked[c]
  /\ \/ \E wrflag \in 0 .. 2 : BeginTrans(c, a, wrflag)
     \/ \E t \in Table : \E lock \in {Read, Write} : LockTable(c, a, t, lock)
     \/ inTrans[c][a] # None /\ Downgrade(c, a)
     \/ inTrans[c][a] # None /\ EndTransaction(c, a)
  /\ UNCHANGED mutexVars

CloseTransaction(c) ==
  /\ Closing(c)
  /\ EndTransaction(c, at[c].addr)

SharedNext ==
  \E c \in Conn :
    \/ MutexStep(c) /\ UNCHANGED transVars
    \/ CloseTransaction(c)
    \/ \E a \in Addr : Transaction(c, a)

SharedSpec == SharedInit /\ [][SharedNext]_sharedVars

-----------------------------------------------------------------------------
(* A table that one connection writes no other reads or writes, although   *)
(* a lock conflicts only with a lock of the other kind; and a transaction  *)
(* that is exclusive is alone.                                             *)
TablesExclude ==
  \A a \in Addr : \A c, d \in Conn : c # d =>
    /\ \A t \in Table : tableLock[c][a][t] = Write => tableLock[d][a][t] = None
    /\ exclusive[a] /\ pWriter[a] = c => inTrans[d][a] = None

(* "The shared-cache leaves the 'pending lock' state when" the writer or   *)
(* the readers it waits for are gone: while new transactions are refused   *)
(* there is a writer, whose connection is reported, and another connection *)
(* has a transaction to end.                                               *)
PendingEnds ==
  \A a \in Addr :
    /\ pending[a] \/ inTransaction[a] = Write => pWriter[a] # NoConn
    /\ pending[a] => \E d \in Conn \ {pWriter[a]} : inTrans[d][a] # None

(* Who is gone left nothing behind: locks and counts are of transactions   *)
(* of handles that are open.                                               *)
NothingLeft ==
  \A a \in Addr :
    /\ nTransaction[a] = Cardinality({c \in Conn : inTrans[c][a] # None})
    /\ \A c \in Conn :
         /\ tableLock[c][a] # NoLocks => inTrans[c][a] # None
         /\ inTrans[c][a] # None => a \in handle[c]
         /\ pWriter[a] = c => inTrans[c][a] = Write

=============================================================================
