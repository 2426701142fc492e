------------------------------- MODULE BtMutex -------------------------------
(***************************************************************************)
(* The mutexes of shared cache.  Connections of several threads open the   *)
(* same files through one BtShared for each file; a Btree is the handle of *)
(* a connection on a BtShared.  Who works on a BtShared holds its mutex,   *)
(* and a connection may hold those of several, taken in any order.         *)
(*                                                                         *)
(* A thread uses one connection, as db->mutex has it; MUTEX_STATIC_MASTER  *)
(* is held within single steps.                                            *)
(***************************************************************************)
EXTENDS Integers, FiniteSets

CONSTANTS
  Conn, NoConn,      \* connections
  File, NoFile,      \* database files
  NShared,           \* places that malloc has for a BtShared
  MaxWant,           \* bound on nested calls of sqlite3BtreeEnter
  AttachInCallback   \* a function called by a statement may attach a file

ASSUME BtMutexAssumption ==
  /\ IsFiniteSet(Conn) /\ NoConn \notin Conn /\ NoFile \notin File
  /\ NShared \in Nat /\ MaxWant \in Nat
  /\ AttachInCallback \in BOOLEAN

Addr == 1 .. NShared        \* BtShared objects, by address

VARIABLES
  openMutex,   \* who holds MUTEX_STATIC_OPEN
  cache,       \* sqlite3SharedCacheList: the file of each BtShared on it
  nRef,        \* BtShared.nRef
  mutex,       \* who holds BtShared.mutex
  handle,      \* the BtShared that a connection has a Btree on
  wantToLock,  \* Btree.wantToLock
  locked,      \* the BtShared whose Btree has its locked flag set
  at           \* where each connection is

list == <<cache, nRef>>
mutexVars == <<openMutex, cache, nRef, mutex, handle, wantToLock, locked, at>>

Idle == [step |-> "idle", addr |-> 0, file |-> NoFile, todo |-> {}, then |-> "idle"]

BtMutexInit ==
  /\ openMutex = NoConn
  /\ cache = [a \in Addr |-> NoFile]
  /\ nRef = [a \in Addr |-> 0]
  /\ mutex = [a \in Addr |-> NoConn]
  /\ handle = [c \in Conn |-> {}]
  /\ wantToLock = [c \in Conn |-> [a \in Addr |-> 0]]
  /\ locked = [c \in Conn |-> {}]
  /\ at = [c \in Conn |-> Idle]

-----------------------------------------------------------------------------
Later(c, a) == {b \in handle[c] : b > a}       \* along Btree.pNext

lockBtreeMutex(c, a) ==
  /\ mutex[a] = NoConn
  /\ mutex' = [mutex EXCEPT ![a] = c]
  /\ locked' = [locked EXCEPT ![c] = @ \cup {a}]

unlockBtreeMutexes(c, S) ==
  /\ mutex' = [a \in Addr |-> IF a \in S THEN NoConn ELSE mutex[a]]
  /\ locked' = [locked EXCEPT ![c] = @ \ S]

Entered(a, then) ==
  IF then = "idle" THEN Idle ELSE [Idle EXCEPT !.step = then, !.addr = a]

(* Mutant: the mutexes of larger address are kept while waiting.           *)
EnterThenCareless(c, a, then) ==
  /\ wantToLock[c][a] < MaxWant
  /\ wantToLock' = [wantToLock EXCEPT ![c][a] = @ + 1]
  /\ \/ /\ a \in locked[c]
        /\ at' = [at EXCEPT ![c] = Entered(a, then)]
        /\ UNCHANGED <<mutex, locked>>
     \/ /\ a \notin locked[c]
        /\ lockBtreeMutex(c, a)
        /\ at' = [at EXCEPT ![c] = Entered(a, then)]
     \/ /\ a \notin locked[c] /\ mutex[a] # NoConn
        /\ at' = [at EXCEPT ![c] = [Idle EXCEPT !.step = "wait", !.addr = a, !.then = then]]
        /\ UNCHANGED <<mutex, locked>>

(* sqlite3BtreeEnter and btreeLockCarefully: a mutex that is not free is   *)
(* waited for, once those of larger address have been let go.              *)
EnterThen(c, a, then) ==
  /\ wantToLock[c][a] < MaxWant
  /\ wantToLock' = [wantToLock EXCEPT ![c][a] = @ + 1]
  /\ \/ /\ a \in locked[c]
        /\ at' = [at EXCEPT ![c] = Entered(a, then)]
        /\ UNCHANGED <<mutex, locked>>
     \/ /\ a \notin locked[c]
        /\ lockBtreeMutex(c, a)
        /\ at' = [at EXCEPT ![c] = Entered(a, then)]
     \/ /\ a \notin locked[c] /\ mutex[a] # NoConn
        /\ unlockBtreeMutexes(c, Later(c, a) \cap locked[c])
        /\ at' = [at EXCEPT ![c] = [Idle EXCEPT !.step = "wait", !.addr = a, !.then = then]]

(* The wait is over: those of larger address are taken again, one by one.  *)
Obtain(c) ==
  /\ at[c].step = "wait"
  /\ lockBtreeMutex(c, at[c].addr)
  /\ at' = [at EXCEPT ![c] =
       LET todo == {b \in Later(c, at[c].addr) : wantToLock[c][b] > 0}
       IN  IF todo = {} THEN Entered(at[c].addr, at[c].then)
           ELSE [at[c] EXCEPT !.step = "relock", !.todo = todo]]
  /\ UNCHANGED <<openMutex, list, handle, wantToLock>>

Relock(c) ==
  /\ at[c].step = "relock"
  /\ \E b \in at[c].todo :
       /\ \A d \in at[c].todo : b <= d
       /\ lockBtreeMutex(c, b)
       /\ at' = [at EXCEPT ![c] =
            IF at[c].todo = {b} THEN Entered(at[c].addr, at[c].then)
            ELSE [at[c] EXCEPT !.todo = @ \ {b}]]
  /\ UNCHANGED <<openMutex, list, handle, wantToLock>>

(* sqlite3VdbeEnter, sqlite3BtreeEnterAll and the operations of a Btree.   *)
Enter(c, a) ==
  /\ at[c].step = "idle" /\ a \in handle[c]
  /\ EnterThen(c, a, "idle")
  /\ UNCHANGED <<openMutex, list, handle>>

Leave(c, a) ==
  /\ at[c].step = "idle" /\ wantToLock[c][a] > 0
  /\ wantToLock' = [wantToLock EXCEPT ![c][a] = @ - 1]
  /\ IF wantToLock[c][a] = 1 THEN unlockBtreeMutexes(c, {a})
                             ELSE UNCHANGED <<mutex, locked>>
  /\ UNCHANGED <<openMutex, list, handle, at>>

-----------------------------------------------------------------------------
(* sqlite3BtreeOpen, by sqlite3_open or ATTACH.                            *)
Open(c, f) ==
  /\ at[c].step = "idle"
  /\ AttachInCallback \/ \A a \in Addr : wantToLock[c][a] = 0
  /\ at' = [at EXCEPT ![c] = [Idle EXCEPT !.step = "open", !.file = f]]
  /\ UNCHANGED <<openMutex, list, mutex, handle, wantToLock, locked>>

(* Mutant: MUTEX_STATIC_OPEN does not keep a second thread out.            *)
OpenMutexNone(c) ==
  /\ at[c].step = "open"
  /\ openMutex' = c
  /\ at' = [at EXCEPT ![c].step = "find"]
  /\ UNCHANGED <<list, mutex, handle, wantToLock, locked>>

OpenMutex(c) ==
  /\ at[c].step = "open" /\ openMutex = NoConn
  /\ openMutex' = c
  /\ at' = [at EXCEPT ![c].step = "find"]
  /\ UNCHANGED <<list, mutex, handle, wantToLock, locked>>

(* A connection cannot have a file twice.                                  *)
Find(c) ==
  /\ at[c].step = "find"
  /\ \/ \E a \in Addr :
          /\ cache[a] = at[c].file /\ a \in handle[c]
          /\ openMutex' = NoConn
          /\ at' = [at EXCEPT ![c] = Idle]
          /\ UNCHANGED <<nRef, handle>>
     \/ \E a \in Addr :
          /\ cache[a] = at[c].file /\ a \notin handle[c]
          /\ nRef' = [nRef EXCEPT ![a] = @ + 1]
          /\ handle' = [handle EXCEPT ![c] = @ \cup {a}]
          /\ at' = [at EXCEPT ![c] = [Idle EXCEPT !.step = "link", !.addr = a]]
          /\ UNCHANGED openMutex
     \/ /\ \A a \in Addr : cache[a] # at[c].file
        /\ at' = [at EXCEPT ![c].step = "create"]
        /\ UNCHANGED <<openMutex, nRef, handle>>
  /\ UNCHANGED <<cache, mutex, wantToLock, locked>>

(* A new BtShared, or a failure of the pager.                              *)
Create(c) ==
  /\ at[c].step = "create"
  /\ \/ \E a \in Addr :
          /\ cache[a] = NoFile
          /\ cache' = [cache EXCEPT ![a] = at[c].file]
          /\ nRef' = [nRef EXCEPT ![a] = 1]
          /\ mutex' = [mutex EXCEPT ![a] = NoConn]
          /\ handle' = [handle EXCEPT ![c] = @ \cup {a}]
          /\ at' = [at EXCEPT ![c] = [Idle EXCEPT !.step = "link", !.addr = a]]
          /\ UNCHANGED openMutex
     \/ /\ openMutex' = NoConn
        /\ at' = [at EXCEPT ![c] = Idle]
        /\ UNCHANGED <<list, mutex, handle>>
  /\ UNCHANGED <<wantToLock, locked>>

(* sqlite3BtreeSchema enters the new Btree with MUTEX_STATIC_OPEN held.    *)
Link(c) ==
  /\ at[c].step = "link"
  /\ EnterThen(c, at[c].addr, "schema")
  /\ UNCHANGED <<openMutex, list, handle>>

Opened(c) ==
  /\ at[c].step = "schema"
  /\ wantToLock' = [wantToLock EXCEPT ![c][at[c].addr] = 0]
  /\ unlockBtreeMutexes(c, {at[c].addr})
  /\ openMutex' = NoConn
  /\ at' = [at EXCEPT ![c] = Idle]
  /\ UNCHANGED <<list, handle>>

-----------------------------------------------------------------------------
(* sqlite3BtreeClose: the transaction is rolled back under the mutex, ...  *)
Close(c, a) ==
  /\ at[c].step = "idle" /\ a \in handle[c] /\ wantToLock[c][a] = 0
  /\ EnterThen(c, a, "close")
  /\ UNCHANGED <<openMutex, list, handle>>

Closing(c) ==
  /\ at[c].step = "close"
  /\ wantToLock' = [wantToLock EXCEPT ![c][at[c].addr] = 0]
  /\ unlockBtreeMutexes(c, {at[c].addr})
  /\ at' = [at EXCEPT ![c].step = "unref"]
  /\ UNCHANGED <<openMutex, list, handle>>

(* ... and then removeFromSharingList may free the BtShared.               *)
Unref(c) ==
  /\ at[c].step = "unref"
  /\ LET a == at[c].addr
     IN  /\ nRef' = [nRef EXCEPT ![a] = @ - 1]
         /\ cache' = IF nRef[a] <= 1 THEN [cache EXCEPT ![a] = NoFile] ELSE cache
         /\ handle' = [handle EXCEPT ![c] = @ \ {a}]
  /\ at' = [at EXCEPT ![c] = Idle]
  /\ UNCHANGED <<openMutex, mutex, wantToLock, locked>>

MutexStep(c) ==
  \/ Obtain(c) \/ Relock(c)
  \/ \E a \in Addr : Enter(c, a) \/ Leave(c, a) \/ Close(c, a)
  \/ \E f \in File : Open(c, f)
  \/ OpenMutex(c) \/ Find(c) \/ Create(c) \/ Link(c) \/ Opened(c)
  \/ Unref(c)

BtMutexNext == \E c \in Conn : MutexStep(c) \/ Closing(c)

BtMutexSpec == BtMutexInit /\ [][BtMutexNext]_mutexVars

-----------------------------------------------------------------------------
(* The mutex that a connection is waiting for; MUTEX_STATIC_OPEN is 0.     *)
Waiting(c) == at[c].step \in {"open", "wait", "relock"}

Awaited(c) ==
  CASE at[c].step = "open"   -> 0
    [] at[c].step = "relock" -> CHOOSE b \in at[c].todo : \A d \in at[c].todo : b <= d
    [] OTHER                 -> at[c].addr

Holder(m) == IF m = 0 THEN openMutex ELSE mutex[m]

(* "To avoid deadlocks": no set of connections waits for one another's     *)
(* mutexes, whatever order statements take them in.                        *)
NoDeadlock ==
  \A S \in SUBSET Conn :
    S # {} => \E c \in S : ~(Waiting(c) /\ Holder(Awaited(c)) \in S)

(* "Prevents a race condition. Ticket #3537": threads that open a file at  *)
(* the same time come to share one BtShared, and a BtShared that is freed  *)
(* is no connection's any more.                                            *)
OneCache ==
  /\ \A a, b \in Addr : cache[a] = cache[b] /\ cache[a] # NoFile => a = b
  /\ \A a \in Addr : nRef[a] = Cardinality({c \in Conn : a \in handle[c]})
  /\ \A c \in Conn : \A a \in handle[c] : cache[a] # NoFile

(* Between two calls a connection holds the mutexes it has entered, those  *)
(* too that it let go of while it waited for another, and nobody else      *)
(* takes itself for their holder.                                          *)
HoldsWhatItEntered ==
  \A c \in Conn : \A a \in Addr :
    /\ a \in locked[c] <=> mutex[a] = c
    /\ at[c].step = "idle" /\ wantToLock[c][a] > 0 => a \in locked[c]

=============================================================================
