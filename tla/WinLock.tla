------------------------------- MODULE WinLock -------------------------------
(***************************************************************************)
(* The database file lock of the Windows VFS: winLock, winUnlock and       *)
(* winCheckReservedLock, one action per LockFileEx or UnlockFileEx call.   *)
(* Connections run in different processes or threads and interleave        *)
(* between any two of those calls.                                         *)
(*                                                                         *)
(* The file has three lockable places past the 1 GiB mark: the PENDING     *)
(* byte, the RESERVED byte and the range of 510 bytes that readers share.  *)
(* An exclusive lock fails when any handle, even the caller's, has a lock  *)
(* on the place; a shared lock fails when some handle has it exclusively.  *)
(***************************************************************************)
EXTENDS Integers

CONSTANTS
  Conn,      \* connections (winFile objects)
  NoConn,    \* the owner of a place nobody has locked
  Direct,    \* connections that may ask for EXCLUSIVE_LOCK straight from
             \* SHARED_LOCK, as the pager does to roll back a hot journal
  RdOnly     \* connections whose handle has WINFILE_RDONLY

ASSUME ConnAssumption ==
  /\ NoConn \notin Conn
  /\ Direct \subseteq Conn
  /\ RdOnly \subseteq Conn

NO_LOCK        == 0
SHARED_LOCK    == 1
RESERVED_LOCK  == 2
PENDING_LOCK   == 3
EXCLUSIVE_LOCK == 4
LockType       == NO_LOCK .. EXCLUSIVE_LOCK

VARIABLES
  pendingByte,   \* owner of the PENDING byte
  reservedByte,  \* exclusive owner of the RESERVED byte
  probes,        \* connections that hold the RESERVED byte shared
  readers,       \* connections that hold the shared range shared
  rangeOwner,    \* the connection that holds the shared range exclusively
  locktype,      \* winFile.locktype of each connection
  want,          \* the level the call in progress was asked for
  pc             \* where each connection is in winLock or winUnlock

bytes == <<pendingByte, reservedByte, probes, readers, rangeOwner>>
vars  == <<pendingByte, reservedByte, probes, readers, rangeOwner,
           locktype, want, pc>>

LockPc   == {"pending", "read", "unpend", "reserve", "drop", "exclusive", "reread"}
UnlockPc == {"unExclusive", "unReread", "unReserve", "unRead", "unPending"}
Pc       == {"idle", "probe"} \cup LockPc \cup UnlockPc

TypeOK ==
  /\ pendingByte \in Conn \cup {NoConn}
  /\ reservedByte \in Conn \cup {NoConn}
  /\ probes \subseteq Conn
  /\ readers \subseteq Conn
  /\ rangeOwner \in Conn \cup {NoConn}
  /\ locktype \in [Conn -> LockType]
  /\ want \in [Conn -> LockType]
  /\ pc \in [Conn -> Pc]

Init ==
  /\ pendingByte = NoConn
  /\ reservedByte = NoConn
  /\ probes = {}
  /\ readers = {}
  /\ rangeOwner = NoConn
  /\ locktype = [p \in Conn |-> NO_LOCK]
  /\ want = [p \in Conn |-> NO_LOCK]
  /\ pc = [p \in Conn |-> "idle"]

Goto(p, label) == pc' = [pc EXCEPT ![p] = label]

(* A call returns, having recorded level t in winFile.locktype.            *)
Return(p, t) ==
  /\ locktype' = [locktype EXCEPT ![p] = t]
  /\ Goto(p, "idle")

-----------------------------------------------------------------------------
(* winLock: the checks before the first LockFileEx.  A request for a level *)
(* already held, or a write lock on a read-only handle, changes nothing.   *)
(* The assertions of the code are what callers respect.                    *)
Lock(p, t) ==
  /\ pc[p] = "idle"
  /\ t > locktype[p]
  /\ ~(p \in RdOnly /\ t >= RESERVED_LOCK)
  /\ locktype[p] # NO_LOCK \/ t = SHARED_LOCK
  /\ t # PENDING_LOCK
  /\ t = RESERVED_LOCK => locktype[p] = SHARED_LOCK
  /\ t = EXCLUSIVE_LOCK /\ locktype[p] = SHARED_LOCK => p \in Direct
  /\ want' = [want EXCEPT ![p] = t]
  /\ Goto(p, IF \/ locktype[p] = NO_LOCK
                \/ t = EXCLUSIVE_LOCK /\ locktype[p] = RESERVED_LOCK
             THEN "pending"
             ELSE IF t = RESERVED_LOCK THEN "reserve" ELSE "drop")
  /\ UNCHANGED <<bytes, locktype>>

(* Mutant: readers do not look at the PENDING byte.                        *)
LockPendingReadersSkip(p) ==
  /\ pc[p] = "pending"
  /\ IF want[p] = SHARED_LOCK THEN Goto(p, "read") /\ UNCHANGED pendingByte
     ELSE IF pendingByte = NoConn THEN pendingByte' = p /\ Goto(p, "drop")
     ELSE Goto(p, "idle") /\ UNCHANGED pendingByte
  /\ UNCHANGED <<reservedByte, probes, readers, rangeOwner, locktype, want>>

(* The PENDING byte: kept on the way to EXCLUSIVE, and only for the time   *)
(* of the call on the way to SHARED.  The last of three attempts decides.  *)
LockPending(p) ==
  /\ pc[p] = "pending"
  /\ IF pendingByte = NoConn
     THEN /\ pendingByte' = p
          /\ Goto(p, IF want[p] = SHARED_LOCK THEN "read" ELSE "drop")
     ELSE /\ Goto(p, "idle")
          /\ UNCHANGED pendingByte
  /\ UNCHANGED <<reservedByte, probes, readers, rangeOwner, locktype, want>>

(* winGetReadLock on the way to SHARED_LOCK.                               *)
LockRead(p) ==
  /\ pc[p] = "read"
  /\ readers' = IF rangeOwner = NoConn THEN readers \cup {p} ELSE readers
  /\ Goto(p, "unpend")
  /\ UNCHANGED <<pendingByte, reservedByte, probes, rangeOwner, locktype, want>>

(* The temporary PENDING lock is released and the call returns.            *)
Unpend(p) ==
  /\ pc[p] = "unpend"
  /\ pendingByte' = NoConn
  /\ Return(p, IF p \in readers THEN SHARED_LOCK ELSE locktype[p])
  /\ UNCHANGED <<reservedByte, probes, readers, rangeOwner, want>>

(* Mutant: the result of the lock on the RESERVED byte is ignored.         *)
LockReservedUnchecked(p) ==
  /\ pc[p] = "reserve"
  /\ reservedByte' = IF reservedByte = NoConn THEN p ELSE reservedByte
  /\ Return(p, RESERVED_LOCK)
  /\ UNCHANGED <<pendingByte, probes, readers, rangeOwner, want>>

LockReserved(p) ==
  /\ pc[p] = "reserve"
  /\ IF reservedByte = NoConn /\ probes = {}
     THEN /\ reservedByte' = p
          /\ Return(p, RESERVED_LOCK)
     ELSE /\ Return(p, locktype[p])
          /\ UNCHANGED reservedByte
  /\ UNCHANGED <<pendingByte, probes, readers, rangeOwner, want>>

(* Mutant: the range is expected to be convertible.                        *)
DropReadKept(p) ==
  /\ pc[p] = "drop"
  /\ Goto(p, "exclusive")
  /\ UNCHANGED <<bytes, locktype, want>>

(* winUnlockReadLock: the range cannot be converted, only given up.        *)
DropRead(p) ==
  /\ pc[p] = "drop"
  /\ readers' = readers \ {p}
  /\ Goto(p, "exclusive")
  /\ UNCHANGED <<pendingByte, reservedByte, probes, rangeOwner, locktype, want>>

(* Mutant: one byte of the range is locked, where readers lock another.    *)
LockExclusiveOneByte(p) ==
  /\ pc[p] = "exclusive"
  /\ IF rangeOwner = NoConn
     THEN rangeOwner' = p /\ Return(p, EXCLUSIVE_LOCK)
     ELSE Goto(p, "reread") /\ UNCHANGED <<rangeOwner, locktype>>
  /\ UNCHANGED <<pendingByte, reservedByte, probes, readers, want>>

LockExclusive(p) ==
  /\ pc[p] = "exclusive"
  /\ IF readers = {} /\ rangeOwner = NoConn
     THEN /\ rangeOwner' = p
          /\ Return(p, EXCLUSIVE_LOCK)
     ELSE /\ Goto(p, "reread")
          /\ UNCHANGED <<rangeOwner, locktype>>
  /\ UNCHANGED <<pendingByte, reservedByte, probes, readers, want>>

(* Mutant: a failed upgrade does not ask for the read lock again.          *)
RereadForgotten(p) ==
  /\ pc[p] = "reread"
  /\ Return(p, PENDING_LOCK)
  /\ UNCHANGED <<bytes, want>>

(* The upgrade failed: ask for the read lock again, ignore whether it is   *)
(* granted, and record PENDING_LOCK, whoever owns the PENDING byte.        *)
Reread(p) ==
  /\ pc[p] = "reread"
  /\ readers' = IF rangeOwner = NoConn THEN readers \cup {p} ELSE readers
  /\ Return(p, PENDING_LOCK)
  /\ UNCHANGED <<pendingByte, reservedByte, probes, rangeOwner, want>>

-----------------------------------------------------------------------------
(* winUnlock(NO_LOCK or SHARED_LOCK).                                      *)
Unlock(p, t) ==
  /\ pc[p] = "idle"
  /\ t \in {NO_LOCK, SHARED_LOCK}
  /\ t < locktype[p]
  /\ want' = [want EXCEPT ![p] = t]
  /\ Goto(p, IF locktype[p] = EXCLUSIVE_LOCK THEN "unExclusive"
             ELSE IF locktype[p] >= RESERVED_LOCK THEN "unReserve" ELSE "unRead")
  /\ UNCHANGED <<bytes, locktype>>

UnlockExclusive(p) ==
  /\ pc[p] = "unExclusive"
  /\ rangeOwner' = IF rangeOwner = p THEN NoConn ELSE rangeOwner
  /\ Goto(p, IF want[p] = SHARED_LOCK THEN "unReread" ELSE "unReserve")
  /\ UNCHANGED <<pendingByte, reservedByte, probes, readers, locktype, want>>

(* "We should always be able to reacquire the read lock": when that fails  *)
(* the call goes on and returns SQLITE_IOERR_UNLOCK at the end.            *)
UnlockReread(p) ==
  /\ pc[p] = "unReread"
  /\ readers' = IF rangeOwner = NoConn THEN readers \cup {p} ELSE readers
  /\ Goto(p, "unReserve")
  /\ UNCHANGED <<pendingByte, reservedByte, probes, rangeOwner, locktype, want>>

UnlockReserved(p) ==
  /\ pc[p] = "unReserve"
  /\ reservedByte' = IF reservedByte = p THEN NoConn ELSE reservedByte
  /\ IF want[p] = SHARED_LOCK /\ locktype[p] < PENDING_LOCK
     THEN Return(p, SHARED_LOCK)
     ELSE /\ Goto(p, IF want[p] = NO_LOCK THEN "unRead" ELSE "unPending")
          /\ UNCHANGED locktype
  /\ UNCHANGED <<pendingByte, probes, readers, rangeOwner, want>>

(* Mutant: > for >= where the PENDING byte is released.                    *)
UnlockReadBoundary(p) ==
  /\ pc[p] = "unRead"
  /\ readers' = readers \ {p}
  /\ IF locktype[p] > PENDING_LOCK
     THEN Goto(p, "unPending") /\ UNCHANGED locktype
     ELSE Return(p, NO_LOCK)
  /\ UNCHANGED <<pendingByte, reservedByte, probes, rangeOwner, want>>

UnlockRead(p) ==
  /\ pc[p] = "unRead"
  /\ readers' = readers \ {p}
  /\ IF locktype[p] >= PENDING_LOCK
     THEN Goto(p, "unPending") /\ UNCHANGED locktype
     ELSE Return(p, NO_LOCK)
  /\ UNCHANGED <<pendingByte, reservedByte, probes, rangeOwner, want>>

(* Mutant: the level is decremented, and not set to what was asked for.    *)
UnlockPendingDecrements(p) ==
  /\ pc[p] = "unPending"
  /\ pendingByte' = IF pendingByte = p THEN NoConn ELSE pendingByte
  /\ Return(p, want[p] - 1)
  /\ UNCHANGED <<reservedByte, probes, readers, rangeOwner, want>>

(* Unlocking a PENDING byte that the handle does not own has no effect.    *)
UnlockPending(p) ==
  /\ pc[p] = "unPending"
  /\ pendingByte' = IF pendingByte = p THEN NoConn ELSE pendingByte
  /\ Return(p, want[p])
  /\ UNCHANGED <<reservedByte, probes, readers, rangeOwner, want>>

-----------------------------------------------------------------------------
(* winCheckReservedLock of a connection that has no write lock itself: a   *)
(* shared lock on the RESERVED byte, released at once.  Being shared, it   *)
(* does not make another connection's check see a writer.                  *)
ProbeReserved(p) ==
  /\ pc[p] = "idle"
  /\ locktype[p] < RESERVED_LOCK
  /\ reservedByte = NoConn
  /\ probes' = probes \cup {p}
  /\ Goto(p, "probe")
  /\ UNCHANGED <<pendingByte, reservedByte, readers, rangeOwner, locktype, want>>

EndProbe(p) ==
  /\ pc[p] = "probe"
  /\ probes' = probes \ {p}
  /\ Goto(p, "idle")
  /\ UNCHANGED <<pendingByte, reservedByte, readers, rangeOwner, locktype, want>>

(* The process dies or the handle is closed: the system drops its locks.   *)
Crash(p) ==
  /\ pc[p] # "idle" \/ locktype[p] # NO_LOCK
  /\ pendingByte' = IF pendingByte = p THEN NoConn ELSE pendingByte
  /\ reservedByte' = IF reservedByte = p THEN NoConn ELSE reservedByte
  /\ probes' = probes \ {p}
  /\ readers' = readers \ {p}
  /\ rangeOwner' = IF rangeOwner = p THEN NoConn ELSE rangeOwner
  /\ want' = [want EXCEPT ![p] = NO_LOCK]
  /\ Return(p, NO_LOCK)

(* The rest of a call that has started.                                    *)
Continue(p) ==
  \/ LockPending(p) \/ LockRead(p) \/ Unpend(p) \/ LockReserved(p)
  \/ DropRead(p) \/ LockExclusive(p) \/ Reread(p)
  \/ UnlockExclusive(p) \/ UnlockReread(p) \/ UnlockReserved(p)
  \/ UnlockRead(p) \/ UnlockPending(p)
  \/ EndProbe(p)

Step(p) ==
  \/ \E t \in LockType : Lock(p, t)
  \/ \E t \in LockType : Unlock(p, t)
  \/ ProbeReserved(p)
  \/ Continue(p)
  \/ Crash(p)

Next == \E p \in Conn : Step(p)

Spec == Init /\ [][Next]_vars

-----------------------------------------------------------------------------
(* Properties.                                                             *)

(* Whatever mixture of upgrades runs, a connection that winLock has told   *)
(* EXCLUSIVE_LOCK is alone: no other connection was told the same, and no  *)
(* other connection's read lock is in place.                               *)
Exclusion ==
  \A p, q \in Conn :
    /\ p # q
    /\ locktype[p] = EXCLUSIVE_LOCK
    /\ pc[p] = "idle"
    => /\ q \notin readers
       /\ ~(locktype[q] = EXCLUSIVE_LOCK /\ pc[q] = "idle")

(* Two connections are never both at RESERVED_LOCK, one of them not about  *)
(* to release it: there is one writer at a time.                           *)
OneReserved ==
  \A p, q \in Conn :
    p # q /\ locktype[p] = RESERVED_LOCK /\ locktype[q] = RESERVED_LOCK
    => "unRead" \in {pc[p], pc[q]}

(* os.h: "EXCLUSIVE: An EXCLUSIVE lock precludes all other locks."  Once   *)
(* the calls of both have returned, that is so as long as EXCLUSIVE_LOCK   *)
(* is only reached through RESERVED_LOCK.                                  *)
ExclusivePrecludes ==
  \A p, q \in Conn :
    p # q /\ locktype[p] = EXCLUSIVE_LOCK /\ pc[p] = "idle" /\ pc[q] = "idle"
    => locktype[q] = NO_LOCK

(* os.h: with a PENDING lock held, "Existing SHARED locks may persist, but *)
(* no new SHARED locks may be obtained by other processes."                *)
PendingBlocksReaders ==
  [][\A p, q \in Conn :
       p # q /\ locktype[p] >= PENDING_LOCK /\ locktype'[p] >= PENDING_LOCK
       => ~(locktype[q] = NO_LOCK /\ locktype'[q] = SHARED_LOCK)]_vars

(* A level that is recorded is a lock that is held: between calls, a       *)
(* connection at SHARED, RESERVED or PENDING has its read lock in place.   *)
(* winUnlock: "We should always be able to reacquire the read lock".       *)
ReadLockInPlace ==
  \A p \in Conn :
    pc[p] = "idle" /\ locktype[p] \in SHARED_LOCK .. PENDING_LOCK
    => p \in readers

(* No place of the file stays locked by a connection whose winFile says    *)
(* that it holds nothing: such a lock would never be released.             *)
NothingLeaks ==
  \A p \in Conn :
    pc[p] = "idle" /\ locktype[p] = NO_LOCK
    => p \notin readers \cup probes \cup {rangeOwner, reservedByte, pendingByte}

(* The purpose of PENDING_LOCK: a writer that keeps asking is not starved  *)
(* by readers that come and go.                                            *)
WriterNotStarved ==
  \A p \in Conn : locktype[p] = PENDING_LOCK ~> locktype[p] # PENDING_LOCK

(* Calls return, a busy handler keeps asking for EXCLUSIVE_LOCK, and each  *)
(* reader is done at some time.                                            *)
Fairness ==
  \A p \in Conn :
    /\ WF_vars(Continue(p))
    /\ SF_vars(Lock(p, EXCLUSIVE_LOCK))
    /\ SF_vars(locktype[p] = SHARED_LOCK /\ Unlock(p, NO_LOCK))

FairSpec == Spec /\ Fairness

(* The refinement: what callers of the VFS may rely on.  A PENDING byte    *)
(* taken on the way to SHARED_LOCK is not a PENDING lock, and a connection *)
(* between giving up the range and asking for it again is converting.      *)
PendingHolder ==
  IF pendingByte # NoConn /\ pc[pendingByte] \in {"read", "unpend"}
  THEN NoConn ELSE pendingByte

Converting == {p \in Conn : pc[p] \in {"exclusive", "reread", "unReread"}}

L == INSTANCE FileLock WITH
       shared <- readers, excl <- rangeOwner, reserved <- reservedByte,
       pending <- PendingHolder, converting <- Converting

FileLockSpec == L!LockSpec

=============================================================================
