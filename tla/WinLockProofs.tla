---------------------------- MODULE WinLockProofs ----------------------------
EXTENDS WinLock, TLAPS

(* While p is at these places of winLock or winUnlock it ...               *)
Holding    == {"idle", "unExclusive"}                  \* still has EXCLUSIVE
Announced  == {"idle", "reserve", "pending", "drop", "exclusive", "reread",
               "unExclusive", "unReread", "unReserve"} \* still has RESERVED

(* Where a connection can be, given the level it has and the one it wants. *)
PcInv ==
  \A p \in Conn :
    /\ pc[p] \in {"read", "unpend"} =>
         locktype[p] = NO_LOCK /\ want[p] = SHARED_LOCK /\ pendingByte = p
    /\ pc[p] = "pending" =>
         \/ locktype[p] = NO_LOCK /\ want[p] = SHARED_LOCK
         \/ locktype[p] = RESERVED_LOCK /\ want[p] = EXCLUSIVE_LOCK
    /\ pc[p] = "reserve" => locktype[p] = SHARED_LOCK
    /\ pc[p] \in {"drop", "exclusive", "reread"} =>
         locktype[p] \in SHARED_LOCK .. PENDING_LOCK
    /\ pc[p] = "probe" => locktype[p] < RESERVED_LOCK
    /\ pc[p] \in {"unExclusive", "unReread"} => locktype[p] = EXCLUSIVE_LOCK
    /\ pc[p] = "unReserve" => locktype[p] >= RESERVED_LOCK
    /\ pc[p] = "unPending" => locktype[p] >= PENDING_LOCK
    /\ pc[p] \in UnlockPc => want[p] \in {NO_LOCK, SHARED_LOCK}
    /\ pc[p] = "unReread" => want[p] = SHARED_LOCK
    /\ pc[p] = "unRead" => want[p] = NO_LOCK

(* Who has the range, and that it is never both shared and owned.          *)
RangeInv ==
  /\ rangeOwner # NoConn =>
       /\ readers = {}
       /\ locktype[rangeOwner] = EXCLUSIVE_LOCK
       /\ pc[rangeOwner] \in Holding
  /\ \A p \in Conn :
       locktype[p] = EXCLUSIVE_LOCK /\ pc[p] \in Holding => rangeOwner = p

(* A connection at RESERVED_LOCK owns the RESERVED byte until it unlocks.  *)
ReservedInv ==
  \A p \in Conn :
    locktype[p] = RESERVED_LOCK /\ pc[p] \in Announced => reservedByte = p

(* Everything that is locked belongs to a connection that knows it.        *)
OwnerInv ==
  \A p \in Conn :
    /\ p \in readers =>
         /\ locktype[p] >= SHARED_LOCK \/ pc[p] = "unpend"
         /\ pc[p] = "unPending" => want[p] = SHARED_LOCK
    /\ pendingByte = p =>
         \/ locktype[p] >= PENDING_LOCK
         \/ pc[p] \in {"read", "unpend", "drop", "exclusive", "reread"}
    /\ reservedByte = p =>
         locktype[p] >= RESERVED_LOCK /\ pc[p] \notin {"unRead", "unPending"}
    /\ p \in probes => pc[p] = "probe"

LockInv == TypeOK /\ PcInv /\ RangeInv /\ ReservedInv /\ OwnerInv

-----------------------------------------------------------------------------
LEMMA InitLockInv == Init => LockInv
  BY ConnAssumption
  DEF Init, LockInv, TypeOK, PcInv, RangeInv, ReservedInv, OwnerInv, LockType, Pc,
      Holding, Announced, UnlockPc, LockPc, NO_LOCK, SHARED_LOCK, RESERVED_LOCK,
      PENDING_LOCK, EXCLUSIVE_LOCK

(* One step per action.  The definitions every action needs   *)
(* are those of the levels, the places and the invariant itself.           *)
LEMMA StepLockInv == LockInv /\ [Next]_vars => LockInv'
<1> SUFFICES ASSUME LockInv, [Next]_vars PROVE LockInv'
  OBVIOUS
<1> USE ConnAssumption
    DEF LockInv, TypeOK, PcInv, RangeInv, ReservedInv, OwnerInv, LockType, Pc, Holding,
        Announced, UnlockPc, LockPc, Goto, Return, bytes, NO_LOCK, SHARED_LOCK,
        RESERVED_LOCK, PENDING_LOCK, EXCLUSIVE_LOCK
<1>1. ASSUME NEW p \in Conn, NEW t \in LockType, Lock(p, t) PROVE LockInv'
  BY <1>1 DEF Lock
<1>2. ASSUME NEW p \in Conn, NEW t \in LockType, Unlock(p, t) PROVE LockInv'
  BY <1>2 DEF Unlock
<1>3. ASSUME NEW p \in Conn, ProbeReserved(p) PROVE LockInv'
  BY <1>3 DEF ProbeReserved
<1>4. ASSUME NEW p \in Conn, Continue(p) PROVE LockInv'
  <2>1. CASE LockPending(p)
    BY <2>1 DEF LockPending
  <2>2. CASE LockRead(p)
    BY <2>2 DEF LockRead
  <2>3. CASE Unpend(p)
    BY <2>3 DEF Unpend
  <2>4. CASE LockReserved(p)
    BY <2>4 DEF LockReserved
  <2>5. CASE DropRead(p)
    BY <2>5 DEF DropRead
  <2>6. CASE LockExclusive(p)
    BY <2>6 DEF LockExclusive
  <2>7. CASE Reread(p)
    BY <2>7 DEF Reread
  <2>8. CASE UnlockExclusive(p)
    BY <2>8 DEF UnlockExclusive
  <2>9. CASE UnlockReread(p)
    BY <2>9 DEF UnlockReread
  <2>10. CASE UnlockReserved(p)
    BY <2>10 DEF UnlockReserved
  <2>11. CASE UnlockRead(p)
    BY <2>11 DEF UnlockRead
  <2>12. CASE UnlockPending(p)
    BY <2>12 DEF UnlockPending
  <2>13. CASE EndProbe(p)
    BY <2>13 DEF EndProbe
  <2>14. QED
    BY <1>4, <2>1, <2>2, <2>3, <2>4, <2>5, <2>6, <2>7, <2>8, <2>9, <2>10,
       <2>11, <2>12, <2>13 DEF Continue
<1>5. ASSUME NEW p \in Conn, Crash(p) PROVE LockInv'
  BY <1>5 DEF Crash
<1>6. CASE UNCHANGED vars
  BY <1>6 DEF vars
<1>7. QED
  BY <1>1, <1>2, <1>3, <1>4, <1>5, <1>6 DEF Next, Step

(* Every reachable state satisfies the strengthened invariant.             *)
THEOREM LockInvariant == Spec => []LockInv
<1>1. Init => LockInv
  BY InitLockInv
<1>2. LockInv /\ [Next]_vars => LockInv'
  BY StepLockInv
<1>3. QED
  BY <1>1, <1>2, PTL DEF Spec

(* The levels, the bytes and the places of the calls stay within their     *)
(* types for any set of connections.                                       *)
THEOREM TypeCorrect == Spec => []TypeOK
<1>1. LockInv => TypeOK
  BY DEF LockInv
<1>2. QED
  BY <1>1, LockInvariant, PTL

(* winLock never gives EXCLUSIVE_LOCK to a connection while another one    *)
(* has it or has its read lock in place, however the upgrades are mixed.   *)
THEOREM MutualExclusion == Spec => []Exclusion
<1>1. LockInv => Exclusion
  BY ConnAssumption DEF LockInv, TypeOK, RangeInv, Exclusion, Holding
<1>2. QED
  BY <1>1, LockInvariant, PTL

(* At most one connection is at RESERVED_LOCK.                             *)
THEOREM SingleWriter == Spec => []OneReserved
<1>1. LockInv => OneReserved
  <2> SUFFICES ASSUME LockInv, NEW p \in Conn, NEW q \in Conn, p # q,
                      locktype[p] = RESERVED_LOCK, locktype[q] = RESERVED_LOCK
               PROVE "unRead" \in {pc[p], pc[q]}
    BY DEF OneReserved
  <2>1. pc[p] \in Announced \cup {"unRead"}
    BY DEF LockInv, TypeOK, PcInv, Pc, LockPc, UnlockPc, Announced, NO_LOCK,
           SHARED_LOCK, RESERVED_LOCK, PENDING_LOCK
  <2>2. pc[q] \in Announced \cup {"unRead"}
    BY DEF LockInv, TypeOK, PcInv, Pc, LockPc, UnlockPc, Announced, NO_LOCK,
           SHARED_LOCK, RESERVED_LOCK, PENDING_LOCK
  <2>3. QED
    BY <2>1, <2>2 DEF LockInv, ReservedInv
<1>2. QED
  BY <1>1, LockInvariant, PTL

(* winUnlock and failed calls leave no lock behind on the file.            *)
THEOREM NoLockLeaks == Spec => []NothingLeaks
<1>1. LockInv => NothingLeaks
  BY ConnAssumption
  DEF LockInv, TypeOK, RangeInv, OwnerInv, NothingLeaks, LockType, NO_LOCK,
      SHARED_LOCK, RESERVED_LOCK, PENDING_LOCK, EXCLUSIVE_LOCK
<1>2. QED
  BY <1>1, LockInvariant, PTL

-----------------------------------------------------------------------------
(* The calls of winLock and winUnlock implement the lock that their        *)
(* callers see.                                                            *)
LEMMA InitRefines == Init => L!LockInit
  BY DEF Init, L!LockInit, PendingHolder, Converting

LEMMA StepRefines == LockInv /\ [Next]_vars => [L!LockNext]_(L!lockVars)
<1> SUFFICES ASSUME LockInv, [Next]_vars PROVE [L!LockNext]_(L!lockVars)
  OBVIOUS
<1> USE ConnAssumption
    DEF LockInv, TypeOK, PcInv, RangeInv, ReservedInv, OwnerInv, LockType, Pc,
        Holding, Announced, UnlockPc, LockPc, Goto, Return, bytes, NO_LOCK,
        SHARED_LOCK, RESERVED_LOCK, PENDING_LOCK, EXCLUSIVE_LOCK,
        PendingHolder, Converting, L!lockVars
<1>1. ASSUME NEW p \in Conn, NEW t \in LockType, Lock(p, t)
      PROVE UNCHANGED L!lockVars
  BY <1>1 DEF Lock
<1>2. ASSUME NEW p \in Conn, NEW t \in LockType, Unlock(p, t)
      PROVE UNCHANGED L!lockVars
  BY <1>2 DEF Unlock
<1>3. ASSUME NEW p \in Conn, ProbeReserved(p) PROVE UNCHANGED L!lockVars
  BY <1>3 DEF ProbeReserved
<1>4. ASSUME NEW p \in Conn, Continue(p)
      PROVE L!LockStep(p) \/ UNCHANGED L!lockVars
  <2>1. CASE LockPending(p)
    <3>1. L!AcquirePending(p) \/ UNCHANGED L!lockVars
      BY <2>1 DEF LockPending, L!AcquirePending
    <3>2. QED
      BY <3>1 DEF L!LockStep
  <2>2. CASE LockRead(p)
    <3>1. L!AcquireShared(p) \/ UNCHANGED L!lockVars
      BY <2>2 DEF LockRead, L!AcquireShared
    <3>2. QED
      BY <3>1 DEF L!LockStep
  <2>3. CASE Unpend(p)
    BY <2>3 DEF Unpend
  <2>4. CASE LockReserved(p)
    <3>1. L!AcquireReserved(p) \/ UNCHANGED L!lockVars
      BY <2>4 DEF LockReserved, L!AcquireReserved
    <3>2. QED
      BY <3>1 DEF L!LockStep
  <2>5. CASE DropRead(p)
    <3>1. L!DropRead(p)
      BY <2>5 DEF DropRead, L!DropRead
    <3>2. QED
      BY <3>1 DEF L!LockStep
  <2>6. CASE LockExclusive(p)
    <3>1. L!AcquireExclusive(p) \/ UNCHANGED L!lockVars
      BY <2>6 DEF LockExclusive, L!AcquireExclusive
    <3>2. QED
      BY <3>1 DEF L!LockStep
  <2>7. CASE Reread(p)
    <3>1. L!RegainRead(p) \/ L!LoseRead(p)
      BY <2>7 DEF Reread, L!RegainRead, L!LoseRead
    <3>2. QED
      BY <3>1 DEF L!LockStep
  <2>8. CASE UnlockExclusive(p)
    <3>1. L!DropExclusive(p) \/ L!Release(p)
      BY <2>8 DEF UnlockExclusive, L!DropExclusive, L!Release
    <3>2. QED
      BY <3>1 DEF L!LockStep
  <2>9. CASE UnlockReread(p)
    <3>1. L!RegainRead(p) \/ L!LoseRead(p)
      BY <2>9 DEF UnlockReread, L!RegainRead, L!LoseRead
    <3>2. QED
      BY <3>1 DEF L!LockStep
  <2>10. CASE UnlockReserved(p)
    <3>1. L!Release(p)
      BY <2>10 DEF UnlockReserved, L!Release
    <3>2. QED
      BY <3>1 DEF L!LockStep
  <2>11. CASE UnlockRead(p)
    <3>1. L!Release(p)
      BY <2>11 DEF UnlockRead, L!Release
    <3>2. QED
      BY <3>1 DEF L!LockStep
  <2>12. CASE UnlockPending(p)
    <3>1. L!Release(p)
      BY <2>12 DEF UnlockPending, L!Release
    <3>2. QED
      BY <3>1 DEF L!LockStep
  <2>13. CASE EndProbe(p)
    BY <2>13 DEF EndProbe
  <2>14. QED
    BY <1>4, <2>1, <2>2, <2>3, <2>4, <2>5, <2>6, <2>7, <2>8, <2>9, <2>10,
       <2>11, <2>12, <2>13 DEF Continue
<1>5. ASSUME NEW p \in Conn, Crash(p) PROVE L!LockStep(p)
  <2>1. L!Release(p)
    BY <1>5 DEF Crash, L!Release
  <2>2. QED
    BY <2>1 DEF L!LockStep
<1>6. CASE UNCHANGED vars
  BY <1>6 DEF vars
<1>7. QED
  BY <1>1, <1>2, <1>3, <1>4, <1>5, <1>6 DEF Next, Step, L!LockNext

(* winLock and winUnlock, call by call, do nothing to the lock that        *)
(* FileLock does not allow: the contract Pager is built on.                *)
THEOREM Refinement == Spec => FileLockSpec
<1>1. Init => L!LockInit
  BY InitRefines
<1>2. LockInv /\ [Next]_vars => [L!LockNext]_(L!lockVars)
  BY StepRefines
<1>3. QED
  BY <1>1, <1>2, LockInvariant, PTL DEF Spec, FileLockSpec, L!LockSpec

-----------------------------------------------------------------------------
(* When no connection converts SHARED_LOCK to EXCLUSIVE_LOCK directly, the *)
(* lock is the one os.h describes.  The argument: from the moment it gives *)
(* up the range until it has released it again, a connection owns the      *)
(* PENDING and the RESERVED byte, and there is only one such connection.   *)
PathInv ==
  \A p \in Conn :
    /\ pc[p] \in {"drop", "exclusive", "reread"} =>
         pendingByte = p /\ reservedByte = p /\ want[p] = EXCLUSIVE_LOCK
    /\ locktype[p] >= PENDING_LOCK => pendingByte = p
    /\ locktype[p] >= RESERVED_LOCK /\ pc[p] \notin {"unRead", "unPending"} =>
         reservedByte = p
    /\ /\ locktype[p] \in SHARED_LOCK .. PENDING_LOCK
       /\ pc[p] \notin {"exclusive", "reread", "unPending"}
       => p \in readers
    /\ /\ locktype[p] >= SHARED_LOCK
       /\ want[p] = SHARED_LOCK
       /\ pc[p] \in {"unReserve", "unPending"}
       => p \in readers

LEMMA InitPathInv == Init => PathInv
<1> SUFFICES ASSUME Init PROVE PathInv
  OBVIOUS
<1>1. ASSUME NEW p \in Conn PROVE pc[p] = "idle" /\ locktype[p] = 0
  BY DEF Init, NO_LOCK
<1>2. ~(0 >= 3) /\ ~(0 >= 2) /\ ~(0 >= 1) /\ 0 \notin 1 .. 3
  OBVIOUS
<1>3. QED
  BY <1>1, <1>2 DEF PathInv, SHARED_LOCK, RESERVED_LOCK, PENDING_LOCK

LEMMA StepPathInv ==
  Direct = {} /\ LockInv /\ PathInv /\ [Next]_vars => PathInv'
<1> SUFFICES ASSUME Direct = {}, LockInv, PathInv, [Next]_vars PROVE PathInv'
  OBVIOUS
<1> USE ConnAssumption
    DEF LockInv, TypeOK, PcInv, RangeInv, ReservedInv, OwnerInv, PathInv,
        LockType, Pc, Holding, Announced, UnlockPc, LockPc, Goto, Return, bytes,
        NO_LOCK, SHARED_LOCK, RESERVED_LOCK, PENDING_LOCK, EXCLUSIVE_LOCK
<1>1. ASSUME NEW p \in Conn, NEW t \in LockType, Lock(p, t) PROVE PathInv'
  BY <1>1 DEF Lock
<1>2. ASSUME NEW p \in Conn, NEW t \in LockType, Unlock(p, t) PROVE PathInv'
  BY <1>2 DEF Unlock
<1>3. ASSUME NEW p \in Conn, ProbeReserved(p) PROVE PathInv'
  BY <1>3 DEF ProbeReserved
<1>4. ASSUME NEW p \in Conn, Continue(p) PROVE PathInv'
  <2>1. CASE LockPending(p)
    BY <2>1 DEF LockPending
  <2>2. CASE LockRead(p)
    BY <2>2 DEF LockRead
  <2>3. CASE Unpend(p)
    BY <2>3 DEF Unpend
  <2>4. CASE LockReserved(p)
    BY <2>4 DEF LockReserved
  <2>5. CASE DropRead(p)
    BY <2>5 DEF DropRead
  <2>6. CASE LockExclusive(p)
    BY <2>6 DEF LockExclusive
  <2>7. CASE Reread(p)
    BY <2>7 DEF Reread
  <2>8. CASE UnlockExclusive(p)
    BY <2>8 DEF UnlockExclusive
  <2>9. CASE UnlockReread(p)
    BY <2>9 DEF UnlockReread
  <2>10. CASE UnlockReserved(p)
    BY <2>10 DEF UnlockReserved
  <2>11. CASE UnlockRead(p)
    BY <2>11 DEF UnlockRead
  <2>12. CASE UnlockPending(p)
    BY <2>12 DEF UnlockPending
  <2>13. CASE EndProbe(p)
    BY <2>13 DEF EndProbe
  <2>14. QED
    BY <1>4, <2>1, <2>2, <2>3, <2>4, <2>5, <2>6, <2>7, <2>8, <2>9, <2>10,
       <2>11, <2>12, <2>13 DEF Continue
<1>5. ASSUME NEW p \in Conn, Crash(p) PROVE PathInv'
  BY <1>5 DEF Crash
<1>6. CASE UNCHANGED vars
  BY <1>6 DEF vars
<1>7. QED
  BY <1>1, <1>2, <1>3, <1>4, <1>5, <1>6 DEF Next, Step

LEMMA PathInvariant == Direct = {} => (Spec => []PathInv)
<1> SUFFICES ASSUME Direct = {} PROVE Spec => []PathInv
  OBVIOUS
<1>1. Init => PathInv
  BY InitPathInv
<1>2. LockInv /\ PathInv /\ [Next]_vars => PathInv'
  BY StepPathInv
<1>3. QED
  BY <1>1, <1>2, LockInvariant, PTL DEF Spec

(* os.h: "An EXCLUSIVE lock precludes all other locks", on the write path. *)
THEOREM WritePathExclusive == Direct = {} => (Spec => []ExclusivePrecludes)
<1> SUFFICES ASSUME Direct = {} PROVE Spec => []ExclusivePrecludes
  OBVIOUS
<1>1. LockInv /\ PathInv => ExclusivePrecludes
  BY ConnAssumption
  DEF LockInv, TypeOK, RangeInv, PathInv, ExclusivePrecludes, Holding, LockType,
      NO_LOCK, SHARED_LOCK, RESERVED_LOCK, PENDING_LOCK, EXCLUSIVE_LOCK
<1>2. QED
  BY <1>1, LockInvariant, PathInvariant, PTL

(* A recorded level is a lock that is held, on the write path.             *)
THEOREM WritePathReads == Direct = {} => (Spec => []ReadLockInPlace)
<1> SUFFICES ASSUME Direct = {} PROVE Spec => []ReadLockInPlace
  OBVIOUS
<1>1. PathInv => ReadLockInPlace
  BY DEF PathInv, ReadLockInPlace
<1>2. QED
  BY <1>1, PathInvariant, PTL

(* os.h: a PENDING lock lets no new reader in, on the write path.          *)
THEOREM WritePathPending == Direct = {} => (Spec => PendingBlocksReaders)
<1> SUFFICES ASSUME Direct = {} PROVE Spec => PendingBlocksReaders
  OBVIOUS
<1> DEFINE Blocks ==
      \A p, q \in Conn :
        p # q /\ locktype[p] >= PENDING_LOCK /\ locktype'[p] >= PENDING_LOCK
        => ~(locktype[q] = NO_LOCK /\ locktype'[q] = SHARED_LOCK)
<1>1. LockInv /\ PathInv /\ [Next]_vars => [Blocks]_vars
  <2> SUFFICES ASSUME LockInv, PathInv, [Next]_vars,
                      NEW p \in Conn, NEW q \in Conn, p # q,
                      locktype[p] >= PENDING_LOCK,
                      locktype[q] = NO_LOCK, locktype'[q] = SHARED_LOCK
               PROVE FALSE
    OBVIOUS
  <2> USE DEF LockInv, TypeOK, PcInv, PathInv, LockType, Goto, Return, UnlockPc,
              bytes, NO_LOCK, SHARED_LOCK, RESERVED_LOCK, PENDING_LOCK,
              EXCLUSIVE_LOCK
  <2>1. pendingByte = p /\ pc[q] # "unpend"
    OBVIOUS
  <2>2. PICK r \in Conn : Step(r)
    BY DEF Next, vars
  <2>3. ASSUME NEW t \in LockType, Lock(r, t) \/ Unlock(r, t) PROVE FALSE
    BY <2>3 DEF Lock, Unlock
  <2>4. CASE ProbeReserved(r) \/ Crash(r)
    BY <2>4 DEF ProbeReserved, Crash
  <2>5. CASE LockPending(r) \/ LockRead(r) \/ DropRead(r) \/ LockExclusive(r)
             \/ Reread(r)
    BY <2>5 DEF LockPending, LockRead, DropRead, LockExclusive, Reread
  <2>6. CASE Unpend(r)
    BY <2>1, <2>6 DEF Unpend
  <2>7. CASE LockReserved(r)
    BY <2>7 DEF LockReserved
  <2>8. CASE UnlockExclusive(r) \/ UnlockReread(r) \/ UnlockReserved(r)
             \/ UnlockRead(r) \/ UnlockPending(r) \/ EndProbe(r)
    BY <2>8 DEF UnlockExclusive, UnlockReread, UnlockReserved, UnlockRead,
                UnlockPending, EndProbe
  <2>9. QED
    BY <2>2, <2>3, <2>4, <2>5, <2>6, <2>7, <2>8 DEF Step, Continue
<1>2. QED
  BY <1>1, LockInvariant, PathInvariant, PTL DEF Spec, PendingBlocksReaders

=============================================================================
