------------------------------ MODULE FileLock ------------------------------
(***************************************************************************)
(* What sqlite3OsLock and sqlite3OsUnlock really grant on Windows, stated  *)
(* without the byte ranges they are built from: who may read the database  *)
(* file, who may write it, who is the next writer, and who is in the       *)
(* middle of a conversion and therefore protected by nothing.  WinLock     *)
(* implements this module and Pager is built on it.                        *)
(*                                                                         *)
(* The difference from the table of lock levels in os.h is `converting'.   *)
(* LockFileEx cannot turn a shared lock into an exclusive one, so winLock  *)
(* and winUnlock first give up the range and then ask for it again; in     *)
(* between, the connection holds no lock on the range at all.              *)
(***************************************************************************)
CONSTANTS
  Conn,     \* database connections: one open file handle each
  NoConn    \* the holder of a lock nobody holds

ASSUME NoConnAssumption == NoConn \notin Conn

VARIABLES
  shared,      \* connections whose read lock is in place
  excl,        \* the connection that owns the shared range exclusively
  reserved,    \* the connection that has announced that it will write
  pending,     \* the connection that keeps new readers out
  converting   \* connections between giving up the range and getting it back

lockVars == <<shared, excl, reserved, pending, converting>>

LockTypeOK ==
  /\ shared \subseteq Conn
  /\ excl \in Conn \cup {NoConn}
  /\ reserved \in Conn \cup {NoConn}
  /\ pending \in Conn \cup {NoConn}
  /\ converting \subseteq Conn

LockInit ==
  /\ shared = {}
  /\ excl = NoConn
  /\ reserved = NoConn
  /\ pending = NoConn
  /\ converting = {}

-----------------------------------------------------------------------------
(* NO_LOCK to SHARED_LOCK.  The PENDING byte is taken for the duration of   *)
(* the call, so a writer that keeps it turns new readers away.              *)
AcquireShared(p) ==
  /\ excl = NoConn
  /\ pending = NoConn
  /\ shared' = shared \cup {p}
  /\ UNCHANGED <<excl, reserved, pending, converting>>

(* SHARED_LOCK to RESERVED_LOCK.                                            *)
AcquireReserved(p) ==
  /\ reserved = NoConn
  /\ reserved' = p
  /\ UNCHANGED <<shared, excl, pending, converting>>

(* The first half of RESERVED_LOCK to EXCLUSIVE_LOCK: keep new readers out. *)
AcquirePending(p) ==
  /\ reserved = p
  /\ pending = NoConn
  /\ pending' = p
  /\ UNCHANGED <<shared, excl, reserved, converting>>

(* An upgrade to EXCLUSIVE_LOCK starts by giving up the read lock.          *)
DropRead(p) ==
  /\ p \notin converting
  /\ excl # p
  /\ shared' = shared \ {p}
  /\ converting' = converting \cup {p}
  /\ UNCHANGED <<excl, reserved, pending>>

(* The upgrade succeeds: nobody holds any part of the range.                *)
AcquireExclusive(p) ==
  /\ p \in converting
  /\ shared = {}
  /\ excl = NoConn
  /\ excl' = p
  /\ converting' = converting \ {p}
  /\ UNCHANGED <<shared, reserved, pending>>

(* The end of a failed upgrade, or of a downgrade: the read lock comes back *)
(* unless another connection took the whole range in the meantime.          *)
RegainRead(p) ==
  /\ p \in converting
  /\ excl = NoConn
  /\ shared' = shared \cup {p}
  /\ converting' = converting \ {p}
  /\ UNCHANGED <<excl, reserved, pending>>

LoseRead(p) ==
  /\ p \in converting
  /\ excl # NoConn
  /\ converting' = converting \ {p}
  /\ UNCHANGED <<shared, excl, reserved, pending>>

(* A downgrade from EXCLUSIVE_LOCK to SHARED_LOCK gives up the range first. *)
DropExclusive(p) ==
  /\ excl = p
  /\ excl' = NoConn
  /\ converting' = converting \cup {p}
  /\ UNCHANGED <<shared, reserved, pending>>

(* The same two conversions where the system can make them in one call, as  *)
(* fcntl can: unixLock and unixUnlock never give the range up in between.   *)
ConvertUp(p) ==
  /\ shared = {p}
  /\ excl = NoConn
  /\ pending \in {NoConn, p}
  /\ excl' = p
  /\ shared' = {}
  /\ UNCHANGED <<reserved, pending, converting>>

ConvertDown(p) ==
  /\ excl = p
  /\ excl' = NoConn
  /\ shared' = shared \cup {p}
  /\ UNCHANGED <<reserved, pending, converting>>

(* What p holds is released, some of it or all of it.                       *)
Release(p) ==
  /\ shared' \in {shared, shared \ {p}}
  /\ converting' \in {converting, converting \ {p}}
  /\ excl' \in {excl, IF excl = p THEN NoConn ELSE excl}
  /\ reserved' \in {reserved, IF reserved = p THEN NoConn ELSE reserved}
  /\ pending' \in {pending, IF pending = p THEN NoConn ELSE pending}

(* The release of everything at once: sqlite3OsUnlock(NO_LOCK), seen by a   *)
(* caller for whom nothing happens in between, or the death of the process. *)
ReleaseAll(p) ==
  /\ shared' = shared \ {p}
  /\ converting' = converting \ {p}
  /\ excl' = IF excl = p THEN NoConn ELSE excl
  /\ reserved' = IF reserved = p THEN NoConn ELSE reserved
  /\ pending' = IF pending = p THEN NoConn ELSE pending

(* The bytes of a writer are released; the range is left as it is.          *)
ReleaseWriter(p) ==
  /\ reserved' = IF reserved = p THEN NoConn ELSE reserved
  /\ pending' = IF pending = p THEN NoConn ELSE pending
  /\ UNCHANGED <<shared, excl, converting>>

LockStep(p) ==
  \/ AcquireShared(p)
  \/ AcquireReserved(p)
  \/ AcquirePending(p)
  \/ DropRead(p)
  \/ AcquireExclusive(p)
  \/ RegainRead(p)
  \/ LoseRead(p)
  \/ DropExclusive(p)
  \/ ConvertUp(p)
  \/ ConvertDown(p)
  \/ Release(p)

LockNext == \E p \in Conn : LockStep(p)

LockSpec == LockInit /\ [][LockNext]_lockVars

=============================================================================
