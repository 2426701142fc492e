---------------------------- MODULE PagerProofs -----------------------------
(***************************************************************************)
(* The invariant of Pager is inductive.  First part: what a step of one    *)
(* connection does to the clauses of that connection and of the others;    *)
(* for each action there is a lemma on the fields it changes, where these  *)
(* are many, and one, named after it, that the clauses of its connection   *)
(* hold again.  Second part: the files, the types, a power failure.  Third *)
(* part: what follows from the invariant: atomic commit, isolation, and    *)
(* that the pager is an atomic store.                                      *)
(***************************************************************************)
EXTENDS PagerInvariant, FiniteSetTheorems, WellFoundedInduction, TLAPS

(* The smallest of some pages is one of them.                              *)
LEMMA SmallestPage ==
  ASSUME NEW S \in SUBSET Page, S # {}
  PROVE  Min(S) \in S
<1> DEFINE R == StrictSubsetOrdering(Page)
           T == {1 .. x : x \in S}
<1>0. MaxPage \in Nat
  BY PagerAssumption
<1>1. IsWellFoundedOn(R, SUBSET Page)
  <2>1. IsFiniteSet(Page)
    BY <1>0, FS_Interval DEF Page
  <2> QED
    BY <2>1, FS_FiniteSubsetsOfFinite, FS_StrictSubsetOrderingWellFounded
<1>2. T \subseteq SUBSET Page /\ T # {}
  <2>1. \A x \in S : 1 .. x \in SUBSET Page /\ 1 .. x \in T
    BY <1>0 DEF Page
  <2> QED
    BY <2>1
<1>3. \E t \in T : \A u \in T : ~(<<u, t>> \in R)
  <2> HIDE DEF R, T
  <2> QED
    BY <1>1, <1>2, WFMin
<1>4. PICK x \in S : \A u \in T : ~(<<u, 1 .. x>> \in R)
  BY <1>3
<1>5. ASSUME NEW y \in S, y < x PROVE FALSE
  <2>1. <<1 .. y, 1 .. x>> \notin R
    BY <1>4
  <2>2. 1 .. y \subseteq 1 .. x /\ x \in 1 .. x /\ x \notin 1 .. y
    BY <1>0, <1>5 DEF Page
  <2>3. 1 .. y \in SUBSET Page /\ 1 .. x \in SUBSET Page
    BY <1>0 DEF Page
  <2> QED
    BY <2>1, <2>2, <2>3 DEF StrictSubsetOrdering
<1>6. \E z \in S : \A y \in S : z =< y
  BY <1>0, <1>5 DEF Page
<1> QED
  BY <1>6 DEF Min

(* The size of a file that has the pages up to n is n.                     *)
LEMMA SizeOf ==
  ASSUME NEW f, NEW n \in 0 .. MaxPage, Sized(f, n)
  PROVE  Size(f) = n
<1>1. {p \in Page : f[p] # Absent} = 1 .. n
  BY PagerAssumption DEF Sized, Page
<1>2. Cardinality(1 .. n) = n
  BY PagerAssumption, FS_Interval
<1> QED
  BY <1>1, <1>2 DEF Size

(* Marks are no pages.                                                     *)
LEMMA Marks ==
  /\ \A x \in Content \cup Stored \cup FileVers : x # Absent /\ x # Torn /\ x # Garbage
  /\ Absent # Torn /\ Absent # Garbage
BY MarkAssumption

(* A page that is encrypted is legible with the same key.                  *)
LEMMA EncryptType ==
  ASSUME NEW k \in Key, NEW d \in Content
  PROVE  /\ Encrypt(k, d) \in Stored
         /\ Encrypt(k, d).key = k /\ Encrypt(k, d).tid = d.tid /\ Encrypt(k, d).ctr = d.ctr
         /\ Decrypt(k, Encrypt(k, d)) = d
<1>1. Encrypt(k, d) \in Stored
  BY DEF Encrypt, Stored, Content
<1>2. Encrypt(k, d).key = k /\ Encrypt(k, d).tid = d.tid /\ Encrypt(k, d).ctr = d.ctr
  BY DEF Encrypt
<1>3. Encrypt(k, d) # Absent /\ Encrypt(k, d) # Torn
  BY <1>1, Marks
<1>4. d = [tid |-> d.tid, ctr |-> d.ctr]
  BY DEF Content
<1> QED
  BY <1>1, <1>2, <1>3, <1>4 DEF Decrypt, Plain

(* What is decrypted with its key encrypts to the same page.               *)
LEMMA DecryptType ==
  ASSUME NEW s \in Stored
  PROVE  /\ Decrypt(s.key, s) \in Content
         /\ Decrypt(s.key, s).tid = s.tid /\ Decrypt(s.key, s).ctr = s.ctr
         /\ Encrypt(s.key, Decrypt(s.key, s)) = s
<1>1. s # Absent /\ s # Torn
  BY Marks
<1>2. Decrypt(s.key, s) = [tid |-> s.tid, ctr |-> s.ctr]
  BY <1>1 DEF Decrypt, Plain
<1>3. s = [key |-> s.key, tid |-> s.tid, ctr |-> s.ctr]
  BY DEF Stored
<1> QED
  BY <1>2, <1>3 DEF Content, Stored, Encrypt

(* What is decrypted with any key is garbage or its content.               *)
LEMMA DecryptCases ==
  ASSUME NEW k \in Key, NEW s \in Stored
  PROVE  /\ Decrypt(k, s) # Absent
         /\ \/ Decrypt(k, s) = Garbage /\ k # s.key
            \/ /\ Decrypt(k, s) \in Content /\ k = s.key
               /\ Decrypt(k, s).tid = s.tid /\ Decrypt(k, s).ctr = s.ctr
<1>1. s # Absent /\ s # Torn /\ Absent # Garbage
  BY Marks
<1>2. CASE k = s.key
  BY <1>2, DecryptType, Marks
<1>3. CASE k # s.key
  BY <1>1, <1>3 DEF Decrypt
<1> QED
  BY <1>2, <1>3

(* A page in the cache is encrypted to the page that it was read from.     *)
LEMMA HeldPage ==
  ASSUME NEW k \in Key, NEW c \in Conn, NEW p \in Page, NEW f, Holds(c, p, f), f[p].key = k
  PROVE  /\ f[p] = Encrypt(k, pager[c].cache[p]) /\ f[p] # Absent
         /\ pager[c].cache[p] = Decrypt(k, f[p])
<1>1. /\ f[p] \in Stored /\ pager[c].cache[p] \in Content
      /\ pager[c].cache[p].tid = f[p].tid /\ pager[c].cache[p].ctr = f[p].ctr
  BY DEF Holds
<1>2. Encrypt(k, pager[c].cache[p]) = [key |-> k, tid |-> f[p].tid, ctr |-> f[p].ctr]
  BY <1>1 DEF Encrypt
<1>3. f[p] = [key |-> k, tid |-> f[p].tid, ctr |-> f[p].ctr]
  BY <1>1 DEF Stored
<1> QED
  BY <1>1, <1>2, <1>3, EncryptType, Marks

(* The version that is read from a page tells its key and counter.         *)
LEMMA VersionType ==
  ASSUME NEW s \in Stored
  PROVE  /\ Version(s) \in FileVers
         /\ Version(s).key = s.key /\ Version(s).ctr = s.ctr
         /\ Version(s) = [key |-> s.key, ctr |-> s.ctr]
<1>1. s # Absent /\ s # Torn
  BY Marks
<1> QED
  BY <1>1 DEF Version, FileVers, Stored

(* The conversions stay within the types.                                  *)
LEMMA SomeTypes ==
  /\ \A k \in Key : \A s \in Stored \cup {Absent, Torn} :
       Decrypt(k, s) \in Content \cup {Garbage}
  /\ \A s \in Stored \cup {Absent, Torn} : Version(s) \in FileVers \cup {Absent, Torn}
  /\ 1 \in Page /\ MaxPage \in Nat /\ Page = 1 .. MaxPage
BY PagerAssumption DEF Decrypt, Plain, Content, Stored, Version, FileVers, Page

-----------------------------------------------------------------------------
(* What sqlite3PagerRollback leaves in the cache.                          *)
OldSize(c) == IF jrnl.orig = 0 THEN pager[c].dbSize ELSE jrnl.orig

RolledBack(c) ==
  [p \in Page |->
     IF p > OldSize(c) THEN Absent
     ELSE IF p \in Records(jrnl) /\ pager[c].cache[p] # Absent
          THEN Decrypt(rkey[c], jrnl.rec[p]) ELSE pager[c].cache[p]]

(* What Undo does to the files.                                            *)
LEMMA UndoEffect ==
  ASSUME TypeOK, NEW c \in Conn, Undo(c), pager[c].eState # "WRITER_LOCKED"
  PROVE  /\ UNCHANGED <<lockVars, jrnl, jrnlOld, jopen, keys, history>>
         /\ IF pager[c].eState = "WRITER_DBMOD" /\ jrnl.orig # 0
            THEN Cut(jrnl.orig) ELSE UNCHANGED <<db, dbOld>>
         /\ pager' = [pager EXCEPT ![c] = [pager[c] EXCEPT
              !.at = IF pager[c].eState = "WRITER_DBMOD" THEN "replay" ELSE "finalize",
              !.goal = "rollback",
              !.job = IF pager[c].eState = "WRITER_DBMOD"
                      THEN Records(jrnl) \cap jrnl.dur ELSE {},
              !.cache = RolledBack(c),
              !.dbFileVers = IF 1 \in Records(jrnl) THEN Version(jrnl.rec[1])
                             ELSE pager[c].dbFileVers,
              !.dbSize = OldSize(c)]]
<1>1. pager[c] \in PagerState
  BY DEF TypeOK
<1> QED
  BY <1>1 DEF Undo, RolledBack, OldSize

(* What it does to the connection, field by field.                         *)
LEMMA UndoFields ==
  ASSUME TypeOK, NEW c \in Conn, Undo(c), pager[c].eState # "WRITER_LOCKED"
  PROVE  /\ pager'[c].eState = pager[c].eState
         /\ pager'[c].at = IF pager[c].eState = "WRITER_DBMOD" THEN "replay" ELSE "finalize"
         /\ pager'[c].goal = "rollback"
         /\ pager'[c].job = IF pager[c].eState = "WRITER_DBMOD"
                      THEN Records(jrnl) \cap jrnl.dur ELSE {}
         /\ pager'[c].cache = RolledBack(c)
         /\ pager'[c].dbFileVers = IF 1 \in Records(jrnl) THEN Version(jrnl.rec[1])
                             ELSE pager[c].dbFileVers
         /\ pager'[c].dbSize = OldSize(c)
         /\ pager'[c].dirty = pager[c].dirty /\ pager'[c].needSync = pager[c].needSync
         /\ pager'[c].inJournal = pager[c].inJournal /\ pager'[c].tid = pager[c].tid
         /\ pager'[c].dbOrigSize = pager[c].dbOrigSize
<1> DEFINE r == pager[c]
           mod == pager[c].eState = "WRITER_DBMOD"
           at == IF mod THEN "replay" ELSE "finalize"
           job == IF mod THEN Records(jrnl) \cap jrnl.dur ELSE {}
           vers == IF 1 \in Records(jrnl) THEN Version(jrnl.rec[1]) ELSE r.dbFileVers
<1>1. pager[c] \in PagerState /\ pager \in [Conn -> PagerState]
  BY DEF TypeOK
<1>2. pager'[c] = [r EXCEPT !.at = at, !.goal = "rollback", !.job = job,
                    !.cache = RolledBack(c), !.dbFileVers = vers, !.dbSize = OldSize(c)]
  BY <1>1, UndoEffect
<1> HIDE DEF at, job, vers
<1>3. pager'[c] = [r EXCEPT !.at = at, !.goal = "rollback", !.job = job,
                    !.cache = RolledBack(c), !.dbFileVers = vers, !.dbSize = OldSize(c)]
  BY <1>2
<1>4. /\ pager'[c].eState = pager[c].eState
      /\ pager'[c].at = at /\ pager'[c].goal = "rollback" /\ pager'[c].job = job
         /\ pager'[c].cache = RolledBack(c)
         /\ pager'[c].dbFileVers = vers
         /\ pager'[c].dbSize = OldSize(c)
         /\ pager'[c].dirty = pager[c].dirty /\ pager'[c].needSync = pager[c].needSync
         /\ pager'[c].inJournal = pager[c].inJournal /\ pager'[c].tid = pager[c].tid
         /\ pager'[c].dbOrigSize = pager[c].dbOrigSize
  BY <1>1, <1>3 DEF PagerState
<1> QED
  BY <1>4 DEF at, job, vers

-----------------------------------------------------------------------------
(* A step of c moves nobody else.                                          *)
LEMMA OthersStay ==
  ASSUME TypeOK, NEW c \in Conn, Acts(c), NEW d \in Conn, d # c
  PROVE  /\ pager'[d] = pager[d] /\ rkey'[d] = rkey[d] /\ wkey'[d] = wkey[d]
         /\ d \in jopen' <=> d \in jopen
<1> USE DEF Goto, Busy, PagerUnlock, keys, history, files, lockVars
<1>0. pager \in [Conn -> PagerState]
  BY DEF TypeOK
<1>1. CASE Call(c)
  BY <1>0, <1>1 DEF Call, SharedLock, EndRead, Begin, Commit, Rollback, Undo, Read, Write, Spill
<1>2. CASE Ends(c)
  BY <1>0, <1>2 DEF Ends, Die
<1>3. CASE Continue(c)
  <2>1. CASE HotExists(c) \/ HotReserved(c) \/ HotOpen(c) \/ HotByte(c) \/ HotLock(c) \/ HotExclusive(c) \/ HotFailed(c)
    BY <1>0, <2>1 DEF HotExists, HotReserved, HotOpen, HotByte, HotLock, HotExclusive, HotFailed
  <2>2. CASE Recover(c) \/ Replay(c) \/ ReplaySync(c) \/ Finalize(c) \/ DeleteFails(c)
    BY <1>0, <2>2 DEF Recover, Replay, ReplaySync, Finalize, FinalizeJournal, DeleteFails
  <2>3. CASE Downgrade(c) \/ Regain(c) \/ EndTransaction(c) \/ Validate(c) \/ Unlock(c)
    BY <1>0, <2>3 DEF Downgrade, Regain, EndTransaction, Validate, Unlock
  <2>4. CASE LockPending(c) \/ LockUpgrade(c) \/ LockExclusive(c) \/ Reread(c)
    BY <1>0, <2>4 DEF LockPending, LockUpgrade, LockExclusive, Reread
  <2>5. CASE JournalHeader(c) \/ JournalSync(c) \/ WriteDb(c) \/ DbSync(c) \/ FailedCommit(c) \/ IoError(c)
    BY <1>0, <2>5 DEF JournalHeader, JournalSync, WriteDb, DbSync, FailedCommit, Undo, IoError
  <2> QED
    BY <1>3, <2>1, <2>2, <2>3, <2>4, <2>5 DEF Continue
<1> QED
  BY <1>1, <1>2, <1>3 DEF Acts

(* What a step of c does to the locks of another connection d: nothing, or *)
(* c takes the range while nobody else has a part of it.                   *)
Undisturbed(c) ==
  \A d \in Conn \ {c} :
    /\ d \in shared' <=> d \in shared
    /\ excl' = d <=> excl = d
    /\ reserved' = d <=> reserved = d
    /\ excl' # NoConn => excl' = excl

Taken(c) ==
  /\ excl' = c /\ excl = NoConn /\ reserved' = reserved
  /\ shared \subseteq {c} /\ shared' = {}
  /\ LeftAlone(c)

(* A step of a connection leaves the locks of the others alone.            *)
LEMMA LockEffect ==
  ASSUME ~exposed', TypeOK, Control, NEW c \in Conn, Acts(c)
  PROVE  Undisturbed(c) \/ Taken(c)
<1> USE DEF lockVars, files, keys, history, Goto, Busy, PagerUnlock, Taken, Undisturbed
<1>0. NoConn \notin Conn /\ shared \subseteq Conn /\ excl \in Conn \cup {NoConn}
      /\ reserved \in Conn \cup {NoConn}
  BY NoConnAssumption DEF TypeOK, LockTypeOK
<1>1. CASE Call(c)
  <2>1. CASE SharedLock(c)
    BY <1>0, <2>1 DEF SharedLock, AcquireShared
  <2>2. CASE Begin(c)
    BY <1>0, <2>2 DEF Begin, AcquireReserved
  <2>3. CASE EndRead(c)
    BY <1>0, <2>3 DEF EndRead, ReleaseAll
  <2> QED
    BY <1>1, <2>1, <2>2, <2>3 DEF Call, Commit, Rollback, Undo, Read, Write, Spill
<1>2. CASE Ends(c)
  BY <1>0, <1>2 DEF Ends, Die, ReleaseAll
<1>3. CASE Continue(c)
  <2>1. CASE HotLock(c)
    <3>1. CASE Vfs = "unix"
      <4>1. LeftAlone(c)
        BY <3>1 DEF Control, Locked, LeftAlone, Gap
      <4> QED
        BY <1>0, <2>1, <3>1, <4>1 DEF HotLock, ConvertUp
    <3>2. CASE Vfs # "unix"
      BY <1>0, <2>1, <3>2, PagerAssumption DEF HotLock, DropRead
    <3> QED
      BY <3>1, <3>2
  <2>2. CASE HotExclusive(c)
    BY <1>0, <2>2 DEF HotExclusive, TakeRange, AcquireExclusive
  <2>3. CASE HotFailed(c)
    BY <1>0, <2>3 DEF HotFailed, RegainRead, LoseRead
  <2>4. CASE Downgrade(c)
    BY <1>0, <2>4 DEF Downgrade, DropExclusive, ConvertDown
  <2>5. CASE Regain(c)
    BY <1>0, <2>5 DEF Regain, RegainRead, LoseRead
  <2>6. CASE EndTransaction(c) \/ Unlock(c)
    BY <1>0, <2>6 DEF EndTransaction, ReleaseWriter, Unlock, ReleaseAll
  <2>7. CASE LockPending(c) \/ Reread(c)
    BY <1>0, <2>7 DEF LockPending, AcquirePending, Reread, RegainRead, LoseRead
  <2>8. CASE LockUpgrade(c)
    <3>1. CASE Vfs = "unix"
      <4>1. LeftAlone(c)
        BY <3>1 DEF Control, Locked, LeftAlone, Gap
      <4> QED
        BY <1>0, <2>8, <3>1, <4>1 DEF LockUpgrade, ConvertUp
    <3>2. CASE Vfs # "unix"
      BY <1>0, <2>8, <3>2, PagerAssumption DEF LockUpgrade, DropRead
    <3> QED
      BY <3>1, <3>2
  <2>9. CASE LockExclusive(c)
    BY <1>0, <2>9 DEF LockExclusive, TakeRange, AcquireExclusive
  <2> QED
    BY <1>3, <2>1, <2>2, <2>3, <2>4, <2>5, <2>6, <2>7, <2>8, <2>9
    DEF Continue, HotExists, HotReserved, HotOpen, HotByte, Recover, Replay, ReplaySync, Finalize,
        DeleteFails, Validate, JournalHeader, JournalSync, WriteDb, DbSync, FailedCommit,
        Undo, IoError
<1> QED
  BY <1>1, <1>2, <1>3 DEF Acts

(* The clauses about the locks of a connection that does not move.         *)
LEMMA LocksStay ==
  ASSUME TypeOK, NEW c \in Conn, NEW d \in Conn \ {c}, Locked(d),
         pager'[d] = pager[d], Undisturbed(c) \/ Taken(c)
  PROVE  Locked(d)'
<1>0. excl \in Conn \cup {NoConn} /\ NoConn \notin Conn
  BY NoConnAssumption DEF TypeOK, LockTypeOK
<1>1. CASE Undisturbed(c)
  BY <1>0, <1>1 DEF Undisturbed, Locked, Outside, NeedsRange, MayLose
<1>2. CASE Taken(c)
  BY <1>0, <1>2 DEF Taken, LeftAlone, Locked, Outside, NeedsRange, MayLose
<1> QED
  BY <1>1, <1>2

-----------------------------------------------------------------------------
(* Each step of a call leads to the next one, with the locks it needs.     *)
LEMMA ControlCalls ==
  ASSUME TypeOK, NEW c \in Conn, InPlace(c), Locked(c), Call(c)
  PROVE  InPlace(c)' /\ Locked(c)'
<1> USE DEF lockVars, files, keys, history, Goto, PagerUnlock, Fresh, Ready, Writer, Modified,
           InPlace, Locked, Outside, NeedsRange, MayLose, Gap, PagerState, LockStart
<1>0. pager \in [Conn -> PagerState] /\ shared \subseteq Conn /\ NoConn \notin Conn
      /\ pager[c].eState \in EState /\ pager[c].at \in At
  BY NoConnAssumption DEF TypeOK, LockTypeOK, PagerState
<1>1. CASE SharedLock(c)
  BY <1>0, <1>1 DEF SharedLock, AcquireShared
<1>2. CASE EndRead(c)
  BY <1>0, <1>2 DEF EndRead, ReleaseAll
<1>3. CASE Begin(c)
  BY <1>0, <1>3 DEF Begin, AcquireReserved
<1>4. CASE Commit(c)
  BY <1>0, <1>4 DEF Commit, Dirtied
<1>5. CASE Rollback(c)
  <2>1. pager[c].at = "idle" /\ pager[c].goal = "none" /\ UNCHANGED lockVars
    BY <1>5 DEF Rollback, Undo
  <2>3. CASE pager[c].eState = "WRITER_LOCKED"
    <3>1. /\ pager'[c].at = "release" /\ pager'[c].goal = pager[c].goal
          /\ pager'[c].eState = pager[c].eState
      BY <1>0, <1>5, <2>3 DEF Rollback, Undo
    <3> QED
      BY <2>1, <2>3, <3>1
  <2>4. CASE pager[c].eState \in {"WRITER_CACHEMOD", "WRITER_DBMOD"}
    <3>1. /\ pager'[c].at = IF pager[c].eState = "WRITER_DBMOD" THEN "replay" ELSE "finalize"
          /\ pager'[c].goal = "rollback" /\ pager'[c].eState = pager[c].eState
      BY <1>5, <2>4, UndoFields DEF Rollback
    <3> QED
      BY <2>1, <2>4, <3>1
  <2> QED
    BY <1>5, <2>1, <2>3, <2>4 DEF Rollback
<1>6. CASE \E p \in Page : Read(c, p)
  BY <1>0, <1>6 DEF Read
<1>7. CASE \E p \in Page : Write(c, p)
  BY <1>0, <1>7 DEF Write, Dirtied
<1>8. CASE \E p \in Page : Spill(c, p)
  BY <1>0, <1>8 DEF Spill
<1> QED
  BY <1>1, <1>2, <1>3, <1>4, <1>5, <1>6, <1>7, <1>8 DEF Call

(* The order of steps and the locks: a call goes on.                       *)
LEMMA ControlContinues ==
  ASSUME ~exposed', TypeOK, Control, NEW c \in Conn, Continue(c)
  PROVE  InPlace(c)' /\ Locked(c)'
<1> USE DEF lockVars, files, keys, history, Goto, Busy, PagerUnlock, Fresh, Writer, Modified,
           InPlace, Locked, Outside, NeedsRange, MayLose, Gap, PagerState
<1>0. pager \in [Conn -> PagerState] /\ shared \subseteq Conn /\ NoConn \notin Conn
      /\ pager[c].eState \in EState /\ pager[c].at \in At
  BY NoConnAssumption DEF TypeOK, LockTypeOK, PagerState
<1>c. InPlace(c) /\ Locked(c)
  BY DEF Control
<1>1. CASE HotExists(c)
  BY <1>0, <1>c, <1>1 DEF HotExists
<1>2. CASE HotReserved(c)
  BY <1>0, <1>c, <1>2 DEF HotReserved
<1>3. CASE HotOpen(c)
  BY <1>0, <1>c, <1>3 DEF HotOpen
<1>b. CASE HotByte(c)
  BY <1>0, <1>c, <1>b DEF HotByte
<1>4. CASE HotLock(c)
  <2>1. pager[c].at = "hotLock" /\ pager'[c].eState = pager[c].eState
    BY <1>0, <1>4 DEF HotLock, DropRead, ConvertUp
  <2>2. /\ pager'[c].goal = pager[c].goal /\ reserved' = reserved
        /\ \/ pager'[c].at = "hotExclusive" /\ Vfs = "win" /\ excl' = excl /\ c \notin shared'
           \/ pager'[c].at = "recover" /\ excl' = c /\ shared' = {}
           \/ pager'[c].at = "unlock" /\ excl' = excl /\ shared' = shared
    BY <1>0, <1>c, <1>4, <2>1, PagerAssumption DEF HotLock, DropRead, ConvertUp
  <2> QED
    BY <1>0, <1>c, <2>1, <2>2
<1>5. CASE HotExclusive(c)
  <2>1. pager[c].at = "hotExclusive" /\ pager'[c].eState = pager[c].eState
    BY <1>0, <1>5 DEF HotExclusive, TakeRange, AcquireExclusive
  <2>2. /\ pager'[c].goal = pager[c].goal /\ reserved' = reserved /\ shared' = shared
        /\ \/ pager'[c].at = "recover" /\ excl' = c /\ shared' = {}
           \/ pager'[c].at = "hotFailed" /\ excl' = excl
    BY <1>0, <1>c, <1>5, <2>1, PagerAssumption DEF HotExclusive, TakeRange, AcquireExclusive
  <2> QED
    BY <1>0, <1>c, <2>1, <2>2
<1>6. CASE HotFailed(c)
  BY <1>0, <1>c, <1>6 DEF HotFailed, RegainRead, LoseRead
<1>7. CASE Recover(c)
  <2>1. pager[c].at = "recover" /\ UNCHANGED lockVars /\ pager'[c].eState = pager[c].eState
    BY <1>0, <1>7 DEF Recover
  <2>2. \/ pager'[c].at = "replay" /\ pager'[c].goal = "hot"
        \/ pager'[c].at = "downgrade" /\ pager'[c].goal = "quiet"
    BY <1>0, <1>7 DEF Recover
  <2>3. pager[c].eState = "OPEN" /\ excl = c
    BY <1>c, <2>1
  <2>4. InPlace(c)'
    BY <2>1, <2>2, <2>3
  <2>5. Locked(c)'
    BY <1>0, <1>c, <2>1, <2>2, <2>3
  <2> QED
    BY <2>4, <2>5
<1>8. CASE Replay(c)
  BY <1>0, <1>c, <1>8 DEF Replay
<1>9. CASE ReplaySync(c)
  BY <1>0, <1>c, <1>9 DEF ReplaySync
<1>10. CASE Finalize(c)
  BY <1>0, <1>c, <1>10 DEF Finalize
<1>11. CASE DeleteFails(c)
  BY <1>0, <1>c, <1>11 DEF DeleteFails
<1>12. CASE Downgrade(c)
  <2>1. pager[c].at = "downgrade" /\ pager'[c].eState = pager[c].eState
    BY <1>0, <1>12 DEF Downgrade, DropExclusive, ConvertDown
  <2>2. /\ pager'[c].goal = pager[c].goal /\ reserved' = reserved /\ excl' = NoConn
        /\ \/ pager'[c].at = "regain" /\ Vfs = "win"
           \/ pager'[c].at = "release" /\ c \in shared'
    BY <1>0, <1>c, <1>12, <2>1, PagerAssumption DEF Downgrade, DropExclusive, ConvertDown
  <2> QED
    BY <1>0, <1>c, <2>1, <2>2
<1>13. CASE Regain(c)
  <2>1. pager[c].at = "regain" /\ pager'[c].eState = pager[c].eState
    BY <1>0, <1>13 DEF Regain, RegainRead, LoseRead
  <2>2. /\ pager'[c].goal = pager[c].goal /\ reserved' = reserved /\ excl' = excl
        /\ \/ pager'[c].at = "release" /\ c \in shared' /\ excl = NoConn
           \/ pager'[c].at \in {"release", "unlock"} /\ excl # NoConn /\ shared' = shared
              /\ (pager[c].goal # "quiet" => pager'[c].at = "unlock")
    BY <1>0, <1>c, <1>13, <2>1, PagerAssumption DEF Regain, RegainRead, LoseRead
  <2> QED
    BY <1>0, <1>c, <2>1, <2>2
<1>14. CASE EndTransaction(c)
  <2>1. c \in shared /\ c \in shared'
    BY <1>14 DEF EndTransaction, ReleaseWriter
  <2> QED
    BY <1>0, <1>c, <1>14, <2>1 DEF EndTransaction, ReleaseWriter
<1>15. CASE Validate(c)
  BY <1>0, <1>c, <1>15 DEF Validate
<1>16. CASE Unlock(c)
  BY <1>0, <1>c, <1>16 DEF Unlock, ReleaseAll
<1>17. CASE LockPending(c)
  <2>1. pager[c].at = "pending" /\ pager'[c].eState = pager[c].eState
    BY <1>0, <1>17 DEF LockPending, AcquirePending
  <2>2. /\ reserved' = reserved /\ excl' = excl /\ shared' = shared
        /\ \/ pager'[c].at = "upgrade" /\ pager'[c].goal = pager[c].goal
           \/ pager'[c].at = "idle" /\ pager'[c].goal = "none"
    BY <1>0, <1>c, <1>17, <2>1, PagerAssumption DEF LockPending, AcquirePending
  <2> QED
    BY <1>0, <1>c, <2>1, <2>2
<1>18. CASE LockUpgrade(c)
  <2>1. pager[c].at = "upgrade" /\ pager'[c].eState = pager[c].eState
    BY <1>0, <1>18 DEF LockUpgrade, DropRead, ConvertUp
  <2>2. /\ reserved' = reserved
        /\ \/ pager'[c].at = "exclusive" /\ pager'[c].goal = pager[c].goal /\ Vfs = "win" /\ excl' = excl
              /\ excl # c /\ shared' = shared \ {c}
           \/ pager'[c].at = "header" /\ pager'[c].goal = pager[c].goal /\ excl' = c /\ shared' = {}
           \/ pager'[c].at = "idle" /\ pager'[c].goal = "none" /\ excl' = excl
              /\ shared' = shared
    BY <1>0, <1>c, <1>18, <2>1, PagerAssumption DEF LockUpgrade, DropRead, ConvertUp
  <2>3. CASE pager'[c].at = "exclusive"
    BY <1>0, <1>c, <2>1, <2>2, <2>3
  <2>4. CASE pager'[c].at = "header"
    BY <1>0, <1>c, <2>1, <2>2, <2>4
  <2>5. CASE pager'[c].at = "idle"
    BY <1>0, <1>c, <2>1, <2>2, <2>5
  <2> QED
    BY <2>2, <2>3, <2>4, <2>5
<1>19. CASE LockExclusive(c)
  <2>1. pager[c].at = "exclusive" /\ pager'[c].eState = pager[c].eState
    BY <1>0, <1>19 DEF LockExclusive, TakeRange, AcquireExclusive
  <2>2. /\ pager'[c].goal = pager[c].goal /\ reserved' = reserved /\ shared' = shared
        /\ \/ pager'[c].at = "header" /\ excl' = c /\ shared' = {}
           \/ pager'[c].at = "reread" /\ excl' = excl
    BY <1>0, <1>c, <1>19, <2>1, PagerAssumption DEF LockExclusive, TakeRange, AcquireExclusive
  <2> QED
    BY <1>0, <1>c, <2>1, <2>2
<1>20. CASE Reread(c)
  BY <1>0, <1>c, <1>20 DEF Reread, RegainRead, LoseRead
<1>21. CASE JournalHeader(c)
  BY <1>0, <1>c, <1>21 DEF JournalHeader
<1>22. CASE JournalSync(c)
  BY <1>0, <1>c, <1>22 DEF JournalSync
<1>23. CASE WriteDb(c)
  BY <1>0, <1>c, <1>23 DEF WriteDb
<1>24. CASE DbSync(c)
  BY <1>0, <1>c, <1>24 DEF DbSync
<1>25. CASE FailedCommit(c)
  <2>1. pager[c].at = "failed" /\ UNCHANGED lockVars
    BY <1>25 DEF FailedCommit, Undo
  <2>2. pager[c].eState \in {"WRITER_CACHEMOD", "WRITER_DBMOD"}
    BY <1>c, <2>1
  <2>3. /\ pager'[c].eState = pager[c].eState
        /\ pager'[c].at = IF pager[c].eState = "WRITER_DBMOD" THEN "replay" ELSE "finalize"
        /\ pager'[c].goal = "rollback"
    BY <1>25, <2>2, UndoFields DEF FailedCommit
  <2> QED
    BY <1>c, <2>1, <2>2, <2>3
<1>26. CASE IoError(c)
  BY <1>0, <1>c, <1>26 DEF IoError
<1> QED
  BY <1>1, <1>2, <1>3, <1>b, <1>4, <1>5, <1>6, <1>7, <1>8, <1>9, <1>10, <1>11, <1>12, <1>13, <1>14, <1>15, <1>16, <1>17, <1>18, <1>19, <1>20, <1>21, <1>22, <1>23, <1>24, <1>25, <1>26 DEF Continue

(* The order of steps and the locks are kept by any step of a connection.  *)
LEMMA ControlStep ==
  ASSUME ~exposed', TypeOK, Control, NEW c \in Conn, Acts(c)
  PROVE  Control'
<1>1. InPlace(c)' /\ Locked(c)'
  <2>1. CASE Ends(c)
    <3>1. pager'[c] = Fresh
      BY <2>1 DEF Ends, Die, TypeOK
    <3> QED
      BY <2>1, <3>1, NoConnAssumption
      DEF Ends, Die, ReleaseAll, Fresh, InPlace, Locked, Outside, NeedsRange, MayLose, Gap, Writer, Modified
  <2> QED
    BY <2>1, ControlCalls, ControlContinues DEF Acts, Control
<1>2. ASSUME NEW d \in Conn \ {c} PROVE InPlace(d)' /\ Locked(d)'
  BY <1>2, OthersStay, LockEffect, LocksStay DEF Control, InPlace
<1> QED
  BY <1>1, <1>2 DEF Control

-----------------------------------------------------------------------------
(* Who writes which file.                                                  *)
LEMMA FileAccess ==
  ASSUME TypeOK, Control, NEW c \in Conn, Acts(c)
  PROVE  /\ UNCHANGED <<db, dbOld>> \/ excl = c
         /\ UNCHANGED jrnl \/ excl = c \/ reserved = c
         /\ jrnl'.magic => jrnl.magic \/ excl = c
         /\ \/ UNCHANGED committed
            \/ /\ Finalize(c) /\ excl = c /\ committed' = db
               /\ pager[c].at = "finalize" /\ pager[c].goal = "commit"
         /\ UNCHANGED keys \/ Ends(c)
<1> USE DEF files, history
<1>c. InPlace(c) /\ Locked(c)
  BY DEF Control
<1>t. jrnl \in Journal
  BY DEF TypeOK
<1>1. CASE Call(c)
  <2>1. CASE Rollback(c)
    BY <1>c, <2>1 DEF Rollback, Undo, Locked, NeedsRange, Ready
  <2>2. CASE Commit(c) \/ \E p \in Page : Write(c, p)
    <3>1. jrnl'.magic => jrnl.magic
      BY <2>2, <1>t DEF Commit, Write, Saved, NewJournal, Truncated, NoJournal, Journal
    <3> QED
      BY <1>c, <2>2, <3>1 DEF Commit, Write, Ready, Locked, Writer, Modified
  <2> QED
    BY <1>1, <2>1, <2>2 DEF Call, SharedLock, EndRead, Begin, Read, Spill, PagerUnlock
<1>2. CASE Ends(c)
  BY <1>2 DEF Ends, Die, Fault
<1>3. CASE Continue(c)
  <2>1. CASE Recover(c) \/ Replay(c) \/ ReplaySync(c) \/ JournalHeader(c) \/ JournalSync(c)
             \/ WriteDb(c) \/ DbSync(c)
    BY <1>c, <2>1 DEF Recover, Replay, ReplaySync, JournalHeader, JournalSync, WriteDb, DbSync,
      Locked, NeedsRange
  <2>2. CASE Finalize(c)
    <3>1. UNCHANGED <<db, dbOld, keys>> /\ pager[c].at = "finalize"
      BY <2>2 DEF Finalize
    <3>2. CASE pager[c].goal = "commit"
      <4>1. excl = c
        BY <1>c, <3>1, <3>2 DEF InPlace, Locked, NeedsRange
      <4> QED
        BY <2>2, <3>1, <3>2, <4>1 DEF Finalize
    <3>3. CASE pager[c].goal # "commit"
      <4>1. reserved = c \/ excl = c
        BY <1>c, <3>1 DEF InPlace, Locked, NeedsRange, Writer, Modified
      <4>2. jrnl'.magic => jrnl.magic
        BY <2>2 DEF Finalize, FinalizeJournal, Truncated, NoJournal
      <4> QED
        BY <2>2, <3>1, <3>3, <4>1, <4>2 DEF Finalize
    <3> QED
      BY <3>2, <3>3
  <2>3. CASE FailedCommit(c)
    BY <1>c, <2>3 DEF FailedCommit, Undo, Locked, NeedsRange
  <2>4. CASE IoError(c)
    BY <1>c, <2>4 DEF IoError, Fault, Locked, NeedsRange
  <2> QED
    BY <1>3, <2>1, <2>2, <2>3, <2>4
    DEF Continue, HotExists, HotReserved, HotOpen, HotByte, HotLock, HotExclusive, HotFailed,
        DeleteFails, Downgrade, Regain, EndTransaction, Validate, Unlock,
        LockPending, LockUpgrade, LockExclusive, Reread
<1> QED
  BY <1>1, <1>2, <1>3 DEF Acts

(* There is a page 1, and the keys of all connections are the same.        *)
LEMMA FirstPage ==
  ASSUME NEW k \in Key, InvUnder(k)
  PROVE  /\ committed[1] \in Stored /\ committed[1].key = k
         /\ Version(committed[1]) \in FileVers
         /\ Version(committed[1]).ctr = committed[1].ctr
         /\ Version(committed[1]).key = k
<1>1. PICK n \in Page : Sized(committed, n)
  BY DEF InvUnder, FilesOK
<1>2. committed[1] # Absent /\ 1 \in Page
  BY <1>1, SomeTypes DEF Sized
<1>3. committed[1] \in Stored
  BY <1>2 DEF InvUnder, TypeOK
<1> QED
  BY <1>2, <1>3, VersionType DEF InvUnder, KeysOK, UnderKey

(* What a commit makes of page 1, and of the key of the database.          *)
LEMMA CommittedPages ==
  ASSUME NEW k \in Key, InvUnder(k), NEW c \in Conn,
         pager[c].at = "finalize", pager[c].goal = "commit"
  PROVE  /\ pager[c].eState = "WRITER_FINISHED" /\ IsChanging(c) /\ excl = c
         /\ db[1] \in Stored /\ db[1].ctr = committed[1].ctr + 1
         /\ \A p \in Page : db[p] = committed[p] \/ db[p] \in Stored
         /\ UnderKey(wkey[c], db)
<1>0. InPlace(c) /\ Locked(c) /\ ConnOK(c)
  BY DEF InvUnder, Control
<1>1. pager[c].eState = "WRITER_FINISHED" /\ IsChanging(c) /\ excl = c
  BY <1>0 DEF InPlace, IsChanging, Modified, Ended, Locked, NeedsRange
<1>2. pager[c].cache[1] \in Content /\ pager[c].cache[1].ctr = committed[1].ctr + 1
  BY <1>0, <1>1 DEF ConnOK, CachedOK, CommitOK
<1>3. Holds(c, 1, db)
  BY <1>0, <1>1, <1>2, Marks, SomeTypes DEF ConnOK, CommitOK
<1>4. \A p \in Page : db[p] = committed[p] \/ db[p] \in Stored
  BY <1>0, <1>1 DEF ConnOK, WrittenOK
<1>5. UnderKey(wkey[c], db)
  BY <1>0, <1>1 DEF ConnOK, CommitOK
<1> QED
  BY <1>1, <1>2, <1>3, <1>4, <1>5 DEF Holds

(* While c has the whole range, the others are outside, but for a writer   *)
(* that winLock has left without its read lock.                            *)
LEMMA WhileTaken ==
  ASSUME TypeOK, Control, NEW c \in Conn, NEW d \in Conn \ {c}, excl = c, ~Outside(d)
  PROVE  /\ Vfs = "win" /\ pager[d].eState \in Modified
         /\ reserved = d /\ excl # d /\ pager[c].eState \notin Writer
<1>0. NoConn \notin Conn /\ Locked(c) /\ Locked(d) /\ InPlace(d)
  BY NoConnAssumption DEF Control
<1>1. Vfs = "win" /\ pager[d].eState \in Modified
  BY <1>0 DEF Locked, MayLose, InPlace, Gap, Modified
<1>2. reserved = d
  BY <1>0, <1>1 DEF Locked, Writer
<1> QED
  BY <1>0, <1>1, <1>2 DEF Locked

(* What has taken the range from such a writer is a recovery.  It finds a  *)
(* journal without a header, has nothing to do, and cannot delete it.      *)
LEMMA NothingDone ==
  ASSUME NEW k \in Key, InvUnder(k), NEW c \in Conn, Acts(c), NEW d \in Conn \ {c},
         excl = c, ~Outside(d)
  PROVE  /\ UNCHANGED <<db, dbOld, committed>> /\ ~jrnl.magic /\ ~jrnl'.magic
         /\ d \in jopen => jrnl' = [jrnl EXCEPT !.dur = jrnl'.dur]
<1> USE DEF files, history
<1>0. /\ InPlace(c) /\ Locked(c) /\ ConnOK(c) /\ ConnOK(d) /\ HeaderOK(d) /\ FilesOK
      /\ jrnl \in Journal /\ dbOld \in [Page -> SUBSET (Stored \cup {Absent, Torn})]
      /\ pager \in [Conn -> PagerState]
  BY DEF InvUnder, Control, TypeOK
<1>1. /\ Vfs = "win" /\ pager[d].eState \in Modified /\ reserved # c /\ excl # d
      /\ pager[c].eState \notin Writer
  BY WhileTaken DEF InvUnder
<1>2. ~jrnl.magic /\ Clean
  BY <1>0, <1>1 DEF ConnOK, HeaderOK, NeedsClean, Writer
<1>3. CASE UNCHANGED <<db, dbOld, jrnl, committed>>
  <2>1. jrnl' = [jrnl EXCEPT !.dur = jrnl'.dur]
    BY <1>0, <1>3 DEF Journal
  <2> QED
    BY <1>2, <1>3, <2>1
<1>4. CASE Recover(c)
  <2>1. UNCHANGED <<db, dbOld, committed>>
    BY <1>2, <1>4 DEF Recover
  <2>2. jrnl' = jrnl \/ jrnl' = [jrnl EXCEPT !.dur = Records(jrnl)]
    BY <1>4 DEF Recover
  <2> QED
    BY <1>0, <1>2, <2>1, <2>2 DEF Journal
<1>5. CASE Replay(c)
  BY <1>0, <1>2, <1>5 DEF Replay, ConnOK, ReplayOK
<1>6. CASE ReplaySync(c)
  <2>1. dbOld' = dbOld
    BY <1>0, <1>2, <1>6 DEF ReplaySync, Clean
  <2> QED
    BY <1>2, <1>3, <1>6, <2>1 DEF ReplaySync
<1>7. CASE Finalize(c)
  <2>1. pager[c].eState = "OPEN" /\ pager[c].goal = "hot"
    BY <1>0, <1>1, <1>7 DEF Finalize, InPlace, Writer, Modified
  <2>2. UNCHANGED <<db, dbOld, committed>>
    BY <1>7, <2>1 DEF Finalize
  <2>3. jrnl' = jrnl \/ (jrnl' = NoJournal /\ d \notin jopen)
    BY <1>1, <1>2, <1>7, <2>1 DEF Finalize, FinalizeJournal, NothingRead
  <2>4. jrnl = [jrnl EXCEPT !.dur = jrnl.dur]
    BY <1>0 DEF Journal
  <2> QED
    BY <1>2, <2>2, <2>3, <2>4 DEF NoJournal
<1>8. CASE IoError(c)
  <2>1. UNCHANGED <<db, dbOld, jrnl, committed>>
    BY <1>0, <1>1, <1>2, <1>8 DEF IoError, Fault, ConnOK, ReplayOK, InPlace, Writer, Modified
  <2> QED
    BY <1>3, <2>1
<1>9. CASE Call(c) \/ Ends(c)
  <2>1. UNCHANGED <<db, dbOld, jrnl, committed>>
    BY <1>1, <1>9 DEF Call, SharedLock, EndRead, Begin, Commit, Rollback, Read, Write, Spill,
      PagerUnlock, Ends, Die, Fault, Ready, Writer, Modified
  <2> QED
    BY <1>3, <2>1
<1>10. CASE \/ JournalHeader(c) \/ JournalSync(c) \/ WriteDb(c) \/ DbSync(c) \/ FailedCommit(c)
  BY <1>0, <1>1, <1>10 DEF JournalHeader, JournalSync, WriteDb, DbSync, FailedCommit, InPlace,
    Writer, Modified
<1>11. CASE \/ HotExists(c) \/ HotReserved(c) \/ HotOpen(c) \/ HotByte(c) \/ HotLock(c)
            \/ HotExclusive(c) \/ HotFailed(c) \/ DeleteFails(c) \/ Downgrade(c) \/ Regain(c)
            \/ EndTransaction(c) \/ Validate(c) \/ Unlock(c) \/ LockPending(c)
            \/ LockUpgrade(c) \/ LockExclusive(c) \/ Reread(c)
  <2>1. UNCHANGED <<db, dbOld, jrnl, committed>>
    BY <1>11 DEF HotExists, HotReserved, HotOpen, HotByte, HotLock, HotExclusive, HotFailed,
      DeleteFails, Downgrade, Regain, EndTransaction, Validate, Unlock, LockPending,
      LockUpgrade, LockExclusive, Reread
  <2> QED
    BY <1>3, <2>1
<1> QED
  BY <1>4, <1>5, <1>6, <1>7, <1>8, <1>9, <1>10, <1>11 DEF Acts, Continue

(* The clauses of a connection that does not move.                         *)
LEMMA OthersOK ==
  ASSUME NEW k \in Key, InvUnder(k), ~exposed', NEW c \in Conn, Acts(c), NEW d \in Conn \ {c}
  PROVE  ConnOK(d)'
<1>0. /\ pager'[d] = pager[d] /\ rkey'[d] = rkey[d] /\ wkey'[d] = wkey[d]
      /\ d \in jopen' <=> d \in jopen
      /\ Locked(c) /\ Locked(d) /\ InPlace(c) /\ InPlace(d) /\ ConnOK(d)
      /\ excl \in Conn \cup {NoConn} /\ NoConn \notin Conn
  BY OthersStay, NoConnAssumption DEF InvUnder, Control, TypeOK, LockTypeOK
<1>1. ASSUME excl = c, ~Outside(d)
      PROVE  /\ UNCHANGED <<db, dbOld, committed>> /\ ~jrnl.magic /\ ~jrnl'.magic
             /\ d \in jopen => jrnl' = [jrnl EXCEPT !.dur = jrnl'.dur]
  BY <1>1, NothingDone
<1>2. ASSUME reserved = c PROVE pager[d].eState \notin Writer
  BY <1>0, <1>2 DEF Locked
<1>3. excl' = d <=> excl = d
  BY <1>0, LockEffect DEF InvUnder, Undisturbed, Taken
<1>4. /\ UNCHANGED <<db, dbOld>> \/ excl = c
      /\ UNCHANGED jrnl \/ excl = c \/ reserved = c
      /\ UNCHANGED committed \/ excl = c
      /\ jrnl'.magic => jrnl.magic \/ excl = c
  BY FileAccess DEF InvUnder
<1>5. NeedsClean(d)' => Clean'
  <2>1. CASE Outside(d)
    BY <1>0, <2>1 DEF NeedsClean, Outside, Writer, Modified
  <2>2. CASE ~Outside(d)
    <3>1. UNCHANGED <<db, dbOld, committed>>
      BY <1>1, <1>4, <2>2
    <3> QED
      BY <1>0, <1>3, <3>1 DEF ConnOK, NeedsClean, Clean
  <2> QED
    BY <2>1, <2>2
<1>6. ReplayOK(d)'
  <2>1. CASE pager[d].at = "replay"
    <3>1. excl = d
      BY <1>0, <2>1 DEF Locked, NeedsRange
    <3>2. excl # c /\ UNCHANGED <<db, dbOld, committed>>
      BY <1>4, <3>1
    <3>3. CASE UNCHANGED jrnl
      BY <1>0, <2>1, <3>2, <3>3 DEF ConnOK, ReplayOK, Records
    <3>4. CASE reserved = c
      <4>1. ~Outside(c)
        BY <1>0, <3>4 DEF Locked, Outside, Writer, Modified
      <4>2. pager[c].eState \in Modified /\ HeaderOK(c)
        BY <3>1, <4>1, WhileTaken DEF InvUnder
      <4>3. ~jrnl.magic /\ ~jrnl'.magic
        BY <1>4, <3>1, <3>2, <4>2 DEF HeaderOK
      <4> QED
        BY <1>0, <2>1, <3>2, <4>3 DEF ConnOK, ReplayOK
    <3> QED
      BY <1>4, <3>2, <3>3, <3>4
  <2> QED
    BY <1>0, <2>1 DEF ReplayOK
<1>7. StaleOK(d)'
  <2>1. CASE UNCHANGED committed
    BY <1>0, <2>1 DEF ConnOK, StaleOK, FirstPageFirst, Holds
  <2>2. CASE ~UNCHANGED committed
    <3>1. committed' = db /\ pager[c].at = "finalize" /\ pager[c].goal = "commit"
      BY <2>2, FileAccess DEF InvUnder
    <3>2. committed'[1].ctr = committed[1].ctr + 1 /\ committed[1].ctr \in Nat
      BY <3>1, CommittedPages, FirstPage DEF Stored
    <3>3. \A v \in FileVers : v.ctr \in Nat
      BY DEF FileVers
    <3> QED
      BY <1>0, <3>2, <3>3 DEF ConnOK, StaleOK, FirstPageFirst, Holds
  <2> QED
    BY <2>1, <2>2
<1>8. SettledOK(d)' /\ UnwrittenOK(d)'
  <2>1. UnwrittenOK(d)'
    <3>1. CASE pager[d].eState = "WRITER_LOCKED"
      <4>1. UNCHANGED committed
        BY <1>1, <1>4, <3>1 DEF Outside
      <4> QED
        BY <1>0, <3>1, <4>1 DEF ConnOK, UnwrittenOK, Ended, KnowsKey
    <3>2. CASE pager[d].eState # "WRITER_LOCKED"
      BY <1>0, <3>2 DEF ConnOK, UnwrittenOK, Ended
    <3> QED
      BY <3>1, <3>2
  <2>2. CASE UNCHANGED committed
    BY <1>0, <2>1, <2>2 DEF ConnOK, SettledOK, IsSettled, Ended, FirstPageFirst, Sized, Holds
  <2>3. CASE ~UNCHANGED committed
    BY <1>0, <1>1, <1>4, <2>1, <2>3 DEF SettledOK, IsSettled, Outside, Modified
  <2> QED
    BY <2>2, <2>3
<1>9. (JournalledOK(d) /\ CachedOK(d) /\ WrittenOK(d) /\ CommitOK(d))'
  <2>1. CASE pager[d].eState \notin Modified
    BY <1>0, <2>1 DEF JournalledOK, CachedOK, WrittenOK, CommitOK, IsChanging
  <2>2. CASE pager[d].eState \in Modified
    <3>1. ~Outside(d) /\ reserved # c
      BY <1>2, <2>2 DEF Outside, Writer, Modified
    <3>2. UNCHANGED <<db, dbOld, committed>>
      BY <1>1, <1>4, <3>1
    <3>3. IsChanging(d)' = IsChanging(d)
      BY <1>0 DEF IsChanging, Ended
    <3>4. JournalledOK(d)'
      <4>1. CASE UNCHANGED jrnl
        BY <1>0, <3>3, <4>1 DEF ConnOK, JournalledOK, Kept
      <4>2. CASE ~UNCHANGED jrnl /\ IsChanging(d)
        <5>1. d \in jopen /\ excl = c
          BY <1>4, <3>1, <4>2 DEF InvUnder, OpenOK
        <5>2. ~jrnl.magic /\ jrnl' = [jrnl EXCEPT !.dur = jrnl'.dur] /\ jrnl \in Journal
          BY <1>1, <3>1, <5>1 DEF InvUnder, TypeOK
        <5>3. /\ jrnl'.orig = jrnl.orig /\ jrnl'.rec = jrnl.rec /\ jrnl'.cnt = jrnl.cnt
              /\ jrnl'.firm = jrnl.firm /\ jrnl'.magic = jrnl.magic
          BY <5>2 DEF Journal
        <5>4. pager[d].eState = "WRITER_CACHEMOD" /\ pager[d].at \notin {"sync", "write"}
          BY <1>0, <4>2, <5>2 DEF ConnOK, JournalledOK, InPlace
        <5> QED
          BY <1>0, <4>2, <5>1, <5>3, <5>4 DEF ConnOK, JournalledOK
      <4> QED
        BY <3>3, <4>1, <4>2 DEF JournalledOK
    <3>5. CachedOK(d)'
      BY <1>0, <3>2, <3>3 DEF ConnOK, CachedOK, Holds, KnowsKey
    <3>6. WrittenOK(d)'
      BY <1>0, <3>2, <3>3 DEF ConnOK, WrittenOK
    <3>7. CommitOK(d)'
      BY <1>0, <3>2, <3>3 DEF ConnOK, CommitOK, Holds, Sized, Rewritten, UnderKey
    <3> QED
      BY <3>4, <3>5, <3>6, <3>7
  <2> QED
    BY <2>1, <2>2
<1> QED
  BY <1>5, <1>6, <1>7, <1>8, <1>9 DEF ConnOK

-----------------------------------------------------------------------------
(* Steps in which a connection moves on and changes nothing else.          *)
SameCache(c) ==
  /\ pager'[c].cache = pager[c].cache /\ pager'[c].dirty = pager[c].dirty
  /\ pager'[c].needSync = pager[c].needSync /\ pager'[c].inJournal = pager[c].inJournal
  /\ pager'[c].dbSize = pager[c].dbSize /\ pager'[c].dbOrigSize = pager[c].dbOrigSize
  /\ pager'[c].dbFileVers = pager[c].dbFileVers

SameFiles == UNCHANGED <<db, dbOld, jrnl, committed, keys>>

(* A step that changes neither files nor pages, only where a connection    *)
(* is.                                                                     *)
LEMMA Moved ==
  ASSUME NEW c \in Conn, ConnOK(c), SameCache(c), SameFiles,
         pager[c].at # "unlock",
         pager'[c].eState = pager[c].eState, pager'[c].tid = pager[c].tid,
         pager'[c].goal \in {pager[c].goal, "none"} \/ ~IsChanging(c)',
         pager'[c].at \notin {"sync", "write", "replay"},
         pager'[c].job \in {pager[c].job, {}},
         pager[c].at \notin {"write", "failed", "finalize"} \/ ~IsChanging(c)',
         NeedsClean(c)' => NeedsClean(c) \/ Clean,
         IsSettled(c)' => IsSettled(c),
         Ended(c)' /\ pager[c].eState \in Modified => Ended(c),
         IsChanging(c)' => IsChanging(c)
  PROVE  ConnOK(c)'
<1> USE DEF SameCache, SameFiles, keys
<1>1. (NeedsClean(c)' => Clean') /\ ReplayOK(c)'
  BY DEF ConnOK, ReplayOK, Clean
<1>2. StaleOK(c)'
  BY DEF ConnOK, StaleOK, FirstPageFirst, Holds
<1>3. SettledOK(c)'
  BY DEF ConnOK, SettledOK, FirstPageFirst, Holds, Sized
<1>4. UnwrittenOK(c)'
  BY DEF ConnOK, UnwrittenOK, Ended, KnowsKey
<1>5. JournalledOK(c)'
  BY DEF ConnOK, JournalledOK, Kept
<1>6. CachedOK(c)'
  BY DEF ConnOK, CachedOK, Holds, KnowsKey
<1>7. WrittenOK(c)'
  BY DEF ConnOK, WrittenOK
<1>8. CommitOK(c)'
  BY DEF ConnOK, CommitOK, Holds, Sized, Rewritten, UnderKey
<1> QED
  BY <1>1, <1>2, <1>3, <1>4, <1>5, <1>6, <1>7, <1>8 DEF ConnOK

(* The steps of that kind.                                                 *)
LEMMA MovesOK ==
  ASSUME NEW k \in Key, InvUnder(k), NEW c \in Conn,
         \/ SharedLock(c) \/ HotExists(c) \/ HotReserved(c) \/ HotOpen(c)
         \/ HotByte(c) \/ HotLock(c)
         \/ HotExclusive(c) \/ HotFailed(c) \/ DeleteFails(c) \/ Downgrade(c) \/ Regain(c)
         \/ LockPending(c) \/ LockUpgrade(c) \/ LockExclusive(c) \/ Reread(c)
  PROVE  ConnOK(c)'
<1> USE DEF Goto, Busy
<1>0. pager \in [Conn -> PagerState] /\ ConnOK(c) /\ InPlace(c) /\ Locked(c) /\ FilesOK
      /\ reserved \in Conn \cup {NoConn} /\ NoConn \notin Conn
  BY NoConnAssumption DEF InvUnder, TypeOK, LockTypeOK, Control
<1>1. CASE SharedLock(c)
  <2>1. /\ SameCache(c) /\ SameFiles
        /\ pager'[c].eState = pager[c].eState /\ pager'[c].tid = pager[c].tid
        /\ pager'[c].job \in {pager[c].job, {}} /\ pager[c].at = "idle"
        /\ pager'[c].at \in {"hotReserved", "hotExists"} /\ pager'[c].goal \in {pager[c].goal, "none"}
        /\ pager'[c].at # "idle" => pager'[c].goal = pager[c].goal
    BY <1>0, <1>1 DEF SharedLock, SameCache, SameFiles, files, history, PagerState
  <2>2. NeedsClean(c)' => NeedsClean(c)
    BY <1>0, <1>1, <2>1 DEF SharedLock, NeedsClean, InPlace, Writer, Modified, AcquireShared
  <2>3. /\ IsSettled(c)' => IsSettled(c)
        /\ Ended(c)' /\ pager[c].eState \in Modified => Ended(c)
        /\ IsChanging(c)' => IsChanging(c) /\ pager[c].at # "finalize"
    BY <1>0, <2>1 DEF InPlace, IsSettled, IsChanging, Ended, Modified
  <2> QED
    BY <1>0, <2>1, <2>2, <2>3, Moved
<1>2. CASE HotExists(c)
  <2>1. /\ SameCache(c) /\ SameFiles
        /\ pager'[c].eState = pager[c].eState /\ pager'[c].tid = pager[c].tid
        /\ pager'[c].job \in {pager[c].job, {}} /\ pager[c].at = "hotExists"
        /\ pager'[c].at \in {"hotReserved", "validate"} /\ pager'[c].goal \in {pager[c].goal, "none"}
        /\ pager'[c].at # "idle" => pager'[c].goal = pager[c].goal
    BY <1>0, <1>2 DEF HotExists, SameCache, SameFiles, files, history, PagerState
  <2>2. NeedsClean(c)' => Clean
    BY <1>0, <1>2, <2>1 DEF HotExists, FilesOK, Restores, Clean, NeedsClean, InPlace, Writer, Modified
  <2>3. /\ IsSettled(c)' => IsSettled(c)
        /\ Ended(c)' /\ pager[c].eState \in Modified => Ended(c)
        /\ IsChanging(c)' => IsChanging(c) /\ pager[c].at # "finalize"
    BY <1>0, <2>1 DEF InPlace, IsSettled, IsChanging, Ended, Modified
  <2> QED
    BY <1>0, <2>1, <2>2, <2>3, Moved
<1>3. CASE HotReserved(c)
  <2>1. /\ SameCache(c) /\ SameFiles
        /\ pager'[c].eState = pager[c].eState /\ pager'[c].tid = pager[c].tid
        /\ pager'[c].job \in {pager[c].job, {}} /\ pager[c].at = "hotReserved"
        /\ pager'[c].at \in {"hotOpen", "validate"} /\ pager'[c].goal \in {pager[c].goal, "none"}
        /\ pager'[c].at # "idle" => pager'[c].goal = pager[c].goal
    BY <1>0, <1>3 DEF HotReserved, SameCache, SameFiles, files, history, PagerState
  <2>2. NeedsClean(c)' => Clean
    <3>1. SUFFICES ASSUME reserved # NoConn PROVE Clean
      BY <1>0, <1>3, <2>1 DEF HotReserved, NeedsClean, InPlace, Writer, Modified
    <3>2. pager[reserved].eState \in Writer /\ (NeedsClean(reserved) => Clean)
      BY <1>0, <3>1 DEF InvUnder, Control, Locked, ConnOK
    <3>3. excl # reserved
      BY <1>0, <2>1, <3>1, <3>2
      DEF InPlace, Locked, Outside, MayLose, Gap, InvUnder, Control, Writer, Modified
    <3> QED
      BY <3>2, <3>3 DEF NeedsClean
  <2>3. /\ IsSettled(c)' => IsSettled(c)
        /\ Ended(c)' /\ pager[c].eState \in Modified => Ended(c)
        /\ IsChanging(c)' => IsChanging(c) /\ pager[c].at # "finalize"
    BY <1>0, <2>1 DEF InPlace, IsSettled, IsChanging, Ended, Modified
  <2> QED
    BY <1>0, <2>1, <2>2, <2>3, Moved
<1>4. CASE HotOpen(c)
  <2>1. /\ SameCache(c) /\ SameFiles
        /\ pager'[c].eState = pager[c].eState /\ pager'[c].tid = pager[c].tid
        /\ pager'[c].job \in {pager[c].job, {}} /\ pager[c].at = "hotOpen"
        /\ pager'[c].at \in {"hotByte", "hotLock", "validate"} /\ pager'[c].goal \in {pager[c].goal, "none"}
        /\ pager'[c].at # "idle" => pager'[c].goal = pager[c].goal
    BY <1>0, <1>4 DEF HotOpen, SameCache, SameFiles, files, history, PagerState
  <2>2. NeedsClean(c)' => Clean
    <3>1. pager'[c].at = "validate" => ~jrnl.magic
      BY <1>0, <1>4 DEF HotOpen, PagerState
    <3>2. ~jrnl.magic => Clean
      BY <1>0 DEF FilesOK, Restores, Clean
    <3> QED
      BY <1>0, <2>1, <3>1, <3>2 DEF NeedsClean, InPlace, Writer, Modified
  <2>3. /\ IsSettled(c)' => IsSettled(c)
        /\ Ended(c)' /\ pager[c].eState \in Modified => Ended(c)
        /\ IsChanging(c)' => IsChanging(c) /\ pager[c].at # "finalize"
    BY <1>0, <2>1 DEF InPlace, IsSettled, IsChanging, Ended, Modified
  <2> QED
    BY <1>0, <2>1, <2>2, <2>3, Moved
<1>b. CASE HotByte(c)
  <2>1. /\ SameCache(c) /\ SameFiles
        /\ pager'[c].eState = pager[c].eState /\ pager'[c].tid = pager[c].tid
        /\ pager'[c].job \in {pager[c].job, {}} /\ pager[c].at = "hotByte"
        /\ pager'[c].at \in {"hotLock", "validate"} /\ pager'[c].goal \in {pager[c].goal, "none"}
        /\ pager'[c].at # "idle" => pager'[c].goal = pager[c].goal
    BY <1>0, <1>b DEF HotByte, SameCache, SameFiles, files, history, PagerState
  <2>2. NeedsClean(c)' => Clean
    BY <1>0, <1>b, <2>1 DEF HotByte, FilesOK, Restores, Clean, NeedsClean, InPlace, Writer, Modified
  <2>3. /\ IsSettled(c)' => IsSettled(c)
        /\ Ended(c)' /\ pager[c].eState \in Modified => Ended(c)
        /\ IsChanging(c)' => IsChanging(c) /\ pager[c].at # "finalize"
    BY <1>0, <2>1 DEF InPlace, IsSettled, IsChanging, Ended, Modified
  <2> QED
    BY <1>0, <2>1, <2>2, <2>3, Moved
<1>5. CASE HotLock(c)
  <2>1. /\ SameCache(c) /\ SameFiles
        /\ pager'[c].eState = pager[c].eState /\ pager'[c].tid = pager[c].tid
        /\ pager'[c].job \in {pager[c].job, {}} /\ pager[c].at = "hotLock"
        /\ pager'[c].at \in {"hotExclusive", "recover", "unlock"} /\ pager'[c].goal \in {pager[c].goal, "none"}
        /\ pager'[c].at # "idle" => pager'[c].goal = pager[c].goal
    BY <1>0, <1>5 DEF HotLock, SameCache, SameFiles, files, history, PagerState
  <2>2. NeedsClean(c)' => NeedsClean(c)
    BY <1>0, <1>5, <2>1 DEF HotLock, NeedsClean, InPlace, Writer, Modified, DropRead, ConvertUp
  <2>3. /\ IsSettled(c)' => IsSettled(c)
        /\ Ended(c)' /\ pager[c].eState \in Modified => Ended(c)
        /\ IsChanging(c)' => IsChanging(c) /\ pager[c].at # "finalize"
    BY <1>0, <2>1 DEF InPlace, IsSettled, IsChanging, Ended, Modified
  <2> QED
    BY <1>0, <2>1, <2>2, <2>3, Moved
<1>6. CASE HotExclusive(c)
  <2>1. /\ SameCache(c) /\ SameFiles
        /\ pager'[c].eState = pager[c].eState /\ pager'[c].tid = pager[c].tid
        /\ pager'[c].job \in {pager[c].job, {}} /\ pager[c].at = "hotExclusive"
        /\ pager'[c].at \in {"recover", "hotFailed"} /\ pager'[c].goal \in {pager[c].goal, "none"}
        /\ pager'[c].at # "idle" => pager'[c].goal = pager[c].goal
    BY <1>0, <1>6 DEF HotExclusive, SameCache, SameFiles, files, history, PagerState
  <2>2. NeedsClean(c)' => NeedsClean(c)
    BY <1>0, <1>6, <2>1 DEF HotExclusive, NeedsClean, InPlace, Writer, Modified, TakeRange, AcquireExclusive
  <2>3. /\ IsSettled(c)' => IsSettled(c)
        /\ Ended(c)' /\ pager[c].eState \in Modified => Ended(c)
        /\ IsChanging(c)' => IsChanging(c) /\ pager[c].at # "finalize"
    BY <1>0, <2>1 DEF InPlace, IsSettled, IsChanging, Ended, Modified
  <2> QED
    BY <1>0, <2>1, <2>2, <2>3, Moved
<1>7. CASE HotFailed(c)
  <2>1. /\ SameCache(c) /\ SameFiles
        /\ pager'[c].eState = pager[c].eState /\ pager'[c].tid = pager[c].tid
        /\ pager'[c].job \in {pager[c].job, {}} /\ pager[c].at = "hotFailed"
        /\ pager'[c].at \in {"unlock"} /\ pager'[c].goal \in {pager[c].goal, "none"}
        /\ pager'[c].at # "idle" => pager'[c].goal = pager[c].goal
    BY <1>0, <1>7 DEF HotFailed, SameCache, SameFiles, files, history, PagerState
  <2>2. NeedsClean(c)' => NeedsClean(c)
    BY <1>0, <1>7, <2>1 DEF HotFailed, NeedsClean, InPlace, Writer, Modified, RegainRead, LoseRead
  <2>3. /\ IsSettled(c)' => IsSettled(c)
        /\ Ended(c)' /\ pager[c].eState \in Modified => Ended(c)
        /\ IsChanging(c)' => IsChanging(c) /\ pager[c].at # "finalize"
    BY <1>0, <2>1 DEF InPlace, IsSettled, IsChanging, Ended, Modified
  <2> QED
    BY <1>0, <2>1, <2>2, <2>3, Moved
<1>8. CASE DeleteFails(c)
  <2>1. /\ SameCache(c) /\ SameFiles
        /\ pager'[c].eState = pager[c].eState /\ pager'[c].tid = pager[c].tid
        /\ pager'[c].job \in {pager[c].job, {}} /\ pager[c].at = "finalize"
        /\ pager'[c].at \in {"unlock"} /\ pager'[c].goal \in {pager[c].goal, "none"}
        /\ pager'[c].at # "idle" => pager'[c].goal = pager[c].goal
    BY <1>0, <1>8 DEF DeleteFails, SameCache, SameFiles, files, history, PagerState
  <2>2. NeedsClean(c)' => NeedsClean(c)
    BY <1>0, <1>8, <2>1 DEF DeleteFails, lockVars, NeedsClean, InPlace, Writer, Modified
  <2>3. /\ IsSettled(c)' => IsSettled(c)
        /\ Ended(c)' /\ pager[c].eState \in Modified => Ended(c)
        /\ IsChanging(c)' => IsChanging(c) /\ pager[c].at # "finalize"
    BY <1>0, <2>1 DEF InPlace, IsSettled, IsChanging, Ended, Modified
  <2> QED
    BY <1>0, <2>1, <2>2, <2>3, Moved
<1>9. CASE Downgrade(c)
  <2>1. /\ SameCache(c) /\ SameFiles
        /\ pager'[c].eState = pager[c].eState /\ pager'[c].tid = pager[c].tid
        /\ pager'[c].job \in {pager[c].job, {}} /\ pager[c].at = "downgrade"
        /\ pager'[c].at \in {"regain", "release"} /\ pager'[c].goal \in {pager[c].goal, "none"}
        /\ pager'[c].at # "idle" => pager'[c].goal = pager[c].goal
    BY <1>0, <1>9 DEF Downgrade, SameCache, SameFiles, files, history, PagerState
  <2>2. NeedsClean(c)' => NeedsClean(c)
    BY <1>0, <1>9, <2>1 DEF Downgrade, NeedsClean, InPlace, Writer, Modified, DropExclusive, ConvertDown
  <2>3. /\ IsSettled(c)' => IsSettled(c)
        /\ Ended(c)' /\ pager[c].eState \in Modified => Ended(c)
        /\ IsChanging(c)' => IsChanging(c) /\ pager[c].at # "finalize"
    BY <1>0, <2>1 DEF InPlace, IsSettled, IsChanging, Ended, Modified
  <2> QED
    BY <1>0, <2>1, <2>2, <2>3, Moved
<1>10. CASE Regain(c)
  <2>1. /\ SameCache(c) /\ SameFiles
        /\ pager'[c].eState = pager[c].eState /\ pager'[c].tid = pager[c].tid
        /\ pager'[c].job \in {pager[c].job, {}} /\ pager[c].at = "regain"
        /\ pager'[c].at \in {"release", "unlock"} /\ pager'[c].goal \in {pager[c].goal, "none"}
        /\ pager'[c].at # "idle" => pager'[c].goal = pager[c].goal
    BY <1>0, <1>10 DEF Regain, SameCache, SameFiles, files, history, PagerState
  <2>2. NeedsClean(c)' => NeedsClean(c)
    BY <1>0, <1>10, <2>1 DEF Regain, NeedsClean, InPlace, Writer, Modified, RegainRead, LoseRead
  <2>3. /\ IsSettled(c)' => IsSettled(c)
        /\ Ended(c)' /\ pager[c].eState \in Modified => Ended(c)
        /\ IsChanging(c)' => IsChanging(c) /\ pager[c].at # "finalize"
    BY <1>0, <2>1 DEF InPlace, IsSettled, IsChanging, Ended, Modified
  <2> QED
    BY <1>0, <2>1, <2>2, <2>3, Moved
<1>11. CASE LockPending(c)
  <2>1. /\ SameCache(c) /\ SameFiles
        /\ pager'[c].eState = pager[c].eState /\ pager'[c].tid = pager[c].tid
        /\ pager'[c].job \in {pager[c].job, {}} /\ pager[c].at = "pending"
        /\ pager'[c].at \in {"upgrade", "idle"} /\ pager'[c].goal \in {pager[c].goal, "none"}
        /\ pager'[c].at # "idle" => pager'[c].goal = pager[c].goal
    BY <1>0, <1>11 DEF LockPending, SameCache, SameFiles, files, history, PagerState
  <2>2. NeedsClean(c)' => NeedsClean(c)
    BY <1>0, <1>11, <2>1 DEF LockPending, NeedsClean, InPlace, Writer, Modified, AcquirePending, lockVars
  <2>3. /\ IsSettled(c)' => IsSettled(c)
        /\ Ended(c)' /\ pager[c].eState \in Modified => Ended(c)
        /\ IsChanging(c)' => IsChanging(c) /\ pager[c].at # "finalize"
    BY <1>0, <2>1 DEF InPlace, IsSettled, IsChanging, Ended, Modified
  <2> QED
    BY <1>0, <2>1, <2>2, <2>3, Moved
<1>12. CASE LockUpgrade(c)
  <2>1. /\ SameCache(c) /\ SameFiles
        /\ pager'[c].eState = pager[c].eState /\ pager'[c].tid = pager[c].tid
        /\ pager'[c].job \in {pager[c].job, {}} /\ pager[c].at = "upgrade"
        /\ pager'[c].at \in {"exclusive", "header", "idle"} /\ pager'[c].goal \in {pager[c].goal, "none"}
        /\ pager'[c].at # "idle" => pager'[c].goal = pager[c].goal
    BY <1>0, <1>12 DEF LockUpgrade, SameCache, SameFiles, files, history, PagerState
  <2>2. NeedsClean(c)' => NeedsClean(c)
    BY <1>0, <1>12, <2>1 DEF LockUpgrade, NeedsClean, InPlace, Writer, Modified, DropRead, ConvertUp, lockVars
  <2>3. /\ IsSettled(c)' => IsSettled(c)
        /\ Ended(c)' /\ pager[c].eState \in Modified => Ended(c)
        /\ IsChanging(c)' => IsChanging(c) /\ pager[c].at # "finalize"
    BY <1>0, <2>1 DEF InPlace, IsSettled, IsChanging, Ended, Modified
  <2> QED
    BY <1>0, <2>1, <2>2, <2>3, Moved
<1>13. CASE LockExclusive(c)
  <2>1. /\ SameCache(c) /\ SameFiles
        /\ pager'[c].eState = pager[c].eState /\ pager'[c].tid = pager[c].tid
        /\ pager'[c].job \in {pager[c].job, {}} /\ pager[c].at = "exclusive"
        /\ pager'[c].at \in {"header", "reread"} /\ pager'[c].goal \in {pager[c].goal, "none"}
        /\ pager'[c].at # "idle" => pager'[c].goal = pager[c].goal
    BY <1>0, <1>13 DEF LockExclusive, SameCache, SameFiles, files, history, PagerState
  <2>2. NeedsClean(c)' => NeedsClean(c)
    BY <1>0, <1>13, <2>1 DEF LockExclusive, NeedsClean, InPlace, Writer, Modified, TakeRange, AcquireExclusive, lockVars
  <2>3. /\ IsSettled(c)' => IsSettled(c)
        /\ Ended(c)' /\ pager[c].eState \in Modified => Ended(c)
        /\ IsChanging(c)' => IsChanging(c) /\ pager[c].at # "finalize"
    BY <1>0, <2>1 DEF InPlace, IsSettled, IsChanging, Ended, Modified
  <2> QED
    BY <1>0, <2>1, <2>2, <2>3, Moved
<1>14. CASE Reread(c)
  <2>1. /\ SameCache(c) /\ SameFiles
        /\ pager'[c].eState = pager[c].eState /\ pager'[c].tid = pager[c].tid
        /\ pager'[c].job \in {pager[c].job, {}} /\ pager[c].at = "reread"
        /\ pager'[c].at \in {"idle"} /\ pager'[c].goal \in {pager[c].goal, "none"}
        /\ pager'[c].at # "idle" => pager'[c].goal = pager[c].goal
    BY <1>0, <1>14 DEF Reread, SameCache, SameFiles, files, history, PagerState
  <2>2. NeedsClean(c)' => NeedsClean(c)
    BY <1>0, <1>14, <2>1 DEF Reread, NeedsClean, InPlace, Writer, Modified, RegainRead, LoseRead
  <2>3. /\ IsSettled(c)' => IsSettled(c)
        /\ Ended(c)' /\ pager[c].eState \in Modified => Ended(c)
        /\ IsChanging(c)' => IsChanging(c) /\ pager[c].at # "finalize"
    BY <1>0, <2>1 DEF InPlace, IsSettled, IsChanging, Ended, Modified
  <2> QED
    BY <1>0, <2>1, <2>2, <2>3, Moved
<1> QED
  BY <1>1, <1>2, <1>3, <1>b, <1>4, <1>5, <1>6, <1>7, <1>8, <1>9, <1>10, <1>11, <1>12, <1>13, <1>14

-----------------------------------------------------------------------------
(* The fields of struct Pager after a step of c.                           *)
LEMMA BeginFields ==
  ASSUME TypeOK, NEW c \in Conn, Begin(c)
  PROVE  /\ pager'[c].eState = "WRITER_LOCKED" /\ pager'[c].at = pager[c].at
         /\ pager'[c].goal = pager[c].goal /\ pager'[c].job = pager[c].job
         /\ pager'[c].cache = pager[c].cache /\ pager'[c].dirty = pager[c].dirty
         /\ pager'[c].needSync = pager[c].needSync
         /\ pager'[c].inJournal = pager[c].inJournal
         /\ pager'[c].dbSize = pager[c].dbSize
         /\ pager'[c].dbOrigSize = pager[c].dbSize
         /\ pager'[c].dbFileVers = pager[c].dbFileVers /\ pager'[c].tid = ntxn + 1
<1>1. pager \in [Conn -> PagerState] /\ pager[c] \in PagerState
  BY DEF TypeOK
<1> QED
  BY <1>1 DEF Begin, PagerState

(* The steps that follow change these fields.                              *)
LEMMA ReadFields ==
  ASSUME TypeOK, NEW c \in Conn, NEW p \in Page, Read(c, p)
  PROVE  /\ pager'[c].eState = pager[c].eState /\ pager'[c].at = pager[c].at
         /\ pager'[c].goal = pager[c].goal /\ pager'[c].job = pager[c].job
         /\ pager'[c].cache = [pager[c].cache EXCEPT ![p] = Decrypt(rkey[c], db[p])]
         /\ pager'[c].dirty = pager[c].dirty
         /\ pager'[c].needSync = pager[c].needSync
         /\ pager'[c].inJournal = pager[c].inJournal
         /\ pager'[c].dbSize = pager[c].dbSize
         /\ pager'[c].dbOrigSize = pager[c].dbOrigSize
         /\ pager'[c].dbFileVers = IF p = 1 THEN Version(db[1]) ELSE pager[c].dbFileVers
         /\ pager'[c].tid = pager[c].tid
<1>1. pager \in [Conn -> PagerState] /\ pager[c] \in PagerState
  BY DEF TypeOK
<1> QED
  BY <1>1 DEF Read, PagerState

(* Spilling a page.                                                        *)
LEMMA SpillFields ==
  ASSUME TypeOK, NEW c \in Conn, NEW p \in Page, Spill(c, p)
  PROVE  /\ pager'[c].eState = pager[c].eState
         /\ pager'[c].at = IF p \in pager[c].needSync \/ pager[c].eState = "WRITER_CACHEMOD"
                           THEN LockStart(c) ELSE "write"
         /\ pager'[c].goal = "spill" /\ pager'[c].job = {p}
         /\ pager'[c].cache = pager[c].cache /\ pager'[c].dirty = pager[c].dirty
         /\ pager'[c].needSync = pager[c].needSync
         /\ pager'[c].inJournal = pager[c].inJournal
         /\ pager'[c].dbSize = pager[c].dbSize
         /\ pager'[c].dbOrigSize = pager[c].dbOrigSize
         /\ pager'[c].dbFileVers = pager[c].dbFileVers
         /\ pager'[c].tid = pager[c].tid
<1>1. pager \in [Conn -> PagerState] /\ pager[c] \in PagerState
  BY DEF TypeOK
<1> QED
  BY <1>1 DEF Spill, PagerState

(* The journal is replayed, if there is one.                               *)
LEMMA RecoverFields ==
  ASSUME TypeOK, NEW c \in Conn, Recover(c)
  PROVE  /\ pager'[c].eState = pager[c].eState
         /\ pager'[c].at = IF jrnl.exists THEN "replay" ELSE "downgrade"
         /\ pager'[c].goal = IF jrnl.exists THEN "hot" ELSE "quiet"
         /\ pager'[c].job = IF jrnl.exists THEN Playable(jrnl) ELSE pager[c].job
         /\ pager'[c].cache = IF jrnl.exists /\ Playable(jrnl) # {} THEN Empty ELSE pager[c].cache
         /\ pager'[c].dirty = pager[c].dirty
         /\ pager'[c].needSync = pager[c].needSync
         /\ pager'[c].inJournal = pager[c].inJournal
         /\ pager'[c].dbSize = pager[c].dbSize
         /\ pager'[c].dbOrigSize = pager[c].dbOrigSize
         /\ pager'[c].dbFileVers = pager[c].dbFileVers
         /\ pager'[c].tid = pager[c].tid
<1>1. pager \in [Conn -> PagerState] /\ pager[c] \in PagerState
  BY DEF TypeOK
<1> QED
  BY <1>1 DEF Recover, PagerState

(* The end of the journal ...                                              *)
LEMMA FinalizeFields ==
  ASSUME TypeOK, NEW c \in Conn, Finalize(c)
  PROVE  /\ pager'[c].eState = pager[c].eState
         /\ pager'[c].at = IF excl = c THEN "downgrade" ELSE "release"
         /\ pager'[c].goal = pager[c].goal /\ pager'[c].job = pager[c].job
         /\ pager'[c].cache = pager[c].cache /\ pager'[c].dirty = {}
         /\ pager'[c].needSync = {} /\ pager'[c].inJournal = {}
         /\ pager'[c].dbSize = pager[c].dbSize
         /\ pager'[c].dbOrigSize = pager[c].dbOrigSize
         /\ pager'[c].dbFileVers = pager[c].dbFileVers
         /\ pager'[c].tid = pager[c].tid
<1>1. pager \in [Conn -> PagerState] /\ pager[c] \in PagerState
  BY DEF TypeOK
<1> QED
  BY <1>1 DEF Finalize, PagerState

(* ... and of the transaction.                                             *)
LEMMA EndTransactionFields ==
  ASSUME TypeOK, NEW c \in Conn, EndTransaction(c)
  PROVE  /\ pager'[c].eState = IF pager[c].eState \in Writer THEN "READER" ELSE pager[c].eState
         /\ pager'[c].at = IF pager[c].goal \in {"hot", "quiet"} THEN "validate" ELSE "idle"
         /\ pager'[c].goal = "none" /\ pager'[c].job = pager[c].job
         /\ pager'[c].cache = pager[c].cache /\ pager'[c].dirty = pager[c].dirty
         /\ pager'[c].needSync = pager[c].needSync
         /\ pager'[c].inJournal = pager[c].inJournal
         /\ pager'[c].dbSize = pager[c].dbSize
         /\ pager'[c].dbOrigSize = pager[c].dbOrigSize
         /\ pager'[c].dbFileVers = pager[c].dbFileVers /\ pager'[c].tid = 0
<1>1. pager \in [Conn -> PagerState] /\ pager[c] \in PagerState
  BY DEF TypeOK
<1> QED
  BY <1>1 DEF EndTransaction, PagerState

(* A new transaction looks whether the file has changed.                   *)
LEMMA ValidateFields ==
  ASSUME TypeOK, NEW c \in Conn, Validate(c)
  PROVE  /\ pager'[c].eState = "READER" /\ pager'[c].at = "idle"
         /\ pager'[c].goal = pager[c].goal /\ pager'[c].job = pager[c].job
         /\ pager'[c].cache = IF pager[c].dbFileVers = Version(db[1]) THEN pager[c].cache ELSE Empty
         /\ pager'[c].dirty = pager[c].dirty
         /\ pager'[c].needSync = pager[c].needSync
         /\ pager'[c].inJournal = pager[c].inJournal /\ pager'[c].dbSize = Size(db)
         /\ pager'[c].dbOrigSize = pager[c].dbOrigSize
         /\ pager'[c].dbFileVers = pager[c].dbFileVers
         /\ pager'[c].tid = pager[c].tid
<1>1. pager \in [Conn -> PagerState] /\ pager[c] \in PagerState
  BY DEF TypeOK
<1> QED
  BY <1>1 DEF Validate, PagerState

(* The journal is synced before the database is written, ...               *)
LEMMA JournalSyncFields ==
  ASSUME TypeOK, NEW c \in Conn, JournalSync(c)
  PROVE  /\ pager'[c].eState = "WRITER_DBMOD" /\ pager'[c].at = "write"
         /\ pager'[c].goal = pager[c].goal
         /\ pager'[c].job = IF pager[c].goal = "commit" THEN pager[c].dirty ELSE pager[c].job
         /\ pager'[c].cache = pager[c].cache /\ pager'[c].dirty = pager[c].dirty
         /\ pager'[c].needSync = {} /\ pager'[c].inJournal = pager[c].inJournal
         /\ pager'[c].dbSize = pager[c].dbSize
         /\ pager'[c].dbOrigSize = pager[c].dbOrigSize
         /\ pager'[c].dbFileVers = pager[c].dbFileVers
         /\ pager'[c].tid = pager[c].tid
<1>1. pager \in [Conn -> PagerState] /\ pager[c] \in PagerState
  BY DEF TypeOK
<1> QED
  BY <1>1 DEF JournalSync, PagerState

(* ... the database before the journal is deleted, ...                     *)
LEMMA DbSyncFields ==
  ASSUME TypeOK, NEW c \in Conn, DbSync(c)
  PROVE  /\ pager'[c].eState = "WRITER_FINISHED" /\ pager'[c].at = "finalize"
         /\ pager'[c].goal = pager[c].goal /\ pager'[c].job = pager[c].job
         /\ pager'[c].cache = pager[c].cache /\ pager'[c].dirty = pager[c].dirty
         /\ pager'[c].needSync = pager[c].needSync
         /\ pager'[c].inJournal = pager[c].inJournal
         /\ pager'[c].dbSize = pager[c].dbSize
         /\ pager'[c].dbOrigSize = pager[c].dbOrigSize
         /\ pager'[c].dbFileVers = pager[c].dbFileVers
         /\ pager'[c].tid = pager[c].tid
<1>1. pager \in [Conn -> PagerState] /\ pager[c] \in PagerState
  BY DEF TypeOK
<1> QED
  BY <1>1 DEF DbSync, PagerState

(* ... and the header of the journal is written with its count.            *)
LEMMA JournalHeaderFields ==
  ASSUME TypeOK, NEW c \in Conn, JournalHeader(c)
  PROVE  /\ pager'[c].eState = pager[c].eState /\ pager'[c].at = "sync"
         /\ pager'[c].goal = pager[c].goal /\ pager'[c].job = pager[c].job
         /\ pager'[c].cache = pager[c].cache /\ pager'[c].dirty = pager[c].dirty
         /\ pager'[c].needSync = pager[c].needSync
         /\ pager'[c].inJournal = pager[c].inJournal
         /\ pager'[c].dbSize = pager[c].dbSize
         /\ pager'[c].dbOrigSize = pager[c].dbOrigSize
         /\ pager'[c].dbFileVers = pager[c].dbFileVers
         /\ pager'[c].tid = pager[c].tid
<1>1. pager \in [Conn -> PagerState] /\ pager[c] \in PagerState
  BY DEF TypeOK
<1> QED
  BY <1>1 DEF JournalHeader, Goto, PagerState

(* What has been replayed is synced.                                       *)
LEMMA ReplaySyncFields ==
  ASSUME TypeOK, NEW c \in Conn, ReplaySync(c)
  PROVE  /\ pager'[c].eState = pager[c].eState /\ pager'[c].at = "finalize"
         /\ pager'[c].goal = pager[c].goal /\ pager'[c].job = pager[c].job
         /\ pager'[c].cache = pager[c].cache /\ pager'[c].dirty = pager[c].dirty
         /\ pager'[c].needSync = pager[c].needSync
         /\ pager'[c].inJournal = pager[c].inJournal
         /\ pager'[c].dbSize = pager[c].dbSize
         /\ pager'[c].dbOrigSize = pager[c].dbOrigSize
         /\ pager'[c].dbFileVers = pager[c].dbFileVers
         /\ pager'[c].tid = pager[c].tid
<1>1. pager \in [Conn -> PagerState] /\ pager[c] \in PagerState
  BY DEF TypeOK
<1> QED
  BY <1>1 DEF ReplaySync, Goto, PagerState

(* A step fails.                                                           *)
LEMMA IoErrorFields ==
  ASSUME TypeOK, NEW c \in Conn, IoError(c)
  PROVE  /\ pager'[c].eState = pager[c].eState
         /\ pager'[c].at = IF pager[c].goal = "commit" /\ pager[c].at # "finalize" THEN "failed" ELSE "unlock"
         /\ pager'[c].goal = pager[c].goal /\ pager'[c].job = pager[c].job
         /\ pager'[c].cache = pager[c].cache /\ pager'[c].dirty = pager[c].dirty
         /\ pager'[c].needSync = pager[c].needSync
         /\ pager'[c].inJournal = pager[c].inJournal
         /\ pager'[c].dbSize = pager[c].dbSize
         /\ pager'[c].dbOrigSize = pager[c].dbOrigSize
         /\ pager'[c].dbFileVers = pager[c].dbFileVers
         /\ pager'[c].tid = pager[c].tid
<1>1. pager \in [Conn -> PagerState] /\ pager[c] \in PagerState
  BY DEF TypeOK
<1> QED
  BY <1>1 DEF IoError, Goto, PagerState

-----------------------------------------------------------------------------
(* The clauses of a connection after a step of its own.                    *)
LEMMA ActorFacts ==
  ASSUME NEW k \in Key, InvUnder(k), NEW c \in Conn
  PROVE  /\ ConnOK(c) /\ InPlace(c) /\ Locked(c) /\ FilesOK
         /\ rkey[c] \in Key /\ wkey[c] \in Key /\ pager[c] \in PagerState
         /\ pager \in [Conn -> PagerState]
         /\ \A p \in Page : committed[p] # Absent =>
              committed[p] \in Stored /\ committed[p].key = k
         /\ KnowsKey(c) => rkey[c] = k
<1>1. \A p \in Page : committed[p] # Absent => committed[p] \in Stored /\ committed[p].key = k
  BY DEF InvUnder, TypeOK, KeysOK, UnderKey
<1>2. KnowsKey(c) => rkey[c] = k
  BY FirstPage DEF KnowsKey
<1> QED
  BY <1>1, <1>2 DEF InvUnder, Control, TypeOK

(* A connection that has let everything go.                                *)
LEMMA FreshOK ==
  ASSUME NEW c \in Conn, FilesOK,
         \/ pager'[c] = Fresh
         \/ \E v : pager'[c] = [Fresh EXCEPT !.cache = Empty, !.dbFileVers = v]
  PROVE  ConnOK(c)'
<1>1. /\ pager'[c].eState = "OPEN" /\ pager'[c].at = "idle" /\ pager'[c].goal = "none"
      /\ pager'[c].cache = Empty /\ pager'[c].dirty = {}
      /\ pager'[c].needSync = {} /\ pager'[c].inJournal = {}
  <2>1. CASE pager'[c] = Fresh
    BY <2>1 DEF Fresh
  <2>2. ASSUME NEW v, pager'[c] = [Fresh EXCEPT !.cache = Empty, !.dbFileVers = v]
        PROVE  /\ pager'[c].eState = Fresh.eState /\ pager'[c].at = Fresh.at
               /\ pager'[c].goal = Fresh.goal /\ pager'[c].cache = Empty
               /\ pager'[c].dirty = Fresh.dirty /\ pager'[c].needSync = Fresh.needSync
               /\ pager'[c].inJournal = Fresh.inJournal
    BY <2>2 DEF Fresh
  <2>3. /\ Fresh.eState = "OPEN" /\ Fresh.at = "idle" /\ Fresh.goal = "none"
        /\ Fresh.dirty = {} /\ Fresh.needSync = {} /\ Fresh.inJournal = {}
    BY DEF Fresh
  <2> QED
    BY <2>1, <2>2, <2>3
<1>2. \A p \in Page : pager'[c].cache[p] = Absent
  BY <1>1 DEF Empty
<1> QED
  BY <1>1, <1>2, SomeTypes
  DEF ConnOK, NeedsClean, ReplayOK, StaleOK, SettledOK, UnwrittenOK, JournalledOK, CachedOK,
      WrittenOK, CommitOK, IsSettled, IsChanging, Ended, FirstPageFirst, Writer, Modified

(* A reader ends and keeps its cache.                                      *)
LEMMA EndReadOK ==
  ASSUME NEW k \in Key, InvUnder(k), NEW c \in Conn, EndRead(c)
  PROVE  ConnOK(c)'
<1>0. ConnOK(c) /\ pager \in [Conn -> PagerState]
  BY ActorFacts
<1>1. /\ pager'[c].eState = "OPEN" /\ pager'[c].at = "idle" /\ pager'[c].goal = "none"
      /\ pager'[c].cache = pager[c].cache /\ pager'[c].dirty = {}
      /\ pager'[c].needSync = {} /\ pager'[c].inJournal = {}
      /\ pager'[c].dbFileVers = pager[c].dbFileVers
      /\ UNCHANGED <<db, dbOld, jrnl, committed, rkey, wkey>>
  BY <1>0 DEF EndRead, PagerUnlock, Fresh, files, keys, history
<1>2. SettledOK(c) /\ IsSettled(c)
  BY <1>0 DEF ConnOK, EndRead, Ready, IsSettled
<1>3. StaleOK(c)'
  <2>1. FirstPageFirst(c)'
    BY <1>1, <1>2 DEF SettledOK, FirstPageFirst
  <2>2. committed[1].ctr \in Nat
    BY FirstPage DEF Stored
  <2> QED
    BY <1>0, <1>1, <1>2, <2>1, <2>2, FirstPage DEF StaleOK, SettledOK, Holds
<1> QED
  BY <1>1, <1>3
  DEF ConnOK, NeedsClean, ReplayOK, SettledOK, UnwrittenOK, JournalledOK, CachedOK,
      WrittenOK, CommitOK, IsSettled, IsChanging, Ended, Writer, Modified

(* A reader becomes the writer.                                            *)
LEMMA BeginOK ==
  ASSUME NEW k \in Key, InvUnder(k), NEW c \in Conn, Begin(c), KnowsKey(c)
  PROVE  ConnOK(c)'
<1>0. ConnOK(c) /\ pager[c].eState = "READER" /\ pager[c].at = "idle"
      /\ pager[c].cache[1] \notin {Absent, Garbage}
      /\ UNCHANGED <<db, dbOld, jrnl, committed, rkey, wkey>>
  BY ActorFacts DEF Begin, Ready, files, keys
<1>1. (NeedsClean(c)' => Clean') /\ ReplayOK(c)' /\ StaleOK(c)'
  BY <1>0, BeginFields DEF InvUnder, ConnOK, NeedsClean, Clean, ReplayOK, StaleOK
<1>2. SettledOK(c)'
  BY <1>0, BeginFields DEF InvUnder, ConnOK, SettledOK, IsSettled, FirstPageFirst, Sized, Holds
<1>3. UnwrittenOK(c)'
  BY <1>0, BeginFields DEF InvUnder, ConnOK, UnwrittenOK, Modified, KnowsKey
<1>4. ~IsChanging(c)'
  BY BeginFields DEF InvUnder, IsChanging, Modified
<1> QED
  BY <1>1, <1>2, <1>3, <1>4 DEF ConnOK, JournalledOK, CachedOK, WrittenOK, CommitOK

(* A writer becomes a reader, or a recovery is over.                       *)
LEMMA EndTransactionOK ==
  ASSUME NEW k \in Key, InvUnder(k), NEW c \in Conn, EndTransaction(c)
  PROVE  ConnOK(c)'
<1>0. ConnOK(c) /\ InPlace(c) /\ pager[c].at = "release" /\ TypeOK /\ pager[c] \in PagerState
      /\ UNCHANGED <<db, dbOld, jrnl, committed, rkey, wkey>>
  BY ActorFacts DEF EndTransaction, files, keys, history, InvUnder
<1>1. /\ pager'[c].at = IF pager[c].eState = "OPEN" THEN "validate" ELSE "idle"
      /\ pager'[c].eState = IF pager[c].eState = "OPEN" THEN "OPEN" ELSE "READER"
  BY <1>0, EndTransactionFields DEF InPlace, Writer, Modified, PagerState, EState
<1>2. ReplayOK(c)' /\ StaleOK(c)'
  BY <1>0, <1>1, EndTransactionFields DEF ConnOK, ReplayOK, StaleOK, FirstPageFirst, Holds
<1>3. NeedsClean(c)' => Clean'
  BY <1>0 DEF ConnOK, NeedsClean, Clean
<1>4. SettledOK(c)'
  <2>1. pager[c].eState # "OPEN" => IsSettled(c)
    BY <1>0 DEF InPlace, IsSettled, Ended, PagerState, EState, Modified
  <2> QED
    BY <1>0, <1>1, <2>1, EndTransactionFields
    DEF ConnOK, SettledOK, IsSettled, FirstPageFirst, Sized, Holds, Modified
<1>5. UnwrittenOK(c)' /\ ~IsChanging(c)'
  BY <1>0, <1>1, EndTransactionFields DEF ConnOK, UnwrittenOK, Modified, IsChanging, Ended
<1> QED
  BY <1>2, <1>3, <1>4, <1>5 DEF ConnOK, JournalledOK, CachedOK, WrittenOK, CommitOK

(* The cache is kept only if it is the committed content.                  *)
LEMMA ValidateOK ==
  ASSUME NEW k \in Key, InvUnder(k), NEW c \in Conn, Validate(c)
  PROVE  ConnOK(c)'
<1>0. ConnOK(c) /\ InPlace(c) /\ pager[c].at = "validate" /\ TypeOK
      /\ pager[c].eState = "OPEN" /\ Clean
      /\ UNCHANGED <<db, dbOld, jrnl, committed, rkey, wkey>>
  BY ActorFacts DEF Validate, files, keys, history, InvUnder, ConnOK, NeedsClean, InPlace
<1>1. PICK n \in Page : Sized(committed, n)
  BY DEF InvUnder, FilesOK
<1>2. Sized(committed, Size(db))
  <2>1. Sized(db, n) /\ n \in 0 .. MaxPage
    BY <1>0, <1>1, SomeTypes DEF Sized, Clean
  <2> QED
    BY <1>1, <2>1, SizeOf
<1>3. (NeedsClean(c)' => Clean') /\ ReplayOK(c)' /\ StaleOK(c)' /\ ~IsChanging(c)'
  BY <1>0, ValidateFields DEF Clean, ReplayOK, StaleOK, IsChanging, Modified
<1>4. UnwrittenOK(c)'
  BY <1>0, ValidateFields DEF ConnOK, UnwrittenOK, Modified, Ended
<1>5. db[1] = committed[1]
  BY <1>0, SomeTypes DEF Clean
<1>6. SettledOK(c)'
  <2>1. CASE pager[c].dbFileVers = Version(committed[1])
    BY <1>0, <1>2, <1>5, <2>1, ValidateFields, FirstPage
    DEF ConnOK, StaleOK, SettledOK, FirstPageFirst, Holds, Sized
  <2>2. CASE pager[c].dbFileVers # Version(committed[1])
    BY <1>0, <1>2, <1>5, <2>2, ValidateFields, SomeTypes
    DEF SettledOK, FirstPageFirst, Empty, Sized
  <2> QED
    BY <2>1, <2>2
<1> QED
  BY <1>3, <1>4, <1>6 DEF ConnOK, JournalledOK, CachedOK, WrittenOK, CommitOK

(* What is journalled can be restored: other pages are as committed.       *)
LEMMA ChangingFacts ==
  ASSUME NEW k \in Key, InvUnder(k), NEW c \in Conn, IsChanging(c)
  PROVE  /\ Sized(committed, pager[c].dbOrigSize) /\ Sized(committed, jrnl.orig)
         /\ jrnl.orig = pager[c].dbOrigSize /\ jrnl.orig \in Page
         /\ pager[c].dbOrigSize \in Page /\ pager[c].dbSize \in Page
         /\ pager[c].dbOrigSize <= pager[c].dbSize
         /\ pager[c].tid \in 0 .. MaxTxn
         /\ \A p \in Page : p <= pager[c].dbOrigSize /\ p \notin pager[c].inJournal
                            => db[p] = committed[p]
         /\ \A p \in Page : p \in pager[c].inJournal =>
              jrnl.rec[p] # Absent /\ jrnl.rec[p] = committed[p] /\ p <= pager[c].dbOrigSize
<1>0. JournalledOK(c) /\ Restores(jrnl, committed) /\ pager[c] \in PagerState
  BY ActorFacts DEF ConnOK, FilesOK
<1>1. jrnl.orig = pager[c].dbOrigSize /\ jrnl.orig # 0 /\ pager[c].dbOrigSize <= pager[c].dbSize
      /\ pager[c].dbOrigSize \in 0 .. MaxPage /\ pager[c].dbSize \in 0 .. MaxPage
      /\ pager[c].tid \in 0 .. MaxTxn
  BY <1>0 DEF JournalledOK, PagerState
<1>2. Sized(committed, jrnl.orig)
  BY <1>0, <1>1 DEF Restores
<1>3. \A p \in Page : p <= pager[c].dbOrigSize /\ p \notin pager[c].inJournal => db[p] = committed[p]
  BY <1>0, <1>1 DEF Restores, JournalledOK, Kept
<1>4. \A p \in Page : p \in pager[c].inJournal =>
        jrnl.rec[p] # Absent /\ jrnl.rec[p] = committed[p] /\ p <= pager[c].dbOrigSize
  BY <1>0, <1>1 DEF Restores, JournalledOK
<1> QED
  BY <1>1, <1>2, <1>3, <1>4, SomeTypes

(* A page is read from the file into the cache.                            *)
LEMMA ReadOK ==
  ASSUME NEW k \in Key, InvUnder(k), NEW c \in Conn, NEW p \in Page, Read(c, p),
         p # 1 /\ pager[c].cache[1] # Garbage => Decrypt(rkey[c], db[p]) # Garbage
  PROVE  ConnOK(c)'
<1> DEFINE d == Decrypt(rkey[c], db[p])
<1>0. /\ ConnOK(c) /\ InPlace(c) /\ pager[c].at = "idle" /\ pager[c].goal = "none"
      /\ TypeOK /\ rkey[c] \in Key /\ pager[c] \in PagerState
      /\ pager[c].eState \in {"READER"} \cup Writer /\ pager[c].cache[p] = Absent
      /\ p <= pager[c].dbSize /\ (p = 1 \/ pager[c].cache[1] # Absent)
      /\ UNCHANGED <<lockVars, db, dbOld, jrnl, committed, rkey, wkey>>
  BY ActorFacts DEF Read, Ready, files, keys, history, InvUnder, InPlace
<1>1. /\ pager'[c].cache = [pager[c].cache EXCEPT ![p] = d]
      /\ DOMAIN pager[c].cache = Page
  BY <1>0, ReadFields DEF PagerState
<1>2. (NeedsClean(c)' => Clean') /\ ReplayOK(c)' /\ StaleOK(c)'
  BY <1>0, ReadFields DEF ConnOK, NeedsClean, Clean, ReplayOK, StaleOK, Writer, Modified, lockVars
<1>3. CASE pager[c].eState \in {"READER", "WRITER_LOCKED"}
  <2>1. Clean /\ SettledOK(c) /\ IsSettled(c)
    BY <1>0, <1>3 DEF ConnOK, NeedsClean, IsSettled
  <2>2. db[p] = committed[p] /\ committed[p] # Absent
    BY <1>0, <2>1 DEF Clean, SettledOK, Sized
  <2>3. /\ d # Absent /\ committed[p] \in Stored
        /\ d # Garbage => /\ d \in Content
                          /\ d.tid = committed[p].tid /\ d.ctr = committed[p].ctr
    <3>1. committed[p] \in Stored
      BY <2>2, ActorFacts
    <3> QED
      BY <1>0, <2>2, <3>1, DecryptCases
  <2>4. SettledOK(c)'
    <3>1. pager'[c].dbFileVers = Version(committed[1])
      <4>1. CASE p = 1
        <5>1. pager'[c].dbFileVers = Version(db[1])
          BY <1>0, <4>1, Read(c, p), ReadFields
        <5>2. db[1] = committed[1]
          BY <2>2, <4>1
        <5> QED
          BY <5>1, <5>2
      <4>2. CASE p # 1
        BY <1>0, <2>1, <4>2, ReadFields DEF SettledOK
      <4> QED
        BY <4>1, <4>2
    <3>c. /\ pager'[c].cache[p] = d
          /\ \A q \in Page : q # p => pager'[c].cache[q] = pager[c].cache[q]
      BY <1>1
    <3>2. FirstPageFirst(c)'
      <4>1. CASE p = 1
        BY <1>0, <2>1, <2>3, <3>c, <4>1 DEF SettledOK, FirstPageFirst
      <4>2. CASE p # 1
        <5>1. pager[c].cache[1] # Absent /\ pager'[c].cache[1] = pager[c].cache[1]
              /\ (d = Garbage => pager[c].cache[1] = Garbage)
          BY <1>0, <3>c, <4>2, SomeTypes
        <5> HIDE DEF d
        <5> QED
          BY <2>1, <3>c, <5>1 DEF SettledOK, FirstPageFirst
      <4> QED
        BY <4>1, <4>2
    <3>3. \A q \in Page : pager'[c].cache[q] \in {Absent, Garbage} \/ Holds(c, q, committed)'
      BY <1>0, <2>1, <2>3, <3>c DEF SettledOK, Holds
    <3> QED
      BY <1>0, <2>1, <3>1, <3>2, <3>3, ReadFields DEF SettledOK, Sized
  <2>5. UnwrittenOK(c)' /\ ~IsChanging(c)'
    BY <1>0, <1>1, <1>3, <2>3, ReadFields, SomeTypes
    DEF ConnOK, UnwrittenOK, IsChanging, Modified, Ended, KnowsKey
  <2> QED
    BY <1>2, <2>4, <2>5 DEF ConnOK, JournalledOK, CachedOK, WrittenOK, CommitOK
<1>4. CASE pager[c].eState \in Modified
  <2>1. IsChanging(c) /\ JournalledOK(c) /\ CachedOK(c) /\ WrittenOK(c) /\ CommitOK(c)
    BY <1>0, <1>4 DEF ConnOK, IsChanging, Ended
  <2>2. p # 1 /\ p \notin pager[c].dirty
    BY <1>0, <2>1, Marks, SomeTypes DEF CachedOK
  <2>3. /\ db[p] \in Stored
        /\ db[p] = committed[p] \/ db[p].tid = pager[c].tid
    <3>1. db[p] = committed[p] \/ (db[p] \in Stored /\ db[p].tid = pager[c].tid)
      BY <1>0, <2>1 DEF WrittenOK
    <3>2. db[p] # Absent
      <4>1. CASE p <= pager[c].dbOrigSize
        <5>1. committed[p] # Absent
          BY <2>1, <4>1, ChangingFacts DEF Sized
        <5> QED
          BY <3>1, <5>1, Marks
      <4>2. CASE p > pager[c].dbOrigSize
        BY <1>0, <2>1, <2>2, <4>2 DEF WrittenOK
      <4> QED
        BY <2>1, <4>1, <4>2, ChangingFacts DEF Page
    <3> QED
      BY <3>1, <3>2, ActorFacts
  <2>4. d \in Content /\ d # Absent /\ d.tid = db[p].tid /\ d.ctr = db[p].ctr
    <3>1. d # Garbage
      BY <2>1, <2>2, Marks DEF CachedOK
    <3> QED
      BY <1>0, <2>3, <3>1, DecryptCases
  <2>5. SettledOK(c)' /\ UnwrittenOK(c)'
    BY <1>0, <1>4, ReadFields DEF ConnOK, SettledOK, UnwrittenOK, IsSettled, Modified, Ended
  <2>6. JournalledOK(c)'
    BY <1>0, <2>1, ReadFields DEF JournalledOK, Kept
  <2>7. CachedOK(c)'
    <3>1. pager'[c].cache[1] = pager[c].cache[1]
      BY <1>1, <2>2, SomeTypes
    <3>2. ASSUME NEW q \in Page, q # p PROVE pager'[c].cache[q] = pager[c].cache[q]
      BY <1>1, <3>2
    <3>3. pager'[c].cache[p] = d
      BY <1>1
    <3>4. p <= pager[c].dbOrigSize /\ p \notin pager[c].inJournal => db[p] = committed[p]
      BY <2>1, ChangingFacts
    <3>5. /\ pager'[c].dirty = pager[c].dirty /\ pager'[c].inJournal = pager[c].inJournal
          /\ pager'[c].dbSize = pager[c].dbSize /\ pager'[c].tid = pager[c].tid
          /\ pager'[c].dbOrigSize = pager[c].dbOrigSize /\ IsChanging(c)'
      BY <1>0, <2>1, ReadFields DEF IsChanging, Ended
    <3>6. (d \in Content /\ db[p] \in Stored /\ d.tid = db[p].tid /\ d.ctr = db[p].ctr)
          /\ (db[p] = committed[p] \/ d.tid = pager[c].tid)
      BY <2>3, <2>4
    <3> HIDE DEF d
    <3>7. ASSUME NEW q \in Page, q # p
          PROVE  /\ Holds(c, q, committed)' = Holds(c, q, committed)
                 /\ Holds(c, q, db)' = Holds(c, q, db)
      BY <1>0, <3>2, <3>7 DEF Holds
    <3>8. /\ Holds(c, p, db)'
          /\ db[p] = committed[p] => Holds(c, p, committed)'
      BY <1>0, <3>3, <3>6 DEF Holds
    <3> QED
      BY <1>0, <2>1, <2>2, <3>1, <3>2, <3>3, <3>4, <3>5, <3>6, <3>7, <3>8 DEF CachedOK, KnowsKey
  <2>8. WrittenOK(c)'
    BY <1>0, <2>1, ReadFields DEF WrittenOK
  <2>9. CommitOK(c)'
    BY <1>0, <2>1, <2>2, ReadFields DEF CommitOK, InPlace
  <2> QED
    BY <1>2, <2>5, <2>6, <2>7, <2>8, <2>9 DEF ConnOK
<1> QED
  BY <1>0, <1>3, <1>4 DEF Writer

(* A page is chosen to be written before the commit.                       *)
LEMMA SpillOK ==
  ASSUME NEW k \in Key, InvUnder(k), NEW c \in Conn, NEW p \in Page, Spill(c, p)
  PROVE  ConnOK(c)'
<1>0. /\ ConnOK(c) /\ InPlace(c) /\ pager[c].at = "idle" /\ pager[c].goal = "none"
      /\ TypeOK /\ pager[c] \in PagerState /\ Locked(c)
      /\ pager[c].eState \in {"WRITER_CACHEMOD", "WRITER_DBMOD"} /\ p \in pager[c].dirty \ {1}
      /\ UNCHANGED <<lockVars, db, dbOld, jrnl, committed, rkey, wkey>>
  BY ActorFacts DEF Spill, Ready, files, keys, history, InvUnder, InPlace
<1>1. IsChanging(c) /\ JournalledOK(c) /\ CachedOK(c) /\ WrittenOK(c) /\ CommitOK(c)
  BY <1>0 DEF ConnOK, IsChanging, Ended, Modified
<1>2. /\ pager'[c].at \in {"header", "upgrade", "pending", "write"} /\ pager'[c].goal = "spill"
      /\ pager'[c].job = {p} /\ pager'[c].eState = pager[c].eState
      /\ pager'[c].at = "write" =>
           pager[c].eState = "WRITER_DBMOD" /\ p \notin pager[c].needSync
  BY <1>0, SpillFields DEF LockStart
<1>3. (NeedsClean(c)' => Clean') /\ ReplayOK(c)' /\ StaleOK(c)' /\ SettledOK(c)' /\ UnwrittenOK(c)'
  BY <1>0, <1>2, SpillFields
  DEF ConnOK, NeedsClean, Clean, ReplayOK, StaleOK, SettledOK, IsSettled, UnwrittenOK, Ended,
      Writer, Modified, lockVars
<1>4. JournalledOK(c)'
  BY <1>0, <1>1, <1>2, SpillFields DEF JournalledOK, Kept, CachedOK
<1>5. CachedOK(c)' /\ WrittenOK(c)'
  BY <1>0, <1>1, <1>2, SpillFields DEF CachedOK, WrittenOK, Holds, KnowsKey
<1>6. CommitOK(c)'
  BY <1>0, <1>1, <1>2, SpillFields DEF CommitOK
<1> QED
  BY <1>3, <1>4, <1>5, <1>6 DEF ConnOK

(* Cutting the file to the size in the journal takes no committed page.    *)
LEMMA CutFacts ==
  ASSUME TypeOK, Restores(jrnl, committed), jrnl.orig # 0, Cut(jrnl.orig)
  PROVE  /\ \A p \in Page : p <= jrnl.orig => db'[p] = db[p] /\ dbOld'[p] = dbOld[p]
         /\ \A p \in Page : ~(p <= jrnl.orig) => db'[p] = Absent /\ committed[p] = Absent
         /\ \A p \in Page : ~(p <= jrnl.orig) /\ db[p] = Absent => dbOld'[p] = dbOld[p]
<1>1. jrnl.orig \in 0 .. MaxPage
  BY DEF TypeOK, Journal
<1> QED
  BY <1>1 DEF Cut, Restores, Sized, Page

(* A hot journal is opened under the EXCLUSIVE lock.                       *)
LEMMA RecoverOK ==
  ASSUME NEW k \in Key, InvUnder(k), NEW c \in Conn, Recover(c)
  PROVE  ConnOK(c)'
<1>0. /\ ConnOK(c) /\ InPlace(c) /\ pager[c].at = "recover" /\ pager[c].eState = "OPEN"
      /\ pager[c].goal = "none" /\ TypeOK /\ FilesOK
      /\ UNCHANGED <<committed, rkey, wkey>> /\ jrnl \in Journal
  BY ActorFacts DEF Recover, keys, history, InvUnder, InPlace, TypeOK
<1>1. /\ pager'[c].eState = "OPEN" /\ pager'[c].at \in {"replay", "downgrade"}
      /\ pager'[c].cache \in {pager[c].cache, Empty}
      /\ pager'[c].dbFileVers = pager[c].dbFileVers
  BY <1>0, RecoverFields
<1>2. SettledOK(c)' /\ UnwrittenOK(c)' /\ ~IsChanging(c)'
  BY <1>0, <1>1, RecoverFields DEF ConnOK, SettledOK, UnwrittenOK, IsSettled, IsChanging, Modified
<1>3. StaleOK(c)'
  <2>1. CASE pager'[c].cache = pager[c].cache
    BY <1>0, <1>1, <2>1 DEF ConnOK, StaleOK, FirstPageFirst, Holds
  <2>2. CASE pager'[c].cache = Empty
    BY <1>0, <1>1, <2>2, SomeTypes DEF StaleOK, FirstPageFirst, Empty
  <2> QED
    BY <1>1, <2>1, <2>2
<1>4. CASE jrnl.exists
  <2>1. /\ pager'[c].at = "replay" /\ pager'[c].job = Playable(jrnl)
        /\ jrnl' = [jrnl EXCEPT !.dur = Records(jrnl)]
    BY <1>0, <1>4, RecoverFields DEF Recover
  <2>2. Playable(jrnl) \subseteq Records(jrnl')
    BY <1>0, <2>1 DEF Playable, Records, Journal
  <2>3. ASSUME NEW p \in Page, p \notin Playable(jrnl) PROVE db'[p] = committed[p]
    <3>1. CASE ~jrnl.magic
      BY <1>0, <1>4, <3>1 DEF Recover, FilesOK, Restores
    <3>2. CASE jrnl.magic
      <4>1. Restores(jrnl, committed) /\ Cut(jrnl.orig) /\ jrnl.orig # 0
        BY <1>0, <1>4, <3>2 DEF Recover, FilesOK, Restores
      <4>2. CASE p <= jrnl.orig
        BY <1>0, <2>3, <3>2, <4>1, <4>2, CutFacts DEF Restores, Playable, Records, Kept, Page, Journal
      <4>3. CASE ~(p <= jrnl.orig)
        BY <1>0, <3>2, <4>1, <4>3, CutFacts
      <4> QED
        BY <4>2, <4>3
    <3> QED
      BY <3>1, <3>2
  <2>4. ReplayOK(c)'
    BY <1>0, <2>1, <2>2, <2>3 DEF ReplayOK, Playable, Journal
  <2>5. ~NeedsClean(c)'
    BY <1>1, <2>1 DEF NeedsClean, Writer, Modified
  <2> QED
    BY <1>2, <1>3, <2>4, <2>5 DEF ConnOK, JournalledOK, CachedOK, WrittenOK, CommitOK
<1>5. CASE ~jrnl.exists
  <2>1. Clean' /\ pager'[c].at = "downgrade"
    BY <1>0, <1>5, RecoverFields DEF Recover, FilesOK, Restores, Clean
  <2> QED
    BY <1>2, <1>3, <2>1 DEF ConnOK, ReplayOK, JournalledOK, CachedOK, WrittenOK, CommitOK
<1> QED
  BY <1>4, <1>5

(* A step of the playback.                                                 *)
LEMMA ReplayStepOK ==
  ASSUME NEW k \in Key, InvUnder(k), NEW c \in Conn, Replay(c)
  PROVE  ConnOK(c)'
<1>0. /\ ConnOK(c) /\ InPlace(c) /\ pager[c].at = "replay" /\ excl = c /\ Locked(c)
      /\ TypeOK /\ FilesOK /\ pager[c] \in PagerState /\ pager \in [Conn -> PagerState]
      /\ UNCHANGED <<lockVars, jrnl, committed, rkey, wkey>> /\ jrnl \in Journal
  BY ActorFacts DEF Replay, keys, history, InvUnder, InPlace, TypeOK, Locked, NeedsRange
<1>1. PICK p \in pager[c].job : /\ Store(p, jrnl.rec[p])
                                /\ pager' = [pager EXCEPT ![c].job = @ \ {p}]
  BY DEF Replay
<1>2. /\ SameCache(c) /\ pager'[c].eState = pager[c].eState /\ pager'[c].at = "replay"
      /\ pager'[c].goal = pager[c].goal /\ pager'[c].tid = pager[c].tid
      /\ pager'[c].job = pager[c].job \ {p}
  BY <1>0, <1>1 DEF SameCache, PagerState
<1>3. jrnl.rec[p] = committed[p] /\ p \in Page
  BY <1>0, <1>1 DEF ConnOK, ReplayOK, Records, FilesOK, Restores, Journal, PagerState
<1>4. ReplayOK(c)'
  <2>1. db'[p] = committed[p] /\ \A q \in Page : q # p => db'[q] = db[q]
    BY <1>0, <1>1, <1>3 DEF Store, TypeOK
  <2> QED
    BY <1>0, <1>2, <2>1 DEF ConnOK, ReplayOK, Records
<1>5. StaleOK(c)' /\ SettledOK(c)'
  BY <1>0, <1>2 DEF ConnOK, StaleOK, SettledOK, IsSettled, Ended, FirstPageFirst, Sized, Holds, SameCache
<1>6. UnwrittenOK(c)' /\ ~NeedsClean(c)' /\ ~IsChanging(c)'
  BY <1>0, <1>2 DEF ConnOK, UnwrittenOK, NeedsClean, IsChanging, Ended, SameCache, InPlace,
                    lockVars, Writer, Modified
<1> QED
  BY <1>4, <1>5, <1>6 DEF ConnOK, JournalledOK, CachedOK, WrittenOK, CommitOK

(* The database that has been rolled back is synced.                       *)
LEMMA ReplaySyncOK ==
  ASSUME NEW k \in Key, InvUnder(k), NEW c \in Conn, ReplaySync(c)
  PROVE  ConnOK(c)'
<1>0. /\ ConnOK(c) /\ InPlace(c) /\ pager[c].at = "replay" /\ pager[c].job = {}
      /\ TypeOK /\ UNCHANGED <<lockVars, db, jrnl, committed, rkey, wkey>>
      /\ dbOld' = [p \in Page |-> {}]
  BY ActorFacts DEF ReplaySync, keys, history, InvUnder
<1>1. Clean'
  BY <1>0 DEF ConnOK, ReplayOK, Clean
<1>2. StaleOK(c)' /\ SettledOK(c)'
  BY <1>0, ReplaySyncFields DEF ConnOK, StaleOK, SettledOK, IsSettled, Ended, FirstPageFirst, Sized, Holds
<1>3. UnwrittenOK(c)' /\ ReplayOK(c)' /\ ~IsChanging(c)'
  BY <1>0, ReplaySyncFields DEF ConnOK, UnwrittenOK, ReplayOK, IsChanging, Ended, InPlace, Modified
<1> QED
  BY <1>1, <1>2, <1>3 DEF ConnOK, JournalledOK, CachedOK, WrittenOK, CommitOK

(* The journal goes: the commit, or the end of a rollback.                 *)
LEMMA FinalizeOK ==
  ASSUME NEW k \in Key, InvUnder(k), NEW c \in Conn, Finalize(c)
  PROVE  ConnOK(c)'
<1>0. /\ ConnOK(c) /\ InPlace(c) /\ pager[c].at = "finalize" /\ TypeOK
      /\ UNCHANGED <<lockVars, db, dbOld, rkey, wkey>>
      /\ committed' = IF pager[c].goal = "commit" THEN db ELSE committed
  BY ActorFacts DEF Finalize, keys, InvUnder
<1>1. Ended(c)' /\ pager'[c].at # "unlock"
  BY <1>0, FinalizeFields DEF Ended
<1>2. UnwrittenOK(c)' /\ ReplayOK(c)' /\ ~IsChanging(c)'
  BY <1>0, <1>1, FinalizeFields DEF ConnOK, UnwrittenOK, ReplayOK, IsChanging, Ended, InPlace
<1>3. CASE pager[c].goal = "commit"
  <2>1. pager[c].eState = "WRITER_FINISHED" /\ IsChanging(c) /\ CommitOK(c) /\ CachedOK(c)
    BY <1>0, <1>3, CommittedPages DEF ConnOK
  <2>2. Clean'
    BY <1>0, <1>3, <2>1 DEF CommitOK, Clean
  <2>3. StaleOK(c)'
    BY <1>0, <2>1, FinalizeFields DEF StaleOK
  <2>4. SettledOK(c)'
    BY <1>0, <1>3, <2>1, FinalizeFields, Marks DEF SettledOK, CommitOK, CachedOK, FirstPageFirst, Sized, Holds
  <2> QED
    BY <1>2, <2>2, <2>3, <2>4 DEF ConnOK, JournalledOK, CachedOK, WrittenOK, CommitOK
<1>4. CASE pager[c].goal # "commit"
  <2>1. Clean'
    BY <1>0, <1>4 DEF ConnOK, NeedsClean, Clean
  <2>2. StaleOK(c)'
    BY <1>0, <1>4, FinalizeFields DEF ConnOK, StaleOK, FirstPageFirst, Holds
  <2>3. SettledOK(c)'
    BY <1>0, <1>4, FinalizeFields
    DEF ConnOK, SettledOK, IsSettled, InPlace, Ended, FirstPageFirst, Sized, Holds, Modified
  <2> QED
    BY <1>2, <2>1, <2>2, <2>3 DEF ConnOK, JournalledOK, CachedOK, WrittenOK, CommitOK
<1> QED
  BY <1>3, <1>4

-----------------------------------------------------------------------------
(* A connection in the middle of its changes has only four clauses to      *)
(* keep.                                                                   *)
LEMMA ChangingOnly ==
  ASSUME NEW c \in Conn, pager'[c].eState \in Modified,
         ~Ended(c)', pager'[c].goal # "rollback", pager'[c].at \notin {"unlock", "replay", "validate"},
         pager'[c].at = "finalize" => pager'[c].goal = "commit",
         pager'[c].eState = "WRITER_CACHEMOD" \/ excl' # c => Clean',
         (JournalledOK(c) /\ CachedOK(c) /\ WrittenOK(c) /\ CommitOK(c))'
  PROVE  ConnOK(c)'
BY DEF ConnOK, NeedsClean, ReplayOK, StaleOK, SettledOK, UnwrittenOK, IsSettled, Ended,
       Writer, Modified

(* The number of records is written to the journal.                        *)
LEMMA JournalHeaderOK ==
  ASSUME NEW k \in Key, InvUnder(k), NEW c \in Conn, JournalHeader(c)
  PROVE  ConnOK(c)'
<1>0. /\ ConnOK(c) /\ InPlace(c) /\ pager[c].at = "header" /\ excl = c
      /\ pager[c].eState \in {"WRITER_CACHEMOD", "WRITER_DBMOD"} /\ pager[c].goal \in {"commit", "spill"}
      /\ TypeOK /\ jrnl \in Journal
      /\ UNCHANGED <<lockVars, db, dbOld, committed, rkey, wkey>>
      /\ jrnl' = [jrnl EXCEPT !.magic = TRUE, !.cnt = pager[c].inJournal]
  BY ActorFacts DEF JournalHeader, keys, history, InvUnder, InPlace, TypeOK, Locked, NeedsRange
<1>1. IsChanging(c) /\ JournalledOK(c) /\ CachedOK(c) /\ WrittenOK(c) /\ CommitOK(c)
  BY <1>0 DEF ConnOK, IsChanging, Ended, Modified
<1>2. /\ jrnl'.orig = jrnl.orig /\ jrnl'.rec = jrnl.rec /\ jrnl'.dur = jrnl.dur
      /\ jrnl'.cnt = pager[c].inJournal /\ jrnl'.firm = jrnl.firm /\ jrnl'.magic
  BY <1>0 DEF Journal
<1>3. JournalledOK(c)'
  BY <1>0, <1>1, <1>2, JournalHeaderFields DEF JournalledOK, Kept
<1>4. CachedOK(c)' /\ WrittenOK(c)'
  BY <1>0, <1>1, JournalHeaderFields DEF CachedOK, WrittenOK, Holds, KnowsKey
<1>5. CommitOK(c)'
  BY <1>0, <1>1, JournalHeaderFields DEF CommitOK, Rewritten
<1>6. pager'[c].eState = "WRITER_CACHEMOD" \/ excl' # c => Clean'
  BY <1>0, JournalHeaderFields DEF ConnOK, NeedsClean, Clean, lockVars
<1> QED
  BY <1>0, <1>3, <1>4, <1>5, <1>6, JournalHeaderFields, ChangingOnly DEF Ended, Modified

(* The journal is synced, and from now on the database may be written.     *)
LEMMA JournalSyncOK ==
  ASSUME NEW k \in Key, InvUnder(k), NEW c \in Conn, JournalSync(c)
  PROVE  ConnOK(c)'
<1>0. /\ ConnOK(c) /\ InPlace(c) /\ pager[c].at = "sync" /\ excl = c
      /\ pager[c].eState \in {"WRITER_CACHEMOD", "WRITER_DBMOD"} /\ pager[c].goal \in {"commit", "spill"}
      /\ TypeOK /\ jrnl \in Journal
      /\ UNCHANGED <<lockVars, db, dbOld, committed, rkey, wkey>>
      /\ jrnl' = [jrnl EXCEPT !.dur = jrnl.cnt, !.firm = TRUE]
  BY ActorFacts DEF JournalSync, keys, history, InvUnder, InPlace, TypeOK, Locked, NeedsRange
<1>1. IsChanging(c) /\ JournalledOK(c) /\ CachedOK(c) /\ WrittenOK(c) /\ CommitOK(c)
  BY <1>0 DEF ConnOK, IsChanging, Ended, Modified
<1>2. /\ jrnl'.orig = jrnl.orig /\ jrnl'.rec = jrnl.rec /\ jrnl'.dur = jrnl.cnt
      /\ jrnl'.cnt = jrnl.cnt /\ jrnl'.firm = TRUE /\ jrnl.cnt = pager[c].inJournal
      /\ jrnl'.magic
  BY <1>0, <1>1 DEF Journal, JournalledOK
<1>3. pager'[c].job \subseteq pager[c].dirty
  BY <1>0, <1>1, JournalSyncFields DEF CommitOK
<1>4. JournalledOK(c)'
  <2>1. \A p \in Page : p \in pager[c].inJournal => Kept(jrnl', p)
    BY <1>1, <1>2 DEF JournalledOK, Kept
  <2>2. \A p \in Page : p \in pager[c].dirty /\ p <= pager[c].dbOrigSize => p \in pager[c].inJournal
    BY <1>1 DEF CachedOK
  <2>3. pager[c].inJournal \subseteq Page /\ pager[c].dirty \subseteq Page
    BY ActorFacts DEF PagerState
  <2> QED
    BY <1>0, <1>1, <1>2, <1>3, <2>1, <2>2, <2>3, JournalSyncFields DEF JournalledOK
<1>5. CachedOK(c)' /\ WrittenOK(c)'
  BY <1>0, <1>1, JournalSyncFields DEF CachedOK, WrittenOK, Holds, KnowsKey
<1>6. CommitOK(c)'
  BY <1>0, <1>1, JournalSyncFields DEF CommitOK, Rewritten
<1> QED
  BY <1>0, <1>4, <1>5, <1>6, JournalSyncFields, ChangingOnly DEF Ended, Modified, lockVars

(* The database is synced.                                                 *)
LEMMA DbSyncOK ==
  ASSUME NEW k \in Key, InvUnder(k), NEW c \in Conn, DbSync(c)
  PROVE  ConnOK(c)'
<1>0. /\ ConnOK(c) /\ InPlace(c) /\ pager[c].at = "write" /\ excl = c /\ pager[c].job = {}
      /\ pager[c].eState = "WRITER_DBMOD" /\ pager[c].goal = "commit"
      /\ TypeOK
      /\ UNCHANGED <<lockVars, db, jrnl, committed, rkey, wkey>>
      /\ dbOld' = [p \in Page |-> {}]
  BY ActorFacts DEF DbSync, keys, history, InvUnder, InPlace, TypeOK, Locked, NeedsRange
<1>1. IsChanging(c) /\ JournalledOK(c) /\ CachedOK(c) /\ WrittenOK(c) /\ CommitOK(c)
  BY <1>0 DEF ConnOK, IsChanging, Ended, Modified
<1>2. \A p \in Page : pager[c].cache[p] # Absent => Holds(c, p, db)
  BY <1>0, <1>1 DEF CachedOK, CommitOK
<1>3. \A p \in Page : pager[c].cache[p] # Absent => db[p] # Absent
  BY <1>2, Marks DEF Holds
<1>4. Sized(db, pager[c].dbSize)
  <2>1. ASSUME NEW p \in Page, p <= pager[c].dbSize PROVE db[p] # Absent
    <3>1. CASE p <= pager[c].dbOrigSize
      BY <1>0, <1>1, <3>1, ChangingFacts, Marks DEF WrittenOK, Sized
    <3>2. CASE p > pager[c].dbOrigSize
      BY <1>1, <1>3, <2>1, <3>2 DEF WrittenOK, CachedOK
    <3> QED
      BY <1>1, <3>1, <3>2, ChangingFacts DEF Page
  <2> QED
    BY <1>1, <2>1, ChangingFacts DEF WrittenOK, Sized, Page
<1>k. UnderKey(wkey[c], db)
  <2>1. SUFFICES ASSUME NEW p \in Page, db[p] # Absent PROVE db[p].key = wkey[c]
    BY DEF UnderKey
  <2>2. p <= pager[c].dbSize
    BY <1>4, <2>1 DEF Sized
  <2>3. CASE p \in pager[c].dirty
    BY <1>0, <1>1, <2>3 DEF CommitOK
  <2>4. CASE p \notin pager[c].dirty
    <3>1. CASE wkey[c] = rkey[c]
      <4>1. rkey[c] = k /\ (db[p] = committed[p] \/ db[p].key = wkey[c])
        BY <1>0, <1>1, ActorFacts DEF CachedOK, WrittenOK
      <4> QED
        BY <2>1, <3>1, <4>1, ActorFacts
    <3>2. CASE wkey[c] # rkey[c]
      BY <1>0, <1>1, <2>2, <2>4, <3>2 DEF CommitOK, Rewritten
    <3> QED
      BY <3>1, <3>2
  <2> QED
    BY <2>3, <2>4
<1>5. JournalledOK(c)' /\ CachedOK(c)' /\ WrittenOK(c)'
  BY <1>0, <1>1, DbSyncFields DEF JournalledOK, Kept, CachedOK, WrittenOK, Holds, KnowsKey
<1>6. CommitOK(c)'
  BY <1>0, <1>1, <1>2, <1>4, <1>k, DbSyncFields DEF CommitOK, Holds, Sized, Rewritten, UnderKey
<1> QED
  BY <1>0, <1>5, <1>6, DbSyncFields, ChangingOnly DEF Ended, Modified, lockVars

(* A call of the VFS fails.                                                *)
LEMMA IoErrorOK ==
  ASSUME NEW k \in Key, InvUnder(k), NEW c \in Conn, IoError(c)
  PROVE  ConnOK(c)'
<1>0. /\ ConnOK(c) /\ InPlace(c) /\ Locked(c) /\ TypeOK /\ pager[c] \in PagerState
      /\ pager[c].at \in {"recover", "replay", "finalize", "header", "sync", "write"}
      /\ UNCHANGED <<lockVars, jrnl, committed, rkey, wkey>>
  BY ActorFacts DEF IoError, Fault, keys, InvUnder
<1>1. CASE pager[c].goal = "commit" /\ pager[c].at # "finalize"
  <2>0. /\ pager[c].at \in {"header", "sync", "write"} /\ excl = c
        /\ pager[c].eState \in {"WRITER_CACHEMOD", "WRITER_DBMOD"}
        /\ pager[c].at = "write" => pager[c].eState = "WRITER_DBMOD"
    BY <1>0, <1>1 DEF InPlace, Locked, NeedsRange
  <2>1. IsChanging(c) /\ JournalledOK(c) /\ CachedOK(c) /\ WrittenOK(c) /\ CommitOK(c)
    BY <1>0, <1>1, <2>0 DEF ConnOK, IsChanging, Ended, Modified
  <2>2. \/ UNCHANGED <<db, dbOld>>
        \/ \E p \in pager[c].dirty : Store(p, Torn) /\ pager[c].at = "write"
    <3>1. CASE pager[c].at = "write" /\ pager[c].job # {}
      <4>1. Min(pager[c].job) \in pager[c].job
        BY <1>0, <3>1, SmallestPage DEF PagerState
      <4> QED
        BY <2>1, <3>1, <4>1 DEF IoError, CommitOK
    <3> QED
      BY <2>0, <3>1 DEF IoError
  <2>3. \A p \in Page : p \notin pager[c].dirty => db'[p] = db[p]
    BY <1>0, <2>2 DEF Store, TypeOK
  <2>4. JournalledOK(c)'
    BY <1>0, <1>1, <2>1, IoErrorFields DEF JournalledOK, Kept
  <2>5. CachedOK(c)'
    BY <1>0, <1>1, <2>0, <2>1, <2>3, IoErrorFields DEF CachedOK, Holds, KnowsKey
  <2>6. WrittenOK(c)'
    <3>1. \A p \in Page : p > pager[c].dbSize => p \notin pager[c].dirty
      BY <1>0, <2>1 DEF CachedOK, PagerState, Page
    <3> QED
      BY <1>0, <1>1, <2>1, <2>3, <3>1, IoErrorFields DEF WrittenOK
  <2>7. CommitOK(c)'
    BY <1>0, <1>1, <2>0, <2>1, <2>3, IoErrorFields DEF CommitOK, Rewritten
  <2>8. pager'[c].eState = "WRITER_CACHEMOD" \/ excl' # c => Clean'
    BY <1>0, <2>0, <2>2, IoErrorFields DEF ConnOK, NeedsClean, Clean, lockVars
  <2> QED
    BY <1>0, <1>1, <2>0, <2>4, <2>5, <2>6, <2>7, <2>8, IoErrorFields, ChangingOnly DEF Ended, Modified
<1>2. CASE ~(pager[c].goal = "commit" /\ pager[c].at # "finalize")
  <2>0. pager'[c].at = "unlock" /\ pager'[c].eState = pager[c].eState
    BY <1>2, <1>0, IoErrorFields
  <2>1. NeedsClean(c)' => Clean'
    <3>1. SUFFICES ASSUME pager[c].eState \in Writer, excl # c PROVE Clean'
      BY <1>0, <2>0 DEF NeedsClean, InPlace, lockVars
    <3>2. pager[c].at = "finalize" /\ pager[c].goal # "commit"
      BY <1>0, <3>1 DEF InPlace, Locked, NeedsRange, Writer, Modified
    <3> QED
      BY <1>0, <3>2 DEF ConnOK, NeedsClean, Clean, IoError
  <2>2. UnwrittenOK(c)'
    BY <1>0, <2>0, IoErrorFields DEF ConnOK, UnwrittenOK, Ended, InPlace
  <2> QED
    BY <1>0, <2>0, <2>1, <2>2
    DEF ConnOK, ReplayOK, StaleOK, SettledOK, JournalledOK, CachedOK, WrittenOK, CommitOK,
        IsSettled, IsChanging, Ended, InPlace
<1> QED
  BY <1>1, <1>2

(* What writing a page to the database changes of a connection.            *)
LEMMA WriteDbFields ==
  ASSUME TypeOK, NEW c \in Conn, WriteDb(c), NEW p, p = Min(pager[c].job)
  PROVE  /\ pager'[c].eState = pager[c].eState
         /\ pager'[c].job = pager[c].job \ {p}
         /\ pager'[c].needSync = pager[c].needSync
         /\ pager'[c].inJournal = pager[c].inJournal
         /\ pager'[c].dbSize = pager[c].dbSize
         /\ pager'[c].dbOrigSize = pager[c].dbOrigSize
         /\ pager'[c].dbFileVers = IF p = 1 THEN Version(Encrypt(wkey[c], pager[c].cache[p]))
                                   ELSE pager[c].dbFileVers
         /\ pager'[c].tid = pager[c].tid
         /\ IF pager[c].goal = "commit"
            THEN /\ pager'[c].at = pager[c].at /\ pager'[c].goal = pager[c].goal
                 /\ pager'[c].cache = pager[c].cache /\ pager'[c].dirty = pager[c].dirty
            ELSE /\ pager'[c].at = "idle" /\ pager'[c].goal = "none"
                 /\ pager'[c].cache = [pager[c].cache EXCEPT ![p] = Absent]
                 /\ pager'[c].dirty = pager[c].dirty \ {p}
<1> DEFINE r == pager[c]
           vers == IF p = 1 THEN Version(Encrypt(wkey[c], r.cache[p])) ELSE r.dbFileVers
           job == r.job \ {p}
           dirty == r.dirty \ {p}
           cache == [r.cache EXCEPT ![p] = Absent]
<1>1. pager \in [Conn -> PagerState] /\ pager[c] \in PagerState
  BY DEF TypeOK
<1>2. pager'[c] = IF r.goal = "commit" THEN [r EXCEPT !.job = job, !.dbFileVers = vers]
                  ELSE [r EXCEPT !.job = job, !.dbFileVers = vers, !.at = "idle", !.goal = "none",
                                 !.dirty = dirty, !.cache = cache]
  BY <1>1 DEF WriteDb, PagerState
<1> HIDE DEF vers, job, dirty, cache
<1>3. pager'[c] = IF r.goal = "commit" THEN [r EXCEPT !.job = job, !.dbFileVers = vers]
                  ELSE [r EXCEPT !.job = job, !.dbFileVers = vers, !.at = "idle", !.goal = "none",
                                 !.dirty = dirty, !.cache = cache]
  BY <1>2
<1>4. /\ pager'[c].eState = r.eState /\ pager'[c].job = job
      /\ pager'[c].needSync = r.needSync /\ pager'[c].inJournal = r.inJournal
      /\ pager'[c].dbSize = r.dbSize /\ pager'[c].dbOrigSize = r.dbOrigSize
      /\ pager'[c].dbFileVers = vers /\ pager'[c].tid = r.tid
  BY <1>1, <1>3 DEF PagerState
<1>5. IF r.goal = "commit"
      THEN /\ pager'[c].at = r.at /\ pager'[c].goal = r.goal
           /\ pager'[c].cache = r.cache /\ pager'[c].dirty = r.dirty
      ELSE /\ pager'[c].at = "idle" /\ pager'[c].goal = "none"
           /\ pager'[c].cache = cache /\ pager'[c].dirty = dirty
  BY <1>1, <1>3 DEF PagerState
<1> QED
  BY <1>4, <1>5 DEF vers, job, dirty, cache

(* Which page is written, and what is known of it.                         *)
LEMMA WriteDbFacts ==
  ASSUME NEW k \in Key, InvUnder(k), NEW c \in Conn, WriteDb(c), NEW p, p = Min(pager[c].job)
  PROVE  /\ p \in pager[c].job /\ p \in pager[c].dirty /\ p \in Page /\ p <= pager[c].dbSize
         /\ pager[c].cache[p] \in Content /\ pager[c].cache[p].tid = pager[c].tid
         /\ db' = [db EXCEPT ![p] = Encrypt(wkey[c], pager[c].cache[p])]
         /\ Store(p, Encrypt(wkey[c], pager[c].cache[p]))
         /\ Encrypt(wkey[c], pager[c].cache[p]) \in Stored
         /\ p <= pager[c].dbOrigSize => Kept(jrnl, p)
         /\ IsChanging(c) /\ excl = c /\ jrnl.firm
         /\ pager[c].at = "write" /\ pager[c].eState = "WRITER_DBMOD"
         /\ pager[c].goal \in {"commit", "spill"}
<1>0. /\ ConnOK(c) /\ InPlace(c) /\ pager[c].at = "write" /\ excl = c
      /\ pager[c].eState = "WRITER_DBMOD" /\ pager[c].goal \in {"commit", "spill"}
      /\ wkey[c] \in Key /\ pager[c] \in PagerState /\ pager[c].job # {}
  BY ActorFacts DEF WriteDb, InPlace, Locked, NeedsRange
<1>1. IsChanging(c) /\ JournalledOK(c) /\ CachedOK(c) /\ CommitOK(c)
  BY <1>0 DEF ConnOK, IsChanging, Ended, Modified
<1>2. p \in pager[c].job /\ p \in Page
  BY <1>0, SmallestPage DEF PagerState
<1>3. p \in pager[c].dirty
  BY <1>0, <1>1, <1>2 DEF CommitOK
<1>4. pager[c].cache[p] \in Content /\ pager[c].cache[p].tid = pager[c].tid /\ p <= pager[c].dbSize
  BY <1>1, <1>2, <1>3 DEF CachedOK
<1>5. /\ db' = [db EXCEPT ![p] = Encrypt(wkey[c], pager[c].cache[p])]
      /\ Store(p, Encrypt(wkey[c], pager[c].cache[p]))
  BY <1>0 DEF WriteDb, Store
<1>6. (p <= pager[c].dbOrigSize => Kept(jrnl, p)) /\ jrnl.firm
  BY <1>0, <1>1, <1>2 DEF JournalledOK
<1> QED
  BY <1>0, <1>1, <1>2, <1>3, <1>4, <1>5, <1>6, EncryptType

(* A page is written to the database.                                      *)
LEMMA WriteDbOK ==
  ASSUME NEW k \in Key, InvUnder(k), NEW c \in Conn, WriteDb(c)
  PROVE  ConnOK(c)'
<1> DEFINE p == Min(pager[c].job)
           s == Encrypt(wkey[c], pager[c].cache[p])
<1>0. /\ p \in pager[c].job /\ p \in pager[c].dirty /\ p \in Page /\ p <= pager[c].dbSize
      /\ pager[c].cache[p] \in Content /\ pager[c].cache[p].tid = pager[c].tid
      /\ db' = [db EXCEPT ![p] = s] /\ s \in Stored
      /\ IsChanging(c) /\ excl = c
      /\ pager[c].at = "write" /\ pager[c].eState = "WRITER_DBMOD"
      /\ pager[c].goal \in {"commit", "spill"}
  BY WriteDbFacts
<1>f. /\ pager'[c].eState = "WRITER_DBMOD" /\ pager'[c].job = pager[c].job \ {p}
      /\ pager'[c].needSync = pager[c].needSync
      /\ pager'[c].inJournal = pager[c].inJournal
      /\ pager'[c].dbSize = pager[c].dbSize /\ pager'[c].dbOrigSize = pager[c].dbOrigSize
      /\ pager'[c].dbFileVers = IF p = 1 THEN Version(s) ELSE pager[c].dbFileVers
      /\ pager'[c].tid = pager[c].tid
      /\ IF pager[c].goal = "commit"
         THEN /\ pager'[c].at = "write" /\ pager'[c].goal = "commit"
              /\ pager'[c].cache = pager[c].cache /\ pager'[c].dirty = pager[c].dirty
         ELSE /\ pager'[c].at = "idle" /\ pager'[c].goal = "none"
              /\ pager'[c].cache = [pager[c].cache EXCEPT ![p] = Absent]
              /\ pager'[c].dirty = pager[c].dirty \ {p}
  BY <1>0, WriteDbFields, ActorFacts DEF InvUnder
<1>1. /\ JournalledOK(c) /\ CachedOK(c) /\ WrittenOK(c) /\ CommitOK(c)
      /\ db \in [Page -> Stored \cup {Absent, Torn}] /\ wkey[c] \in Key
      /\ UNCHANGED <<lockVars, jrnl, committed, rkey, wkey>> /\ pager[c] \in PagerState
  BY ActorFacts DEF ConnOK, InvUnder, TypeOK, WriteDb, keys, history
<1>2. s.tid = pager[c].tid /\ s.key = wkey[c] /\ s.ctr = pager[c].cache[p].ctr /\ s # Absent
  BY <1>0, <1>1, EncryptType, Marks
<1>3. db'[p] = s /\ \A q \in Page : q # p => db'[q] = db[q]
  BY <1>0, <1>1
<1> HIDE DEF p, s
<1>4. JournalledOK(c)'
  BY <1>0, <1>f, <1>1 DEF JournalledOK, Kept
<1>5. CachedOK(c)'
  <2>1. CASE pager[c].goal = "commit"
    BY <1>0, <1>f, <1>1, <1>2, <1>3, <2>1 DEF CachedOK, Holds, KnowsKey
  <2>2. CASE pager[c].goal = "spill"
    <3>1. /\ pager'[c].cache[p] = Absent /\ p # 1
          /\ \A q \in Page : q # p => pager'[c].cache[q] = pager[c].cache[q]
          /\ pager'[c].cache[1] = pager[c].cache[1]
      BY <1>0, <1>f, <1>1, <2>2, SomeTypes DEF PagerState, CommitOK
    <3> QED
      BY <1>0, <1>f, <1>1, <1>3, <2>2, <3>1, Marks DEF CachedOK, Holds, KnowsKey
  <2> QED
    BY <1>0, <2>1, <2>2
<1>6. WrittenOK(c)'
  <2>1. ASSUME NEW q \in Page, q > pager[c].dbSize PROVE q # p
    BY <1>0, <1>1, <2>1 DEF PagerState, Page
  <2> QED
    BY <1>0, <1>f, <1>1, <1>2, <1>3, <2>1 DEF WrittenOK
<1>7. CommitOK(c)'
  <2>1. CASE pager[c].goal = "commit"
    <3>1. \A q \in pager[c].dirty \ (pager[c].job \ {p}) : Holds(c, q, db)' /\ db'[q].key = wkey[c]
      <4>1. pager[c].dirty \subseteq Page
        BY <1>1 DEF PagerState
      <4> QED
        BY <1>0, <1>f, <1>1, <1>2, <1>3, <2>1, <4>1 DEF CommitOK, Holds
    <3>2. 1 \notin pager'[c].job => pager'[c].dbFileVers = Version(db'[1])
      <4>1. CASE p = 1
        BY <1>f, <1>3, <4>1
      <4>2. CASE p # 1
        BY <1>0, <1>f, <1>1, <1>3, <2>1, <4>2, SomeTypes DEF CommitOK
      <4> QED
        BY <4>1, <4>2
    <3>3. Rewritten(c)'
      BY <1>0, <1>f, <1>1, <1>3, <2>1 DEF CommitOK, Rewritten
    <3> QED
      BY <1>0, <1>f, <1>1, <2>1, <3>1, <3>2, <3>3 DEF CommitOK
  <2>2. CASE pager[c].goal = "spill"
    BY <1>0, <1>f, <1>1, <2>2 DEF CommitOK
  <2> QED
    BY <1>0, <2>1, <2>2
<1> QED
  BY <1>0, <1>f, <1>1, <1>4, <1>5, <1>6, <1>7, ChangingOnly DEF Ended, Modified, lockVars

(* A rollback: the journal has what the cache and the file had.            *)
LEMMA UndoOK ==
  ASSUME NEW k \in Key, InvUnder(k), NEW c \in Conn, Undo(c),
         pager[c].at \in {"idle", "failed"}, pager[c].eState \in {"WRITER_CACHEMOD", "WRITER_DBMOD"}
  PROVE  ConnOK(c)'
<1>0. /\ ConnOK(c) /\ InPlace(c) /\ Locked(c) /\ TypeOK /\ FilesOK /\ jrnl \in Journal
      /\ rkey[c] \in Key /\ pager[c] \in PagerState
      /\ UNCHANGED <<lockVars, jrnl, committed, rkey, wkey>>
      /\ IF pager[c].eState = "WRITER_DBMOD" /\ jrnl.orig # 0
         THEN Cut(jrnl.orig) ELSE UNCHANGED <<db, dbOld>>
  BY ActorFacts, UndoEffect DEF InvUnder, TypeOK, keys, history
<1>f. /\ pager'[c].eState = pager[c].eState
      /\ pager'[c].at = IF pager[c].eState = "WRITER_DBMOD" THEN "replay" ELSE "finalize"
      /\ pager'[c].goal = "rollback"
      /\ pager'[c].job = IF pager[c].eState = "WRITER_DBMOD"
                         THEN Records(jrnl) \cap jrnl.dur ELSE {}
      /\ pager'[c].cache = RolledBack(c)
      /\ pager'[c].dbFileVers = IF 1 \in Records(jrnl) THEN Version(jrnl.rec[1])
                                ELSE pager[c].dbFileVers
      /\ pager'[c].dbSize = OldSize(c)
  BY <1>0, UndoFields
<1>1. IsChanging(c) /\ JournalledOK(c) /\ CachedOK(c) /\ WrittenOK(c) /\ CommitOK(c)
  BY <1>0 DEF ConnOK, IsChanging, Ended, Modified, InPlace
<1>2. /\ jrnl.orig \in Page /\ OldSize(c) = jrnl.orig /\ jrnl.orig = pager[c].dbOrigSize
      /\ Sized(committed, jrnl.orig) /\ jrnl.orig # 0
      /\ \A p \in Page : p \in pager[c].inJournal <=> p \in Records(jrnl)
      /\ \A p \in Page : p \in Records(jrnl) => jrnl.rec[p] = committed[p]
  <2>1. jrnl.orig \in Page /\ OldSize(c) = jrnl.orig /\ jrnl.orig = pager[c].dbOrigSize
        /\ Sized(committed, jrnl.orig) /\ jrnl.orig # 0
    BY <1>1, ChangingFacts DEF OldSize, Page
  <2> QED
    BY <1>1, <2>1, ChangingFacts DEF Records, JournalledOK, Page
<1>3. NeedsClean(c)' => Clean'
  <2>1. CASE pager[c].eState = "WRITER_CACHEMOD"
    BY <1>0, <2>1 DEF ConnOK, NeedsClean, Clean
  <2>2. CASE pager[c].eState = "WRITER_DBMOD"
    BY <1>0, <1>f, <2>2 DEF NeedsClean, Locked, NeedsRange, lockVars
  <2> QED
    BY <2>1, <2>2
<1>4. ReplayOK(c)'
  <2>1. SUFFICES ASSUME pager[c].eState = "WRITER_DBMOD", NEW p \in Page,
                        p \notin Records(jrnl) \cap jrnl.dur
                 PROVE  db'[p] = committed[p]
    BY <1>0, <1>1, <1>f DEF ReplayOK, Records, JournalledOK
  <2>2. Cut(jrnl.orig) /\ Restores(jrnl, committed)
    BY <1>0, <1>2, <2>1 DEF FilesOK
  <2>3. CASE p <= jrnl.orig
    BY <1>0, <1>2, <2>1, <2>2, <2>3, CutFacts DEF Restores, Records, Kept, Page, Journal
  <2>4. CASE ~(p <= jrnl.orig)
    BY <1>0, <1>2, <2>2, <2>4, CutFacts
  <2> QED
    BY <2>3, <2>4
<1>5. SettledOK(c)'
  <2>1. /\ pager[c].cache[1] \in Content /\ pager[c].cache[1] # Absent /\ 1 \in Page
        /\ rkey[c] = k
    BY <1>1, SomeTypes, Marks, ActorFacts DEF CachedOK
  <2>2. ASSUME NEW p \in Page, RolledBack(c)[p] # Absent
        PROVE  /\ RolledBack(c)[p] \in Content /\ committed[p] \in Stored
               /\ RolledBack(c)[p].tid = committed[p].tid
               /\ RolledBack(c)[p].ctr = committed[p].ctr
    <3>1. p <= jrnl.orig /\ pager[c].cache[p] # Absent
      <4>1. CASE p <= jrnl.orig
        BY <1>0, <1>2, <2>2, <4>1 DEF RolledBack, Page
      <4>2. CASE ~(p <= jrnl.orig)
        BY <1>0, <1>2, <2>2, <4>2 DEF RolledBack, Page
      <4> QED
        BY <4>1, <4>2
    <3>2. CASE p \in Records(jrnl)
      <4>1. RolledBack(c)[p] = Decrypt(k, committed[p])
        BY <1>0, <1>2, <2>1, <3>1, <3>2 DEF RolledBack, Page
      <4>2. committed[p] \in Stored /\ committed[p].key = k
        BY <1>2, <3>1, ActorFacts DEF Sized
      <4> QED
        BY <4>1, <4>2, DecryptType
    <3>3. CASE p \notin Records(jrnl)
      <4>1. RolledBack(c)[p] = pager[c].cache[p]
        BY <1>0, <1>2, <3>1, <3>3 DEF RolledBack, Page
      <4>2. Holds(c, p, committed)
        BY <1>1, <1>2, <3>1, <3>3 DEF CachedOK
      <4> QED
        BY <1>0, <4>1, <4>2 DEF Holds
    <3> QED
      BY <3>2, <3>3
  <2>3. RolledBack(c)[1] # Absent
    <3>1. 1 <= jrnl.orig /\ ~(1 > jrnl.orig)
      BY <1>2, SomeTypes
    <3>2. committed[1] # Absent
      BY <1>2, <3>1, <2>1 DEF Sized
    <3>3. Decrypt(rkey[c], committed[1]) # Absent
      BY <1>0, <2>1, <3>2, ActorFacts, DecryptCases
    <3> QED
      BY <1>0, <1>2, <2>1, <3>1, <3>3 DEF RolledBack
  <2>4. pager'[c].dbFileVers = Version(committed[1])
    <3>1. CASE 1 \in Records(jrnl)
      BY <1>f, <1>2, <2>1, <3>1
    <3>2. CASE 1 \notin Records(jrnl)
      <4>1. 1 \notin pager[c].dirty
        BY <1>1, <1>2, <2>1, <3>2, SomeTypes DEF CachedOK
      <4> QED
        BY <1>f, <1>1, <3>2, <4>1 DEF CommitOK
    <3> QED
      BY <3>1, <3>2
  <2> HIDE DEF RolledBack
  <2> QED
    BY <1>0, <1>f, <1>2, <2>2, <2>3, <2>4, Marks DEF SettledOK, FirstPageFirst, Sized, Holds
<1>6. UnwrittenOK(c)' /\ StaleOK(c)' /\ ~IsChanging(c)'
  BY <1>0, <1>f DEF UnwrittenOK, StaleOK, IsChanging, Ended, Modified
<1> QED
  BY <1>3, <1>4, <1>5, <1>6 DEF ConnOK, JournalledOK, CachedOK, WrittenOK, CommitOK

(* A rollback begins.                                                      *)
LEMMA RollbackOK ==
  ASSUME NEW k \in Key, InvUnder(k), NEW c \in Conn, Rollback(c) \/ FailedCommit(c)
  PROVE  ConnOK(c)'
<1>0. /\ ConnOK(c) /\ InPlace(c) /\ Undo(c) /\ pager[c].at \in {"idle", "failed"}
      /\ pager[c] \in PagerState /\ pager \in [Conn -> PagerState]
      /\ pager[c].eState \in Writer
  BY ActorFacts DEF Rollback, FailedCommit, Ready, InPlace, Writer, Modified
<1>1. CASE pager[c].eState = "WRITER_LOCKED"
  <2>1. /\ SameCache(c) /\ SameFiles /\ pager'[c].eState = pager[c].eState
        /\ pager'[c].tid = pager[c].tid /\ pager'[c].goal = pager[c].goal
        /\ pager'[c].job = pager[c].job /\ pager'[c].at = "release"
    BY <1>0, <1>1 DEF Undo, SameCache, SameFiles, keys, history, PagerState
  <2> QED
    BY <1>0, <1>1, <2>1, Moved
    DEF NeedsClean, IsSettled, IsChanging, Ended, Modified, InPlace
<1>2. CASE pager[c].eState \in {"WRITER_CACHEMOD", "WRITER_DBMOD"}
  BY <1>0, <1>2, UndoOK
<1> QED
  BY <1>0, <1>1, <1>2 DEF InPlace, Writer, Modified

(* The end of a failed call, and the end of a process.                     *)
LEMMA ReleasedOK ==
  ASSUME NEW k \in Key, InvUnder(k), NEW c \in Conn, Unlock(c) \/ Ends(c)
  PROVE  ConnOK(c)'
<1>0. pager \in [Conn -> PagerState] /\ FilesOK
  BY ActorFacts
<1>1. CASE Unlock(c)
  BY <1>0, <1>1, FreshOK DEF Unlock, PagerUnlock
<1>2. CASE Ends(c)
  BY <1>0, <1>2, FreshOK DEF Ends, Die
<1> QED
  BY <1>1, <1>2

-----------------------------------------------------------------------------
(* A page is written: the journal it is saved in, and what is true before. *)
JournalFor(c) ==
  IF pager[c].eState = "WRITER_LOCKED" THEN NewJournal(pager[c].dbOrigSize) ELSE jrnl

Original(c, p) == p <= pager[c].dbOrigSize /\ p \notin pager[c].inJournal

CanWrite(c) ==
  /\ pager[c].dbOrigSize \in Page /\ pager[c].dbSize \in Page
  /\ pager[c].dbOrigSize <= pager[c].dbSize
  /\ Sized(committed, pager[c].dbOrigSize)
  /\ JournalFor(c) \in Journal /\ JournalFor(c).orig = pager[c].dbOrigSize
  /\ \A p \in Page : JournalFor(c).rec[p] # Absent <=> p \in pager[c].inJournal
  /\ pager[c].inJournal \subseteq 1 .. pager[c].dbOrigSize
  /\ pager[c].eState = "WRITER_DBMOD" =>
       /\ jrnl.firm /\ jrnl.magic
       /\ \A p \in pager[c].inJournal \ pager[c].needSync : Kept(jrnl, p)
  /\ pager[c].eState # "WRITER_DBMOD" => Clean
  /\ KnowsKey(c) /\ pager[c].cache[1] \in Content
  /\ \A p \in Page : pager[c].cache[p] # Absent =>
       /\ pager[c].cache[p] \in Content /\ p <= pager[c].dbSize
       /\ Holds(c, p, committed) \/ pager[c].cache[p].tid = pager[c].tid
       /\ Original(c, p) => Holds(c, p, committed)
       /\ p \notin pager[c].dirty => Holds(c, p, db)
  /\ \A p \in pager[c].dirty :
       /\ pager[c].cache[p] # Absent /\ pager[c].cache[p].tid = pager[c].tid
       /\ ~Original(c, p)
  /\ \A p \in Page :
       /\ p > pager[c].dbSize => db[p] = Absent
       /\ p > pager[c].dbOrigSize /\ p <= pager[c].dbSize =>
            p \in pager[c].dirty \/ db[p] # Absent
       /\ \/ db[p] = committed[p]
          \/ db[p] \in Stored /\ db[p].key = wkey[c] /\ db[p].tid = pager[c].tid
  /\ pager[c].dbFileVers = Version(committed[1])

(* The journals that a transaction begins and ends with.                   *)
LEMMA JournalTypes ==
  ASSUME NEW n \in Page
  PROVE  /\ NoJournal \in Journal /\ ~NoJournal.firm /\ NoJournal.orig = 0 /\ ~NoJournal.magic
         /\ Truncated \in Journal /\ ~Truncated.firm /\ Truncated.orig = 0 /\ ~Truncated.magic
         /\ NewJournal(n) \in Journal /\ NewJournal(n).orig = n
         /\ NewJournal(n).exists /\ ~NewJournal(n).magic /\ ~NewJournal(n).firm
         /\ \A p \in Page : NewJournal(n).rec[p] = Absent
<1>1. Empty \in [Page -> Stored \cup {Absent}] /\ \A p \in Page : Empty[p] = Absent
  BY DEF Empty
<1>2. n \in 0 .. MaxPage /\ 0 \in 0 .. MaxPage
  BY PagerAssumption DEF Page
<1>3. NoJournal \in Journal /\ NoJournal.rec = Empty /\ ~NoJournal.firm
      /\ NoJournal.orig = 0 /\ ~NoJournal.magic
  <2> HIDE DEF Empty
  <2> QED
    BY <1>1, <1>2 DEF NoJournal, Journal
<1>4. Truncated \in Journal /\ Truncated.rec = Empty /\ ~Truncated.firm /\ Truncated.exists
      /\ Truncated.orig = 0 /\ ~Truncated.magic
  BY <1>3 DEF Truncated, Journal
<1>5. NewJournal(n) \in Journal /\ NewJournal(n).rec = Empty /\ ~NewJournal(n).firm
      /\ NewJournal(n).exists /\ NewJournal(n).orig = n /\ ~NewJournal(n).magic
  BY <1>2, <1>4 DEF NewJournal, Journal
<1> QED
  BY <1>1, <1>3, <1>4, <1>5

(* A writer between two calls may change any page.                         *)
LEMMA WriterCanWrite ==
  ASSUME NEW k \in Key, InvUnder(k), NEW c \in Conn,
         Ready(c, {"WRITER_LOCKED", "WRITER_CACHEMOD", "WRITER_DBMOD"})
  PROVE  CanWrite(c)
<1>0. /\ ConnOK(c) /\ InPlace(c) /\ Locked(c) /\ TypeOK /\ FilesOK
      /\ pager[c] \in PagerState
      /\ pager[c].at = "idle" /\ pager[c].goal = "none" /\ jrnl \in Journal
      /\ pager[c].eState \in {"WRITER_LOCKED", "WRITER_CACHEMOD", "WRITER_DBMOD"}
  BY ActorFacts DEF InvUnder, TypeOK, Ready, InPlace
<1>1. CASE pager[c].eState = "WRITER_LOCKED"
  <2>1. /\ Clean /\ SettledOK(c) /\ IsSettled(c) /\ UnwrittenOK(c)
    BY <1>0, <1>1 DEF ConnOK, NeedsClean, IsSettled
  <2>2. /\ pager[c].dbOrigSize = pager[c].dbSize /\ pager[c].cache[1] # Absent
        /\ pager[c].cache[1] # Garbage /\ KnowsKey(c)
        /\ pager[c].dirty = {} /\ pager[c].inJournal = {}
    BY <1>1, <2>1 DEF UnwrittenOK, Modified
  <2>3. pager[c].dbSize \in Page /\ Sized(committed, pager[c].dbSize)
    <3>1. Sized(committed, pager[c].dbSize) /\ pager[c].dbSize \in 0 .. MaxPage
      BY <1>0, <2>1 DEF SettledOK, PagerState
    <3>2. 1 <= pager[c].dbSize
      BY <3>1, FirstPage, SomeTypes, Marks DEF Sized
    <3> QED
      BY <3>1, <3>2, SomeTypes
  <2>4. /\ JournalFor(c) \in Journal /\ JournalFor(c).orig = pager[c].dbOrigSize
        /\ \A p \in Page : JournalFor(c).rec[p] = Absent
    BY <1>1, <2>2, <2>3, JournalTypes DEF JournalFor
  <2>5. pager[c].dbFileVers = Version(committed[1])
        /\ \A p \in Page : pager[c].cache[p] # Absent => Holds(c, p, committed)
    BY <2>1, <2>2 DEF SettledOK, FirstPageFirst
  <2>6. \A p \in Page : pager[c].cache[p] # Absent =>
          /\ pager[c].cache[p] \in Content /\ p <= pager[c].dbSize /\ Holds(c, p, db)
    BY <2>1, <2>3, <2>5, Marks DEF Holds, Sized, Clean
  <2>7. \A p \in Page : db[p] = committed[p] /\ (p > pager[c].dbSize => db[p] = Absent)
    BY <2>1, <2>3 DEF Sized, Clean, Page
  <2>8. pager[c].cache[1] \in Content
    BY <2>2, <2>6, SomeTypes
  <2>9. pager[c].dbOrigSize \in Page /\ pager[c].dbOrigSize <= pager[c].dbSize
        /\ Sized(committed, pager[c].dbOrigSize)
    BY <2>2, <2>3 DEF Page
  <2>10. \A p \in Page : ~(p > pager[c].dbOrigSize /\ p <= pager[c].dbSize)
    BY <2>2, <2>3 DEF Page
  <2> QED
    BY <1>1, <2>1, <2>2, <2>3, <2>4, <2>5, <2>6, <2>7, <2>8, <2>9, <2>10 DEF CanWrite
<1>2. CASE pager[c].eState \in {"WRITER_CACHEMOD", "WRITER_DBMOD"}
  <2>1. IsChanging(c) /\ JournalledOK(c) /\ CachedOK(c) /\ WrittenOK(c) /\ CommitOK(c)
    BY <1>0, <1>2 DEF ConnOK, IsChanging, Ended, Modified
  <2>2. /\ pager[c].dbOrigSize \in Page /\ pager[c].dbSize \in Page
        /\ pager[c].dbOrigSize <= pager[c].dbSize /\ Sized(committed, pager[c].dbOrigSize)
    BY <2>1, ChangingFacts
  <2>3. JournalFor(c) = jrnl
    BY <1>2 DEF JournalFor
  <2>4. pager[c].eState # "WRITER_DBMOD" => Clean
    BY <1>0, <1>2 DEF ConnOK, NeedsClean
  <2>5. pager[c].dirty \subseteq Page
    BY <1>0 DEF PagerState
  <2> QED
    BY <1>0, <1>2, <2>1, <2>2, <2>3, <2>4, <2>5
    DEF CanWrite, JournalledOK, CachedOK, WrittenOK, CommitOK, Original
<1> QED
  BY <1>0, <1>1, <1>2

(* The fields of struct Pager after a write of d to page p.                *)
IsNew(c, p) == p > pager[c].dbOrigSize /\ pager[c].eState # "WRITER_DBMOD"

Puts(r, c, p, d) ==
  /\ r.eState = IF pager[c].eState = "WRITER_LOCKED" THEN "WRITER_CACHEMOD"
                        ELSE pager[c].eState
  /\ r.cache = [pager[c].cache EXCEPT ![p] = d]
  /\ r.dirty = pager[c].dirty \cup {p}
  /\ r.needSync = IF Saves(c, p) \/ IsNew(c, p) THEN pager[c].needSync \cup {p}
                          ELSE pager[c].needSync
  /\ r.inJournal = IF Saves(c, p) THEN pager[c].inJournal \cup {p}
                           ELSE pager[c].inJournal
  /\ r.dbSize = IF p > pager[c].dbSize THEN p ELSE pager[c].dbSize
  /\ r.job = pager[c].job /\ r.dbOrigSize = pager[c].dbOrigSize
  /\ r.dbFileVers = pager[c].dbFileVers /\ r.tid = pager[c].tid

(* What changing a page in the cache changes of a connection.              *)
LEMMA DirtiedFields ==
  ASSUME NEW c \in Conn, pager[c] \in PagerState, NEW p, NEW d
  PROVE  /\ Puts(Dirtied(c, p, d), c, p, d)
         /\ Dirtied(c, p, d).at = pager[c].at /\ Dirtied(c, p, d).goal = pager[c].goal
         /\ DOMAIN Dirtied(c, p, d) = DOMAIN pager[c]
<1> DEFINE r == pager[c]
           needSync == IF Saves(c, p) \/ IsNew(c, p) THEN r.needSync \cup {p} ELSE r.needSync
           inJournal == IF Saves(c, p) THEN r.inJournal \cup {p} ELSE r.inJournal
           eState == IF r.eState = "WRITER_LOCKED" THEN "WRITER_CACHEMOD" ELSE r.eState
           dbSize == IF p > r.dbSize THEN p ELSE r.dbSize
           cache == [r.cache EXCEPT ![p] = d]
           dirty == r.dirty \cup {p}
           new == Dirtied(c, p, d)
<1>1. new = [r EXCEPT !.cache = cache, !.dirty = dirty, !.needSync = needSync,
                      !.inJournal = inJournal, !.eState = eState, !.dbSize = dbSize]
  BY DEF Dirtied, PagerState, IsNew
<1> HIDE DEF needSync, inJournal, eState, dbSize, cache, dirty, new
<1>2. /\ new.eState = eState /\ new.cache = cache /\ new.dirty = dirty
      /\ new.needSync = needSync /\ new.inJournal = inJournal /\ new.dbSize = dbSize
      /\ new.job = r.job /\ new.dbOrigSize = r.dbOrigSize /\ new.dbFileVers = r.dbFileVers
      /\ new.tid = r.tid /\ new.at = r.at /\ new.goal = r.goal
  BY <1>1 DEF PagerState
<1>3. DOMAIN new = DOMAIN r
  BY <1>1
<1> QED
  BY <1>2, <1>3 DEF Puts, needSync, inJournal, eState, dbSize, cache, dirty, new

(* A page that is changed is in the journal first.                         *)
LEMMA PutOK ==
  ASSUME NEW k \in Key, InvUnder(k), NEW c \in Conn, CanWrite(c),
         pager[c].eState \in {"WRITER_LOCKED", "WRITER_CACHEMOD", "WRITER_DBMOD"},
         pager[c].at = "idle", pager[c].goal = "none",
         NEW p \in Page, p <= pager[c].dbSize + 1,
         p <= pager[c].dbSize => pager[c].cache[p] # Absent,
         NEW d \in Content, d.tid = pager[c].tid, Puts(pager'[c], c, p, d),
         jrnl' = Saved(c, p, JournalFor(c)),
         UNCHANGED <<lockVars, db, dbOld, committed, keys>>,
         \/ pager'[c].at = "idle" /\ pager'[c].goal = "none"
         \/ /\ pager'[c].at \in {"header", "upgrade", "pending"} /\ pager'[c].goal = "commit"
            /\ p = 1 /\ d.ctr = committed[1].ctr + 1
            /\ Rewritten(c)
  PROVE  ConnOK(c)'
<1>0. /\ ConnOK(c) /\ Locked(c) /\ rkey[c] \in Key /\ pager[c] \in PagerState
      /\ UNCHANGED <<lockVars, db, dbOld, committed, rkey, wkey>>
      /\ pager[c].dirty \subseteq Page /\ pager[c].inJournal \subseteq Page
  BY ActorFacts DEF keys, PagerState
<1>1. /\ pager'[c].cache[p] = d
      /\ \A q \in Page : q # p => pager'[c].cache[q] = pager[c].cache[q]
      /\ pager'[c].cache[1] \in Content
  BY <1>0, SomeTypes DEF Puts, PagerState, CanWrite
<1>2. /\ p <= pager'[c].dbSize /\ pager[c].dbSize <= pager'[c].dbSize
      /\ pager'[c].dbSize \in Page
      /\ \A q \in Page : q <= pager'[c].dbSize => q = p \/ q <= pager[c].dbSize
      /\ \A q \in Page : q <= pager[c].dbSize => q <= pager'[c].dbSize
  BY DEF Puts, CanWrite, Page
<1>3. \A q \in Page : q # p => (q \in pager'[c].dirty <=> q \in pager[c].dirty)
                            /\ (q \in pager'[c].inJournal <=> q \in pager[c].inJournal)
                            /\ (q \in pager'[c].needSync <=> q \in pager[c].needSync)
  BY DEF Puts
<1>4. p \in pager'[c].dirty /\ (p <= pager[c].dbOrigSize => p \in pager'[c].inJournal)
      /\ (p \in pager'[c].inJournal \ pager'[c].needSync => p \in pager[c].inJournal \ pager[c].needSync)
      /\ (p \in pager'[c].inJournal => p <= pager[c].dbOrigSize)
  BY DEF Puts, Saves, CanWrite
<1>5. /\ jrnl'.orig = pager[c].dbOrigSize
      /\ \A q \in Page : q # p => jrnl'.rec[q] = JournalFor(c).rec[q]
      /\ jrnl'.rec[p] # Absent <=> p \in pager'[c].inJournal
      /\ jrnl'.cnt = JournalFor(c).cnt /\ jrnl'.dur = JournalFor(c).dur
      /\ jrnl'.firm = JournalFor(c).firm /\ jrnl'.magic = JournalFor(c).magic
  <2>1. CASE Saves(c, p)
    <3>1. pager[c].cache[p] \in Content
      BY <2>1 DEF CanWrite, Saves, Page
    <3>2. Encrypt(rkey[c], pager[c].cache[p]) # Absent
      BY <1>0, <3>1, EncryptType, Marks
    <3>3. jrnl' = [JournalFor(c) EXCEPT !.rec[p] = Encrypt(rkey[c], pager[c].cache[p])]
          /\ p \in pager'[c].inJournal
      BY <2>1 DEF Saved, Puts
    <3> QED
      BY <3>2, <3>3 DEF CanWrite, Journal
  <2>2. CASE ~Saves(c, p)
    BY <2>2 DEF Saved, Puts, CanWrite
  <2> QED
    BY <2>1, <2>2
<1>6. JournalledOK(c)'
  <2>1. \A q \in Page : jrnl'.rec[q] # Absent <=> q \in pager'[c].inJournal
    BY <1>3, <1>5 DEF CanWrite
  <2>2. pager'[c].inJournal \subseteq 1 .. pager[c].dbOrigSize
    BY <1>0, <1>4 DEF CanWrite, Puts, Page
  <2>3. ASSUME pager'[c].eState # "WRITER_CACHEMOD"
        PROVE  /\ jrnl'.firm /\ jrnl'.magic
               /\ \A q \in pager'[c].inJournal \ pager'[c].needSync : Kept(jrnl', q)
    <3>1. pager[c].eState = "WRITER_DBMOD" /\ JournalFor(c) = jrnl
      BY <2>3 DEF Puts, JournalFor
    <3>2. ASSUME NEW q \in pager'[c].inJournal \ pager'[c].needSync
          PROVE  q \in pager[c].inJournal \ pager[c].needSync /\ q \in Page
      BY <1>0, <1>3, <1>4, <2>2, <3>2 DEF CanWrite, Puts, Page
    <3>3. ASSUME NEW q \in pager'[c].inJournal \ pager'[c].needSync
          PROVE  Kept(jrnl', q)
      BY <1>5, <2>1, <3>1, <3>2, <3>3 DEF CanWrite, Kept
    <3> QED
      BY <1>5, <3>1, <3>3 DEF CanWrite
  <2>4. /\ pager'[c].dbOrigSize = pager[c].dbOrigSize /\ pager[c].dbOrigSize # 0
        /\ pager[c].dbOrigSize <= pager'[c].dbSize
    BY <1>2 DEF CanWrite, Puts, Page
  <2> QED
    BY <1>5, <2>1, <2>2, <2>3, <2>4 DEF JournalledOK
<1>7. CachedOK(c)'
  <2>1. \A q \in Page : q # p => Holds(c, q, committed)' = Holds(c, q, committed)
                              /\ Holds(c, q, db)' = Holds(c, q, db)
    BY <1>0, <1>1 DEF Holds
  <2>2. /\ pager'[c].tid = pager[c].tid /\ pager'[c].dbOrigSize = pager[c].dbOrigSize
        /\ d # Absent
    BY Marks DEF Puts
  <2>3. ASSUME NEW q \in Page, q # p
        PROVE  /\ pager'[c].cache[q] # Absent =>
                    /\ pager'[c].cache[q] \in Content
                    /\ q <= pager'[c].dbSize
                    /\ Holds(c, q, committed)' \/ pager'[c].cache[q].tid = pager'[c].tid
                    /\ q <= pager'[c].dbOrigSize /\ q \notin pager'[c].inJournal
                       => Holds(c, q, committed)'
                    /\ q \notin pager'[c].dirty => Holds(c, q, db)'
               /\ q \in pager'[c].dirty =>
                    /\ pager'[c].cache[q] # Absent /\ pager'[c].cache[q].tid = pager'[c].tid
                    /\ q <= pager'[c].dbOrigSize => q \in pager'[c].inJournal
    BY <1>1, <1>2, <1>3, <2>1, <2>2, <2>3 DEF CanWrite, Original
  <2> QED
    BY <1>0, <1>1, <1>2, <1>4, <2>2, <2>3 DEF CachedOK, CanWrite, KnowsKey
<1>8. WrittenOK(c)'
  <2>1. \A q \in Page : q > pager'[c].dbSize => q > pager[c].dbSize
    BY <1>2 DEF CanWrite, Page
  <2>2. /\ pager'[c].tid = pager[c].tid /\ pager'[c].dbOrigSize = pager[c].dbOrigSize
    BY DEF Puts
  <2> QED
    BY <1>0, <1>2, <1>3, <1>4, <2>1, <2>2 DEF WrittenOK, CanWrite
<1>9. CommitOK(c)'
  <2>1. pager'[c].dbFileVers = Version(committed'[1])
    BY <1>0 DEF CanWrite, Puts
  <2>2. pager'[c].eState # "WRITER_FINISHED"
    BY DEF Puts
  <2>3. ASSUME pager'[c].goal = "commit" PROVE Rewritten(c)'
    <3>1. Rewritten(c) /\ pager'[c].dbSize = pager[c].dbSize
      BY <1>0, <2>3, SomeTypes DEF Puts, CanWrite, Page
    <3>2. pager[c].dirty \subseteq pager'[c].dirty
      BY DEF Puts
    <3> QED
      BY <1>0, <3>1, <3>2 DEF Rewritten
  <2> QED
    BY <1>0, <1>1, <1>4, <2>1, <2>2, <2>3 DEF CommitOK
<1>10. pager'[c].eState = "WRITER_CACHEMOD" \/ excl' # c => Clean'
  BY <1>0 DEF CanWrite, Puts, Locked, NeedsRange, Clean, lockVars
<1> QED
  BY <1>6, <1>7, <1>8, <1>9, <1>10, ChangingOnly DEF Puts, Ended, Modified

(* Write changes a page that may be changed.                               *)
LEMMA WriteFacts ==
  ASSUME NEW k \in Key, InvUnder(k), NEW c \in Conn, NEW p \in Page, Write(c, p)
  PROVE  /\ CanWrite(c) /\ pager[c].at = "idle" /\ pager[c].goal = "none"
         /\ pager[c].eState \in {"WRITER_LOCKED", "WRITER_CACHEMOD", "WRITER_DBMOD"}
         /\ p <= pager[c].dbSize + 1
         /\ p <= pager[c].dbSize => pager[c].cache[p] # Absent
         /\ \E d \in Content : d.tid = pager[c].tid /\ Puts(pager'[c], c, p, d)
         /\ pager'[c].at = "idle" /\ pager'[c].goal = "none"
         /\ jrnl' = Saved(c, p, JournalFor(c))
         /\ UNCHANGED <<lockVars, db, dbOld, jrnlOld, committed, keys>>
<1>0. /\ CanWrite(c) /\ pager[c].at = "idle" /\ pager[c].goal = "none"
      /\ pager[c].eState \in {"WRITER_LOCKED", "WRITER_CACHEMOD", "WRITER_DBMOD"}
      /\ pager[c] \in PagerState /\ pager \in [Conn -> PagerState]
  BY ActorFacts, WriterCanWrite DEF Write, Ready, InPlace
<1> DEFINE d == Plain(pager[c].tid, IF pager[c].cache[p] = Absent THEN 0 ELSE pager[c].cache[p].ctr)
<1>1. d \in Content /\ d.tid = pager[c].tid
  <2>1. (IF pager[c].cache[p] = Absent THEN 0 ELSE pager[c].cache[p].ctr) \in Nat
    BY <1>0 DEF CanWrite, Content
  <2>2. pager[c].tid \in 0 .. MaxTxn
    BY <1>0 DEF PagerState
  <2> QED
    BY <2>1, <2>2 DEF Plain, Content
<1>2. pager'[c] = Dirtied(c, p, d)
  BY <1>0 DEF Write
<1> HIDE DEF d
<1>3. Puts(pager'[c], c, p, d) /\ pager'[c].at = pager[c].at /\ pager'[c].goal = pager[c].goal
  BY <1>0, <1>2, DirtiedFields
<1> QED
  BY <1>0, <1>1, <1>3 DEF Write, JournalFor, history

(* A page is changed by the application.                                   *)
LEMMA WriteOK ==
  ASSUME NEW k \in Key, InvUnder(k), NEW c \in Conn, NEW p \in Page, Write(c, p)
  PROVE  ConnOK(c)'
BY WriteFacts, PutOK

(* So does Commit, page 1.                                                 *)
LEMMA CommitFacts ==
  ASSUME NEW k \in Key, InvUnder(k), NEW c \in Conn, Commit(c)
  PROVE  /\ CanWrite(c) /\ pager[c].at = "idle" /\ pager[c].goal = "none" /\ 1 \in Page
         /\ pager[c].eState \in {"WRITER_CACHEMOD", "WRITER_DBMOD"}
         /\ 1 <= pager[c].dbSize /\ pager[c].cache[1] # Absent
         /\ \E d \in Content : d.tid = pager[c].tid /\ d.ctr = committed[1].ctr + 1 /\ Puts(pager'[c], c, 1, d)
         /\ pager'[c].at \in {"header", "upgrade", "pending"} /\ pager'[c].goal = "commit"
         /\ jrnl' = Saved(c, 1, JournalFor(c))
         /\ UNCHANGED <<lockVars, db, dbOld, jrnlOld, committed, keys>>
<1>0. /\ CanWrite(c) /\ pager[c].at = "idle" /\ pager[c].goal = "none"
      /\ pager[c].eState \in {"WRITER_CACHEMOD", "WRITER_DBMOD"}
      /\ pager[c] \in PagerState /\ pager \in [Conn -> PagerState]
  BY ActorFacts, WriterCanWrite DEF Commit, Ready, InPlace
<1> DEFINE d == Plain(pager[c].tid, pager[c].dbFileVers.ctr + 1)
<1>1. d \in Content /\ d.tid = pager[c].tid /\ d.ctr = committed[1].ctr + 1
  <2>1. pager[c].dbFileVers.ctr = committed[1].ctr /\ committed[1].ctr \in Nat
    BY <1>0, FirstPage DEF CanWrite, Stored
  <2>2. pager[c].tid \in 0 .. MaxTxn
    BY <1>0 DEF PagerState
  <2> QED
    BY <2>1, <2>2 DEF Plain, Content
<1>2. pager'[c] = [Dirtied(c, 1, d) EXCEPT !.at = LockStart(c), !.goal = "commit"]
  BY <1>0 DEF Commit
<1> HIDE DEF d
<1>3. Puts(pager'[c], c, 1, d) /\ pager'[c].at = LockStart(c) /\ pager'[c].goal = "commit"
  <2> DEFINE r == Dirtied(c, 1, d)
             at == LockStart(c)
  <2>1. /\ Puts(r, c, 1, d) /\ pager'[c] = [r EXCEPT !.at = at, !.goal = "commit"]
        /\ DOMAIN r = {"eState", "at", "goal", "job", "cache", "dirty", "needSync", "inJournal",
                       "dbSize", "dbOrigSize", "dbFileVers", "tid"}
    BY <1>0, <1>2, DirtiedFields DEF PagerState
  <2> HIDE DEF r, at
  <2>2. /\ pager'[c].at = at /\ pager'[c].goal = "commit" /\ pager'[c].eState = r.eState
        /\ pager'[c].job = r.job /\ pager'[c].cache = r.cache /\ pager'[c].dirty = r.dirty
        /\ pager'[c].needSync = r.needSync /\ pager'[c].inJournal = r.inJournal
        /\ pager'[c].dbSize = r.dbSize /\ pager'[c].dbOrigSize = r.dbOrigSize
        /\ pager'[c].dbFileVers = r.dbFileVers /\ pager'[c].tid = r.tid
    BY <2>1
  <2> QED
    BY <2>1, <2>2 DEF Puts, at
<1>4. 1 \in Page /\ 1 <= pager[c].dbSize /\ pager[c].cache[1] # Absent
  BY <1>0, SomeTypes, Marks DEF CanWrite
<1>5. jrnl' = Saved(c, 1, JournalFor(c))
      /\ UNCHANGED <<lockVars, db, dbOld, jrnlOld, committed, keys>>
  BY <1>0 DEF Commit, JournalFor, history
<1> QED
  BY <1>0, <1>1, <1>3, <1>4, <1>5 DEF LockStart

(* A commit begins.                                                        *)
LEMMA CommitStepOK ==
  ASSUME NEW k \in Key, InvUnder(k), NEW c \in Conn, Commit(c), Rewritten(c)
  PROVE  ConnOK(c)'
<1>1. 1 <= pager[c].dbSize + 1
  BY CommitFacts, SomeTypes DEF CanWrite
<1> QED
  BY <1>1, CommitFacts, PutOK

(* A connection that ends a read or gives up is as if it had been opened.  *)
LEMMA Closes ==
  ASSUME NEW k \in Key, InvUnder(k), NEW c \in Conn, EndRead(c) \/ Unlock(c) \/ Ends(c)
  PROVE  pager'[c].eState = "OPEN"
<1>1. pager \in [Conn -> PagerState]
  BY ActorFacts
<1>2. \/ pager'[c] = Fresh
      \/ \E cache, v : pager'[c] = [Fresh EXCEPT !.cache = cache, !.dbFileVers = v]
  <2>1. ASSUME NEW clear \in BOOLEAN, PagerUnlock(c, clear)
        PROVE  \E cache, v : pager'[c] = [Fresh EXCEPT !.cache = cache, !.dbFileVers = v]
    <3>1. pager'[c] = [Fresh EXCEPT !.cache = IF clear THEN Empty ELSE pager[c].cache,
                                    !.dbFileVers = pager[c].dbFileVers]
      BY <1>1, <2>1 DEF PagerUnlock
    <3> QED
      BY <3>1
  <2> QED
    BY <1>1, <2>1 DEF EndRead, Unlock, Ends, Die
<1>3. ASSUME NEW cache, NEW v, pager'[c] = [Fresh EXCEPT !.cache = cache, !.dbFileVers = v]
      PROVE  pager'[c].eState = Fresh.eState
  BY <1>3 DEF Fresh
<1>4. Fresh.eState = "OPEN"
  BY DEF Fresh
<1> QED
  BY <1>2, <1>3, <1>4

(* The steps that leave the cache.                                         *)
LEMMA FirstPageMoves ==
  ASSUME NEW k \in Key, InvUnder(k), NEW c \in Conn,
         \/ SharedLock(c) \/ HotExists(c) \/ HotReserved(c) \/ HotOpen(c)
         \/ HotByte(c) \/ HotLock(c)
         \/ HotExclusive(c) \/ HotFailed(c) \/ DeleteFails(c) \/ Downgrade(c) \/ Regain(c)
         \/ LockPending(c) \/ LockUpgrade(c) \/ LockExclusive(c) \/ Reread(c)
         \/ JournalHeader(c) \/ IoError(c) \/ ReplaySync(c)
  PROVE  /\ pager'[c].eState = pager[c].eState /\ pager'[c].cache = pager[c].cache
         /\ pager'[c].dbFileVers = pager[c].dbFileVers /\ pager[c].at # "unlock"
<1> DEFINE r == pager[c]
<1>1. pager \in [Conn -> PagerState] /\ r \in PagerState
  BY ActorFacts
<1>2. /\ \/ \E at \in At : pager' = [pager EXCEPT ![c] = [r EXCEPT !.at = at]]
         \/ pager' = [pager EXCEPT ![c] = [r EXCEPT !.at = "idle", !.goal = "none", !.job = {}]]
      /\ r.at # "unlock"
  BY <1>1 DEF SharedLock, HotExists, HotReserved, HotOpen, HotByte, HotLock, HotExclusive, HotFailed,
     DeleteFails, Downgrade, Regain, LockPending, LockUpgrade, LockExclusive, Reread, JournalHeader,
     IoError, ReplaySync, Goto, Busy, At
<1> HIDE DEF r
<1>3. ASSUME NEW at \in At, pager' = [pager EXCEPT ![c] = [r EXCEPT !.at = at]]
      PROVE  pager'[c].eState = r.eState /\ pager'[c].cache = r.cache
             /\ pager'[c].dbFileVers = r.dbFileVers
  BY <1>1, <1>3 DEF PagerState
<1>4. ASSUME pager' = [pager EXCEPT ![c] = [r EXCEPT !.at = "idle", !.goal = "none", !.job = {}]]
      PROVE  pager'[c].eState = r.eState /\ pager'[c].cache = r.cache
             /\ pager'[c].dbFileVers = r.dbFileVers
  BY <1>1, <1>4 DEF PagerState
<1> QED
  BY <1>2, <1>3, <1>4 DEF r

(* The steps that read or write a page, or sync, stay within the call.     *)
LEMMA InCallFields ==
  ASSUME TypeOK, NEW c \in Conn,
         \/ \E p \in Page : Read(c, p) \/ Spill(c, p)
         \/ Replay(c) \/ JournalSync(c) \/ WriteDb(c) \/ DbSync(c)
  PROVE  /\ \/ pager'[c].eState = pager[c].eState
            \/ pager[c].at = "sync" /\ pager'[c].eState = "WRITER_DBMOD"
            \/ pager[c].at = "write" /\ pager'[c].eState = "WRITER_FINISHED"
         /\ pager'[c].at \in {"idle", "header", "upgrade", "pending", "write", "finalize", "replay"}
         /\ \/ pager'[c].goal = pager[c].goal
            \/ pager[c].at = "idle" /\ pager[c].eState \in Modified
            \/ pager[c].at = "write"
         /\ pager[c].at \in {"idle", "replay", "sync", "write"}
         /\ pager[c].at = "replay" => pager'[c].at = "replay"
<1>0. pager \in [Conn -> PagerState]
  BY DEF TypeOK
<1>1. ASSUME NEW p \in Page, Read(c, p)
      PROVE  pager[c].at = "idle" /\ pager'[c].at = "idle"
             /\ pager'[c].eState = pager[c].eState /\ pager'[c].goal = pager[c].goal
  BY <1>1, ReadFields DEF Read, Ready
<1>2. ASSUME NEW p \in Page, Spill(c, p)
      PROVE  /\ pager[c].at = "idle" /\ pager[c].eState \in Modified
             /\ pager'[c].at \in {"header", "upgrade", "pending", "write"}
             /\ pager'[c].eState = pager[c].eState
  BY <1>2, SpillFields DEF Spill, Ready, LockStart, Modified
<1>3. CASE Replay(c)
  <2>1. pager[c].at = "replay" /\ \E job : pager' = [pager EXCEPT ![c] = [@ EXCEPT !.job = job]]
    BY <1>3 DEF Replay
  <2> QED
    BY <1>0, <2>1 DEF PagerState
<1>4. CASE JournalSync(c)
  BY <1>4, JournalSyncFields DEF JournalSync
<1>5. CASE WriteDb(c)
  <2>1. pager[c].at = "write"
    BY <1>5 DEF WriteDb
  <2> QED
    BY <1>5, <2>1, WriteDbFields
<1>6. CASE DbSync(c)
  BY <1>6, DbSyncFields DEF DbSync
<1> QED
  BY <1>1, <1>2, <1>3, <1>4, <1>5, <1>6

(* Who has not, or no longer, the whole range has no header in the journal.*)
LEMMA HeaderStep ==
  ASSUME NEW k \in Key, InvUnder(k), ~exposed', NEW c \in Conn, Acts(c)
  PROVE  \A d \in Conn : HeaderOK(d)'
<1>0. /\ TypeOK /\ Control /\ InPlace(c) /\ Locked(c) /\ HeaderOK(c) /\ jrnl \in Journal
      /\ pager \in [Conn -> PagerState] /\ excl \in Conn \cup {NoConn} /\ NoConn \notin Conn
  BY NoConnAssumption DEF InvUnder, Control, TypeOK, LockTypeOK
<1>1. jrnl'.magic => jrnl.magic \/ excl = c
  BY <1>0, FileAccess
<1>2. ASSUME NEW d \in Conn \ {c} PROVE HeaderOK(d)'
  <2>1. /\ pager'[d] = pager[d] /\ HeaderOK(d) /\ Locked(d)
        /\ excl' = d <=> excl = d
    BY <1>0, OthersStay, LockEffect DEF InvUnder, Control, Undisturbed, Taken
  <2>2. CASE excl = c /\ ~Outside(d)
    BY <2>2, NothingDone DEF HeaderOK
  <2>3. CASE excl = c /\ Outside(d)
    BY <2>1, <2>3 DEF HeaderOK, Outside, Modified
  <2>4. CASE excl # c
    BY <1>1, <2>1, <2>4 DEF HeaderOK, Ended
  <2> QED
    BY <2>2, <2>3, <2>4
<1>3. HeaderOK(c)'
  <2> SUFFICES ASSUME pager'[c].eState \in Modified, excl' # c \/ Ended(c)'
               PROVE  ~jrnl'.magic
    BY DEF HeaderOK
  <2> USE DEF files, lockVars
  <2>1. ASSUME NEW p \in Page, Write(c, p) PROVE ~jrnl'.magic
    <3>1. /\ excl' = excl /\ pager'[c].at = pager[c].at /\ pager[c].at = "idle"
          /\ pager[c].eState \in {"WRITER_LOCKED", "WRITER_CACHEMOD", "WRITER_DBMOD"}
      BY <1>0, <2>1 DEF Write, Dirtied, Ready, PagerState
    <3>2. pager[c].eState # "WRITER_LOCKED" => ~jrnl.magic
      BY <1>0, <3>1 DEF HeaderOK, Ended, Modified
    <3> QED
      BY <1>0, <2>1, <3>2 DEF Write, Saved, NewJournal, Truncated, NoJournal, Journal
  <2>2. CASE Commit(c)
    <3>1. /\ excl' = excl /\ pager'[c].at \in {"header", "upgrade", "pending"}
          /\ pager[c].eState \in Modified
      BY <1>0, <2>2 DEF Commit, Dirtied, Ready, PagerState, LockStart, Modified
    <3>2. ~jrnl.magic
      BY <1>0, <3>1 DEF HeaderOK, Ended
    <3> QED
      BY <1>0, <2>2, <3>2 DEF Commit, Saved, Journal
  <2>3. CASE Finalize(c)
    <3>1. pager'[c].eState = pager[c].eState
      BY <1>0, <2>3, FinalizeFields
    <3>2. pager[c].goal # "hot"
      BY <1>0, <2>3, <3>1 DEF Finalize, InPlace, Modified
    <3> QED
      BY <2>3, <3>2 DEF Finalize, FinalizeJournal, NothingRead, Truncated, NoJournal
  <2>4. CASE Recover(c) \/ JournalHeader(c) \/ JournalSync(c)
    BY <1>0, <2>4, RecoverFields, JournalHeaderFields, JournalSyncFields
    DEF Recover, JournalHeader, JournalSync, InPlace, Locked, NeedsRange, Ended, Modified
  <2>5. CASE Begin(c) \/ Validate(c) \/ EndTransaction(c)
    BY <1>0, <2>5, BeginFields, ValidateFields, EndTransactionFields
    DEF Validate, EndTransaction, InPlace, Modified, Writer
  <2>6. CASE EndRead(c) \/ Unlock(c) \/ Ends(c)
    <3>1. pager'[c].eState = "OPEN"
      BY <2>6, Closes
    <3> QED
      BY <3>1 DEF Modified
  <2>7. CASE Downgrade(c) \/ Regain(c)
    <3>1. /\ pager'[c].eState = pager[c].eState /\ jrnl' = jrnl /\ Ended(c)
      BY <1>0, <2>7 DEF Downgrade, Regain, Goto, Ended, PagerState
    <3> QED
      BY <1>0, <3>1 DEF HeaderOK
  <2>8. CASE Rollback(c) \/ FailedCommit(c)
    <3>1. CASE pager[c].eState = "WRITER_LOCKED"
      <4>1. pager'[c].eState = "WRITER_LOCKED"
        BY <1>0, <2>8, <3>1 DEF Rollback, FailedCommit, Undo, PagerState
      <4> QED
        BY <4>1 DEF Modified
    <3>2. CASE pager[c].eState # "WRITER_LOCKED"
      <4>1. /\ Undo(c) /\ pager'[c].eState = pager[c].eState /\ UNCHANGED <<excl, jrnl>>
            /\ pager'[c].at \in {"replay", "finalize"}
        BY <1>0, <2>8, <3>2, UndoFields, UndoEffect DEF Rollback, FailedCommit
      <4> QED
        BY <1>0, <4>1 DEF HeaderOK, Ended
    <3> QED
      BY <3>1, <3>2
  <2>9. CASE \/ SharedLock(c) \/ HotExists(c) \/ HotReserved(c) \/ HotOpen(c) \/ HotByte(c)
             \/ HotLock(c) \/ HotExclusive(c) \/ HotFailed(c) \/ DeleteFails(c) \/ LockPending(c)
             \/ LockUpgrade(c) \/ LockExclusive(c) \/ Reread(c) \/ IoError(c) \/ ReplaySync(c)
    <3>1. /\ pager'[c].eState = pager[c].eState /\ jrnl' = jrnl /\ (excl' = excl \/ excl' = c)
          /\ pager'[c].at \notin {"downgrade", "regain", "release"}
      <4>1. pager'[c].eState = pager[c].eState
        BY <2>9, FirstPageMoves
      <4>2. jrnl' = jrnl /\ (excl' = excl \/ excl' = c)
        BY <2>9
        DEF SharedLock, HotExists, HotReserved, HotOpen, HotByte, HotLock, HotExclusive, HotFailed,
            DeleteFails, LockPending, LockUpgrade, LockExclusive, Reread, IoError, ReplaySync,
            AcquireShared, DropRead, ConvertUp, TakeRange, AcquireExclusive, RegainRead, LoseRead,
            AcquirePending
      <4>3. pager'[c].at \notin {"downgrade", "regain", "release"}
        BY <1>0, <2>9
        DEF SharedLock, HotExists, HotReserved, HotOpen, HotByte, HotLock, HotExclusive, HotFailed,
            DeleteFails, LockPending, LockUpgrade, LockExclusive, Reread, IoError, ReplaySync,
            Goto, Busy, PagerState
      <4> QED
        BY <4>1, <4>2, <4>3
    <3> QED
      BY <1>0, <3>1 DEF HeaderOK, Ended
  <2>10. CASE (\E p \in Page : Read(c, p) \/ Spill(c, p)) \/ Replay(c) \/ WriteDb(c) \/ DbSync(c)
    <3>1. /\ jrnl' = jrnl /\ excl' = excl
      BY <2>10 DEF Read, Spill, Replay, WriteDb, DbSync
    <3>2. /\ pager[c].eState \in Modified \/ ~(pager'[c].eState \in Modified)
          /\ pager'[c].at \notin {"downgrade", "regain", "release"}
      BY <1>0, <2>10, InCallFields DEF InPlace, Modified
    <3> QED
      BY <1>0, <3>1, <3>2 DEF HeaderOK, Ended
  <2> QED
    BY <2>1, <2>2, <2>3, <2>4, <2>5, <2>6, <2>7, <2>8, <2>9, <2>10 DEF Acts, Call, Continue
<1> QED
  BY <1>2, <1>3

(* A journal is closed when the transaction ends.                          *)
LEMMA OpenStep ==
  ASSUME NEW k \in Key, InvUnder(k), NEW c \in Conn, Acts(c)
  PROVE  \A d \in Conn : OpenOK(d)'
<1>0. /\ TypeOK /\ InPlace(c) /\ OpenOK(c) /\ pager \in [Conn -> PagerState]
  BY DEF InvUnder, Control, TypeOK
<1>1. ASSUME NEW d \in Conn \ {c} PROVE OpenOK(d)'
  <2>1. pager'[d] = pager[d] /\ OpenOK(d) /\ (d \in jopen' <=> d \in jopen)
    BY <1>0, OthersStay DEF InvUnder
  <2> QED
    BY <2>1 DEF OpenOK, IsChanging, Ended
<1>2. OpenOK(c)'
  <2>1. ASSUME NEW p \in Page, Write(c, p) PROVE c \in jopen'
    BY <2>1 DEF Write
  <2>2. CASE Commit(c)
    <3>1. pager[c].eState \in Modified /\ pager[c].at = "idle" /\ jopen' = jopen
      BY <2>2 DEF Commit, Ready, Modified
    <3> QED
      BY <1>0, <3>1 DEF OpenOK, IsChanging, Ended, InPlace
  <2>3. CASE Finalize(c)
    <3>1. Ended(c)'
      BY <1>0, <2>3, FinalizeFields DEF Ended
    <3> QED
      BY <3>1 DEF OpenOK, IsChanging
  <2>4. CASE EndRead(c) \/ Unlock(c) \/ Ends(c)
    <3>1. pager'[c].eState = "OPEN"
      BY <2>4, Closes
    <3> QED
      BY <3>1 DEF OpenOK, IsChanging, Modified
  <2>5. CASE Begin(c) \/ Validate(c) \/ EndTransaction(c) \/ Recover(c)
    <3>1. pager'[c].eState \notin Modified
      BY <1>0, <2>5, BeginFields, ValidateFields, EndTransactionFields, RecoverFields
      DEF Recover, EndTransaction, InPlace, Modified, Writer
    <3> QED
      BY <3>1 DEF OpenOK, IsChanging
  <2>6. CASE Rollback(c) \/ FailedCommit(c)
    <3>1. CASE pager[c].eState = "WRITER_LOCKED"
      <4>1. pager'[c].eState = "WRITER_LOCKED"
        BY <1>0, <2>6, <3>1 DEF Rollback, FailedCommit, Undo, PagerState
      <4> QED
        BY <4>1 DEF OpenOK, IsChanging, Modified
    <3>2. CASE pager[c].eState # "WRITER_LOCKED"
      BY <1>0, <2>6, <3>2, UndoFields DEF Rollback, FailedCommit, OpenOK, IsChanging
    <3> QED
      BY <3>1, <3>2
  <2>7. CASE \/ SharedLock(c) \/ HotExists(c) \/ HotReserved(c) \/ HotOpen(c) \/ HotByte(c)
             \/ HotLock(c) \/ HotExclusive(c) \/ HotFailed(c)
    <3>1. pager'[c].eState = "OPEN"
      BY <1>0, <2>7, FirstPageMoves
      DEF SharedLock, HotExists, HotReserved, HotOpen, HotByte, HotLock, HotExclusive, HotFailed,
          InPlace
    <3> QED
      BY <3>1 DEF OpenOK, IsChanging, Modified
  <2>8. CASE \/ DeleteFails(c) \/ LockPending(c) \/ LockUpgrade(c) \/ LockExclusive(c)
             \/ Reread(c) \/ IoError(c) \/ ReplaySync(c) \/ Downgrade(c) \/ Regain(c)
             \/ JournalHeader(c)
    <3>1. pager'[c].eState = pager[c].eState /\ jopen' = jopen
      BY <2>8, FirstPageMoves
      DEF DeleteFails, LockPending, LockUpgrade, LockExclusive, Reread, IoError, ReplaySync,
          Downgrade, Regain, JournalHeader
    <3>2. IsChanging(c)' => IsChanging(c)
      BY <1>0, <2>8, <3>1
      DEF DeleteFails, LockPending, LockUpgrade, LockExclusive, Reread, IoError, ReplaySync,
          Downgrade, Regain, JournalHeader, Goto, Busy, IsChanging, Ended, InPlace, PagerState
    <3> QED
      BY <1>0, <3>1, <3>2 DEF OpenOK
  <2>9. CASE \/ \E p \in Page : Read(c, p) \/ Spill(c, p)
             \/ Replay(c) \/ JournalSync(c) \/ WriteDb(c) \/ DbSync(c)
    <3>1. jopen' = jopen
      BY <2>9 DEF Read, Spill, Replay, JournalSync, WriteDb, DbSync
    <3>2. IsChanging(c)' => IsChanging(c)
      BY <1>0, <2>9, InCallFields DEF IsChanging, Ended, InPlace, Modified
    <3> QED
      BY <1>0, <3>1, <3>2 DEF OpenOK
  <2> QED
    BY <2>1, <2>2, <2>3, <2>4, <2>5, <2>6, <2>7, <2>8, <2>9 DEF Acts, Call, Continue, OpenOK
<1> QED
  BY <1>1, <1>2

(* The clauses of every connection after a step of c.                      *)
LEMMA ConnStep ==
  ASSUME NEW k \in Key, InvUnder(k), ~exposed', NEW c \in Conn, Acts(c), KeysFit(c)
  PROVE  \A d \in Conn : ConnOK(d)'
<1>1. CASE Call(c)
  BY <1>1, OthersOK, MovesOK, EndReadOK, BeginOK, CommitStepOK, RollbackOK, ReadOK, WriteOK, SpillOK
  DEF Call, KeysFit
<1>2. CASE Ends(c)
  BY <1>2, OthersOK, ReleasedOK
<1>3. CASE Continue(c)
  BY <1>3, OthersOK, MovesOK, RecoverOK, ReplayStepOK, ReplaySyncOK, FinalizeOK, EndTransactionOK,
     ValidateOK, ReleasedOK, JournalHeaderOK, JournalSyncOK, WriteDbOK, DbSyncOK, RollbackOK,
     IoErrorOK
  DEF Continue
<1> QED
  BY <1>1, <1>2, <1>3 DEF Acts

-----------------------------------------------------------------------------
(* The clauses about the files.                                            *)
LEMMA FilesFrame ==
  ASSUME TypeOK, FilesOK, committed' = committed, jrnlOld' \in {jrnlOld, NoneOld},
         jrnl'.orig = jrnl.orig, jrnl'.exists <=> jrnl.exists,
         jrnl.magic => jrnl'.magic, jrnl'.magic => jrnl.orig # 0,
         jrnl'.rec = jrnl.rec, jrnl.firm => jrnl'.firm,
         jrnl'.firm => jrnl.firm \/ jrnlOld' = NoneOld,
         \A p \in Page : p <= jrnl.orig /\ Kept(jrnl, p) => Kept(jrnl', p),
         \A p \in Page : ~jrnl.magic \/ (p <= jrnl.orig /\ ~Kept(jrnl, p)) \/ ~jrnl.firm
                         => db'[p] = db[p] /\ dbOld'[p] \in {dbOld[p], {}}
  PROVE  FilesOK'
<1>1. \E n \in Page : Sized(committed', n)
  BY DEF FilesOK
<1>2. Restores(jrnl, committed)'
  BY DEF FilesOK, Restores, Sized
<1>3. ~jrnl'.firm => Clean'
  BY DEF FilesOK, Clean
<1>4. ASSUME jrnlOld' # NoneOld PROVE ~jrnl'.firm /\ Restores(jrnlOld.jrnl, jrnlOld.image)'
  <2>1. jrnlOld' = jrnlOld /\ ~jrnl.firm /\ ~jrnl'.firm /\ Restores(jrnlOld.jrnl, jrnlOld.image)
    BY <1>4 DEF FilesOK
  <2> QED
    BY <2>1 DEF Restores, Sized, Kept
<1> QED
  BY <1>1, <1>2, <1>3, <1>4 DEF FilesOK, Sized

(* In the playback a page is given back what was committed; it is changed  *)
(* only if the journal has it for good.                                    *)
LEMMA ReplayFacts ==
  ASSUME NEW k \in Key, InvUnder(k), NEW c \in Conn, pager[c].at = "replay", NEW p \in pager[c].job
  PROVE  /\ p \in Page /\ p <= jrnl.orig /\ jrnl.orig # 0 /\ jrnl.rec[p] = committed[p]
         /\ jrnl.rec[p] # Absent /\ jrnl.rec[p] \in Stored /\ excl = c /\ jrnl.magic
         /\ ~Kept(jrnl, p) \/ ~jrnl.firm => db[p] = jrnl.rec[p]
<1>0. ConnOK(c) /\ FilesOK /\ jrnl \in Journal /\ pager[c].job \subseteq Page /\ Locked(c)
  BY ActorFacts DEF InvUnder, TypeOK, PagerState
<1>1. p \in Page /\ p \in 1 .. jrnl.orig /\ jrnl.rec[p] # Absent /\ excl = c /\ jrnl.magic
  BY <1>0 DEF ConnOK, ReplayOK, Records, Locked, NeedsRange
<1>2. p <= jrnl.orig /\ jrnl.orig # 0 /\ jrnl.rec[p] \in Stored
  BY <1>0, <1>1 DEF Journal
<1> QED
  BY <1>0, <1>1, <1>2 DEF FilesOK, Restores, Clean

(* Files that stay the same.                                               *)
LEMMA FilesUndisturbed ==
  ASSUME FilesOK, UNCHANGED <<db, dbOld, jrnl, jrnlOld, committed>>
  PROVE  FilesOK'
BY DEF FilesOK, Restores, Clean, Sized, Kept

(* The database file is cut to the size it had.                            *)
LEMMA RecoverFiles ==
  ASSUME NEW k \in Key, InvUnder(k), NEW c \in Conn, Recover(c)
  PROVE  FilesOK'
<1>0. TypeOK /\ FilesOK /\ jrnl \in Journal /\ UNCHANGED <<committed, jrnlOld>>
      /\ Restores(jrnl, committed) /\ (jrnl.magic => jrnl.orig # 0)
  BY DEF InvUnder, TypeOK, Recover, history, FilesOK, Restores
<1>1. CASE jrnl.exists
  <2>1. /\ jrnl' = [jrnl EXCEPT !.dur = Records(jrnl)]
        /\ IF jrnl.magic THEN Cut(jrnl.orig) ELSE UNCHANGED <<db, dbOld>>
    BY <1>1 DEF Recover
  <2>2. /\ jrnl'.orig = jrnl.orig /\ (jrnl'.magic <=> jrnl.magic) /\ (jrnl'.exists <=> jrnl.exists)
        /\ jrnl'.rec = jrnl.rec /\ (jrnl'.firm <=> jrnl.firm)
        /\ jrnl'.cnt = jrnl.cnt /\ jrnl'.dur = Records(jrnl)
    BY <1>0, <2>1 DEF Journal
  <2>3. \A p \in Page : p <= jrnl.orig /\ Kept(jrnl, p) => Kept(jrnl', p)
    BY <1>0, <2>2 DEF Kept, Records, Journal, Page
  <2>4. ASSUME NEW p \in Page,
               ~jrnl.magic \/ (p <= jrnl.orig /\ ~Kept(jrnl, p)) \/ ~jrnl.firm
        PROVE  db'[p] = db[p] /\ dbOld'[p] \in {dbOld[p], {}}
    <3>1. CASE ~jrnl.magic
      BY <2>1, <3>1
    <3>2. CASE jrnl.magic /\ p <= jrnl.orig
      BY <1>0, <2>1, <3>2, CutFacts
    <3>3. CASE jrnl.magic /\ ~(p <= jrnl.orig)
      BY <1>0, <2>1, <2>4, <3>3, CutFacts DEF FilesOK, Clean
    <3> QED
      BY <3>1, <3>2, <3>3
  <2> QED
    BY <1>0, <2>2, <2>3, <2>4, FilesFrame
<1>2. CASE ~jrnl.exists
  BY <1>0, <1>2, FilesUndisturbed DEF Recover
<1> QED
  BY <1>1, <1>2

(* A page goes back from the journal to the database.                      *)
LEMMA ReplayFiles ==
  ASSUME NEW k \in Key, InvUnder(k), NEW c \in Conn, Replay(c)
  PROVE  FilesOK'
<1>0. TypeOK /\ FilesOK /\ UNCHANGED <<committed, jrnl, jrnlOld>>
  BY DEF InvUnder, Replay, history
<1>1. PICK p \in pager[c].job : Store(p, jrnl.rec[p])
  BY DEF Replay
<1>2. ~Kept(jrnl, p) \/ ~jrnl.firm => db[p] = jrnl.rec[p]
  BY ReplayFacts DEF Replay
<1>3. jrnl.orig # 0 /\ p \in Page /\ jrnl.magic
  BY ReplayFacts DEF Replay
<1>4. ASSUME NEW q \in Page,
             ~jrnl.magic \/ (q <= jrnl.orig /\ ~Kept(jrnl, q)) \/ ~jrnl.firm
      PROVE  db'[q] = db[q] /\ dbOld'[q] \in {dbOld[q], {}}
  BY <1>0, <1>1, <1>2, <1>3, <1>4 DEF Store, TypeOK
<1> QED
  BY <1>0, <1>3, <1>4, FilesFrame

(* The database is synced.                                                 *)
LEMMA SyncFiles ==
  ASSUME NEW k \in Key, InvUnder(k), NEW c \in Conn, ReplaySync(c) \/ DbSync(c)
  PROVE  FilesOK'
<1>0. TypeOK /\ FilesOK /\ UNCHANGED <<db, committed, jrnl, jrnlOld>>
      /\ dbOld' = [p \in Page |-> {}] /\ (jrnl.magic => jrnl.orig # 0)
  BY DEF InvUnder, ReplaySync, DbSync, history, FilesOK, Restores
<1>1. \A p \in Page : db'[p] = db[p] /\ dbOld'[p] \in {dbOld[p], {}}
  BY <1>0
<1> QED
  BY <1>0, <1>1, FilesFrame

(* The journal is synced.                                                  *)
LEMMA JournalFiles ==
  ASSUME NEW k \in Key, InvUnder(k), NEW c \in Conn, JournalHeader(c) \/ JournalSync(c)
  PROVE  FilesOK'
<1>0. TypeOK /\ FilesOK /\ UNCHANGED <<db, dbOld, committed>> /\ jrnl \in Journal
      /\ Restores(jrnl, committed) /\ ConnOK(c) /\ InPlace(c)
  BY ActorFacts DEF InvUnder, JournalHeader, JournalSync, history, FilesOK, TypeOK
<1>1. JournalledOK(c) /\ IsChanging(c)
  BY <1>0 DEF ConnOK, JournalHeader, JournalSync, InPlace, IsChanging, Ended, Modified
<1>2. jrnl.orig # 0
  BY <1>0, <1>1 DEF JournalledOK
<1>3. CASE JournalHeader(c)
  <2>1. /\ jrnl'.orig = jrnl.orig /\ jrnl'.magic /\ (jrnl'.exists <=> jrnl.exists)
        /\ jrnl'.rec = jrnl.rec /\ (jrnl'.firm <=> jrnl.firm) /\ jrnlOld' = jrnlOld
        /\ jrnl'.cnt = pager[c].inJournal /\ jrnl'.dur = jrnl.dur
    BY <1>0, <1>3 DEF JournalHeader, Journal
  <2>2. \A p \in Page : Kept(jrnl, p) => Kept(jrnl', p)
    BY <1>1, <2>1 DEF Kept, JournalledOK
  <2> QED
    BY <1>0, <1>2, <2>1, <2>2, FilesFrame
<1>4. CASE JournalSync(c)
  <2>1. /\ jrnl'.orig = jrnl.orig /\ (jrnl'.magic <=> jrnl.magic) /\ (jrnl'.exists <=> jrnl.exists)
        /\ jrnl'.rec = jrnl.rec /\ jrnl'.firm /\ jrnlOld' = NoneOld
        /\ jrnl'.cnt = jrnl.cnt /\ jrnl'.dur = jrnl.cnt
    BY <1>0, <1>4 DEF JournalSync, Journal
  <2>2. \A p \in Page : Kept(jrnl, p) => Kept(jrnl', p)
    BY <2>1 DEF Kept
  <2> QED
    BY <1>0, <1>2, <2>1, <2>2, FilesFrame
<1> QED
  BY <1>3, <1>4

(* A page is written to the database; the journal has what was there.      *)
LEMMA WriteDbFiles ==
  ASSUME NEW k \in Key, InvUnder(k), NEW c \in Conn, WriteDb(c)
  PROVE  FilesOK'
<1> DEFINE p == Min(pager[c].job)
<1>0. TypeOK /\ FilesOK /\ UNCHANGED <<committed, jrnl, jrnlOld>>
  BY DEF InvUnder, WriteDb, history
<1>1. /\ p \in Page /\ Store(p, Encrypt(wkey[c], pager[c].cache[p])) /\ jrnl.firm
      /\ p <= pager[c].dbOrigSize => Kept(jrnl, p)
      /\ IsChanging(c)
  BY WriteDbFacts
<1>2. jrnl.orig = pager[c].dbOrigSize /\ jrnl.orig # 0 /\ jrnl.magic
  <2>1. JournalledOK(c) /\ pager[c].eState = "WRITER_DBMOD"
    BY ActorFacts DEF ConnOK, WriteDb, InPlace
  <2> QED
    BY <1>1, <2>1, ChangingFacts DEF JournalledOK, Page
<1> HIDE DEF p
<1>3. ASSUME NEW q \in Page, q <= jrnl.orig /\ ~Kept(jrnl, q)
      PROVE  db'[q] = db[q] /\ dbOld'[q] = dbOld[q]
  BY <1>0, <1>1, <1>2, <1>3 DEF Store, TypeOK
<1> QED
  BY <1>0, <1>1, <1>2, <1>3, FilesFrame

(* A rollback begins.                                                      *)
LEMMA UndoFiles ==
  ASSUME NEW k \in Key, InvUnder(k), NEW c \in Conn, Rollback(c) \/ FailedCommit(c)
  PROVE  FilesOK'
<1>0. TypeOK /\ FilesOK /\ UNCHANGED <<committed, jrnl, jrnlOld>> /\ Undo(c)
      /\ Restores(jrnl, committed) /\ ConnOK(c) /\ InPlace(c) /\ pager[c].at \in {"idle", "failed"}
  BY ActorFacts DEF InvUnder, Rollback, FailedCommit, Ready, Undo, history, FilesOK
<1>1. CASE pager[c].eState = "WRITER_DBMOD" /\ jrnl.orig # 0
  <2>1. Cut(jrnl.orig)
    BY <1>0, <1>1, UndoEffect
  <2>2. jrnl.firm /\ jrnl.magic
    BY <1>0, <1>1 DEF ConnOK, JournalledOK, IsChanging, InPlace, Ended, Modified
  <2> QED
    BY <1>0, <1>1, <2>1, <2>2, CutFacts, FilesFrame
<1>2. CASE ~(pager[c].eState = "WRITER_DBMOD" /\ jrnl.orig # 0)
  <2>1. UNCHANGED <<db, dbOld>>
    <3>1. CASE pager[c].eState = "WRITER_LOCKED"
      BY <1>0, <3>1 DEF Undo
    <3>2. CASE pager[c].eState # "WRITER_LOCKED"
      BY <1>0, <1>2, <3>2, UndoEffect
    <3> QED
      BY <3>1, <3>2
  <2> QED
    BY <1>0, <2>1, FilesUndisturbed
<1> QED
  BY <1>1, <1>2

(* A write fails; the journal has what was there.                          *)
LEMMA IoErrorFiles ==
  ASSUME NEW k \in Key, InvUnder(k), NEW c \in Conn, IoError(c)
  PROVE  FilesOK'
<1>0. TypeOK /\ FilesOK /\ UNCHANGED <<committed, jrnl, jrnlOld>> /\ ConnOK(c) /\ InPlace(c)
      /\ pager[c] \in PagerState
  BY ActorFacts DEF InvUnder, IoError, Fault
<1>1. CASE UNCHANGED <<db, dbOld>>
  BY <1>0, <1>1, FilesUndisturbed
<1>2. CASE ~UNCHANGED <<db, dbOld>>
  <2> DEFINE p == Min(pager[c].job)
  <2>1. /\ pager[c].at \in {"replay", "write"} /\ p \in pager[c].job /\ p \in Page /\ Store(p, Torn)
        /\ pager[c].at = "replay" => jrnl.rec[p] # db[p]
    BY <1>0, <1>2, SmallestPage DEF IoError, PagerState
  <2> HIDE DEF p
  <2>2. jrnl.orig # 0 /\ jrnl.firm /\ jrnl.magic /\ (p <= jrnl.orig => Kept(jrnl, p))
    <3>1. CASE pager[c].at = "replay"
      BY <2>1, <3>1, ReplayFacts
    <3>2. CASE pager[c].at = "write"
      <4>1. IsChanging(c) /\ JournalledOK(c) /\ pager[c].eState = "WRITER_DBMOD"
        BY <1>0, <3>2 DEF ConnOK, IsChanging, InPlace, Ended, Modified
      <4> QED
        BY <2>1, <3>2, <4>1, ChangingFacts DEF JournalledOK, Page
    <3> QED
      BY <2>1, <3>1, <3>2
  <2>3. ASSUME NEW q \in Page, q <= jrnl.orig /\ ~Kept(jrnl, q)
        PROVE  db'[q] = db[q] /\ dbOld'[q] = dbOld[q]
    BY <1>0, <2>1, <2>2, <2>3 DEF Store, TypeOK
  <2> QED
    BY <1>0, <2>2, <2>3, FilesFrame
<1> QED
  BY <1>1, <1>2

(* The journal goes when there is nothing to restore.                      *)
LEMMA FinalizeFiles ==
  ASSUME NEW k \in Key, InvUnder(k), NEW c \in Conn, Finalize(c)
  PROVE  FilesOK'
<1>0. /\ TypeOK /\ FilesOK /\ UNCHANGED <<db, dbOld>> /\ ConnOK(c) /\ InPlace(c)
      /\ pager[c].at = "finalize" /\ pager[c] \in PagerState /\ JournalMode \in {"delete", "truncate"}
      /\ committed' = IF pager[c].goal = "commit" THEN db ELSE committed
  BY ActorFacts, PagerAssumption DEF InvUnder, Finalize
<1>1. Clean'
  BY FinalizeOK, FinalizeFields DEF InvUnder, ConnOK, NeedsClean
<1>2. \E n \in Page : Sized(committed', n)
  <2>1. CASE pager[c].goal = "commit"
    <3>1. IsChanging(c) /\ pager[c].eState = "WRITER_FINISHED"
      BY <1>0, <2>1, CommittedPages
    <3>2. Sized(db, pager[c].dbSize) /\ pager[c].dbSize \in Page
      BY <1>0, <3>1, ChangingFacts DEF ConnOK, CommitOK
    <3> QED
      BY <1>0, <2>1, <3>2
  <2>2. CASE pager[c].goal # "commit"
    BY <1>0, <2>2 DEF FilesOK
  <2> QED
    BY <2>1, <2>2
<1>3. ~jrnl'.magic /\ (jrnl'.orig = 0 \/ (jrnl' = jrnl /\ committed' = committed))
  <2>1. NoJournal.orig = 0 /\ ~NoJournal.magic /\ Truncated.orig = 0 /\ ~Truncated.magic
    BY JournalTypes, SomeTypes
  <2> QED
    BY <1>0, <2>1 DEF Finalize, FinalizeJournal, NothingRead
<1>4. Restores(jrnl, committed)'
  <2>1. CASE jrnl'.orig = 0
    BY <1>1, <1>3, <2>1 DEF Restores, Clean
  <2>2. CASE jrnl' = jrnl /\ committed' = committed
    BY <1>0, <1>1, <1>3, <2>2 DEF FilesOK, Restores, Clean, Sized, Kept
  <2> QED
    BY <1>3, <2>1, <2>2
<1>5. ASSUME jrnlOld' # NoneOld
      PROVE  ~jrnl'.firm /\ Restores(jrnlOld.jrnl, jrnlOld.image)'
  <2>1. /\ jrnl' = NoJournal /\ jrnlOld' = [jrnl |-> jrnl, image |-> committed]
    BY <1>0, <1>5 DEF Finalize, FinalizeJournal
  <2>2. ~jrnl'.firm
    BY <2>1, JournalTypes, SomeTypes
  <2>3. /\ jrnlOld'.jrnl = jrnl /\ jrnlOld'.image = committed
    BY <2>1
  <2> QED
    BY <1>0, <2>2, <2>3 DEF FilesOK, Restores, Sized, Kept
<1> QED
  BY <1>1, <1>2, <1>4, <1>5 DEF FilesOK

(* A page is saved in the journal.                                         *)
LEMMA PutFiles ==
  ASSUME NEW k \in Key, InvUnder(k), NEW c \in Conn,
         CanWrite(c), NEW p \in Page, p <= pager[c].dbSize => pager[c].cache[p] # Absent,
         pager[c].eState \in {"WRITER_LOCKED", "WRITER_CACHEMOD", "WRITER_DBMOD"},
         jrnl' = Saved(c, p, JournalFor(c)),
         UNCHANGED <<db, dbOld, jrnlOld, committed>>
  PROVE  FilesOK'
<1>0. TypeOK /\ FilesOK /\ rkey[c] = k /\ JournalFor(c) \in Journal /\ Restores(jrnl, committed)
      /\ jrnl \in Journal
  BY ActorFacts, FirstPage DEF InvUnder, CanWrite, KnowsKey, FilesOK, TypeOK
<1>1. ASSUME Saves(c, p)
      PROVE  /\ jrnl' = [JournalFor(c) EXCEPT !.rec[p] = committed[p]] /\ committed[p] # Absent
             /\ JournalFor(c).rec[p] = Absent
  <2>1. Original(c, p) /\ p <= pager[c].dbSize /\ p \notin pager[c].inJournal
        /\ p <= pager[c].dbOrigSize
    BY <1>1 DEF Saves, Original, CanWrite, Page
  <2>2. Holds(c, p, committed)
    BY <2>1 DEF CanWrite
  <2>3. committed[p] # Absent /\ committed[p].key = k
    BY <2>2, ActorFacts, Marks DEF Holds
  <2>4. committed[p] = Encrypt(rkey[c], pager[c].cache[p])
    BY <1>0, <2>2, <2>3, HeldPage
  <2>5. JournalFor(c).rec[p] = Absent
    BY <2>1 DEF CanWrite
  <2> QED
    BY <1>1, <2>3, <2>4, <2>5 DEF Saved
<1>2. /\ jrnl'.orig = JournalFor(c).orig /\ (jrnl'.magic <=> JournalFor(c).magic)
      /\ (jrnl'.exists <=> JournalFor(c).exists) /\ (jrnl'.firm <=> JournalFor(c).firm)
      /\ jrnl'.cnt = JournalFor(c).cnt /\ jrnl'.dur = JournalFor(c).dur
      /\ \A q \in Page : q # p => jrnl'.rec[q] = JournalFor(c).rec[q]
      /\ \/ jrnl'.rec[p] = JournalFor(c).rec[p]
         \/ JournalFor(c).rec[p] = Absent /\ jrnl'.rec[p] = committed[p]
  <2>1. CASE Saves(c, p)
    BY <1>0, <1>1, <2>1 DEF Journal
  <2>2. CASE ~Saves(c, p)
    BY <2>2 DEF Saved
  <2> QED
    BY <2>1, <2>2
<1>3. CASE pager[c].eState = "WRITER_LOCKED"
  <2>1. /\ Clean /\ JournalFor(c).exists /\ ~JournalFor(c).magic /\ ~JournalFor(c).firm
        /\ JournalFor(c).orig = pager[c].dbOrigSize /\ pager[c].dbOrigSize \in Page
        /\ \A q \in Page : JournalFor(c).rec[q] = Absent
    BY <1>3, JournalTypes DEF CanWrite, JournalFor
  <2>2. pager[c].dbOrigSize # 0 /\ Sized(committed, pager[c].dbOrigSize)
    BY <2>1 DEF Page, CanWrite
  <2>3. \A q \in Page : jrnl'.rec[q] # Absent => jrnl'.rec[q] = committed[q]
    BY <1>2, <2>1
  <2>4. Restores(jrnl, committed)'
    BY <1>2, <2>1, <2>2, <2>3 DEF Restores, Clean, Sized
  <2>5. jrnlOld' # NoneOld => ~jrnl'.firm /\ Restores(jrnlOld.jrnl, jrnlOld.image)'
    BY <1>0, <1>2, <2>1 DEF FilesOK, Restores, Sized, Kept
  <2> QED
    BY <1>0, <2>1, <2>4, <2>5 DEF FilesOK, Clean, Sized
<1>4. CASE pager[c].eState # "WRITER_LOCKED"
  <2>1. JournalFor(c) = jrnl
    BY <1>4 DEF JournalFor
  <2>2. Restores(jrnl, committed)'
    <3>1. \A q \in Page : Kept(jrnl, q) => Kept(jrnl', q)
      BY <1>2, <2>1 DEF Kept
    <3> QED
      BY <1>0, <1>2, <2>1, <3>1 DEF Restores, Sized
  <2>3. jrnlOld' # NoneOld => ~jrnl'.firm /\ Restores(jrnlOld.jrnl, jrnlOld.image)'
    BY <1>0, <1>2, <2>1 DEF FilesOK, Restores, Sized, Kept
  <2> QED
    BY <1>0, <1>2, <2>1, <2>2, <2>3 DEF FilesOK, Clean, Sized
<1> QED
  BY <1>3, <1>4

(* The files are kept by any step of a connection.                         *)
LEMMA FilesStep ==
  ASSUME NEW k \in Key, InvUnder(k), NEW c \in Conn, Acts(c)
  PROVE  FilesOK'
<1> USE DEF files, history, PagerUnlock
<1>0. FilesOK
  BY DEF InvUnder
<1>1. CASE Call(c)
  <2>1. CASE Commit(c)
    BY <2>1, CommitFacts, PutFiles
  <2>2. ASSUME NEW p \in Page, Write(c, p) PROVE FilesOK'
    BY <2>2, WriteFacts, PutFiles
  <2>3. CASE SharedLock(c) \/ EndRead(c) \/ Begin(c) \/ \E p \in Page : Read(c, p) \/ Spill(c, p)
    BY <1>0, <2>3, FilesUndisturbed DEF SharedLock, EndRead, Begin, Read, Spill
  <2> QED
    BY <1>1, <2>1, <2>2, <2>3, UndoFiles DEF Call
<1>2. CASE Ends(c)
  BY <1>0, <1>2, FilesUndisturbed DEF Ends, Die, Fault
<1>3. CASE Continue(c)
  <2>1. CASE HotExists(c) \/ HotReserved(c) \/ HotOpen(c) \/ HotByte(c) \/ HotLock(c) \/ HotExclusive(c)
             \/ HotFailed(c)
    BY <1>0, <2>1, FilesUndisturbed
    DEF HotExists, HotReserved, HotOpen, HotByte, HotLock, HotExclusive, HotFailed
  <2>2. CASE DeleteFails(c) \/ Downgrade(c) \/ Regain(c) \/ EndTransaction(c) \/ Validate(c)
             \/ Unlock(c)
    BY <1>0, <2>2, FilesUndisturbed
    DEF DeleteFails, Downgrade, Regain, EndTransaction, Validate, Unlock
  <2>3. CASE LockPending(c) \/ LockUpgrade(c) \/ LockExclusive(c) \/ Reread(c)
    BY <1>0, <2>3, FilesUndisturbed DEF LockPending, LockUpgrade, LockExclusive, Reread
  <2> QED
    BY <1>3, <2>1, <2>2, <2>3, RecoverFiles, ReplayFiles, SyncFiles, FinalizeFiles, JournalFiles,
       WriteDbFiles, UndoFiles, IoErrorFiles DEF Continue
<1> QED
  BY <1>1, <1>2, <1>3 DEF Acts

-----------------------------------------------------------------------------
(* Types.                                                                  *)
LEMMA LockTypes ==
  ASSUME TypeOK, NEW c \in Conn, Acts(c)
  PROVE  LockTypeOK' /\ jopen' \subseteq Conn /\ ntxn' \in 0 .. MaxTxn /\ nfault' \in 0 .. MaxFault
<1> USE DEF LockTypeOK, lockVars, history, Fault
<1>0. LockTypeOK /\ jopen \subseteq Conn /\ ntxn \in 0 .. MaxTxn /\ nfault \in 0 .. MaxFault
      /\ MaxTxn \in Nat /\ MaxFault \in Nat
  BY PagerAssumption DEF TypeOK
<1>1. CASE Call(c)
  <2>1. CASE SharedLock(c) \/ EndRead(c) \/ Begin(c)
    BY <1>0, <2>1 DEF SharedLock, AcquireShared, EndRead, PagerUnlock, ReleaseAll, Begin, AcquireReserved
  <2> QED
    BY <1>0, <1>1, <2>1 DEF Call, Commit, Rollback, Undo, Read, Write, Spill
<1>2. CASE Ends(c)
  BY <1>0, <1>2 DEF Ends, Die, ReleaseAll
<1>3. CASE Continue(c)
  <2>1. CASE HotExists(c) \/ HotReserved(c) \/ HotOpen(c) \/ HotByte(c) \/ HotLock(c) \/ HotExclusive(c)
             \/ HotFailed(c)
    BY <1>0, <2>1
    DEF HotExists, HotReserved, HotOpen, HotByte, HotLock, HotExclusive, HotFailed, DropRead, ConvertUp,
        TakeRange, AcquireExclusive, RegainRead, LoseRead
  <2>2. CASE DeleteFails(c) \/ Downgrade(c) \/ Regain(c) \/ EndTransaction(c) \/ Validate(c)
             \/ Unlock(c)
    BY <1>0, <2>2
    DEF DeleteFails, Downgrade, Regain, EndTransaction, Validate, Unlock, DropExclusive, ConvertDown,
        RegainRead, LoseRead, ReleaseWriter, PagerUnlock, ReleaseAll
  <2>3. CASE LockPending(c) \/ LockUpgrade(c) \/ LockExclusive(c) \/ Reread(c)
    BY <1>0, <2>3
    DEF LockPending, LockUpgrade, LockExclusive, Reread, AcquirePending, DropRead, ConvertUp,
        TakeRange, AcquireExclusive, RegainRead, LoseRead
  <2>4. CASE Recover(c) \/ Replay(c) \/ ReplaySync(c) \/ Finalize(c) \/ JournalHeader(c)
             \/ JournalSync(c) \/ WriteDb(c) \/ DbSync(c) \/ FailedCommit(c) \/ IoError(c)
    BY <1>0, <2>4
    DEF Recover, Replay, ReplaySync, Finalize, FinalizeJournal, JournalHeader, JournalSync, WriteDb,
        DbSync, FailedCommit, Undo, IoError
  <2> QED
    BY <1>3, <2>1, <2>2, <2>3, <2>4 DEF Continue
<1> QED
  BY <1>1, <1>2, <1>3 DEF Acts

(* Types of the database file: when it is truncated, ...                   *)
LEMMA CutTypes ==
  ASSUME TypeOK, NEW n, Cut(n)
  PROVE  /\ db' \in [Page -> Stored \cup {Absent, Torn}]
         /\ dbOld' \in [Page -> SUBSET (Stored \cup {Absent, Torn})]
BY DEF Cut, TypeOK

(* ... when a page is written, ...                                         *)
LEMMA StoreTypes ==
  ASSUME TypeOK, NEW p \in Page, NEW s \in Stored \cup {Absent, Torn}, Store(p, s)
  PROVE  /\ db' \in [Page -> Stored \cup {Absent, Torn}]
         /\ dbOld' \in [Page -> SUBSET (Stored \cup {Absent, Torn})]
BY DEF Store, TypeOK

(* ... and in every step.                                                  *)
LEMMA DbTypes ==
  ASSUME NEW k \in Key, InvUnder(k), NEW c \in Conn, Acts(c)
  PROVE  /\ db' \in [Page -> Stored \cup {Absent, Torn}]
         /\ dbOld' \in [Page -> SUBSET (Stored \cup {Absent, Torn})]
<1> USE DEF files
<1>0. /\ TypeOK /\ db \in [Page -> Stored \cup {Absent, Torn}]
      /\ dbOld \in [Page -> SUBSET (Stored \cup {Absent, Torn})]
      /\ pager[c] \in PagerState
  BY DEF InvUnder, TypeOK
<1>1. CASE UNCHANGED <<db, dbOld>>
  BY <1>0, <1>1
<1>2. CASE Recover(c)
  BY <1>0, <1>2, CutTypes DEF Recover
<1>3. CASE Replay(c)
  <2>1. PICK p \in pager[c].job : Store(p, jrnl.rec[p])
    BY <1>3 DEF Replay
  <2>2. p \in Page /\ jrnl.rec[p] \in Stored
    BY <1>3, ReplayFacts DEF Replay
  <2> QED
    BY <1>0, <2>1, <2>2, StoreTypes
<1>4. CASE ReplaySync(c) \/ DbSync(c)
  BY <1>0, <1>4 DEF ReplaySync, DbSync
<1>5. CASE WriteDb(c)
  <2>1. PICK p : p = Min(pager[c].job)
    OBVIOUS
  <2>2. p \in Page /\ Store(p, Encrypt(wkey[c], pager[c].cache[p]))
        /\ Encrypt(wkey[c], pager[c].cache[p]) \in Stored
    BY <1>5, <2>1, WriteDbFacts
  <2> QED
    BY <1>0, <2>2, StoreTypes
<1>6. CASE Rollback(c) \/ FailedCommit(c)
  <2>1. Undo(c)
    BY <1>6 DEF Rollback, FailedCommit
  <2>2. CASE pager[c].eState = "WRITER_LOCKED"
    BY <1>1, <2>1, <2>2 DEF Undo
  <2>3. CASE pager[c].eState # "WRITER_LOCKED"
    BY <1>0, <1>1, <2>1, <2>3, UndoEffect, CutTypes
  <2> QED
    BY <2>2, <2>3
<1>7. CASE IoError(c)
  <2>1. UNCHANGED <<db, dbOld>> \/ \E p \in Page : Store(p, Torn)
    BY <1>0, <1>7, SmallestPage DEF IoError, PagerState
  <2> QED
    BY <1>0, <1>1, <2>1, StoreTypes
<1> QED
  <2>1. CASE Call(c)
    BY <1>1, <1>6, <2>1 DEF Call, SharedLock, EndRead, Begin, Commit, Read, Write, Spill
  <2>2. CASE Ends(c)
    BY <1>1, <2>2 DEF Ends, Die
  <2>3. CASE Continue(c)
    BY <1>1, <1>2, <1>3, <1>4, <1>5, <1>6, <1>7, <2>3
    DEF Continue, HotExists, HotReserved, HotOpen, HotByte, HotLock, HotExclusive, HotFailed, Finalize,
        DeleteFails, Downgrade, Regain, EndTransaction, Validate, Unlock, LockPending, LockUpgrade,
        LockExclusive, Reread, JournalHeader, JournalSync
  <2> QED
    BY <2>1, <2>2, <2>3 DEF Acts

(* Types of the journal.                                                   *)
LEMMA SavedType ==
  ASSUME NEW k \in Key, InvUnder(k), NEW c \in Conn, CanWrite(c), NEW p \in Page,
         p <= pager[c].dbSize => pager[c].cache[p] # Absent
  PROVE  Saved(c, p, JournalFor(c)) \in Journal
<1>0. JournalFor(c) \in Journal /\ rkey[c] \in Key
  BY ActorFacts DEF CanWrite
<1>1. ASSUME Saves(c, p) PROVE Encrypt(rkey[c], pager[c].cache[p]) \in Stored
  <2>1. pager[c].cache[p] \in Content
    BY <1>1 DEF Saves, CanWrite, Page
  <2> QED
    BY <1>0, <2>1, EncryptType
<1> QED
  BY <1>0, <1>1 DEF Saved, Journal

(* The journal is kept, or becomes another one.                            *)
LEMMA JournalTypesKept ==
  ASSUME NEW k \in Key, InvUnder(k), NEW c \in Conn, Acts(c)
  PROVE  /\ jrnl' \in Journal
         /\ jrnlOld' \in {jrnlOld, NoneOld, [jrnl |-> jrnl, image |-> committed]}
<1> USE DEF files, history
<1>0. TypeOK /\ jrnl \in Journal /\ pager[c] \in PagerState /\ NoJournal \in Journal
      /\ Truncated \in Journal
  BY JournalTypes, SomeTypes DEF InvUnder, TypeOK
<1>1. CASE UNCHANGED <<jrnl, jrnlOld>>
  BY <1>0, <1>1
<1>2. CASE Recover(c)
  <2>1. Records(jrnl) \subseteq Page
    BY <1>0, PagerAssumption DEF Records, Journal, Page
  <2> QED
    BY <1>0, <1>2, <2>1 DEF Recover, Journal
<1>3. CASE Finalize(c)
  BY <1>0, <1>3 DEF Finalize, FinalizeJournal
<1>4. CASE JournalHeader(c)
  BY <1>0, <1>4 DEF JournalHeader, Journal, PagerState
<1>5. CASE JournalSync(c)
  BY <1>0, <1>5 DEF JournalSync, Journal
<1>6. CASE Commit(c)
  BY <1>6, CommitFacts, SavedType
<1>7. ASSUME NEW p \in Page, Write(c, p)
      PROVE  jrnl' \in Journal /\ jrnlOld' = jrnlOld
  BY <1>7, WriteFacts, SavedType
<1> QED
  <2>1. CASE Call(c)
    BY <1>1, <1>6, <1>7, <2>1 DEF Call, SharedLock, EndRead, PagerUnlock, Begin, Rollback, Undo, Read, Spill
  <2>2. CASE Ends(c)
    BY <1>1, <2>2 DEF Ends, Die
  <2>3. CASE Continue(c)
    BY <1>1, <1>2, <1>3, <1>4, <1>5, <2>3
    DEF Continue, HotExists, HotReserved, HotOpen, HotByte, HotLock, HotExclusive, HotFailed, Replay,
        ReplaySync, DeleteFails, Downgrade, Regain, EndTransaction, Validate, Unlock, LockPending,
        LockUpgrade, LockExclusive, Reread, WriteDb, DbSync, FailedCommit, Undo, IoError
  <2> QED
    BY <2>1, <2>2, <2>3 DEF Acts

(* What is committed is one database under one key: the one before, or    *)
(* that of a commit.                                                       *)
LEMMA CommittedType ==
  ASSUME NEW k \in Key, InvUnder(k), NEW c \in Conn, Acts(c)
  PROVE  /\ committed' \in [Page -> Stored \cup {Absent}]
         /\ \/ committed' = committed /\ UnderKey(k, committed')
            \/ UnderKey(wkey[c], committed')
<1>1. /\ TypeOK /\ db \in [Page -> Stored \cup {Absent, Torn}]
      /\ committed \in [Page -> Stored \cup {Absent}] /\ UnderKey(k, committed)
  BY DEF InvUnder, TypeOK, KeysOK
<1>2. CASE UNCHANGED committed
  BY <1>1, <1>2
<1>3. CASE ~UNCHANGED committed
  <2>1. committed' = db /\ pager[c].at = "finalize" /\ pager[c].goal = "commit"
    BY <1>3, FileAccess DEF InvUnder
  <2>2. UnderKey(wkey[c], db) /\ \A p \in Page : db[p] = committed[p] \/ db[p] \in Stored
    BY <2>1, CommittedPages
  <2> QED
    BY <1>1, <2>1, <2>2
<1> QED
  BY <1>2, <1>3

(* No journal that may come back has no page under another key.            *)
LEMMA NoneOldType ==
  /\ NoneOld \in [jrnl : Journal, image : [Page -> Stored \cup {Absent}]]
  /\ \A k \in Key : UnderKey(k, NoneOld.image)
<1>1. NoJournal \in Journal
  BY JournalTypes, SomeTypes
<1>2. Empty \in [Page -> Stored \cup {Absent}] /\ \A p \in Page : Empty[p] = Absent
  BY DEF Empty
<1> HIDE DEF Empty
<1> QED
  BY <1>1, <1>2 DEF NoneOld, UnderKey

(* A journal that may come back is from the commit before, or is gone.     *)
LEMMA OldJournalType ==
  ASSUME NEW k \in Key, InvUnder(k), NEW c \in Conn, Acts(c)
  PROVE  /\ jrnlOld' \in [jrnl : Journal, image : [Page -> Stored \cup {Absent}]]
         /\ \A old \in Key : UnderKey(old, jrnlOld.image) =>
              UnderKey(old, jrnlOld'.image) \/ UnderKey(k, jrnlOld'.image)
<1>0. /\ TypeOK /\ UnderKey(k, committed)
      /\ jrnl \in Journal /\ committed \in [Page -> Stored \cup {Absent}]
      /\ jrnlOld \in [jrnl : Journal, image : [Page -> Stored \cup {Absent}]]
  BY DEF InvUnder, TypeOK, KeysOK
<1>1. jrnlOld' \in {jrnlOld, NoneOld, [jrnl |-> jrnl, image |-> committed]}
  BY JournalTypesKept
<1>2. CASE jrnlOld' = jrnlOld
  BY <1>0, <1>2
<1>3. CASE jrnlOld' = NoneOld
  BY <1>3, NoneOldType
<1>4. CASE jrnlOld' = [jrnl |-> jrnl, image |-> committed]
  BY <1>0, <1>4
<1> QED
  BY <1>1, <1>2, <1>3, <1>4

(* The keys are those of what is committed.                                *)
LEMMA KeysStep ==
  ASSUME NEW k \in Key, InvUnder(k), NEW c \in Conn, Acts(c),
         NEW n \in Key, UnderKey(n, committed')
  PROVE  KeysOK(n)'
<1>1. PICK old \in Key : UnderKey(old, jrnlOld.image)
  BY DEF InvUnder, KeysOK
<1>2. \E new \in Key : UnderKey(new, jrnlOld'.image)
  BY <1>1, OldJournalType
<1> QED
  BY <1>2 DEF KeysOK, UnderKey

(* Types of a connection.                                                  *)
LEMMA GotoType ==
  ASSUME pager \in [Conn -> PagerState], NEW c \in Conn, NEW at \in At, Goto(c, at)
  PROVE  pager' \in [Conn -> PagerState]
<1>1. [pager[c] EXCEPT !.at = at] \in PagerState
  BY DEF PagerState
<1>2. pager' = [pager EXCEPT ![c] = [pager[c] EXCEPT !.at = at]]
  BY DEF Goto
<1> QED
  BY <1>1, <1>2

(* The types of the connection: when it changes a page, ...                *)
LEMMA DirtiedType ==
  ASSUME TypeOK, NEW c \in Conn, NEW p \in Page, NEW d \in Content
  PROVE  Dirtied(c, p, d) \in PagerState
<1> DEFINE r == pager[c]
           needSync == IF Saves(c, p) \/ IsNew(c, p) THEN r.needSync \cup {p} ELSE r.needSync
           inJournal == IF Saves(c, p) THEN r.inJournal \cup {p} ELSE r.inJournal
           eState == IF r.eState = "WRITER_LOCKED" THEN "WRITER_CACHEMOD" ELSE r.eState
           dbSize == IF p > r.dbSize THEN p ELSE r.dbSize
           cache == [r.cache EXCEPT ![p] = d]
           dirty == r.dirty \cup {p}
<1>0. r \in PagerState
  BY DEF TypeOK
<1>1. Dirtied(c, p, d) = [r EXCEPT !.cache = cache, !.dirty = dirty, !.needSync = needSync,
                          !.inJournal = inJournal, !.eState = eState, !.dbSize = dbSize]
  BY <1>0 DEF Dirtied, PagerState, IsNew
<1>2. /\ needSync \in SUBSET Page /\ inJournal \in SUBSET Page /\ eState \in EState
      /\ dirty \in SUBSET Page /\ cache \in [Page -> Content \cup {Absent, Garbage}]
      /\ dbSize \in 0 .. MaxPage
  BY <1>0 DEF PagerState, EState, Page
<1> HIDE DEF needSync, inJournal, eState, dbSize, cache, dirty
<1> QED
  BY <1>0, <1>1, <1>2 DEF PagerState

(* ... when it takes a change back, ...                                    *)
LEMMA UndoType ==
  ASSUME TypeOK, NEW c \in Conn, Undo(c)
  PROVE  pager' \in [Conn -> PagerState]
<1>0. pager \in [Conn -> PagerState] /\ jrnl \in Journal /\ pager[c] \in PagerState
      /\ rkey[c] \in Key
  BY DEF TypeOK
<1>1. CASE pager[c].eState = "WRITER_LOCKED"
  <2>1. pager' = [pager EXCEPT ![c].at = "release"] /\ "release" \in At
    BY <1>1 DEF Undo, At
  <2> QED
    BY <1>0, <2>1, GotoType DEF Goto
<1>2. CASE pager[c].eState # "WRITER_LOCKED"
  <2> DEFINE mod == pager[c].eState = "WRITER_DBMOD"
             at == IF mod THEN "replay" ELSE "finalize"
             job == IF mod THEN Records(jrnl) \cap jrnl.dur ELSE {}
             vers == IF 1 \in Records(jrnl) THEN Version(jrnl.rec[1]) ELSE pager[c].dbFileVers
             cache == RolledBack(c)
             size == OldSize(c)
  <2>1. pager' = [pager EXCEPT ![c] = [pager[c] EXCEPT !.at = at, !.goal = "rollback", !.job = job,
                     !.cache = cache, !.dbFileVers = vers, !.dbSize = size]]
    BY <1>2, UndoEffect
  <2>2. at \in At /\ job \in SUBSET Page /\ size \in 0 .. MaxPage
    BY <1>0 DEF At, Journal, PagerState, OldSize
  <2>3. cache \in [Page -> Content \cup {Absent, Garbage}]
    <3>1. \A p \in Page : Decrypt(rkey[c], jrnl.rec[p]) \in Content \cup {Garbage}
      BY <1>0, SomeTypes DEF Journal
    <3> QED
      BY <1>0, <3>1 DEF RolledBack, PagerState
  <2>4. vers \in FileVers \cup {Absent, Torn}
    BY <1>0, SomeTypes DEF Journal, PagerState
  <2> HIDE DEF at, job, vers, cache, size
  <2> QED
    BY <1>0, <2>1, <2>2, <2>3, <2>4 DEF PagerState
<1> QED
  BY <1>1, <1>2

(* ... and in every step.                                                  *)
LEMMA PagerTypes ==
  ASSUME NEW k \in Key, InvUnder(k), NEW c \in Conn, Acts(c)
  PROVE  pager' \in [Conn -> PagerState]
<1> USE DEF files, history
<1>0. /\ TypeOK /\ pager \in [Conn -> PagerState] /\ pager[c] \in PagerState /\ jrnl \in Journal
      /\ rkey[c] \in Key /\ wkey[c] \in Key /\ db \in [Page -> Stored \cup {Absent, Torn}]
      /\ Empty \in [Page -> Content \cup {Absent, Garbage}] /\ 1 \in Page
  BY ActorFacts, SomeTypes DEF InvUnder, TypeOK, Empty
<1> HIDE DEF Empty
<1>1. CASE SharedLock(c) \/ HotExists(c) \/ HotReserved(c) \/ HotOpen(c) \/ HotByte(c) \/ HotLock(c)
           \/ HotExclusive(c) \/ HotFailed(c) \/ ReplaySync(c) \/ Downgrade(c) \/ Regain(c)
           \/ DeleteFails(c) \/ JournalHeader(c) \/ IoError(c)
  <2>1. \E at \in At : Goto(c, at)
    BY <1>1 DEF SharedLock, HotExists, HotReserved, HotOpen, HotByte, HotLock, HotExclusive, HotFailed,
                ReplaySync, Downgrade, Regain, DeleteFails, JournalHeader, IoError, At
  <2> QED
    BY <1>0, <2>1, GotoType
<1>2. CASE LockPending(c) \/ LockUpgrade(c) \/ LockExclusive(c) \/ Reread(c)
  <2>1. (\E at \in At : Goto(c, at)) \/ Busy(c)
    BY <1>2 DEF LockPending, LockUpgrade, LockExclusive, Reread, At
  <2>2. Busy(c) => pager' \in [Conn -> PagerState]
    <3>1. [pager[c] EXCEPT !.at = "idle", !.goal = "none", !.job = {}] \in PagerState
      BY <1>0 DEF PagerState, At
    <3>2. Busy(c) => pager' = [pager EXCEPT ![c] = [pager[c] EXCEPT !.at = "idle", !.goal = "none",
                                                      !.job = {}]]
      BY <1>0 DEF Busy
    <3> QED
      BY <1>0, <3>1, <3>2
  <2> QED
    BY <1>0, <2>1, <2>2, GotoType
<1>3. CASE EndRead(c) \/ Unlock(c) \/ Ends(c)
  <2>1. /\ Fresh.eState \in EState /\ Fresh.at \in At /\ Fresh.goal = "none" /\ Fresh.job = {}
        /\ Fresh.cache = Empty /\ Fresh.dirty = {} /\ Fresh.needSync = {} /\ Fresh.inJournal = {}
        /\ Fresh.dbSize = 0 /\ Fresh.dbOrigSize = 0 /\ Fresh.dbFileVers = Absent /\ Fresh.tid = 0
    BY DEF Fresh, EState, At
  <2>2. Fresh \in PagerState
    BY <1>0, PagerAssumption DEF Fresh, PagerState, EState, At
  <2>3. ASSUME NEW clear \in BOOLEAN, PagerUnlock(c, clear) PROVE pager' \in [Conn -> PagerState]
    <3> DEFINE cache == IF clear THEN Empty ELSE pager[c].cache
    <3>1. pager' = [pager EXCEPT ![c] = [Fresh EXCEPT !.cache = cache,
                                           !.dbFileVers = pager[c].dbFileVers]]
      BY <2>3 DEF PagerUnlock
    <3>2. cache \in [Page -> Content \cup {Absent, Garbage}]
      BY <1>0 DEF PagerState
    <3> HIDE DEF cache
    <3> QED
      BY <1>0, <2>2, <3>1, <3>2 DEF PagerState
  <2> QED
    BY <1>0, <1>3, <2>2, <2>3 DEF EndRead, Unlock, Ends, Die
<1>4. CASE Begin(c)
  <2>1. ntxn + 1 \in 0 .. MaxTxn
    BY <1>0, <1>4, PagerAssumption DEF Begin, TypeOK
  <2> QED
    BY <1>0, <1>4, <2>1 DEF Begin, PagerState, EState
<1>5. CASE Commit(c)
  <2>1. \E d \in Content : \E at \in At :
          pager' = [pager EXCEPT ![c] = [Dirtied(c, 1, d) EXCEPT !.at = at, !.goal = "commit"]]
    <3> DEFINE d == Plain(pager[c].tid, pager[c].dbFileVers.ctr + 1)
    <3>1. pager[c].dbFileVers.ctr \in Nat /\ pager[c].tid \in 0 .. MaxTxn
      BY <1>0, <1>5, CommitFacts, FirstPage DEF CanWrite, Stored, PagerState
    <3>2. d \in Content
      BY <3>1 DEF Plain, Content
    <3>3. LockStart(c) \in At
      BY DEF LockStart, At
    <3>4. pager' = [pager EXCEPT ![c] = [Dirtied(c, 1, d) EXCEPT !.at = LockStart(c), !.goal = "commit"]]
      BY <1>5 DEF Commit
    <3> QED
      BY <3>2, <3>3, <3>4
  <2>2. \A d \in Content : Dirtied(c, 1, d) \in PagerState
    BY <1>0, DirtiedType
  <2>3. \A r \in PagerState : \A at \in At : [r EXCEPT !.at = at, !.goal = "commit"] \in PagerState
    BY DEF PagerState
  <2> QED
    <3>1. PICK d \in Content, at \in At :
            pager' = [pager EXCEPT ![c] = [Dirtied(c, 1, d) EXCEPT !.at = at, !.goal = "commit"]]
      BY <2>1
    <3>2. [Dirtied(c, 1, d) EXCEPT !.at = at, !.goal = "commit"] \in PagerState
      BY <2>2, <2>3
    <3> QED
      BY <1>0, <3>1, <3>2
<1>6. ASSUME NEW p \in Page, Write(c, p) PROVE pager' \in [Conn -> PagerState]
  <2> DEFINE d == Plain(pager[c].tid, IF pager[c].cache[p] = Absent THEN 0 ELSE pager[c].cache[p].ctr)
  <2>1. d \in Content
    <3>1. (IF pager[c].cache[p] = Absent THEN 0 ELSE pager[c].cache[p].ctr) \in Nat
      BY <1>6, WriteFacts DEF CanWrite, Content
    <3>2. pager[c].tid \in 0 .. MaxTxn
      BY <1>0 DEF PagerState
    <3> QED
      BY <3>1, <3>2 DEF Plain, Content
  <2>2. pager' = [pager EXCEPT ![c] = Dirtied(c, p, d)]
    BY <1>6 DEF Write
  <2> HIDE DEF d
  <2> QED
    BY <1>0, <2>1, <2>2, DirtiedType
<1>7. ASSUME NEW p \in Page, Read(c, p) PROVE pager' \in [Conn -> PagerState]
  <2> DEFINE vers == IF p = 1 THEN Version(db[1]) ELSE pager[c].dbFileVers
             d == Decrypt(rkey[c], db[p])
  <2>1. vers \in FileVers \cup {Absent, Torn} /\ d \in Content \cup {Absent, Garbage}
    BY <1>0, SomeTypes DEF PagerState
  <2>2. pager' = [pager EXCEPT ![c].cache[p] = d, ![c].dbFileVers = vers]
    BY <1>0, <1>7 DEF Read
  <2> HIDE DEF d, vers
  <2> QED
    BY <1>0, <2>1, <2>2 DEF PagerState
<1>8. ASSUME NEW p \in Page, Spill(c, p) PROVE pager' \in [Conn -> PagerState]
  <2> DEFINE at == IF p \in pager[c].needSync \/ pager[c].eState = "WRITER_CACHEMOD"
                   THEN LockStart(c) ELSE "write"
  <2>1. at \in At
    BY DEF LockStart, At
  <2>2. pager' = [pager EXCEPT ![c] = [pager[c] EXCEPT !.at = at, !.goal = "spill", !.job = {p}]]
    BY <1>0, <1>8 DEF Spill
  <2> HIDE DEF at
  <2>3. [pager[c] EXCEPT !.at = at, !.goal = "spill", !.job = {p}] \in PagerState
    BY <1>0, <2>1 DEF PagerState
  <2> QED
    BY <1>0, <2>2, <2>3
<1>9. CASE Recover(c) \/ Replay(c)
  <2>1. Playable(jrnl) \subseteq Page
    BY <1>0 DEF Playable, Journal
  <2>2. CASE Recover(c) /\ jrnl.exists
    <3> DEFINE cache == IF Playable(jrnl) = {} THEN pager[c].cache ELSE Empty
    <3>1. cache \in [Page -> Content \cup {Absent, Garbage}]
      BY <1>0 DEF PagerState
    <3>2. pager' = [pager EXCEPT ![c] = [pager[c] EXCEPT !.at = "replay", !.goal = "hot",
                                           !.job = Playable(jrnl), !.cache = cache]]
      BY <1>0, <2>2 DEF Recover
    <3> HIDE DEF cache
    <3>3. [pager[c] EXCEPT !.at = "replay", !.goal = "hot", !.job = Playable(jrnl), !.cache = cache]
          \in PagerState
      BY <1>0, <2>1, <3>1 DEF PagerState, At
    <3> QED
      BY <1>0, <3>2, <3>3
  <2>3. CASE Recover(c) /\ ~jrnl.exists
    <3>1. pager' = [pager EXCEPT ![c] = [pager[c] EXCEPT !.at = "downgrade", !.goal = "quiet"]]
      BY <1>0, <2>3 DEF Recover
    <3>2. [pager[c] EXCEPT !.at = "downgrade", !.goal = "quiet"] \in PagerState
      BY <1>0 DEF PagerState, At
    <3> QED
      BY <1>0, <3>1, <3>2
  <2>4. CASE Replay(c)
    <3>1. PICK p : pager' = [pager EXCEPT ![c] = [pager[c] EXCEPT !.job = @ \ {p}]]
      BY <1>0, <2>4 DEF Replay
    <3>2. [pager[c] EXCEPT !.job = @ \ {p}] \in PagerState
      BY <1>0 DEF PagerState
    <3> QED
      BY <1>0, <3>1, <3>2
  <2> QED
    BY <1>9, <2>2, <2>3, <2>4
<1>10. CASE Finalize(c) \/ EndTransaction(c) \/ JournalSync(c) \/ DbSync(c)
  <2>1. CASE Finalize(c)
    <3> DEFINE at == IF excl = c THEN "downgrade" ELSE "release"
    <3>1. at \in At
      BY DEF At
    <3>2. pager' = [pager EXCEPT ![c] = [pager[c] EXCEPT !.at = at, !.inJournal = {}, !.dirty = {},
                                                       !.needSync = {}]]
      BY <1>0, <2>1 DEF Finalize
    <3> HIDE DEF at
    <3>3. [pager[c] EXCEPT !.at = at, !.inJournal = {}, !.dirty = {}, !.needSync = {}] \in PagerState
      BY <1>0, <3>1 DEF PagerState
    <3> QED
      BY <1>0, <3>2, <3>3
  <2>2. CASE EndTransaction(c)
    <3> DEFINE at == IF pager[c].goal \in {"hot", "quiet"} THEN "validate" ELSE "idle"
               e  == IF pager[c].eState \in Writer THEN "READER" ELSE pager[c].eState
    <3>1. at \in At /\ e \in EState /\ 0 \in 0 .. MaxTxn
      BY <1>0, PagerAssumption DEF PagerState, At, EState
    <3>2. pager' = [pager EXCEPT ![c] = [pager[c] EXCEPT !.at = at, !.eState = e, !.goal = "none",
                                                       !.tid = 0]]
      BY <1>0, <2>2 DEF EndTransaction
    <3> HIDE DEF at, e
    <3>3. [pager[c] EXCEPT !.at = at, !.eState = e, !.goal = "none", !.tid = 0] \in PagerState
      BY <1>0, <3>1 DEF PagerState
    <3> QED
      BY <1>0, <3>2, <3>3
  <2>3. CASE JournalSync(c)
    BY <1>0, <2>3 DEF JournalSync, PagerState, At, EState
  <2>4. CASE DbSync(c)
    BY <1>0, <2>4 DEF DbSync, PagerState, At, EState
  <2> QED
    BY <1>10, <2>1, <2>2, <2>3, <2>4
<1>11. CASE Validate(c)
  <2>1. Size(db) \in 0 .. MaxPage
    <3>1. Clean
      BY <1>11, ActorFacts DEF ConnOK, NeedsClean, Validate
    <3>2. PICK n \in Page : Sized(committed, n)
      BY DEF InvUnder, FilesOK
    <3>3. Sized(db, n) /\ n \in 0 .. MaxPage
      BY <3>1, <3>2, SomeTypes DEF Sized, Clean
    <3> QED
      BY <3>3, SizeOf
  <2> QED
    BY <1>0, <1>11, <2>1 DEF Validate, PagerState, At, EState
<1>12. CASE WriteDb(c)
  <2>1. PICK p : p = Min(pager[c].job)
    OBVIOUS
  <2> DEFINE s == Encrypt(wkey[c], pager[c].cache[p])
             vers == IF p = 1 THEN Version(s) ELSE pager[c].dbFileVers
  <2>2. p \in Page /\ vers \in FileVers \cup {Absent, Torn}
    BY <1>0, <1>12, <2>1, WriteDbFacts, SomeTypes DEF PagerState
  <2>3. pager' = [pager EXCEPT ![c] =
          IF pager[c].goal = "commit"
          THEN [pager[c] EXCEPT !.job = @ \ {p}, !.dbFileVers = vers]
          ELSE [pager[c] EXCEPT !.job = @ \ {p}, !.dbFileVers = vers, !.at = "idle",
                                !.goal = "none", !.dirty = @ \ {p}, !.cache[p] = Absent]]
    BY <1>0, <1>12, <2>1 DEF WriteDb, PagerState
  <2> HIDE DEF vers
  <2> QED
    BY <1>0, <2>2, <2>3 DEF PagerState, At
<1>13. CASE Rollback(c) \/ FailedCommit(c)
  BY <1>0, <1>13, UndoType DEF Rollback, FailedCommit
<1> QED
  BY <1>1, <1>2, <1>3, <1>4, <1>5, <1>6, <1>7, <1>8, <1>9, <1>10, <1>11, <1>12, <1>13
  DEF Acts, Call, Continue

-----------------------------------------------------------------------------
(* A connection that has just been opened knows nothing.                   *)
LEMMA FreshStart ==
  ASSUME NEW c \in Conn, pager[c] = Fresh
  PROVE  ConnOK(c) /\ HeaderOK(c) /\ OpenOK(c)
<1>1. /\ pager[c].eState = "OPEN" /\ pager[c].at = "idle" /\ pager[c].goal = "none"
      /\ pager[c].cache = Empty /\ pager[c].dirty = {}
      /\ pager[c].needSync = {} /\ pager[c].inJournal = {}
  BY DEF Fresh
<1>2. \A p \in Page : pager[c].cache[p] = Absent
  BY <1>1 DEF Empty
<1> QED
  BY <1>1, <1>2, SomeTypes
  DEF ConnOK, NeedsClean, ReplayOK, StaleOK, SettledOK, UnwrittenOK, JournalledOK, CachedOK,
      WrittenOK, CommitOK, IsSettled, IsChanging, Ended, FirstPageFirst, Writer, Modified,
      HeaderOK, OpenOK

(* A connection that has just been opened.                                 *)
LEMMA FreshType == Fresh \in PagerState
<1>1. Empty \in [Page -> Content \cup {Absent, Garbage}]
  BY DEF Empty
<1> HIDE DEF Empty
<1> QED
  BY <1>1, PagerAssumption DEF Fresh, PagerState, EState, At

(* Everybody starts without a lock, in the middle of nothing.              *)
LEMMA InitOK ==
  ASSUME Init
  PROVE  PagerInv
<1>1. PICK k \in Key :
        /\ db = [p \in Page |-> IF p <= InitSize THEN Encrypt(k, Plain(0, 0)) ELSE Absent]
        /\ rkey = [c \in Conn |-> k]
  BY DEF Init
<1>2. /\ wkey = rkey /\ dbOld = [p \in Page |-> {}] /\ jrnl = NoJournal /\ jrnlOld = NoneOld
      /\ jopen = {} /\ pager = [c \in Conn |-> Fresh] /\ committed = db /\ ntxn = 0 /\ nfault = 0
      /\ LockInit
  BY DEF Init
<1>3. Plain(0, 0) \in Content /\ MaxTxn \in Nat /\ MaxFault \in Nat
  BY PagerAssumption DEF Plain, Content
<1>4. Encrypt(k, Plain(0, 0)) \in Stored /\ Encrypt(k, Plain(0, 0)).key = k
      /\ Encrypt(k, Plain(0, 0)) # Absent
  BY <1>3, EncryptType, Marks
<1> DEFINE s == Encrypt(k, Plain(0, 0))
<1> HIDE DEF s
<1>5. TypeOK
  <2>1. LockTypeOK
    BY <1>2 DEF LockInit, LockTypeOK
  <2>2. db \in [Page -> Stored \cup {Absent}]
    BY <1>1, <1>4
  <2> QED
    BY <1>1, <1>2, <1>3, <2>1, <2>2, FreshType, NoneOldType, JournalTypes, SomeTypes DEF TypeOK
<1>6. KeysOK(k)
  BY <1>1, <1>2, <1>4, NoneOldType DEF KeysOK, UnderKey
<1>7. Control
  BY <1>2, NoConnAssumption
  DEF LockInit, Fresh, Control, InPlace, Locked, Outside, NeedsRange, MayLose, Gap, Writer, Modified
<1>8. FilesOK
  <2>1. InitSize \in Page /\ Sized(committed, InitSize)
    BY <1>1, <1>2, <1>4, PagerAssumption DEF Sized, Page
  <2>2. jrnl.orig = 0 /\ ~jrnl.magic
    BY <1>2, JournalTypes, SomeTypes
  <2>3. Clean
    BY <1>2 DEF Clean
  <2> QED
    BY <1>2, <2>1, <2>2, <2>3 DEF FilesOK, Restores, Clean
<1>9. \A c \in Conn : ConnOK(c) /\ HeaderOK(c) /\ OpenOK(c)
  BY <1>2, FreshStart
<1>10. SameKeys(k)
  <2>1. Fresh.cache[1] = Absent
    BY SomeTypes DEF Fresh, Empty
  <2> QED
    BY <1>1, <1>2, <2>1, NoneOldType, Marks DEF SameKeys
<1> QED
  BY <1>5, <1>6, <1>7, <1>8, <1>9, <1>10 DEF PagerInv, InvUnder

(* The invariant is kept by any step of a connection ...                   *)
LEMMA StepOK ==
  ASSUME NEW k \in Key, InvUnder(k), ~exposed', NEW c \in Conn, Acts(c), KeysFit(c),
         NEW n \in Key, UnderKey(n, committed')
  PROVE  InvUnder(n)'
<1>1. TypeOK'
  <2>1. rkey' \in [Conn -> Key] /\ wkey' \in [Conn -> Key]
    BY FileAccess DEF InvUnder, TypeOK, keys, Ends
  <2> QED
    BY <2>1, LockTypes, DbTypes, JournalTypesKept, OldJournalType, CommittedType, PagerTypes
    DEF InvUnder, TypeOK
<1>2. Control'
  BY ControlStep DEF InvUnder
<1>3. FilesOK' /\ \A d \in Conn : ConnOK(d)' /\ HeaderOK(d)' /\ OpenOK(d)'
  BY FilesStep, ConnStep, HeaderStep, OpenStep
<1>4. KeysOK(n)'
  BY KeysStep
<1> QED
  BY <1>1, <1>2, <1>3, <1>4 DEF InvUnder

(* After a power failure: rolling back what is left of the journal, or the *)
(* one that has come back, gives the committed database.                   *)
LEMMA PowerLossFiles ==
  ASSUME NEW k \in Key, InvUnder(k), LosePower
  PROVE  /\ FilesOK' /\ jrnl' \in Journal /\ committed' \in [Page -> Stored \cup {Absent}]
         /\ committed' \in {committed, jrnlOld.image}
<1>0. /\ TypeOK /\ FilesOK /\ jrnl \in Journal /\ jrnlOld.jrnl \in Journal
      /\ committed \in [Page -> Stored \cup {Absent}]
      /\ jrnlOld.image \in [Page -> Stored \cup {Absent}]
      /\ jrnlOld' = NoneOld
      /\ dbOld' = [p \in Page |-> {}]
      /\ \A p \in Page : db'[p] \in dbOld[p] \cup {db[p]}
  BY DEF InvUnder, TypeOK, LosePower
<1>2. CASE \E kept \in SUBSET (jrnl.cnt \ jrnl.dur) :
             LET cnt == kept \cup (jrnl.cnt \cap jrnl.dur)
             IN  /\ jrnl' = [jrnl EXCEPT !.cnt = cnt, !.dur = cnt, !.firm = TRUE]
                 /\ committed' = committed
  <2>1. PICK cnt \in SUBSET Page :
          /\ jrnl.cnt \cap jrnl.dur \subseteq cnt
          /\ jrnl' = [jrnl EXCEPT !.cnt = cnt, !.dur = cnt, !.firm = TRUE]
          /\ committed' = committed
    BY <1>0, <1>2 DEF Journal
  <2>2. /\ jrnl' \in Journal /\ jrnl'.orig = jrnl.orig /\ (jrnl'.magic <=> jrnl.magic)
        /\ (jrnl'.exists <=> jrnl.exists) /\ jrnl'.rec = jrnl.rec /\ jrnl'.firm
        /\ jrnl'.cnt = cnt /\ jrnl'.dur = cnt
    BY <1>0, <2>1 DEF Journal
  <2>3. \A p \in Page : Kept(jrnl, p) => Kept(jrnl', p)
    BY <2>1, <2>2 DEF Kept
  <2>4. Restores(jrnl, committed)'
    BY <1>0, <2>1, <2>2, <2>3 DEF FilesOK, Restores, Sized
  <2> QED
    BY <1>0, <2>1, <2>2, <2>4 DEF FilesOK, Sized
<1>3. CASE /\ ~jrnl.firm /\ committed' = committed
           /\ jrnl' \in {NoJournal, [jrnl EXCEPT !.magic = FALSE, !.cnt = {}, !.dur = {}, !.firm = TRUE]}
  <2>1. Clean'
    BY <1>0, <1>3 DEF FilesOK, Clean
  <2>2. /\ jrnl' \in Journal /\ ~jrnl'.magic
        /\ \/ jrnl'.orig = 0
           \/ jrnl'.orig = jrnl.orig /\ jrnl'.rec = jrnl.rec /\ jrnl'.exists = jrnl.exists
    <3>1. CASE jrnl' = NoJournal
      BY <3>1, JournalTypes, SomeTypes
    <3>2. CASE jrnl' = [jrnl EXCEPT !.magic = FALSE, !.cnt = {}, !.dur = {}, !.firm = TRUE]
      BY <1>0, <3>2 DEF Journal
    <3> QED
      BY <1>3, <3>1, <3>2
  <2>3. Restores(jrnl, committed)'
    BY <1>0, <1>3, <2>1, <2>2 DEF FilesOK, Restores, Clean, Sized
  <2> QED
    BY <1>0, <1>3, <2>1, <2>2, <2>3 DEF FilesOK, Sized
<1>4. CASE /\ jrnlOld # NoneOld
           /\ jrnl' = [jrnlOld.jrnl EXCEPT !.firm = TRUE]
           /\ committed' = jrnlOld.image
  <2> DEFINE j == jrnlOld.jrnl
             image == jrnlOld.image
  <2>1. ~jrnl.firm /\ Clean /\ Restores(j, image)
    BY <1>0, <1>4 DEF FilesOK
  <2>2. /\ jrnl' \in Journal /\ jrnl'.orig = j.orig /\ (jrnl'.magic <=> j.magic)
        /\ (jrnl'.exists <=> j.exists) /\ jrnl'.rec = j.rec /\ jrnl'.firm
        /\ jrnl'.cnt = j.cnt /\ jrnl'.dur = j.dur
    BY <1>0, <1>4 DEF Journal
  <2>3. \E n \in Page : Sized(image, n)
    <3>1. CASE ~j.magic
      BY <1>0, <2>1, <3>1 DEF Restores, Clean, FilesOK, Sized
    <3>2. CASE j.magic
      <4>1. j.orig # 0
        BY <2>1, <3>2 DEF Restores
      <4>2. j.orig \in Page
        BY <1>0, <4>1, PagerAssumption DEF Journal, Page
      <4> QED
        BY <2>1, <4>1, <4>2 DEF Restores
    <3> QED
      BY <3>1, <3>2
  <2>4. committed' = image
    BY <1>4
  <2>5. \A p \in Page : Kept(j, p) <=> Kept(jrnl', p)
    BY <2>2 DEF Kept
  <2> HIDE DEF j, image
  <2>6. Restores(jrnl, committed)'
    BY <1>0, <2>1, <2>2, <2>4, <2>5 DEF Restores, Sized
  <2>7. FilesOK'
    BY <1>0, <2>2, <2>3, <2>4, <2>6 DEF FilesOK, Sized
  <2> QED
    BY <2>2, <2>4, <2>7, <1>0 DEF image
<1> QED
  BY <1>2, <1>3, <1>4 DEF LosePower

(* ... and by a power failure, after which the keys may be any.            *)
LEMMA PowerLossOK ==
  ASSUME NEW k \in Key, InvUnder(k), LosePower,
         rkey' \in [Conn -> Key], wkey' \in [Conn -> Key],
         NEW n \in Key, UnderKey(n, committed')
  PROVE  InvUnder(n)'
<1>0. /\ TypeOK /\ pager' = [c \in Conn |-> Fresh]
      /\ shared' = {} /\ excl' = NoConn /\ reserved' = NoConn
      /\ pending' = NoConn /\ converting' = {}
      /\ jopen' = {} /\ jrnlOld' = NoneOld /\ dbOld' = [p \in Page |-> {}]
      /\ UNCHANGED ntxn /\ nfault < MaxFault /\ nfault' = nfault + 1
  BY DEF InvUnder, LosePower
<1>5. nfault' \in 0 .. MaxFault
  BY <1>0, PagerAssumption DEF TypeOK
<1>1. db' \in [Page -> Stored \cup {Absent, Torn}]
  <2>1. \A p \in Page : dbOld[p] \cup {db[p]} \subseteq Stored \cup {Absent, Torn}
    BY <1>0 DEF TypeOK
  <2> QED
    BY <2>1 DEF LosePower
<1>2. TypeOK'
  <2>1. LockTypeOK'
    BY <1>0 DEF LockTypeOK
  <2> QED
    BY <1>0, <1>1, <1>5, <2>1, PowerLossFiles, FreshType, NoneOldType DEF TypeOK
<1>3. Control'
  BY <1>0, NoConnAssumption
  DEF Fresh, Control, InPlace, Locked, Outside, NeedsRange, MayLose, Gap, Writer, Modified
<1>4. \A c \in Conn : ConnOK(c)' /\ HeaderOK(c)' /\ OpenOK(c)'
  <2> TAKE c \in Conn
  <2>1. ConnOK(c)' /\ pager'[c].eState = "OPEN"
    BY <1>0, FreshOK DEF InvUnder, Fresh
  <2> QED
    BY <2>1 DEF HeaderOK, OpenOK, IsChanging, Modified
<1>6. KeysOK(n)'
  BY <1>0, NoneOldType DEF KeysOK, UnderKey
<1> QED
  BY <1>2, <1>3, <1>4, <1>6, PowerLossFiles DEF InvUnder

(* A connection that does not write may be given another key.              *)
LEMMA KeysChange ==
  ASSUME NEW k \in Key, InvUnder(k), UNCHANGED <<lockVars, files, jopen, pager, history>>,
         rkey' \in [Conn -> Key], wkey' \in [Conn -> Key],
         \A c \in Conn : \/ rkey'[c] = rkey[c] /\ wkey'[c] = wkey[c]
                        \/ pager[c].eState \in {"OPEN", "READER"}
  PROVE  InvUnder(k)'
<1> USE DEF lockVars, files, history
<1>1. TypeOK' /\ KeysOK(k)' /\ Control'
  BY DEF InvUnder, TypeOK, LockTypeOK, KeysOK, UnderKey, Control, InPlace, Locked, Outside, NeedsRange,
     MayLose
<1>2. FilesOK'
  BY FilesUndisturbed DEF InvUnder
<1>3. \A c \in Conn : HeaderOK(c)' /\ OpenOK(c)'
  BY DEF InvUnder, HeaderOK, OpenOK, IsChanging, Ended
<1>4. \A c \in Conn : ConnOK(c)'
  <2> TAKE c \in Conn
  <2>0. ConnOK(c) /\ pager'[c] = pager[c]
    BY DEF InvUnder
  <2>1. (NeedsClean(c)' => Clean') /\ ReplayOK(c)' /\ StaleOK(c)' /\ SettledOK(c)'
    BY <2>0
    DEF InvUnder, ConnOK, NeedsClean, Clean, ReplayOK, Records, StaleOK, FirstPageFirst, Holds,
        SettledOK, IsSettled, Ended, Sized
  <2>2. CASE rkey'[c] = rkey[c] /\ wkey'[c] = wkey[c]
    <3>1. UnwrittenOK(c)' /\ JournalledOK(c)' /\ CachedOK(c)'
      BY <2>0, <2>2
      DEF ConnOK, UnwrittenOK, JournalledOK, CachedOK, IsChanging, Ended, Kept, Holds, KnowsKey
    <3>2. WrittenOK(c)' /\ CommitOK(c)'
      BY <2>0, <2>2
      DEF ConnOK, WrittenOK, CommitOK, IsChanging, Ended, Holds, Sized, Rewritten, UnderKey
    <3> QED
      BY <2>1, <3>1, <3>2 DEF ConnOK
  <2>3. CASE pager[c].eState \in {"OPEN", "READER"}
    <3>1. UnwrittenOK(c)' /\ ~IsChanging(c)'
      BY <2>0, <2>3 DEF ConnOK, UnwrittenOK, IsChanging, Ended, Modified
    <3> QED
      BY <2>1, <3>1 DEF ConnOK, JournalledOK, CachedOK, WrittenOK, CommitOK
  <2> QED
    BY <2>2, <2>3
<1> QED
  BY <1>1, <1>2, <1>3, <1>4 DEF InvUnder

-----------------------------------------------------------------------------
(* What becomes of page 1 in the cache, from which a connection knows the  *)
(* key.  It is kept, while the connection starts or ends reading or not.   *)
FirstPageKept(c) ==
  /\ pager[c].at # "unlock" /\ pager[c].cache[1] # Absent
  /\ pager'[c].cache[1] = Garbage <=> pager[c].cache[1] = Garbage
  /\ \/ pager[c].eState # "OPEN" /\ pager'[c].eState # "OPEN"
     \/ /\ pager[c].eState = "OPEN" /\ pager'[c].eState = "OPEN"
        /\ pager'[c].dbFileVers = pager[c].dbFileVers
     \/ /\ EndRead(c) /\ pager[c].eState = "READER" /\ pager'[c].eState = "OPEN"
        /\ pager'[c].dbFileVers = pager[c].dbFileVers
     \/ /\ Validate(c) /\ pager[c].eState = "OPEN" /\ pager'[c].eState = "READER"
        /\ pager[c].dbFileVers = Version(db[1])

(* What is known of page 1 stays in every step that does not read page 1   *)
(* or drop it.                                                             *)
LEMMA FirstPageStep ==
  ASSUME NEW k \in Key, InvUnder(k), NEW c \in Conn, Acts(c)
  PROVE  \/ pager'[c].cache[1] = Absent
         \/ /\ Read(c, 1) /\ pager'[c].cache[1] = Decrypt(rkey[c], db[1])
            /\ pager'[c].eState = pager[c].eState /\ pager[c].eState # "OPEN"
         \/ FirstPageKept(c)
<1>0. /\ TypeOK /\ pager \in [Conn -> PagerState] /\ pager[c] \in PagerState /\ 1 \in Page
      /\ ConnOK(c) /\ InPlace(c) /\ FilesOK
      /\ Empty[1] = Absent
  BY ActorFacts, SomeTypes DEF InvUnder, Empty
<1> USE DEF FirstPageKept
<1>1. CASE \/ SharedLock(c) \/ HotExists(c) \/ HotReserved(c) \/ HotOpen(c)
           \/ HotByte(c) \/ HotLock(c)
           \/ HotExclusive(c) \/ HotFailed(c) \/ DeleteFails(c) \/ Downgrade(c) \/ Regain(c)
           \/ LockPending(c) \/ LockUpgrade(c) \/ LockExclusive(c) \/ Reread(c)
           \/ JournalHeader(c) \/ IoError(c) \/ ReplaySync(c)
  BY <1>1, FirstPageMoves
<1>2. CASE EndRead(c)
  <2>1. /\ pager'[c].eState = "OPEN" /\ pager'[c].cache = pager[c].cache
        /\ pager'[c].dbFileVers = pager[c].dbFileVers
        /\ pager[c].eState = "READER" /\ pager[c].at = "idle"
    BY <1>0, <1>2 DEF EndRead, PagerUnlock, Fresh, Ready
  <2> QED
    BY <1>2, <2>1
<1>3. CASE Unlock(c) \/ Ends(c)
  <2>0. Fresh.cache = Empty /\ Fresh \in PagerState
    BY FreshType DEF Fresh
  <2>1. pager'[c] = Fresh
        \/ pager'[c] = [Fresh EXCEPT !.cache = Empty, !.dbFileVers = pager[c].dbFileVers]
    BY <1>0, <1>3 DEF Unlock, Ends, Die, PagerUnlock
  <2>2. pager'[c].cache = Empty
    BY <2>0, <2>1 DEF PagerState
  <2> QED
    BY <1>0, <2>2
<1>4. CASE Begin(c)
  BY <1>0, <1>4, BeginFields DEF Begin, Ready
<1>5. ASSUME NEW p \in Page, Read(c, p)
      PROVE  \/ /\ Read(c, 1) /\ pager'[c].cache[1] = Decrypt(rkey[c], db[1])
                /\ pager'[c].eState = pager[c].eState /\ pager[c].eState # "OPEN"
             \/ FirstPageKept(c)
  <2>1. /\ pager'[c].cache = [pager[c].cache EXCEPT ![p] = Decrypt(rkey[c], db[p])]
        /\ pager'[c].eState = pager[c].eState /\ pager[c].at = "idle"
        /\ pager[c].eState # "OPEN" /\ (p = 1 \/ pager[c].cache[1] # Absent)
    BY <1>0, <1>5, ReadFields DEF Read, Ready, Writer, Modified
  <2>2. CASE p = 1
    <3>1. pager'[c].cache[1] = Decrypt(rkey[c], db[1])
      BY <1>0, <2>1, <2>2 DEF PagerState
    <3> QED
      BY <1>5, <2>1, <2>2, <3>1
  <2>3. CASE p # 1
    <3>1. pager'[c].cache[1] = pager[c].cache[1]
      BY <1>0, <2>1, <2>3 DEF PagerState
    <3> QED
      BY <2>1, <2>3, <3>1
  <2> QED
    BY <2>2, <2>3
<1>6. ASSUME NEW p \in Page, Write(c, p) PROVE FirstPageKept(c)
  <2>1. PICK d \in Content : Puts(pager'[c], c, p, d)
    BY <1>6, WriteFacts
  <2>2. /\ pager[c].cache[1] \in Content /\ pager[c].at = "idle"
        /\ pager[c].eState \in {"WRITER_LOCKED", "WRITER_CACHEMOD", "WRITER_DBMOD"}
    BY <1>6, WriteFacts DEF CanWrite
  <2>3. pager'[c].cache[1] \in Content /\ pager'[c].eState # "OPEN"
    BY <1>0, <2>1, <2>2 DEF Puts, PagerState
  <2> QED
    BY <2>2, <2>3, Marks
<1>7. CASE Commit(c)
  <2>1. PICK d \in Content : Puts(pager'[c], c, 1, d)
    BY <1>7, CommitFacts
  <2>2. /\ pager[c].cache[1] \in Content /\ pager[c].at = "idle"
        /\ pager[c].eState \in {"WRITER_LOCKED", "WRITER_CACHEMOD", "WRITER_DBMOD"}
    BY <1>7, CommitFacts DEF CanWrite
  <2>3. pager'[c].cache[1] \in Content /\ pager'[c].eState # "OPEN"
    BY <1>0, <2>1, <2>2 DEF Puts, PagerState
  <2> QED
    BY <2>2, <2>3, Marks
<1>8. ASSUME NEW p \in Page, Spill(c, p) PROVE pager'[c].cache[1] = Absent \/ FirstPageKept(c)
  BY <1>0, <1>8, SpillFields DEF Spill, Ready
<1>9. CASE Rollback(c) \/ FailedCommit(c)
  <2>0. Undo(c) /\ pager[c].at \in {"idle", "failed"} /\ pager[c].eState \in Writer
    BY <1>0, <1>9 DEF Rollback, FailedCommit, Ready, InPlace, Writer, Modified
  <2>1. CASE pager[c].eState = "WRITER_LOCKED"
    <3>1. pager'[c].cache = pager[c].cache /\ pager'[c].eState = pager[c].eState
      BY <1>0, <2>0, <2>1 DEF Undo, PagerState
    <3> QED
      BY <2>0, <2>1, <3>1
  <2>2. CASE pager[c].eState # "WRITER_LOCKED"
    <3>1. pager'[c].cache = RolledBack(c) /\ pager'[c].eState = pager[c].eState
      BY <1>0, <2>0, <2>2, UndoFields
    <3>2. IsChanging(c)
      BY <1>0, <2>0, <2>2 DEF IsChanging, InPlace, Ended, Writer
    <3>3. pager[c].cache[1] \in Content /\ rkey[c] = k
      BY <1>0, <3>2, FirstPage DEF ConnOK, CachedOK, KnowsKey
    <3>4. 1 \in Records(jrnl) => jrnl.rec[1] = committed[1]
      BY <1>0, <3>2, ChangingFacts DEF FilesOK, Restores, Records, Page
    <3>5. 1 \in Records(jrnl) => Decrypt(rkey[c], jrnl.rec[1]) \in Content
      BY <3>3, <3>4, FirstPage, DecryptCases
    <3>6. pager'[c].cache[1] = Absent \/ pager'[c].cache[1] \in Content
      BY <1>0, <3>1, <3>3, <3>5 DEF RolledBack
    <3> QED
      BY <2>0, <3>1, <3>3, <3>6, Marks DEF Writer, Modified
  <2> QED
    BY <2>1, <2>2
<1>10. CASE Recover(c)
  BY <1>0, <1>10, RecoverFields DEF Recover
<1>11. CASE Replay(c)
  <2>1. \E job : pager' = [pager EXCEPT ![c] = [pager[c] EXCEPT !.job = job]] /\ pager[c].at = "replay"
    BY <1>0, <1>11 DEF Replay
  <2>2. /\ pager'[c].eState = pager[c].eState /\ pager'[c].cache = pager[c].cache
        /\ pager'[c].dbFileVers = pager[c].dbFileVers
    BY <1>0, <2>1 DEF PagerState
  <2> QED
    BY <2>1, <2>2
<1>12. CASE Finalize(c)
  BY <1>0, <1>12, FinalizeFields DEF Finalize
<1>13. CASE EndTransaction(c)
  <2>1. /\ pager'[c].cache = pager[c].cache /\ pager'[c].dbFileVers = pager[c].dbFileVers
        /\ pager'[c].eState = IF pager[c].eState \in Writer THEN "READER" ELSE pager[c].eState
    BY <1>0, <1>13, EndTransactionFields
  <2>2. pager[c].at = "release"
    BY <1>13 DEF EndTransaction
  <2>3. pager'[c].eState = "OPEN" <=> pager[c].eState = "OPEN"
    BY <2>1 DEF Writer, Modified
  <2> QED
    BY <2>1, <2>2, <2>3
<1>14. CASE Validate(c)
  <2>1. /\ pager[c].at = "validate" /\ pager[c].eState = "OPEN" /\ pager'[c].eState = "READER"
        /\ pager'[c].cache = IF pager[c].dbFileVers = Version(db[1]) THEN pager[c].cache ELSE Empty
    BY <1>0, <1>14, ValidateFields DEF Validate, InPlace
  <2> QED
    BY <1>0, <1>14, <2>1
<1>15. CASE JournalSync(c)
  <2>1. /\ pager'[c].cache = pager[c].cache /\ pager'[c].eState = "WRITER_DBMOD"
        /\ pager[c].at = "sync" /\ pager[c].eState # "OPEN"
    BY <1>0, <1>15, JournalSyncFields DEF JournalSync, InPlace
  <2> QED
    BY <2>1
<1>16. CASE DbSync(c)
  BY <1>0, <1>16, DbSyncFields DEF DbSync, InPlace
<1>17. CASE WriteDb(c)
  <2>1. PICK p : p = Min(pager[c].job)
    OBVIOUS
  <2>2. p \in Page /\ pager[c].at = "write" /\ pager[c].eState = "WRITER_DBMOD"
    BY <1>0, <1>17, <2>1, WriteDbFacts DEF WriteDb, InPlace
  <2>3. /\ pager'[c].eState = pager[c].eState
        /\ pager'[c].cache \in {pager[c].cache, [pager[c].cache EXCEPT ![p] = Absent]}
    BY <1>0, <1>17, <2>1, WriteDbFields
  <2>4. pager'[c].cache[1] \in {Absent, pager[c].cache[1]}
    BY <1>0, <2>2, <2>3 DEF PagerState
  <2> QED
    BY <2>2, <2>3, <2>4
<1> QED
  BY <1>1, <1>2, <1>3, <1>4, <1>5, <1>6, <1>7, <1>8, <1>9, <1>10, <1>11, <1>12, <1>13, <1>14, <1>15,
     <1>16, <1>17
  DEF Acts, Call, Continue

(* What a connection reads is a page, under the key of the database or the *)
(* one that it writes with.                                                *)
LEMMA ReadStored ==
  ASSUME NEW k \in Key, InvUnder(k), NEW c \in Conn, NEW p \in Page, Read(c, p)
  PROVE  /\ db[p] \in Stored
         /\ \/ db[p] = committed[p] /\ db[p].key = k
            \/ /\ pager[c].eState \in Modified /\ db[p].key = wkey[c]
<1>0. /\ ConnOK(c) /\ InPlace(c) /\ pager[c].at = "idle" /\ pager[c].goal = "none"
      /\ pager[c].eState \in {"READER"} \cup Writer /\ pager[c].cache[p] = Absent
      /\ p <= pager[c].dbSize
  BY ActorFacts DEF Read, Ready, InPlace
<1>1. CASE pager[c].eState \in {"READER", "WRITER_LOCKED"}
  <2>1. Clean /\ SettledOK(c) /\ IsSettled(c)
    BY <1>0, <1>1 DEF ConnOK, NeedsClean, IsSettled
  <2>2. db[p] = committed[p] /\ committed[p] # Absent
    BY <1>0, <2>1 DEF Clean, SettledOK, Sized
  <2> QED
    BY <2>2, ActorFacts
<1>2. CASE pager[c].eState \in Modified
  <2>1. IsChanging(c) /\ JournalledOK(c) /\ CachedOK(c) /\ WrittenOK(c)
    BY <1>0, <1>2 DEF ConnOK, IsChanging, Ended
  <2>2. p \notin pager[c].dirty
    BY <1>0, <2>1 DEF CachedOK
  <2>3. db[p] = committed[p] \/ (db[p] \in Stored /\ db[p].key = wkey[c])
    BY <1>0, <2>1 DEF WrittenOK
  <2>4. db[p] # Absent
    <3>1. CASE p <= pager[c].dbOrigSize
      <4>1. committed[p] # Absent
        BY <2>1, <3>1, ChangingFacts DEF Sized
      <4> QED
        BY <2>3, <4>1, Marks
    <3>2. CASE p > pager[c].dbOrigSize
      BY <1>0, <2>1, <2>2, <3>2 DEF WrittenOK
    <3> QED
      BY <2>1, <3>1, <3>2, ChangingFacts DEF Page
  <2> QED
    BY <1>2, <2>3, <2>4, ActorFacts
<1> QED
  BY <1>0, <1>1, <1>2 DEF Writer

-----------------------------------------------------------------------------
(* Without rekeying.  A step takes nothing of the keys that is not so.     *)
LEMMA SameKeysFit ==
  ASSUME NEW k \in Key, InvUnder(k), SameKeys(k), NEW c \in Conn
  PROVE  KeysFit(c)
<1>0. rkey[c] = k /\ wkey[c] = k /\ committed[1].key = k
  BY FirstPage DEF SameKeys
<1>1. ASSUME NEW p \in Page, Read(c, p) PROVE Decrypt(rkey[c], db[p]) # Garbage
  <2>1. db[p] \in Stored /\ db[p].key = k
    BY <1>0, <1>1, ReadStored
  <2> QED
    BY <1>0, <2>1, DecryptCases, Marks
<1> QED
  BY <1>0, <1>1 DEF KeysFit, KnowsKey, Rewritten

(* A step of the pager is one that keeps all keys.                         *)
LEMMA StepActs ==
  ASSUME TypeOK, NEW c \in Conn, Step(c)
  PROVE  Acts(c) /\ UNCHANGED keys
<1>1. CASE Crash(c)
  BY <1>1 DEF Crash, Acts, Ends, TypeOK, keys
<1>2. CASE Call(c)
  BY <1>2 DEF Acts, Call, SharedLock, EndRead, Begin, Commit, Rollback, Undo, Read, Write, Spill
<1>3. CASE Continue(c)
  BY <1>3
  DEF Acts, Continue, HotExists, HotReserved, HotOpen, HotByte, HotLock, HotExclusive, HotFailed,
      Recover, Replay, ReplaySync, Finalize, DeleteFails, Downgrade, Regain, EndTransaction,
      Validate, Unlock, LockPending, LockUpgrade, LockExclusive, Reread,
      JournalHeader, JournalSync, WriteDb, DbSync, FailedCommit, Undo, IoError
<1> QED
  BY <1>1, <1>2, <1>3 DEF Step

(* While all connections have one key, that of the file, they keep it.     *)
LEMMA SameKeysStep ==
  ASSUME NEW k \in Key, InvUnder(k), SameKeys(k), ~exposed', NEW c \in Conn, Step(c)
  PROVE  InvUnder(k)' /\ SameKeys(k)'
<1>1. Acts(c) /\ UNCHANGED keys /\ KeysFit(c)
  BY StepActs, SameKeysFit DEF InvUnder
<1>2. UnderKey(k, committed')
  BY <1>1, CommittedType DEF SameKeys
<1>3. UnderKey(k, jrnlOld'.image)
  BY <1>1, OldJournalType DEF SameKeys
<1>4. ASSUME NEW d \in Conn PROVE pager'[d].at # "unlock" => pager'[d].cache[1] # Garbage
  <2>1. CASE d # c
    BY <1>1, <2>1, OthersStay DEF SameKeys, InvUnder
  <2>2. CASE d = c
    <3>1. ASSUME Read(c, 1) PROVE Decrypt(rkey[c], db[1]) # Garbage
      <4>1. db[1] \in Stored /\ db[1].key = k /\ rkey[c] = k
        BY <3>1, ReadStored, SomeTypes DEF SameKeys
      <4> QED
        BY <4>1, DecryptCases, Marks
    <3>2. FirstPageKept(c) => pager'[c].cache[1] # Garbage
      BY DEF FirstPageKept, SameKeys
    <3> QED
      BY <1>1, <2>2, <3>1, <3>2, FirstPageStep, Marks
  <2> QED
    BY <2>1, <2>2
<1>5. SameKeys(k)'
  BY <1>1, <1>3, <1>4 DEF SameKeys, keys, UnderKey
<1> QED
  BY <1>1, <1>2, <1>5, StepOK

(* The invariant is inductive as long as no reader is exposed.             *)
LEMMA Inductive ==
  ASSUME PagerInv, [Next]_vars, ~exposed'
  PROVE  PagerInv'
<1>1. PICK k \in Key : InvUnder(k) /\ SameKeys(k)
  BY DEF PagerInv
<1>2. CASE UNCHANGED vars
  <2>1. UNCHANGED <<lockVars, files, jopen, pager, history>> /\ UNCHANGED <<rkey, wkey, jrnlOld>>
    BY <1>2 DEF vars, keys, files
  <2>2. InvUnder(k)'
    BY <1>1, <2>1, KeysChange DEF InvUnder, TypeOK
  <2>3. SameKeys(k)'
    BY <1>1, <2>1 DEF SameKeys, UnderKey
  <2> QED
    BY <2>2, <2>3 DEF PagerInv
<1>3. CASE PowerLoss
  <2>1. LosePower /\ UNCHANGED <<rkey, wkey>> /\ jrnlOld' = NoneOld
        /\ pager' = [c \in Conn |-> Fresh]
    BY <1>3 DEF PowerLoss, LosePower, keys
  <2>2. UnderKey(k, committed')
    BY <1>1, <2>1, PowerLossFiles DEF SameKeys, InvUnder, KeysOK
  <2>3. InvUnder(k)'
    BY <1>1, <2>1, <2>2, PowerLossOK DEF InvUnder, TypeOK
  <2>4. Fresh.cache[1] # Garbage
    BY SomeTypes, Marks DEF Fresh, Empty
  <2>5. SameKeys(k)'
    BY <1>1, <2>1, <2>4, NoneOldType DEF SameKeys, UnderKey
  <2> QED
    BY <2>3, <2>5 DEF PagerInv
<1>4. ASSUME NEW c \in Conn, Step(c) PROVE PagerInv'
  BY <1>1, <1>4, SameKeysStep DEF PagerInv
<1> QED
  BY <1>2, <1>3, <1>4 DEF Next

-----------------------------------------------------------------------------
(* A reader that has been exposed stays so.                                *)
LEMMA StepExposes ==
  ASSUME NEW c \in Conn, Call(c) \/ Continue(c) \/ Die(c), exposed
  PROVE  exposed'
<1> USE DEF history
<1>1. CASE Call(c)
  BY <1>1 DEF Call, SharedLock, EndRead, Begin, Commit, Rollback, Undo, Read, Write, Spill
<1>2. CASE Die(c)
  BY <1>2 DEF Die, Fault
<1>3. CASE HotExclusive(c) \/ LockExclusive(c) \/ EndTransaction(c)
  BY <1>3 DEF HotExclusive, LockExclusive, TakeRange, EndTransaction
<1>4. CASE Continue(c) /\ ~(HotExclusive(c) \/ LockExclusive(c) \/ EndTransaction(c))
  BY <1>4
  DEF Continue, HotExists, HotReserved, HotOpen, HotByte, HotLock, HotFailed,
      Recover, Replay, ReplaySync, Finalize, DeleteFails, Downgrade, Regain,
      Validate, Unlock, LockPending, LockUpgrade, Reread, Fault,
      JournalHeader, JournalSync, WriteDb, DbSync, FailedCommit, Undo, IoError
<1> QED
  BY <1>1, <1>2, <1>3, <1>4

LEMMA ExposedStays ==
  ASSUME [Next]_vars, exposed
  PROVE  exposed'
<1>1. CASE UNCHANGED vars
  BY <1>1 DEF vars, history
<1>2. CASE PowerLoss
  BY <1>2 DEF PowerLoss, LosePower
<1>3. ASSUME NEW c \in Conn, Step(c) PROVE exposed'
  BY <1>3, StepExposes DEF Step, Crash
<1> QED
  BY <1>1, <1>2, <1>3 DEF Next

(* On Unix nobody gives a lock up to ask for it again.                     *)
LEMMA NobodyExposed ==
  ASSUME Vfs = "unix", Control, ~exposed, NEW c \in Conn, Call(c) \/ Continue(c) \/ Die(c)
  PROVE  ~exposed'
<1> USE DEF history
<1>0. InPlace(c) /\ Locked(c)
  BY DEF Control
<1>1. CASE Call(c)
  BY <1>1 DEF Call, SharedLock, EndRead, Begin, Commit, Rollback, Undo, Read, Write, Spill
<1>2. CASE Die(c)
  BY <1>2 DEF Die, Fault
<1>3. CASE HotExclusive(c) \/ LockExclusive(c)
  BY <1>0, <1>3 DEF HotExclusive, LockExclusive, Locked, Gap
<1>4. CASE EndTransaction(c)
  <2>1. pager[c].at = "release"
    BY <1>4 DEF EndTransaction
  <2>2. excl # c
    BY <1>0, <2>1 DEF InPlace, Locked, NeedsRange
  <2>3. c \in shared
    BY <1>0, <2>1, <2>2 DEF Locked, Outside, MayLose
  <2> QED
    BY <1>4, <2>3 DEF EndTransaction
<1>5. CASE Continue(c) /\ ~(HotExclusive(c) \/ LockExclusive(c) \/ EndTransaction(c))
  BY <1>5
  DEF Continue, HotExists, HotReserved, HotOpen, HotByte, HotLock, HotFailed,
      Recover, Replay, ReplaySync, Finalize, DeleteFails, Downgrade, Regain,
      Validate, Unlock, LockPending, LockUpgrade, Reread, Fault,
      JournalHeader, JournalSync, WriteDb, DbSync, FailedCommit, Undo, IoError
<1> QED
  BY <1>1, <1>2, <1>3, <1>4, <1>5

(* The invariant holds in every state that Pager reaches, whatever the     *)
(* number of connections, pages and keys, of transactions and of faults,   *)
(* unless Windows has left a reader without its read lock.                 *)
THEOREM PagerInvariance == Spec => [](exposed \/ PagerInv)
<1> DEFINE IInv == exposed \/ PagerInv
<1>1. Init => IInv
  BY InitOK
<1>2. IInv /\ [Next]_vars => IInv'
  BY Inductive, ExposedStays
<1> QED
  BY <1>1, <1>2, PTL DEF Spec

(* That cannot happen where a lock is converted in one call: on Unix every *)
(* reader keeps its read lock, and what follows holds without exception.   *)
THEOREM UnixKeepsLocks ==
  ASSUME Vfs = "unix"
  PROVE  Spec => []~exposed
<1> DEFINE IInv == PagerInv /\ ~exposed
<1>1. Init => IInv
  BY InitOK DEF Init
<1>2. ASSUME IInv, [Next]_vars PROVE ~exposed'
  <2>1. CASE UNCHANGED vars
    BY <1>2, <2>1 DEF vars, history
  <2>2. CASE PowerLoss
    BY <1>2, <2>2 DEF PowerLoss, LosePower
  <2>3. ASSUME NEW c \in Conn, Step(c) PROVE ~exposed'
    <3>1. Control
      BY <1>2 DEF PagerInv, InvUnder
    <3> QED
      BY <1>2, <2>3, <3>1, NobodyExposed DEF Step, Crash
  <2> QED
    BY <1>2, <2>1, <2>2, <2>3 DEF Next
<1>3. IInv /\ [Next]_vars => IInv'
  BY <1>2, Inductive
<1> QED
  BY <1>1, <1>3, PTL DEF Spec

(* Every variable keeps its type: a connection never journals or commits   *)
(* a page that it cannot read.                                             *)
THEOREM PagerTypeCorrect == Spec => [](exposed \/ TypeOK)
<1>1. PagerInv => TypeOK
  BY DEF PagerInv, InvUnder
<1> QED
  BY <1>1, PagerInvariance, PTL

(* The invariant says what is left when the processes die.                 *)
LEMMA InvRecoverable ==
  ASSUME NEW k \in Key, InvUnder(k)
  PROVE  Recoverable
<1>2. /\ TypeOK /\ FilesOK /\ Restores(jrnl, committed) /\ jrnl \in Journal
      /\ db \in [Page -> Stored \cup {Absent, Torn}]
      /\ committed \in [Page -> Stored \cup {Absent}]
  BY DEF InvUnder, FilesOK, TypeOK
<1>3. CASE ~jrnl.magic
  <2>1. \A p \in Page : db[p] = committed[p]
    BY <1>2, <1>3 DEF Restores
  <2>2. Surviving = db
    BY <1>3 DEF Surviving
  <2> QED
    BY <1>2, <2>1, <2>2 DEF Recoverable
<1>4. CASE jrnl.magic
  <2>1. jrnl.orig # 0 /\ jrnl.exists /\ Sized(committed, jrnl.orig)
    BY <1>2, <1>4 DEF Restores
  <2> DEFINE image(p) == IF p > jrnl.orig THEN Absent
                         ELSE IF p \in Playable(jrnl) THEN jrnl.rec[p] ELSE db[p]
  <2>2. ASSUME NEW p \in Page
        PROVE  image(p) = committed[p]
    <3>0. p \in Nat /\ jrnl.orig \in Nat /\ p >= 1
      BY <1>2, PagerAssumption DEF Journal, Page
    <3>1. CASE p > jrnl.orig
      BY <2>1, <3>0, <3>1 DEF Sized
    <3>2. CASE p <= jrnl.orig /\ p \in Playable(jrnl)
      BY <1>2, <1>4, <2>1, <3>0, <3>2 DEF Restores, Playable, Records
    <3>3. CASE p <= jrnl.orig /\ p \notin Playable(jrnl)
      BY <1>2, <1>4, <2>1, <3>0, <3>3 DEF Restores, Playable, Records, Kept
    <3> QED
      BY <3>0, <3>1, <3>2, <3>3
  <2>3. Surviving = [p \in Page |-> image(p)]
    BY <1>4, <2>1 DEF Surviving
  <2> HIDE DEF image
  <2> QED
    BY <1>2, <2>2, <2>3 DEF Recoverable
<1> QED
  BY <1>3, <1>4

(* Atomic commit: whenever the processes die or the power fails, rolling   *)
(* the journal back gives exactly the database of the last commit.         *)
THEOREM AtomicCommit == Spec => []Recoverable
<1>1. exposed \/ PagerInv => Recoverable
  BY InvRecoverable DEF PagerInv, Recoverable
<1> QED
  BY <1>1, PagerInvariance, PTL

(* A page that is held is what the key of the database makes of it.        *)
LEMMA HeldIsRead ==
  ASSUME NEW k \in Key, InvUnder(k), NEW c \in Conn, NEW p \in Page, Holds(c, p, committed)
  PROVE  pager[c].cache[p] = Decrypt(k, committed[p])
<1>1. committed[p].key = k
  BY ActorFacts, Marks DEF Holds
<1> QED
  BY <1>1, HeldPage

(* It says what is in the caches of a transaction ...                      *)
LEMMA InvSnapshotReads ==
  ASSUME PagerInv
  PROVE  SnapshotReads
<1>1. PICK k \in Key : InvUnder(k) /\ SameKeys(k)
  BY DEF PagerInv
<1> SUFFICES ASSUME NEW c \in Conn,
                    pager[c].eState \in {"READER"} \cup Writer /\ pager[c].at # "unlock",
                    NEW p \in Page, pager[c].cache[p] # Absent
             PROVE  \/ pager[c].cache[p] = Decrypt(rkey[c], committed[p])
                    \/ /\ pager[c].eState \in Modified /\ pager[c].cache[p] # Garbage
                       /\ pager[c].cache[p].tid = pager[c].tid
  BY DEF SnapshotReads
<1>2. ConnOK(c) /\ rkey[c] = k /\ k \in Key /\ pager[c].cache[1] # Garbage
  BY <1>1, ActorFacts DEF SameKeys
<1>3. Holds(c, p, committed) => pager[c].cache[p] = Decrypt(rkey[c], committed[p])
  BY <1>1, <1>2, HeldIsRead
<1>4. CASE IsSettled(c)
  BY <1>2, <1>3, <1>4 DEF ConnOK, SettledOK, FirstPageFirst
<1>5. CASE IsChanging(c)
  <2>1. /\ pager[c].cache[p] \in Content /\ pager[c].eState \in Modified
        /\ Holds(c, p, committed) \/ pager[c].cache[p].tid = pager[c].tid
    BY <1>2, <1>5 DEF ConnOK, CachedOK, IsChanging
  <2> QED
    BY <1>3, <2>1, Marks
<1> QED
  BY <1>4, <1>5 DEF IsSettled, IsChanging, Writer, Modified

(* Isolation: during a transaction a connection has in its cache what was  *)
(* committed, or what it wrote itself.                                     *)
THEOREM Isolation == Spec => []SnapshotReads
<1>1. exposed \/ PagerInv => SnapshotReads
  BY InvSnapshotReads DEF SnapshotReads
<1> QED
  BY <1>1, PagerInvariance, PTL

(* ... and in those kept from an earlier one.                              *)
LEMMA InvVersionTellsContent ==
  ASSUME PagerInv
  PROVE  VersionTellsContent
<1>1. PICK k \in Key : InvUnder(k) /\ SameKeys(k)
  BY DEF PagerInv
<1> SUFFICES ASSUME NEW c \in Conn,
                    pager[c].eState \in {"OPEN", "READER"} /\ pager[c].at # "unlock",
                    pager[c].dbFileVers = Version(committed[1]),
                    NEW p \in Page, pager[c].cache[p] # Absent
             PROVE  pager[c].cache[p] = Decrypt(rkey[c], committed[p])
  BY DEF VersionTellsContent
<1>2. /\ ConnOK(c) /\ rkey[c] = k /\ k \in Key
      /\ Version(committed[1]).ctr = committed[1].ctr /\ pager[c].cache[1] # Garbage
  BY <1>1, ActorFacts, FirstPage DEF SameKeys
<1>3. Holds(c, p, committed)
  <2>1. CASE pager[c].eState = "OPEN"
    <3>1. pager[c].cache[1] # Absent /\ pager[c].dbFileVers.ctr = committed[1].ctr
      BY <1>2, <2>1 DEF ConnOK, StaleOK, FirstPageFirst
    <3> QED
      BY <1>2, <2>1, <3>1 DEF ConnOK, StaleOK, FirstPageFirst
  <2>2. CASE pager[c].eState = "READER"
    BY <1>2, <2>2 DEF ConnOK, SettledOK, IsSettled, FirstPageFirst
  <2> QED
    BY <2>1, <2>2
<1> QED
  BY <1>1, <1>2, <1>3, HeldIsRead

(* The bytes that a connection compares before it keeps its cache do tell  *)
(* whether the database has changed.                                       *)
THEOREM VersionIsEnough == Spec => []VersionTellsContent
<1>1. exposed \/ PagerInv => VersionTellsContent
  BY InvVersionTellsContent DEF VersionTellsContent
<1> QED
  BY <1>1, PagerInvariance, PTL

-----------------------------------------------------------------------------
(* A truncated journal cannot come back.                                   *)
LEMMA NoOldJournal ==
  ASSUME JournalMode = "truncate", jrnlOld = NoneOld, [Next]_vars
  PROVE  jrnlOld' = NoneOld
<1> USE DEF files
<1>1. CASE UNCHANGED vars
  BY <1>1 DEF vars
<1>2. CASE PowerLoss
  BY <1>2 DEF PowerLoss, LosePower
<1>3. ASSUME NEW c \in Conn, Step(c)
      PROVE  jrnlOld' = NoneOld
  <2>1. CASE Call(c)
    BY <2>1 DEF Call, SharedLock, EndRead, Begin, Commit, Rollback, Undo, Read, Write, Spill
  <2>2. CASE Crash(c)
    BY <2>2 DEF Crash, Die
  <2>3. CASE Finalize(c)
    BY <2>3 DEF Finalize, FinalizeJournal
  <2>4. CASE Continue(c) /\ ~Finalize(c)
    BY <2>4
    DEF Continue, HotExists, HotReserved, HotOpen, HotByte, HotLock, HotExclusive, HotFailed,
        Recover, Replay, ReplaySync, DeleteFails, Downgrade, Regain, EndTransaction,
        Validate, Unlock, LockPending, LockUpgrade, LockExclusive, Reread,
        JournalHeader, JournalSync, WriteDb, DbSync, FailedCommit, Undo, IoError
  <2> QED
    BY <1>3, <2>1, <2>2, <2>3, <2>4 DEF Step
<1> QED
  BY <1>1, <1>2, <1>3 DEF Next

(* Only a commit changes the committed database.                           *)
LEMMA CommittedChanges ==
  ASSUME JournalMode = "truncate", jrnlOld = NoneOld, [Next]_vars
  PROVE  \/ UNCHANGED committed
         \/ \E c \in Conn : pager[c].at = "finalize" /\ pager[c].goal = "commit"
<1> USE DEF history
<1>1. CASE UNCHANGED vars
  BY <1>1 DEF vars
<1>2. CASE PowerLoss
  BY <1>2 DEF PowerLoss, LosePower
<1>3. ASSUME NEW c \in Conn, Step(c)
      PROVE  UNCHANGED committed \/ (pager[c].at = "finalize" /\ pager[c].goal = "commit")
  <2>1. CASE Call(c)
    BY <2>1 DEF Call, SharedLock, EndRead, Begin, Commit, Rollback, Undo, Read, Write, Spill
  <2>2. CASE Crash(c)
    BY <2>2 DEF Crash, Die, Fault
  <2>3. CASE Finalize(c)
    BY <2>3 DEF Finalize
  <2>4. CASE Continue(c) /\ ~Finalize(c)
    BY <2>4
    DEF Continue, HotExists, HotReserved, HotOpen, HotByte, HotLock, HotExclusive, HotFailed,
        Recover, Replay, ReplaySync, DeleteFails, Downgrade, Regain, EndTransaction,
        Validate, Unlock, LockPending, LockUpgrade, LockExclusive, Reread, Fault,
        JournalHeader, JournalSync, WriteDb, DbSync, FailedCommit, Undo, IoError
  <2> QED
    BY <1>3, <2>1, <2>2, <2>3, <2>4 DEF Step
<1> QED
  BY <1>1, <1>2, <1>3 DEF Next

(* "Once this is done the transaction is irrevocably committed": true of a *)
(* journal that is truncated and synced.                                   *)
THEOREM CommitIrrevocable ==
  ASSUME JournalMode = "truncate"
  PROVE  Spec => Irrevocable
<1>1. Init => jrnlOld = NoneOld
  BY DEF Init
<1>2. jrnlOld = NoneOld /\ [Next]_vars => (jrnlOld = NoneOld)'
  BY NoOldJournal
<1>3. jrnlOld = NoneOld /\ [Next]_vars =>
        [committed' # committed =>
           \E c \in Conn : pager[c].at = "finalize" /\ pager[c].goal = "commit"]_vars
  BY CommittedChanges
<1> QED
  BY <1>1, <1>2, <1>3, PTL DEF Spec, Irrevocable

-----------------------------------------------------------------------------
(* The refinement.                                                         *)
HasBegun(c) == HasTransaction(c, {"READER"} \cup Writer)

Changes(c) == HasTransaction(c, Writer) /\ pager[c].at \notin {"downgrade", "regain", "release"}

(* The committed image is an image, the one that its key decrypts.         *)
LEMMA ImageType ==
  ASSUME committed \in [Page -> Stored \cup {Absent}]
  PROVE  /\ CommittedImage \in [Page -> Content \cup {Absent, Garbage}]
         /\ \A k \in Key : \A p \in Page :
              committed[p] # Absent /\ committed[p].key = k
              => CommittedImage[p] = Decrypt(k, committed[p])
<1>1. ASSUME NEW p \in Page, committed[p] # Absent
      PROVE  /\ Plain(committed[p].tid, committed[p].ctr) \in Content
             /\ Decrypt(committed[p].key, committed[p]) = Plain(committed[p].tid, committed[p].ctr)
  BY <1>1, Marks DEF Stored, Content, Plain, Decrypt
<1> QED
  BY <1>1 DEF CommittedImage

(* What a connection sees is the committed image, or nothing.              *)
LEMMA ViewIs ==
  ASSUME PagerInv, NEW c \in Conn
  PROVE  View(c) = IF HasBegun(c) THEN CommittedImage ELSE Absent
<1>1. PICK k \in Key : InvUnder(k) /\ SameKeys(k)
  BY DEF PagerInv
<1>2. /\ ConnOK(c) /\ rkey[c] = k /\ pager[c] \in PagerState /\ UnderKey(k, committed)
      /\ committed \in [Page -> Stored \cup {Absent}]
  BY <1>1, ActorFacts DEF InvUnder, TypeOK, KeysOK, SameKeys
<1>3. ASSUME HasTransaction(c, {"READER", "WRITER_LOCKED"})
      PROVE  Seen(c) = CommittedImage
  <2>1. /\ Clean /\ Sized(committed, pager[c].dbSize) /\ pager[c].dbSize \in Nat
        /\ \A p \in Page : pager[c].cache[p] # Absent => Holds(c, p, committed)
    <3>1. Clean /\ SettledOK(c) /\ IsSettled(c) /\ pager[c].dbSize \in Nat /\ pager[c].cache[1] # Garbage
      BY <1>1, <1>2, <1>3, PagerAssumption
      DEF HasTransaction, ConnOK, NeedsClean, IsSettled, PagerState, SameKeys
    <3> QED
      BY <3>1 DEF SettledOK, FirstPageFirst
  <2> DEFINE seen(p) == IF p > pager[c].dbSize THEN Absent
                        ELSE IF pager[c].cache[p] # Absent THEN pager[c].cache[p]
                        ELSE Decrypt(rkey[c], db[p])
  <2>2. ASSUME NEW p \in Page
        PROVE  seen(p) = CommittedImage[p]
    <3>0. p \in Nat
      BY DEF Page
    <3>1. CASE p > pager[c].dbSize
      BY <2>1, <3>0, <3>1 DEF Sized, CommittedImage
    <3>2. CASE p <= pager[c].dbSize
      <4>1. committed[p] # Absent /\ committed[p].key = k /\ db[p] = committed[p]
        BY <1>2, <2>1, <3>0, <3>2 DEF Sized, UnderKey, Clean
      <4>2. CommittedImage[p] = Decrypt(k, committed[p])
        BY <1>2, <4>1, ImageType
      <4>3. Holds(c, p, committed) => pager[c].cache[p] = Decrypt(k, committed[p])
        BY <1>1, HeldIsRead
      <4> QED
        BY <1>2, <2>1, <3>0, <3>2, <4>1, <4>2, <4>3
    <3> QED
      BY <2>1, <3>0, <3>1, <3>2
  <2>3. Seen(c) = [p \in Page |-> seen(p)]
    BY DEF Seen
  <2>4. CommittedImage = [p \in Page |-> CommittedImage[p]]
    BY DEF CommittedImage
  <2> HIDE DEF seen
  <2> QED
    BY <2>2, <2>3, <2>4
<1> QED
  BY <1>3 DEF View, HasBegun, HasTransaction, Writer, Modified

(* There is one writer, the one that holds the RESERVED lock.              *)
LEMMA WriterIs ==
  ASSUME PagerInv
  PROVE  Writing = IF reserved \in Conn /\ Changes(reserved) THEN {reserved} ELSE {}
<1>1. Control
  BY DEF PagerInv, InvUnder
<1> QED
  BY <1>1 DEF Control, Locked, Writing, Changes, HasTransaction

(* A transaction starts by reading.                                        *)
LEMMA StartsReading ==
  ASSUME PagerInv, NEW c \in Conn, Step(c), ~HasBegun(c)
  PROVE  pager'[c].eState \in {"OPEN", "READER"}
<1>1. PICK k \in Key : InvUnder(k)
  BY DEF PagerInv
<1>2. /\ InPlace(c) /\ pager[c] \in PagerState /\ pager \in [Conn -> PagerState] /\ TypeOK
  BY <1>1, ActorFacts DEF InvUnder
<1>3. pager[c].eState = "OPEN" \/ pager[c].at = "unlock"
  BY <1>2 DEF HasBegun, HasTransaction, Writer, Modified, PagerState, EState
<1> USE DEF Goto, Busy
<1>4. CASE Call(c)
  <2>1. SharedLock(c) /\ pager[c].eState = "OPEN"
    BY <1>3, <1>4
    DEF Call, SharedLock, EndRead, Begin, Commit, Rollback, Read, Write, Spill, Ready, Writer,
        Modified
  <2> QED
    BY <1>2, <2>1 DEF SharedLock
<1>5. CASE Crash(c)
  BY <1>2, <1>5 DEF Crash, Die, Fresh
<1>6. CASE Continue(c)
  <2>1. CASE Unlock(c)
    BY <1>2, <2>1 DEF Unlock, PagerUnlock, Fresh
  <2>2. pager[c].eState = "OPEN" \/ Unlock(c)
    BY <1>3, <1>6
    DEF Continue, HotExists, HotReserved, HotOpen, HotByte, HotLock, HotExclusive, HotFailed,
        Recover, Replay, ReplaySync, Finalize, DeleteFails, Downgrade, Regain, EndTransaction,
        Validate, LockPending, LockUpgrade, LockExclusive, Reread,
        JournalHeader, JournalSync, WriteDb, DbSync, FailedCommit, IoError
  <2>3. CASE pager[c].eState = "OPEN" /\ ~Unlock(c)
    <3>1. ~(LockPending(c) \/ LockUpgrade(c) \/ LockExclusive(c) \/ Reread(c) \/ JournalHeader(c)
            \/ JournalSync(c) \/ WriteDb(c) \/ DbSync(c) \/ FailedCommit(c))
      BY <1>2, <2>3
      DEF InPlace, LockPending, LockUpgrade, LockExclusive, Reread, JournalHeader,
          JournalSync, WriteDb, DbSync, FailedCommit
    <3>2. CASE HotExists(c) \/ HotReserved(c) \/ HotOpen(c) \/ HotByte(c) \/ HotLock(c) \/ HotExclusive(c)
               \/ HotFailed(c) \/ DeleteFails(c) \/ Downgrade(c) \/ Regain(c) \/ ReplaySync(c)
               \/ IoError(c) \/ Replay(c)
      <4>1. \/ \E at \in At : pager' = [pager EXCEPT ![c].at = at]
            \/ \E job : pager' = [pager EXCEPT ![c].job = job]
        BY <3>2
        DEF HotExists, HotReserved, HotOpen, HotByte, HotLock, HotExclusive, HotFailed, DeleteFails,
            Downgrade, Regain, ReplaySync, IoError, Replay, At
      <4>2. ASSUME NEW at \in At, pager' = [pager EXCEPT ![c].at = at]
            PROVE  pager'[c].eState = pager[c].eState
        BY <1>2, <4>2 DEF PagerState
      <4>3. ASSUME NEW job, pager' = [pager EXCEPT ![c].job = job]
            PROVE  pager'[c].eState = pager[c].eState
        BY <1>2, <4>3 DEF PagerState
      <4> QED
        BY <2>3, <4>1, <4>2, <4>3
    <3>3. CASE Recover(c) \/ Finalize(c) \/ Validate(c) \/ EndTransaction(c)
      BY <1>2, <2>3, <3>3, RecoverFields, FinalizeFields, ValidateFields, EndTransactionFields
      DEF Writer, Modified
    <3> QED
      BY <1>6, <2>3, <3>1, <3>2, <3>3 DEF Continue
  <2> QED
    BY <2>1, <2>2, <2>3
<1> QED
  BY <1>4, <1>5, <1>6 DEF Step

StoreWriter == IF Writing = {} THEN NoConn ELSE CHOOSE c \in Writing : TRUE

(* The writer of the abstract store.                                       *)
LEMMA WriterOf ==
  ASSUME PagerInv
  PROVE  /\ StoreWriter \in Conn \cup {NoConn}
         /\ \A c \in Conn : Changes(c) <=> StoreWriter = c
<1>1. CASE reserved \in Conn /\ Changes(reserved)
  <2>1. Writing = {reserved}
    BY <1>1, WriterIs
  <2>2. StoreWriter = reserved
    BY <2>1 DEF StoreWriter
  <2> QED
    BY <1>1, <2>1, <2>2 DEF Writing, Changes
<1>2. CASE ~(reserved \in Conn /\ Changes(reserved))
  <2>1. Writing = {}
    BY <1>2, WriterIs
  <2>2. StoreWriter = NoConn
    BY <2>1 DEF StoreWriter
  <2> QED
    BY <2>1, <2>2, NoConnAssumption DEF Writing, Changes
<1> QED
  BY <1>1, <1>2

(* Nobody else starts or ends anything.                                    *)
LEMMA OthersKeep ==
  ASSUME TypeOK, NEW c \in Conn, Step(c), NEW d \in Conn, d # c
  PROVE  (HasBegun(d)' <=> HasBegun(d)) /\ (Changes(d)' <=> Changes(d))
BY StepActs, OthersStay DEF HasBegun, Changes, HasTransaction

Views ==
  \A c \in Conn : View(c) = IF HasBegun(c) THEN CommittedImage ELSE Absent

OneWriter ==
  /\ StoreWriter \in Conn \cup {NoConn}
  /\ \A c \in Conn : Changes(c) <=> StoreWriter = c

(* What the abstract store makes of a state, and of the next one.          *)
LEMMA StoreIs == PagerInv => Views /\ OneWriter
BY ViewIs, WriterOf DEF Views, OneWriter

(* ... and so it does after the step.                                      *)
LEMMA StoreIsNext == PagerInv' => Views' /\ OneWriter'
BY StoreIs, PTL

(* A step of a connection, the commit apart, starts or ends its reading or *)
(* its writing, or nobody notices it.                                      *)
LEMMA QuietStep ==
  ASSUME PagerInv, PagerInv', NEW c \in Conn, Step(c), UNCHANGED committed
  PROVE  A!StoreNext \/ UNCHANGED A!storeVars
<1> DEFINE I  == CommittedImage
           V  == [d \in Conn |-> View(d)]
           W  == StoreWriter
<1>1. /\ \A d \in Conn : View(d) = IF HasBegun(d) THEN I ELSE Absent
      /\ \A d \in Conn : View(d)' = IF HasBegun(d)' THEN I' ELSE Absent
  BY StoreIs, StoreIsNext DEF Views
<1>2. I' = I
  BY DEF CommittedImage
<1>3. /\ W \in Conn \cup {NoConn} /\ W' \in Conn \cup {NoConn}
      /\ \A d \in Conn : Changes(d) <=> W = d
      /\ \A d \in Conn : Changes(d)' <=> W' = d
  BY StoreIs, StoreIsNext DEF OneWriter
<1>4. \A d \in Conn \ {c} : (HasBegun(d)' <=> HasBegun(d)) /\ (Changes(d)' <=> Changes(d))
  BY OthersKeep DEF PagerInv, InvUnder
<1>5. /\ Changes(c) => HasBegun(c)
      /\ Changes(c)' => HasBegun(c)'
  BY DEF Changes, HasBegun, HasTransaction
<1>6. ~HasBegun(c) => ~Changes(c)'
  BY StartsReading DEF Changes, HasTransaction, Writer, Modified
<1>7. /\ V = [d \in Conn |-> IF HasBegun(d) THEN I ELSE Absent]
      /\ V' = [d \in Conn |-> IF HasBegun(d)' THEN I ELSE Absent]
  BY <1>1, <1>2
<1>8. NoConn \notin Conn
  BY NoConnAssumption
<1> HIDE DEF I, V, W
<1>9. CASE ~HasBegun(c) /\ HasBegun(c)'
  <2>1. V[c] = Absent /\ V' = [V EXCEPT ![c] = I] /\ W' = W
    BY <1>3, <1>4, <1>5, <1>6, <1>7, <1>9
  <2>2. A!StartRead(c)
    BY <1>2, <2>1 DEF A!StartRead, I, V, W, StoreWriter
  <2> QED
    BY <2>2 DEF A!StoreNext
<1>10. CASE HasBegun(c) /\ ~HasBegun(c)'
  <2>1. /\ V' = [d \in Conn |-> IF d \in {c} THEN Absent ELSE V[d]]
        /\ W' = IF W \in {c} THEN NoConn ELSE W
    BY <1>3, <1>4, <1>5, <1>7, <1>8, <1>10
  <2>2. A!Stop({c})
    BY <1>2, <2>1 DEF A!Stop, I, V, W, StoreWriter
  <2> QED
    BY <2>2 DEF A!StoreNext
<1>11. CASE HasBegun(c) /\ HasBegun(c)' /\ ~Changes(c) /\ Changes(c)'
  <2>1. V[c] = I /\ V' = V /\ W = NoConn /\ W' = c
    BY <1>3, <1>4, <1>7, <1>8, <1>11
  <2>2. A!StartWrite(c)
    BY <1>2, <2>1 DEF A!StartWrite, I, V, W, StoreWriter
  <2> QED
    BY <2>2 DEF A!StoreNext
<1>12. CASE HasBegun(c) /\ HasBegun(c)' /\ Changes(c) /\ ~Changes(c)'
  <2>1. V' = V /\ W = c /\ W' = NoConn
    BY <1>3, <1>4, <1>7, <1>8, <1>12
  <2>2. A!Abandon(c)
    BY <1>2, <2>1 DEF A!Abandon, I, V, W, StoreWriter
  <2> QED
    BY <2>2 DEF A!StoreNext
<1>13. CASE (HasBegun(c) <=> HasBegun(c)') /\ (Changes(c) <=> Changes(c)')
  <2>1. V' = V /\ W' = W
    BY <1>3, <1>4, <1>7, <1>8, <1>13
  <2> QED
    BY <1>2, <2>1 DEF A!storeVars, I, V, W, StoreWriter
<1> QED
  BY <1>5, <1>6, <1>9, <1>10, <1>11, <1>12, <1>13

(* The commit replaces the database in one step, while nobody reads.       *)
LEMMA CommitStep ==
  ASSUME PagerInv, PagerInv', NEW c \in Conn, Step(c), Finalize(c), excl = c,
         pager[c].at = "finalize", pager[c].goal = "commit"
  PROVE  A!StoreNext
<1> DEFINE I  == CommittedImage
           V  == [d \in Conn |-> View(d)]
           W  == StoreWriter
<1>1. /\ \A d \in Conn : View(d) = IF HasBegun(d) THEN I ELSE Absent
      /\ \A d \in Conn : View(d)' = IF HasBegun(d)' THEN I' ELSE Absent
  BY StoreIs, StoreIsNext DEF Views
<1>2. I' \in [Page -> Content \cup {Absent, Garbage}]
  <2>1. committed' \in [Page -> Stored \cup {Absent}]
    BY DEF PagerInv, InvUnder, TypeOK
  <2>2. \A p \in Page : committed'[p] # Absent => Plain(committed'[p].tid, committed'[p].ctr) \in Content
    BY <2>1 DEF Stored, Content, Plain
  <2> QED
    BY <2>1, <2>2 DEF CommittedImage
<1>3. /\ \A d \in Conn : Changes(d) <=> W = d
      /\ \A d \in Conn : Changes(d)' <=> W' = d
      /\ W' \in Conn \cup {NoConn}
  BY StoreIs, StoreIsNext DEF OneWriter
<1>4. TypeOK /\ Control /\ InPlace(c) /\ pager[c] \in PagerState
  BY DEF PagerInv, InvUnder, Control, TypeOK
<1>5. \A d \in Conn \ {c} : ~HasBegun(d)
  <2>1. pager[c].eState \in Writer
    BY <1>4 DEF InPlace, Writer, Modified
  <2>2. \A d \in Conn \ {c} : Outside(d)
    BY <1>4, <2>1, WhileTaken
  <2> QED
    BY <2>2 DEF Outside, HasBegun, HasTransaction, Writer, Modified
<1>6. \A d \in Conn \ {c} : ~HasBegun(d)' /\ ~Changes(d)'
  BY <1>4, <1>5, OthersKeep DEF HasBegun, Changes, HasTransaction
<1>7. Changes(c) /\ ~Changes(c)' /\ HasBegun(c)'
  <2>1. pager[c].eState = "WRITER_FINISHED"
    BY <1>4 DEF InPlace
  <2> QED
    BY <1>4, <2>1, FinalizeFields DEF Changes, HasBegun, HasTransaction, Writer, Modified
<1>8. /\ V = [d \in Conn |-> IF HasBegun(d) THEN I ELSE Absent]
      /\ V' = [d \in Conn |-> IF HasBegun(d)' THEN I' ELSE Absent]
  BY <1>1
<1> HIDE DEF I, V, W
<1>9. /\ W = c /\ W' = NoConn /\ \A d \in Conn \ {c} : V[d] = Absent
      /\ V' = [V EXCEPT ![c] = I']
  BY <1>3, <1>5, <1>6, <1>7, <1>8
<1>10. A!Replace(c)
  BY <1>2, <1>9 DEF A!Replace, I, V, W, StoreWriter
<1> QED
  BY <1>10 DEF A!StoreNext

(* A power failure ends every transaction.                                 *)
LEMMA PowerLossStop ==
  ASSUME PagerInv, PagerInv', PowerLoss, UNCHANGED committed
  PROVE  A!StoreNext
<1> DEFINE I  == CommittedImage
           V  == [d \in Conn |-> View(d)]
           W  == StoreWriter
<1>1. \A d \in Conn : View(d)' = IF HasBegun(d)' THEN I' ELSE Absent
  BY StoreIsNext DEF Views
<1>2. I' = I
  BY DEF CommittedImage
<1>3. /\ \A d \in Conn : Changes(d)' <=> W' = d
      /\ W \in Conn \cup {NoConn} /\ W' \in Conn \cup {NoConn}
  BY StoreIs, StoreIsNext DEF OneWriter
<1>4. pager' = [d \in Conn |-> Fresh]
  BY DEF PowerLoss, LosePower
<1>5. \A d \in Conn : ~HasBegun(d)' /\ ~Changes(d)'
  BY <1>4 DEF HasBegun, Changes, HasTransaction, Fresh, Writer, Modified
<1>6. V' = [d \in Conn |-> IF d \in Conn THEN Absent ELSE V[d]]
  BY <1>1, <1>5
<1> HIDE DEF I, V, W
<1>7. W' = IF W \in Conn THEN NoConn ELSE W
  BY <1>3, <1>5
<1>8. A!Stop(Conn)
  BY <1>2, <1>6, <1>7 DEF A!Stop, I, V, W, StoreWriter
<1> QED
  BY <1>8 DEF A!StoreNext

(* The initial states map to initial states.                               *)
LEMMA StoreStart ==
  ASSUME Init, PagerInv
  PROVE  A!StoreInit
<1> DEFINE I  == CommittedImage
           V  == [d \in Conn |-> View(d)]
           W  == StoreWriter
<1>1. I \in [Page -> Content \cup {Absent, Garbage}]
  BY ImageType DEF PagerInv, InvUnder, TypeOK
<1>2. \A d \in Conn : View(d) = IF HasBegun(d) THEN I ELSE Absent
  BY StoreIs DEF Views
<1>3. W \in Conn \cup {NoConn} /\ \A d \in Conn : Changes(d) <=> W = d
  BY StoreIs DEF OneWriter
<1>4. \A d \in Conn : ~HasBegun(d) /\ ~Changes(d)
  BY DEF Init, HasBegun, Changes, HasTransaction, Fresh, Writer, Modified
<1>5. V = [d \in Conn |-> Absent]
  BY <1>2, <1>4
<1> HIDE DEF I, V, W
<1>6. W = NoConn
  BY <1>3, <1>4
<1> QED
  BY <1>1, <1>5, <1>6 DEF A!StoreInit, I, V, W, StoreWriter

(* Nothing happens to the store when nothing happens to the pager.         *)
LEMMA StoreStutter ==
  ASSUME UNCHANGED vars
  PROVE  UNCHANGED A!storeVars
BY DEF vars, lockVars, files, keys, history, A!storeVars, CommittedImage, View, HasTransaction,
       Seen, Writing

(* With a journal that is truncated and synced the pager is an atomic      *)
(* store: each transaction sees one committed image, commits are single    *)
(* steps that nobody watches, and no fault takes one back.                 *)
THEOREM PagerIsAtomicStore ==
  ASSUME JournalMode = "truncate"
  PROVE  Spec => StoreSpec
<1> DEFINE IInv == (exposed \/ PagerInv) /\ jrnlOld = NoneOld
<1>1. Init => IInv /\ A!StoreInit
  BY InitOK, StoreStart DEF Init
<1>2. IInv /\ [Next]_vars => IInv'
  BY Inductive, ExposedStays, NoOldJournal
<1>3. IInv /\ IInv' /\ [Next]_vars => [exposed' \/ A!StoreNext]_(A!storeVars)
  <2> SUFFICES ASSUME IInv, IInv', [Next]_vars, ~exposed'
               PROVE  A!StoreNext \/ UNCHANGED A!storeVars
    OBVIOUS
  <2>0. PagerInv /\ PagerInv'
    BY ExposedStays
  <2>1. CASE UNCHANGED vars
    BY <2>1, StoreStutter
  <2>2. CASE PowerLoss
    <3>1. UNCHANGED committed
      BY <2>2 DEF PowerLoss, LosePower
    <3> QED
      BY <2>0, <2>2, <3>1, PowerLossStop
  <2>3. ASSUME NEW c \in Conn, Step(c)
        PROVE  A!StoreNext \/ UNCHANGED A!storeVars
    <3>1. TypeOK /\ Control
      BY <2>0 DEF PagerInv, InvUnder
    <3>2. \/ UNCHANGED committed
          \/ /\ Finalize(c) /\ excl = c
             /\ pager[c].at = "finalize" /\ pager[c].goal = "commit"
      BY <2>3, <3>1, StepActs, FileAccess
    <3> QED
      BY <2>0, <2>3, <3>2, QuietStep, CommitStep
  <2> QED
    BY <2>1, <2>2, <2>3 DEF Next
<1> QED
  BY <1>1, <1>2, <1>3, PTL DEF Spec, StoreSpec

=============================================================================
