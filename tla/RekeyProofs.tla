---------------------------- MODULE RekeyProofs -----------------------------
(***************************************************************************)
(* The invariant of Rekey: a rekey that no other thread disturbs leaves    *)
(* the database under one key and its connection with that key, whatever   *)
(* fails in the middle.  A step of the pager keeps the pager's invariant   *)
(* (StepOK), if KeysFit; the stages of the rekey are why it does.          *)
(***************************************************************************)
EXTENDS RekeyInvariant, PagerProofs

-----------------------------------------------------------------------------
(* The codec.  Preparing it changes the key that is written with, and      *)
(* settling it makes both keys the new one, or the old one.                *)
CodecState ==
  [attached : BOOLEAN, isEncrypted : BOOLEAN, hasReadKey : BOOLEAN,
   hasWriteKey : BOOLEAN, readKey : Key, writeKey : Key]

(* A codec with one key.                                                   *)
LEMMA KeyedType ==
  ASSUME NEW k \in Key
  PROVE  Keyed(k) \in CodecState /\ ReadKey(Keyed(k)) = k /\ WriteKey(Keyed(k)) = k
BY RekeyAssumption DEF Keyed, NoCodec, CodecState, ReadKey, WriteKey

(* A codec with a key to write with besides the one that it reads with.    *)
LEMMA PreparedFields ==
  ASSUME NEW k \in Key, NEW w \in Key, w # NoKey, NEW x, x = Prepared(Keyed(k), w)
  PROVE  /\ x \in CodecState /\ x.attached /\ x.isEncrypted /\ x.hasWriteKey /\ x.writeKey = w
         /\ x.hasReadKey <=> k # NoKey
         /\ x.readKey = k
<1>1. CASE k = NoKey
  BY <1>1, RekeyAssumption DEF Prepared, Keyed, NoCodec, CodecState
<1>2. CASE k # NoKey
  <2>1. PICK y : y = Keyed(k)
    OBVIOUS
  <2>2. y \in CodecState /\ y.attached /\ y.isEncrypted /\ y.hasReadKey /\ y.readKey = k
    BY <1>2, <2>1 DEF Keyed, CodecState
  <2>3. x = [y EXCEPT !.hasWriteKey = TRUE, !.writeKey = w]
    BY <2>1, <2>2 DEF Prepared
  <2>4. x \in CodecState /\ x.writeKey = w /\ x.readKey = k
    BY <2>2, <2>3 DEF CodecState
  <2>5. x.attached /\ x.isEncrypted /\ x.hasWriteKey /\ x.hasReadKey
    BY <2>2, <2>3 DEF CodecState
  <2> QED
    BY <1>2, <2>4, <2>5
<1> QED
  BY <1>1, <1>2

(* ... is a codec, and its flags select these two keys.                    *)
LEMMA PreparedType ==
  ASSUME NEW k \in Key, NEW w \in Key, w # NoKey
  PROVE  /\ Prepared(Keyed(k), w) \in CodecState
         /\ ReadKey(Prepared(Keyed(k), w)) = k /\ WriteKey(Prepared(Keyed(k), w)) = w
BY PreparedFields DEF ReadKey, WriteKey

(* Codecs are equal if their fields are.                                   *)
LEMMA SameCodec ==
  ASSUME NEW x \in CodecState, NEW y \in CodecState,
         x.attached = y.attached, x.isEncrypted = y.isEncrypted, x.hasReadKey = y.hasReadKey,
         x.hasWriteKey = y.hasWriteKey, x.readKey = y.readKey, x.writeKey = y.writeKey
  PROVE  x = y
BY DEF CodecState

(* A codec that reads and writes with one key is the one for that key.     *)
LEMMA KeyedFields ==
  ASSUME NEW k \in Key, k # NoKey, NEW y \in CodecState, y.attached, y.isEncrypted,
         y.hasReadKey, y.hasWriteKey, y.readKey = k, y.writeKey = k
  PROVE  y = Keyed(k)
<1>1. PICK z : z = Keyed(k)
  OBVIOUS
<1>2. z \in CodecState
  BY <1>1 DEF CodecState, Keyed
<1>3. /\ z.attached /\ z.isEncrypted /\ z.hasReadKey /\ z.hasWriteKey
      /\ z.readKey = k /\ z.writeKey = k
  BY <1>1 DEF Keyed
<1> QED
  BY <1>1, <1>2, <1>3, SameCodec DEF CodecState

(* Settling gives both flags the key that won: the new one or the old one. *)
LEMMA SettledKeys ==
  ASSUME NEW k \in Key, NEW w \in Key, w # NoKey
  PROVE  /\ Settled(Prepared(Keyed(k), w), TRUE) = Keyed(w)
         /\ Settled(Prepared(Keyed(k), w), FALSE) = Keyed(k)
<1>0. PICK x : x = Prepared(Keyed(k), w)
  OBVIOUS
<1>x. /\ x \in CodecState /\ x.attached /\ x.isEncrypted /\ x.hasWriteKey /\ x.writeKey = w
      /\ x.hasReadKey <=> k # NoKey
      /\ x.readKey = k
  BY <1>0, PreparedFields
<1>1. Settled(x, TRUE) = Keyed(w)
  <2>1. PICK y : y = [x EXCEPT !.readKey = x.writeKey, !.hasReadKey = TRUE]
    OBVIOUS
  <2>2. y \in CodecState
    BY <1>x, <2>1 DEF CodecState
  <2>3. /\ y.attached /\ y.isEncrypted /\ y.hasReadKey /\ y.hasWriteKey
        /\ y.readKey = w /\ y.writeKey = w
    BY <1>x, <2>1 DEF CodecState
  <2>4. Settled(x, TRUE) = y
    BY <1>x, <2>1, <2>3 DEF Settled
  <2> QED
    BY <2>2, <2>3, <2>4, KeyedFields
<1>2. CASE k = NoKey
  <2>1. PICK y : y = [x EXCEPT !.isEncrypted = FALSE]
    OBVIOUS
  <2>2. ~y.isEncrypted
    BY <1>x, <2>1 DEF CodecState
  <2>3. Settled(x, FALSE) = NoCodec
    BY <1>x, <1>2, <2>1, <2>2 DEF Settled
  <2> QED
    BY <1>0, <1>1, <1>2, <2>3 DEF Keyed
<1>3. CASE k # NoKey
  <2>1. PICK y : y = [x EXCEPT !.writeKey = x.readKey]
    OBVIOUS
  <2>2. y \in CodecState
    BY <1>x, <2>1 DEF CodecState
  <2>3. /\ y.attached /\ y.isEncrypted /\ y.hasReadKey /\ y.hasWriteKey
        /\ y.readKey = k /\ y.writeKey = k
    BY <1>x, <1>3, <2>1 DEF CodecState
  <2>4. Settled(x, FALSE) = y
    BY <1>x, <1>3, <2>1, <2>3 DEF Settled
  <2> QED
    BY <1>0, <1>1, <1>3, <2>2, <2>3, <2>4, KeyedFields
<1> QED
  BY <1>2, <1>3

-----------------------------------------------------------------------------
(* What a call that goes on makes of the state of its connection.          *)
LEMMA GotoFields ==
  ASSUME TypeOK, NEW c \in Conn, NEW at, Goto(c, at)
  PROVE  /\ pager'[c].at = at
         /\ pager'[c].eState = pager[c].eState /\ pager'[c].goal = pager[c].goal
         /\ pager'[c].cache = pager[c].cache /\ pager'[c].dirty = pager[c].dirty
BY DEF Goto, TypeOK, PagerState

(* What a call that finds the database locked leaves of it.                *)
LEMMA BusyFields ==
  ASSUME TypeOK, NEW c \in Conn, Busy(c)
  PROVE  /\ pager'[c].at = "idle"
         /\ pager'[c].eState = pager[c].eState /\ pager'[c].goal = "none"
         /\ pager'[c].cache = pager[c].cache /\ pager'[c].dirty = pager[c].dirty
BY DEF Busy, TypeOK, PagerState

(* Where a call that goes on may get: out of the transaction, or on in it. *)
LEMMA ContinueMoves ==
  ASSUME NEW k \in Key, InvUnder(k), NEW c \in Conn, Continue(c)
  PROVE  /\ pager[c].at # "idle"
         /\ \/ /\ pager'[c].eState \in {"OPEN", "READER"}
               /\ pager[c].eState \notin Writer \/ pager'[c].at = "idle"
            \/ /\ pager[c].eState \in Modified /\ pager'[c].eState \in Modified
               /\ pager[c].at # "unlock"
               /\ \/ pager'[c].goal = pager[c].goal
                  \/ pager'[c].goal = "none" /\ pager'[c].at = "idle"
                  \/ pager[c].at = "failed" /\ pager'[c].goal = "rollback"
<1> DEFINE r == pager[c]
<1>0. /\ TypeOK /\ InPlace(c) /\ pager \in [Conn -> PagerState] /\ r \in PagerState
  BY ActorFacts DEF InvUnder
<1>1. r.at # "idle"
  BY DEF Continue, HotExists, HotReserved, HotOpen, HotByte, HotLock, HotExclusive, HotFailed,
     Recover, Replay, ReplaySync, Finalize, DeleteFails, Downgrade, Regain, EndTransaction,
     Validate, Unlock, LockPending, LockUpgrade, LockExclusive, Reread,
     JournalHeader, JournalSync, WriteDb, DbSync, FailedCommit, IoError
<1>2. CASE \/ HotExists(c) \/ HotReserved(c) \/ HotOpen(c) \/ HotByte(c) \/ HotLock(c)
           \/ HotExclusive(c) \/ HotFailed(c) \/ ReplaySync(c) \/ DeleteFails(c)
           \/ Downgrade(c) \/ Regain(c) \/ JournalHeader(c) \/ IoError(c)
  <2>1. r.at \notin {"idle", "release", "unlock"}
        /\ \E at \in At : pager' = [pager EXCEPT ![c] = [r EXCEPT !.at = at]]
    BY <1>2 DEF HotExists, HotReserved, HotOpen, HotByte, HotLock, HotExclusive, HotFailed,
       ReplaySync, DeleteFails, Downgrade, Regain, JournalHeader, IoError, Goto, At
  <2>2. pager'[c].eState = r.eState /\ pager'[c].goal = r.goal
    BY <1>0, <2>1 DEF PagerState
  <2>3. r.eState = "OPEN" \/ r.eState \in Modified
    BY <1>0, <2>1 DEF InPlace, PagerState, EState, Modified
  <2> QED
    BY <1>1, <2>1, <2>2, <2>3 DEF Writer, Modified
<1>3. CASE LockPending(c) \/ LockUpgrade(c) \/ LockExclusive(c) \/ Reread(c)
  <2>1. r.at \in {"pending", "upgrade", "exclusive", "reread"}
        /\ ((\E at \in At : Goto(c, at)) \/ Busy(c))
    BY <1>3 DEF LockPending, LockUpgrade, LockExclusive, Reread, At
  <2>2. pager'[c].eState = r.eState
        /\ (pager'[c].goal = r.goal \/ (pager'[c].goal = "none" /\ pager'[c].at = "idle"))
    BY <1>0, <2>1, GotoFields, BusyFields
  <2>3. r.eState \in Modified
    BY <1>0, <2>1 DEF InPlace, Modified
  <2> QED
    BY <1>1, <2>1, <2>2, <2>3 DEF Writer, Modified
<1>4. CASE Recover(c) \/ Replay(c)
  <2>1. r.at \in {"recover", "replay"} /\ pager'[c].eState = r.eState
    BY <1>0, <1>4 DEF Recover, Replay, PagerState
  <2>2. Replay(c) => pager'[c].goal = r.goal
    BY <1>0 DEF Replay, PagerState
  <2>3. Recover(c) => r.eState = "OPEN"
    BY <1>0 DEF Recover, InPlace
  <2>4. r.eState \in {"OPEN", "WRITER_DBMOD"}
    BY <1>0, <2>1 DEF InPlace
  <2> QED
    BY <1>1, <1>4, <2>1, <2>2, <2>3, <2>4 DEF Writer, Modified
<1>5. CASE Finalize(c)
  <2>1. r.at = "finalize" /\ pager'[c].eState = r.eState /\ pager'[c].goal = r.goal
    BY <1>0, <1>5 DEF Finalize, PagerState
  <2>2. r.eState = "OPEN" \/ r.eState \in Modified
    BY <1>0, <2>1 DEF InPlace, Modified
  <2> QED
    BY <1>1, <2>1, <2>2 DEF Writer, Modified
<1>6. CASE EndTransaction(c) \/ Validate(c) \/ Unlock(c)
  <2>1. CASE EndTransaction(c)
    <3>1. pager'[c].eState = IF r.eState \in Writer THEN "READER" ELSE r.eState
      BY <1>0, <2>1 DEF EndTransaction, PagerState
    <3>2. r.eState \in Writer => pager'[c].at = "idle"
      BY <1>0, <2>1 DEF EndTransaction, PagerState, InPlace, Writer, Modified
    <3> QED
      BY <1>0, <1>1, <3>1, <3>2 DEF PagerState, EState, Writer, Modified
  <2>2. CASE Validate(c)
    <3>1. pager'[c].eState = "READER" /\ pager'[c].at = "idle"
      BY <1>0, <2>2 DEF Validate, PagerState
    <3> QED
      BY <1>1, <3>1
  <2>3. CASE Unlock(c)
    <3>1. pager'[c].eState = "OPEN" /\ pager'[c].at = "idle"
      BY <1>0, <2>3 DEF Unlock, PagerUnlock, Fresh
    <3> QED
      BY <1>1, <3>1
  <2> QED
    BY <1>6, <2>1, <2>2, <2>3
<1>7. CASE JournalSync(c) \/ DbSync(c)
  <2>1. r.at \in {"sync", "write"} /\ pager'[c].eState \in Modified /\ pager'[c].goal = r.goal
    BY <1>0, <1>7 DEF JournalSync, DbSync, PagerState, Modified
  <2>2. r.eState \in Modified
    BY <1>0, <2>1 DEF InPlace, Modified
  <2> QED
    BY <1>1, <2>1, <2>2
<1>8. CASE WriteDb(c)
  <2>1. r.at = "write" /\ pager'[c].eState = r.eState
        /\ (pager'[c].goal = r.goal \/ (pager'[c].goal = "none" /\ pager'[c].at = "idle"))
    <3>1. \A p : p = Min(r.job) => pager'[c].eState = r.eState
            /\ (pager'[c].goal = r.goal \/ (pager'[c].goal = "none" /\ pager'[c].at = "idle"))
      BY <1>0, <1>8, WriteDbFields
    <3> QED
      BY <1>8, <3>1 DEF WriteDb
  <2>2. r.eState \in Modified
    BY <1>0, <2>1 DEF InPlace, Modified
  <2> QED
    BY <1>1, <2>1, <2>2
<1>9. CASE FailedCommit(c)
  <2>1. r.at = "failed" /\ r.eState \in {"WRITER_CACHEMOD", "WRITER_DBMOD"}
    BY <1>0, <1>9 DEF FailedCommit, InPlace
  <2>2. pager'[c].eState = r.eState /\ pager'[c].goal = "rollback"
    BY <1>0, <1>9, <2>1, UndoFields DEF FailedCommit
  <2> QED
    BY <1>1, <2>1, <2>2 DEF Modified
<1> QED
  BY <1>2, <1>3, <1>4, <1>5, <1>6, <1>7, <1>8, <1>9 DEF Continue

(* A spill writes one of the dirty pages, under the new key.               *)
LEMMA SpillMoves ==
  ASSUME NEW k \in Key, InvUnder(k), NEW c \in Conn, Continue(c),
         pager[c].eState \in Modified, pager[c].goal = "spill", pager[c].at # "unlock"
  PROVE  /\ UNCHANGED committed /\ pager'[c].eState \in Modified
         /\ pager'[c].goal = "spill" \/ pager'[c].at = "idle"
         /\ \A p \in Page : pager'[c].cache[p] \in {pager[c].cache[p], Absent}
         /\ \/ pager'[c].at = "unlock"
            \/ UNCHANGED db /\ pager'[c].dirty = pager[c].dirty
            \/ \E p \in pager[c].dirty :
                 /\ pager'[c].dirty = pager[c].dirty \ {p}
                 /\ db'[p] \in Stored /\ db'[p].key = wkey[c]
                 /\ \A q \in Page \ {p} : db'[q] = db[q]
<1> DEFINE r == pager[c]
<1>0. /\ TypeOK /\ InPlace(c) /\ pager \in [Conn -> PagerState] /\ r \in PagerState
      /\ ConnOK(c) /\ wkey[c] \in Key
  BY ActorFacts DEF InvUnder
<1>1. r.at \in {"pending", "upgrade", "exclusive", "reread", "header", "sync", "write"}
  BY <1>0, ContinueMoves DEF InPlace, PagerState, At, Modified
<1>2. CASE \/ LockPending(c) \/ LockUpgrade(c) \/ LockExclusive(c) \/ Reread(c)
           \/ JournalHeader(c)
  <2>1. (\E at \in At : Goto(c, at)) \/ Busy(c)
    BY <1>2 DEF LockPending, LockUpgrade, LockExclusive, Reread, JournalHeader, At
  <2>3. UNCHANGED <<db, committed>>
    BY <1>2 DEF LockPending, LockUpgrade, LockExclusive, Reread, JournalHeader, files, history
  <2>2. /\ pager'[c].cache = r.cache /\ pager'[c].dirty = r.dirty
        /\ pager'[c].eState = r.eState /\ (pager'[c].goal = r.goal \/ pager'[c].at = "idle")
    BY <1>0, <2>1, GotoFields, BusyFields
  <2> QED
    BY <2>2, <2>3
<1>3. CASE IoError(c)
  <2>1. UNCHANGED committed /\ Goto(c, "unlock")
    BY <1>3 DEF IoError, Fault
  <2>2. /\ pager'[c].cache = r.cache /\ pager'[c].at = "unlock"
        /\ pager'[c].eState = r.eState /\ pager'[c].goal = r.goal
    BY <1>0, <2>1, GotoFields
  <2> QED
    BY <2>1, <2>2
<1>4. CASE JournalSync(c)
  <2>1. /\ UNCHANGED <<db, committed>> /\ pager'[c].cache = r.cache
        /\ pager'[c].dirty = r.dirty /\ pager'[c].eState \in Modified /\ pager'[c].goal = r.goal
    BY <1>0, <1>4 DEF JournalSync, PagerState, Modified, history
  <2> QED
    BY <2>1
<1>5. CASE WriteDb(c)
  <2> DEFINE p == Min(r.job)
  <2>1. r.at = "write" /\ r.job # {} /\ r.job \subseteq Page
    BY <1>0, <1>5 DEF WriteDb, PagerState
  <2>2. p \in r.job /\ p \in Page
    BY <2>1, SmallestPage
  <2>3. p \in r.dirty /\ r.cache[p] \in Content
    BY <1>0, <2>1, <2>2 DEF ConnOK, CommitOK, CachedOK, IsChanging, Ended
  <2>4. db' = [db EXCEPT ![p] = Encrypt(wkey[c], r.cache[p])] /\ UNCHANGED committed
    BY <1>5 DEF WriteDb, Store, history
  <2>5. Encrypt(wkey[c], r.cache[p]) \in Stored /\ Encrypt(wkey[c], r.cache[p]).key = wkey[c]
    BY <1>0, <2>3, EncryptType
  <2>6. /\ pager'[c].cache = [r.cache EXCEPT ![p] = Absent]
        /\ pager'[c].dirty = r.dirty \ {p}
        /\ pager'[c].eState = r.eState /\ pager'[c].at = "idle"
    BY <1>0, <1>5, WriteDbFields
  <2>7. db \in [Page -> Stored \cup {Absent, Torn}]
        /\ r.cache \in [Page -> Content \cup {Absent, Garbage}]
    BY <1>0 DEF TypeOK, PagerState
  <2> HIDE DEF p
  <2>8. /\ db'[p] \in Stored /\ db'[p].key = wkey[c]
        /\ \A q \in Page \ {p} : db'[q] = db[q]
    BY <2>2, <2>4, <2>5, <2>7
  <2>9. \A q \in Page : pager'[c].cache[q] \in {r.cache[q], Absent}
    BY <2>6, <2>7
  <2> QED
    BY <2>3, <2>4, <2>6, <2>8, <2>9
<1>6. \/ LockPending(c) \/ LockUpgrade(c) \/ LockExclusive(c) \/ Reread(c)
      \/ JournalHeader(c) \/ IoError(c) \/ JournalSync(c) \/ WriteDb(c)
  BY <1>1
  DEF Continue, HotExists, HotReserved, HotOpen, HotByte, HotLock, HotExclusive, HotFailed,
      Recover, Replay, ReplaySync, Finalize, DeleteFails, Downgrade, Regain, EndTransaction,
      Validate, Unlock, DbSync, FailedCommit
<1> QED
  BY <1>2, <1>3, <1>4, <1>5, <1>6

(* The rest of a commit: it becomes the committed content when the journal *)
(* is finalized, and the transaction then ends.                            *)
LEMMA CommitMoves ==
  ASSUME NEW k \in Key, InvUnder(k), NEW c \in Conn, Continue(c),
         pager[c].eState \in Modified, pager[c].goal = "commit", pager[c].at # "failed"
  PROVE  \/ /\ UNCHANGED committed /\ ~Ended(c)
            /\ pager'[c].at \notin {"downgrade", "regain", "release"}
            /\ pager'[c].eState # "READER"
         \/ /\ UNCHANGED committed /\ Ended(c)
            /\ \/ pager'[c].at \in {"downgrade", "regain", "release", "unlock"}
               \/ pager'[c].eState = "READER"
         \/ /\ UnderKey(wkey[c], committed') /\ pager'[c].eState # "OPEN"
            /\ pager'[c].at \in {"downgrade", "regain", "release"}
<1> DEFINE r == pager[c]
<1>0. /\ TypeOK /\ InPlace(c) /\ pager \in [Conn -> PagerState] /\ r \in PagerState
      /\ ConnOK(c) /\ Locked(c)
  BY ActorFacts DEF InvUnder
<1>1. r.at \in {"pending", "upgrade", "exclusive", "reread", "header", "sync", "write",
                "finalize", "downgrade", "regain", "release", "unlock"}
  BY <1>0, ContinueMoves DEF InPlace, PagerState, At, Modified
<1>2. CASE \/ LockPending(c) \/ LockUpgrade(c) \/ LockExclusive(c) \/ Reread(c)
           \/ JournalHeader(c) \/ IoError(c) \/ DeleteFails(c)
  <2>1. /\ UNCHANGED committed /\ r.at \notin {"downgrade", "regain", "release"}
        /\ ((\E at \in At \ {"downgrade", "regain", "release"} : Goto(c, at)) \/ Busy(c))
    BY <1>2 DEF LockPending, LockUpgrade, LockExclusive, Reread, JournalHeader, IoError,
       DeleteFails, At, Fault, history
  <2>2. pager'[c].eState = r.eState /\ pager'[c].at \notin {"downgrade", "regain", "release"}
    BY <1>0, <2>1, GotoFields, BusyFields
  <2> QED
    BY <2>1, <2>2 DEF Ended, Modified
<1>3. CASE JournalSync(c) \/ DbSync(c)
  <2>1. /\ UNCHANGED committed /\ r.at \in {"sync", "write"}
        /\ pager'[c].at \in {"write", "finalize"} /\ pager'[c].eState \in Modified
    BY <1>0, <1>3 DEF JournalSync, DbSync, PagerState, Modified, history
  <2> QED
    BY <2>1 DEF Ended, Modified
<1>4. CASE WriteDb(c)
  <2>0. \A p : p = Min(r.job) => pager'[c].at = r.at /\ pager'[c].eState = r.eState
    BY <1>0, <1>4, WriteDbFields
  <2>1. UNCHANGED committed /\ r.at = "write" /\ pager'[c].at = r.at
        /\ pager'[c].eState = r.eState
    BY <1>4, <2>0 DEF WriteDb, history
  <2> QED
    BY <2>1 DEF Ended, Modified
<1>5. CASE Finalize(c)
  <2>1. /\ r.at = "finalize" /\ committed' = db /\ pager'[c].eState = r.eState
        /\ pager'[c].at \in {"downgrade", "release"}
    BY <1>0, <1>5 DEF Finalize, PagerState
  <2>2. UnderKey(wkey[c], db)
    BY <1>0, <2>1 DEF InPlace, ConnOK, CommitOK, IsChanging, Ended, Modified
  <2> QED
    BY <2>1, <2>2 DEF Modified, UnderKey
<1>6. CASE Downgrade(c) \/ Regain(c)
  <2>1. /\ UNCHANGED committed /\ r.at \in {"downgrade", "regain"}
        /\ pager'[c].at \in {"regain", "release", "unlock"}
    BY <1>0, <1>6 DEF Downgrade, Regain, Goto, PagerState, history
  <2> QED
    BY <2>1 DEF Ended
<1>7. CASE EndTransaction(c)
  <2>1. UNCHANGED committed /\ r.at = "release" /\ pager'[c].eState = "READER"
    BY <1>0, <1>7 DEF EndTransaction, PagerState, Writer, history
  <2> QED
    BY <2>1 DEF Ended
<1>8. CASE Unlock(c)
  <2>1. /\ UNCHANGED committed /\ r.at = "unlock" /\ pager'[c].at = "idle"
        /\ pager'[c].eState = "OPEN"
    BY <1>0, <1>8 DEF Unlock, PagerUnlock, Fresh, PagerState, history
  <2> QED
    BY <2>1 DEF Ended
<1> QED
  BY <1>0, <1>1, <1>2, <1>3, <1>4, <1>5, <1>6, <1>7, <1>8
  DEF Continue, HotExists, HotReserved, HotOpen, HotByte, HotLock, HotExclusive, HotFailed,
      Recover, Replay, ReplaySync, Validate, FailedCommit

-----------------------------------------------------------------------------
(* A connection whose codec and pager stay as they are knows what it knew, *)
(* unless the file changes while it has no transaction.                    *)
LEMMA OthersRekey ==
  ASSUME NEW d \in Conn, RekeyConnOK(d), pager'[d] = pager[d], rkey'[d] = rkey[d],
         wkey'[d] = wkey[d], codec'[d] = codec[d], rekey'[d] = rekey[d],
         UNCHANGED <<db, committed>> \/ pager[d].eState = "OPEN"
  PROVE  RekeyConnOK(d)'
<1>1. CodecOK(d)' /\ StageOK(d)' /\ ReadableOK(d)'
  BY DEF RekeyConnOK, CodecOK, StageOK, ReadableOK
<1>2. KnownOK(d)'
  BY DEF RekeyConnOK, KnownOK, KeyNow, Done, Ended
<1>3. PagesOK(d)'
  BY DEF RekeyConnOK, PagesOK, Writer, Modified
<1> QED
  BY <1>1, <1>2, <1>3 DEF RekeyConnOK

(* No step of one connection changes what another one knows of its key.    *)
LEMMA ActsOthersRekey ==
  ASSUME NEW k \in Key, InvUnder(k), NEW c \in Conn, Acts(c), NEW d \in Conn, d # c,
         RekeyConnOK(d), codec'[d] = codec[d], rekey'[d] = rekey[d]
  PROVE  RekeyConnOK(d)'
<1>0. TypeOK /\ Control /\ Locked(d)
  BY ActorFacts DEF InvUnder
<1>1. pager'[d] = pager[d] /\ rkey'[d] = rkey[d] /\ wkey'[d] = wkey[d]
  BY <1>0, OthersStay
<1>2. UNCHANGED <<db, committed>> \/ excl = c
  BY <1>0, FileAccess
<1>3. excl = c => UNCHANGED <<db, committed>> \/ Outside(d)
  BY NothingDone
<1>4. Outside(d) => pager[d].eState = "OPEN"
  BY DEF Outside
<1> QED
  BY <1>1, <1>2, <1>3, <1>4, OthersRekey

(* A step of the pager, unless it is of another key, keeps its invariant.  *)
LEMMA InvStep ==
  ASSUME NEW k \in Key, InvUnder(k), ~exposed', NEW c \in Conn, Acts(c), KeysFit(c)
  PROVE  /\ \E n \in Key : InvUnder(n)'
         /\ committed'[1] # Absent
<1>0. wkey[c] \in Key /\ 1 \in Page
  BY ActorFacts, SomeTypes
<1>1. \E n \in Key : UnderKey(n, committed')
  BY <1>0, CommittedType
<1>2. \E n \in Key : InvUnder(n)'
  BY <1>1, StepOK
<1>3. FilesOK'
  BY <1>2 DEF InvUnder
<1>4. PICK n \in Page : \A p \in Page : committed'[p] # Absent <=> p <= n
  BY <1>3 DEF FilesOK, Sized
<1>5. committed'[1] # Absent
  BY <1>0, <1>4, SomeTypes
<1> QED
  BY <1>2, <1>5

-----------------------------------------------------------------------------
(* The key by which a connection knows page 1 stays the same, or becomes   *)
(* the new one with the commit.                                            *)
KeyKept(c) ==
  /\ Read(c, 1) => KeyNow(c)' = rkey[c]
  /\ \/ UNCHANGED committed /\ (KeyNow(c)' = KeyNow(c) \/ pager'[c].at = "unlock")
     \/ /\ UnderKey(wkey[c], committed') /\ KeyNow(c)' = wkey[c]
        /\ pager[c].eState # "OPEN" /\ pager'[c].eState # "OPEN"

(* So a connection that knows the key of page 1 goes on to know it.        *)
LEMMA KnownStep ==
  ASSUME NEW k \in Key, InvUnder(k), NEW c \in Conn, Acts(c), KnownOK(c), KeyKept(c),
         committed'[1] # Absent
  PROVE  KnownOK(c)'
<1> DEFINE K == KeyNow(c)'
<1>0. /\ ConnOK(c) /\ InPlace(c) /\ 1 \in Page /\ rkey[c] \in Key
      /\ committed[1] \in Stored /\ Version(committed[1]).key = k /\ committed[1].key = k
  BY ActorFacts, SomeTypes, FirstPage
<1> SUFFICES ASSUME pager'[c].at # "unlock", pager'[c].cache[1] \notin {Absent, Garbage}
             PROVE  IF pager'[c].eState = "OPEN" THEN pager'[c].dbFileVers.key = K
                                                 ELSE committed'[1].key = K
  BY DEF KnownOK
<1>1. CASE UnderKey(wkey[c], committed') /\ K = wkey[c] /\ pager'[c].eState # "OPEN"
  BY <1>0, <1>1 DEF UnderKey
<1>2. CASE UNCHANGED committed /\ K = KeyNow(c)
  <2>1. CASE Read(c, 1) /\ pager'[c].cache[1] = Decrypt(rkey[c], db[1])
             /\ pager'[c].eState = pager[c].eState /\ pager[c].eState # "OPEN"
    <3>1. K = rkey[c]
      BY <2>1 DEF KeyKept
    <3>2. db[1] \in Stored /\ (db[1] = committed[1] \/ pager[c].eState \in Modified)
      BY <1>0, <2>1, ReadStored
    <3>3. rkey[c] = db[1].key
      BY <1>0, <2>1, <3>2, DecryptCases
    <3>4. pager[c].eState \notin Modified
      <4>1. SUFFICES ASSUME pager[c].eState \in Modified PROVE FALSE
        OBVIOUS
      <4>2. pager[c].at = "idle" /\ pager[c].goal = "none" /\ pager[c].cache[1] = Absent
        BY <1>0, <2>1 DEF Read, Ready, InPlace
      <4>3. pager[c].cache[1] \in Content
        BY <1>0, <4>1, <4>2 DEF ConnOK, CachedOK, IsChanging, Ended
      <4> QED
        BY <4>2, <4>3, Marks
    <3> QED
      BY <1>2, <2>1, <3>1, <3>2, <3>3, <3>4
  <2>2. CASE FirstPageKept(c)
    <3>1. pager[c].at # "unlock" /\ pager[c].cache[1] \notin {Absent, Garbage}
      BY <2>2 DEF FirstPageKept
    <3>2. IF pager[c].eState = "OPEN" THEN pager[c].dbFileVers.key = K ELSE committed[1].key = K
      BY <1>2, <3>1 DEF KnownOK
    <3>3. CASE pager[c].eState # "OPEN" /\ pager'[c].eState # "OPEN"
      BY <1>2, <3>2, <3>3
    <3>4. CASE pager[c].eState = "OPEN" /\ pager'[c].eState = "OPEN"
               /\ pager'[c].dbFileVers = pager[c].dbFileVers
      BY <3>2, <3>4
    <3>5. CASE pager[c].eState = "READER" /\ pager'[c].eState = "OPEN"
               /\ pager'[c].dbFileVers = pager[c].dbFileVers
      <4>1. pager[c].dbFileVers = Version(committed[1])
        BY <1>0, <3>1, <3>5 DEF ConnOK, SettledOK, IsSettled
      <4> QED
        BY <1>0, <3>2, <3>5, <4>1
    <3>6. CASE Validate(c) /\ pager[c].eState = "OPEN" /\ pager'[c].eState = "READER"
               /\ pager[c].dbFileVers = Version(db[1])
      <4>1. db[1] = committed[1]
        BY <1>0, <3>6 DEF Validate, ConnOK, NeedsClean, Clean
      <4> QED
        BY <1>0, <1>2, <3>2, <3>6, <4>1
    <3> QED
      BY <2>2, <3>3, <3>4, <3>5, <3>6 DEF FirstPageKept
  <2> QED
    BY <2>1, <2>2, FirstPageStep
<1> QED
  BY <1>1, <1>2 DEF KeyKept

(* While a rekey has yet to commit, and between rekeys, the key is kept.   *)
LEMMA NotCommitting ==
  ASSUME NEW k \in Key, InvUnder(k), NEW c \in Conn, Acts(c), CodecOK(c), StageOK(c),
         rkey'[c] = rkey[c], wkey'[c] = wkey[c],
         \/ rekey[c].at = "idle" /\ rekey'[c].at = "idle"
         \/ rekey[c].at \in {"begin", "pages", "undo"} /\ ~Done(c)'
  PROVE  KeyKept(c)
<1>0. TypeOK /\ Control /\ InPlace(c) /\ ConnOK(c) /\ pager \in [Conn -> PagerState]
  BY ActorFacts DEF InvUnder
<1>1. KeyNow(c) = rkey[c] /\ KeyNow(c)' = rkey[c]
  BY DEF KeyNow, Done
<1>2. CASE UNCHANGED committed
  BY <1>1, <1>2 DEF KeyKept
<1>3. CASE Finalize(c) /\ committed' = db /\ pager[c].at = "finalize" /\ pager[c].goal = "commit"
  <2>1. pager[c].eState = "WRITER_FINISHED"
    BY <1>0, <1>3 DEF InPlace
  <2>2. UnderKey(wkey[c], db)
    BY <1>0, <1>3, <2>1 DEF ConnOK, CommitOK, IsChanging, Ended, Modified
  <2>3. pager'[c].eState = pager[c].eState
    BY <1>0, <1>3 DEF Finalize, PagerState
  <2>4. rekey[c].at = "idle"
    BY <1>3, <2>1 DEF StageOK, Modified
  <2>5. wkey[c] = rkey[c]
    BY <2>4 DEF CodecOK
  <2>6. UnderKey(wkey[c], committed')
    BY <1>3, <2>2 DEF UnderKey
  <2> QED
    BY <1>1, <2>1, <2>3, <2>5, <2>6 DEF KeyKept
<1> QED
  BY <1>0, <1>2, <1>3, FileAccess

-----------------------------------------------------------------------------
(* The invariant after a step that leaves the keys of all connections: it  *)
(* remains to be seen what it does to its own one.                         *)
RekeyState == [at : RekeyAt, page : 1 .. MaxPage + 1, ok : BOOLEAN]

(* The types, when the keys stay.                                          *)
LEMMA RekeyTypes ==
  ASSUME RekeyTypeOK, TypeOK', UNCHANGED <<rkey, wkey, codec>>, rekey' \in [Conn -> RekeyState]
  PROVE  RekeyTypeOK'
BY DEF RekeyTypeOK, RekeyState

(* It does what the invariant asks for.                                    *)
LEMMA ActsRekey ==
  ASSUME RekeyInv, NEW k \in Key, InvUnder(k), ~exposed', NEW c \in Conn, Acts(c), KeysFit(c),
         UNCHANGED <<rkey, wkey, codec>>, rekey' \in [Conn -> RekeyState],
         \A d \in Conn \ {c} : rekey'[d] = rekey[d],
         rekey'[c].at = "idle" <=> rekey[c].at = "idle",
         KeyKept(c), StageOK(c)', ReadableOK(c)', PagesOK(c)'
  PROVE  RekeyInv'
<1>0. RekeyTypeOK /\ \A d \in Conn : RekeyConnOK(d)
  BY DEF RekeyInv
<1>1. (\E n \in Key : InvUnder(n)') /\ committed'[1] # Absent
  BY InvStep
<1>2. RekeyTypeOK'
  <2>1. TypeOK'
    BY <1>1 DEF InvUnder
  <2> QED
    BY <1>0, <2>1, RekeyTypes
<1>3. RekeyConnOK(c)'
  <2>1. CodecOK(c)'
    BY <1>0 DEF RekeyConnOK, CodecOK
  <2>2. KnownOK(c)'
    BY <1>0, <1>1, KnownStep DEF RekeyConnOK
  <2> QED
    BY <2>1, <2>2 DEF RekeyConnOK
<1>4. ASSUME NEW d \in Conn, d # c PROVE RekeyConnOK(d)'
  BY <1>0, <1>4, ActsOthersRekey
<1> QED
  BY <1>1, <1>2, <1>3, <1>4 DEF RekeyInv

(* The same for steps of the rekey that the pager does not notice.         *)
LEMMA StillRekey ==
  ASSUME RekeyInv, NEW c \in Conn, UNCHANGED <<vars, codec>>,
         rekey' \in [Conn -> RekeyState], \A d \in Conn \ {c} : rekey'[d] = rekey[d],
         rekey'[c].at = "idle" <=> rekey[c].at = "idle", KeyNow(c)' = KeyNow(c),
         StageOK(c)', ReadableOK(c)', PagesOK(c)'
  PROVE  RekeyInv'
<1> USE DEF vars, keys, files, history
<1>0. RekeyTypeOK /\ \A d \in Conn : RekeyConnOK(d)
  BY DEF RekeyInv
<1>1. \E n \in Key : InvUnder(n)'
  <2>1. PICK k \in Key : InvUnder(k)
    BY DEF RekeyInv
  <2>2. rkey' \in [Conn -> Key] /\ wkey' \in [Conn -> Key]
    BY <2>1 DEF InvUnder, TypeOK
  <2> QED
    BY <2>1, <2>2, KeysChange
<1>2. RekeyTypeOK'
  <2>1. TypeOK'
    BY <1>1 DEF InvUnder
  <2> QED
    BY <1>0, <2>1, RekeyTypes
<1>3. RekeyConnOK(c)'
  <2>1. CodecOK(c)'
    BY <1>0 DEF RekeyConnOK, CodecOK
  <2>2. KnownOK(c)'
    BY <1>0 DEF RekeyConnOK, KnownOK
  <2> QED
    BY <2>1, <2>2 DEF RekeyConnOK
<1>4. ASSUME NEW d \in Conn, d # c PROVE RekeyConnOK(d)'
  BY <1>0, <1>4, OthersRekey
<1> QED
  BY <1>1, <1>2, <1>3, <1>4 DEF RekeyInv

(* ... and for those that give its connection other keys.                  *)
LEMMA SetCodecRekey ==
  ASSUME RekeyInv, NEW c \in Conn, NEW x \in CodecState, SetCodec(c, x),
         UNCHANGED <<lockVars, files, jopen, pager, history>>,
         pager[c].eState \in {"OPEN", "READER"},
         rekey' \in [Conn -> RekeyState], \A d \in Conn \ {c} : rekey'[d] = rekey[d],
         RekeyConnOK(c)'
  PROVE  RekeyInv'
<1> USE DEF files, history
<1>0. RekeyTypeOK /\ \A d \in Conn : RekeyConnOK(d)
  BY DEF RekeyInv
<1>1. codec \in [Conn -> CodecState] /\ rkey \in [Conn -> Key] /\ wkey \in [Conn -> Key]
  BY <1>0 DEF RekeyTypeOK, TypeOK, CodecState
<1>2. ReadKey(x) \in Key /\ WriteKey(x) \in Key
  BY RekeyAssumption DEF ReadKey, WriteKey, CodecState
<1>3. /\ codec' \in [Conn -> CodecState] /\ rkey' \in [Conn -> Key] /\ wkey' \in [Conn -> Key]
      /\ codec'[c] = x /\ rkey'[c] = ReadKey(x) /\ wkey'[c] = WriteKey(x)
      /\ \A d \in Conn \ {c} :
           codec'[d] = codec[d] /\ rkey'[d] = rkey[d] /\ wkey'[d] = wkey[d]
  BY <1>1, <1>2 DEF SetCodec
<1>4. \E n \in Key : InvUnder(n)'
  <2>1. PICK k \in Key : InvUnder(k)
    BY DEF RekeyInv
  <2> QED
    BY <1>3, <2>1, KeysChange
<1>5. RekeyTypeOK'
  <2>1. TypeOK'
    BY <1>4 DEF InvUnder
  <2>2. \A d \in Conn : rkey'[d] = ReadKey(codec'[d]) /\ wkey'[d] = WriteKey(codec'[d])
    BY <1>0, <1>3 DEF RekeyTypeOK
  <2>3. codec' \in [Conn -> [attached : BOOLEAN, isEncrypted : BOOLEAN,
                             hasReadKey : BOOLEAN, hasWriteKey : BOOLEAN,
                             readKey : Key, writeKey : Key]]
    BY <1>3 DEF CodecState
  <2>4. rekey' \in [Conn -> [at : RekeyAt, page : 1 .. MaxPage + 1, ok : BOOLEAN]]
    BY DEF RekeyState
  <2> QED
    BY <2>1, <2>2, <2>3, <2>4 DEF RekeyTypeOK
<1>6. ASSUME NEW d \in Conn, d # c PROVE RekeyConnOK(d)'
  BY <1>0, <1>3, <1>6, OthersRekey
<1> QED
  BY <1>4, <1>5, <1>6 DEF RekeyInv

-----------------------------------------------------------------------------
(* The stages of a rekey.                                                  *)
LEMMA RekeyFacts ==
  ASSUME RekeyInv, NEW c \in Conn
  PROVE  /\ rekey \in [Conn -> RekeyState] /\ rekey[c] \in RekeyState
         /\ CodecOK(c) /\ StageOK(c) /\ KnownOK(c) /\ ReadableOK(c) /\ PagesOK(c)
         /\ TypeOK /\ pager[c] \in PagerState /\ rkey[c] \in Key /\ wkey[c] \in Key
         /\ InPlace(c) /\ ConnOK(c)
<1>1. RekeyTypeOK /\ RekeyConnOK(c)
  BY DEF RekeyInv
<1>2. rekey \in [Conn -> RekeyState]
  BY <1>1 DEF RekeyTypeOK, RekeyState
<1>3. TypeOK /\ pager[c] \in PagerState /\ rkey[c] \in Key /\ wkey[c] \in Key
  BY <1>1 DEF RekeyTypeOK, TypeOK
<1>4. InPlace(c) /\ ConnOK(c)
  BY DEF RekeyInv, InvUnder, Control
<1> QED
  BY <1>1, <1>2, <1>3, <1>4 DEF RekeyConnOK

(* Going to another stage changes only the stage.                          *)
LEMMA StageFields ==
  ASSUME rekey \in [Conn -> RekeyState], NEW c \in Conn, NEW label \in RekeyAt, Stage(c, label)
  PROVE  /\ rekey' \in [Conn -> RekeyState]
         /\ rekey'[c].at = label /\ rekey'[c].page = rekey[c].page
         /\ rekey'[c].ok <=> rekey[c].ok
         /\ \A d \in Conn \ {c} : rekey'[d] = rekey[d]
<1>1. rekey[c] \in RekeyState
  OBVIOUS
<1>2. PICK r : r = [rekey[c] EXCEPT !.at = label]
  OBVIOUS
<1>3. r \in RekeyState /\ r.at = label /\ r.page = rekey[c].page
  BY <1>1, <1>2 DEF RekeyState
<1>4. r.ok <=> rekey[c].ok
  BY <1>1, <1>2 DEF RekeyState
<1>5. rekey' = [rekey EXCEPT ![c] = r]
  BY <1>2 DEF Stage
<1> QED
  BY <1>3, <1>4, <1>5

(* A connection that is not rekeying.                                      *)
LEMMA NotRekeyingType == NotRekeying \in RekeyState
BY PagerAssumption DEF NotRekeying, RekeyState, RekeyAt

(* sqlite3_key before the first read gives one key to both flags.          *)
LEMMA SetKeyOK ==
  ASSUME RekeyInv, NEW c \in Conn, NEW k \in Key, Open(c, k)
  PROVE  RekeyInv'
<1>0. /\ rekey \in [Conn -> RekeyState] /\ StageOK(c) /\ codec \in [Conn -> CodecState]
      /\ rkey \in [Conn -> Key] /\ wkey \in [Conn -> Key] /\ 1 \in Page
  BY RekeyFacts, SomeTypes DEF RekeyInv, RekeyTypeOK, TypeOK, CodecState
<1>1. /\ SetCodec(c, Keyed(k)) /\ pager[c] = Fresh /\ rekey[c].at = "idle"
      /\ UNCHANGED <<lockVars, files, jopen, pager, history, rekey>>
  BY DEF Open
<1>2. pager[c].eState = "OPEN" /\ pager[c].cache[1] = Absent
  BY <1>0, <1>1 DEF Fresh, Empty
<1>3. rkey'[c] = k /\ wkey'[c] = k /\ codec'[c] = Keyed(k)
  BY <1>0, <1>1, KeyedType DEF SetCodec
<1>4. RekeyConnOK(c)'
  <2>1. CodecOK(c)'
    BY <1>1, <1>3 DEF CodecOK
  <2>2. StageOK(c)'
    BY <1>0, <1>1 DEF StageOK
  <2> QED
    BY <1>1, <1>2, <2>1, <2>2 DEF RekeyConnOK, KnownOK, ReadableOK, PagesOK
<1> QED
  BY <1>0, <1>1, <1>2, <1>4, KeyedType, SetCodecRekey

(* Preparing the codec leaves the key to read with.                        *)
LEMMA RekeyStartOK ==
  ASSUME RekeyInv, RekeyAlone, NEW c \in Conn, NEW k \in RekeyTo, RekeyStart(c, k)
  PROVE  RekeyInv'
<1>0. /\ rekey \in [Conn -> RekeyState] /\ StageOK(c) /\ CodecOK(c) /\ KnownOK(c)
      /\ codec \in [Conn -> CodecState] /\ pager[c] \in PagerState
      /\ rkey \in [Conn -> Key] /\ wkey \in [Conn -> Key] /\ 1 \in Page
  BY RekeyFacts, SomeTypes DEF RekeyInv, RekeyTypeOK, TypeOK, CodecState
<1>1. /\ rekey[c].at = "idle" /\ pager[c].at = "idle" /\ pager[c].eState \in {"OPEN", "READER"}
      /\ SetCodec(c, Prepared(codec[c], k)) /\ Stage(c, "enter")
      /\ UNCHANGED <<lockVars, files, jopen, pager, history>>
  BY <1>0 DEF RekeyStart, RekeyAlone, PagerIdle, InWriter, PagerState, EState, Writer, Modified
<1>2. k \in Key /\ k # NoKey
  BY RekeyAssumption DEF RekeyAlone
<1>3. codec[c] = Keyed(rkey[c]) /\ rkey[c] \in Key
  BY <1>0, <1>1 DEF CodecOK
<1>4. /\ Prepared(codec[c], k) \in CodecState
      /\ rkey'[c] = rkey[c] /\ wkey'[c] = k /\ codec'[c] = Prepared(Keyed(rkey[c]), k)
  BY <1>0, <1>1, <1>2, <1>3, PreparedType DEF SetCodec
<1>5. /\ rekey' \in [Conn -> RekeyState] /\ \A d \in Conn \ {c} : rekey'[d] = rekey[d]
      /\ rekey'[c].at = "enter" /\ rekey'[c].page = rekey[c].page /\ (rekey'[c].ok <=> rekey[c].ok)
  BY <1>0, <1>1, StageFields DEF RekeyAt
<1>6. RekeyConnOK(c)'
  <2>1. CodecOK(c)'
    BY <1>2, <1>4, <1>5 DEF CodecOK
  <2>2. StageOK(c)'
    BY <1>0, <1>1, <1>5 DEF StageOK, Writer, Modified
  <2>3. KnownOK(c)'
    BY <1>0, <1>1, <1>4, <1>5 DEF KnownOK, KeyNow, Done, history
  <2> QED
    BY <1>5, <2>1, <2>2, <2>3 DEF RekeyConnOK, ReadableOK, PagesOK
<1> QED
  BY <1>1, <1>4, <1>5, <1>6, SetCodecRekey

(* Settling the codec leaves the key under which page 1 is known.          *)
LEMMA RekeyFinishOK ==
  ASSUME RekeyInv, NEW c \in Conn, RekeyFinish(c)
  PROVE  RekeyInv'
<1>0. /\ rekey \in [Conn -> RekeyState] /\ StageOK(c) /\ CodecOK(c) /\ KnownOK(c)
      /\ codec \in [Conn -> CodecState] /\ pager[c] \in PagerState
      /\ rkey \in [Conn -> Key] /\ wkey \in [Conn -> Key] /\ 1 \in Page
  BY RekeyFacts, SomeTypes DEF RekeyInv, RekeyTypeOK, TypeOK, CodecState
<1>1. /\ rekey[c].at = "finish" /\ rekey' = [rekey EXCEPT ![c] = NotRekeying]
      /\ SetCodec(c, Settled(codec[c], rekey[c].ok))
      /\ UNCHANGED <<lockVars, files, jopen, pager, history>>
  BY DEF RekeyFinish
<1>2. pager[c].eState \in {"OPEN", "READER"}
  BY <1>0, <1>1 DEF StageOK, PagerState, EState, Writer, Modified
<1>3. PICK n \in Key : n = KeyNow(c)
  BY <1>0 DEF KeyNow
<1>4. Settled(codec[c], rekey[c].ok) = Keyed(n)
  <2>1. codec[c] = Prepared(Keyed(rkey[c]), wkey[c]) /\ wkey[c] # NoKey
        /\ rkey[c] \in Key /\ wkey[c] \in Key
    BY <1>0, <1>1 DEF CodecOK
  <2>2. CASE rekey[c].ok
    <3>1. rekey[c].ok = TRUE
      BY <1>0, <2>2 DEF RekeyState
    <3>2. n = wkey[c]
      BY <1>1, <1>3, <2>2 DEF KeyNow, Done
    <3> QED
      BY <2>1, <3>1, <3>2, SettledKeys
  <2>3. CASE ~rekey[c].ok
    <3>1. rekey[c].ok = FALSE
      BY <1>0, <2>3 DEF RekeyState
    <3>2. n = rkey[c]
      BY <1>1, <1>3, <2>3 DEF KeyNow, Done
    <3> QED
      BY <2>1, <3>1, <3>2, SettledKeys
  <2> QED
    BY <2>2, <2>3
<1>5. rkey'[c] = n /\ wkey'[c] = n /\ codec'[c] = Keyed(n)
  BY <1>0, <1>1, <1>4, KeyedType DEF SetCodec
<1>6. /\ rekey' \in [Conn -> RekeyState] /\ \A d \in Conn \ {c} : rekey'[d] = rekey[d]
      /\ rekey'[c] = NotRekeying
  BY <1>0, <1>1, NotRekeyingType
<1>7. rekey'[c].at = "idle" /\ rekey'[c].page = 1 /\ ~rekey'[c].ok
  BY <1>6 DEF NotRekeying
<1>8. RekeyConnOK(c)'
  <2>1. CodecOK(c)'
    BY <1>5, <1>7 DEF CodecOK
  <2>2. StageOK(c)'
    BY <1>7 DEF StageOK
  <2>3. KeyNow(c)' = n
    BY <1>5, <1>7 DEF KeyNow, Done
  <2>4. KnownOK(c)'
    BY <1>0, <1>1, <1>3, <2>3 DEF KnownOK, history
  <2> QED
    BY <1>7, <2>1, <2>2, <2>4 DEF RekeyConnOK, ReadableOK, PagesOK
<1> QED
  BY <1>1, <1>2, <1>4, <1>6, <1>8, KeyedType, SetCodecRekey

(* Steps of the rekey alone.                                               *)
LEMMA RekeyEnterOK ==
  ASSUME RekeyInv, NEW c \in Conn, RekeyEnter(c)
  PROVE  RekeyInv'
<1>0. rekey \in [Conn -> RekeyState] /\ StageOK(c) /\ pager[c] \in PagerState
  BY RekeyFacts
<1>1. /\ rekey[c].at = "enter" /\ pager[c].at = "idle" /\ Stage(c, "begin")
      /\ UNCHANGED <<vars, codec>> /\ pager' = pager
  BY DEF RekeyEnter, PagerIdle, vars
<1>2. /\ rekey' \in [Conn -> RekeyState] /\ \A d \in Conn \ {c} : rekey'[d] = rekey[d]
      /\ rekey'[c].at = "begin" /\ rekey'[c].page = rekey[c].page /\ (rekey'[c].ok <=> rekey[c].ok)
  BY <1>0, <1>1, StageFields DEF RekeyAt
<1>3. StageOK(c)'
  BY <1>0, <1>1, <1>2 DEF StageOK, Writer, Modified
<1>4. KeyNow(c)' = KeyNow(c) /\ ReadableOK(c)' /\ PagesOK(c)'
  BY <1>1, <1>2 DEF KeyNow, Done, ReadableOK, PagesOK, vars, keys
<1> QED
  BY <1>1, <1>2, <1>3, <1>4, StillRekey

(* A failed page leads to the rollback.                                    *)
LEMMA RekeyFailOK ==
  ASSUME RekeyInv, NEW c \in Conn, RekeyFail(c)
  PROVE  RekeyInv'
<1>0. rekey \in [Conn -> RekeyState] /\ StageOK(c) /\ pager[c] \in PagerState
  BY RekeyFacts
<1>1. /\ rekey[c].at \in {"begin", "pages"} /\ pager[c].at = "idle" /\ Stage(c, "undo")
      /\ UNCHANGED <<vars, codec>> /\ pager' = pager
  BY DEF RekeyFail, PagerIdle, vars
<1>2. /\ rekey' \in [Conn -> RekeyState] /\ \A d \in Conn \ {c} : rekey'[d] = rekey[d]
      /\ rekey'[c].at = "undo" /\ rekey'[c].page = rekey[c].page /\ (rekey'[c].ok <=> rekey[c].ok)
  BY <1>0, <1>1, StageFields DEF RekeyAt
<1>3. StageOK(c)'
  BY <1>0, <1>1, <1>2 DEF StageOK, Modified, PagerState, EState
<1>4. KeyNow(c)' = KeyNow(c) /\ ReadableOK(c)' /\ PagesOK(c)'
  BY <1>1, <1>2 DEF KeyNow, Done, ReadableOK, PagesOK, vars, keys
<1> QED
  BY <1>1, <1>2, <1>3, <1>4, StillRekey

(* The end of the commit makes the new key the one that is known.          *)
LEMMA RekeyCommittedOK ==
  ASSUME RekeyInv, NEW c \in Conn, RekeyCommitted(c)
  PROVE  RekeyInv'
<1>0. rekey \in [Conn -> RekeyState] /\ rekey[c] \in RekeyState /\ StageOK(c)
      /\ pager[c] \in PagerState
  BY RekeyFacts
<1> DEFINE done == pager[c].eState = "READER"
<1>1. /\ rekey[c].at = "commit" /\ pager[c].at = "idle"
      /\ rekey' = [rekey EXCEPT ![c] = [rekey[c] EXCEPT
                    !.at = IF done THEN "finish" ELSE "undo", !.ok = done]]
      /\ UNCHANGED <<vars, codec>> /\ pager' = pager
  BY DEF RekeyCommitted, PagerIdle, vars
<1>2. PICK label \in RekeyAt : label = IF done THEN "finish" ELSE "undo"
  BY DEF RekeyAt
<1>3. PICK ok \in BOOLEAN : ok = done
  OBVIOUS
<1> HIDE DEF done
<1>4. PICK r : r = [rekey[c] EXCEPT !.at = label, !.ok = ok]
  OBVIOUS
<1>5. r \in RekeyState /\ r.at = label /\ r.page = rekey[c].page
  BY <1>0, <1>4 DEF RekeyState
<1>6. r.ok <=> ok
  BY <1>0, <1>4 DEF RekeyState
<1>7. rekey' = [rekey EXCEPT ![c] = r]
  BY <1>1, <1>2, <1>3, <1>4
<1>8. /\ rekey' \in [Conn -> RekeyState] /\ \A d \in Conn \ {c} : rekey'[d] = rekey[d]
      /\ rekey'[c] = r
  BY <1>0, <1>5, <1>7
<1>9. StageOK(c)'
  <2>1. CASE done
    BY <1>1, <1>2, <1>8, <1>5, <2>1 DEF StageOK, Writer, Modified, done
  <2>2. CASE ~done
    BY <1>0, <1>1, <1>2, <1>3, <1>5, <1>6, <1>8, <2>2 DEF StageOK, Modified, done
  <2> QED
    BY <2>1, <2>2
<1>10. KeyNow(c)' = KeyNow(c)
  BY <1>1, <1>2, <1>3, <1>5, <1>6, <1>8 DEF KeyNow, Done, Ended, vars, keys, done
<1>11. rekey'[c].at \in {"finish", "undo"}
  BY <1>2, <1>5, <1>8
<1> QED
  BY <1>1, <1>8, <1>9, <1>10, <1>11, StillRekey DEF ReadableOK, PagesOK

-----------------------------------------------------------------------------
(* A connection that has read page 1 before or between its rekeys has the  *)
(* key of the database.                                                    *)
LEMMA KnownKey ==
  ASSUME NEW c \in Conn, StageOK(c), KnownOK(c), rekey[c].at \in {"idle", "begin"},
         pager[c].at # "unlock", pager[c].eState # "OPEN",
         pager[c].cache[1] \notin {Absent, Garbage}
  PROVE  KnowsKey(c)
BY DEF KnownOK, KeyNow, Done, StageOK, KnowsKey

(* Which calls exclude each other.                                         *)
LEMMA ReadOnly ==
  ASSUME TypeOK, NEW c \in Conn, NEW p \in Page, Read(c, p)
  PROVE  /\ pager'[c].at = "idle" /\ pager'[c].eState = pager[c].eState
         /\ pager'[c].dirty = pager[c].dirty
         /\ pager[c].cache[p] = Absent
         /\ \A q \in Page \ {p} : pager'[c].cache[q] = pager[c].cache[q]
         /\ pager'[c].cache[p] = Decrypt(rkey[c], db[p])
<1>1. pager[c] \in PagerState /\ pager[c].cache \in [Page -> Content \cup {Absent, Garbage}]
  BY DEF TypeOK, PagerState
<1>2. pager[c].at = "idle" /\ pager[c].cache[p] = Absent
  BY DEF Read, Ready
<1>3. /\ pager'[c].cache = [pager[c].cache EXCEPT ![p] = Decrypt(rkey[c], db[p])]
      /\ pager'[c].at = pager[c].at /\ pager'[c].eState = pager[c].eState
      /\ pager'[c].dirty = pager[c].dirty
  BY ReadFields
<1> QED
  BY <1>1, <1>2, <1>3

(* The start of the write transaction reads page 1 under the old key.      *)
LEMMA RekeyBeginOK ==
  ASSUME RekeyInv, ~exposed', NEW c \in Conn, RekeyBegin(c)
  PROVE  RekeyInv'
<1>0. /\ rekey \in [Conn -> RekeyState] /\ StageOK(c) /\ CodecOK(c) /\ KnownOK(c)
      /\ TypeOK /\ pager[c] \in PagerState /\ rkey[c] \in Key /\ wkey[c] \in Key
      /\ InPlace(c) /\ ConnOK(c) /\ 1 \in Page
  BY RekeyFacts, SomeTypes
<1>1. rekey[c].at = "begin" /\ pager[c].at = "idle" /\ codec' = codec
      /\ pager[c].eState \notin Modified /\ rekey[c].page = 1 /\ ~rekey[c].ok
  BY <1>0 DEF RekeyBegin, PagerIdle, StageOK
<1>2. PICK k \in Key : InvUnder(k)
  BY DEF RekeyInv
<1>3. CASE (SharedLock(c) \/ Read(c, 1) \/ Begin(c)) /\ UNCHANGED rekey
  <2>1. Acts(c) /\ UNCHANGED keys
    BY <1>0, <1>3 DEF Acts, Call, SharedLock, Read, Begin
  <2>2. KeysFit(c)
    <3>1. Begin(c) => KnowsKey(c)
      BY <1>0, <1>1, KnownKey DEF Begin, Ready
    <3>2. ~Commit(c)
      BY <1>1 DEF Commit, Ready, Modified
    <3>3. ASSUME NEW p \in Page, p # 1, Read(c, p) PROVE FALSE
      <4>1. pager[c].eState # "OPEN" /\ pager[c].cache[1] # Absent
        BY <3>3 DEF Read, Ready, Writer, Modified
      <4>2. Begin(c)
        BY <1>3, <4>1 DEF SharedLock, Read
      <4>3. pager[c].eState = "READER" /\ pager'[c].eState = "WRITER_LOCKED"
        BY <1>0, <4>2, BeginFields DEF Begin, Ready
      <4> QED
        BY <1>0, <3>3, <4>3, ReadOnly
    <3> QED
      BY <3>1, <3>2, <3>3 DEF KeysFit
  <2>3. rekey'[c] = rekey[c] /\ rekey' \in [Conn -> RekeyState]
    BY <1>0, <1>3
  <2>4. StageOK(c)'
    <3>1. CASE SharedLock(c)
      <4>1. pager'[c].eState = "OPEN"
        BY <1>0, <3>1 DEF SharedLock, Goto, TypeOK, PagerState
      <4> QED
        BY <1>1, <2>3, <4>1 DEF StageOK, Modified
    <3>2. CASE Read(c, 1)
      <4>1. pager'[c].eState = pager[c].eState /\ pager'[c].at = "idle"
        BY <1>0, <3>2, ReadOnly
      <4> QED
        BY <1>1, <2>3, <4>1 DEF StageOK
    <3>3. CASE Begin(c)
      <4>1. pager'[c].eState = "WRITER_LOCKED" /\ pager'[c].at = "idle"
        BY <1>0, <1>1, <3>3, BeginFields
      <4> QED
        BY <1>1, <2>3, <4>1 DEF StageOK, Modified
    <3> QED
      BY <1>3, <3>1, <3>2, <3>3
  <2>5. KeyKept(c)
    <3>1. rkey'[c] = rkey[c] /\ wkey'[c] = wkey[c] /\ ~Done(c)'
      BY <1>1, <2>1, <2>3 DEF Done, keys
    <3> QED
      BY <1>0, <1>1, <1>2, <2>1, <3>1, NotCommitting
  <2>6. ReadableOK(c)' /\ PagesOK(c)'
    BY <1>1, <2>3 DEF ReadableOK, PagesOK
  <2> QED
    BY <1>1, <1>2, <1>3, <2>1, <2>2, <2>3, <2>4, <2>5, <2>6, ActsRekey DEF keys
<1>4. CASE InWriter(c) /\ Stage(c, "pages") /\ UNCHANGED vars
  <2>1. /\ rekey' \in [Conn -> RekeyState] /\ \A d \in Conn \ {c} : rekey'[d] = rekey[d]
        /\ rekey'[c].at = "pages" /\ rekey'[c].page = 1 /\ ~rekey'[c].ok
    BY <1>0, <1>1, <1>4, StageFields DEF RekeyAt
  <2>2. UNCHANGED <<pager, db, committed, rkey, wkey>>
    BY <1>4 DEF vars, files, keys, history
  <2>3. pager[c].eState = "WRITER_LOCKED"
    BY <1>1, <1>4 DEF InWriter, Writer
  <2>4. StageOK(c)'
    BY <1>1, <2>1, <2>2, <2>3 DEF StageOK
  <2>5. KeyNow(c)' = KeyNow(c)
    BY <1>1, <2>1, <2>2 DEF KeyNow, Done
  <2>6. ReadableOK(c)'
    <3>1. pager[c].cache[1] # Garbage /\ FirstPageFirst(c)
      BY <1>0, <2>3 DEF ConnOK, UnwrittenOK, SettledOK, IsSettled
    <3> QED
      BY <2>2, <3>1, Marks DEF ReadableOK, FirstPageFirst
  <2>7. PagesOK(c)'
    <3>1. pager[c].dirty = {} /\ \A p \in Page : db[p] = committed[p]
      BY <1>0, <2>3 DEF ConnOK, UnwrittenOK, NeedsClean, Clean, Modified
    <3>2. \A p \in Page : ~(p < 1)
      BY SomeTypes
    <3> QED
      BY <2>1, <2>2, <3>1, <3>2 DEF PagesOK
  <2> QED
    BY <1>1, <1>4, <2>1, <2>4, <2>5, <2>6, <2>7, StillRekey
<1> QED
  BY <1>3, <1>4 DEF RekeyBegin

(* Going to the next page changes only the number of the page.             *)
LEMMA NextPage ==
  ASSUME rekey \in [Conn -> RekeyState], NEW c \in Conn, NEW n, n = rekey[c].page, n <= MaxPage,
         rekey' = [rekey EXCEPT ![c].page = n + 1]
  PROVE  /\ rekey' \in [Conn -> RekeyState]
         /\ rekey'[c].at = rekey[c].at /\ rekey'[c].page = n + 1
         /\ rekey'[c].ok <=> rekey[c].ok
         /\ \A d \in Conn \ {c} : rekey'[d] = rekey[d]
<1>1. rekey[c] \in RekeyState
  OBVIOUS
<1>0. n + 1 \in 1 .. MaxPage + 1
  BY <1>1, PagerAssumption DEF RekeyState
<1>2. PICK r : r = [rekey[c] EXCEPT !.page = n + 1]
  OBVIOUS
<1>3. r \in RekeyState /\ r.at = rekey[c].at /\ r.page = n + 1
  BY <1>0, <1>1, <1>2 DEF RekeyState
<1>4. r.ok <=> rekey[c].ok
  BY <1>1, <1>2 DEF RekeyState
<1>5. rekey' = [rekey EXCEPT ![c] = r]
  BY <1>2
<1> QED
  BY <1>3, <1>4, <1>5

(* What is read next while pages are rewritten is under the old key.       *)
LEMMA NextIsLegible ==
  ASSUME NEW k \in Key, InvUnder(k), NEW c \in Conn, StageOK(c), PagesOK(c),
         rekey[c].at = "pages", NEW n \in Page, n = rekey[c].page, Read(c, n),
         pager[c].eState \in Writer
  PROVE  Decrypt(rkey[c], db[n]) # Garbage
<1>0. /\ ConnOK(c) /\ rkey[c] \in Key
      /\ KnowsKey(c) => rkey[c] = k
      /\ pager[c].at = "idle" /\ pager[c].goal = "none"
  BY ActorFacts DEF Read, Ready, InPlace
<1>1. ~(n < n) /\ pager[c].at # "unlock"
  BY <1>0, SomeTypes
<1>2. db[n] = committed[n]
  BY <1>1 DEF PagesOK
<1>3. db[n] \in Stored
  BY ReadStored
<1>4. committed[n].key = k
  BY <1>2, <1>3, ActorFacts, Marks
<1>5. KnowsKey(c)
  BY <1>0 DEF ConnOK, UnwrittenOK, CachedOK, IsChanging, Ended, Writer
<1> QED
  BY <1>0, <1>2, <1>3, <1>4, <1>5, DecryptCases, Marks

(* A page that is made writable becomes dirty, the others stay clean.      *)
LEMMA WriteMoves ==
  ASSUME NEW k \in Key, InvUnder(k), NEW c \in Conn, NEW n \in Page, Write(c, n)
  PROVE  /\ pager'[c].at = "idle" /\ pager'[c].eState \in Modified
         /\ pager'[c].dirty = pager[c].dirty \cup {n} /\ n \notin pager[c].dirty
         /\ \A p \in Page : pager'[c].cache[p] \in {pager[c].cache[p]} \cup Content
         /\ UNCHANGED <<db, committed, keys>>
<1>1. /\ pager[c] \in PagerState /\ pager[c].cache \in [Page -> Content \cup {Absent, Garbage}]
  BY ActorFacts DEF PagerState
<1>2. PICK d \in Content : Puts(pager'[c], c, n, d)
  BY WriteFacts
<1>3. /\ pager[c].eState \in {"WRITER_LOCKED", "WRITER_CACHEMOD", "WRITER_DBMOD"}
      /\ pager'[c].at = "idle" /\ UNCHANGED <<db, committed, keys>>
  BY WriteFacts
<1>4. n \notin pager[c].dirty
  BY DEF Write
<1>5. /\ pager'[c].cache = [pager[c].cache EXCEPT ![n] = d]
      /\ pager'[c].dirty = pager[c].dirty \cup {n}
      /\ pager'[c].eState = IF pager[c].eState = "WRITER_LOCKED" THEN "WRITER_CACHEMOD"
                            ELSE pager[c].eState
  BY <1>2 DEF Puts
<1>6. \A p \in Page : pager'[c].cache[p] \in {pager[c].cache[p]} \cup Content
  BY <1>1, <1>5
<1>7. pager'[c].eState \in Modified
  BY <1>3, <1>5 DEF Modified
<1> QED
  BY <1>3, <1>4, <1>5, <1>6, <1>7

(* One more page is read under the old key, for writing under the new.     *)
LEMMA RekeyPageOK ==
  ASSUME RekeyInv, ~exposed', NEW c \in Conn, RekeyPage(c)
  PROVE  RekeyInv'
<1> DEFINE n == rekey[c].page
<1>0. /\ rekey \in [Conn -> RekeyState] /\ StageOK(c) /\ CodecOK(c) /\ KnownOK(c)
      /\ ReadableOK(c) /\ PagesOK(c)
      /\ TypeOK /\ pager[c] \in PagerState /\ rkey[c] \in Key /\ wkey[c] \in Key
      /\ InPlace(c) /\ ConnOK(c) /\ Page = 1 .. MaxPage
  BY RekeyFacts, SomeTypes
<1>1. rekey[c].at = "pages" /\ pager[c].at = "idle" /\ codec' = codec
      /\ pager[c].eState \in Writer /\ n <= pager[c].dbSize /\ ~rekey[c].ok
  BY <1>0 DEF RekeyPage, PagerIdle, InWriter, StageOK
<1>2. PICK k \in Key : InvUnder(k)
  BY DEF RekeyInv
<1>3. n \in Page /\ n <= MaxPage
  <2>1. pager[c].dbSize \in 0 .. MaxPage /\ n \in 1 .. MaxPage + 1 /\ MaxPage \in Nat
    BY <1>0, PagerAssumption DEF PagerState, RekeyState
  <2> QED
    BY <1>0, <1>1, <2>1
<1>4. CASE Read(c, n) /\ UNCHANGED rekey
  <2>1. Acts(c) /\ UNCHANGED <<keys, db, committed>>
    BY <1>3, <1>4 DEF Acts, Call, Read, files, history
  <2>2. /\ pager'[c].at = "idle" /\ pager'[c].eState = pager[c].eState
        /\ pager'[c].dirty = pager[c].dirty /\ pager[c].cache[n] = Absent
        /\ \A q \in Page \ {n} : pager'[c].cache[q] = pager[c].cache[q]
        /\ pager'[c].cache[n] = Decrypt(rkey[c], db[n])
    BY <1>0, <1>3, <1>4, ReadOnly
  <2>3. Decrypt(rkey[c], db[n]) # Garbage /\ Decrypt(rkey[c], db[n]) # Absent
    <3>1. db[n] \in Stored
      BY <1>2, <1>3, <1>4, ReadStored
    <3> QED
      BY <1>0, <1>1, <1>2, <1>3, <1>4, <3>1, NextIsLegible, DecryptCases
  <2>4. KeysFit(c)
    <3>1. ~Begin(c)
      BY <1>1 DEF Begin, Ready, Writer, Modified
    <3>2. ~Commit(c)
      BY <1>2, <2>2, CommitFacts
    <3>3. ASSUME NEW p \in Page, Read(c, p) PROVE Decrypt(rkey[c], db[p]) # Garbage
      <4>1. p = n
        <5>1. pager[c].cache[p] = Absent
          BY <1>0, <3>3, ReadOnly
        <5>2. pager'[c].cache[p] # Absent
          <6>1. db[p] \in Stored /\ pager'[c].cache[p] = Decrypt(rkey[c], db[p])
            BY <1>0, <1>2, <3>3, ReadOnly, ReadStored
          <6> QED
            BY <1>0, <6>1, DecryptCases
        <5> QED
          BY <2>2, <5>1, <5>2
      <4> QED
        BY <2>3, <4>1
    <3> QED
      BY <3>1, <3>2, <3>3 DEF KeysFit
  <2>5. rekey'[c] = rekey[c]
    BY <1>4
  <2>6. StageOK(c)'
    BY <1>0, <1>1, <2>2, <2>5 DEF StageOK, Writer
  <2>7. KeyKept(c)
    <3>1. rkey'[c] = rkey[c] /\ wkey'[c] = wkey[c] /\ ~Done(c)'
      BY <1>1, <2>1, <2>5 DEF Done, keys
    <3> QED
      BY <1>0, <1>1, <1>2, <2>1, <3>1, NotCommitting
  <2>8. ReadableOK(c)'
    BY <1>0, <1>1, <2>2, <2>3, <2>5 DEF ReadableOK
  <2>9. PagesOK(c)'
    BY <1>0, <1>1, <2>1, <2>2, <2>5 DEF PagesOK, keys
  <2> QED
    BY <1>0, <1>1, <1>2, <1>4, <2>1, <2>4, <2>6, <2>7, <2>8, <2>9, ActsRekey DEF keys
<1>5. CASE Write(c, n) /\ rekey' = [rekey EXCEPT ![c].page = n + 1]
  <2>1. Acts(c) /\ UNCHANGED <<keys, db, committed>>
    BY <1>2, <1>3, <1>5, WriteMoves DEF Acts, Call
  <2>2. /\ pager'[c].at = "idle" /\ pager'[c].eState \in Modified
        /\ pager'[c].dirty = pager[c].dirty \cup {n} /\ n \notin pager[c].dirty
        /\ \A p \in Page : pager'[c].cache[p] \in {pager[c].cache[p]} \cup Content
    BY <1>2, <1>3, <1>5, WriteMoves
  <2>3. KeysFit(c)
    <3>1. ~Begin(c)
      BY <1>1 DEF Begin, Ready, Writer, Modified
    <3>2. ~Commit(c)
      BY <1>2, <2>2, CommitFacts
    <3>3. ASSUME NEW p \in Page, Read(c, p) PROVE FALSE
      <4>1. pager'[c].dirty = pager[c].dirty
        BY <1>0, <3>3, ReadOnly
      <4> QED
        BY <2>2, <4>1
    <3> QED
      BY <3>1, <3>2, <3>3 DEF KeysFit
  <2>4. /\ rekey' \in [Conn -> RekeyState] /\ \A d \in Conn \ {c} : rekey'[d] = rekey[d]
        /\ rekey'[c].at = "pages" /\ rekey'[c].page = n + 1 /\ ~rekey'[c].ok
    BY <1>0, <1>1, <1>3, <1>5, NextPage
  <2>5. StageOK(c)'
    BY <2>2, <2>4 DEF StageOK
  <2>6. KeyKept(c)
    <3>1. rkey'[c] = rkey[c] /\ wkey'[c] = wkey[c] /\ ~Done(c)'
      BY <2>1, <2>4 DEF Done, keys
    <3> QED
      BY <1>0, <1>1, <1>2, <2>1, <3>1, NotCommitting
  <2>7. ReadableOK(c)'
    BY <1>0, <1>1, <2>2, <2>4, Marks DEF ReadableOK
  <2>8. PagesOK(c)'
    <3>1. \A p \in Page : IF p < n THEN p \in pager[c].dirty
                                          \/ (db[p] \in Stored /\ db[p].key = wkey[c])
                          ELSE p \notin pager[c].dirty /\ db[p] = committed[p]
      BY <1>0, <1>1 DEF PagesOK
    <3>2. ASSUME NEW p \in Page
          PROVE  IF p < n + 1 THEN p \in pager'[c].dirty
                                     \/ (db'[p] \in Stored /\ db'[p].key = wkey'[c])
                 ELSE p \notin pager'[c].dirty /\ db'[p] = committed'[p]
      <4>1. p < n + 1 <=> p < n \/ p = n
        BY <1>0, <1>3
      <4>2. db' = db /\ committed' = committed /\ wkey' = wkey
        BY <2>1 DEF keys
      <4> QED
        BY <2>2, <3>1, <4>1, <4>2
    <3> QED
      BY <2>4, <3>2 DEF PagesOK
  <2> QED
    BY <1>1, <1>2, <2>1, <2>3, <2>4, <2>5, <2>6, <2>7, <2>8, ActsRekey DEF keys
<1>6. ASSUME n \in pager[c].dirty PROVE FALSE
  <2>1. ~(n < n)
    BY <1>0, <1>3
  <2> QED
    BY <1>0, <1>1, <1>3, <1>6, <2>1 DEF PagesOK
<1> QED
  BY <1>4, <1>5, <1>6 DEF RekeyPage

(* The commit begins when every page is dirty or under the new key.        *)
LEMMA RekeyCommitOK ==
  ASSUME RekeyInv, ~exposed', NEW c \in Conn, RekeyCommit(c)
  PROVE  RekeyInv'
<1>0. /\ rekey \in [Conn -> RekeyState] /\ rekey[c] \in RekeyState /\ StageOK(c) /\ CodecOK(c)
      /\ PagesOK(c) /\ TypeOK /\ pager[c] \in PagerState
      /\ InPlace(c) /\ Page = 1 .. MaxPage
  BY RekeyFacts, SomeTypes
<1>1. /\ rekey[c].at = "pages" /\ Commit(c) /\ Stage(c, "commit") /\ codec' = codec
      /\ rekey[c].page > pager[c].dbSize /\ ~rekey[c].ok
  BY <1>0 DEF RekeyCommit, StageOK
<1>2. PICK k \in Key : InvUnder(k)
  BY DEF RekeyInv
<1>3. /\ pager[c].at = "idle" /\ pager[c].eState \in {"WRITER_CACHEMOD", "WRITER_DBMOD"}
      /\ pager'[c].at \in {"header", "upgrade", "pending"} /\ pager'[c].goal = "commit"
      /\ UNCHANGED <<committed, keys>>
  BY <1>1, <1>2, CommitFacts
<1>4. pager'[c].eState \in Modified
  <2>1. \E d \in Content : Puts(pager'[c], c, 1, d)
    BY <1>1, <1>2, CommitFacts
  <2> QED
    BY <1>3, <2>1 DEF Puts, Modified
<1>5. Acts(c)
  BY <1>1 DEF Acts, Call
<1>6. KeysFit(c)
  <2>1. ~Begin(c)
    BY <1>3 DEF Begin, Ready
  <2>2. \A p \in Page : ~Read(c, p)
    BY <1>0, <1>3, ReadOnly
  <2>3. Rewritten(c)
    <3>1. ASSUME NEW p \in Page, p <= pager[c].dbSize PROVE p < rekey[c].page
      <4>1. pager[c].dbSize \in 0 .. MaxPage /\ rekey[c].page \in 1 .. MaxPage + 1
            /\ MaxPage \in Nat
        BY <1>0, PagerAssumption DEF PagerState, RekeyState
      <4> QED
        BY <1>0, <1>1, <3>1, <4>1
    <3>2. pager[c].eState \in Writer /\ pager[c].at # "unlock"
      BY <1>3 DEF Writer, Modified
    <3> QED
      BY <1>0, <1>1, <3>1, <3>2 DEF PagesOK, Rewritten
  <2> QED
    BY <2>1, <2>2, <2>3 DEF KeysFit
<1>7. /\ rekey' \in [Conn -> RekeyState] /\ \A d \in Conn \ {c} : rekey'[d] = rekey[d]
      /\ rekey'[c].at = "commit" /\ ~rekey'[c].ok
  BY <1>0, <1>1, StageFields DEF RekeyAt
<1>8. StageOK(c)'
  BY <1>3, <1>4, <1>7 DEF StageOK
<1>9. KeyKept(c)
  <2>1. ~Done(c)'
    BY <1>3, <1>4, <1>7 DEF Done, Ended, Modified
  <2> QED
    BY <1>0, <1>1, <1>2, <1>3, <1>5, <2>1, NotCommitting DEF keys
<1>10. ReadableOK(c)' /\ PagesOK(c)'
  BY <1>7 DEF ReadableOK, PagesOK
<1> QED
  BY <1>1, <1>2, <1>3, <1>5, <1>6, <1>7, <1>8, <1>9, <1>10, ActsRekey DEF keys

(* The rollback puts back the pages under the old key.                     *)
LEMMA RekeyUndoOK ==
  ASSUME RekeyInv, ~exposed', NEW c \in Conn, RekeyUndo(c)
  PROVE  RekeyInv'
<1>0. /\ rekey \in [Conn -> RekeyState] /\ StageOK(c) /\ CodecOK(c)
      /\ TypeOK /\ pager[c] \in PagerState /\ InPlace(c)
  BY RekeyFacts
<1>1. /\ rekey[c].at = "undo" /\ pager[c].at = "idle" /\ codec' = codec /\ ~rekey[c].ok
  BY <1>0 DEF RekeyUndo, PagerIdle, StageOK
<1>2. PICK k \in Key : InvUnder(k)
  BY DEF RekeyInv
<1>3. CASE Rollback(c) /\ UNCHANGED rekey
  <2>1. Acts(c) /\ UNCHANGED keys
    BY <1>3 DEF Acts, Call, Rollback, Undo
  <2>2. /\ pager'[c].at # "idle" /\ pager'[c].goal # "commit"
        /\ \/ pager'[c].eState = "WRITER_LOCKED"
           \/ pager'[c].eState \in Modified /\ pager'[c].goal = "rollback"
    <3>1. pager[c].eState \in Writer /\ Undo(c) /\ pager[c].goal = "none"
      BY <1>0, <1>1, <1>3 DEF Rollback, Ready, InPlace
    <3>2. CASE pager[c].eState = "WRITER_LOCKED"
      <4>1. pager' = [pager EXCEPT ![c].at = "release"]
        BY <3>1, <3>2 DEF Undo
      <4>2. pager'[c].at = "release" /\ pager'[c].eState = "WRITER_LOCKED"
            /\ pager'[c].goal = "none"
        BY <1>0, <3>1, <3>2, <4>1, GotoFields DEF Goto
      <4> QED
        BY <4>2
    <3>3. CASE pager[c].eState \in Modified
      <4>1. /\ pager'[c].eState = pager[c].eState /\ pager'[c].goal = "rollback"
            /\ pager'[c].at = IF pager[c].eState = "WRITER_DBMOD" THEN "replay" ELSE "finalize"
        BY <1>0, <3>1, <3>3, UndoFields DEF Modified
      <4> QED
        BY <3>3, <4>1
    <3> QED
      BY <3>1, <3>2, <3>3 DEF Writer
  <2>3. KeysFit(c)
    <3>1. ~Begin(c)
      BY <1>3 DEF Begin, Rollback, Ready, Writer, Modified
    <3>2. \A p \in Page : ~Read(c, p)
      BY <1>0, <2>2, ReadOnly
    <3>3. ~Commit(c)
      BY <1>2, <2>2, CommitFacts
    <3> QED
      BY <3>1, <3>2, <3>3 DEF KeysFit
  <2>4. rekey'[c] = rekey[c]
    BY <1>3
  <2>5. StageOK(c)'
    BY <1>1, <2>2, <2>4 DEF StageOK
  <2>6. KeyKept(c)
    <3>1. rkey'[c] = rkey[c] /\ wkey'[c] = wkey[c] /\ ~Done(c)'
      BY <1>1, <2>1, <2>4 DEF Done, keys
    <3> QED
      BY <1>0, <1>1, <1>2, <2>1, <3>1, NotCommitting
  <2>7. ReadableOK(c)' /\ PagesOK(c)'
    BY <1>1, <2>4 DEF ReadableOK, PagesOK
  <2> QED
    BY <1>0, <1>1, <1>2, <1>3, <2>1, <2>3, <2>5, <2>6, <2>7, ActsRekey DEF keys
<1>4. CASE ~InWriter(c) /\ Stage(c, "finish") /\ UNCHANGED vars
  <2>1. /\ rekey' \in [Conn -> RekeyState] /\ \A d \in Conn \ {c} : rekey'[d] = rekey[d]
        /\ rekey'[c].at = "finish" /\ ~rekey'[c].ok
    BY <1>0, <1>1, <1>4, StageFields DEF RekeyAt
  <2>2. UNCHANGED <<pager, rkey, wkey>>
    BY <1>4 DEF vars, keys
  <2>3. StageOK(c)'
    BY <1>1, <1>4, <2>1, <2>2 DEF StageOK, InWriter
  <2>4. KeyNow(c)' = KeyNow(c)
    BY <1>1, <2>1, <2>2 DEF KeyNow, Done
  <2>5. ReadableOK(c)' /\ PagesOK(c)'
    BY <2>1 DEF ReadableOK, PagesOK
  <2> QED
    BY <1>1, <1>4, <2>1, <2>3, <2>4, <2>5, StillRekey
<1> QED
  BY <1>3, <1>4 DEF RekeyUndo

(* The rest of a call of the pager, while ...                              *)
LEMMA GoesOn ==
  ASSUME NEW k \in Key, InvUnder(k), NEW c \in Conn, Continue(c)
  PROVE  Acts(c) /\ KeysFit(c) /\ UNCHANGED keys
<1>1. pager[c].at # "idle"
  BY ContinueMoves
<1>2. KeysFit(c)
  BY <1>1 DEF KeysFit, Begin, Read, Commit, Ready
<1>3. TypeOK
  BY DEF InvUnder
<1>4. UNCHANGED keys
  BY DEF Continue, HotExists, HotReserved, HotOpen, HotByte, HotLock, HotExclusive, HotFailed,
     Recover, Replay, ReplaySync, Finalize, DeleteFails, Downgrade, Regain, EndTransaction,
     Validate, Unlock, LockPending, LockUpgrade, LockExclusive, Reread,
     JournalHeader, JournalSync, WriteDb, DbSync, FailedCommit, Undo, IoError
<1> QED
  BY <1>2, <1>4 DEF Acts

(* ... the rekey begins or is undone, ...                                  *)
LEMMA GoesOnBeginUndo ==
  ASSUME RekeyInv, ~exposed', NEW c \in Conn, Continue(c), UNCHANGED <<codec, rekey>>,
         rekey[c].at \in {"begin", "undo"}
  PROVE  RekeyInv'
<1>0. /\ rekey \in [Conn -> RekeyState] /\ StageOK(c) /\ CodecOK(c) /\ ~rekey[c].ok
      /\ TypeOK /\ pager[c] \in PagerState /\ InPlace(c)
  BY RekeyFacts DEF StageOK
<1>2. PICK k \in Key : InvUnder(k)
  BY DEF RekeyInv
<1>3. Acts(c) /\ KeysFit(c) /\ UNCHANGED keys
  BY <1>2, GoesOn
<1>4. /\ pager[c].at # "idle"
      /\ \/ /\ pager'[c].eState \in {"OPEN", "READER"}
            /\ pager[c].eState \notin Writer \/ pager'[c].at = "idle"
         \/ /\ pager[c].eState \in Modified /\ pager'[c].eState \in Modified
            /\ pager[c].at # "unlock"
            /\ \/ pager'[c].goal = pager[c].goal
               \/ pager'[c].goal = "none" /\ pager'[c].at = "idle"
               \/ pager[c].at = "failed" /\ pager'[c].goal = "rollback"
  BY <1>2, ContinueMoves
<1>5. StageOK(c)'
  <2>1. CASE rekey[c].at = "begin"
    <3>1. pager'[c].eState \in {"OPEN", "READER"}
      BY <1>0, <1>4, <2>1 DEF StageOK
    <3> QED
      BY <1>0, <2>1, <3>1 DEF StageOK, Modified
  <2>2. CASE rekey[c].at = "undo"
    <3>1. pager[c].eState \in Writer
      BY <1>0, <1>4, <2>2 DEF StageOK, Writer
    <3> QED
      BY <1>0, <1>4, <2>2, <3>1 DEF StageOK, Modified
  <2> QED
    BY <2>1, <2>2
<1>6. KeyKept(c)
  <2>1. rkey'[c] = rkey[c] /\ wkey'[c] = wkey[c] /\ ~Done(c)'
    BY <1>3 DEF Done, keys
  <2> QED
    BY <1>0, <1>2, <1>3, <2>1, NotCommitting
<1>7. ReadableOK(c)' /\ PagesOK(c)'
  BY DEF ReadableOK, PagesOK
<1> QED
  BY <1>0, <1>2, <1>3, <1>5, <1>6, <1>7, ActsRekey DEF keys

(* ... pages are spilled, ...                                              *)
LEMMA GoesOnPages ==
  ASSUME RekeyInv, ~exposed', NEW c \in Conn, Continue(c), UNCHANGED <<codec, rekey>>,
         rekey[c].at = "pages"
  PROVE  RekeyInv'
<1>0. /\ rekey \in [Conn -> RekeyState] /\ StageOK(c) /\ CodecOK(c) /\ ~rekey[c].ok
      /\ ReadableOK(c) /\ PagesOK(c)
      /\ TypeOK /\ pager[c] \in PagerState /\ InPlace(c)
  BY RekeyFacts DEF StageOK
<1>2. PICK k \in Key : InvUnder(k)
  BY DEF RekeyInv
<1>3. Acts(c) /\ KeysFit(c) /\ UNCHANGED keys
  BY <1>2, GoesOn
<1>4. /\ pager[c].at # "idle"
      /\ \/ /\ pager'[c].eState \in {"OPEN", "READER"}
            /\ pager[c].eState \notin Writer \/ pager'[c].at = "idle"
         \/ /\ pager[c].eState \in Modified /\ pager'[c].eState \in Modified
            /\ pager[c].at # "unlock"
            /\ \/ pager'[c].goal = pager[c].goal
               \/ pager'[c].goal = "none" /\ pager'[c].at = "idle"
               \/ pager[c].at = "failed" /\ pager'[c].goal = "rollback"
  BY <1>2, ContinueMoves
<1>5. /\ pager[c].eState \in Modified
      /\ pager[c].at = "unlock" \/ pager[c].goal = "spill"
  BY <1>0, <1>4 DEF StageOK
<1>6. StageOK(c)' /\ ReadableOK(c)' /\ PagesOK(c)'
  <2>1. CASE pager[c].at = "unlock"
    <3>1. Unlock(c)
      BY <2>1 DEF Continue, HotExists, HotReserved, HotOpen, HotByte, HotLock, HotExclusive,
         HotFailed, Recover, Replay, ReplaySync, Finalize, DeleteFails, Downgrade, Regain,
         EndTransaction, Validate, LockPending, LockUpgrade, LockExclusive, Reread,
         JournalHeader, JournalSync, WriteDb, DbSync, FailedCommit, IoError
    <3>2. pager'[c].eState = "OPEN" /\ pager'[c].at = "idle" /\ pager'[c].cache = Empty
      BY <1>0, <3>1 DEF Unlock, PagerUnlock, Fresh, TypeOK
    <3> QED
      BY <1>0, <3>2, Marks DEF StageOK, ReadableOK, PagesOK, Empty, Writer, Modified
  <2>2. CASE pager[c].at # "unlock" /\ pager[c].goal = "spill"
    <3>1. /\ UNCHANGED committed /\ pager'[c].eState \in Modified
          /\ pager'[c].goal = "spill" \/ pager'[c].at = "idle"
          /\ \A p \in Page : pager'[c].cache[p] \in {pager[c].cache[p], Absent}
          /\ \/ pager'[c].at = "unlock"
             \/ UNCHANGED db /\ pager'[c].dirty = pager[c].dirty
             \/ \E p \in pager[c].dirty :
                  /\ pager'[c].dirty = pager[c].dirty \ {p}
                  /\ db'[p] \in Stored /\ db'[p].key = wkey[c]
                  /\ \A q \in Page \ {p} : db'[q] = db[q]
      BY <1>2, <1>5, <2>2, SpillMoves
    <3>2. StageOK(c)'
      BY <1>0, <3>1 DEF StageOK
    <3>3. ReadableOK(c)'
      BY <1>0, <3>1, Marks DEF ReadableOK
    <3>4. PagesOK(c)'
      <4>1. SUFFICES ASSUME pager'[c].at # "unlock", NEW q \in Page
            PROVE  IF q < rekey[c].page
                   THEN q \in pager'[c].dirty \/ (db'[q] \in Stored /\ db'[q].key = wkey[c])
                   ELSE q \notin pager'[c].dirty /\ db'[q] = committed[q]
        BY <1>3, <3>1 DEF PagesOK, keys
      <4>2. pager[c].eState \in Writer
        BY <1>5 DEF Writer
      <4>3. \A p \in Page :
              IF p < rekey[c].page
              THEN p \in pager[c].dirty \/ (db[p] \in Stored /\ db[p].key = wkey[c])
              ELSE p \notin pager[c].dirty /\ db[p] = committed[p]
        BY <1>0, <2>2, <4>2 DEF PagesOK
      <4>4. pager[c].dirty \subseteq Page
        BY <1>0 DEF PagerState
      <4> QED
        BY <3>1, <4>1, <4>3, <4>4
    <3> QED
      BY <3>2, <3>3, <3>4
  <2> QED
    BY <1>5, <2>1, <2>2
<1>7. KeyKept(c)
  <2>1. rkey'[c] = rkey[c] /\ wkey'[c] = wkey[c] /\ ~Done(c)'
    BY <1>3 DEF Done, keys
  <2> QED
    BY <1>0, <1>2, <1>3, <2>1, NotCommitting
<1> QED
  BY <1>0, <1>2, <1>3, <1>6, <1>7, ActsRekey DEF keys

(* ... and when it commits.                                                *)
LEMMA GoesOnCommit ==
  ASSUME RekeyInv, ~exposed', NEW c \in Conn, Continue(c), codec' = codec,
         rekey[c].at = "commit",
         rekey' = IF pager[c].at = "failed" THEN [rekey EXCEPT ![c].at = "undo"] ELSE rekey
  PROVE  RekeyInv'
<1>0. /\ rekey \in [Conn -> RekeyState] /\ StageOK(c) /\ CodecOK(c) /\ ~rekey[c].ok
      /\ TypeOK /\ pager[c] \in PagerState /\ InPlace(c)
  BY RekeyFacts DEF StageOK
<1>2. PICK k \in Key : InvUnder(k)
  BY DEF RekeyInv
<1>3. Acts(c) /\ KeysFit(c) /\ UNCHANGED keys
  BY <1>2, GoesOn
<1>4. /\ pager[c].at # "idle"
      /\ \/ /\ pager'[c].eState \in {"OPEN", "READER"}
            /\ pager[c].eState \notin Writer \/ pager'[c].at = "idle"
         \/ /\ pager[c].eState \in Modified /\ pager'[c].eState \in Modified
            /\ pager[c].at # "unlock"
            /\ \/ pager'[c].goal = pager[c].goal
               \/ pager'[c].goal = "none" /\ pager'[c].at = "idle"
               \/ pager[c].at = "failed" /\ pager'[c].goal = "rollback"
  BY <1>2, ContinueMoves
<1>5. pager[c].eState \in Modified /\ pager[c].goal = "commit"
  BY <1>0, <1>4 DEF StageOK
<1>6. CASE pager[c].at = "failed"
  <2>1. Stage(c, "undo")
    BY <1>6 DEF Stage
  <2>2. /\ rekey' \in [Conn -> RekeyState] /\ \A d \in Conn \ {c} : rekey'[d] = rekey[d]
        /\ rekey'[c].at = "undo" /\ ~rekey'[c].ok
    BY <1>0, <2>1, StageFields DEF RekeyAt
  <2>3. /\ FailedCommit(c) /\ UNCHANGED committed
        /\ pager[c].eState \in {"WRITER_CACHEMOD", "WRITER_DBMOD"}
    BY <1>0, <1>6 DEF InPlace, Continue, HotExists, HotReserved, HotOpen, HotByte, HotLock,
       HotExclusive, HotFailed, Recover, Replay, ReplaySync, Finalize, DeleteFails, Downgrade,
       Regain, EndTransaction, Validate, Unlock, LockPending, LockUpgrade, LockExclusive,
       Reread, JournalHeader, JournalSync, WriteDb, DbSync, FailedCommit, Undo, IoError, history
  <2>4. pager'[c].eState = pager[c].eState /\ pager'[c].goal = "rollback"
    BY <1>0, <2>3, UndoFields DEF FailedCommit
  <2>5. StageOK(c)'
    BY <1>5, <2>2, <2>4 DEF StageOK
  <2>6. KeyKept(c)
    <3>1. KeyNow(c) = rkey[c]
      BY <1>5, <1>6 DEF KeyNow, Done, Ended, Modified, StageOK
    <3>2. KeyNow(c)' = rkey[c]
      BY <1>3, <2>2 DEF KeyNow, Done, keys
    <3> QED
      BY <2>3, <3>1, <3>2 DEF KeyKept
  <2>7. ReadableOK(c)' /\ PagesOK(c)'
    BY <2>2 DEF ReadableOK, PagesOK
  <2> QED
    BY <1>2, <1>3, <2>2, <2>5, <2>6, <2>7, ActsRekey DEF keys
<1>7. CASE pager[c].at # "failed"
  <2>1. rekey' = rekey
    BY <1>7
  <2>2. StageOK(c)'
    <3>1. CASE pager'[c].eState \in {"OPEN", "READER"} /\ pager'[c].at = "idle"
      BY <1>0, <2>1, <3>1 DEF StageOK
    <3>2. CASE pager'[c].eState \in Modified
               /\ (pager'[c].goal = "commit" \/ (pager'[c].goal = "none" /\ pager'[c].at = "idle"))
      BY <1>0, <2>1, <3>2 DEF StageOK
    <3> QED
      BY <1>4, <1>5, <1>7, <3>1, <3>2 DEF Writer
  <2>3. KeyKept(c)
    <3>0. /\ rkey'[c] = rkey[c] /\ wkey'[c] = wkey[c] /\ pager[c].eState \notin {"OPEN", "READER"}
          /\ ~Read(c, 1)
      BY <1>3, <1>4, <1>5 DEF keys, Modified, Read, Ready
    <3>1. CASE /\ UNCHANGED committed /\ ~Ended(c)
               /\ pager'[c].at \notin {"downgrade", "regain", "release"}
               /\ pager'[c].eState # "READER"
      <4>1. ~Done(c) /\ ~Done(c)'
        BY <2>1, <3>0, <3>1 DEF Done, Ended
      <4> QED
        BY <3>0, <3>1, <4>1 DEF KeyKept, KeyNow
    <3>2. CASE /\ UNCHANGED committed /\ Ended(c)
               /\ \/ pager'[c].at \in {"downgrade", "regain", "release", "unlock"}
                  \/ pager'[c].eState = "READER"
      <4>1. Done(c) /\ (Done(c)' \/ pager'[c].at = "unlock")
        BY <2>1, <3>2 DEF Done, Ended
      <4> QED
        BY <3>0, <3>2, <4>1 DEF KeyKept, KeyNow
    <3>3. CASE /\ UnderKey(wkey[c], committed') /\ pager'[c].eState # "OPEN"
               /\ pager'[c].at \in {"downgrade", "regain", "release"}
      <4>1. Done(c)'
        BY <2>1, <3>3 DEF Done, Ended
      <4> QED
        BY <3>0, <3>3, <4>1 DEF KeyKept, KeyNow
    <3> QED
      BY <1>2, <1>5, <1>7, <3>1, <3>2, <3>3, CommitMoves
  <2>4. ReadableOK(c)' /\ PagesOK(c)'
    BY <2>1 DEF ReadableOK, PagesOK
  <2> QED
    BY <1>0, <1>2, <1>3, <2>1, <2>2, <2>3, <2>4, ActsRekey DEF keys
<1> QED
  BY <1>6, <1>7

(* A spill while pages are rewritten.                                      *)
LEMMA SpillsOK ==
  ASSUME RekeyInv, ~exposed', NEW c \in Conn, NEW p \in Page, Spill(c, p),
         UNCHANGED <<codec, rekey>>, rekey[c].at = "pages"
  PROVE  RekeyInv'
<1>0. /\ rekey \in [Conn -> RekeyState] /\ StageOK(c) /\ CodecOK(c) /\ ~rekey[c].ok
      /\ ReadableOK(c) /\ PagesOK(c)
      /\ TypeOK /\ pager[c] \in PagerState /\ InPlace(c)
  BY RekeyFacts DEF StageOK
<1>2. PICK k \in Key : InvUnder(k)
  BY DEF RekeyInv
<1>3. Acts(c) /\ UNCHANGED <<keys, db, committed>>
  BY DEF Acts, Call, Spill, files, history
<1>4. /\ pager[c].at = "idle" /\ pager[c].eState \in Modified
      /\ pager'[c].eState = pager[c].eState /\ pager'[c].goal = "spill"
      /\ pager'[c].cache = pager[c].cache /\ pager'[c].dirty = pager[c].dirty
  BY <1>0, SpillFields DEF Spill, Ready, Modified
<1>5. pager'[c].at # "idle"
  BY <1>0, SpillFields DEF LockStart
<1>6. KeysFit(c)
  <2>1. ~Begin(c)
    BY <1>4 DEF Begin, Ready, Modified
  <2>2. \A q \in Page : ~Read(c, q)
    BY <1>0, <1>5, ReadOnly
  <2>3. ~Commit(c)
    BY <1>2, <1>4, CommitFacts
  <2> QED
    BY <2>1, <2>2, <2>3 DEF KeysFit
<1>7. StageOK(c)'
  BY <1>0, <1>4 DEF StageOK
<1>8. ReadableOK(c)' /\ PagesOK(c)'
  BY <1>0, <1>3, <1>4 DEF ReadableOK, PagesOK, keys
<1>9. KeyKept(c)
  <2>1. rkey'[c] = rkey[c] /\ wkey'[c] = wkey[c] /\ ~Done(c)'
    BY <1>3 DEF Done, keys
  <2> QED
    BY <1>0, <1>2, <1>3, <2>1, NotCommitting
<1> QED
  BY <1>0, <1>2, <1>3, <1>6, <1>7, <1>8, <1>9, ActsRekey DEF keys

(* The cases together: a step of the pager for a rekey.                    *)
LEMMA RekeyPagerOK ==
  ASSUME RekeyInv, ~exposed', NEW c \in Conn, RekeyPager(c)
  PROVE  RekeyInv'
<1>1. CASE Continue(c) /\ rekey[c].at = "commit"
  BY <1>1, GoesOnCommit DEF RekeyPager
<1>2. CASE Continue(c) /\ rekey[c].at \in {"begin", "undo"}
  BY <1>2, GoesOnBeginUndo DEF RekeyPager
<1>3. CASE Continue(c) /\ rekey[c].at = "pages"
  BY <1>3, GoesOnPages DEF RekeyPager
<1>4. CASE rekey[c].at = "pages" /\ \E p \in Page : Spill(c, p)
  BY <1>4, SpillsOK DEF RekeyPager
<1> QED
  BY <1>1, <1>2, <1>3, <1>4 DEF RekeyPager

(* Between its rekeys a connection has one key, that of the database.      *)
LEMMA OrdinaryOK ==
  ASSUME RekeyInv, ~exposed', RekeyAlone, NEW c \in Conn, Ordinary(c)
  PROVE  RekeyInv'
<1>0. /\ rekey \in [Conn -> RekeyState] /\ StageOK(c) /\ CodecOK(c) /\ KnownOK(c)
      /\ TypeOK /\ pager[c] \in PagerState /\ rkey[c] \in Key
      /\ InPlace(c) /\ ConnOK(c)
  BY RekeyFacts
<1>1. /\ rekey[c].at = "idle" /\ UNCHANGED <<codec, rekey>>
      /\ Call(c) \/ Continue(c)
  BY DEF Ordinary, RekeyAlone
<1>2. PICK k \in Key : InvUnder(k)
  BY DEF RekeyInv
<1>3. Acts(c)
  BY <1>1 DEF Acts
<1>4. UNCHANGED keys
  <2>1. CASE Call(c)
    BY <2>1 DEF Call, SharedLock, EndRead, Begin, Commit, Rollback, Undo, Read, Write, Spill
  <2>2. CASE Continue(c)
    BY <1>2, <2>2, GoesOn
  <2> QED
    BY <1>1, <2>1, <2>2
<1>5. wkey[c] = rkey[c]
  BY <1>0, <1>1 DEF CodecOK
<1>6. KeysFit(c)
  <2>1. Begin(c) => KnowsKey(c)
    BY <1>0, <1>1, KnownKey DEF Begin, Ready
  <2>2. Rewritten(c)
    BY <1>5 DEF Rewritten
  <2>3. ASSUME NEW p \in Page, Read(c, p), p # 1, pager[c].cache[1] # Garbage
        PROVE  Decrypt(rkey[c], db[p]) # Garbage
    <3>1. pager[c].at = "idle" /\ pager[c].eState # "OPEN" /\ pager[c].cache[1] # Absent
      BY <2>3 DEF Read, Ready, Writer, Modified
    <3>2. rkey[c] = k
      BY <1>0, <1>1, <1>2, <2>3, <3>1, KnownKey, ActorFacts
    <3>3. db[p] \in Stored /\ db[p].key = k
      BY <1>2, <1>5, <2>3, <3>2, ReadStored
    <3> QED
      BY <3>2, <3>3, DecryptCases, Marks
  <2> QED
    BY <2>1, <2>2, <2>3 DEF KeysFit
<1>7. StageOK(c)' /\ ReadableOK(c)' /\ PagesOK(c)'
  BY <1>0, <1>1 DEF StageOK, ReadableOK, PagesOK
<1>8. KeyKept(c)
  BY <1>0, <1>1, <1>2, <1>3, <1>4, NotCommitting DEF keys
<1> QED
  BY <1>0, <1>1, <1>2, <1>3, <1>4, <1>6, <1>7, <1>8, ActsRekey DEF keys

-----------------------------------------------------------------------------
(* Faults.  A process that dies leaves no codec.                           *)
LEMMA NoCodecType ==
  NoCodec \in CodecState /\ NoCodec = Keyed(NoKey) /\ ReadKey(NoCodec) = NoKey
  /\ WriteKey(NoCodec) = NoKey /\ NoKey \in Key
BY RekeyAssumption, KeyedType DEF Keyed

(* A process dies in the middle of its rekey, or of another call.          *)
LEMMA RekeyCrashOK ==
  ASSUME RekeyInv, ~exposed', NEW c \in Conn, RekeyCrash(c)
  PROVE  RekeyInv'
<1>0. /\ rekey \in [Conn -> RekeyState] /\ TypeOK
      /\ codec \in [Conn -> CodecState] /\ rkey \in [Conn -> Key] /\ wkey \in [Conn -> Key]
      /\ RekeyTypeOK /\ \A d \in Conn : RekeyConnOK(d)
  BY RekeyFacts DEF RekeyInv, RekeyTypeOK, TypeOK, CodecState
<1>1. PICK k \in Key : InvUnder(k)
  BY DEF RekeyInv
<1>2. /\ rkey' \in [Conn -> Key] /\ wkey' \in [Conn -> Key] /\ codec' \in [Conn -> CodecState]
      /\ rkey'[c] = NoKey /\ wkey'[c] = NoKey /\ codec'[c] = NoCodec
      /\ \A d \in Conn \ {c} :
           rkey'[d] = rkey[d] /\ wkey'[d] = wkey[d] /\ codec'[d] = codec[d]
  BY <1>0, NoCodecType DEF RekeyCrash, SetCodec
<1>3. /\ rekey' \in [Conn -> RekeyState] /\ rekey'[c] = NotRekeying
      /\ \A d \in Conn \ {c} : rekey'[d] = rekey[d]
  BY <1>0, NotRekeyingType DEF RekeyCrash
<1>4. Acts(c)
  BY <1>2 DEF RekeyCrash, Acts, Ends
<1>5. KeysFit(c)
  <2>1. nfault \in Nat /\ nfault' = nfault + 1
    BY <1>0, PagerAssumption DEF RekeyCrash, Die, Fault, TypeOK
  <2>2. nfault' # nfault
    BY <2>1
  <2> QED
    BY <2>2 DEF KeysFit, Begin, Read, Commit, history
<1>6. \E n \in Key : InvUnder(n)'
  BY <1>1, <1>4, <1>5, InvStep
<1>7. RekeyTypeOK'
  <2>1. TypeOK'
    BY <1>6 DEF InvUnder
  <2>2. \A d \in Conn : rkey'[d] = ReadKey(codec'[d]) /\ wkey'[d] = WriteKey(codec'[d])
    BY <1>0, <1>2, NoCodecType DEF RekeyTypeOK
  <2>3. codec' \in [Conn -> [attached : BOOLEAN, isEncrypted : BOOLEAN,
                             hasReadKey : BOOLEAN, hasWriteKey : BOOLEAN,
                             readKey : Key, writeKey : Key]]
    BY <1>2 DEF CodecState
  <2>4. rekey' \in [Conn -> [at : RekeyAt, page : 1 .. MaxPage + 1, ok : BOOLEAN]]
    BY <1>3 DEF RekeyState
  <2> QED
    BY <2>1, <2>2, <2>3, <2>4 DEF RekeyTypeOK
<1>8. RekeyConnOK(c)'
  <2>1. pager'[c] = Fresh
    BY <1>0 DEF RekeyCrash, Die, TypeOK
  <2>2. rekey'[c].at = "idle" /\ rekey'[c].page = 1 /\ ~rekey'[c].ok
    BY <1>3 DEF NotRekeying
  <2>3. pager'[c].cache[1] = Absent
    BY <2>1, SomeTypes DEF Fresh, Empty
  <2>4. CodecOK(c)'
    BY <1>2, <2>2, NoCodecType DEF CodecOK
  <2>5. StageOK(c)'
    BY <2>2 DEF StageOK
  <2> QED
    BY <2>2, <2>3, <2>4, <2>5 DEF RekeyConnOK, KnownOK, ReadableOK, PagesOK
<1>9. ASSUME NEW d \in Conn, d # c PROVE RekeyConnOK(d)'
  BY <1>0, <1>1, <1>2, <1>3, <1>4, <1>9, ActsOthersRekey
<1> QED
  BY <1>6, <1>7, <1>8, <1>9 DEF RekeyInv

(* The power fails, and with it every process and all unsynced writes.     *)
LEMMA RekeyPowerLossOK ==
  ASSUME RekeyInv, RekeyPowerLoss
  PROVE  RekeyInv'
<1>1. PICK k \in Key : InvUnder(k)
  BY DEF RekeyInv
<1>2. /\ LosePower /\ codec' = [c \in Conn |-> NoCodec]
      /\ rkey' = [c \in Conn |-> NoKey] /\ wkey' = [c \in Conn |-> NoKey]
      /\ rekey' = [c \in Conn |-> NotRekeying]
  BY DEF RekeyPowerLoss
<1>3. rkey' \in [Conn -> Key] /\ wkey' \in [Conn -> Key]
  BY <1>2, NoCodecType
<1>4. \E n \in Key : UnderKey(n, committed')
  <2>1. committed' \in {committed, jrnlOld.image}
    BY <1>1, <1>2, PowerLossFiles
  <2>2. PICK old \in Key : UnderKey(old, jrnlOld.image)
    BY <1>1 DEF InvUnder, KeysOK
  <2>3. UnderKey(k, committed)
    BY <1>1 DEF InvUnder, KeysOK
  <2>4. CASE committed' = committed
    BY <2>3, <2>4 DEF UnderKey
  <2>5. CASE committed' = jrnlOld.image
    BY <2>2, <2>5 DEF UnderKey
  <2> QED
    BY <2>1, <2>4, <2>5
<1>5. \E n \in Key : InvUnder(n)'
  BY <1>1, <1>2, <1>3, <1>4, PowerLossOK
<1>6. RekeyTypeOK'
  <2>1. TypeOK'
    BY <1>5 DEF InvUnder
  <2>2. \A d \in Conn : rkey'[d] = ReadKey(codec'[d]) /\ wkey'[d] = WriteKey(codec'[d])
    BY <1>2, NoCodecType
  <2>3. codec' \in [Conn -> [attached : BOOLEAN, isEncrypted : BOOLEAN,
                             hasReadKey : BOOLEAN, hasWriteKey : BOOLEAN,
                             readKey : Key, writeKey : Key]]
    BY <1>2, NoCodecType DEF CodecState
  <2>4. rekey' \in [Conn -> [at : RekeyAt, page : 1 .. MaxPage + 1, ok : BOOLEAN]]
    BY <1>2, NotRekeyingType DEF RekeyState
  <2> QED
    BY <2>1, <2>2, <2>3, <2>4 DEF RekeyTypeOK
<1>7. \A c \in Conn : RekeyConnOK(c)'
  <2> TAKE c \in Conn
  <2>1. pager'[c] = Fresh
    BY <1>2 DEF LosePower
  <2>2. rekey'[c].at = "idle" /\ rekey'[c].page = 1 /\ ~rekey'[c].ok
    BY <1>2 DEF NotRekeying
  <2>3. pager'[c].cache[1] = Absent
    BY <2>1, SomeTypes DEF Fresh, Empty
  <2>4. CodecOK(c)'
    BY <1>2, <2>2, NoCodecType DEF CodecOK
  <2>5. StageOK(c)'
    BY <2>2 DEF StageOK
  <2> QED
    BY <2>2, <2>3, <2>4, <2>5 DEF RekeyConnOK, KnownOK, ReadableOK, PagesOK
<1> QED
  BY <1>5, <1>6, <1>7 DEF RekeyInv

-----------------------------------------------------------------------------
(* The invariant.                                                          *)
LEMMA RekeyInitOK ==
  ASSUME RekeyInit
  PROVE  RekeyInv
<1>1. /\ Init /\ codec = [c \in Conn |-> Keyed(rkey[c])]
      /\ rekey = [c \in Conn |-> NotRekeying]
  BY DEF RekeyInit
<1>2. PICK k \in Key : InvUnder(k)
  BY <1>1, InitOK DEF PagerInv
<1>3. TypeOK /\ wkey = rkey /\ pager = [c \in Conn |-> Fresh]
  BY <1>1, <1>2 DEF InvUnder, Init
<1>4. \A c \in Conn : /\ codec[c] = Keyed(rkey[c]) /\ rkey[c] \in Key /\ wkey[c] = rkey[c]
                      /\ rekey[c] = NotRekeying /\ pager[c] = Fresh
  BY <1>1, <1>3 DEF TypeOK
<1>5. RekeyTypeOK
  <2>1. \A c \in Conn : rkey[c] = ReadKey(codec[c]) /\ wkey[c] = WriteKey(codec[c])
    BY <1>4, KeyedType
  <2>2. codec \in [Conn -> CodecState]
    BY <1>1, <1>4, KeyedType
  <2>3. codec \in [Conn -> [attached : BOOLEAN, isEncrypted : BOOLEAN,
                            hasReadKey : BOOLEAN, hasWriteKey : BOOLEAN,
                            readKey : Key, writeKey : Key]]
    BY <2>2 DEF CodecState
  <2>4. rekey \in [Conn -> [at : RekeyAt, page : 1 .. MaxPage + 1, ok : BOOLEAN]]
    BY <1>1, NotRekeyingType DEF RekeyState
  <2> QED
    BY <1>3, <2>1, <2>3, <2>4 DEF RekeyTypeOK
<1>6. \A c \in Conn : RekeyConnOK(c)
  <2> TAKE c \in Conn
  <2>2. rekey[c].at = "idle" /\ rekey[c].page = 1 /\ ~rekey[c].ok
    BY <1>4 DEF NotRekeying
  <2>3. pager[c].cache[1] = Absent
    BY <1>4, SomeTypes DEF Fresh, Empty
  <2>4. CodecOK(c)
    BY <1>4, <2>2 DEF CodecOK
  <2>5. StageOK(c)
    BY <2>2 DEF StageOK
  <2> QED
    BY <2>2, <2>3, <2>4, <2>5 DEF RekeyConnOK, KnownOK, ReadableOK, PagesOK
<1> QED
  BY <1>2, <1>5, <1>6 DEF RekeyInv

(* Every step keeps the invariant.                                         *)
LEMMA RekeyInductive ==
  ASSUME RekeyInv, [RekeyNext]_rekeyVars, ~exposed', RekeyAlone
  PROVE  RekeyInv'
<1>1. CASE \E c \in Conn, k \in Key : Open(c, k)
  BY <1>1, SetKeyOK
<1>2. CASE \E c \in Conn : RekeyStep(c)
  BY <1>2, RekeyEnterOK, RekeyBeginOK, RekeyPageOK, RekeyCommitOK, RekeyFailOK,
     RekeyCommittedOK, RekeyUndoOK, RekeyPagerOK, RekeyFinishOK DEF RekeyStep
<1>3. CASE \E c \in Conn : Ordinary(c) \/ RekeyCrash(c)
  BY <1>3, OrdinaryOK, RekeyCrashOK
<1>4. CASE \E c \in Rekeyers, k \in RekeyTo : RekeyStart(c, k)
  <2>1. Rekeyers \subseteq Conn
    BY RekeyAssumption
  <2> QED
    BY <1>4, <2>1, RekeyStartOK
<1>5. CASE RekeyPowerLoss
  BY <1>5, RekeyPowerLossOK
<1>6. CASE UNCHANGED rekeyVars
  <2>1. UNCHANGED <<vars, codec, rekey>>
    BY <1>6 DEF rekeyVars
  <2>2. PICK k \in Key : InvUnder(k)
    BY DEF RekeyInv
  <2>3. RekeyTypeOK /\ \A c \in Conn : RekeyConnOK(c)
    BY DEF RekeyInv
  <2>4. InvUnder(k)'
    BY <2>1, <2>2, KeysChange DEF vars, keys, InvUnder, TypeOK
  <2>5. RekeyTypeOK'
    <3>1. TypeOK' /\ UNCHANGED <<codec, rekey, rkey, wkey>>
      BY <2>1, <2>4 DEF InvUnder, vars, keys
    <3> QED
      BY <2>3, <3>1 DEF RekeyTypeOK
  <2>6. \A c \in Conn : RekeyConnOK(c)'
    BY <2>1, <2>3, OthersRekey DEF vars, files, keys, history
  <2> QED
    BY <2>4, <2>5, <2>6 DEF RekeyInv
<1> QED
  BY <1>1, <1>2, <1>3, <1>4, <1>5, <1>6 DEF RekeyNext

(* What a step of a rekey is to the pager: a step, a process that dies, or *)
(* nothing at all.                                                         *)
RekeyMoves(c) ==
  Call(c) \/ Continue(c) \/ Die(c) \/ UNCHANGED history

LEMMA RekeyMovesAll ==
  ASSUME [RekeyNext]_rekeyVars
  PROVE  \/ UNCHANGED rekeyVars
         \/ RekeyPowerLoss
         \/ \E c \in Conn : RekeyMoves(c)
<1> USE DEF RekeyMoves, vars
<1>1. ASSUME NEW c \in Conn, RekeyStep(c) PROVE RekeyMoves(c)
  <2>1. CASE RekeyEnter(c) \/ RekeyFail(c) \/ RekeyCommitted(c) \/ RekeyFinish(c)
    BY <2>1 DEF RekeyEnter, RekeyFail, RekeyCommitted, RekeyFinish
  <2>2. CASE RekeyBegin(c)
    BY <2>2, SomeTypes DEF RekeyBegin, Call
  <2>3. CASE RekeyPage(c)
    <3>1. PICK n : UNCHANGED vars \/ Read(c, n) \/ Write(c, n)
      BY <2>3 DEF RekeyPage
    <3>2. UNCHANGED history
      BY <3>1 DEF Read, Write
    <3> QED
      BY <3>2
  <2>4. CASE RekeyCommit(c)
    BY <2>4 DEF RekeyCommit, Call
  <2>5. CASE RekeyUndo(c)
    BY <2>5 DEF RekeyUndo, Call
  <2>6. CASE RekeyPager(c)
    BY <2>6 DEF RekeyPager, Call
  <2> QED
    BY <1>1, <2>1, <2>2, <2>3, <2>4, <2>5, <2>6 DEF RekeyStep
<1>2. ASSUME NEW c \in Conn, Ordinary(c) \/ RekeyCrash(c) \/ \E k \in Key : Open(c, k)
      PROVE  RekeyMoves(c)
  BY <1>2 DEF Ordinary, RekeyCrash, Open
<1>3. ASSUME NEW c \in Rekeyers, NEW k \in RekeyTo, RekeyStart(c, k) PROVE RekeyMoves(c)
  BY <1>3 DEF RekeyStart
<1> QED
  BY <1>1, <1>2, <1>3, RekeyAssumption DEF RekeyNext

(* A reader without its lock is remembered in a rekey too.                 *)
LEMMA RekeyExposedStays ==
  ASSUME [RekeyNext]_rekeyVars, exposed
  PROVE  exposed'
<1> USE DEF history
<1>1. CASE UNCHANGED rekeyVars
  BY <1>1 DEF rekeyVars, vars
<1>2. CASE RekeyPowerLoss
  BY <1>2 DEF RekeyPowerLoss, LosePower
<1>3. ASSUME NEW c \in Conn, RekeyMoves(c) PROVE exposed'
  BY <1>3, StepExposes DEF RekeyMoves, vars
<1> QED
  BY <1>1, <1>2, <1>3, RekeyMovesAll

(* On Unix there is none.                                                  *)
LEMMA RekeyNobodyExposed ==
  ASSUME Vfs = "unix", RekeyInv, [RekeyNext]_rekeyVars, ~exposed
  PROVE  ~exposed'
<1> USE DEF history
<1>0. Control
  BY DEF RekeyInv, InvUnder
<1>1. CASE UNCHANGED rekeyVars
  BY <1>1 DEF rekeyVars, vars
<1>2. CASE RekeyPowerLoss
  BY <1>2 DEF RekeyPowerLoss, LosePower
<1>3. ASSUME NEW c \in Conn, RekeyMoves(c) PROVE ~exposed'
  BY <1>0, <1>3, NobodyExposed DEF RekeyMoves, vars
<1> QED
  BY <1>1, <1>2, <1>3, RekeyMovesAll

(* The invariant holds in every state that a rekey can reach, if it is     *)
(* called as it must be (the findings tell what happens otherwise), unless *)
(* Windows has left a reader without its read lock.                        *)
THEOREM RekeyInvariance ==
  ASSUME RekeyAlone
  PROVE  RekeySpec => [](exposed \/ RekeyInv)
<1> DEFINE IInv == exposed \/ RekeyInv
<1>1. RekeyInit => IInv
  BY RekeyInitOK
<1>2. IInv /\ [RekeyNext]_rekeyVars => IInv'
  BY RekeyInductive, RekeyExposedStays
<1> QED
  BY <1>1, <1>2, PTL DEF RekeySpec

(* That cannot happen on Unix, where what follows holds without exception. *)
THEOREM RekeyKeepsLocks ==
  ASSUME Vfs = "unix", RekeyAlone
  PROVE  RekeySpec => []~exposed
<1> DEFINE IInv == RekeyInv /\ ~exposed
<1>1. RekeyInit => IInv
  BY RekeyInitOK DEF RekeyInit, Init
<1>2. IInv /\ [RekeyNext]_rekeyVars => IInv'
  BY RekeyInductive, RekeyNobodyExposed
<1> QED
  BY <1>1, <1>2, PTL DEF RekeySpec

(* Every variable keeps its type: the keys that the pager uses are those   *)
(* that the flags of the codec select.                                     *)
THEOREM RekeyTypeCorrect ==
  ASSUME RekeyAlone
  PROVE  RekeySpec => [](exposed \/ RekeyTypeOK)
<1>1. RekeyInv => RekeyTypeOK
  BY DEF RekeyInv
<1> QED
  BY <1>1, RekeyInvariance, PTL

(* Rolling the journal back gives the database of the last commit, in the  *)
(* middle of a rekey too.                                                  *)
THEOREM RekeyIsAtomic ==
  ASSUME RekeyAlone
  PROVE  RekeySpec => []Recoverable
<1>1. exposed \/ RekeyInv => Recoverable
  BY InvRecoverable DEF RekeyInv, Recoverable
<1> QED
  BY <1>1, RekeyInvariance, PTL

(* One key opens all of what is left when the processes die.               *)
THEOREM DatabaseUnderOneKey ==
  ASSUME RekeyAlone
  PROVE  RekeySpec => [](exposed \/ OneKey)
<1>1. ASSUME NEW k \in Key, InvUnder(k), ~exposed PROVE OneKey
  <2>1. Surviving = committed
    BY <1>1, InvRecoverable DEF Recoverable
  <2>2. \A p \in Page : committed[p] # Absent => committed[p].key = k
    BY <1>1 DEF InvUnder, KeysOK, UnderKey
  <2> QED
    BY <2>1, <2>2 DEF OneKey
<1>2. RekeyInv => exposed \/ OneKey
  BY <1>1 DEF RekeyInv
<1> QED
  BY <1>2, RekeyInvariance, PTL

(* A connection that has read the database keeps its key.                  *)
THEOREM ConnectionKeepsKey ==
  ASSUME RekeyAlone
  PROVE  RekeySpec => [](exposed \/ KeyFollowsFile)
<1>1. ASSUME RekeyInv, NEW c \in Conn, rekey[c].at = "idle",
             pager[c].eState \in {"READER"} \cup Writer, pager[c].at # "unlock",
             pager[c].cache[1] \notin {Absent, Garbage}
      PROVE  rkey[c] = committed[1].key
  <2>1. StageOK(c) /\ KnownOK(c)
    BY <1>1, RekeyFacts
  <2>2. pager[c].eState # "OPEN"
    BY <1>1 DEF Writer, Modified
  <2> QED
    BY <1>1, <2>1, <2>2, KnownKey DEF KnowsKey
<1>2. RekeyInv => KeyFollowsFile
  BY <1>1 DEF KeyFollowsFile
<1> QED
  BY <1>2, RekeyInvariance, PTL

(* Between rekeys pages are written with the key they are read with.       *)
THEOREM WriteKeyIsRestored ==
  ASSUME RekeyAlone
  PROVE  RekeySpec => [](exposed \/ WriteKeyRestored)
<1>1. RekeyInv => WriteKeyRestored
  BY DEF RekeyInv, RekeyConnOK, CodecOK, WriteKeyRestored
<1> QED
  BY <1>1, RekeyInvariance, PTL

(* No page that is rewritten was read with another key than its own.       *)
THEOREM NothingIsGarbled ==
  ASSUME RekeyAlone
  PROVE  RekeySpec => [](exposed \/ NothingGarbled)
<1>1. RekeyInv => NothingGarbled
  BY DEF RekeyInv, RekeyConnOK, ReadableOK, NothingGarbled
<1> QED
  BY <1>1, RekeyInvariance, PTL

=============================================================================
