------------------------- MODULE MultiCommitProofs --------------------------
(***************************************************************************)
(* The invariant of MultiCommit is inductive, and what follows from it.    *)
(* First where each action leaves its connection, the types, the order of  *)
(* the steps and the locks; then the files; then the clauses of the other  *)
(* connections and of the one that moves; then the master journals and the *)
(* two promises; then a power failure.                                     *)
(***************************************************************************)
EXTENDS MultiInvariant, FiniteSetTheorems, WellFoundedInduction, TLAPS

(* The first of some files is one of them.                                 *)
LEMMA LeastFile ==
  ASSUME NEW S \in SUBSET File, S # {}
  PROVE  Min(S) \in S
<1> DEFINE R == StrictSubsetOrdering(File)
           T == {1 .. x : x \in S}
<1>0. NFile \in Nat
  BY MultiAssumption
<1>1. IsWellFoundedOn(R, SUBSET File)
  <2>1. IsFiniteSet(File)
    BY <1>0, FS_Interval DEF File
  <2> QED
    BY <2>1, FS_FiniteSubsetsOfFinite, FS_StrictSubsetOrderingWellFounded
<1>2. T \subseteq SUBSET File /\ T # {}
  <2>1. \A x \in S : 1 .. x \in SUBSET File /\ 1 .. x \in T
    BY <1>0 DEF File
  <2> QED
    BY <2>1
<1>3. \E t \in T : \A u \in T : ~(<<u, t>> \in R)
  <2> HIDE DEF R, T
  <2> QED
    BY <1>1, <1>2, WFMin
<1>4. PICK x \in S : \A u \in T : ~(<<u, 1 .. x>> \in R)
  BY <1>3
<1>5. ASSUME NEW y \in S, y < x PROVE FALSE
  <2>1. <<1 .. y, 1 .. x>> \notin R
    BY <1>4
  <2>2. 1 .. y \subseteq 1 .. x /\ x \in 1 .. x /\ x \notin 1 .. y
    BY <1>0, <1>5 DEF File
  <2>3. 1 .. y \in SUBSET File /\ 1 .. x \in SUBSET File
    BY <1>0 DEF File
  <2> QED
    BY <2>1, <2>2, <2>3 DEF StrictSubsetOrdering
<1>6. \E z \in S : \A y \in S : z =< y
  BY <1>0, <1>5 DEF File
<1> QED
  BY <1>6 DEF Min

At == Growing \cup Rolling \cup Filing \cup Ending

(* The file that a loop is at is one of those it has yet to visit.         *)
LEMMA ThisFile ==
  ASSUME Types, NEW c \in Conn, con[c].todo # {}
  PROVE  This(c) \in con[c].todo /\ This(c) \in File
  BY LeastFile DEF This, Types, State

-----------------------------------------------------------------------------
(* Where a step may leave its connection.                                  *)
Moves(c) ==
  /\ con' \in [Conn -> State]
  /\ \A d \in Conn \ {c} : con'[d] = con[d]

Goes(c, at, todo) ==
  /\ Moves(c)
  /\ con'[c].at = at /\ con'[c].todo = todo
  /\ con'[c].tid = con[c].tid /\ con'[c].files = con[c].files
  /\ con'[c].cur = con[c].cur /\ con'[c].master = con[c].master
  /\ con'[c].res = con[c].res /\ con'[c].left = con[c].left

Rests(c, tid, fs) ==
  /\ Moves(c)
  /\ con'[c].at = "idle" /\ con'[c].tid = tid /\ con'[c].files = fs
  /\ con'[c].todo = {} /\ con'[c].cur = 0 /\ con'[c].master = 0
  /\ con'[c].res = FALSE /\ con'[c].left = {}

Checks(c, f, todo, tid, fs) ==
  /\ Moves(c)
  /\ con'[c].at = "check" /\ con'[c].tid = tid /\ con'[c].files = fs
  /\ con'[c].todo = todo /\ con'[c].cur = f /\ con'[c].master = 0

(* A step that sets where a connection is and what it has yet to visit.    *)
LEMMA GoesOn ==
  ASSUME Types, NEW c \in Conn, NEW at \in At, NEW todo \in SUBSET File,
         con' = [con EXCEPT ![c] = [con[c] EXCEPT !.at = at, !.todo = todo]]
  PROVE  Goes(c, at, todo)
<1>1. [con[c] EXCEPT !.at = at, !.todo = todo] \in State
  BY DEF Types, State, At
<1> QED
  BY <1>1 DEF Goes, Moves, Types, State

(* A step that sets only where it is.                                      *)
LEMMA GoesTo ==
  ASSUME Types, NEW c \in Conn, NEW at \in At, con' = [con EXCEPT ![c].at = at]
  PROVE  Goes(c, at, con[c].todo)
<1>1. [con[c] EXCEPT !.at = at] \in State
  BY DEF Types, State, At
<1> QED
  BY <1>1 DEF Goes, Moves, Types, State

(* The next file of a loop, or its end.                                    *)
LEMMA Advances ==
  ASSUME Types, NEW c \in Conn, NEW more \in At, NEW done \in At,
         con' = [con EXCEPT ![c] = Advance(con[c], more, done)]
  PROVE  \/ con[c].todo \ {This(c)} = {} /\ Goes(c, done, con[c].files)
         \/ con[c].todo \ {This(c)} # {} /\ Goes(c, more, con[c].todo \ {This(c)})
<1> DEFINE rest == con[c].todo \ {This(c)}
<1>0. rest \in SUBSET File /\ con[c].files \in SUBSET File
  BY DEF Types, State
<1>1. CASE rest = {}
  <2>1. con' = [con EXCEPT ![c] = [con[c] EXCEPT !.at = done, !.todo = con[c].files]]
    BY <1>1 DEF Advance, This
  <2> QED
    BY <1>0, <1>1, <2>1, GoesOn
<1>2. CASE rest # {}
  <2>1. con' = [con EXCEPT ![c] = [con[c] EXCEPT !.at = more, !.todo = rest]]
    BY <1>2 DEF Advance, This
  <2> QED
    BY <1>0, <1>2, <2>1, GoesOn
<1> QED
  BY <1>1, <1>2

(* A connection that does nothing.                                         *)
LEMMA IdleState ==
  /\ Idle \in State /\ 0 \in 0 .. MaxTxn /\ 0 \in 0 .. NFile
  /\ File \subseteq 0 .. NFile
  /\ Idle.at = "idle" /\ Idle.tid = 0 /\ Idle.files = {} /\ Idle.todo = {}
  /\ Idle.cur = 0 /\ Idle.master = 0 /\ Idle.res = FALSE /\ Idle.left = {}
  BY MultiAssumption DEF State, Idle, Growing, File

(* It may keep its transaction.                                            *)
LEMMA RestsNow ==
  ASSUME Types, NEW c \in Conn, NEW tid \in 0 .. MaxTxn, NEW fs \in SUBSET File,
         con' = [con EXCEPT ![c] = [Idle EXCEPT !.tid = tid, !.files = fs]]
  PROVE  Rests(c, tid, fs)
<1>1. [Idle EXCEPT !.tid = tid, !.files = fs] \in State
  BY IdleState DEF State
<1> QED
  BY <1>1, IdleState DEF Rests, Moves, Types, State

(* It may have none.                                                       *)
LEMMA IdleNow ==
  ASSUME Types, NEW c \in Conn, con' = [con EXCEPT ![c] = Idle]
  PROVE  Rests(c, 0, {})
  BY IdleState DEF Rests, Moves, Types

(* A rollback begins with one of the files.                                *)
LEMMA Undoes ==
  ASSUME Types, NEW c \in Conn, con[c].files # {}, con' = [con EXCEPT ![c] = Undo(c)]
  PROVE  \E f \in con[c].files : Checks(c, f, con[c].files \ {f}, 0, {})
<1> DEFINE f == Min(con[c].files)
<1>1. f \in con[c].files /\ con[c].files \in SUBSET File
  BY LeastFile DEF Types, State
<1>2. con' = [con EXCEPT ![c] = [Idle EXCEPT !.at = "check", !.cur = f, !.todo = con[c].files \ {f}]]
  BY DEF Undo
<1> HIDE DEF f
<1>3. [Idle EXCEPT !.at = "check", !.cur = f, !.todo = con[c].files \ {f}] \in State
  BY <1>1, IdleState DEF State, Rolling
<1>4. Checks(c, f, con[c].files \ {f}, 0, {})
  <2> DEFINE r == [Idle EXCEPT !.at = "check", !.cur = f, !.todo = con[c].files \ {f}]
  <2>1. /\ r.at = "check" /\ r.tid = 0 /\ r.files = {}
        /\ r.todo = con[c].files \ {f} /\ r.cur = f /\ r.master = 0
    BY IdleState DEF State
  <2>2. r \in State /\ con' = [con EXCEPT ![c] = r]
    BY <1>2, <1>3
  <2> HIDE DEF r
  <2> QED
    BY <2>1, <2>2 DEF Checks, Moves, Types
<1> QED
  BY <1>1, <1>4

(* The rollback goes on with the next file, or is over.                    *)
LEMMA RollsBack ==
  ASSUME Types, NEW c \in Conn, con' = [con EXCEPT ![c] = RolledBack(con[c])]
  PROVE  \/ con[c].todo = {} /\ Rests(c, con[c].tid, con[c].files)
         \/ \E f \in con[c].todo :
              Checks(c, f, con[c].todo \ {f}, con[c].tid, con[c].files)
<1>0. con[c] \in State
  BY DEF Types
<1>1. CASE con[c].todo = {}
  <2>1. con' = [con EXCEPT ![c] = [Idle EXCEPT !.tid = con[c].tid, !.files = con[c].files]]
    BY <1>1 DEF RolledBack
  <2> QED
    BY <1>0, <1>1, <2>1, RestsNow DEF State
<1>2. CASE con[c].todo # {}
  <2> DEFINE f == Min(con[c].todo)
  <2>1. f \in con[c].todo /\ con[c].todo \in SUBSET File
    BY <1>0, <1>2, LeastFile DEF State
  <2>2. con' = [con EXCEPT ![c] = [con[c] EXCEPT !.at = "check", !.cur = f,
                   !.todo = con[c].todo \ {f}, !.master = 0, !.res = FALSE, !.left = {}]]
    BY <1>2 DEF RolledBack
  <2> HIDE DEF f
  <2>3. [con[c] EXCEPT !.at = "check", !.cur = f, !.todo = con[c].todo \ {f},
                       !.master = 0, !.res = FALSE, !.left = {}] \in State
    <3>1. f \in 0 .. NFile /\ "check" \in Rolling /\ FALSE \in BOOLEAN
      BY <2>1, IdleState DEF Rolling
    <3> QED
      BY <1>0, <2>1, <3>1, IdleState DEF State
  <2>4. Checks(c, f, con[c].todo \ {f}, con[c].tid, con[c].files)
    <3> DEFINE r == [con[c] EXCEPT !.at = "check", !.cur = f, !.todo = con[c].todo \ {f},
                                   !.master = 0, !.res = FALSE, !.left = {}]
    <3>1. /\ r.at = "check" /\ r.tid = con[c].tid /\ r.files = con[c].files
          /\ r.todo = con[c].todo \ {f} /\ r.cur = f /\ r.master = 0
      BY <1>0 DEF State
    <3>2. r \in State /\ con' = [con EXCEPT ![c] = r]
      BY <2>2, <2>3
    <3> HIDE DEF r
    <3> QED
      BY <3>1, <3>2 DEF Checks, Moves, Types
  <2> QED
    BY <1>2, <2>1, <2>4
<1> QED
  BY <1>1, <1>2

-----------------------------------------------------------------------------
(* A read has come upon a hot journal.                                     *)
Finds(c, f) ==
  /\ Moves(c)
  /\ con'[c].at = "hot" /\ con'[c].cur = f
  /\ con'[c].tid = con[c].tid /\ con'[c].files = con[c].files
  /\ con'[c].todo = con[c].todo /\ con'[c].master = con[c].master

(* A write has taken a file into the transaction.                          *)
Begins(c, f) ==
  /\ Moves(c)
  /\ con'[c].at = "idle" /\ con'[c].files = con[c].files \cup {f}
  /\ con'[c].tid = IF con[c].tid = 0 THEN ntxn + 1 ELSE con[c].tid
  /\ con'[c].todo = con[c].todo /\ con'[c].master = con[c].master

(* Where each action leaves its connection: a read finds a hot journal, or *)
(* it does not.                                                            *)
LEMMA ReadMoves ==
  ASSUME Types, NEW c \in Conn, NEW f \in File, Read(c, f)
  PROVE  Finds(c, f) \/ con' = con
<1>1. [con[c] EXCEPT !.at = "hot", !.cur = f] \in State
  BY IdleState DEF Types, State, Rolling
<1>2. \/ con' = con
      \/ con' = [con EXCEPT ![c] = [con[c] EXCEPT !.at = "hot", !.cur = f]]
  BY DEF Read
<1>3. CASE con' = [con EXCEPT ![c] = [con[c] EXCEPT !.at = "hot", !.cur = f]]
  BY <1>1, <1>3 DEF Finds, Moves, Types, State
<1> QED
  BY <1>2, <1>3

(* The first write of a transaction gives it its number.                   *)
LEMMA WriteMoves ==
  ASSUME Types, NEW c \in Conn, NEW f \in File, Write(c, f)
  PROVE  Begins(c, f) /\ ntxn' \in 0 .. MaxTxn /\ ntxn' >= ntxn
<1> DEFINE tid == IF con[c].tid = 0 THEN ntxn + 1 ELSE con[c].tid
<1>1. tid \in 0 .. MaxTxn /\ ntxn' \in 0 .. MaxTxn /\ ntxn' >= ntxn
  BY MultiAssumption DEF Types, State, Write
<1>2. con' = [con EXCEPT ![c] = [con[c] EXCEPT !.tid = tid, !.files = con[c].files \cup {f}]]
  BY DEF Write
<1>3. tid = IF con[c].tid = 0 THEN ntxn + 1 ELSE con[c].tid
  OBVIOUS
<1> HIDE DEF tid
<1>4. [con[c] EXCEPT !.tid = tid, !.files = con[c].files \cup {f}] \in State
  BY <1>1 DEF Types, State
<1> QED
  <2>1. con[c].at = "idle"
    BY DEF Write
  <2> QED
    BY <1>1, <1>2, <1>3, <1>4, <2>1 DEF Begins, Moves, Types, State

(* A commit starts to lock the files.                                      *)
LEMMA CommitMoves ==
  ASSUME Types, NEW c \in Conn, Commit(c)
  PROVE  Goes(c, "lock", con[c].files)
  BY GoesOn DEF Commit, Types, State, At, Growing

(* A file is locked, or the commit gives up.                               *)
LEMMA LockMoves ==
  ASSUME Types, NEW c \in Conn, ExclusiveLock(c)
  PROVE  \/ Goes(c, "idle", {}) /\ lock' = lock
         \/ /\ \/ con[c].todo \ {This(c)} = {} /\ con'[c].at \in {"master", "name"}
                  /\ (con'[c].at = "master" <=> Multi(c))
                  /\ Goes(c, con'[c].at, con[c].files)
               \/ con[c].todo \ {This(c)} # {} /\ Goes(c, "lock", con[c].todo \ {This(c)})
            /\ ~Held(This(c), {"shared"}, c)
            /\ lock' = [lock EXCEPT ![c][This(c)] = "exclusive"]
<1>1. CASE Held(This(c), {"shared"}, c)
  BY <1>1, GoesOn DEF ExclusiveLock, At, Growing
<1>2. CASE ~Held(This(c), {"shared"}, c) /\ Multi(c)
  <2>1. con' = [con EXCEPT ![c] = Advance(con[c], "lock", "master")]
        /\ lock' = [lock EXCEPT ![c][This(c)] = "exclusive"]
    BY <1>2 DEF ExclusiveLock
  <2>2. "lock" \in At /\ "master" \in At
    BY DEF At, Growing
  <2> QED
    BY <1>2, <2>1, <2>2, Advances DEF Goes
<1>3. CASE ~Held(This(c), {"shared"}, c) /\ ~Multi(c)
  <2>1. con' = [con EXCEPT ![c] = Advance(con[c], "lock", "name")]
        /\ lock' = [lock EXCEPT ![c][This(c)] = "exclusive"]
    BY <1>3 DEF ExclusiveLock
  <2>2. "lock" \in At /\ "name" \in At
    BY DEF At, Growing, Filing
  <2> QED
    BY <1>3, <2>1, <2>2, Advances DEF Goes
<1> QED
  BY <1>1, <1>2, <1>3

(* The steps that only go to the next one.                                 *)
LEMMA FilingMoves ==
  ASSUME Types, NEW c \in Conn
  PROVE  /\ Master(c) => Goes(c, "name", con[c].todo)
         /\ WriteMaster(c) => Goes(c, "syncjournal", con[c].todo)
         /\ SyncJournal(c) => Goes(c, "write", con[c].todo)
         /\ WriteDb(c) => Goes(c, "syncdb", con[c].todo)
         /\ DeleteMaster(c) => Goes(c, "syncdir", con[c].todo)
         /\ SyncDirectory(c) => Goes(c, "phase2", con[c].todo)
         /\ SyncHotJournal(c) => Goes(c, "check", con[c].todo)
         /\ Restore(c) => Goes(c, "sync", con[c].todo)
         /\ SyncRestored(c) => Goes(c, "finish", con[c].todo)
<1>1. {"name", "syncjournal", "write", "syncdb", "syncdir", "phase2", "check", "sync", "finish"}
        \subseteq At
  BY DEF At, Growing, Rolling, Filing, Ending
<1> QED
  BY <1>1, GoesTo DEF Master, WriteMaster, SyncJournal, WriteDb, DeleteMaster, SyncDirectory,
                      SyncHotJournal, Restore, SyncRestored

(* The next file is journalled, or all are written.                        *)
LEMMA SyncDbMoves ==
  ASSUME Types, NEW c \in Conn, SyncDb(c)
  PROVE  \/ con[c].todo \ {This(c)} = {} /\ con'[c].at \in {"unlink", "phase2"}
            /\ (con'[c].at = "unlink" <=> Multi(c))
            /\ Goes(c, con'[c].at, con[c].files)
         \/ con[c].todo \ {This(c)} # {} /\ Goes(c, "name", con[c].todo \ {This(c)})
<1>1. CASE Multi(c)
  BY <1>1, Advances DEF SyncDb, At, Filing, Ending, Goes
<1>2. CASE ~Multi(c)
  BY <1>2, Advances DEF SyncDb, At, Filing, Ending, Goes
<1> QED
  BY <1>1, <1>2

(* The next journal goes, or the commit returns.                           *)
LEMMA PhaseTwoMoves ==
  ASSUME Types, NEW c \in Conn, PhaseTwo(c)
  PROVE  \/ con[c].todo \ {This(c)} = {} /\ Rests(c, 0, {})
            /\ returned' = returned \cup {con[c].tid}
         \/ con[c].todo \ {This(c)} # {} /\ Goes(c, "phase2", con[c].todo \ {This(c)})
            /\ returned' = returned
<1> DEFINE rest == con[c].todo \ {This(c)}
           next == Advance(con[c], "phase2", "done")
<1>0. rest \in SUBSET File /\ con[c] \in State /\ "phase2" \in At
  BY DEF Types, State, At, Ending
<1>1. CASE rest = {}
  <2>1. next = [con[c] EXCEPT !.at = "done", !.todo = con[c].files]
    BY <1>1 DEF Advance, This
  <2>2. next.at = "done"
    BY <1>0, <2>1 DEF State
  <2> QED
    BY <1>1, <2>2, IdleNow DEF PhaseTwo
<1>2. CASE rest # {}
  <2>1. next = [con[c] EXCEPT !.at = "phase2", !.todo = rest]
    BY <1>2 DEF Advance, This
  <2>2. next.at # "done"
    BY <1>0, <2>1 DEF State
  <2>3. con' = [con EXCEPT ![c] = [con[c] EXCEPT !.at = "phase2", !.todo = rest]]
        /\ returned' = returned
    BY <2>1, <2>2 DEF PhaseTwo
  <2> HIDE DEF rest
  <2>4. Goes(c, "phase2", rest)
    BY <1>0, <2>3, GoesOn
  <2> QED
    BY <1>2, <2>3, <2>4 DEF rest
<1> QED
  BY <1>1, <1>2

(* The rollback has read the name at the end of the journal.               *)
Looks(c) ==
  LET m == jrnl[con[c].cur].master
  IN  /\ Moves(c)
      /\ con'[c].tid = con[c].tid /\ con'[c].files = con[c].files
      /\ con'[c].todo = con[c].todo /\ con'[c].cur = con[c].cur
      /\ con'[c].master = m /\ (con'[c].res <=> m \in mj \cup {0})
      /\ con'[c].at = IF m \in mj \cup {0} THEN "restore" ELSE "sync"

(* The rollback learns whether the journal is to be used.                  *)
LEMMA CheckMoves ==
  ASSUME Types, NEW c \in Conn, con[c].cur \in File, jrnl[con[c].cur] # NoJournal, CheckMaster(c)
  PROVE  Looks(c)
<1> DEFINE m == jrnl[con[c].cur].master
           res == m = 0 \/ m \in mj
           at == IF res THEN "restore" ELSE "sync"
           r == [con[c] EXCEPT !.master = m, !.res = res, !.at = at]
<1>1. con' = [con EXCEPT ![c] = r]
  BY DEF CheckMaster, Types, State
<1>2. m \in 0 .. MaxTxn /\ res \in BOOLEAN /\ at \in At
  BY DEF Types, Journal, At, Rolling
<1>3. con[c] \in State
  BY DEF Types
<1>4. r \in State /\ r.tid = con[c].tid /\ r.files = con[c].files /\ r.todo = con[c].todo
      /\ r.cur = con[c].cur /\ r.master = m /\ r.res = res /\ r.at = at
  <2> HIDE DEF m, res, at
  <2> QED
    BY <1>2, <1>3 DEF State, At
<1> HIDE DEF r
<1>5. Moves(c) /\ con'[c] = r
  BY <1>1, <1>4 DEF Moves, Types
<1> QED
  BY <1>4, <1>5 DEF Looks

(* The rollback has found the master journal, or one journal fewer to look *)
(* at.                                                                     *)
Follows(c, left) ==
  /\ Moves(c)
  /\ con'[c].at = "delmaster" /\ con'[c].left = left
  /\ con'[c].tid = con[c].tid /\ con'[c].files = con[c].files
  /\ con'[c].todo = con[c].todo /\ con'[c].cur = con[c].cur
  /\ con'[c].master = con[c].master /\ con'[c].res = con[c].res

(* After a journal comes its master journal, if it has one.                *)
LEMMA EndMoves ==
  ASSUME Types, NEW c \in Conn, EndPlayback(c)
  PROVE  \/ con[c].master # 0 /\ con[c].res /\ Follows(c, named[con[c].master])
         \/ ~(con[c].master # 0 /\ con[c].res) /\ con' = [con EXCEPT ![c] = RolledBack(con[c])]
<1>1. CASE con[c].master # 0 /\ con[c].res
  <2> DEFINE left == named[con[c].master]
             r == [con[c] EXCEPT !.at = "delmaster", !.left = left]
  <2>1. left \in SUBSET File /\ con[c] \in State /\ "delmaster" \in At
    BY <1>1 DEF Types, State, Txn, At, Rolling
  <2>2. con' = [con EXCEPT ![c] = r]
    BY <1>1 DEF EndPlayback
  <2> HIDE DEF left
  <2>3. r \in State
    BY <2>1 DEF State, At
  <2> QED
    BY <1>1, <2>1, <2>2, <2>3 DEF Follows, Moves, Types, State, left
<1> QED
  BY <1>1 DEF EndPlayback

(* The master journal is in use, or goes, or the next journal is looked    *)
(* at.                                                                     *)
LEMMA DelMasterMoves ==
  ASSUME Types, NEW c \in Conn, DelMaster(c)
  PROVE  \/ /\ con[c].left # {} /\ ~Names(Min(con[c].left), con[c].master)
            /\ Follows(c, con[c].left \ {Min(con[c].left)})
            /\ mj' = mj /\ mjOld' = mjOld
         \/ /\ con' = [con EXCEPT ![c] = RolledBack(con[c])]
            /\ mj' = mj /\ mjOld' = mjOld
         \/ /\ con' = [con EXCEPT ![c] = RolledBack(con[c])]
            /\ con[c].left = {} /\ con[c].master \in mj
            /\ UnlinkMaster(con[c].master)
<1> DEFINE m == con[c].master
           inUse == con[c].left # {} /\ Names(Min(con[c].left), m)
<1>0. con[c] \in State /\ con[c].at = "delmaster"
  BY DEF Types, DelMaster
<1>1. CASE m \in mj /\ con[c].left # {} /\ ~inUse
  <2> DEFINE left == con[c].left \ {Min(con[c].left)}
             r == [con[c] EXCEPT !.left = left]
  <2>1. left \in SUBSET File
    BY <1>0 DEF State
  <2>2. con' = [con EXCEPT ![c] = r] /\ mj' = mj /\ mjOld' = mjOld
    BY <1>0, <1>1 DEF DelMaster, Types
  <2> HIDE DEF left
  <2>3. r \in State
    BY <1>0, <2>1 DEF State
  <2>4. Follows(c, left)
    BY <1>0, <2>1, <2>2, <2>3 DEF Follows, Moves, Types, State
  <2> QED
    BY <1>1, <2>2, <2>4 DEF left
<1>2. CASE ~(m \in mj /\ con[c].left # {} /\ ~inUse)
  BY <1>2 DEF DelMaster
<1> QED
  BY <1>1, <1>2

(* A transaction that fails is rolled back.                                *)
LEMMA FailMoves ==
  ASSUME Types, NEW c \in Conn, InPlace(c), Rollback(c) \/ IoError(c)
  PROVE  \E f \in con[c].files : Checks(c, f, con[c].files \ {f}, 0, {})
<1>1. con[c].files # {}
  BY DEF InPlace, Rollback, IoError, Filing, Ending
<1> QED
  BY <1>1, Undoes DEF Rollback, IoError

(* A process that dies leaves nothing.                                     *)
LEMMA CrashMoves ==
  ASSUME Types, NEW c \in Conn, Crash(c)
  PROVE  Rests(c, 0, {})
  BY IdleNow DEF Crash

-----------------------------------------------------------------------------
(* A step of a connection leaves the others where they are.                *)
LEMMA MovesTyped ==
  ASSUME Types, NEW c \in Conn, InPlace(c), Rolled(c), Step(c)
  PROVE  Moves(c)
<1>1. CASE \E f \in File : Read(c, f) \/ EndRead(c, f) \/ Write(c, f)
  BY <1>1, ReadMoves, WriteMoves DEF Finds, Begins, Moves, EndRead, Types
<1>2. CASE Commit(c) \/ ExclusiveLock(c) \/ SyncDb(c) \/ PhaseTwo(c) \/ Crash(c)
  BY <1>2, CommitMoves, LockMoves, SyncDbMoves, PhaseTwoMoves, CrashMoves DEF Goes, Rests
<1>3. CASE \/ Master(c) \/ WriteMaster(c) \/ SyncJournal(c) \/ WriteDb(c) \/ DeleteMaster(c)
           \/ SyncDirectory(c) \/ SyncHotJournal(c) \/ Restore(c) \/ SyncRestored(c)
  BY <1>3, FilingMoves DEF Goes
<1>4. CASE CheckMaster(c)
  BY <1>4, CheckMoves DEF CheckMaster, Looks, InPlace, Rolled, Rolling
<1>5. CASE EndPlayback(c) \/ DelMaster(c)
  BY <1>5, EndMoves, DelMasterMoves, RollsBack DEF Follows, Rests, Checks
<1>6. CASE Rollback(c) \/ IoError(c)
  BY <1>6, FailMoves DEF Checks
<1> QED
  BY <1>1, <1>2, <1>3, <1>4, <1>5, <1>6 DEF Step

(* The file that a connection is at.                                       *)
LEMMA Handled ==
  ASSUME Types, NEW c \in Conn, InPlace(c)
  PROVE  /\ con[c].at \in Filing \cup Ending \cup {"lock", "master"} =>
              /\ This(c) \in con[c].todo /\ This(c) \in File /\ This(c) \in con[c].files
              /\ con[c].tid \in Txn
         /\ con[c].at \in Rolling => con[c].cur \in File
         /\ con[c].files # {} => con[c].tid \in Txn
  BY ThisFile DEF InPlace, Types, State, Txn

(* Types of what a step writes: a database file,                           *)
LEMMA PutTyped ==
  ASSUME Types, NEW f \in File, NEW s \in Contents, Put(f, s)
  PROVE  db' \in [File -> Contents] /\ dbOld' \in [File -> SUBSET Contents]
<1>1. {db[f], Torn} \subseteq Contents
  BY MultiAssumption DEF Types, Contents, Torn
<1> QED
  BY <1>1 DEF Put, Types

(* a journal that goes,                                                    *)
LEMMA UnlinkTyped ==
  ASSUME Types, NEW f \in File, Unlink(f)
  PROVE  /\ jrnl' \in [File -> Journal \cup {NoJournal}]
         /\ jrnlOld' \in [File -> SUBSET (Journal \cup {NoJournal})]
  BY DEF Unlink, Types

(* a master journal that goes,                                             *)
LEMMA UnlinkMasterTyped ==
  ASSUME Types, NEW m \in Txn, UnlinkMaster(m)
  PROVE  mj' \subseteq Txn /\ mjOld' \subseteq [tid : Txn, by : SUBSET File]
<1>1. {f \in named[m] : Names(f, m)} \in SUBSET File
  BY DEF Types
<1>2. [tid |-> m, by |-> {f \in named[m] : Names(f, m)}] \in [tid : Txn, by : SUBSET File]
  BY <1>1
<1> QED
  BY <1>2 DEF UnlinkMaster, Types

(* a journal that is changed.                                              *)
LEMMA JournalTyped ==
  ASSUME Types, NEW f \in File, jrnl[f] # NoJournal
  PROVE  /\ jrnl[f] \in Journal
         /\ \A m \in 0 .. MaxTxn : [jrnl EXCEPT ![f].master = m] \in [File -> Journal \cup {NoJournal}]
         /\ [jrnl EXCEPT ![f].firm = TRUE] \in [File -> Journal \cup {NoJournal}]
<1>1. jrnl[f] \in Journal
  BY DEF Types
<1>2. \A m \in 0 .. MaxTxn : [jrnl[f] EXCEPT !.master = m] \in Journal
  BY <1>1 DEF Journal
<1>3. [jrnl[f] EXCEPT !.firm = TRUE] \in Journal
  BY <1>1 DEF Journal
<1> QED
  BY <1>1, <1>2, <1>3 DEF Types

(* The file that a connection works on has a journal.                      *)
LEMMA OwnJournal ==
  ASSUME Types, NEW c \in Conn, InPlace(c), Staged(c), Rolled(c)
  PROVE  /\ con[c].at \in Filing \cup {"phase2"} => jrnl[This(c)] # NoJournal
         /\ con[c].at \in Rolling \ {"delmaster"} => jrnl[con[c].cur] # NoJournal
<1>1. con[c].at \in Filing \cup {"phase2"} => This(c) \in con[c].todo
  BY Handled DEF Ending
<1>2. CASE con[c].at = "name"
  BY <1>1, <1>2 DEF Staged, Journalled, Filing, Rolling
<1>3. CASE con[c].at = "syncjournal"
  BY <1>1, <1>3 DEF Staged, Journalled, Filing, Rolling
<1>4. CASE con[c].at = "write"
  BY <1>1, <1>4 DEF Staged, Journalled, Filing, Rolling
<1>5. CASE con[c].at = "syncdb"
  BY <1>1, <1>5 DEF Staged, Written, Firm, Filing, Rolling
<1>6. CASE con[c].at = "phase2"
  BY <1>1, <1>6 DEF Staged, Done, Written, Firm, Ending, Rolling
<1> QED
  BY <1>2, <1>3, <1>4, <1>5, <1>6 DEF Rolled, Filing

(* The types are kept by any step of a connection.                         *)
LEMMA TypesStep ==
  ASSUME Types, NEW c \in Conn, InPlace(c), Staged(c), Rolled(c), Step(c)
  PROVE  Types'
<1>0. con' \in [Conn -> State]
  BY MovesTyped DEF Moves
<1>h. /\ con[c].at \in Filing \cup Ending \cup {"lock", "master"} =>
              /\ This(c) \in con[c].todo /\ This(c) \in File /\ con[c].tid \in Txn
      /\ con[c].at \in Rolling => con[c].cur \in File
      /\ con[c].at \in Filing \cup {"phase2"} => jrnl[This(c)] # NoJournal
      /\ con[c].at \in Rolling \ {"delmaster"} => jrnl[con[c].cur] # NoJournal
      /\ con[c] \in State
  BY Handled, OwnJournal DEF Types
<1>1. CASE \E f \in File : Read(c, f) \/ EndRead(c, f)
  BY <1>0, <1>1 DEF Read, EndRead, Types, disk, Level
<1>2. ASSUME NEW f \in File, Write(c, f) PROVE Types'
  <2>1. [orig |-> db[f], firm |-> FALSE, master |-> 0] \in Journal
    BY MultiAssumption DEF Types, Journal
  <2>2. ntxn' \in 0 .. MaxTxn
    BY <1>2, WriteMoves
  <2> QED
    BY <1>0, <1>2, <2>1, <2>2 DEF Write, Types, Level
<1>3. CASE Commit(c) \/ ExclusiveLock(c) \/ Rollback(c) \/ CheckMaster(c)
  <2>1. UNCHANGED <<disk, named, returned, ntxn>>
    BY <1>3 DEF Commit, ExclusiveLock, Rollback, CheckMaster
  <2>2. lock' = lock \/ (ExclusiveLock(c) /\ lock' = [lock EXCEPT ![c][This(c)] = "exclusive"])
    BY <1>3 DEF Commit, ExclusiveLock, Rollback, CheckMaster
  <2>3. lock' \in [Conn -> [File -> Level]]
    BY <1>h, <2>2 DEF ExclusiveLock, Types, Level
  <2> QED
    BY <1>0, <2>1, <2>3 DEF Types, disk
<1>4. CASE Crash(c)
  BY <1>0, <1>4 DEF Crash, Types, disk, Level
<1>5. CASE Master(c) \/ SyncDirectory(c)
  BY <1>0, <1>h, <1>5 DEF Master, SyncDirectory, Types, State, Ending
<1>6. CASE WriteMaster(c)
  <2>1. (IF Multi(c) THEN con[c].tid ELSE 0) \in 0 .. MaxTxn
    BY <1>h, MultiAssumption DEF State
  <2>2. jrnl' \in [File -> Journal \cup {NoJournal}] /\ jrnl[This(c)] \in Journal
    BY <1>h, <1>6, <2>1, JournalTyped DEF WriteMaster, Filing
  <2> QED
    BY <1>0, <1>h, <1>6, <2>2 DEF WriteMaster, Types, Filing
<1>7. CASE SyncJournal(c)
  BY <1>0, <1>h, <1>7, JournalTyped DEF SyncJournal, Types, Filing
<1>8. CASE WriteDb(c)
  <2>1. db[This(c)] \cup {con[c].tid} \in Contents
    BY <1>h, <1>8 DEF Types, Contents, State, WriteDb, Filing
  <2> QED
    BY <1>0, <1>h, <1>8, <2>1, PutTyped DEF WriteDb, Types, Filing
<1>9. CASE SyncDb(c) \/ SyncRestored(c) \/ SyncHotJournal(c)
  BY <1>0, <1>h, <1>9 DEF SyncDb, SyncRestored, SyncHotJournal, Types
<1>10. CASE DeleteMaster(c)
  BY <1>0, <1>h, <1>10, UnlinkMasterTyped DEF DeleteMaster, Types, Ending
<1>11. CASE PhaseTwo(c)
  <2>1. returned' \subseteq Txn
    BY <1>h, <1>11 DEF PhaseTwo, Types, Ending
  <2>2. lock' \in [Conn -> [File -> Level]]
    <3>1. \/ lock' = [lock EXCEPT ![c][This(c)] = "shared"]
          \/ lock' = [lock EXCEPT ![c][This(c)] = "none"]
      BY <1>11 DEF PhaseTwo
    <3> QED
      BY <3>1 DEF Types, Level
  <2>3. /\ jrnl' \in [File -> Journal \cup {NoJournal}]
        /\ jrnlOld' \in [File -> SUBSET (Journal \cup {NoJournal})]
    BY <1>h, <1>11, UnlinkTyped DEF PhaseTwo, Types, Ending
  <2> QED
    BY <1>0, <1>11, <2>1, <2>2, <2>3 DEF PhaseTwo, Types
<1>12. CASE Restore(c)
  <2>1. jrnl[con[c].cur] \in Journal
    BY <1>h, <1>12, JournalTyped DEF Restore, Rolling
  <2>2. db' \in [File -> Contents] /\ dbOld' \in [File -> SUBSET Contents]
    BY <1>h, <1>12, <2>1, PutTyped DEF Restore, Rolling, Journal, Types
  <2> QED
    BY <1>0, <1>12, <2>2 DEF Restore, Types
<1>13. CASE EndPlayback(c)
  <2>1. lock' \in [Conn -> [File -> Level]]
    BY <1>h, <1>13 DEF EndPlayback, Types, Level
  <2> QED
    BY <1>0, <1>h, <1>13, <2>1, UnlinkTyped DEF EndPlayback, Types, Rolling
<1>14. CASE DelMaster(c)
  <2>1. mj' \subseteq Txn /\ mjOld' \subseteq [tid : Txn, by : SUBSET File]
    BY <1>14, DelMasterMoves, UnlinkMasterTyped DEF Types
  <2> QED
    BY <1>0, <1>14, <2>1 DEF DelMaster, Types
<1>15. CASE IoError(c)
  <2>1. Torn \in Contents
    BY MultiAssumption DEF Torn, Contents
  <2>2. db' \in [File -> Contents] /\ dbOld' \in [File -> SUBSET Contents]
    BY <1>h, <1>15, <2>1, PutTyped DEF IoError, Filing, Types
  <2> QED
    BY <1>0, <1>15, <2>2 DEF IoError, Types
<1> QED
  BY <1>1, <1>2, <1>3, <1>4, <1>5, <1>6, <1>7, <1>8, <1>9, <1>10, <1>11, <1>12, <1>13, <1>14, <1>15
     DEF Step

-----------------------------------------------------------------------------
(* A set with another element has more than one.                           *)
LEMMA MoreThanOne ==
  ASSUME NEW S \in SUBSET File, NEW x \in S, S \ {x} # {}
  PROVE  Cardinality(S) > 1
<1>1. IsFiniteSet(S)
  <2>1. IsFiniteSet(File)
    BY MultiAssumption, FS_Interval DEF File
  <2> QED
    BY <2>1, FS_Subset
<1>2. IsFiniteSet(S \ {x}) /\ Cardinality(S \ {x}) = Cardinality(S) - 1
  BY <1>1, FS_RemoveElement
<1>3. Cardinality(S) \in Nat /\ Cardinality(S \ {x}) \in Nat /\ Cardinality(S \ {x}) # 0
  BY <1>1, <1>2, FS_CardinalityType, FS_EmptySet
<1> QED
  BY <1>2, <1>3

(* The order of the steps, when a rollback goes on.                        *)
LEMMA RollsBackPlaced ==
  ASSUME Types, NEW c \in Conn, InPlace(c), con[c].at \in Rolling, ntxn' = ntxn,
         con' = [con EXCEPT ![c] = RolledBack(con[c])]
  PROVE  InPlace(c)'
<1> USE DEF InPlace, Multi, Growing, Rolling, Filing, Ending
<1>1. con[c] \in State /\ ntxn \in 0 .. MaxTxn
  BY DEF Types
<1>2. CASE Rests(c, con[c].tid, con[c].files)
  BY <1>1, <1>2 DEF Rests
<1>3. ASSUME NEW f \in con[c].todo, Checks(c, f, con[c].todo \ {f}, con[c].tid, con[c].files)
      PROVE  InPlace(c)'
  <2>1. /\ con[c].files = {} /\ con[c].tid = 0
        /\ f \in File \ (con[c].files \cup (con[c].todo \ {f}))
    BY <1>1 DEF State
  <2> QED
    BY <1>1, <1>3, <2>1 DEF Checks
<1> QED
  BY <1>2, <1>3, RollsBack

(* The order of the steps is kept by any step.                             *)
LEMMA PlacedStep ==
  ASSUME Types, LocksOK, NEW c \in Conn, InPlace(c), Staged(c), Rolled(c), Step(c)
  PROVE  InPlace(c)'
<1> USE DEF InPlace, Multi, Growing, Rolling, Filing, Ending
<1>h. /\ con[c].at \in Filing \cup Ending \cup {"lock", "master"} =>
              /\ This(c) \in con[c].todo /\ This(c) \in File /\ This(c) \in con[c].files
      /\ con[c].at \in Rolling \ {"delmaster"} => jrnl[con[c].cur] # NoJournal
      /\ con[c] \in State /\ ntxn \in 0 .. MaxTxn
  BY Handled, OwnJournal DEF Types
<1>1. ASSUME NEW f \in File, Read(c, f) PROVE InPlace(c)'
  <2>1. con[c].at = "idle" /\ ntxn' = ntxn /\ f \notin con[c].files /\ con[c].todo = {}
    BY <1>1 DEF Read, LocksOK, Own
  <2> QED
    BY <1>h, <1>1, <2>1, ReadMoves DEF Finds
<1>2. ASSUME NEW f \in File, EndRead(c, f) PROVE InPlace(c)'
  BY <1>2 DEF EndRead
<1>3. ASSUME NEW f \in File, Write(c, f) PROVE InPlace(c)'
  <2>1. /\ con[c].at = "idle" /\ con[c].todo = {} /\ con[c].tid <= ntxn
        /\ ntxn' = IF con[c].tid = 0 THEN ntxn + 1 ELSE ntxn
    BY <1>3 DEF Write
  <2>2. Begins(c, f)
    BY <1>3, WriteMoves
  <2>3. con'[c].tid # 0 /\ con'[c].tid <= ntxn'
    BY <1>h, <2>1, <2>2 DEF Begins, State
  <2> QED
    BY <2>1, <2>2, <2>3 DEF Begins
<1>4. CASE Commit(c)
  BY <1>4, CommitMoves DEF Commit, Goes
<1>5. CASE ExclusiveLock(c)
  <2>1. con[c].at = "lock" /\ ntxn' = ntxn
    BY <1>5 DEF ExclusiveLock
  <2> QED
    BY <1>h, <1>5, <2>1, LockMoves DEF Goes
<1>6. CASE \/ Master(c) \/ WriteMaster(c) \/ SyncJournal(c) \/ WriteDb(c) \/ DeleteMaster(c)
           \/ SyncDirectory(c)
  BY <1>6, FilingMoves DEF Goes, Master, WriteMaster, SyncJournal, WriteDb, DeleteMaster,
     SyncDirectory
<1>7. CASE SyncDb(c)
  <2>1. con[c].at = "syncdb" /\ ntxn' = ntxn
    BY <1>7 DEF SyncDb
  <2> QED
    BY <1>h, <1>7, <2>1, SyncDbMoves DEF Goes
<1>8. CASE PhaseTwo(c)
  <2>1. con[c].at = "phase2" /\ ntxn' = ntxn
    BY <1>8 DEF PhaseTwo
  <2>2. con[c].todo \ {This(c)} # {} => Multi(c)
    BY <1>h, <2>1, MoreThanOne DEF State
  <2> QED
    <3>1. CASE Rests(c, 0, {})
      BY <1>h, <2>1, <3>1 DEF Rests
    <3>2. CASE con[c].todo \ {This(c)} # {} /\ Goes(c, "phase2", con[c].todo \ {This(c)})
      BY <1>h, <2>1, <2>2, <3>2 DEF Goes
    <3> QED
      BY <1>8, <3>1, <3>2, PhaseTwoMoves
<1>9. CASE SyncHotJournal(c) \/ Restore(c) \/ SyncRestored(c)
  BY <1>9, FilingMoves DEF Goes, SyncHotJournal, Restore, SyncRestored
<1>10. CASE CheckMaster(c)
  <2>1. con[c].at = "check" /\ ntxn' = ntxn
    BY <1>10 DEF CheckMaster
  <2>2. Looks(c)
    BY <1>h, <1>10, <2>1, CheckMoves
  <2>3. con'[c].at \in {"restore", "sync"}
    BY <2>2 DEF Looks
  <2> QED
    BY <2>1, <2>2, <2>3 DEF Looks
<1>11. CASE EndPlayback(c)
  <2>1. con[c].at = "finish" /\ ntxn' = ntxn
    BY <1>11 DEF EndPlayback
  <2> QED
    <3>1. CASE Follows(c, named[con[c].master])
      BY <2>1, <3>1 DEF Follows
    <3>2. CASE con' = [con EXCEPT ![c] = RolledBack(con[c])]
      BY <1>h, <2>1, <3>2, RollsBackPlaced
    <3> QED
      BY <1>11, <3>1, <3>2, EndMoves
<1>12. CASE DelMaster(c)
  <2>1. con[c].at = "delmaster" /\ ntxn' = ntxn
    BY <1>12 DEF DelMaster
  <2> QED
    <3>1. CASE Follows(c, con[c].left \ {Min(con[c].left)})
      BY <2>1, <3>1 DEF Follows
    <3>2. CASE con' = [con EXCEPT ![c] = RolledBack(con[c])]
      BY <1>h, <2>1, <3>2, RollsBackPlaced
    <3> QED
      BY <1>12, <3>1, <3>2, DelMasterMoves
<1>13. CASE Rollback(c) \/ IoError(c)
  <2>1. ntxn' = ntxn
    BY <1>13 DEF Rollback, IoError
  <2> QED
    BY <1>h, <1>13, <2>1, FailMoves DEF Checks, State
<1>14. CASE Crash(c)
  <2>1. ntxn' = ntxn /\ Rests(c, 0, {})
    BY <1>14, CrashMoves DEF Crash
  <2> QED
    BY <1>h, <2>1 DEF Rests
<1> QED
  BY <1>1, <1>2, <1>3, <1>4, <1>5, <1>6, <1>7, <1>8, <1>9, <1>10, <1>11, <1>12, <1>13, <1>14
     DEF Step

-----------------------------------------------------------------------------
(* What a step has to do for the locks to stay right.                      *)
LEMMA LocksFrom ==
  ASSUME Types, Types', LocksOK, NEW c \in Conn, Moves(c),
         \A d \in Conn \ {c} : lock'[d] = lock[d],
         \A f \in File :
           /\ lock'[c][f] \in {"reserved", "exclusive"} <=> f \in Own(c)'
           /\ lock'[c][f] = "exclusive" /\ lock[c][f] # "exclusive" =>
                \A d \in Conn \ {c} : lock[d][f] = "none"
           /\ lock'[c][f] = "reserved" /\ lock[c][f] # "reserved" =>
                \A d \in Conn \ {c} : lock[d][f] \in {"none", "shared"}
           /\ lock'[c][f] = "shared" /\ lock[c][f] = "none" =>
                \A d \in Conn \ {c} : lock[d][f] # "exclusive"
           /\ con'[c].at \in Filing \cup Ending \cup {"master"} /\ f \in Own(c)' =>
                lock'[c][f] = "exclusive"
           /\ con'[c].at = "lock" /\ f \in con'[c].files \ con'[c].todo =>
                lock'[c][f] = "exclusive"
  PROVE  LocksOK'
<1>1. \A d \in Conn \ {c} : con'[d] = con[d] /\ Own(d)' = Own(d) /\ lock'[d] = lock[d]
  BY DEF Moves, Own
<1>2. \A d \in Conn, f \in File : lock'[d][f] \in {"reserved", "exclusive"} <=> f \in Own(d)'
  BY <1>1 DEF LocksOK
<1>3. ASSUME NEW d \in Conn, NEW e \in Conn, NEW f \in File, d # e
      PROVE  /\ lock'[d][f] = "exclusive" => lock'[e][f] = "none"
             /\ lock'[d][f] = "reserved" => lock'[e][f] \in {"none", "shared"}
  <2>0. lock[c][f] \in Level /\ lock'[c][f] \in Level /\ lock[d][f] \in Level /\ lock[e][f] \in Level
    BY DEF Types
  <2>1. CASE d = c
    BY <1>1, <1>3, <2>0, <2>1 DEF LocksOK
  <2>2. CASE e = c
    BY <1>1, <1>3, <2>0, <2>2 DEF LocksOK, Level
  <2>3. CASE d # c /\ e # c
    BY <1>1, <1>3, <2>3 DEF LocksOK
  <2> QED
    BY <2>1, <2>2, <2>3
<1>4. ASSUME NEW d \in Conn
      PROVE  /\ con'[d].at \in Filing \cup Ending \cup {"master"} =>
                  \A f \in Own(d)' : lock'[d][f] = "exclusive"
             /\ con'[d].at = "lock" =>
                  \A f \in con'[d].files \ con'[d].todo : lock'[d][f] = "exclusive"
  <2>1. CASE d = c
    BY <2>1 DEF Own, Types, State
  <2>2. CASE d # c
    BY <1>1, <2>2 DEF LocksOK
  <2> QED
    BY <2>1, <2>2
<1> QED
  BY <1>2, <1>3, <1>4 DEF LocksOK

(* A step that changes no lock.                                            *)
LEMMA LocksAlike ==
  ASSUME Types, Types', LocksOK, NEW c \in Conn, Moves(c), lock' = lock,
         Own(c)' = Own(c),
         con'[c].at \in Filing \cup Ending \cup {"master"} =>
           con[c].at \in Filing \cup Ending \cup {"master"},
         con'[c].at = "lock" => con'[c].files = con'[c].todo
  PROVE  LocksOK'
<1>1. \A f \in File : lock[c][f] \in {"reserved", "exclusive"} <=> f \in Own(c)
  BY DEF LocksOK
<1>2. con'[c].at \in Filing \cup Ending \cup {"master"} => \A f \in Own(c) : lock[c][f] = "exclusive"
  BY DEF LocksOK
<1> QED
  BY <1>1, <1>2, LocksFrom

(* What a connection owns when a rollback goes on.                         *)
LEMMA RollsBackOwns ==
  ASSUME Types, NEW c \in Conn, con' = [con EXCEPT ![c] = RolledBack(con[c])]
  PROVE  \A g \in File : g \in Own(c)' <=> g \in con[c].files \cup con[c].todo
<1>1. CASE con[c].todo = {} /\ Rests(c, con[c].tid, con[c].files)
  BY <1>1 DEF Own, Rests, Rolling
<1>2. ASSUME NEW f \in con[c].todo, Checks(c, f, con[c].todo \ {f}, con[c].tid, con[c].files)
      PROVE  \A g \in File : g \in Own(c)' <=> g \in con[c].files \cup con[c].todo
  BY <1>2 DEF Own, Checks, Rolling
<1> QED
  BY <1>1, <1>2, RollsBack

(* The locks are kept by any step of a connection.                         *)
LEMMA LocksStep ==
  ASSUME Types, Types', LocksOK, NEW c \in Conn, InPlace(c), InPlace(c)', Rolled(c), Staged(c), Step(c)
  PROVE  LocksOK'
<1>h. /\ con[c].at \in Filing \cup Ending \cup {"lock", "master"} =>
              /\ This(c) \in con[c].todo /\ This(c) \in File /\ This(c) \in con[c].files
      /\ con[c].at \in Rolling \ {"delmaster"} => jrnl[con[c].cur] # NoJournal
      /\ con[c].at \in Rolling => con[c].cur \in File
      /\ con[c] \in State /\ lock[c] \in [File -> Level]
  BY Handled, OwnJournal DEF Types
<1>m. Moves(c)
  BY MovesTyped
<1> USE DEF Growing, Rolling, Filing, Ending
<1>1. ASSUME NEW f \in File, Read(c, f) PROVE LocksOK'
  <2>1. con[c].at = "idle" /\ lock[c][f] = "none" /\ ~Held(f, {"exclusive"}, c)
    BY <1>1 DEF Read
  <2>2. CASE jrnl[f] # NoJournal /\ ~Held(f, {"reserved"}, c)
    <3>1. /\ lock' = [lock EXCEPT ![c][f] = "exclusive"] /\ ~Held(f, {"shared"}, c)
          /\ con' = [con EXCEPT ![c] = [con[c] EXCEPT !.at = "hot", !.cur = f]]
      BY <1>1, <2>2 DEF Read
    <3>2. con'[c].at = "hot" /\ con'[c].cur = f /\ con'[c].files = con[c].files /\ con'[c].todo = {}
      BY <1>h, <2>1, <3>1 DEF Types, State, InPlace
    <3>3. \A g \in File : g \in Own(c)' <=> g \in Own(c) \/ g = f
      BY <1>h, <2>1, <3>2 DEF Own, InPlace
    <3>4. \A d \in Conn \ {c} : lock[d][f] = "none"
      BY <2>1, <2>2, <3>1 DEF Held, Types, Level
    <3>5. \A g \in File : lock'[c][g] = IF g = f THEN "exclusive" ELSE lock[c][g]
      BY <3>1 DEF Types
    <3>6. \A d \in Conn \ {c} : lock'[d] = lock[d]
      BY <3>1 DEF Types
    <3>7. \A g \in File : lock[c][g] \in {"reserved", "exclusive"} <=> g \in Own(c)
      BY DEF LocksOK
    <3> QED
      BY <1>m, <3>2, <3>3, <3>4, <3>5, <3>6, <3>7, LocksFrom
  <2>3. CASE ~(jrnl[f] # NoJournal /\ ~Held(f, {"reserved"}, c))
    <3>1. lock' = [lock EXCEPT ![c][f] = "shared"] /\ con' = con
      BY <1>1, <2>3 DEF Read
    <3>2. Own(c)' = Own(c) /\ f \notin Own(c)
      BY <2>1, <3>1 DEF Own, LocksOK
    <3>4. \A d \in Conn \ {c} : lock[d][f] # "exclusive"
      BY <2>1 DEF Held
    <3>5. \A g \in File : lock'[c][g] = IF g = f THEN "shared" ELSE lock[c][g]
      BY <3>1 DEF Types
    <3>6. \A d \in Conn \ {c} : lock'[d] = lock[d]
      BY <3>1 DEF Types
    <3>7. \A g \in File : lock[c][g] \in {"reserved", "exclusive"} <=> g \in Own(c)
      BY DEF LocksOK
    <3> QED
      BY <1>m, <2>1, <3>1, <3>2, <3>4, <3>5, <3>6, <3>7, LocksFrom
  <2> QED
    BY <2>2, <2>3
<1>2. ASSUME NEW f \in File, EndRead(c, f) PROVE LocksOK'
  <2>1. con[c].at = "idle" /\ lock[c][f] = "shared" /\ con' = con
        /\ lock' = [lock EXCEPT ![c][f] = "none"]
    BY <1>2 DEF EndRead
  <2>2. Own(c)' = Own(c)
    BY <2>1 DEF Own
  <2>5. \A g \in File : lock'[c][g] = IF g = f THEN "none" ELSE lock[c][g]
    BY <2>1 DEF Types
  <2>6. \A d \in Conn \ {c} : lock'[d] = lock[d]
    BY <2>1 DEF Types
  <2>7. \A g \in File : lock[c][g] \in {"reserved", "exclusive"} <=> g \in Own(c)
    BY DEF LocksOK
  <2> QED
    BY <1>m, <2>1, <2>2, <2>5, <2>6, <2>7, LocksFrom
<1>3. ASSUME NEW f \in File, Write(c, f) PROVE LocksOK'
  <2>1. con[c].at = "idle" /\ lock[c][f] = "shared" /\ ~Held(f, {"reserved", "exclusive"}, c)
        /\ lock' = [lock EXCEPT ![c][f] = "reserved"]
    BY <1>3 DEF Write
  <2>2. con'[c].at = "idle" /\ con'[c].files = con[c].files \cup {f}
    BY <1>3, WriteMoves DEF Begins
  <2>3. \A g \in File : g \in Own(c)' <=> g \in Own(c) \/ g = f
    BY <2>1, <2>2 DEF Own
  <2>4. \A d \in Conn \ {c} : lock[d][f] \in {"none", "shared"}
    BY <2>1 DEF Held, Types, Level
  <2>5. \A g \in File : lock'[c][g] = IF g = f THEN "reserved" ELSE lock[c][g]
    BY <2>1 DEF Types
  <2>6. \A d \in Conn \ {c} : lock'[d] = lock[d]
    BY <2>1 DEF Types
  <2>7. \A g \in File : lock[c][g] \in {"reserved", "exclusive"} <=> g \in Own(c)
    BY DEF LocksOK
  <2> QED
    BY <1>m, <2>2, <2>3, <2>4, <2>5, <2>6, <2>7, LocksFrom
<1>4. CASE Commit(c)
  <2>1. con[c].at = "idle" /\ lock' = lock /\ Goes(c, "lock", con[c].files)
    BY <1>4, CommitMoves DEF Commit
  <2>2. Own(c)' = Own(c)
    BY <2>1 DEF Own, Goes
  <2> QED
    BY <1>m, <2>1, <2>2, LocksAlike DEF Goes
<1>5. CASE ExclusiveLock(c)
  <2>0. con[c].at = "lock" /\ This(c) \in File /\ This(c) \in con[c].files
    BY <1>h, <1>5 DEF ExclusiveLock
  <2>1. CASE Goes(c, "idle", {}) /\ lock' = lock
    <3>1. Own(c)' = Own(c)
      BY <2>0, <2>1 DEF Own, Goes
    <3> QED
      BY <1>m, <2>1, <3>1, LocksAlike DEF Goes
  <2>2. CASE ~(Goes(c, "idle", {}) /\ lock' = lock)
    <3>1. /\ lock' = [lock EXCEPT ![c][This(c)] = "exclusive"]
          /\ ~Held(This(c), {"shared"}, c)
          /\ con'[c].files = con[c].files /\ con'[c].at \in {"lock", "master", "name"}
          /\ con'[c].at = "lock" => con'[c].todo = con[c].todo \ {This(c)}
          /\ con'[c].at # "lock" => con[c].todo \ {This(c)} = {}
      BY <1>5, <2>2, LockMoves DEF Goes
    <3>2. \A g \in File : (g \in Own(c)' <=> g \in Own(c)) /\ (g \in Own(c) <=> g \in con[c].files)
      BY <2>0, <3>1 DEF Own
    <3>4. \A d \in Conn \ {c} : lock[d][This(c)] = "none"
      <4>1. lock[c][This(c)] \in {"reserved", "exclusive"}
        BY <2>0, <3>2 DEF LocksOK
      <4> QED
        BY <2>0, <3>1, <4>1 DEF Held, LocksOK
    <3>5. \A g \in File : lock'[c][g] = IF g = This(c) THEN "exclusive" ELSE lock[c][g]
      BY <2>0, <3>1 DEF Types
    <3>6. \A d \in Conn \ {c} : lock'[d] = lock[d]
      BY <3>1 DEF Types
    <3>7. \A g \in File : /\ lock[c][g] \in {"reserved", "exclusive"} <=> g \in Own(c)
                          /\ g \in con[c].files \ con[c].todo => lock[c][g] = "exclusive"
      BY <2>0 DEF LocksOK
    <3>8. \A g \in File : g \in con[c].files /\ ~(con'[c].at = "lock" /\ g \in con'[c].todo) =>
                            lock'[c][g] = "exclusive"
      BY <3>1, <3>5, <3>7
    <3>9. \A g \in File : lock'[c][g] \in {"reserved", "exclusive"} <=> g \in Own(c)'
      BY <2>0, <3>2, <3>5, <3>7
    <3> HIDE DEF This
    <3> QED
      BY <1>m, <3>1, <3>2, <3>4, <3>5, <3>6, <3>8, <3>9, LocksFrom
  <2> QED
    BY <2>1, <2>2
<1>6. CASE Master(c) \/ WriteMaster(c) \/ SyncJournal(c) \/ WriteDb(c) \/ DeleteMaster(c)
  <2>1. /\ con[c].at \in Filing \cup {"master", "unlink"} /\ lock' = lock
        /\ con'[c].at \in Filing \cup {"syncdir"} /\ con'[c].files = con[c].files
    BY <1>6, FilingMoves DEF Goes, Master, WriteMaster, SyncJournal, WriteDb, DeleteMaster
  <2>2. Own(c)' = Own(c)
    BY <2>1 DEF Own
  <2> QED
    BY <1>m, <2>1, <2>2, LocksAlike
<1>7. CASE SyncDb(c) \/ SyncDirectory(c)
  <2>1. /\ con[c].at \in {"syncdb", "syncdir"} /\ lock' = lock
        /\ con'[c].at \in {"name", "unlink", "phase2"} /\ con'[c].files = con[c].files
        /\ con'[c].at = "phase2" => con'[c].todo = con[c].files
    BY <1>7, FilingMoves, SyncDbMoves DEF Goes, SyncDb, SyncDirectory, InPlace
  <2>2. Own(c)' = Own(c)
    BY <2>1 DEF Own
  <2> QED
    BY <1>m, <2>1, <2>2, LocksAlike
<1>8. CASE PhaseTwo(c)
  <2>0. con[c].at = "phase2" /\ This(c) \in File /\ This(c) \in con[c].todo
    BY <1>h, <1>8 DEF PhaseTwo
  <2>1. PICK l \in {"shared", "none"} : lock' = [lock EXCEPT ![c][This(c)] = l]
    BY <1>8 DEF PhaseTwo
  <2>2. \A g \in File : g \in Own(c)' <=> g \in Own(c) /\ g # This(c)
    BY <1>8, <2>0, PhaseTwoMoves DEF Own, Goes, Rests
  <2>3. con'[c].at \in {"phase2", "idle"}
    BY <1>8, PhaseTwoMoves DEF Goes, Rests
  <2>5. \A g \in File : lock'[c][g] = IF g = This(c) THEN l ELSE lock[c][g]
    BY <2>0, <2>1 DEF Types
  <2>6. \A d \in Conn \ {c} : lock'[d] = lock[d]
    BY <2>1 DEF Types
  <2>7. \A g \in File : /\ lock[c][g] \in {"reserved", "exclusive"} <=> g \in Own(c)
                        /\ g \in Own(c) => lock[c][g] = "exclusive"
    BY <2>0 DEF LocksOK
  <2>8. This(c) \in Own(c)
    BY <2>0 DEF Own
  <2> HIDE DEF This
  <2> QED
    BY <1>m, <2>2, <2>3, <2>5, <2>6, <2>7, <2>8, LocksFrom
<1>9. CASE Rollback(c) \/ IoError(c)
  <2>1. PICK f \in con[c].files : Checks(c, f, con[c].files \ {f}, 0, {})
    BY <1>9, FailMoves
  <2>2. lock' = lock /\ (con[c].at # "phase2" \/ con[c].todo = con[c].files)
        /\ con[c].at \in Filing \cup Ending \cup {"idle", "master"}
    BY <1>9 DEF Rollback, IoError, InPlace
  <2>3. Own(c)' = Own(c)
    BY <1>h, <2>1, <2>2 DEF Own, Checks, State, InPlace
  <2> QED
    BY <1>m, <2>1, <2>2, <2>3, LocksAlike DEF Checks
<1>10. CASE SyncHotJournal(c) \/ CheckMaster(c) \/ Restore(c) \/ SyncRestored(c)
  <2>1. /\ con[c].at \in Rolling \ {"delmaster"} /\ lock' = lock
        /\ con'[c].at \in Rolling \ {"delmaster"} /\ con'[c].files = con[c].files
        /\ con'[c].todo = con[c].todo /\ con'[c].cur = con[c].cur
    BY <1>h, <1>10, FilingMoves, CheckMoves DEF Goes, Looks, SyncHotJournal, CheckMaster, Restore,
                                          SyncRestored
  <2>2. Own(c)' = Own(c)
    BY <2>1 DEF Own
  <2> QED
    BY <1>m, <2>1, <2>2, LocksAlike
<1>11. CASE EndPlayback(c)
  <2>0. con[c].at = "finish" /\ con[c].cur \in File \ (con[c].files \cup con[c].todo)
        /\ lock' = [lock EXCEPT ![c][con[c].cur] = "shared"]
        /\ (con[c].files = {} \/ con[c].todo = {})
    BY <1>11 DEF EndPlayback, InPlace
  <2>2. \A g \in File : g \in Own(c)' <=> g \in Own(c) /\ g # con[c].cur
    <3>1. CASE Follows(c, named[con[c].master])
      BY <2>0, <3>1 DEF Own, Follows
    <3>2. CASE con' = [con EXCEPT ![c] = RolledBack(con[c])]
      <4>1. \A g \in File : g \in Own(c)' <=> g \in con[c].files \cup con[c].todo
        BY <1>h, <2>0, <3>2, RollsBackOwns
      <4> QED
        BY <2>0, <4>1 DEF Own
    <3> QED
      BY <1>11, <3>1, <3>2, EndMoves
  <2>3. con'[c].at \in {"check", "delmaster", "idle"}
    BY <1>11, EndMoves, RollsBack DEF Follows, Rests, Checks
  <2>5. \A g \in File : lock'[c][g] = IF g = con[c].cur THEN "shared" ELSE lock[c][g]
    BY <2>0 DEF Types
  <2>6. \A d \in Conn \ {c} : lock'[d] = lock[d]
    BY <2>0 DEF Types
  <2>7. \A g \in File : lock[c][g] \in {"reserved", "exclusive"} <=> g \in Own(c)
    BY DEF LocksOK
  <2>8. con[c].cur \in Own(c)
    BY <2>0 DEF Own
  <2> QED
    BY <1>m, <2>2, <2>3, <2>5, <2>6, <2>7, <2>8, LocksFrom
<1>12. CASE DelMaster(c)
  <2>0. con[c].at = "delmaster" /\ lock' = lock /\ (con[c].files = {} \/ con[c].todo = {})
    BY <1>12 DEF DelMaster, InPlace
  <2>1. con'[c].at \in {"check", "delmaster", "idle"}
    BY <1>12, DelMasterMoves, RollsBack DEF Follows, Rests, Checks
  <2>2. Own(c)' = Own(c)
    <3>1. CASE Follows(c, con[c].left \ {Min(con[c].left)})
      BY <2>0, <3>1 DEF Own, Follows
    <3>2. CASE con' = [con EXCEPT ![c] = RolledBack(con[c])]
      <4>1. \A g \in File : g \in Own(c)' <=> g \in con[c].files \cup con[c].todo
        BY <1>h, <2>0, <3>2, RollsBackOwns
      <4>2. \A g \in File : g \in Own(c) <=> g \in con[c].files \cup con[c].todo
        BY <2>0 DEF Own
      <4> QED
        BY <4>1, <4>2 DEF Own
    <3> QED
      BY <1>12, <3>1, <3>2, DelMasterMoves
  <2> QED
    BY <1>m, <2>0, <2>1, <2>2, LocksAlike
<1>13. CASE Crash(c)
  <2>1. Rests(c, 0, {}) /\ lock' = [lock EXCEPT ![c] = [f \in File |-> "none"]]
    BY <1>13, CrashMoves DEF Crash
  <2>2. \A g \in File : g \notin Own(c)' /\ lock'[c][g] = "none"
    BY <2>1 DEF Own, Rests, Types
  <2>3. \A d \in Conn \ {c} : lock'[d] = lock[d]
    BY <2>1 DEF Types
  <2> QED
    BY <1>m, <2>1, <2>2, <2>3, LocksFrom DEF Rests
<1> QED
  BY <1>1, <1>2, <1>3, <1>4, <1>5, <1>6, <1>7, <1>8, <1>9, <1>10, <1>11, <1>12, <1>13
     DEF Step

-----------------------------------------------------------------------------
(* Steps that change one file, or none.                                    *)
FileSame(f) == db'[f] = db[f] /\ dbOld'[f] = dbOld[f] /\ jrnl'[f] = jrnl[f] /\ jrnlOld'[f] = jrnlOld[f]

OnlyFile(g) == \A f \in File \ {g} : FileSame(f)

SameMasters == mj' = mj /\ named' = named

(* No journal is no journal.                                               *)
LEMMA NotAJournal ==
  NoJournal \notin Journal
  BY MultiAssumption DEF Journal, Contents

(* A file that stays the same.                                             *)
LEMMA FileKept ==
  ASSUME NEW f \in File, FileOK(f), FileSame(f), SameMasters
  PROVE  FileOK(f)'
  BY DEF FileOK, FileSame, SameMasters, Firm, Live, OnDisk, SameBut

(* The number of a transaction that has written nothing is on no disk.     *)
LEMMA MasterFree ==
  ASSUME Types, NEW c \in Conn, InPlace(c), Numbered, con[c].files # {},
         con[c].at \in Growing \cup Rolling
  PROVE  con[c].tid \in Txn /\ Unused(con[c].tid)
  BY DEF Types, State, Txn, InPlace, Numbered

(* A journal of a commit under way is one to be used.                      *)
LEMMA OwnLive ==
  ASSUME Types, NEW c \in Conn, Mastered(c), InPlace(c)
  PROVE  con[c].at \in Filing \cup {"unlink"} => MasterOf(c) \in mj \cup {0}
  BY DEF Mastered, MasterOf

(* A master journal is written: no journal names it yet.                   *)
LEMMA MasterFiles ==
  ASSUME Types, NEW c \in Conn, InPlace(c), Numbered, Master(c), NEW f \in File, FileOK(f)
  PROVE  FileOK(f)'
<1> DEFINE t == con[c].tid
<1>1. con[c].at = "master" /\ mj' = mj \cup {t} /\ named' = [named EXCEPT ![t] = con[c].files]
      /\ UNCHANGED <<db, dbOld, jrnl, jrnlOld>>
  BY DEF Master
<1>2. t \in Txn /\ Unused(t)
  BY <1>1, MasterFree DEF InPlace, Growing
<1>3. /\ t \notin db[f] /\ \A j \in OnDisk(f) : t \notin j.orig /\ j.master # t
      /\ \A j \in OnDisk(f) : j.master \in 0 .. MaxTxn
  BY <1>2 DEF Unused, Types, OnDisk, Journal
<1> HIDE DEF t
<1>4. Firm(f)' = Firm(f) /\ Live(f)' = Live(f) /\ OnDisk(f)' = OnDisk(f)
  BY <1>1, <1>3 DEF Firm, Live, OnDisk
<1>5. \A u \in Txn \ {t} : named'[u] = named[u]
  BY <1>1 DEF Types
<1>6. \A j \in OnDisk(f) : SameBut(f, j.orig, db[f], j.master) => SameBut(f, j.orig, db[f], j.master)'
  BY <1>1, <1>3, <1>5 DEF SameBut
<1>7. \A j \in OnDisk(f) : j.master # 0 => f \in named'[j.master]
  BY <1>3, <1>5 DEF FileOK, Txn
<1> QED
  BY <1>1, <1>4, <1>6, <1>7 DEF FileOK

(* It is deleted: every journal that names it is that of a file written    *)
(* for good.                                                               *)
LEMMA DeleteMasterFiles ==
  ASSUME Types, NEW c \in Conn, InPlace(c), Staged(c), Mastered(c), DeleteMaster(c),
         NEW f \in File, FileOK(f)
  PROVE  FileOK(f)'
<1>0. PICK t : t = con[c].tid
  OBVIOUS
<1>1. con[c].at = "unlink" /\ mj' = mj \ {t} /\ UNCHANGED <<db, dbOld, jrnl, jrnlOld, named>>
  BY <1>0 DEF DeleteMaster, UnlinkMaster
<1>2. t \in Txn /\ t \in mj /\ Multi(c) /\ named[t] = con[c].files /\ con[c].todo = con[c].files
  BY <1>0, <1>1, Handled DEF InPlace, Mastered, Ending
<1>3. MasterOf(c) = t /\ t # 0
  BY <1>0, <1>2 DEF MasterOf, Txn
<1>4. CASE f \in con[c].files
  <2>1. /\ Firm(f) /\ jrnl[f].master = t /\ db[f] = jrnl[f].orig \cup {t} /\ dbOld[f] = {}
    BY <1>0, <1>1, <1>2, <1>3, <1>4 DEF Staged, Ending, Done, Written
  <2>2. jrnlOld[f] = {} /\ OnDisk(f) = {jrnl[f]} /\ 0 \notin jrnl[f].orig
    BY <2>1 DEF FileOK, OnDisk, Firm
  <2>3. OnDisk(f)' = OnDisk(f) /\ ~Live(f)'
    BY <1>1, <1>3, <2>1 DEF OnDisk, Live
  <2>4. SameBut(f, jrnl[f].orig, db[f], t)'
    BY <1>1, <2>1 DEF SameBut
  <2> QED
    BY <1>1, <1>3, <2>1, <2>2, <2>3, <2>4 DEF FileOK
<1>5. CASE f \notin con[c].files
  <2>1. \A j \in OnDisk(f) : j.master # t
    BY <1>2, <1>3, <1>5 DEF FileOK
  <2>2. Live(f)' = Live(f) /\ OnDisk(f)' = OnDisk(f)
    BY <1>1, <2>1 DEF Live, Firm, OnDisk
  <2> QED
    BY <1>1, <2>2 DEF FileOK, SameBut, Firm
<1> QED
  BY <1>4, <1>5

(* A rollback deletes one that no journal names.                           *)
LEMMA DelMasterFiles ==
  ASSUME Types, NEW c \in Conn, Rolled(c), DelMaster(c), NEW f \in File, FileOK(f)
  PROVE  FileOK(f)'
<1>0. con[c].at = "delmaster" /\ UNCHANGED <<db, dbOld, jrnl, jrnlOld, named>>
  BY DEF DelMaster
<1>1. CASE mj' = mj
  BY <1>0, <1>1, FileKept DEF FileSame, SameMasters
<1>2. CASE con[c].left = {} /\ UnlinkMaster(con[c].master)
  <2> DEFINE m == con[c].master
  <2>1. m # 0 /\ mj' = mj \ {m} /\ \A g \in named[m] : ~Names(g, m)
    BY <1>0, <1>2 DEF Rolled, UnlinkMaster
  <2>2. jrnl[f] # NoJournal => jrnl[f].master # m
    BY <2>1 DEF FileOK, OnDisk, Names
  <2>3. Live(f)' = Live(f)
    BY <1>0, <2>1, <2>2 DEF Live, Firm
  <2> QED
    BY <1>0, <2>3 DEF FileOK, SameBut, OnDisk, Firm
<1> QED
  BY <1>1, <1>2, DelMasterMoves

-----------------------------------------------------------------------------
(* The journal of a file is made.                                          *)
LEMMA WriteFiles ==
  ASSUME Types, NothingHot, NEW c \in Conn, NEW g \in File, Write(c, g), FileOK(g)
  PROVE  /\ OnlyFile(g) /\ SameMasters /\ FileOK(g)'
         /\ ~Firm(g) /\ db' = db /\ dbOld' = dbOld
         /\ jrnl'[g] # NoJournal /\ jrnl'[g].orig = db[g] /\ ~jrnl'[g].firm /\ jrnl'[g].master = 0
<1> DEFINE j == [orig |-> db[g], firm |-> FALSE, master |-> 0]
<1>1. ~Firm(g) /\ ~Live(g)
  BY DEF NothingHot, Write, Live
<1>2. /\ jrnl' = [jrnl EXCEPT ![g] = j] /\ jrnlOld' = [jrnlOld EXCEPT ![g] = @ \cup {NoJournal}]
      /\ UNCHANGED <<db, dbOld, mj, named>>
  BY DEF Write
<1>3. j \in Journal /\ j # NoJournal
  <2>1. j \in Journal
    BY MultiAssumption DEF Types, Journal
  <2> QED
    BY <2>1, NotAJournal
<1>4. j.orig = db[g] /\ j.firm = FALSE /\ j.master = 0
  OBVIOUS
<1> HIDE DEF j
<1>5. jrnl'[g] = j /\ jrnlOld'[g] = jrnlOld[g] \cup {NoJournal} /\ OnlyFile(g)
  BY <1>2 DEF Types, OnlyFile, FileSame
<1>6. \A k \in OnDisk(g)' : k = j \/ k \in OnDisk(g)
  BY <1>5 DEF OnDisk
<1>7. ~Firm(g)' /\ ~Live(g)'
  BY <1>4, <1>5 DEF Firm, Live
<1>8. FileOK(g)'
  BY <1>1, <1>2, <1>4, <1>6, <1>7 DEF FileOK, SameBut
<1> QED
  BY <1>1, <1>2, <1>3, <1>4, <1>5, <1>8 DEF SameMasters

(* It is given the name of the master.                                     *)
LEMMA WriteMasterFiles ==
  ASSUME Types, MastersOK, NEW c \in Conn, InPlace(c), Staged(c), Mastered(c), WriteMaster(c),
         NEW g \in File, g = This(c), FileOK(g), NEW m, m = MasterOf(c)
  PROVE  /\ OnlyFile(g) /\ SameMasters /\ FileOK(g)'
         /\ ~Firm(g) /\ ~Firm(g)' /\ db' = db /\ dbOld' = dbOld
         /\ Journalled(g, FALSE, m)'
<1> DEFINE j == [jrnl[g] EXCEPT !.master = m]
<1>1. con[c].at = "name" /\ g \in File /\ g \in con[c].files /\ con[c].tid \in Txn
  BY Handled DEF WriteMaster, Filing
<1>2. Journalled(g, FALSE, 0) /\ jrnl[g] \in Journal
  BY <1>1, ThisFile DEF Staged, Filing, InPlace, Journalled, Types
<1>3. /\ jrnl' = [jrnl EXCEPT ![g] = j] /\ jrnlOld' = [jrnlOld EXCEPT ![g] = @ \cup {jrnl[g]}]
      /\ UNCHANGED <<db, dbOld, mj, named>>
  BY <1>1 DEF WriteMaster, MasterOf, Types
<1>4. m \in 0 .. MaxTxn
  BY <1>1, MultiAssumption DEF MasterOf, Txn
<1>5. j \in Journal /\ j # NoJournal /\ j.orig = db[g] /\ j.firm = FALSE /\ j.master = m
  BY <1>2, <1>4, MultiAssumption DEF Journal, Journalled, Contents
<1>6. ~Firm(g) /\ ~Live(g)
  BY <1>2 DEF Firm, Live, Journalled
<1>7. m # 0 => g \in named[m] /\ m \notin db[g]
  <2>1. SUFFICES ASSUME Multi(c) PROVE g \in named[m] /\ m \notin db[g]
    BY DEF MasterOf
  <2>2. m = con[c].tid /\ m \in mj /\ g \in named[m]
    BY <1>1, <2>1 DEF MasterOf, Mastered, Filing
  <2>3. m \notin Recovered(g)
    BY <2>2 DEF MastersOK
  <2> QED
    BY <1>6, <2>2, <2>3 DEF Recovered, Firm
<1>8. 0 \notin db[g] /\ dbOld[g] = {}
  BY <1>6 DEF FileOK
<1> DEFINE old == jrnl[g]
<1>o. old = jrnl[g]
  OBVIOUS
<1> HIDE DEF j, old
<1>9. jrnl'[g] = j /\ jrnlOld'[g] = jrnlOld[g] \cup {jrnl[g]} /\ OnlyFile(g)
  BY <1>1, <1>3 DEF Types, OnlyFile, FileSame
<1>10. \A k \in OnDisk(g)' : k = j \/ k \in OnDisk(g)
  BY <1>9, <1>o DEF OnDisk
<1>11. ~Firm(g)' /\ ~Live(g)'
  BY <1>5, <1>9 DEF Firm, Live
<1>12. FileOK(g)'
  BY <1>3, <1>5, <1>6, <1>7, <1>8, <1>10, <1>11 DEF FileOK, SameBut
<1>13. Journalled(g, FALSE, m)'
  BY <1>3, <1>5, <1>9 DEF Journalled
<1> QED
  BY <1>3, <1>6, <1>9, <1>11, <1>12, <1>13 DEF SameMasters

-----------------------------------------------------------------------------
(* Recovery makes the same of the file.                                    *)
SeenSame(f) == \A t \in Txn : f \in named'[t] => (t \in Recovered(f)' <=> t \in Recovered(f))

(* What recovery makes of a file.                                          *)
LEMMA RecoveredIs ==
  ASSUME NEW f \in File
  PROVE  /\ Live(f) => Recovered(f) = jrnl[f].orig
         /\ ~Live(f) => Recovered(f) = db[f]
         /\ Live(f)' => Recovered(f)' = jrnl'[f].orig
         /\ ~Live(f)' => Recovered(f)' = db'[f]
  BY DEF Live, Firm, Recovered

(* A file that stays the same is recovered the same.                       *)
LEMMA SameIsSeen ==
  ASSUME NEW f \in File, FileSame(f), SameMasters
  PROVE  SeenSame(f)
  BY DEF FileSame, SameMasters, SeenSame, Recovered

(* A journal is synced: it has what is in the file.                        *)
LEMMA SyncJournalFiles ==
  ASSUME Types, NEW c \in Conn, InPlace(c), Staged(c), Mastered(c), SyncJournal(c),
         NEW g \in File, g = This(c), FileOK(g), NEW m, m = MasterOf(c)
  PROVE  /\ OnlyFile(g) /\ SameMasters /\ FileOK(g)' /\ SeenSame(g)
         /\ db' = db /\ dbOld' = dbOld /\ Live(g)'
         /\ Journalled(g, TRUE, m)' /\ jrnlOld'[g] = {}
<1> DEFINE j == [jrnl[g] EXCEPT !.firm = TRUE]
<1>1. con[c].at = "syncjournal"
  BY DEF SyncJournal
<1>2. Journalled(g, FALSE, m) /\ jrnl[g] \in Journal /\ m \in mj \cup {0}
  BY <1>1, OwnLive DEF Staged, Filing, Journalled, Types
<1>3. /\ jrnl' = [jrnl EXCEPT ![g] = j] /\ jrnlOld' = [jrnlOld EXCEPT ![g] = {}]
      /\ UNCHANGED <<db, dbOld, mj, named>>
  BY <1>1 DEF SyncJournal, Types
<1>5. j \in Journal /\ j # NoJournal /\ j.orig = db[g] /\ j.firm = TRUE /\ j.master = m
  BY <1>2, NotAJournal DEF Journal, Journalled
<1>6. ~Firm(g) /\ ~Live(g)
  BY <1>2 DEF Firm, Live, Journalled
<1>7. 0 \notin db[g] /\ (m # 0 => g \in named[m] /\ m \notin db[g])
  BY <1>2, <1>6 DEF FileOK, OnDisk, Journalled
<1> HIDE DEF j
<1>9. jrnl'[g] = j /\ jrnlOld'[g] = {} /\ OnlyFile(g)
  BY <1>3 DEF Types, OnlyFile, FileSame
<1>10. OnDisk(g)' = {j} /\ Live(g)' /\ Firm(g)'
  BY <1>2, <1>3, <1>5, <1>9 DEF OnDisk, Live, Firm
<1>12. FileOK(g)'
  BY <1>3, <1>5, <1>7, <1>9, <1>10 DEF FileOK
<1>13. Journalled(g, TRUE, m)'
  BY <1>3, <1>5, <1>9 DEF Journalled
<1>14. SeenSame(g)
  BY <1>3, <1>5, <1>6, <1>9, <1>10, RecoveredIs DEF SeenSame
<1> QED
  BY <1>3, <1>9, <1>10, <1>12, <1>13, <1>14 DEF SameMasters

(* The file is written under a live journal.                               *)
LEMMA PutFiles ==
  ASSUME Types, NEW g \in File, NEW s, Put(g, s), jrnl' = jrnl, jrnlOld' = jrnlOld, SameMasters,
         FileOK(g), Live(g)
  PROVE  /\ OnlyFile(g) /\ FileOK(g)' /\ SeenSame(g) /\ Live(g)' /\ db'[g] = s
<1>1. db'[g] = s /\ OnlyFile(g)
  BY DEF Put, Types, OnlyFile, FileSame
<1>2. OnDisk(g)' = OnDisk(g) /\ Live(g)' /\ Firm(g)' /\ jrnlOld[g] = {}
  BY DEF OnDisk, Live, Firm, SameMasters, FileOK
<1>3. OnDisk(g) = {jrnl[g]}
  BY <1>2 DEF OnDisk, Live, Firm
<1>4. FileOK(g)'
  BY <1>2, <1>3 DEF FileOK, SameMasters
<1>5. SeenSame(g)
  BY <1>2, RecoveredIs DEF SeenSame
<1> QED
  BY <1>1, <1>2, <1>4, <1>5

(* A file is written in a commit.                                          *)
LEMMA WriteDbFiles ==
  ASSUME Types, NEW c \in Conn, InPlace(c), Staged(c), Mastered(c), WriteDb(c) \/ IoError(c),
         con[c].at = "write", NEW g \in File, g = This(c), FileOK(g)
  PROVE  /\ OnlyFile(g) /\ SameMasters /\ FileOK(g)' /\ SeenSame(g)
         /\ jrnl' = jrnl /\ jrnlOld' = jrnlOld /\ Live(g)
         /\ WriteDb(c) => db'[g] = jrnl[g].orig \cup {con[c].tid}
<1>2. Journalled(g, TRUE, MasterOf(c)) /\ MasterOf(c) \in mj \cup {0}
  BY OwnLive DEF Staged, Filing
<1>3. /\ WriteDb(c) => Put(g, db[g] \cup {con[c].tid})
      /\ \E s : Put(g, s)
      /\ jrnl' = jrnl /\ jrnlOld' = jrnlOld /\ SameMasters
  BY DEF WriteDb, IoError, SameMasters
<1>4. Live(g)
  BY <1>2 DEF Live, Firm, Journalled
<1>5. WriteDb(c) => db'[g] = db[g] \cup {con[c].tid}
  BY <1>3, <1>4, PutFiles
<1> QED
  BY <1>2, <1>3, <1>4, <1>5, PutFiles DEF Journalled

(* A file is synced.                                                       *)
LEMMA SyncFiles ==
  ASSUME Types, NEW g \in File, dbOld' = [dbOld EXCEPT ![g] = {}], db' = db, jrnl' = jrnl,
         jrnlOld' = jrnlOld, SameMasters, FileOK(g)
  PROVE  OnlyFile(g) /\ FileOK(g)' /\ SeenSame(g) /\ dbOld'[g] = {}
<1>1. dbOld'[g] = {} /\ OnlyFile(g)
  BY DEF Types, OnlyFile, FileSame
<1>2. FileOK(g)'
  BY <1>1 DEF FileOK, SameMasters, SameBut, OnDisk, Live, Firm
<1>3. SeenSame(g)
  BY DEF SeenSame, SameMasters, Recovered
<1> QED
  BY <1>1, <1>2, <1>3

(* A hot journal is synced.                                                *)
LEMMA SyncHotFiles ==
  ASSUME Types, NEW g \in File, jrnlOld' = [jrnlOld EXCEPT ![g] = {}], db' = db, jrnl' = jrnl,
         dbOld' = dbOld, SameMasters, FileOK(g)
  PROVE  OnlyFile(g) /\ FileOK(g)' /\ SeenSame(g)
<1>1. jrnlOld'[g] = {} /\ OnlyFile(g)
  BY DEF Types, OnlyFile, FileSame
<1>2. FileOK(g)'
  BY <1>1 DEF FileOK, SameMasters, SameBut, OnDisk, Live, Firm
<1>3. SeenSame(g)
  BY DEF SeenSame, SameMasters, Recovered
<1> QED
  BY <1>1, <1>2, <1>3

(* A journal goes when the file is what it should be.                      *)
LEMMA UnlinkFiles ==
  ASSUME Types, NEW g \in File, Unlink(g), db' = db, dbOld' = dbOld, SameMasters, FileOK(g),
         jrnl[g] # NoJournal,
         Live(g) => 0 \notin db[g] /\ dbOld[g] = {} /\ SameBut(g, jrnl[g].orig, db[g], jrnl[g].master)
                    /\ (jrnl[g].master # 0 => jrnl[g].master \notin db[g])
  PROVE  OnlyFile(g) /\ FileOK(g)' /\ SeenSame(g) /\ jrnl'[g] = NoJournal
<1> DEFINE j == jrnl[g]
<1>0. PICK k : k = jrnl[g]
  OBVIOUS
<1>1. jrnl'[g] = NoJournal /\ jrnlOld'[g] = jrnlOld[g] \cup {k} /\ OnlyFile(g)
  BY <1>0 DEF Unlink, Types, OnlyFile, FileSame
<1>2. OnDisk(g)' = OnDisk(g) /\ k \in OnDisk(g) /\ k.master \in 0 .. MaxTxn
  BY <1>0, <1>1 DEF OnDisk, Types, Journal
<1>3. ~Firm(g)' /\ ~Live(g)'
  BY <1>1 DEF Firm, Live
<1>4. 0 \notin db[g] /\ dbOld[g] = {}
  BY DEF FileOK
<1>5. \A i \in OnDisk(g) : i.firm => SameBut(g, i.orig, db[g], i.master)
  BY <1>0 DEF FileOK
<1>6. FileOK(g)'
  BY <1>2, <1>3, <1>4, <1>5 DEF FileOK, SameBut, SameMasters
<1>7. SeenSame(g)
  <2>1. ASSUME Live(g), NEW t \in Txn, g \in named'[t]
        PROVE  t \in Recovered(g)' <=> t \in Recovered(g)
    <3>1. Recovered(g) = k.orig /\ Recovered(g)' = db[g]
      BY <1>0, <1>3, <2>1, RecoveredIs
    <3>2. t # k.master => (t \in k.orig <=> t \in db[g])
      BY <1>0, <2>1 DEF SameBut, SameMasters
    <3>3. t = k.master => t \notin k.orig /\ t \notin db[g]
      BY <1>0, <1>2, <2>1 DEF FileOK, Txn
    <3> QED
      BY <3>1, <3>2, <3>3
  <2> QED
    BY <1>3, <2>1, RecoveredIs DEF SeenSame
<1> QED
  BY <1>1, <1>6, <1>7

(* at the end of a commit,                                                 *)
LEMMA PhaseTwoFiles ==
  ASSUME Types, NEW c \in Conn, InPlace(c), Staged(c), Mastered(c), PhaseTwo(c),
         NEW g \in File, g = This(c), FileOK(g)
  PROVE  /\ OnlyFile(g) /\ SameMasters /\ FileOK(g)' /\ SeenSame(g)
         /\ lock'[c][g] = "shared" => jrnl'[g] = NoJournal
<1>1. con[c].at = "phase2" /\ g \in con[c].todo /\ con[c].tid \in Txn
  BY Handled DEF PhaseTwo, Ending
<1>2. /\ Firm(g) /\ jrnl[g].master = MasterOf(c) /\ db[g] = jrnl[g].orig \cup {con[c].tid}
      /\ dbOld[g] = {}
  BY <1>1 DEF Staged, Done, Written, Ending
<1>3. db' = db /\ dbOld' = dbOld /\ SameMasters
  BY DEF PhaseTwo, SameMasters
<1>4. CASE Unlink(g)
  <2>1. jrnl[g] # NoJournal /\ jrnl[g] \in OnDisk(g)
    BY <1>2 DEF Firm, OnDisk
  <2>2. ASSUME Live(g)
        PROVE  /\ 0 \notin db[g] /\ SameBut(g, jrnl[g].orig, db[g], jrnl[g].master)
               /\ jrnl[g].master = 0
    <3>1. ~Multi(c)
      BY <1>1, <1>2, <2>2 DEF MasterOf, Mastered, Live, Txn
    <3>2. named[con[c].tid] = {} /\ jrnl[g].master = 0
      BY <1>1, <1>2, <3>1 DEF Mastered, Ending, MasterOf
    <3> QED
      BY <1>1, <1>2, <2>1, <3>2 DEF SameBut, FileOK, Txn
  <2>3. OnlyFile(g) /\ FileOK(g)' /\ SeenSame(g) /\ jrnl'[g] = NoJournal
    BY <1>2, <1>3, <1>4, <2>1, <2>2, UnlinkFiles
  <2> QED
    BY <1>3, <2>3
<1>5. CASE UNCHANGED <<jrnl, jrnlOld>> /\ lock' = [lock EXCEPT ![c][This(c)] = "none"]
  <2>1. FileSame(g) /\ OnlyFile(g) /\ lock'[c][g] = "none"
    BY <1>3, <1>5 DEF OnlyFile, FileSame, Types
  <2> QED
    BY <1>3, <2>1, FileKept, SameIsSeen
<1> QED
  BY <1>4, <1>5 DEF PhaseTwo

(* at the end of a rollback.                                               *)
LEMMA EndFiles ==
  ASSUME Types, NEW c \in Conn, InPlace(c), Rolled(c), EndPlayback(c),
         NEW g \in File, g = con[c].cur, FileOK(g)
  PROVE  /\ OnlyFile(g) /\ SameMasters /\ FileOK(g)' /\ SeenSame(g) /\ jrnl'[g] = NoJournal
<1>1. con[c].at = "finish" /\ Unlink(g) /\ db' = db /\ dbOld' = dbOld /\ SameMasters
  BY DEF EndPlayback, SameMasters
<1>2. jrnl[g] # NoJournal /\ jrnl[g] \in OnDisk(g)
  BY <1>1 DEF Rolled, OnDisk, Rolling
<1>3. ASSUME Live(g)
      PROVE  /\ 0 \notin db[g] /\ dbOld[g] = {} /\ SameBut(g, jrnl[g].orig, db[g], jrnl[g].master)
             /\ (jrnl[g].master # 0 => jrnl[g].master \notin db[g])
  <2>1. db[g] = jrnl[g].orig /\ dbOld[g] = {}
    BY <1>1, <1>3 DEF Rolled, Live, Firm
  <2> QED
    BY <1>2, <2>1 DEF FileOK, SameBut
<1> QED
  BY <1>1, <1>2, <1>3, UnlinkFiles

(* A file is restored from its journal.                                    *)
LEMMA RestoreFiles ==
  ASSUME Types, NEW c \in Conn, InPlace(c), Rolled(c), Restore(c),
         NEW g \in File, g = con[c].cur, FileOK(g)
  PROVE  /\ OnlyFile(g) /\ SameMasters /\ FileOK(g)' /\ SeenSame(g)
         /\ jrnl' = jrnl /\ jrnlOld' = jrnlOld
         /\ jrnl[g].firm => db'[g] = jrnl[g].orig
<1>1. con[c].at = "restore" /\ jrnl[g] # NoJournal /\ jrnl[g].master \in mj \cup {0}
  BY DEF Restore, Rolled, Rolling
<1>2. jrnl' = jrnl /\ jrnlOld' = jrnlOld /\ SameMasters
  BY DEF Restore, SameMasters
<1>3. CASE jrnl[g].firm
  <2>1. Live(g)
    BY <1>1, <1>3 DEF Live, Firm
  <2>2. Put(g, jrnl[g].orig)
    BY <1>3 DEF Restore
  <2> QED
    BY <1>2, <2>1, <2>2, PutFiles
<1>4. CASE ~jrnl[g].firm
  <2>1. FileSame(g) /\ OnlyFile(g)
    BY <1>2, <1>4 DEF Restore, FileSame, OnlyFile
  <2> QED
    BY <1>2, <1>4, <2>1, FileKept, SameIsSeen
<1> QED
  BY <1>3, <1>4

-----------------------------------------------------------------------------
(* A file has one owner.                                                   *)
LEMMA OwnedOnce ==
  ASSUME LocksOK, NEW c \in Conn, NEW d \in Conn \ {c}, NEW g \in Own(c), g \in File
  PROVE  g \notin Own(d)
  BY DEF LocksOK

(* A step changes one file, one that nobody else owns.                     *)
Touch(c) ==
  \/ \A f \in File : FileSame(f)
  \/ \E g \in File : OnlyFile(g) /\ \A d \in Conn \ {c} : g \notin Own(d)

(* A step on one file that its connection owns.                            *)
LEMMA TouchesFile ==
  ASSUME NEW c \in Conn, LocksOK, NEW g \in File, g \in Own(c), OnlyFile(g), SameMasters,
         \A f \in File : FileOK(f), FileOK(g)', SeenSame(g)
  PROVE  (\A f \in File : FileOK(f)' /\ SeenSame(f)) /\ Touch(c)
<1>1. \A f \in File \ {g} : FileSame(f)
  BY DEF OnlyFile
<1>2. \A f \in File \ {g} : FileOK(f)' /\ SeenSame(f)
  BY <1>1, FileKept, SameIsSeen
<1> QED
  BY <1>2, OwnedOnce DEF Touch

(* A step that leaves the files alone.                                     *)
LEMMA TouchesNothing ==
  ASSUME NEW c \in Conn, UNCHANGED <<db, dbOld, jrnl, jrnlOld>>, SameMasters, \A f \in File : FileOK(f)
  PROVE  (\A f \in File : FileOK(f)' /\ SeenSame(f)) /\ Touch(c)
<1>1. \A f \in File : FileSame(f)
  BY DEF FileSame
<1> QED
  BY <1>1, FileKept, SameIsSeen DEF Touch

(* A new master journal changes nothing for recovery.                      *)
LEMMA Seen ==
  ASSUME Types, NEW c \in Conn, InPlace(c), Numbered, Master(c), NEW f \in File
  PROVE  SeenSame(f)
<1>0. PICK t : t = con[c].tid
  OBVIOUS
<1>1. con[c].at = "master" /\ mj' = mj \cup {t} /\ named' = [named EXCEPT ![t] = con[c].files]
      /\ UNCHANGED <<db, jrnl>>
  BY <1>0 DEF Master
<1>2. t \in Txn /\ Unused(t)
  BY <1>0, <1>1, MasterFree DEF InPlace, Growing
<1>3. jrnl[f] # NoJournal => jrnl[f].master # t
  BY <1>2 DEF Unused, OnDisk
<1> QED
  BY <1>1, <1>3 DEF SeenSame, Recovered

(* The files are kept by any step of a connection; only the deletion of a  *)
(* master journal changes what recovery makes of them.                     *)
LEMMA FilesStep ==
  ASSUME Types, LocksOK, NothingHot, Numbered, MastersOK, \A f \in File : FileOK(f),
         NEW c \in Conn, InPlace(c), Staged(c), Mastered(c), Rolled(c), Step(c)
  PROVE  /\ \A f \in File : FileOK(f)'
         /\ ~DeleteMaster(c) => \A f \in File : SeenSame(f)
         /\ Touch(c)
<1>h. /\ con[c].at \in Filing \cup Ending \cup {"lock", "master"} =>
              /\ This(c) \in con[c].todo /\ This(c) \in File /\ This(c) \in con[c].files
              /\ con[c].at # "lock" => This(c) \in Own(c)
      /\ con[c].at \in Rolling => con[c].cur \in File
      /\ con[c].at \in Rolling \ {"delmaster"} => con[c].cur \in Own(c)
  BY Handled DEF Own, Rolling, Filing, Ending
<1>1. CASE \E f \in File : Read(c, f) \/ EndRead(c, f)
  BY <1>1, TouchesNothing DEF Read, EndRead, disk, SameMasters
<1>2. ASSUME NEW g \in File, Write(c, g)
      PROVE  (\A f \in File : FileOK(f)' /\ SeenSame(f)) /\ Touch(c)
  <2>1. /\ OnlyFile(g) /\ SameMasters /\ FileOK(g)' /\ ~Firm(g) /\ db' = db
        /\ jrnl'[g] # NoJournal /\ ~jrnl'[g].firm
    BY <1>2, WriteFiles
  <2>2. SeenSame(g)
    BY <2>1 DEF SeenSame, Recovered, Firm
  <2>3. \A d \in Conn \ {c} : g \notin Own(d)
    BY <1>2 DEF Write, Held, LocksOK
  <2>4. \A f \in File \ {g} : FileSame(f)
    BY <2>1 DEF OnlyFile
  <2> QED
    BY <2>1, <2>2, <2>3, <2>4, FileKept, SameIsSeen DEF Touch
<1>3. CASE Commit(c) \/ ExclusiveLock(c) \/ Rollback(c) \/ CheckMaster(c) \/ Crash(c)
  <2>1. UNCHANGED <<db, dbOld, jrnl, jrnlOld>> /\ SameMasters
    BY <1>3 DEF Commit, ExclusiveLock, Rollback, CheckMaster, Crash, disk, SameMasters
  <2> QED
    BY <2>1, TouchesNothing
<1>4. CASE Master(c)
  <2>1. \A f \in File : FileSame(f)
    BY <1>4 DEF Master, FileSame
  <2> QED
    BY <1>4, <2>1, MasterFiles, Seen DEF Touch
<1>5. CASE WriteMaster(c)
  <2>1. PICK g \in File : g = This(c) /\ g \in Own(c)
    BY <1>h, <1>5 DEF WriteMaster, Filing
  <2>2. /\ OnlyFile(g) /\ SameMasters /\ FileOK(g)' /\ ~Firm(g) /\ ~Firm(g)' /\ db' = db
    BY <1>5, <2>1, WriteMasterFiles
  <2>3. SeenSame(g)
    BY <2>2 DEF SeenSame, Recovered, Firm, SameMasters
  <2> QED
    BY <2>1, <2>2, <2>3, TouchesFile
<1>6. CASE SyncJournal(c)
  <2>1. PICK g \in File : g = This(c) /\ g \in Own(c)
    BY <1>h, <1>6 DEF SyncJournal, Filing
  <2>2. /\ OnlyFile(g) /\ SameMasters /\ FileOK(g)' /\ SeenSame(g)
    BY <1>6, <2>1, SyncJournalFiles
  <2> QED
    BY <2>1, <2>2, TouchesFile
<1>7. CASE WriteDb(c) \/ (IoError(c) /\ con[c].at = "write")
  <2>1. PICK g \in File : g = This(c) /\ g \in Own(c)
    BY <1>h, <1>7 DEF WriteDb, Filing
  <2>2. /\ OnlyFile(g) /\ SameMasters /\ FileOK(g)' /\ SeenSame(g)
    BY <1>7, <2>1, WriteDbFiles DEF WriteDb
  <2> QED
    BY <2>1, <2>2, TouchesFile
<1>8. CASE IoError(c) /\ con[c].at # "write"
  <2>1. UNCHANGED <<db, dbOld, jrnl, jrnlOld>> /\ SameMasters
    BY <1>8 DEF IoError, SameMasters
  <2> QED
    BY <2>1, TouchesNothing
<1>9. CASE SyncDb(c)
  <2>1. PICK g \in File : g = This(c) /\ g \in Own(c)
    BY <1>h, <1>9 DEF SyncDb, Filing
  <2>2. /\ OnlyFile(g) /\ SameMasters /\ FileOK(g)' /\ SeenSame(g)
    BY <1>9, <2>1, SyncFiles DEF SyncDb, SameMasters
  <2> QED
    BY <2>1, <2>2, TouchesFile
<1>10. CASE DeleteMaster(c)
  <2>1. \A f \in File : FileSame(f)
    BY <1>10 DEF DeleteMaster, FileSame
  <2> QED
    BY <1>10, <2>1, DeleteMasterFiles DEF Touch
<1>11. CASE SyncDirectory(c)
  <2>1. UNCHANGED <<db, dbOld, jrnl, jrnlOld>> /\ SameMasters
    BY <1>11 DEF SyncDirectory, SameMasters
  <2> QED
    BY <2>1, TouchesNothing
<1>12. CASE PhaseTwo(c)
  <2>1. PICK g \in File : g = This(c) /\ g \in Own(c)
    BY <1>h, <1>12 DEF PhaseTwo, Ending
  <2>2. /\ OnlyFile(g) /\ SameMasters /\ FileOK(g)' /\ SeenSame(g)
    BY <1>12, <2>1, PhaseTwoFiles
  <2> QED
    BY <2>1, <2>2, TouchesFile
<1>13. CASE SyncHotJournal(c)
  <2>1. PICK g \in File : g = con[c].cur /\ g \in Own(c)
    BY <1>h, <1>13 DEF SyncHotJournal, Rolling
  <2>2. /\ OnlyFile(g) /\ SameMasters /\ FileOK(g)' /\ SeenSame(g)
    BY <1>13, <2>1, SyncHotFiles DEF SyncHotJournal, SameMasters
  <2> QED
    BY <2>1, <2>2, TouchesFile
<1>14. CASE Restore(c)
  <2>1. PICK g \in File : g = con[c].cur /\ g \in Own(c)
    BY <1>h, <1>14 DEF Restore, Rolling
  <2>2. /\ OnlyFile(g) /\ SameMasters /\ FileOK(g)' /\ SeenSame(g)
    BY <1>14, <2>1, RestoreFiles
  <2> QED
    BY <2>1, <2>2, TouchesFile
<1>15. CASE SyncRestored(c)
  <2>1. PICK g \in File : g = con[c].cur /\ g \in Own(c)
    BY <1>h, <1>15 DEF SyncRestored, Rolling
  <2>2. /\ OnlyFile(g) /\ SameMasters /\ FileOK(g)' /\ SeenSame(g)
    BY <1>15, <2>1, SyncFiles DEF SyncRestored, SameMasters
  <2> QED
    BY <2>1, <2>2, TouchesFile
<1>16. CASE EndPlayback(c)
  <2>1. PICK g \in File : g = con[c].cur /\ g \in Own(c)
    BY <1>h, <1>16 DEF EndPlayback, Rolling
  <2>2. /\ OnlyFile(g) /\ SameMasters /\ FileOK(g)' /\ SeenSame(g)
    BY <1>16, <2>1, EndFiles
  <2> QED
    BY <2>1, <2>2, TouchesFile
<1>17. CASE DelMaster(c)
  <2>1. (\A f \in File : FileSame(f)) /\ named' = named /\ jrnl' = jrnl /\ db' = db
    BY <1>17 DEF DelMaster, FileSame
  <2>2. ASSUME NEW f \in File PROVE SeenSame(f)
    <3>1. CASE mj' = mj
      BY <2>1, <3>1, SameIsSeen DEF SameMasters
    <3>2. CASE con[c].left = {} /\ UnlinkMaster(con[c].master)
      <4>1. /\ con[c].master # 0 /\ mj' = mj \ {con[c].master}
            /\ \A g \in named[con[c].master] : ~Names(g, con[c].master)
        BY <1>17, <3>2 DEF Rolled, UnlinkMaster, DelMaster
      <4>2. jrnl[f] # NoJournal => jrnl[f].master # con[c].master
        BY <4>1 DEF FileOK, OnDisk, Names
      <4> QED
        BY <2>1, <4>1, <4>2 DEF SeenSame, Recovered
    <3> QED
      BY <1>17, <3>1, <3>2, DelMasterMoves
  <2> QED
    BY <1>17, <2>1, <2>2, DelMasterFiles DEF Touch
<1> QED
  BY <1>1, <1>2, <1>3, <1>4, <1>5, <1>6, <1>7, <1>8, <1>9, <1>10, <1>11, <1>12, <1>13, <1>14,
     <1>15, <1>16, <1>17 DEF Step

-----------------------------------------------------------------------------
(* What a step has to do for nobody to read a file that is to be rolled    *)
(* back.                                                                   *)
LEMMA NothingHotFrom ==
  ASSUME Types, LocksOK, NothingHot, NEW c \in Conn, NEW g \in File, OnlyFile(g),
         \A d \in Conn : \A f \in File \ {g} :
           lock'[d][f] \in {"shared", "reserved"} => lock[d][f] \in {"shared", "reserved"},
         ~Firm(g)' \/ \A d \in Conn : lock'[d][g] \notin {"shared", "reserved"}
  PROVE  NothingHot'
  BY DEF NothingHot, OnlyFile, FileSame, Firm

(* Nobody does.                                                            *)
LEMMA NothingHotStep ==
  ASSUME Types, LocksOK, NothingHot, Numbered, MastersOK, \A f \in File : FileOK(f),
         NEW c \in Conn, InPlace(c), Staged(c), Mastered(c), Rolled(c), Step(c)
  PROVE  NothingHot'
<1>h. /\ con[c].at \in Filing \cup Ending \cup {"lock", "master"} =>
              /\ This(c) \in con[c].todo /\ This(c) \in File /\ This(c) \in con[c].files
              /\ con[c].at # "lock" => This(c) \in Own(c)
      /\ con[c].at \in Rolling => con[c].cur \in File
      /\ con[c].at \in Rolling \ {"delmaster"} => con[c].cur \in Own(c)
  BY Handled DEF Own, Rolling, Filing, Ending
<1>s. CASE UNCHANGED <<jrnl, lock>>
  BY <1>s DEF NothingHot, Firm
<1>1. ASSUME NEW f \in File, Read(c, f) PROVE NothingHot'
  <2>1. jrnl' = jrnl
    BY <1>1 DEF Read, disk
  <2>2. CASE lock' = [lock EXCEPT ![c][f] = "exclusive"]
    BY <2>1, <2>2 DEF NothingHot, Firm, Types
  <2>3. CASE lock' = [lock EXCEPT ![c][f] = "shared"] /\ ~(jrnl[f] # NoJournal /\ ~Held(f, {"reserved"}, c))
    <3>1. ~Firm(f)
      BY <2>3 DEF Held, NothingHot, Firm
    <3> QED
      BY <2>1, <2>3, <3>1 DEF NothingHot, Firm, Types
  <2> QED
    BY <1>1, <2>2, <2>3 DEF Read
<1>2. ASSUME NEW f \in File, EndRead(c, f) PROVE NothingHot'
  <2>1. jrnl' = jrnl /\ lock' = [lock EXCEPT ![c][f] = "none"]
    BY <1>2 DEF EndRead, disk
  <2> QED
    BY <2>1 DEF NothingHot, Firm, Types
<1>3. ASSUME NEW g \in File, Write(c, g) PROVE NothingHot'
  <2>1. OnlyFile(g) /\ ~Firm(g)' /\ lock' = [lock EXCEPT ![c][g] = "reserved"]
    BY <1>3, WriteFiles DEF Write, Firm
  <2> QED
    BY <2>1, NothingHotFrom DEF Types
<1>4. CASE ExclusiveLock(c)
  <2>1. jrnl' = jrnl /\ (lock' = lock \/ lock' = [lock EXCEPT ![c][This(c)] = "exclusive"])
    BY <1>4 DEF ExclusiveLock, disk
  <2> QED
    BY <2>1 DEF NothingHot, Firm, Types
<1>5. CASE Crash(c)
  <2>1. jrnl' = jrnl /\ lock' = [lock EXCEPT ![c] = [f \in File |-> "none"]]
    BY <1>5 DEF Crash, disk
  <2> QED
    BY <2>1 DEF NothingHot, Firm, Types
<1>6. CASE WriteMaster(c)
  <2>1. PICK g \in File : g = This(c) /\ g \in Own(c)
    BY <1>h, <1>6 DEF WriteMaster, Filing
  <2>2. OnlyFile(g) /\ ~Firm(g)' /\ lock' = lock
    BY <1>6, <2>1, WriteMasterFiles DEF WriteMaster
  <2> QED
    BY <2>2, NothingHotFrom
<1>7. CASE SyncJournal(c)
  <2>1. PICK g \in File : g = This(c) /\ g \in Own(c) /\ con[c].at = "syncjournal"
    BY <1>h, <1>7 DEF SyncJournal, Filing
  <2>2. OnlyFile(g) /\ lock' = lock
    BY <1>7, <2>1, SyncJournalFiles DEF SyncJournal
  <2>3. lock[c][g] = "exclusive" /\ \A d \in Conn \ {c} : lock[d][g] = "none"
    BY <2>1 DEF LocksOK, Filing
  <2> QED
    BY <2>2, <2>3, NothingHotFrom
<1>8. CASE PhaseTwo(c)
  <2>1. PICK g \in File : g = This(c) /\ g \in Own(c) /\ con[c].at = "phase2"
    BY <1>h, <1>8 DEF PhaseTwo, Ending
  <2>2. OnlyFile(g) /\ (lock'[c][g] = "shared" => jrnl'[g] = NoJournal)
    BY <1>8, <2>1, PhaseTwoFiles
  <2>3. \A d \in Conn \ {c} : lock[d][g] = "none"
    BY <2>1 DEF LocksOK, Ending
  <2>4. PICK l \in {"shared", "none"} : lock' = [lock EXCEPT ![c][g] = l]
    BY <1>8, <2>1 DEF PhaseTwo
  <2>5. \A d \in Conn, f \in File : lock'[d][f] = IF d = c /\ f = g THEN l ELSE lock[d][f]
    BY <2>4 DEF Types
  <2> QED
    BY <2>2, <2>3, <2>5, NothingHotFrom DEF Firm
<1>9. CASE EndPlayback(c)
  <2>1. PICK g \in File : g = con[c].cur
    BY <1>h, <1>9 DEF EndPlayback, Rolling
  <2>2. OnlyFile(g) /\ jrnl'[g] = NoJournal /\ lock' = [lock EXCEPT ![c][g] = "shared"]
    BY <1>9, <2>1, EndFiles DEF EndPlayback
  <2>3. \A d \in Conn, f \in File : lock'[d][f] = IF d = c /\ f = g THEN "shared" ELSE lock[d][f]
    BY <2>2 DEF Types
  <2> QED
    BY <2>2, <2>3, NothingHotFrom DEF Firm
<1> QED
  BY <1>s, <1>1, <1>2, <1>3, <1>4, <1>5, <1>6, <1>7, <1>8, <1>9
     DEF Step, Commit, Rollback, CheckMaster, Master, WriteDb, IoError, SyncDb, DeleteMaster,
         SyncDirectory, SyncHotJournal, Restore, SyncRestored, DelMaster, disk

-----------------------------------------------------------------------------
(* A transaction is nowhere in a file.                                     *)
Free(f, t) ==
  /\ t \notin db[f] /\ \A s \in dbOld[f] : t \notin s
  /\ \A j \in OnDisk(f) : t \notin j.orig /\ j.master # t

(* A transaction that is nowhere in a file stays nowhere when the file     *)
(* stays the same,                                                         *)
LEMMA FreeSame ==
  ASSUME NEW f \in File, NEW t \in Txn, FileSame(f), Free(f, t)
  PROVE  Free(f, t)'
  BY DEF Free, FileSame, OnDisk

(* when other content is written to it,                                    *)
LEMMA FreePut ==
  ASSUME Types, NEW g \in File, NEW t \in Txn, NEW s, t \notin s, Put(g, s), jrnl' = jrnl,
         jrnlOld' = jrnlOld, \A f \in File : Free(f, t)
  PROVE  \A f \in File : Free(f, t)'
<1>1. db' = [db EXCEPT ![g] = s] /\ dbOld' = [dbOld EXCEPT ![g] = @ \cup {db[g], Torn}]
  BY DEF Put
<1>2. t \notin Torn
  BY DEF Torn, Txn
<1>3. \A f \in File : OnDisk(f)' = OnDisk(f)
  BY DEF OnDisk
<1>4. \A f \in File : /\ db'[f] = IF f = g THEN s ELSE db[f]
                      /\ dbOld'[f] = IF f = g THEN dbOld[f] \cup {db[f], Torn} ELSE dbOld[f]
  BY <1>1 DEF Types
<1> HIDE DEF Torn
<1> QED
  BY <1>2, <1>3, <1>4 DEF Free

(* when its journal goes,                                                  *)
LEMMA FreeUnlink ==
  ASSUME Types, NEW g \in File, NEW t \in Txn, Unlink(g), db' = db, dbOld' = dbOld,
         \A f \in File : Free(f, t)
  PROVE  \A f \in File : Free(f, t)'
<1>1. \A f \in File : OnDisk(f)' \subseteq OnDisk(f)
  BY DEF Unlink, OnDisk, Types
<1> QED
  BY <1>1 DEF Free

(* and by any step but those of its own commit.                            *)
LEMMA FreeStep ==
  ASSUME Types, NothingHot, NEW c \in Conn, InPlace(c), Staged(c), Rolled(c), Step(c), NEW t \in Txn,
         t # con[c].tid \/ con[c].at \notin {"master"} \cup Filing \cup Ending,
         \A f \in File : Free(f, t)
  PROVE  \A f \in File : Free(f, t)'
<1>h. /\ con[c].at \in Filing \cup Ending \cup {"lock", "master"} => This(c) \in File
      /\ con[c].at \in Rolling => con[c].cur \in File
      /\ con[c].at \in Filing \cup {"phase2"} => jrnl[This(c)] # NoJournal
      /\ con[c].at \in Rolling \ {"delmaster"} => jrnl[con[c].cur] # NoJournal
  BY Handled, OwnJournal
<1>s. CASE UNCHANGED <<db, dbOld, jrnl, jrnlOld>>
  BY <1>s DEF Free, OnDisk
<1>1. ASSUME NEW g \in File, Write(c, g) PROVE \A f \in File : Free(f, t)'
  <2> DEFINE j == [orig |-> db[g], firm |-> FALSE, master |-> 0]
  <2>1. /\ jrnl' = [jrnl EXCEPT ![g] = j] /\ jrnlOld' = [jrnlOld EXCEPT ![g] = @ \cup {NoJournal}]
        /\ db' = db /\ dbOld' = dbOld
    BY <1>1 DEF Write
  <2>2. t \notin j.orig /\ j.master # t
    BY DEF Free, Txn
  <2> HIDE DEF j
  <2>3. \A f \in File : OnDisk(f)' \subseteq OnDisk(f) \cup {j}
    BY <2>1 DEF OnDisk, Types
  <2> QED
    BY <2>1, <2>2, <2>3 DEF Free
<1>2. CASE WriteMaster(c)
  <2>1. PICK g \in File : g = This(c) /\ jrnl[g] # NoJournal /\ con[c].at = "name"
    BY <1>h, <1>2 DEF WriteMaster, Filing
  <2> DEFINE m == IF Multi(c) THEN con[c].tid ELSE 0
             j == [jrnl[g] EXCEPT !.master = m]
             old == jrnl[g]
  <2>2. /\ jrnl' = [jrnl EXCEPT ![g] = j] /\ jrnlOld' = [jrnlOld EXCEPT ![g] = @ \cup {old}]
        /\ db' = db /\ dbOld' = dbOld
    BY <1>2, <2>1 DEF WriteMaster, Types
  <2>3. t # m
    BY <2>1 DEF Filing, Txn
  <2>4. old \in OnDisk(g) /\ old \in Journal
    BY <2>1 DEF OnDisk, Types
  <2>5. j.orig = old.orig /\ j.master = m
    BY <2>4 DEF Journal
  <2>6. t \notin j.orig /\ j.master # t
    BY <2>3, <2>4, <2>5 DEF Free
  <2> HIDE DEF j, m, old
  <2>7. \A f \in File : OnDisk(f)' \subseteq OnDisk(f) \cup {j, old} /\ (f # g => OnDisk(f)' = OnDisk(f))
    BY <2>2 DEF OnDisk, Types
  <2> QED
    BY <2>2, <2>4, <2>6, <2>7 DEF Free
<1>3. CASE SyncJournal(c)
  <2>1. PICK g \in File : g = This(c) /\ jrnl[g] # NoJournal
    BY <1>h, <1>3 DEF SyncJournal, Filing
  <2> DEFINE j == [jrnl[g] EXCEPT !.firm = TRUE]
  <2>2. /\ jrnl' = [jrnl EXCEPT ![g] = j] /\ jrnlOld' = [jrnlOld EXCEPT ![g] = {}]
        /\ db' = db /\ dbOld' = dbOld
    BY <1>3, <2>1 DEF SyncJournal, Types
  <2>4. jrnl[g] \in OnDisk(g) /\ jrnl[g] \in Journal
    BY <2>1 DEF OnDisk, Types
  <2>5. j.orig = jrnl[g].orig /\ j.master = jrnl[g].master
    BY <2>4 DEF Journal
  <2>6. t \notin j.orig /\ j.master # t
    BY <2>4, <2>5 DEF Free
  <2> HIDE DEF j
  <2>7. \A f \in File : OnDisk(f)' \subseteq OnDisk(f) \cup {j}
    BY <2>2 DEF OnDisk, Types
  <2> QED
    BY <2>2, <2>6, <2>7 DEF Free
<1>4. CASE WriteDb(c)
  <2>1. Put(This(c), db[This(c)] \cup {con[c].tid}) /\ This(c) \in File /\ con[c].at = "write"
        /\ jrnl' = jrnl /\ jrnlOld' = jrnlOld
    BY <1>h, <1>4 DEF WriteDb, Filing
  <2>2. t \notin db[This(c)] \cup {con[c].tid}
    BY <2>1 DEF Free, Filing
  <2> QED
    BY <2>1, <2>2, FreePut
<1>5. CASE IoError(c) /\ con[c].at = "write"
  <2>1. Put(This(c), Torn) /\ This(c) \in File /\ jrnl' = jrnl /\ jrnlOld' = jrnlOld
    BY <1>h, <1>5 DEF IoError, Filing
  <2>2. t \notin Torn
    BY DEF Torn, Txn
  <2> QED
    BY <2>1, <2>2, FreePut
<1>6. CASE SyncDb(c) \/ SyncRestored(c)
  <2>1. /\ db' = db /\ jrnl' = jrnl /\ jrnlOld' = jrnlOld
        /\ \E g \in File : dbOld' = [dbOld EXCEPT ![g] = {}]
    BY <1>h, <1>6 DEF SyncDb, SyncRestored, Filing, Rolling
  <2>2. \A f \in File : dbOld'[f] \subseteq dbOld[f]
    BY <2>1 DEF Types
  <2> QED
    BY <2>1, <2>2 DEF Free, OnDisk
<1>7. CASE SyncHotJournal(c)
  <2>1. /\ db' = db /\ jrnl' = jrnl /\ dbOld' = dbOld
        /\ \E g \in File : jrnlOld' = [jrnlOld EXCEPT ![g] = {}]
    BY <1>h, <1>7 DEF SyncHotJournal, Rolling
  <2>2. \A f \in File : OnDisk(f)' \subseteq OnDisk(f)
    BY <2>1 DEF Types, OnDisk
  <2> QED
    BY <2>1, <2>2 DEF Free
<1>8. CASE PhaseTwo(c) /\ Unlink(This(c))
  BY <1>h, <1>8, FreeUnlink DEF PhaseTwo, Ending
<1>9. CASE EndPlayback(c)
  BY <1>h, <1>9, FreeUnlink DEF EndPlayback, Rolling
<1>10. CASE Restore(c)
  <2>1. PICK g \in File : g = con[c].cur /\ jrnl[g] # NoJournal /\ jrnl' = jrnl /\ jrnlOld' = jrnlOld
    BY <1>h, <1>10 DEF Restore, Rolling
  <2>2. t \notin jrnl[g].orig
    BY <2>1 DEF Free, OnDisk
  <2>3. CASE Put(g, jrnl[g].orig)
    BY <2>1, <2>2, <2>3, FreePut
  <2> QED
    BY <1>s, <1>10, <2>1, <2>3 DEF Restore
<1> QED
  BY <1>s, <1>1, <1>2, <1>3, <1>4, <1>5, <1>6, <1>7, <1>8, <1>9, <1>10
     DEF Step, Read, EndRead, Commit, ExclusiveLock, Rollback, CheckMaster, Crash, Master, IoError,
         DeleteMaster, SyncDirectory, DelMaster, PhaseTwo, disk

(* A transaction that has written nothing.                                 *)
LEMMA UnusedIs ==
  ASSUME NEW t \in Txn
  PROVE  /\ Unused(t) <=>
              /\ named[t] = {} /\ t \notin mj \cup returned
              /\ \A o \in mjOld : o.tid # t
              /\ \A f \in File : Free(f, t)
              /\ \A c \in Conn : con[c].master # t
  BY DEF Unused, Free

(* The master of a rollback is the one its journal names.                  *)
LEMMA MasterField ==
  ASSUME Types, NEW c \in Conn, InPlace(c), Rolled(c), Step(c)
  PROVE  \/ con'[c].master \in {con[c].master, 0}
         \/ con[c].cur \in File /\ jrnl[con[c].cur] # NoJournal
            /\ con'[c].master = jrnl[con[c].cur].master
<1> DEFINE P == con'[c].master \in {con[c].master, 0}
<1>1. ASSUME NEW f \in File, Read(c, f) \/ EndRead(c, f) \/ Write(c, f) PROVE P
  BY <1>1, ReadMoves, WriteMoves DEF Finds, Begins, EndRead
<1>2. CASE Commit(c)
  BY <1>2, CommitMoves DEF Goes
<1>3. CASE ExclusiveLock(c)
  BY <1>3, LockMoves DEF Goes
<1>4. CASE SyncDb(c)
  BY <1>4, SyncDbMoves DEF Goes
<1>5. CASE PhaseTwo(c)
  BY <1>5, PhaseTwoMoves DEF Goes, Rests
<1>6. CASE \/ Master(c) \/ WriteMaster(c) \/ SyncJournal(c) \/ WriteDb(c) \/ DeleteMaster(c)
           \/ SyncDirectory(c) \/ SyncHotJournal(c) \/ Restore(c) \/ SyncRestored(c)
  BY <1>6, FilingMoves DEF Goes
<1>7. CASE CheckMaster(c)
  BY <1>7, CheckMoves DEF CheckMaster, Looks, InPlace, Rolled, Rolling
<1>8. CASE EndPlayback(c) \/ DelMaster(c)
  <2>1. CASE con' = [con EXCEPT ![c] = RolledBack(con[c])]
    BY <2>1, RollsBack DEF Rests, Checks
  <2>2. CASE \E left : Follows(c, left)
    BY <2>2 DEF Follows
  <2> QED
    BY <1>8, <2>1, <2>2, EndMoves, DelMasterMoves
<1>9. CASE Rollback(c) \/ IoError(c)
  BY <1>9, FailMoves DEF Checks
<1>10. CASE Crash(c)
  BY <1>10, CrashMoves DEF Rests
<1> QED
  BY <1>1, <1>2, <1>3, <1>4, <1>5, <1>6, <1>7, <1>8, <1>9, <1>10 DEF Step

(* A transaction that has written nothing writes by its own commit only.   *)
LEMMA UnusedStep ==
  ASSUME Types, NothingHot, NEW c \in Conn, InPlace(c), Staged(c), Rolled(c), Step(c), NEW t \in Txn,
         t # con[c].tid \/ con[c].at \notin {"master"} \cup Filing \cup Ending,
         Unused(t)
  PROVE  Unused(t)'
<1>0. /\ named[t] = {} /\ t \notin mj \cup returned
      /\ \A o \in mjOld : o.tid # t
      /\ \A f \in File : Free(f, t)
      /\ \A d \in Conn : con[d].master # t
  BY UnusedIs
<1>1. \A f \in File : Free(f, t)'
  BY <1>0, FreeStep
<1>2. \A d \in Conn : con'[d].master # t
  <2>1. \A f \in File : jrnl[f] # NoJournal => jrnl[f].master # t
    BY <1>0 DEF Free, OnDisk
  <2>2. t # 0
    BY DEF Txn
  <2>3. con'[c].master # t
    BY <1>0, <2>1, <2>2, MasterField
  <2> QED
    BY <1>0, <2>3, MovesTyped DEF Moves
<1>3. named'[t] = {} /\ t \notin mj'
  <2>1. CASE Master(c)
    BY <1>0, <2>1 DEF Master, Types
  <2>2. CASE DeleteMaster(c) \/ DelMaster(c)
    BY <1>0, <2>2 DEF DeleteMaster, DelMaster, UnlinkMaster
  <2> QED
    BY <1>0, <2>1, <2>2
     DEF Step, Read, EndRead, Write, Commit, ExclusiveLock, Rollback, CheckMaster, Crash, IoError,
         SyncDirectory, PhaseTwo, WriteMaster, SyncJournal, WriteDb, SyncDb, SyncHotJournal,
         Restore, SyncRestored, EndPlayback, disk
<1>4. t \notin returned'
  <2>1. CASE PhaseTwo(c)
    BY <1>0, <2>1 DEF PhaseTwo, Ending
  <2> QED
    BY <1>0, <2>1
     DEF Step, Read, EndRead, Write, Commit, ExclusiveLock, Rollback, CheckMaster, Crash, IoError,
         SyncDirectory, Master, DeleteMaster, DelMaster, WriteMaster, SyncJournal, WriteDb, SyncDb,
         SyncHotJournal, Restore, SyncRestored, EndPlayback
<1>5. \A o \in mjOld' : o.tid # t
  <2>1. CASE DeleteMaster(c)
    BY <1>0, <2>1 DEF DeleteMaster, UnlinkMaster, Ending
  <2>2. CASE DelMaster(c)
    <3>1. mjOld' = mjOld \/ UnlinkMaster(con[c].master)
      BY <2>2, DelMasterMoves
    <3>2. con[c].master # t
      BY <1>0
    <3> QED
      BY <1>0, <3>1, <3>2 DEF UnlinkMaster
  <2> QED
    BY <1>0, <2>1, <2>2
     DEF Step, Read, EndRead, Write, Commit, ExclusiveLock, Rollback, CheckMaster, Crash, IoError,
         SyncDirectory, Master, PhaseTwo, WriteMaster, SyncJournal, WriteDb, SyncDb,
         SyncHotJournal, Restore, SyncRestored, EndPlayback, disk
<1> QED
  BY <1>1, <1>2, <1>3, <1>4, <1>5 DEF Unused, Free

(* The number of a transaction stays with the connection, goes, or is new. *)
Keeps(c) ==
  /\ ntxn' = ntxn /\ con'[c].tid = con[c].tid
  /\ con'[c].at \in Growing \cup Rolling =>
       con[c].at \in (Growing \ {"master"}) \cup Rolling

Drops(c) == ntxn' = ntxn /\ con'[c].tid = 0

Draws(c) ==
  /\ con[c].at = "idle" /\ con[c].tid = 0
  /\ ntxn' = ntxn + 1 /\ con'[c].tid = ntxn + 1 /\ ntxn + 1 \in Txn

(* Numbers are kept, dropped or new.                                       *)
LEMMA NumberMoves ==
  ASSUME Types, NEW c \in Conn, InPlace(c), Staged(c), Rolled(c), Step(c)
  PROVE  Keeps(c) \/ Drops(c) \/ Draws(c)
<1> USE DEF Growing, Rolling, Filing, Ending
<1>1. ASSUME NEW f \in File, Read(c, f) \/ EndRead(c, f) PROVE Keeps(c)
  <2>1. ntxn' = ntxn /\ con[c].at = "idle"
    BY <1>1 DEF Read, EndRead
  <2>2. con'[c].tid = con[c].tid
    BY <1>1, ReadMoves DEF Finds, EndRead
  <2> QED
    BY <2>1, <2>2 DEF Keeps
<1>w. ASSUME NEW f \in File, Write(c, f) PROVE Keeps(c) \/ Draws(c)
  <2>0. ntxn \in Nat /\ MaxTxn \in Nat /\ con[c].at = "idle"
    BY <1>w, MultiAssumption DEF Types, Write
  <2>1. con'[c].tid = IF con[c].tid = 0 THEN ntxn + 1 ELSE con[c].tid
    BY <1>w, WriteMoves DEF Begins
  <2>2. CASE con[c].tid = 0
    <3>1. ntxn < MaxTxn /\ ntxn' = ntxn + 1
      BY <1>w, <2>2 DEF Write
    <3>2. ntxn + 1 \in Txn
      BY <2>0, <3>1 DEF Txn
    <3> QED
      BY <2>0, <2>1, <2>2, <3>1, <3>2 DEF Draws
  <2>3. CASE con[c].tid # 0
    BY <1>w, <2>0, <2>1, <2>3 DEF Keeps, Write
  <2> QED
    BY <2>2, <2>3
<1>2. CASE Commit(c)
  BY <1>2, CommitMoves DEF Goes, Commit, Keeps
<1>3. CASE ExclusiveLock(c)
  <2>1. con'[c].tid = con[c].tid
    BY <1>3, LockMoves DEF Goes
  <2> QED
    BY <1>3, <2>1 DEF ExclusiveLock, Keeps
<1>4. CASE SyncDb(c)
  <2>1. con'[c].tid = con[c].tid /\ con'[c].at \in {"unlink", "phase2", "name"}
    BY <1>4, SyncDbMoves DEF Goes
  <2> QED
    BY <1>4, <2>1 DEF SyncDb, Keeps
<1>5. CASE PhaseTwo(c)
  <2>1. ntxn' = ntxn
    BY <1>5 DEF PhaseTwo
  <2> QED
    BY <1>5, <2>1, PhaseTwoMoves DEF Goes, Rests, Keeps, Drops
<1>6. CASE \/ Master(c) \/ WriteMaster(c) \/ SyncJournal(c) \/ WriteDb(c) \/ DeleteMaster(c)
           \/ SyncDirectory(c)
  <2>1. con'[c].tid = con[c].tid /\ con'[c].at \in Filing \cup Ending
    BY <1>6, FilingMoves DEF Goes
  <2>2. ntxn' = ntxn
    BY <1>6 DEF Master, WriteMaster, SyncJournal, WriteDb, DeleteMaster, SyncDirectory
  <2> QED
    BY <2>1, <2>2 DEF Keeps
<1>7. CASE SyncHotJournal(c) \/ Restore(c) \/ SyncRestored(c)
  <2>1. con'[c].tid = con[c].tid
    BY <1>7, FilingMoves DEF Goes
  <2>2. ntxn' = ntxn /\ con[c].at \in Rolling
    BY <1>7 DEF SyncHotJournal, Restore, SyncRestored
  <2> QED
    BY <2>1, <2>2 DEF Keeps
<1>8. CASE CheckMaster(c)
  <2>1. con[c].at = "check" /\ ntxn' = ntxn
    BY <1>8 DEF CheckMaster
  <2>2. Looks(c)
    BY <1>8, <2>1, CheckMoves DEF InPlace, Rolled
  <2> QED
    BY <2>1, <2>2 DEF Keeps, Looks
<1>9. CASE EndPlayback(c) \/ DelMaster(c)
  <2>1. con[c].at \in Rolling /\ ntxn' = ntxn
    BY <1>9 DEF EndPlayback, DelMaster
  <2>2. CASE con' = [con EXCEPT ![c] = RolledBack(con[c])]
    BY <2>1, <2>2, RollsBack DEF Rests, Checks, Keeps
  <2>3. CASE \E left : Follows(c, left)
    BY <2>1, <2>3 DEF Follows, Keeps
  <2> QED
    BY <1>9, <2>2, <2>3, EndMoves, DelMasterMoves
<1>10. CASE Rollback(c) \/ IoError(c)
  <2>1. ntxn' = ntxn
    BY <1>10 DEF Rollback, IoError
  <2> QED
    BY <1>10, <2>1, FailMoves DEF Checks, Drops
<1>11. CASE Crash(c)
  BY <1>11, CrashMoves DEF Rests, Crash, Drops
<1> QED
  BY <1>1, <1>w, <1>2, <1>3, <1>4, <1>5, <1>6, <1>7, <1>8, <1>9, <1>10, <1>11 DEF Step

(* Numbers are unique, and new ones are on no disk.                        *)
LEMMA NumberedStep ==
  ASSUME Types, Types', NothingHot, Numbered, \A d \in Conn : InPlace(d),
         NEW c \in Conn, Staged(c), Rolled(c), Step(c)
  PROVE  Numbered'
<1>0. ntxn \in Nat /\ ntxn' \in Nat /\ \A d \in Conn : con[d].tid \in Nat /\ con[d].tid <= ntxn
  BY MultiAssumption DEF Types, State, InPlace
<1>m. \A d \in Conn \ {c} : con'[d] = con[d]
  BY MovesTyped DEF Moves
<1>k. Keeps(c) \/ Drops(c) \/ Draws(c)
  BY NumberMoves
<1>1. \A t \in Txn : Unused(t) /\
        (t # con[c].tid \/ con[c].at \notin {"master"} \cup Filing \cup Ending) => Unused(t)'
  BY UnusedStep
<1>2. ASSUME NEW d \in Conn, NEW e \in Conn, con'[d].tid = con'[e].tid, con'[d].tid # 0
      PROVE  d = e
  <2>1. CASE Keeps(c) \/ Drops(c)
    BY <1>2, <1>m, <2>1 DEF Keeps, Drops, Numbered
  <2>2. CASE Draws(c)
    <3>1. \A x \in Conn : con[x].tid # con'[c].tid
      BY <1>0, <2>2 DEF Draws
    <3> QED
      BY <1>2, <1>m, <3>1 DEF Numbered
  <2> QED
    BY <1>k, <2>1, <2>2
<1>3. ASSUME NEW t \in Txn, t > ntxn' PROVE Unused(t)'
  <2>1. t > ntxn /\ t # con[c].tid
    BY <1>0, <1>3, <1>k DEF Txn, Keeps, Drops, Draws
  <2>2. Unused(t)
    BY <2>1 DEF Numbered
  <2> QED
    BY <1>1, <2>1, <2>2
<1>4. ASSUME NEW t \in Txn, NEW d \in Conn, con'[d].at \in Growing \cup Rolling, con'[d].tid = t
      PROVE  Unused(t)'
  <2>0. t # 0
    BY DEF Txn
  <2>1. CASE d # c
    <3>1. con[d].tid = t /\ Unused(t)
      BY <1>m, <1>4, <2>1 DEF Numbered
    <3>2. t # con[c].tid
      BY <2>0, <2>1, <3>1 DEF Numbered
    <3> QED
      BY <1>1, <3>1, <3>2
  <2>2. CASE d = c /\ Keeps(c)
    <3>1. con[c].tid = t /\ con[c].at \in (Growing \ {"master"}) \cup Rolling
      BY <1>4, <2>2 DEF Keeps
    <3>2. con[c].at \notin {"master"} \cup Filing \cup Ending
      BY <3>1 DEF Growing, Rolling, Filing, Ending
    <3>3. Unused(t)
      BY <3>1 DEF Numbered
    <3> QED
      BY <1>1, <3>2, <3>3
  <2>3. CASE d = c /\ Draws(c)
    <3>1. t > ntxn /\ t # con[c].tid
      BY <1>0, <1>4, <2>0, <2>3 DEF Draws
    <3>2. Unused(t)
      BY <3>1 DEF Numbered
    <3> QED
      BY <1>1, <3>1, <3>2
  <2> QED
    BY <1>k, <1>4, <2>0, <2>1, <2>2, <2>3 DEF Drops
<1> QED
  BY <1>2, <1>3, <1>4 DEF Numbered

-----------------------------------------------------------------------------
(* What a step of c may do to the master journals, with their lists.       *)
MastersMove(c) ==
  \/ mj' = mj /\ named' = named
  \/ /\ con[c].at = "master" /\ mj' = mj \cup {con[c].tid}
     /\ named' = [named EXCEPT ![con[c].tid] = con[c].files]
  \/ con[c].at = "unlink" /\ mj' = mj \ {con[c].tid} /\ named' = named
  \/ /\ con[c].at = "delmaster" /\ mj' = mj \ {con[c].master} /\ named' = named
     /\ con[c].left = {}

MastersReturn(c) ==
  \A o \in mjOld' :
    \/ o \in mjOld
    \/ con[c].at = "unlink" /\ o.tid = con[c].tid
    \/ con[c].at = "delmaster" /\ o.tid = con[c].master

(* The master journals that a step makes or deletes.                       *)
LEMMA MastersMoves ==
  ASSUME Types, NEW c \in Conn, Step(c)
  PROVE  MastersMove(c) /\ MastersReturn(c)
<1>1. CASE Master(c)
  BY <1>1 DEF Master, MastersMove, MastersReturn
<1>2. CASE DeleteMaster(c)
  BY <1>2 DEF DeleteMaster, MastersMove, MastersReturn, UnlinkMaster
<1>3. CASE DelMaster(c)
  <2>1. con[c].at = "delmaster" /\ named' = named
    BY <1>3 DEF DelMaster
  <2>2. \/ mj' = mj /\ mjOld' = mjOld
        \/ con[c].left = {} /\ UnlinkMaster(con[c].master)
    BY <1>3, DelMasterMoves
  <2> QED
    BY <2>1, <2>2 DEF MastersMove, MastersReturn, UnlinkMaster
<1> QED
  BY <1>1, <1>2, <1>3
     DEF Step, Read, EndRead, Write, Commit, ExclusiveLock, Rollback, CheckMaster, Crash, IoError,
         SyncDirectory, PhaseTwo, WriteMaster, SyncJournal, WriteDb, SyncDb, SyncHotJournal,
         Restore, SyncRestored, EndPlayback, disk, MastersMove, MastersReturn

-----------------------------------------------------------------------------
(* Nobody changes the files of another.                                    *)
LEMMA OthersSame ==
  ASSUME LocksOK, NEW c \in Conn, Touch(c), NEW d \in Conn \ {c}
  PROVE  \A f \in File : f \in Own(d) => FileSame(f)
  BY DEF Touch, OnlyFile

(* So the clauses of the others hold again: the order of their steps,      *)
LEMMA OthersPlaced ==
  ASSUME Types, NEW c \in Conn, InPlace(c), Staged(c), Rolled(c), Step(c),
         NEW d \in Conn \ {c}, InPlace(d)
  PROVE  InPlace(d)'
<1>1. con'[d] = con[d]
  BY MovesTyped DEF Moves
<1>2. ntxn' >= ntxn /\ ntxn \in Nat /\ ntxn' \in Nat
  BY NumberMoves, MultiAssumption DEF Types, Keeps, Drops, Draws
<1>3. con[d].tid \in Nat
  BY MultiAssumption DEF Types, State
<1> QED
  BY <1>1, <1>2, <1>3 DEF InPlace, Multi

(* the files on their way through a commit,                                *)
LEMMA OthersStaged ==
  ASSUME Types, LocksOK, NEW c \in Conn, Touch(c), Moves(c), NEW d \in Conn \ {c}, InPlace(d), Staged(d)
  PROVE  Staged(d)'
<1>1. con'[d] = con[d]
  BY DEF Moves
<1>2. /\ con[d].at \notin Ending => \A f \in con[d].files : FileSame(f)
      /\ con[d].at \in Filing => con[d].todo \subseteq con[d].files /\ This(d) \in con[d].files
      /\ con[d].at \in Ending => \A f \in con[d].todo : FileSame(f)
  <2>1. con[d].files \subseteq File /\ con[d].todo \subseteq File
    BY DEF Types, State
  <2>2. con[d].at \in Filing => con[d].todo \subseteq con[d].files /\ This(d) \in con[d].files
    BY Handled DEF InPlace
  <2>3. con[d].at \in Ending => con[d].todo \subseteq con[d].files
    BY DEF InPlace
  <2>4. \A f \in con[d].files : con[d].at # "phase2" => f \in Own(d)
    BY <2>1 DEF Own
  <2>5. \A f \in con[d].todo : con[d].at = "phase2" => f \in Own(d)
    BY <2>1 DEF Own
  <2> QED
    BY <2>1, <2>2, <2>3, <2>4, <2>5, OthersSame DEF Ending
<1>3. This(d)' = This(d) /\ MasterOf(d)' = MasterOf(d)
  BY <1>1 DEF This, MasterOf, Multi
<1>4. ASSUME NEW f \in File, FileSame(f)
      PROVE  /\ \A b \in BOOLEAN, m \in 0 .. MaxTxn : Journalled(f, b, m) => Journalled(f, b, m)'
             /\ Written(d, f) => Written(d, f)'
             /\ Done(d, f) => Done(d, f)'
  BY <1>1, <1>3, <1>4 DEF FileSame, Journalled, Written, Done, Firm
<1>5. con[d].files \subseteq File /\ con[d].todo \subseteq File /\ MasterOf(d) \in 0 .. MaxTxn
      /\ 0 \in 0 .. MaxTxn
  BY IdleState DEF Types, State, MasterOf
<1>6. con[d].at \in Growing \cup Rolling => \A f \in con[d].files : Journalled(f, FALSE, 0)'
  BY <1>2, <1>4, <1>5 DEF Staged, Growing, Rolling, Ending
<1>7. con[d].at \in Filing =>
        /\ \A f \in con[d].files \ con[d].todo : Done(d, f)'
        /\ \A f \in con[d].todo : con[d].at = "name" \/ f # This(d) => Journalled(f, FALSE, 0)'
  BY <1>2, <1>4, <1>5 DEF Staged, Filing, Ending
<1>8. CASE con[d].at \in {"syncjournal", "write", "syncdb"}
  <2>1. FileSame(This(d)) /\ This(d) \in File
    BY <1>2, <1>5, <1>8 DEF Filing, Ending
  <2>2. /\ con[d].at = "syncjournal" => Journalled(This(d), FALSE, MasterOf(d))'
        /\ con[d].at = "write" => Journalled(This(d), TRUE, MasterOf(d))'
        /\ con[d].at = "syncdb" => Written(d, This(d))'
    BY <1>1, <1>3, <1>8, <2>1 DEF Staged, FileSame, Journalled, Written, Firm
  <2> QED
    BY <1>1, <1>3, <1>6, <1>7, <1>8, <2>2 DEF Staged, Growing, Rolling, Ending
<1>9. con[d].at \in Ending => \A f \in con[d].todo : Done(d, f)'
  BY <1>2, <1>4, <1>5 DEF Staged
<1> QED
  BY <1>1, <1>3, <1>6, <1>7, <1>8, <1>9 DEF Staged

-----------------------------------------------------------------------------
(* Deleting the master journal commits its transaction and no other.       *)
LEMMA DeleteMasterSeen ==
  ASSUME Types, NEW c \in Conn, InPlace(c), Staged(c), Mastered(c), DeleteMaster(c),
         \A f \in File : FileOK(f), NEW t, t = con[c].tid
  PROVE  /\ t \in mj /\ t \notin mj' /\ named' = named /\ db' = db
         /\ named[t] = con[c].files /\ con[c].files # {}
         /\ \A f \in named[t] : /\ jrnl[f] # NoJournal /\ jrnl[f].master = t /\ jrnl[f].firm
                                /\ jrnlOld[f] = {} /\ t \in Recovered(f)'
         /\ \A f \in File, u \in Txn \ {t} :
              f \in named[u] => (u \in Recovered(f)' <=> u \in Recovered(f))
<1>1. con[c].at = "unlink" /\ mj' = mj \ {t} /\ UNCHANGED <<db, dbOld, jrnl, jrnlOld, named>>
  BY DEF DeleteMaster, UnlinkMaster
<1>2. /\ t \in Txn /\ t \in mj /\ Multi(c) /\ named[t] = con[c].files
      /\ con[c].todo = con[c].files /\ con[c].files # {}
  BY <1>1, Handled DEF InPlace, Mastered, Ending
<1>3. MasterOf(c) = t /\ t # 0
  BY <1>2 DEF MasterOf, Txn
<1>4. ASSUME NEW f \in named[t]
      PROVE  /\ jrnl[f] # NoJournal /\ jrnl[f].master = t /\ jrnl[f].firm
             /\ db[f] = jrnl[f].orig \cup {t} /\ jrnlOld[f] = {} /\ ~Live(f)' /\ Live(f)
  <2>1. f \in File /\ f \in con[c].todo
    BY <1>2 DEF Types
  <2>2. Firm(f) /\ jrnl[f].master = t /\ db[f] = jrnl[f].orig \cup {t}
    BY <1>1, <1>2, <1>3, <2>1 DEF Staged, Ending, Done, Written
  <2>3. jrnlOld[f] = {}
    BY <2>1, <2>2 DEF FileOK
  <2> QED
    BY <1>1, <1>2, <1>3, <2>2, <2>3 DEF Firm, Live
<1>5. \A f \in named[t] : f \in File
  BY <1>2 DEF Types
<1>6. \A f \in named[t] : t \in Recovered(f)'
  BY <1>1, <1>4, <1>5, RecoveredIs
<1>7. ASSUME NEW f \in File, NEW u \in Txn \ {t}, f \in named[u]
      PROVE  u \in Recovered(f)' <=> u \in Recovered(f)
  <2>1. CASE f \in named[t]
    BY <1>1, <1>4, <1>7, <2>1, RecoveredIs
  <2>2. CASE f \notin named[t]
    <3>1. jrnl[f] # NoJournal => jrnl[f].master # t
      BY <1>3, <2>2 DEF FileOK, OnDisk
    <3> QED
      BY <1>1, <3>1 DEF Recovered
  <2> QED
    BY <2>1, <2>2
<1> QED
  BY <1>1, <1>2, <1>4, <1>6, <1>7

(* The step that commits a transaction.                                    *)
Commits(c, t) == con[c].at = "unlink" /\ t = con[c].tid /\ t \notin mj'

SeenBy(c) ==
  \A f \in File, t \in Txn :
    f \in named'[t] =>
      IF Commits(c, t) THEN t \in Recovered(f)' ELSE t \in Recovered(f)' <=> t \in Recovered(f)

(* So a step changes what recovery makes of one transaction at most.       *)
LEMMA SeenStep ==
  ASSUME Types, NEW c \in Conn, InPlace(c), Staged(c), Mastered(c), Step(c),
         \A f \in File : FileOK(f), ~DeleteMaster(c) => \A f \in File : SeenSame(f)
  PROVE  SeenBy(c)
<1>1. CASE DeleteMaster(c)
  <2>1. PICK t : t = con[c].tid
    OBVIOUS
  <2>2. con[c].at = "unlink"
    BY <1>1 DEF DeleteMaster
  <2>3. /\ named' = named /\ t \notin mj' /\ \A f \in named[t] : t \in Recovered(f)'
        /\ \A f \in File, u \in Txn \ {t} :
             f \in named[u] => (u \in Recovered(f)' <=> u \in Recovered(f))
    BY <1>1, <2>1, DeleteMasterSeen
  <2> QED
    BY <2>1, <2>2, <2>3 DEF SeenBy, Commits
<1>2. CASE ~DeleteMaster(c)
  <2>1. \A f \in File, t \in Txn : f \in named'[t] => (t \in Recovered(f)' <=> t \in Recovered(f))
    BY <1>2 DEF SeenSame
  <2>2. ASSUME con[c].at = "unlink" PROVE con[c].tid \in mj /\ mj' = mj
    <3>1. con[c].tid \in mj
      BY <2>2 DEF Mastered, InPlace
    <3>2. mj' = mj
      BY <1>2, <2>2 DEF Step, Read, EndRead, Write, Commit, ExclusiveLock, Rollback, CheckMaster,
         Crash, IoError, Master, DelMaster, SyncDirectory, PhaseTwo, WriteMaster, SyncJournal,
         WriteDb, SyncDb, SyncHotJournal, Restore, SyncRestored, EndPlayback, disk
    <3> QED
      BY <3>1, <3>2
  <2> QED
    BY <2>1, <2>2 DEF SeenBy, Commits
<1> QED
  BY <1>1, <1>2

-----------------------------------------------------------------------------
(* their master journals,                                                  *)
LEMMA OthersMastered ==
  ASSUME Types, Numbered, NEW c \in Conn, Rolled(c), InPlace(c), SeenBy(c), Moves(c), MastersMove(c),
         MastersReturn(c), NEW d \in Conn \ {c}, InPlace(d), Mastered(d)
  PROVE  Mastered(d)'
<1>1. con'[d] = con[d]
  BY DEF Moves
<1>2. SUFFICES ASSUME con[d].at \in Filing \cup Ending PROVE Mastered(d)'
  BY <1>1 DEF Mastered, Filing, Ending
<1>3. PICK t \in Txn : t = con[d].tid
  BY <1>2, Handled
<1>4. t # con[c].tid
  BY <1>3 DEF Numbered, Txn
<1>5. con[c].at = "delmaster" => con[c].master # t
  BY <1>3 DEF Rolled, Rolling
<1>6. named'[t] = named[t] /\ (t \in mj' <=> t \in mj)
  BY <1>4, <1>5 DEF MastersMove, Types
<1>7. (\A o \in mjOld : o.tid # t) => (\A o \in mjOld' : o.tid # t)
  BY <1>4, <1>5 DEF MastersReturn
<1>8. \A f \in named[t] : t \in Recovered(f) => t \in Recovered(f)'
  BY <1>4, <1>6 DEF SeenBy, Types, Commits
<1>9. Multi(d)' = Multi(d)
  BY <1>1 DEF Multi
<1>10. con[d].at = "phase2" => \A f \in named[t] : t \in Recovered(f)'
  BY <1>3, <1>8 DEF Mastered
<1> QED
  BY <1>1, <1>3, <1>6, <1>7, <1>9, <1>10 DEF Mastered

(* The journals that name a master journal come from its transaction.      *)
LEMMA NamesStep ==
  ASSUME Types, NEW c \in Conn, InPlace(c), Staged(c), Rolled(c), Step(c), NEW t \in Txn,
         NEW f \in File, Names(f, t)'
  PROVE  Names(f, t) \/ (t = con[c].tid /\ con[c].at = "name")
<1>h. /\ con[c].at \in Filing \cup Ending \cup {"lock", "master"} => This(c) \in File
      /\ con[c].at \in Rolling => con[c].cur \in File
      /\ con[c].at \in Filing \cup {"phase2"} => jrnl[This(c)] # NoJournal
      /\ con[c].at \in Rolling \ {"delmaster"} => jrnl[con[c].cur] # NoJournal
  BY Handled, OwnJournal
<1>0. t # 0
  BY DEF Txn
<1>s. CASE jrnl' = jrnl
  BY <1>s DEF Names
<1>1. ASSUME NEW g \in File, Write(c, g) PROVE Names(f, t)
  <2> DEFINE j == [orig |-> db[g], firm |-> FALSE, master |-> 0]
  <2>1. jrnl' = [jrnl EXCEPT ![g] = j] /\ j.master = 0
    BY <1>1 DEF Write
  <2> HIDE DEF j
  <2> QED
    BY <1>0, <2>1 DEF Names, Types
<1>2. CASE WriteMaster(c)
  <2>1. PICK g \in File : g = This(c) /\ jrnl[g] # NoJournal /\ con[c].at = "name"
    BY <1>h, <1>2 DEF WriteMaster, Filing
  <2> DEFINE m == IF Multi(c) THEN con[c].tid ELSE 0
             j == [jrnl[g] EXCEPT !.master = m]
  <2>2. jrnl' = [jrnl EXCEPT ![g] = j]
    BY <1>2, <2>1 DEF WriteMaster, Types
  <2>3. j.master = m
    BY <2>1 DEF Types, Journal
  <2> HIDE DEF j
  <2> QED
    BY <1>0, <2>1, <2>2, <2>3 DEF Names, Types
<1>3. CASE SyncJournal(c)
  <2>1. PICK g \in File : g = This(c) /\ jrnl[g] # NoJournal
    BY <1>h, <1>3 DEF SyncJournal, Filing
  <2> DEFINE j == [jrnl[g] EXCEPT !.firm = TRUE]
  <2>2. jrnl' = [jrnl EXCEPT ![g] = j]
    BY <1>3, <2>1 DEF SyncJournal, Types
  <2>3. j.master = jrnl[g].master
    BY <2>1 DEF Types, Journal
  <2> HIDE DEF j
  <2> QED
    BY <2>1, <2>2, <2>3 DEF Names, Types
<1>4. CASE PhaseTwo(c) /\ Unlink(This(c))
  BY <1>h, <1>4 DEF Unlink, Names, Types
<1>5. CASE EndPlayback(c)
  BY <1>h, <1>5 DEF EndPlayback, Unlink, Names, Types
<1> QED
  BY <1>s, <1>1, <1>2, <1>3, <1>4, <1>5
     DEF Step, Read, EndRead, Commit, ExclusiveLock, Rollback, CheckMaster, Crash, IoError, Master,
         DelMaster, SyncDirectory, PhaseTwo, WriteDb, SyncDb, SyncHotJournal, DeleteMaster,
         Restore, SyncRestored, disk

(* and the journals that they roll back.                                   *)
LEMMA OthersRolled ==
  ASSUME Types, LocksOK, Numbered, \A f \in File : FileOK(f), NEW c \in Conn, InPlace(c), Staged(c),
         Mastered(c), Rolled(c), Step(c), Touch(c), NEW d \in Conn \ {c}, InPlace(d), Rolled(d)
  PROVE  Rolled(d)'
<1>0. SUFFICES ASSUME con[d].at \in Rolling PROVE Rolled(d)'
  BY MovesTyped DEF Moves, Rolled, Rolling
<1>1. con'[d] = con[d]
  BY MovesTyped DEF Moves
<1>2. PICK g \in File : g = con[d].cur
  BY <1>0, Handled
<1>3. PICK m \in 0 .. MaxTxn : m = con[d].master
  BY DEF Types, State
<1>4. con[d].at # "delmaster" => FileSame(g)
  BY <1>0, <1>2, OthersSame DEF Own
<1>5. \A f \in con[d].todo : f \in File /\ FileSame(f)
  BY <1>0, OthersSame DEF Own, Types, State
<1>6. MastersMove(c)
  BY MastersMoves
(* The master journal of d neither comes nor goes.                         *)
<1>7. m # 0 /\ con[c].at = "master" => con[c].tid # m
  <2>1. con[c].at = "master" => Unused(con[c].tid)
    BY MasterFree DEF Growing, InPlace
  <2> QED
    BY <1>3, <2>1 DEF Unused
<1>8. con[d].at \in {"restore", "sync", "finish", "delmaster"} /\ con[d].res /\ m # 0 =>
        \A e \in Conn : con[e].tid # m
  BY <1>3 DEF Rolled
<1>9. con[d].at \in {"restore", "sync", "finish"} => (m \in mj' \cup {0} <=> m \in mj \cup {0})
  <2>1. SUFFICES ASSUME con[d].at \in {"restore", "sync", "finish"}, m # 0
                 PROVE  m \in mj' <=> m \in mj
    OBVIOUS
  <2>2. m = jrnl[g].master /\ (con[d].res <=> m \in mj \cup {0}) /\ jrnl[g] # NoJournal
    BY <1>2, <1>3, <2>1 DEF Rolled, Rolling
  <2>3. CASE con[c].at = "delmaster" /\ con[c].left = {} /\ con[c].master = m
    <3>1. g \in named[m] /\ \A f \in named[m] : ~Names(f, m)
      BY <1>2, <2>1, <2>2, <2>3 DEF Rolled, FileOK, OnDisk
    <3> QED
      BY <2>2, <3>1 DEF Names
  <2>4. CASE con[c].at = "unlink" /\ con[c].tid = m
    <3>1. m \in mj
      BY <2>4 DEF Mastered, InPlace
    <3> QED
      BY <1>8, <2>1, <2>2, <2>4, <3>1
  <2> QED
    BY <1>6, <1>7, <2>1, <2>3, <2>4 DEF MastersMove
<1>10. con[d].at \in {"restore", "sync", "finish", "delmaster"} /\ con[d].res /\ m # 0 =>
        \A e \in Conn : con'[e].tid # m
  <2>1. SUFFICES ASSUME con[d].at \in {"restore", "sync", "finish", "delmaster"}, con[d].res, m # 0
                 PROVE  con'[c].tid # m
    BY <1>8, MovesTyped DEF Moves
  <2>2. CASE Keeps(c) \/ Drops(c)
    BY <1>8, <2>1, <2>2 DEF Keeps, Drops
  <2>3. CASE Draws(c)
    <3>1. ntxn + 1 \in Txn /\ ntxn + 1 > ntxn /\ con'[c].tid = ntxn + 1
      BY <2>3, MultiAssumption DEF Draws, Types
    <3>2. PICK t \in Txn : t = ntxn + 1
      BY <3>1
    <3>3. Unused(t)
      BY <3>1, <3>2 DEF Numbered
    <3> QED
      BY <1>3, <3>1, <3>2, <3>3 DEF Unused
  <2> QED
    BY <2>2, <2>3, NumberMoves
<1>11. ASSUME con[d].at = "delmaster"
       PROVE  /\ con[d].res /\ m # 0
              /\ \A f \in named'[m] \ con[d].left : ~Names(f, m)'
  <2>1. con[d].res /\ m # 0 /\ \A f \in named[m] \ con[d].left : ~Names(f, m)
    BY <1>3, <1>11 DEF Rolled
  <2>2. m \in Txn /\ m # con[c].tid
    BY <1>8, <1>11, <2>1 DEF Txn
  <2>3. named'[m] = named[m] /\ named[m] \subseteq File
    BY <1>6, <2>2 DEF MastersMove, Types
  <2>4. \A f \in named[m] \ con[d].left : ~Names(f, m)'
    BY <2>1, <2>2, <2>3, NamesStep
  <2> QED
    BY <2>1, <2>3, <2>4
<1>12. con[d].at # "delmaster" => jrnl'[g] = jrnl[g] /\ db'[g] = db[g] /\ dbOld'[g] = dbOld[g]
  BY <1>4 DEF FileSame
<1>13. \A f \in con[d].todo : jrnl'[f] # NoJournal
  BY <1>0, <1>5 DEF FileSame, Rolled
<1> QED
  BY <1>0, <1>1, <1>2, <1>3, <1>9, <1>10, <1>11, <1>12, <1>13 DEF Rolled, Rolling

-----------------------------------------------------------------------------
(* A file that stays the same is where it was in its commit.               *)
LEMMA SameStage ==
  ASSUME NEW c \in Conn, NEW f \in File, FileSame(f)
  PROVE  /\ \A b, m : Journalled(f, b, m) => Journalled(f, b, m)'
         /\ (con'[c].files = con[c].files /\ con'[c].tid = con[c].tid) =>
              (Done(c, f) => Done(c, f)') /\ (Written(c, f) => Written(c, f)')
  BY DEF FileSame, Journalled, Done, Written, Firm, MasterOf, Multi

(* A connection that is not in the middle of writing its files.            *)
LEMMA RestStaged ==
  ASSUME NEW c \in Conn, con'[c].at \in Growing \cup Rolling, con'[c].files \subseteq File,
         \A f \in con'[c].files : Journalled(f, FALSE, 0)'
  PROVE  Staged(c)'
  BY DEF Staged, Growing, Rolling, Filing, Ending

(* when they stay the same,                                                *)
LEMMA KeptStaged ==
  ASSUME Types, NEW c \in Conn, InPlace(c), Staged(c), con[c].at \in Growing \cup Rolling,
         con'[c].at \in Growing \cup Rolling, con'[c].files \in {con[c].files, {}},
         \A f \in con[c].files : FileSame(f)
  PROVE  Staged(c)'
<1>1. \A f \in con[c].files : f \in File /\ Journalled(f, FALSE, 0)
  BY DEF Staged, Types, State
<1>2. \A f \in con'[c].files : f \in File /\ Journalled(f, FALSE, 0)'
  BY <1>1, SameStage
<1> QED
  BY <1>2, RestStaged

(* and when it has none.                                                   *)
LEMMA NoneStaged ==
  ASSUME NEW c \in Conn, con'[c].at \in Growing \cup Rolling, con'[c].files = {}
  PROVE  Staged(c)'
  BY RestStaged

(* A commit at one file leaves the others.                                 *)
LEMMA FilingKept ==
  ASSUME Types, NEW c \in Conn, InPlace(c), Staged(c), con[c].at \in Filing,
         NEW g \in File, g = This(c), OnlyFile(g),
         con'[c].tid = con[c].tid, con'[c].files = con[c].files
  PROVE  /\ \A f \in con[c].files \ con[c].todo : Done(c, f)'
         /\ \A f \in con[c].todo \ {g} : Journalled(f, FALSE, 0)'
<1>1. g \in con[c].todo /\ con[c].files \subseteq File /\ con[c].todo \subseteq File
  BY Handled DEF Types, State
<1>2. \A f \in File \ {g} : FileSame(f)
  BY DEF OnlyFile
<1>3. \A f \in con[c].files \ con[c].todo : Done(c, f) /\ f # g
  BY <1>1 DEF Staged
<1>4. \A f \in con[c].todo \ {g} : Journalled(f, FALSE, 0)
  BY DEF Staged
<1> QED
  BY <1>1, <1>2, <1>3, <1>4, SameStage

(* The files of a commit are where they should be after any of its steps.  *)
LEMMA OwnStaged ==
  ASSUME Types, NothingHot, Numbered, MastersOK, \A f \in File : FileOK(f),
         NEW c \in Conn, InPlace(c), Staged(c), Mastered(c), Rolled(c), Step(c)
  PROVE  Staged(c)'
<1> USE DEF Growing, Rolling, Filing, Ending
<1>h. /\ con[c].at \in Filing \cup Ending \cup {"lock", "master"} =>
              This(c) \in con[c].todo /\ This(c) \in File /\ This(c) \in con[c].files
      /\ con[c].at \in Rolling => con[c].cur \in File /\ con[c].cur \notin con[c].files
      /\ con[c].files \subseteq File /\ con[c].todo \subseteq File
  BY Handled DEF InPlace, Types, State
<1>d. ASSUME UNCHANGED <<db, dbOld, jrnl, jrnlOld>>
      PROVE  \A f \in File : FileSame(f)
  BY <1>d DEF FileSame
<1>1. ASSUME NEW f \in File, Read(c, f) PROVE Staged(c)'
  <2>1. con[c].at = "idle" /\ con'[c].at \in {"idle", "hot"} /\ con'[c].files = con[c].files
    BY <1>1, ReadMoves DEF Finds, Read
  <2> QED
    BY <1>1, <1>d, <1>h, <2>1, KeptStaged DEF Read, disk
<1>2. ASSUME NEW f \in File, EndRead(c, f) PROVE Staged(c)'
  BY <1>2, <1>d, <1>h, KeptStaged DEF EndRead, disk
<1>3. ASSUME NEW g \in File, Write(c, g) PROVE Staged(c)'
  <2>1. con[c].at = "idle" /\ con'[c].at = "idle" /\ con'[c].files = con[c].files \cup {g}
    BY <1>3, WriteMoves DEF Write, Begins
  <2>2. Journalled(g, FALSE, 0)' /\ OnlyFile(g)
    BY <1>3, WriteFiles DEF Journalled
  <2>3. \A f \in con[c].files : Journalled(f, FALSE, 0)
    BY <2>1 DEF Staged
  <2>4. \A f \in con[c].files \ {g} : Journalled(f, FALSE, 0)'
    BY <1>h, <2>2, <2>3, SameStage DEF OnlyFile
  <2> QED
    BY <1>h, <2>1, <2>2, <2>4, RestStaged
<1>4. CASE Commit(c)
  <2>1. con[c].at = "idle" /\ con'[c].at = "lock" /\ con'[c].files = con[c].files
    BY <1>4, CommitMoves DEF Commit, Goes
  <2> QED
    BY <1>4, <1>d, <1>h, <2>1, KeptStaged DEF Commit, disk
<1>5. CASE ExclusiveLock(c)
  <2>1. con[c].at = "lock" /\ con'[c].files = con[c].files /\ \A f \in File : FileSame(f)
    BY <1>5, <1>d, LockMoves DEF ExclusiveLock, Goes, disk
  <2>2. CASE con'[c].at \in {"idle", "lock", "master"}
    BY <1>h, <2>1, <2>2, KeptStaged
  <2>3. CASE con'[c].at = "name" /\ con'[c].todo = con[c].files
    <3>1. \A f \in con[c].files : Journalled(f, FALSE, 0)'
      BY <1>h, <2>1, SameStage DEF Staged
    <3> QED
      BY <2>1, <2>3, <3>1 DEF Staged
  <2> QED
    BY <1>5, <2>2, <2>3, LockMoves DEF Goes
<1>6. CASE Master(c)
  <2>1. con[c].at = "master" /\ \A f \in File : FileSame(f)
    BY <1>6, <1>d DEF Master
  <2>2. con'[c].at = "name" /\ con'[c].files = con[c].files /\ con'[c].todo = con[c].files
    BY <1>6, <2>1, FilingMoves DEF Goes, InPlace
  <2>3. \A f \in con[c].files : Journalled(f, FALSE, 0)'
    BY <1>h, <2>1, SameStage DEF Staged
  <2> QED
    BY <2>2, <2>3 DEF Staged
<1>7. CASE WriteMaster(c)
  <2>0. con[c].at = "name" /\ Goes(c, "syncjournal", con[c].todo)
    BY <1>7, FilingMoves DEF WriteMaster
  <2>1. PICK g \in File : g = This(c)
    BY <1>h, <2>0
  <2>m. PICK m : m = MasterOf(c)
    OBVIOUS
  <2>2. OnlyFile(g) /\ Journalled(g, FALSE, m)'
    BY <1>7, <2>1, <2>m, WriteMasterFiles
  <2>3. /\ \A f \in con[c].files \ con[c].todo : Done(c, f)'
        /\ \A f \in con[c].todo \ {g} : Journalled(f, FALSE, 0)'
    BY <2>0, <2>1, <2>2, FilingKept DEF Goes
  <2>4. This(c)' = g /\ MasterOf(c)' = m
    BY <2>0, <2>1, <2>m DEF Goes, This, MasterOf, Multi
  <2> QED
    BY <2>0, <2>2, <2>3, <2>4 DEF Staged, Goes
<1>8. CASE SyncJournal(c)
  <2>0. con[c].at = "syncjournal" /\ Goes(c, "write", con[c].todo)
    BY <1>8, FilingMoves DEF SyncJournal
  <2>1. PICK g \in File : g = This(c)
    BY <1>h, <2>0
  <2>m. PICK m : m = MasterOf(c)
    OBVIOUS
  <2>2. OnlyFile(g) /\ Journalled(g, TRUE, m)'
    BY <1>8, <2>1, <2>m, SyncJournalFiles
  <2>3. /\ \A f \in con[c].files \ con[c].todo : Done(c, f)'
        /\ \A f \in con[c].todo \ {g} : Journalled(f, FALSE, 0)'
    BY <2>0, <2>1, <2>2, FilingKept DEF Goes
  <2>4. This(c)' = g /\ MasterOf(c)' = m
    BY <2>0, <2>1, <2>m DEF Goes, This, MasterOf, Multi
  <2> QED
    BY <2>0, <2>2, <2>3, <2>4 DEF Staged, Goes
<1>9. CASE WriteDb(c)
  <2>0. con[c].at = "write" /\ Goes(c, "syncdb", con[c].todo)
    BY <1>9, FilingMoves DEF WriteDb
  <2>1. PICK g \in File : g = This(c)
    BY <1>h, <2>0
  <2>m. PICK m : m = MasterOf(c)
    OBVIOUS
  <2>2. OnlyFile(g) /\ jrnl' = jrnl /\ db'[g] = jrnl[g].orig \cup {con[c].tid}
    BY <1>9, <2>0, <2>1, WriteDbFiles
  <2>3. /\ \A f \in con[c].files \ con[c].todo : Done(c, f)'
        /\ \A f \in con[c].todo \ {g} : Journalled(f, FALSE, 0)'
    BY <2>0, <2>1, <2>2, FilingKept DEF Goes
  <2>4. This(c)' = g /\ MasterOf(c)' = m
    BY <2>0, <2>1, <2>m DEF Goes, This, MasterOf, Multi
  <2>5. Journalled(g, TRUE, m)
    BY <2>0, <2>1, <2>m DEF Staged
  <2>6. Written(c, g)'
    BY <2>0, <2>2, <2>4, <2>5 DEF Written, Journalled, Firm, Goes
  <2> QED
    BY <2>0, <2>3, <2>4, <2>6 DEF Staged, Goes
<1>10. CASE SyncDb(c)
  <2>0. con[c].at = "syncdb" /\ con'[c].tid = con[c].tid /\ con'[c].files = con[c].files
    BY <1>10, SyncDbMoves DEF SyncDb, Goes
  <2>1. PICK g \in File : g = This(c) /\ g \in con[c].todo
    BY <1>h, <2>0
  <2>2. OnlyFile(g) /\ dbOld'[g] = {} /\ db' = db /\ jrnl' = jrnl
    BY <1>10, <2>1, SyncFiles DEF SyncDb, SameMasters
  <2>3. /\ \A f \in con[c].files \ con[c].todo : Done(c, f)'
        /\ \A f \in con[c].todo \ {g} : Journalled(f, FALSE, 0)'
    BY <2>0, <2>1, <2>2, FilingKept DEF Goes
  <2>4. Done(c, g)'
    <3>1. Written(c, g) /\ MasterOf(c)' = MasterOf(c)
      BY <2>0, <2>1 DEF Staged, MasterOf, Multi
    <3> QED
      BY <2>0, <2>2, <3>1 DEF Written, Done, Firm
  <2>5. CASE con[c].todo \ {g} = {} /\ con'[c].at \in {"unlink", "phase2"} /\ con'[c].todo = con[c].files
    BY <2>0, <2>3, <2>4, <2>5 DEF Staged
  <2>6. CASE con'[c].at = "name" /\ con'[c].todo = con[c].todo \ {g}
    BY <2>0, <2>3, <2>4, <2>6 DEF Staged
  <2> QED
    BY <1>10, <2>1, <2>5, <2>6, SyncDbMoves DEF Goes
<1>11. CASE DeleteMaster(c) \/ SyncDirectory(c)
  <2>1. con[c].at \in {"unlink", "syncdir"} /\ \A f \in File : FileSame(f)
    BY <1>11, <1>d DEF DeleteMaster, SyncDirectory
  <2>2. /\ con'[c].at \in {"syncdir", "phase2"} /\ con'[c].files = con[c].files
        /\ con'[c].todo = con[c].todo /\ con'[c].tid = con[c].tid
    BY <1>11, FilingMoves DEF Goes
  <2>3. \A f \in con[c].todo : Done(c, f)'
    BY <1>h, <2>1, <2>2, SameStage DEF Staged
  <2> QED
    BY <2>2, <2>3 DEF Staged
<1>12. CASE PhaseTwo(c)
  <2>0. con[c].at = "phase2"
    BY <1>12 DEF PhaseTwo
  <2>1. PICK g \in File : g = This(c)
    BY <1>h, <2>0
  <2>2. \A f \in File \ {g} : FileSame(f)
    BY <1>12, <2>1, PhaseTwoFiles DEF OnlyFile
  <2>3. CASE Goes(c, "phase2", con[c].todo \ {This(c)})
    <3>1. \A f \in con[c].todo \ {g} : Done(c, f)'
      BY <1>h, <2>0, <2>2, <2>3, SameStage DEF Staged, Goes
    <3> QED
      BY <2>1, <2>3, <3>1 DEF Staged, Goes
  <2>4. CASE Rests(c, 0, {})
    BY <2>4, NoneStaged DEF Rests
  <2> QED
    BY <1>12, <2>3, <2>4, PhaseTwoMoves
<1>13. CASE Rollback(c) \/ IoError(c)
  <2>1. con'[c].at = "check" /\ con'[c].files = {}
    BY <1>13, FailMoves DEF Checks
  <2> QED
    BY <2>1, NoneStaged
<1>14. CASE Crash(c)
  BY <1>14, CrashMoves, NoneStaged DEF Rests
<1>15. CASE SyncHotJournal(c) \/ CheckMaster(c) \/ Restore(c) \/ SyncRestored(c) \/ EndPlayback(c)
            \/ DelMaster(c)
  <2>1. con[c].at \in Rolling
    BY <1>15 DEF SyncHotJournal, CheckMaster, Restore, SyncRestored, EndPlayback, DelMaster
  <2>2. PICK g \in File : g = con[c].cur /\ g \notin con[c].files
    BY <1>h, <2>1
  <2>3. OnlyFile(g)
    <3>1. CASE CheckMaster(c) \/ DelMaster(c)
      BY <1>d, <3>1 DEF CheckMaster, DelMaster, OnlyFile, disk
    <3>2. CASE SyncHotJournal(c)
      BY <2>2, <3>2, SyncHotFiles DEF SyncHotJournal, SameMasters
    <3>3. CASE Restore(c)
      BY <2>2, <3>3, RestoreFiles
    <3>4. CASE SyncRestored(c)
      BY <2>2, <3>4, SyncFiles DEF SyncRestored, SameMasters
    <3>5. CASE EndPlayback(c)
      BY <2>2, <3>5, EndFiles
    <3> QED
      BY <1>15, <3>1, <3>2, <3>3, <3>4, <3>5
  <2>4. con'[c].at \in Growing \cup Rolling /\ con'[c].files = con[c].files
    <3>1. CASE SyncHotJournal(c) \/ Restore(c) \/ SyncRestored(c)
      BY <3>1, FilingMoves DEF Goes
    <3>2. CASE CheckMaster(c)
      BY <3>2, CheckMoves DEF CheckMaster, Looks, InPlace, Rolled
    <3>3. CASE con' = [con EXCEPT ![c] = RolledBack(con[c])]
      BY <3>3, RollsBack DEF Rests, Checks
    <3>4. CASE \E left : Follows(c, left)
      BY <3>4 DEF Follows
    <3> QED
      BY <1>15, <3>1, <3>2, <3>3, <3>4, EndMoves, DelMasterMoves
  <2>5. \A f \in con[c].files : FileSame(f)
    BY <1>h, <2>2, <2>3 DEF OnlyFile
  <2> QED
    BY <2>1, <2>4, <2>5, KeptStaged
<1> QED
  BY <1>1, <1>2, <1>3, <1>4, <1>5, <1>6, <1>7, <1>8, <1>9, <1>10, <1>11, <1>12, <1>13, <1>14, <1>15
     DEF Step

-----------------------------------------------------------------------------
(* Outside of a commit there is nothing to say of its master journal.      *)
LEMMA RestMastered ==
  ASSUME NEW c \in Conn, con'[c].at \in Growing \cup Rolling
  PROVE  Mastered(c)'
  BY DEF Mastered, Growing, Rolling, Filing, Ending

(* A step that leaves the master journals alone.                           *)
LEMMA KeptMastered ==
  ASSUME Types, NEW c \in Conn, Mastered(c), con[c].at \in Filing \cup Ending, con[c].at # "unlink",
         UNCHANGED <<mj, mjOld, named>>, SeenBy(c), con'[c].tid = con[c].tid, con'[c].files = con[c].files,
         con[c].tid \in Txn,
         con[c].at \in Filing => con'[c].at \in Filing,
         con[c].at \in Ending => con'[c].at = con[c].at
  PROVE  Mastered(c)'
<1>1. PICK t \in Txn : t = con[c].tid
  OBVIOUS
<1>2. Multi(c)' = Multi(c)
  BY DEF Multi
<1>3. con[c].at = "phase2" => \A f \in named[t] : t \in Recovered(f)'
  <2>1. \A f \in named[t] : f \in File
    BY DEF Types
  <2> QED
    BY <1>1, <2>1 DEF Mastered, SeenBy, Commits
<1> QED
  BY <1>1, <1>2, <1>3 DEF Mastered, Filing, Ending

(* The master journal of a commit is there as long as it should be.        *)
LEMMA OwnMastered ==
  ASSUME Types, Numbered, \A f \in File : FileOK(f),
         NEW c \in Conn, InPlace(c), Staged(c), Mastered(c), Rolled(c), Step(c), SeenBy(c)
  PROVE  Mastered(c)'
<1> USE DEF Growing, Rolling, Filing, Ending
<1>h. con[c].at \in Filing \cup Ending \cup {"lock", "master"} => con[c].tid \in Txn
  BY Handled
<1>1. ASSUME NEW f \in File, Read(c, f) \/ EndRead(c, f) \/ Write(c, f) PROVE Mastered(c)'
  <2>1. con'[c].at \in {"idle", "hot"}
    BY <1>1, ReadMoves, WriteMoves DEF Finds, Begins, Read, EndRead
  <2> QED
    BY <2>1, RestMastered
<1>2. CASE Commit(c)
  BY <1>2, CommitMoves, RestMastered DEF Goes
<1>3. CASE ExclusiveLock(c)
  <2>1. con[c].at = "lock" /\ UNCHANGED <<mj, mjOld, named>>
    BY <1>3 DEF ExclusiveLock, disk
  <2>2. CASE con'[c].at \in {"idle", "lock", "master"}
    BY <2>2, RestMastered
  <2>3. CASE con'[c].at = "name" /\ ~Multi(c) /\ con'[c].tid = con[c].tid /\ con'[c].files = con[c].files
    <3>1. Unused(con[c].tid) /\ ~Multi(c)'
      BY <2>1, <2>3, MasterFree DEF InPlace, Multi
    <3> QED
      BY <2>1, <2>3, <3>1 DEF Mastered, Unused
  <2> QED
    BY <1>3, <2>2, <2>3, LockMoves DEF Goes
<1>4. CASE Master(c)
  <2>1. PICK t \in Txn : t = con[c].tid
    BY <1>h, <1>4 DEF Master
  <2>2. /\ con[c].at = "master" /\ mj' = mj \cup {t} /\ named' = [named EXCEPT ![t] = con[c].files]
        /\ mjOld' = mjOld
    BY <1>4, <2>1 DEF Master
  <2>3. con'[c].at = "name" /\ con'[c].tid = t /\ con'[c].files = con[c].files
    BY <1>4, <2>1, FilingMoves DEF Goes
  <2>4. Multi(c) /\ Multi(c)' /\ Unused(t)
    BY <2>1, <2>2, <2>3, MasterFree DEF InPlace, Multi
  <2>5. named'[t] = con[c].files
    BY <2>2 DEF Types
  <2> QED
    BY <2>2, <2>3, <2>4, <2>5 DEF Mastered, Unused
<1>5. CASE WriteMaster(c) \/ SyncJournal(c) \/ WriteDb(c)
  <2>1. con[c].at \in Filing /\ UNCHANGED <<mj, mjOld, named>>
    BY <1>5 DEF WriteMaster, SyncJournal, WriteDb
  <2>2. con'[c].at \in Filing /\ con'[c].tid = con[c].tid /\ con'[c].files = con[c].files
    BY <1>5, FilingMoves DEF Goes
  <2> QED
    BY <1>h, <2>1, <2>2, KeptMastered
<1>6. CASE SyncDb(c)
  <2>1. con[c].at = "syncdb" /\ UNCHANGED <<mj, mjOld, named>>
    BY <1>6 DEF SyncDb
  <2>2. con'[c].tid = con[c].tid /\ con'[c].files = con[c].files /\ Multi(c)' = Multi(c)
    BY <1>6, SyncDbMoves DEF Goes, Multi
  <2>3. con'[c].at = "name" \/ (con'[c].at \in {"unlink", "phase2"} /\ (con'[c].at = "unlink" <=> Multi(c)))
    BY <1>6, SyncDbMoves DEF Goes
  <2> QED
    BY <1>h, <2>1, <2>2, <2>3 DEF Mastered
<1>7. CASE DeleteMaster(c)
  <2>1. con[c].at = "unlink" /\ mj' = mj \ {con[c].tid} /\ named' = named
    BY <1>7 DEF DeleteMaster, UnlinkMaster
  <2>2. con'[c].at = "syncdir" /\ con'[c].tid = con[c].tid /\ con'[c].files = con[c].files
        /\ Multi(c)' = Multi(c)
    BY <1>7, FilingMoves DEF Goes, Multi
  <2> QED
    BY <2>1, <2>2 DEF Mastered
<1>8. CASE SyncDirectory(c)
  <2>1. PICK t \in Txn : t = con[c].tid
    BY <1>h, <1>8 DEF SyncDirectory
  <2>2. /\ con[c].at = "syncdir" /\ mjOld' = {o \in mjOld : o.tid # t}
        /\ UNCHANGED <<db, jrnl, mj, named>>
    BY <1>8, <2>1 DEF SyncDirectory
  <2>3. con'[c].at = "phase2" /\ con'[c].tid = t /\ con'[c].files = con[c].files
        /\ Multi(c)' = Multi(c)
    BY <1>8, <2>1, FilingMoves DEF Goes, Multi
  <2>4. Multi(c) /\ con[c].todo = con[c].files /\ named[t] = con[c].files /\ t \notin mj
    BY <2>1, <2>2 DEF InPlace, Mastered
  <2>5. ASSUME NEW f \in named[t] PROVE t \in Recovered(f)'
    <3>1. f \in File /\ f \in con[c].todo
      BY <2>4 DEF Types
    <3>2. jrnl[f].master = t /\ t \in db[f]
      BY <2>1, <2>2, <2>4, <3>1 DEF Staged, Done, Written, MasterOf
    <3> QED
      BY <2>2, <2>4, <3>2 DEF Recovered, Txn
  <2>6. \A o \in mjOld' : o.tid # t
    BY <2>2
  <2> QED
    BY <2>2, <2>3, <2>4, <2>5, <2>6 DEF Mastered
<1>9. CASE PhaseTwo(c)
  <2>1. con[c].at = "phase2" /\ UNCHANGED <<mj, mjOld, named>>
    BY <1>9 DEF PhaseTwo
  <2>2. CASE Goes(c, "phase2", con[c].todo \ {This(c)})
    BY <1>h, <2>1, <2>2, KeptMastered DEF Goes
  <2>3. CASE Rests(c, 0, {})
    BY <2>3, RestMastered DEF Rests
  <2> QED
    BY <1>9, <2>2, <2>3, PhaseTwoMoves
<1>10. CASE Rollback(c) \/ IoError(c)
  BY <1>10, FailMoves, RestMastered DEF Checks
<1>11. CASE Crash(c)
  BY <1>11, CrashMoves, RestMastered DEF Rests
<1>12. CASE SyncHotJournal(c) \/ Restore(c) \/ SyncRestored(c)
  BY <1>12, FilingMoves, RestMastered DEF Goes
<1>13. CASE CheckMaster(c)
  BY <1>13, CheckMoves, RestMastered DEF CheckMaster, Looks, InPlace, Rolled
<1>14. CASE EndPlayback(c) \/ DelMaster(c)
  <2>1. CASE con' = [con EXCEPT ![c] = RolledBack(con[c])]
    BY <2>1, RollsBack, RestMastered DEF Rests, Checks
  <2>2. CASE \E left : Follows(c, left)
    BY <2>2, RestMastered DEF Follows
  <2> QED
    BY <1>14, <2>1, <2>2, EndMoves, DelMasterMoves
<1> QED
  BY <1>1, <1>2, <1>3, <1>4, <1>5, <1>6, <1>7, <1>8, <1>9, <1>10, <1>11, <1>12, <1>13, <1>14
     DEF Step

-----------------------------------------------------------------------------
(* Outside of a rollback there is nothing to say of a journal.             *)
LEMMA RestRolled ==
  ASSUME NEW c \in Conn, con'[c].at \notin Rolling
  PROVE  Rolled(c)'
  BY DEF Rolled, Rolling

(* A rollback that begins with a file has not looked at its journal.       *)
LEMMA StartRolled ==
  ASSUME NEW c \in Conn, con'[c].at \in {"hot", "check"}, jrnl'[con'[c].cur] # NoJournal,
         \A f \in con'[c].todo : jrnl'[f] # NoJournal
  PROVE  Rolled(c)'
  BY DEF Rolled, Rolling

(* The transaction of a master journal that is there when a journal that   *)
(* names it is rolled back belongs to nobody.                              *)
LEMMA Abandoned ==
  ASSUME Types, LocksOK, Numbered, \A f \in File : FileOK(f), \A d \in Conn : InPlace(d) /\ Mastered(d),
         NEW c \in Conn, NEW g \in File, g \in Own(c), con[c].at \in Rolling, g \notin con[c].files,
         NEW m \in mj, Names(g, m)
  PROVE  \A d \in Conn : con[d].tid # m
<1>1. SUFFICES ASSUME NEW d \in Conn, con[d].tid = m PROVE FALSE
  OBVIOUS
<1>2. m \in Txn /\ m # 0
  BY DEF Types, Txn
<1>3. CASE con[d].at \in Growing \cup Rolling
  <2>1. Unused(m)
    BY <1>1, <1>2, <1>3 DEF Numbered
  <2> QED
    BY <2>1 DEF Unused
<1>4. CASE con[d].at \in {"syncdir", "phase2"}
  BY <1>1, <1>4 DEF Mastered
<1>5. CASE con[d].at \in Filing \cup {"unlink"}
  <2>1. d # c
    BY <1>5 DEF Filing, Rolling
  <2>2. Multi(d) /\ named[m] = con[d].files
    BY <1>1, <1>5 DEF Mastered, Ending
  <2>3. g \in con[d].files
    BY <1>2, <2>2 DEF FileOK, OnDisk, Names
  <2>4. g \in Own(d)
    BY <1>5, <2>3 DEF Own, Filing
  <2> QED
    BY <2>1, <2>4, OwnedOnce
<1> QED
  BY <1>1, <1>3, <1>4, <1>5 DEF Types, State, Ending

-----------------------------------------------------------------------------
(* A rollback restores what it should.                                     *)
LEMMA OwnRolled ==
  ASSUME Types, Types', LocksOK, NothingHot, Numbered, MastersOK, \A f \in File : FileOK(f),
         \A d \in Conn : InPlace(d) /\ Mastered(d),
         NEW c \in Conn, Staged(c), Rolled(c), Step(c)
  PROVE  Rolled(c)'
<1> USE DEF Growing, Rolling, Filing, Ending
<1>h. /\ con[c].at \in Rolling => con[c].cur \in File /\ con[c].cur \notin con[c].files
      /\ con[c].at \in Rolling \ {"delmaster"} => con[c].cur \in Own(c)
      /\ con[c].files \subseteq File /\ con[c].todo \subseteq File
      /\ con[c].at \in Rolling \ {"delmaster"} => jrnl[con[c].cur] # NoJournal
      /\ con[c].at \in Rolling => con[c].cur \notin con[c].todo
      /\ InPlace(c) /\ Mastered(c)
  BY DEF InPlace, Types, State, Own, Rolled
<1>1. ASSUME NEW f \in File, Read(c, f) PROVE Rolled(c)'
  <2>1. con[c].at = "idle" /\ con[c].todo = {} /\ jrnl' = jrnl
    BY <1>1, <1>h DEF Read, InPlace, disk
  <2>2. CASE con' = con
    BY <2>1, <2>2, RestRolled
  <2>3. CASE Finds(c, f) /\ con' # con
    <3>1. jrnl[f] # NoJournal
      BY <1>1, <2>3 DEF Read
    <3> QED
      BY <2>1, <2>3, <3>1, StartRolled DEF Finds
  <2> QED
    BY <1>1, <2>2, <2>3, ReadMoves
<1>2. ASSUME NEW f \in File, EndRead(c, f) \/ Write(c, f) PROVE Rolled(c)'
  BY <1>2, WriteMoves, RestRolled DEF EndRead, Begins
<1>3. CASE Commit(c) \/ ExclusiveLock(c)
  BY <1>3, CommitMoves, LockMoves, RestRolled DEF Goes
<1>4. CASE \/ Master(c) \/ WriteMaster(c) \/ SyncJournal(c) \/ WriteDb(c) \/ DeleteMaster(c)
           \/ SyncDirectory(c)
  <2>1. con'[c].at \in Filing \cup Ending
    BY <1>4, FilingMoves DEF Goes
  <2> QED
    BY <2>1, RestRolled
<1>5. CASE SyncDb(c) \/ PhaseTwo(c) \/ Crash(c)
  <2>1. con'[c].at \in Filing \cup Ending \cup {"idle"}
    BY <1>5, SyncDbMoves, PhaseTwoMoves, CrashMoves DEF Goes, Rests
  <2> QED
    BY <2>1, RestRolled
<1>6. CASE Rollback(c) \/ IoError(c)
  <2>1. PICK f \in con[c].files : Checks(c, f, con[c].files \ {f}, 0, {})
    BY <1>6, <1>h, FailMoves
  <2>2. jrnl' = jrnl
    BY <1>6 DEF Rollback, IoError, disk
  <2>3. \A g \in con[c].files : jrnl[g] # NoJournal
    <3>1. con[c].at = "phase2" => con[c].todo = con[c].files
      BY <1>6, <1>h DEF IoError, Rollback, InPlace
    <3>2. con[c].at \in {"idle", "master"} \cup Filing \cup Ending
      BY <1>6 DEF Rollback, IoError
    <3>3. con[c].at \in Ending => \A g \in con[c].files : jrnl[g] # NoJournal
      BY <1>h, <3>1 DEF Staged, Done, Written, Firm, InPlace
    <3>4. con[c].at \in Growing => \A g \in con[c].files : jrnl[g] # NoJournal
      BY DEF Staged, Journalled
    <3>5. con[c].at \in Filing => \A g \in con[c].files : jrnl[g] # NoJournal
      <4>1. con[c].at \in Filing => jrnl[This(c)] # NoJournal
        BY <1>h, OwnJournal
      <4> QED
        BY <4>1 DEF Staged, Journalled, Done, Written, Firm
    <3> QED
      BY <3>2, <3>3, <3>4, <3>5
  <2> QED
    BY <2>1, <2>2, <2>3, StartRolled DEF Checks
<1>7. CASE SyncHotJournal(c)
  <2>1. con[c].at = "hot" /\ jrnl' = jrnl /\ Goes(c, "check", con[c].todo)
    BY <1>7, FilingMoves DEF SyncHotJournal
  <2> QED
    BY <1>h, <2>1, StartRolled DEF Goes, Rolled
<1>8. CASE CheckMaster(c)
  <2>1. PICK g \in File : g = con[c].cur
    BY <1>8, <1>h DEF CheckMaster
  <2>2. con[c].at = "check" /\ UNCHANGED <<jrnl, mj, db, named>> /\ jrnl[g] # NoJournal /\ g \in Own(c)
    BY <1>8, <1>h, <2>1 DEF CheckMaster, disk
  <2>3. PICK m : m = jrnl[g].master
    OBVIOUS
  <2>4. /\ con'[c].cur = g /\ con'[c].master = m /\ (con'[c].res <=> m \in mj \cup {0})
        /\ con'[c].at = (IF m \in mj \cup {0} THEN "restore" ELSE "sync")
        /\ con'[c].todo = con[c].todo
    BY <1>8, <2>1, <2>2, <2>3, CheckMoves DEF Looks
  <2>5. m \in mj => \A d \in Conn : con[d].tid # m
    BY <1>h, <2>1, <2>2, <2>3, Abandoned DEF Names
  <2>6. m \in mj => \A d \in Conn : con'[d].tid # m
    BY <1>8, <2>1, <2>2, <2>5, CheckMoves DEF Looks, Moves
  <2>7. \A f \in con[c].todo : jrnl'[f] # NoJournal
    BY <2>2 DEF Rolled
  <2> QED
    BY <2>2, <2>3, <2>4, <2>6, <2>7 DEF Rolled
<1>9. CASE Restore(c) \/ SyncRestored(c)
  <2>1. PICK g \in File : g = con[c].cur
    BY <1>9, <1>h DEF Restore, SyncRestored
  <2>2. /\ con[c].at \in {"restore", "sync"} /\ UNCHANGED <<jrnl, mj, named>>
        /\ con[c].at = "sync" => db' = db
    BY <1>9, <2>1 DEF Restore, SyncRestored
  <2>3. /\ con'[c].at = IF con[c].at = "restore" THEN "sync" ELSE "finish"
        /\ con'[c].cur = g /\ con'[c].master = con[c].master /\ con'[c].res = con[c].res
        /\ con'[c].todo = con[c].todo /\ con'[c].tid = con[c].tid
    BY <1>9, <2>1, FilingMoves DEF Goes, Restore, SyncRestored
  <2>4. con[c].at = "restore" => (jrnl[g].firm => db'[g] = jrnl[g].orig)
    BY <1>9, <1>h, <2>1, RestoreFiles DEF SyncRestored
  <2>5. con[c].at = "sync" => dbOld'[g] = {}
    BY <1>9, <2>1 DEF SyncRestored, Restore, Types
  <2>6. con[c].res /\ con[c].master # 0 => \A d \in Conn : con'[d].tid # con[c].master
    BY <2>2, <2>3, MovesTyped, <1>h DEF Rolled, Moves
  <2>7. \A f \in con[c].todo : jrnl'[f] # NoJournal
    BY <2>2 DEF Rolled
  <2>8. /\ con[c].master = jrnl'[g].master /\ (con[c].res <=> con[c].master \in mj' \cup {0})
        /\ jrnl'[g] # NoJournal
    BY <2>1, <2>2 DEF Rolled
  <2>9. con[c].at = "sync" => (con[c].res /\ jrnl[g].firm => db'[g] = jrnl[g].orig)
    BY <2>1, <2>2 DEF Rolled
  <2> QED
    BY <2>2, <2>3, <2>4, <2>5, <2>6, <2>7, <2>8, <2>9 DEF Rolled
<1>10. ASSUME EndPlayback(c) \/ DelMaster(c), con' = [con EXCEPT ![c] = RolledBack(con[c])]
       PROVE  Rolled(c)'
  <2>1. \A f \in con[c].todo : f \in File /\ jrnl'[f] # NoJournal
    <3>1. con[c].at \in {"finish", "delmaster"}
      BY <1>10 DEF EndPlayback, DelMaster
    <3>2. \A f \in con[c].todo : jrnl[f] # NoJournal /\ f # con[c].cur
      BY <1>h, <3>1 DEF Rolled
    <3>3. jrnl' = jrnl \/ jrnl' = [jrnl EXCEPT ![con[c].cur] = NoJournal]
      BY <1>10 DEF EndPlayback, DelMaster, Unlink
    <3> QED
      BY <1>h, <3>2, <3>3 DEF Types
  <2>2. CASE Rests(c, con[c].tid, con[c].files)
    BY <2>2, RestRolled DEF Rests
  <2>3. ASSUME NEW f \in con[c].todo, Checks(c, f, con[c].todo \ {f}, con[c].tid, con[c].files)
        PROVE  Rolled(c)'
    BY <2>1, <2>3, StartRolled DEF Checks
  <2> QED
    BY <1>10, <2>2, <2>3, RollsBack
<1>11. ASSUME NEW left, Follows(c, left), UNCHANGED <<mj, named>>, con[c].res, con[c].master # 0,
              con[c].at \in {"finish", "delmaster"},
              \A f \in named[con[c].master] \ left : ~Names(f, con[c].master)',
              \A f \in con[c].todo : jrnl'[f] # NoJournal
       PROVE  Rolled(c)'
  <2>1. PICK m : m = con[c].master
    OBVIOUS
  <2>2. \A d \in Conn : con'[d].tid # m
    BY <1>11, <2>1 DEF Rolled, Follows, Moves
  <2> QED
    BY <1>11, <2>1, <2>2 DEF Rolled, Follows
<1>12. CASE EndPlayback(c) /\ ~(con' = [con EXCEPT ![c] = RolledBack(con[c])])
  <2>1. /\ con[c].master # 0 /\ con[c].res /\ Follows(c, named[con[c].master])
        /\ con[c].at = "finish" /\ UNCHANGED <<mj, named>>
    BY <1>12, EndMoves DEF EndPlayback
  <2>2. jrnl' = [jrnl EXCEPT ![con[c].cur] = NoJournal]
    BY <1>12 DEF EndPlayback, Unlink
  <2>3. \A f \in con[c].todo : jrnl'[f] # NoJournal
    BY <1>h, <2>1, <2>2 DEF Rolled, Types
  <2> QED
    BY <1>11, <2>1, <2>3
<1>13. CASE DelMaster(c) /\ ~(con' = [con EXCEPT ![c] = RolledBack(con[c])])
  <2>1. /\ ~Names(Min(con[c].left), con[c].master) /\ mj' = mj
        /\ Follows(c, con[c].left \ {Min(con[c].left)})
    BY <1>13, DelMasterMoves
  <2>2. con[c].at = "delmaster" /\ jrnl' = jrnl /\ named' = named
    BY <1>13 DEF DelMaster
  <2>3. /\ con[c].res /\ con[c].master # 0
        /\ \A f \in named[con[c].master] \ con[c].left : ~Names(f, con[c].master)
        /\ \A f \in con[c].todo : jrnl'[f] # NoJournal
    BY <2>2 DEF Rolled
  <2>4. \A f \in named[con[c].master] \ (con[c].left \ {Min(con[c].left)}) : ~Names(f, con[c].master)'
    <3>1. PICK m : m = con[c].master
      OBVIOUS
    <3>2. \A f : Names(f, m)' <=> Names(f, m)
      BY <2>2 DEF Names
    <3>3. \A f \in named[m] \ (con[c].left \ {Min(con[c].left)}) : ~Names(f, m)
      BY <2>1, <2>3, <3>1
    <3>4. con'[c].master = m
      BY <2>1, <3>1 DEF Follows
    <3> QED
      BY <3>1, <3>2, <3>3, <3>4
  <2> QED
    BY <1>11, <2>1, <2>2, <2>3, <2>4
<1> QED
  BY <1>1, <1>2, <1>3, <1>4, <1>5, <1>6, <1>7, <1>8, <1>9, <1>10, <1>12, <1>13 DEF Step

-----------------------------------------------------------------------------
(* The list of a transaction whose master journal is there, or that has    *)
(* returned, or whose master journal may return, does not change.          *)
LEMMA ListKept ==
  ASSUME Types, Numbered, NEW c \in Conn, InPlace(c), MastersMove(c), NEW t \in Txn, ~Unused(t)
  PROVE  named'[t] = named[t] /\ (con[c].at = "master" => t # con[c].tid)
<1>1. con[c].at = "master" => Unused(con[c].tid)
  BY MasterFree DEF InPlace, Growing
<1> QED
  BY <1>1 DEF MastersMove, Types

(* A transaction whose master journal is there is rolled back.             *)
LEMMA MasterStands ==
  ASSUME Types, Numbered, MastersOK, NEW c \in Conn, InPlace(c), Mastered(c), SeenBy(c), MastersMove(c)
  PROVE  \A t \in mj' : \A f \in named'[t] : t \notin Recovered(f)'
<1>1. SUFFICES ASSUME NEW t \in mj', NEW f \in named'[t] PROVE t \notin Recovered(f)'
  OBVIOUS
<1>2. t \in mj \/ (con[c].at = "master" /\ t = con[c].tid)
  BY DEF MastersMove
<1>3. CASE t \in mj
  <2>1. ~Unused(t) /\ t \in Txn
    BY <1>3 DEF Unused, Types
  <2>2. named'[t] = named[t] /\ f \in File
    BY <2>1, ListKept DEF Types
  <2>3. t \notin Recovered(f)
    BY <1>3, <2>2 DEF MastersOK
  <2> QED
    BY <2>1, <2>2, <2>3 DEF SeenBy, Commits
<1>4. CASE con[c].at = "master" /\ t = con[c].tid
  <2>1. t \in Txn /\ Unused(t)
    BY <1>4, MasterFree DEF InPlace, Growing
  <2>2. f \in File
    BY <1>4, <2>1 DEF MastersMove, Types, State
  <2>3. t \notin Recovered(f)
    BY <2>1, <2>2 DEF Unused, Recovered, OnDisk
  <2> QED
    BY <1>4, <2>1, <2>2, <2>3 DEF SeenBy, Commits
<1> QED
  BY <1>2, <1>3, <1>4

(* A journal that names a master is on its way through a commit, or firm.  *)
LEMMA FirmStep ==
  ASSUME Types, NEW c \in Conn, InPlace(c), Staged(c), Rolled(c), Step(c), NEW t \in Txn,
         NEW f \in File, NEW j \in OnDisk(f)', j.master = t
  PROVE  j \in OnDisk(f) \/ j.firm \/ (con[c].at = "name" /\ t = con[c].tid)
<1>h. /\ con[c].at \in Filing \cup Ending \cup {"lock", "master"} => This(c) \in File
      /\ con[c].at \in Rolling => con[c].cur \in File
      /\ con[c].at \in Filing \cup {"phase2"} => jrnl[This(c)] # NoJournal
      /\ con[c].at \in Rolling \ {"delmaster"} => jrnl[con[c].cur] # NoJournal
  BY Handled, OwnJournal
<1>0. t # 0
  BY DEF Txn
<1>s. CASE UNCHANGED <<jrnl, jrnlOld>>
  BY <1>s DEF OnDisk
<1>1. ASSUME NEW g \in File, Write(c, g) PROVE j \in OnDisk(f)
  <2> DEFINE k == [orig |-> db[g], firm |-> FALSE, master |-> 0]
  <2>1. /\ jrnl' = [jrnl EXCEPT ![g] = k] /\ k.master = 0
        /\ jrnlOld' = [jrnlOld EXCEPT ![g] = @ \cup {NoJournal}]
    BY <1>1 DEF Write
  <2> HIDE DEF k
  <2> QED
    BY <1>0, <2>1 DEF OnDisk, Types
<1>2. CASE WriteMaster(c)
  <2>1. PICK g \in File : g = This(c) /\ jrnl[g] # NoJournal /\ con[c].at = "name"
    BY <1>h, <1>2 DEF WriteMaster, Filing
  <2> DEFINE m == IF Multi(c) THEN con[c].tid ELSE 0
             k == [jrnl[g] EXCEPT !.master = m]
             old == jrnl[g]
  <2>2. jrnl' = [jrnl EXCEPT ![g] = k] /\ jrnlOld' = [jrnlOld EXCEPT ![g] = @ \cup {old}]
    BY <1>2, <2>1 DEF WriteMaster, Types
  <2>3. k.master = m /\ old \in OnDisk(g)
    BY <2>1 DEF Types, Journal, OnDisk
  <2> HIDE DEF k, old
  <2>4. \A i \in OnDisk(f)' : i = k \/ i \in OnDisk(f)
    BY <2>2, <2>3 DEF OnDisk, Types
  <2> QED
    BY <1>0, <2>1, <2>3, <2>4
<1>3. CASE SyncJournal(c)
  <2>1. PICK g \in File : g = This(c) /\ jrnl[g] # NoJournal
    BY <1>h, <1>3 DEF SyncJournal, Filing
  <2> DEFINE k == [jrnl[g] EXCEPT !.firm = TRUE]
  <2>2. jrnl' = [jrnl EXCEPT ![g] = k] /\ jrnlOld' = [jrnlOld EXCEPT ![g] = {}]
    BY <1>3, <2>1 DEF SyncJournal, Types
  <2>3. k.firm
    BY <2>1 DEF Types, Journal
  <2> HIDE DEF k
  <2>4. \A i \in OnDisk(f)' : i = k \/ i \in OnDisk(f)
    BY <2>2 DEF OnDisk, Types
  <2> QED
    BY <2>3, <2>4
<1>4. CASE (PhaseTwo(c) /\ Unlink(This(c))) \/ EndPlayback(c)
  <2>1. PICK g \in File : Unlink(g)
    BY <1>h, <1>4 DEF PhaseTwo, EndPlayback, Ending, Rolling
  <2>2. OnDisk(f)' \subseteq OnDisk(f)
    BY <2>1 DEF Unlink, OnDisk, Types
  <2> QED
    BY <2>2
<1>5. CASE SyncHotJournal(c)
  <2>1. OnDisk(f)' \subseteq OnDisk(f)
    BY <1>h, <1>5 DEF SyncHotJournal, OnDisk, Types, Rolling
  <2> QED
    BY <2>1
<1> QED
  BY <1>s, <1>1, <1>2, <1>3, <1>4, <1>5
     DEF Step, Read, EndRead, Commit, ExclusiveLock, Rollback, CheckMaster, Crash, IoError, Master,
         DelMaster, SyncDirectory, PhaseTwo, WriteDb, SyncDb, DeleteMaster,
         Restore, SyncRestored, disk

(* A master journal that a power failure may bring back.                   *)
MayReturn(o) ==
  /\ o.by \in {named[o.tid], {}} /\ o.tid \notin mj
  /\ \A f \in o.by : \A j \in OnDisk(f) : j.master = o.tid => j.firm
  /\ o.by = {} => \A f \in named[o.tid] : o.tid \notin Recovered(f)

(* What holds of a master journal that may return goes on to hold.         *)
LEMMA MayReturnStep ==
  ASSUME Types, Numbered, MastersOK, NEW c \in Conn, InPlace(c), Staged(c), Mastered(c), Rolled(c),
         Step(c), SeenBy(c), NEW o \in mjOld
  PROVE  MayReturn(o)'
<1>0. PICK t \in Txn : t = o.tid
  BY DEF Types
<1>1. ~Unused(t)
  BY <1>0 DEF Unused
<1>2. named'[t] = named[t] /\ (con[c].at = "master" => t # con[c].tid)
  BY <1>1, ListKept, MastersMoves
<1>3. t \notin mj /\ t \notin mj'
  BY <1>0, <1>2, MastersMoves DEF MastersOK, MastersMove
<1>4. con[c].at = "name" => t # con[c].tid
  BY <1>0 DEF Mastered, Filing
<1>5. o.by \subseteq File /\ named[t] \subseteq File
  BY <1>0 DEF Types
<1>6. \A f \in o.by : \A j \in OnDisk(f)' : j.master = t => j.firm
  BY <1>0, <1>4, <1>5, FirmStep DEF MastersOK
<1>7. con[c].at = "unlink" => t # con[c].tid
  BY <1>3 DEF Mastered, InPlace
<1>8. o.by = {} => \A f \in named[t] : t \notin Recovered(f)'
  BY <1>0, <1>2, <1>5, <1>7 DEF MastersOK, SeenBy, Commits
<1> QED
  BY <1>0, <1>2, <1>3, <1>6, <1>8 DEF MayReturn, MastersOK

(* The master journals are right after any step.                           *)
LEMMA MastersStep ==
  ASSUME Types, Numbered, MastersOK, \A f \in File : FileOK(f), NEW c \in Conn, InPlace(c), Staged(c),
         Mastered(c), Rolled(c), Step(c), SeenBy(c)
  PROVE  MastersOK'
<1>0. MastersMove(c) /\ MastersReturn(c)
  BY MastersMoves
<1>1. \A t \in mj' : \A f \in named'[t] : t \notin Recovered(f)'
  BY <1>0, MasterStands
<1>2. ASSUME NEW o \in mjOld', o \notin mjOld PROVE MayReturn(o)'
  <2>1. CASE DeleteMaster(c)
    <3>1. PICK t \in Txn : t = con[c].tid
      BY <2>1, Handled DEF DeleteMaster, Ending
    <3>2. o = [tid |-> t, by |-> {f \in named[t] : Names(f, t)}]
          /\ jrnl' = jrnl /\ jrnlOld' = jrnlOld
      BY <1>2, <2>1, <3>1 DEF DeleteMaster, UnlinkMaster
    <3>3. /\ named' = named /\ t \notin mj' /\ named[t] # {}
          /\ \A f \in named[t] : Names(f, t) /\ OnDisk(f)' = {jrnl[f]} /\ jrnl[f].firm
      BY <2>1, <3>1, <3>2, DeleteMasterSeen DEF Names, OnDisk
    <3>4. o.tid = t /\ o.by = named[t]
      BY <3>2, <3>3
    <3> QED
      BY <3>3, <3>4 DEF MayReturn
  <2>2. CASE DelMaster(c)
    <3>1. PICK m : m = con[c].master
      OBVIOUS
    <3>2. con[c].left = {} /\ m \in mj /\ UnlinkMaster(m) /\ con[c].at = "delmaster" /\ named' = named
      BY <1>2, <2>2, <3>1, DelMasterMoves DEF DelMaster
    <3>3. \A f \in named[m] : ~Names(f, m)
      BY <3>1, <3>2 DEF Rolled
    <3>4. o = [tid |-> m, by |-> {f \in named[m] : Names(f, m)}] /\ m \notin mj'
      BY <1>2, <3>2 DEF UnlinkMaster
    <3>5. o.tid = m /\ o.by = {}
      BY <3>3, <3>4
    <3>6. \A f \in named[m] : m \notin Recovered(f)'
      <4>1. m \in Txn /\ \A f \in named[m] : f \in File /\ m \notin Recovered(f)
        BY <3>2 DEF MastersOK, Types
      <4> QED
        BY <3>2, <4>1 DEF SeenBy, Commits
    <3> QED
      BY <3>2, <3>4, <3>5, <3>6 DEF MayReturn
  <2> QED
    BY <1>2, <2>1, <2>2
     DEF Step, Read, EndRead, Write, Commit, ExclusiveLock, Rollback, CheckMaster, Crash, IoError,
         SyncDirectory, Master, PhaseTwo, WriteMaster, SyncJournal, WriteDb, SyncDb,
         SyncHotJournal, Restore, SyncRestored, EndPlayback, disk
<1>3. \A o \in mjOld' : MayReturn(o)'
  BY <1>2, MayReturnStep
<1>4. ASSUME NEW t \in returned'
      PROVE  t \notin mj' /\ \A o \in mjOld' : o.tid # t
  <2>1. CASE t \in returned
    <3>1. ~Unused(t) /\ t \in Txn /\ t \notin mj
      BY <2>1 DEF Unused, Types, MastersOK
    <3>2. con[c].at = "master" => t # con[c].tid
      BY <1>0, <3>1, ListKept
    <3>3. con[c].at = "unlink" /\ mj' # mj => t # con[c].tid
      BY <3>1 DEF Mastered, InPlace
    <3>4. \A o \in mjOld' : o \in mjOld \/ o.tid \in mj
      <4>1. CASE DeleteMaster(c) \/ DelMaster(c)
        <5>1. DeleteMaster(c) => con[c].tid \in mj
          BY DEF DeleteMaster, Mastered, InPlace
        <5>2. DelMaster(c) => mjOld' = mjOld \/ (con[c].master \in mj /\ UnlinkMaster(con[c].master))
          BY DelMasterMoves
        <5> QED
          BY <4>1, <5>1, <5>2 DEF DeleteMaster, UnlinkMaster
      <4> QED
        BY <4>1
         DEF Step, Read, EndRead, Write, Commit, ExclusiveLock, Rollback, CheckMaster, Crash, IoError,
             SyncDirectory, Master, PhaseTwo, WriteMaster, SyncJournal, WriteDb, SyncDb,
             SyncHotJournal, Restore, SyncRestored, EndPlayback, disk
    <3> QED
      BY <1>0, <2>1, <3>1, <3>2, <3>4 DEF MastersOK, MastersMove
  <2>2. CASE t \notin returned
    <3>1. PhaseTwo(c)
      BY <1>4, <2>2
       DEF Step, Read, EndRead, Write, Commit, ExclusiveLock, Rollback, CheckMaster, Crash, IoError,
           SyncDirectory, Master, DeleteMaster, DelMaster, WriteMaster, SyncJournal, WriteDb, SyncDb,
           SyncHotJournal, Restore, SyncRestored, EndPlayback, disk
    <3>2. t = con[c].tid /\ con[c].at = "phase2" /\ mj' = mj /\ mjOld' = mjOld
      BY <1>4, <2>2, <3>1 DEF PhaseTwo
    <3> QED
      BY <3>2 DEF Mastered
  <2> QED
    BY <2>1, <2>2
<1> QED
  BY <1>1, <1>3, <1>4 DEF MastersOK, MayReturn

-----------------------------------------------------------------------------
(* A transaction stays in all of its files or in none ...                  *)
LEMMA AllOrNoneStep ==
  ASSUME Types, Types', Numbered, MastersOK, MastersOK', AllOrNone, NEW c \in Conn, InPlace(c),
         Mastered(c), SeenBy(c), MastersMove(c), \A f \in File : FileOK(f)'
  PROVE  AllOrNone'
<1>1. ASSUME NEW f \in File PROVE 0 \notin Recovered(f)'
  BY RecoveredIs DEF FileOK, OnDisk, Live, Firm
<1>2. ASSUME NEW t \in Txn, NEW f \in named'[t], NEW g \in named'[t]
      PROVE  t \in Recovered(f)' <=> t \in Recovered(g)'
  <2>0. f \in File /\ g \in File
    BY <1>2 DEF Types
  <2>1. CASE Commits(c, t)
    BY <1>2, <2>0, <2>1 DEF SeenBy
  <2>2. CASE t \in mj'
    BY <1>2, <2>2 DEF MastersOK
  <2>3. CASE ~Commits(c, t) /\ t \notin mj'
    <3>1. named'[t] = named[t]
      BY <2>3 DEF MastersMove, Types
    <3>2. t \in Recovered(f) <=> t \in Recovered(g)
      BY <1>2, <3>1 DEF AllOrNone
    <3> QED
      BY <1>2, <2>0, <2>3, <3>2 DEF SeenBy
  <2> QED
    BY <2>1, <2>2, <2>3
<1> QED
  BY <1>1, <1>2 DEF AllOrNone

(* ... and one that has returned in all of them.                           *)
LEMMA CommitStaysStep ==
  ASSUME Types, Types', Numbered, MastersOK, CommitStays, NEW c \in Conn, InPlace(c), Mastered(c),
         Step(c), SeenBy(c)
  PROVE  CommitStays'
<1>1. SUFFICES ASSUME NEW t \in returned', NEW f \in named'[t] PROVE t \in Recovered(f)'
  BY DEF CommitStays
<1>2. t \in Txn /\ f \in File
  BY <1>1 DEF Types
<1>3. MastersMove(c)
  BY MastersMoves
<1>4. f \in named[t] /\ t \in Recovered(f)
  <2>1. CASE t \in returned
    <3>1. ~Unused(t)
      BY <2>1 DEF Unused
    <3> QED
      BY <1>1, <1>2, <1>3, <2>1, <3>1, ListKept DEF CommitStays
  <2>2. CASE t \notin returned
    <3>1. PhaseTwo(c)
      BY <1>1, <2>2
       DEF Step, Read, EndRead, Write, Commit, ExclusiveLock, Rollback, CheckMaster, Crash, IoError,
           SyncDirectory, Master, DeleteMaster, DelMaster, WriteMaster, SyncJournal, WriteDb, SyncDb,
           SyncHotJournal, Restore, SyncRestored, EndPlayback, disk
    <3>2. t = con[c].tid /\ con[c].at = "phase2" /\ named' = named
      BY <1>1, <2>2, <3>1 DEF PhaseTwo
    <3> QED
      BY <1>1, <3>2 DEF Mastered
  <2> QED
    BY <2>1, <2>2
<1> QED
  BY <1>1, <1>2, <1>4 DEF SeenBy

-----------------------------------------------------------------------------
(* Everybody is gone.                                                      *)
Restarted ==
  /\ con' = [c \in Conn |-> Idle]
  /\ lock' = [c \in Conn |-> [f \in File |-> "none"]]

(* After a power failure nobody does anything.                             *)
LEMMA RestartedIdle ==
  ASSUME Restarted, Types, NEW c \in Conn
  PROVE  /\ con'[c].at = "idle" /\ con'[c].tid = 0 /\ con'[c].files = {} /\ con'[c].todo = {}
         /\ con'[c].master = 0 /\ con'[c] \in State
         /\ \A f \in File : lock'[c][f] = "none"
  BY IdleState DEF Restarted

(* What the disk has after the power has failed.                           *)
Kept(f) ==
  /\ db'[f] \in dbOld[f] \cup {db[f]} /\ jrnl'[f] \in jrnlOld[f] \cup {jrnl[f]}
  /\ dbOld'[f] = {} /\ jrnlOld'[f] = {}

(* What it leaves on the disk, if unlinks keep their order.                *)
LEMMA PowerDisk ==
  ASSUME Types, Ordered = TRUE, PowerLoss
  PROVE  /\ Restarted /\ UNCHANGED <<named, returned, ntxn>>
         /\ \A f \in File : Kept(f)
         /\ mj \subseteq mj' /\ mjOld' = {}
         /\ \A t \in mj' \ mj : \E o \in mjOld : o.tid = t /\ \A f \in o.by : Names(f, t)'
         /\ db' \in [File -> Contents] /\ dbOld' \in [File -> SUBSET Contents]
         /\ jrnl' \in [File -> Journal \cup {NoJournal}]
         /\ jrnlOld' \in [File -> SUBSET (Journal \cup {NoJournal})]
         /\ mj' \subseteq Txn
<1>1. PICK d \in [File -> UNION {dbOld[f] \cup {db[f]} : f \in File}] :
        (\A f \in File : d[f] \in dbOld[f] \cup {db[f]}) /\ db' = d
  BY DEF PowerLoss
<1>2. PICK j \in [File -> UNION {jrnlOld[f] \cup {jrnl[f]} : f \in File}] :
        (\A f \in File : j[f] \in jrnlOld[f] \cup {jrnl[f]}) /\ jrnl' = j
  BY DEF PowerLoss
<1>3. PICK back \in SUBSET mjOld :
        /\ \A o \in back : \A f \in o.by : jrnl'[f] # NoJournal /\ jrnl'[f].master = o.tid
        /\ mj' = mj \cup {o.tid : o \in back}
  BY DEF PowerLoss
<1>4. dbOld' = [f \in File |-> {}] /\ jrnlOld' = [f \in File |-> {}]
  BY DEF PowerLoss
<1>5. \A f \in File : dbOld[f] \cup {db[f]} \subseteq Contents
                      /\ jrnlOld[f] \cup {jrnl[f]} \subseteq Journal \cup {NoJournal}
  BY DEF Types
<1>6. db' \in [File -> Contents]
  BY <1>1, <1>5
<1>7. jrnl' \in [File -> Journal \cup {NoJournal}]
  BY <1>2, <1>5
<1>8. \A f \in File : Kept(f)
  BY <1>1, <1>2, <1>4 DEF Kept
<1>9. mj' \subseteq Txn
  BY <1>3 DEF Types
<1>10. \A t \in mj' \ mj : \E o \in mjOld : o.tid = t /\ \A f \in o.by : Names(f, t)'
  <2>1. ASSUME NEW t \in mj' \ mj
        PROVE  \E o \in mjOld : o.tid = t /\ \A f \in o.by : Names(f, t)'
    <3>1. PICK o \in back : o.tid = t
      BY <1>3, <2>1
    <3> QED
      BY <1>3, <3>1 DEF Names
  <2> QED
    BY <2>1
<1>11. mj \subseteq mj'
  BY <1>3
<1>12. Restarted /\ UNCHANGED <<named, returned, ntxn>> /\ mjOld' = {}
  BY DEF PowerLoss, Restarted
<1> QED
  BY <1>4, <1>6, <1>7, <1>8, <1>9, <1>10, <1>11, <1>12

-----------------------------------------------------------------------------
(* A file with a journal to be used is recovered the same.                 *)
LEMMA PowerLive ==
  ASSUME NEW f \in File, FileOK(f), Kept(f), mj \subseteq mj', Live(f)
  PROVE  jrnl'[f] = jrnl[f] /\ Live(f)' /\ Recovered(f)' = Recovered(f)
<1>1. jrnl'[f] = jrnl[f]
  BY DEF FileOK, Kept, Live
<1>2. Live(f)'
  BY <1>1 DEF Live, Firm
<1> QED
  BY <1>1, <1>2, RecoveredIs

(* Any other has its content, and what may return of its journal agrees    *)
(* with it.                                                                *)
LEMMA PowerDead ==
  ASSUME NEW f \in File, FileOK(f), Kept(f), ~Live(f)
  PROVE  /\ db'[f] = db[f] /\ Recovered(f) = db[f] /\ OnDisk(f)' \subseteq OnDisk(f)
         /\ Live(f)' => Recovered(f)' = jrnl'[f].orig /\ jrnl'[f] \in OnDisk(f)
                        /\ SameBut(f, jrnl'[f].orig, db[f], jrnl'[f].master)
         /\ ~Live(f)' => Recovered(f)' = db[f]
<1>1. db'[f] = db[f] /\ OnDisk(f)' \subseteq OnDisk(f)
  BY DEF FileOK, Kept, OnDisk
<1>2. ASSUME Live(f)'
      PROVE  jrnl'[f] \in OnDisk(f) /\ SameBut(f, jrnl'[f].orig, db[f], jrnl'[f].master)
  <2>1. jrnl'[f] \in OnDisk(f) /\ jrnl'[f].firm
    BY <1>2 DEF Kept, OnDisk, Live, Firm
  <2> QED
    BY <2>1 DEF FileOK
<1> QED
  BY <1>1, <1>2, RecoveredIs

(* So the files are right after a power failure.                           *)
LEMMA PowerFiles ==
  ASSUME NEW f \in File, FileOK(f), Kept(f), mj \subseteq mj', named' = named
  PROVE  FileOK(f)'
<1>1. CASE Live(f)
  <2>1. jrnl'[f] = jrnl[f] /\ Live(f)'
    BY <1>1, PowerLive
  <2>2. OnDisk(f)' = {jrnl[f]} /\ OnDisk(f) = {jrnl[f]}
    BY <1>1, <2>1 DEF OnDisk, Kept, FileOK, Live, Firm
  <2> QED
    BY <2>1, <2>2 DEF FileOK, Kept
<1>2. CASE ~Live(f)
  <2>1. db'[f] = db[f] /\ OnDisk(f)' \subseteq OnDisk(f) /\ OnDisk(f)' \subseteq {jrnl'[f]}
    BY <1>2, PowerDead DEF Kept, OnDisk
  <2>2. \A j \in OnDisk(f)' : j.firm => SameBut(f, j.orig, db[f], j.master)
    BY <1>2, <2>1 DEF FileOK
  <2>3. 0 \notin db'[f] /\ dbOld'[f] = {} /\ jrnlOld'[f] = {}
    BY <1>2, <2>1 DEF FileOK, Kept
  <2>4. \A j \in OnDisk(f)' : j.firm => SameBut(f, j.orig, db[f], j.master)'
    BY <2>1, <2>2 DEF SameBut
  <2> QED
    BY <2>1, <2>3, <2>4 DEF FileOK
<1> QED
  BY <1>1, <1>2

(* Only a transaction whose master journal has come back looks different.  *)
LEMMA PowerSeen ==
  ASSUME Types, MastersOK, NEW f \in File, FileOK(f), Kept(f), mj \subseteq mj', named' = named,
         NEW t \in Txn, f \in named[t], t \in mj \/ t \notin mj'
  PROVE  t \in Recovered(f)' <=> t \in Recovered(f)
<1>1. CASE Live(f)
  BY <1>1, PowerLive
<1>2. CASE ~Live(f) /\ ~Live(f)'
  BY <1>2, PowerDead
<1>3. CASE ~Live(f) /\ Live(f)'
  <2> DEFINE j == jrnl'[f]
  <2>1. Recovered(f)' = j.orig /\ Recovered(f) = db[f] /\ j \in OnDisk(f)
        /\ SameBut(f, j.orig, db[f], j.master)
    BY <1>3, PowerDead
  <2>2. CASE t # j.master
    BY <2>1, <2>2 DEF SameBut
  <2>3. CASE t = j.master
    <3>1. t \in mj' /\ t # 0
      BY <1>3, <2>3 DEF Live, Txn
    <3>2. t \notin Recovered(f)
      BY <3>1 DEF MastersOK
    <3>3. t \notin j.orig
      BY <2>1, <2>3, <3>1 DEF FileOK
    <3> QED
      BY <2>1, <3>2, <3>3
  <2> QED
    BY <2>2, <2>3
<1> QED
  BY <1>1, <1>2, <1>3

(* A master journal that comes back finds its transaction undone.          *)
LEMMA PowerMasters ==
  ASSUME Types, MastersOK, \A f \in File : FileOK(f) /\ Kept(f), mj \subseteq mj', named' = named,
         \A t \in mj' \ mj : \E o \in mjOld : o.tid = t /\ \A f \in o.by : Names(f, t)',
         mj' \subseteq Txn, NEW t \in mj', NEW f \in named[t]
  PROVE  t \notin Recovered(f)'
<1>0. t \in Txn /\ t # 0 /\ f \in File
  BY DEF Types, Txn
<1>1. CASE t \in mj
  BY <1>0, <1>1, PowerSeen DEF MastersOK
<1>2. CASE t \notin mj
  <2>1. PICK o \in mjOld : o.tid = t /\ \A g \in o.by : Names(g, t)'
    BY <1>2
  <2>2. CASE o.by = {}
    <3>1. t \notin Recovered(f)
      BY <2>1, <2>2 DEF MastersOK
    <3>2. CASE Live(f)
      BY <1>0, <3>1, <3>2, PowerLive
    <3>3. CASE ~Live(f) /\ ~Live(f)'
      BY <1>0, <3>1, <3>3, PowerDead
    <3>4. CASE ~Live(f) /\ Live(f)'
      <4> DEFINE j == jrnl'[f]
      <4>1. Recovered(f)' = j.orig /\ Recovered(f) = db[f] /\ j \in OnDisk(f)
            /\ SameBut(f, j.orig, db[f], j.master)
        BY <1>0, <3>4, PowerDead
      <4>2. t = j.master => t \notin j.orig
        BY <1>0, <4>1 DEF FileOK
      <4> QED
        BY <1>0, <3>1, <4>1, <4>2 DEF SameBut
    <3> QED
      BY <3>2, <3>3, <3>4
  <2>3. CASE o.by = named[t]
    <3> DEFINE j == jrnl'[f]
    <3>1. j # NoJournal /\ j.master = t
      BY <2>1, <2>3 DEF Names
    <3>2. j \in OnDisk(f)
      BY <1>0, <3>1 DEF Kept, OnDisk
    <3>3. j.firm /\ t \notin j.orig
      BY <1>0, <2>1, <2>3, <3>1, <3>2 DEF MastersOK, FileOK
    <3>4. Live(f)'
      BY <3>1, <3>3 DEF Live, Firm
    <3> QED
      BY <1>0, <3>3, <3>4, RecoveredIs
  <2> QED
    BY <2>1, <2>2, <2>3 DEF MastersOK
<1> QED
  BY <1>1, <1>2

-----------------------------------------------------------------------------
(* The invariant is kept by a power failure, ...                           *)
LEMMA PowerLossStep ==
  ASSUME Ordered = TRUE, Inv, PowerLoss
  PROVE  Inv'
<1> USE DEF Inv
<1>1. /\ Restarted /\ UNCHANGED <<named, returned, ntxn>>
      /\ \A f \in File : Kept(f)
      /\ mj \subseteq mj' /\ mjOld' = {} /\ mj' \subseteq Txn
      /\ \A t \in mj' \ mj : \E o \in mjOld : o.tid = t /\ \A f \in o.by : Names(f, t)'
  BY PowerDisk
<1>2. Types'
  BY <1>1, PowerDisk, IdleState DEF Types, Restarted, Level
<1>3. \A c \in Conn : /\ con'[c].at = "idle" /\ con'[c].tid = 0 /\ con'[c].files = {}
                      /\ con'[c].todo = {} /\ con'[c].master = 0
                      /\ \A f \in File : lock'[c][f] = "none"
  BY <1>1, RestartedIdle
<1>4. LocksOK' /\ NothingHot'
  <2>1. \A c \in Conn, f \in File : f \notin Own(c)'
    BY <1>3 DEF Own, Rolling
  <2> QED
    BY <1>3, <2>1 DEF LocksOK, NothingHot, Filing, Ending
<1>5. \A c \in Conn : InPlace(c)' /\ Staged(c)' /\ Mastered(c)' /\ Rolled(c)'
  <2>0. ntxn' \in Nat
    BY <1>2, MultiAssumption DEF Types
  <2>1. \A c \in Conn : InPlace(c)'
    BY <1>3, <2>0 DEF InPlace, Rolling, Filing, Ending
  <2>2. \A c \in Conn : Staged(c)' /\ Mastered(c)' /\ Rolled(c)'
    BY <1>3 DEF Staged, Mastered, Rolled, Growing, Rolling, Filing, Ending
  <2> QED
    BY <2>1, <2>2
<1>6. \A f \in File : FileOK(f)'
  BY <1>1, PowerFiles
<1>7. \A t \in mj' : \A f \in named'[t] : t \notin Recovered(f)'
  BY <1>1, PowerMasters
<1>8. \A f \in File, t \in Txn : f \in named[t] /\ t \notin mj' =>
        (t \in Recovered(f)' <=> t \in Recovered(f))
  BY <1>1, PowerSeen
<1>9. \A t \in returned : t \notin mj'
  BY <1>1 DEF MastersOK
<1>10. MastersOK'
  BY <1>1, <1>7, <1>9 DEF MastersOK
<1>11. Numbered'
  <2>1. ASSUME NEW t \in Txn, t > ntxn PROVE Unused(t)'
    <3>1. Unused(t) /\ t # 0
      BY <2>1 DEF Numbered, Txn
    <3>2. \A f \in File : /\ db'[f] \in dbOld[f] \cup {db[f]} /\ dbOld'[f] = {}
                          /\ OnDisk(f)' \subseteq OnDisk(f)
      BY <1>1 DEF Kept, OnDisk
    <3> QED
      BY <1>1, <1>3, <3>1, <3>2 DEF Unused
  <2> QED
    BY <1>1, <1>3, <2>1 DEF Numbered, Txn
<1>12. AllOrNone'
  <2>1. \A f \in File : 0 \notin Recovered(f)'
    BY <1>6, RecoveredIs DEF FileOK, OnDisk, Live, Firm
  <2>2. ASSUME NEW t \in Txn, NEW f \in named'[t], NEW g \in named'[t]
        PROVE  t \in Recovered(f)' <=> t \in Recovered(g)'
    <3>0. f \in File /\ g \in File /\ f \in named[t] /\ g \in named[t]
      BY <1>1, <2>2 DEF Types
    <3>1. CASE t \in mj'
      BY <1>7, <2>2, <3>1
    <3>2. CASE t \notin mj'
      BY <1>8, <3>0, <3>2 DEF AllOrNone
    <3> QED
      BY <3>1, <3>2
  <2> QED
    BY <2>1, <2>2 DEF AllOrNone
<1>13. CommitStays'
  <2>1. ASSUME NEW t \in returned, NEW f \in named[t] PROVE t \in Recovered(f)'
    <3>1. t \in Txn /\ f \in File /\ t \in Recovered(f) /\ t \notin mj'
      BY <1>9, <2>1 DEF Types, CommitStays
    <3> QED
      BY <1>8, <2>1, <3>1
  <2> QED
    BY <1>1, <2>1 DEF CommitStays
<1> HIDE DEF Inv
<1> QED
  BY <1>2, <1>4, <1>5, <1>6, <1>10, <1>11, <1>12, <1>13 DEF Inv

-----------------------------------------------------------------------------
(* ... holds at first, ...                                                 *)
LEMMA InitInv ==
  ASSUME Init PROVE Inv
<1> USE DEF Init
<1>1. \A c \in Conn : con[c] = Idle /\ con[c].at = "idle" /\ con[c].tid = 0 /\ con[c].files = {}
                      /\ con[c].todo = {} /\ con[c].master = 0
  BY IdleState
<1>2. Types
  BY IdleState, MultiAssumption DEF Types, Level, Contents
<1>3. LocksOK /\ NothingHot
  <2>1. \A c \in Conn, f \in File : f \notin Own(c)
    BY <1>1 DEF Own, Rolling
  <2> QED
    BY <1>1, <2>1 DEF LocksOK, NothingHot, Filing, Ending
<1>4. \A f \in File : OnDisk(f) = {} /\ ~Firm(f) /\ ~Live(f) /\ Recovered(f) = {}
  BY DEF OnDisk, Firm, Live, Recovered
<1>5. \A f \in File : FileOK(f)
  BY <1>4 DEF FileOK
<1>6. \A c \in Conn : InPlace(c) /\ Staged(c) /\ Mastered(c) /\ Rolled(c)
  <2>1. \A c \in Conn : InPlace(c)
    BY <1>1 DEF InPlace, Rolling, Filing, Ending
  <2>2. \A c \in Conn : Staged(c) /\ Mastered(c) /\ Rolled(c)
    BY <1>1 DEF Staged, Mastered, Rolled, Growing, Rolling, Filing, Ending
  <2> QED
    BY <2>1, <2>2
<1>7. Numbered
  <2>1. \A t \in Txn : Unused(t)
    BY <1>1, <1>4 DEF Unused, Txn
  <2> QED
    BY <1>1, <2>1 DEF Numbered
<1>8. MastersOK /\ AllOrNone /\ CommitStays
  BY <1>4 DEF MastersOK, AllOrNone, CommitStays
<1> QED
  BY <1>2, <1>3, <1>5, <1>6, <1>7, <1>8 DEF Inv

(* ... is kept by any step of a connection, ...                            *)
LEMMA StepInv ==
  ASSUME Inv, NEW c \in Conn, Step(c)
  PROVE  Inv'
<1> USE DEF Inv
<1>1. Types'
  BY TypesStep
<1>2. InPlace(c)'
  BY PlacedStep
<1>3. LocksOK'
  BY <1>1, <1>2, LocksStep
<1>4. (\A f \in File : FileOK(f)') /\ (~DeleteMaster(c) => \A f \in File : SeenSame(f)) /\ Touch(c)
  BY FilesStep
<1>5. NothingHot'
  BY NothingHotStep
<1>6. Numbered'
  BY <1>1, NumberedStep
<1>7. MastersMove(c) /\ MastersReturn(c) /\ Moves(c)
  BY MastersMoves, MovesTyped
<1>8. SeenBy(c)
  BY <1>4, SeenStep
<1>9. Staged(c)' /\ Mastered(c)' /\ Rolled(c)'
  BY <1>1, <1>8, OwnStaged, OwnMastered, OwnRolled
<1>10. ASSUME NEW d \in Conn \ {c}
       PROVE  InPlace(d)' /\ Staged(d)' /\ Mastered(d)' /\ Rolled(d)'
  BY <1>4, <1>7, <1>8, OthersPlaced, OthersStaged, OthersMastered, OthersRolled
<1>11. MastersOK'
  BY <1>8, MastersStep
<1>12. AllOrNone' /\ CommitStays'
  BY <1>1, <1>4, <1>7, <1>8, <1>11, AllOrNoneStep, CommitStaysStep
<1> HIDE DEF Inv
<1> QED
  BY <1>1, <1>2, <1>3, <1>4, <1>5, <1>6, <1>9, <1>10, <1>11, <1>12 DEF Inv

(* ... and by none at all.                                                 *)
LEMMA StutterInv ==
  ASSUME Inv, UNCHANGED vars
  PROVE  Inv'
<1> USE DEF vars, disk
<1>1. Types' /\ LocksOK' /\ NothingHot'
  BY DEF Inv, Types, LocksOK, NothingHot, Own, Firm
<1>2. Numbered'
  BY DEF Inv, Numbered, Unused, OnDisk
<1>3. MastersOK' /\ AllOrNone' /\ CommitStays'
  BY DEF Inv, MastersOK, AllOrNone, CommitStays, Recovered, OnDisk
<1>4. \A f \in File : FileOK(f)'
  BY DEF Inv, FileOK, Firm, Live, OnDisk, SameBut
<1>5. ASSUME NEW c \in Conn PROVE InPlace(c)' /\ Staged(c)' /\ Mastered(c)' /\ Rolled(c)'
  <2>1. InPlace(c)' /\ Mastered(c)' /\ Rolled(c)'
    BY DEF Inv, InPlace, Multi, Mastered, Recovered, Rolled, Names
  <2>2. Staged(c)'
    BY DEF Inv, Staged, Journalled, Written, Done, Firm, MasterOf, Multi, This
  <2> QED
    BY <2>1, <2>2
<1> QED
  BY <1>1, <1>2, <1>3, <1>4, <1>5 DEF Inv

(* The invariant of a commit over several files holds, if the file system  *)
(* keeps the order of unlinks: vdbeCommit, sqlite3PagerCommitPhaseOne and  *)
(* Two, pager_playback and pager_delmaster, with processes that die, power *)
(* failures and I/O errors in between.                                     *)
THEOREM MultiInvariance ==
  ASSUME Ordered = TRUE
  PROVE  Spec => []Inv
<1>1. Init => Inv
  BY InitInv
<1>2. Inv /\ [Next]_vars => Inv'
  BY StepInv, PowerLossStep, StutterInv DEF Next
<1> QED
  BY <1>1, <1>2, PTL DEF Spec

(* A transaction over several files is recovered in all of them or in      *)
(* none, and no file is left torn: the promise of the master journal.      *)
THEOREM AtomicOverFiles ==
  ASSUME Ordered = TRUE
  PROVE  Spec => []AllOrNone
<1>1. Inv => AllOrNone
  BY DEF Inv
<1> QED
  BY <1>1, MultiInvariance, PTL

(* A commit over several files that has returned is not undone by whatever *)
(* follows.                                                                *)
THEOREM CommitIsFinal ==
  ASSUME Ordered = TRUE
  PROVE  Spec => []CommitStays
<1>1. Inv => CommitStays
  BY DEF Inv
<1> QED
  BY <1>1, MultiInvariance, PTL

(* A connection reads no file that has yet to be rolled back, and of a     *)
(* transaction over two files that it reads both parts or neither.         *)
THEOREM ReadersSeeWhole ==
  ASSUME Ordered = TRUE
  PROVE  Spec => []ReadTogether
<1>1. ASSUME Inv PROVE ReadTogether
  <2>1. SUFFICES ASSUME NEW c \in Conn, NEW reads \in SUBSET File,
                        \A f \in reads : lock[c][f] = "shared"
                 PROVE  /\ \A f \in reads : db[f] = Recovered(f)
                        /\ \A t \in Txn : \A f, g \in reads \cap named[t] :
                             t \in db[f] <=> t \in db[g]
    BY DEF ReadTogether
  <2>2. \A f \in reads : db[f] = Recovered(f)
    BY <1>1, <2>1 DEF Inv, NothingHot, Firm, Recovered
  <2> QED
    BY <1>1, <2>2 DEF Inv, AllOrNone
<1> QED
  BY <1>1, MultiInvariance, PTL

=============================================================================
