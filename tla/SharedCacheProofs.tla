-------------------------- MODULE SharedCacheProofs --------------------------
(***************************************************************************)
(* Proofs about BtMutex and SharedCache, for any number of connections,    *)
(* files, tables and BtShared.  BtMutex: threads that open a file at the   *)
(* same time share one BtShared, and no set of threads waits for one       *)
(* another's mutexes.  SharedCache: its steps are steps of BtMutex, so the *)
(* same holds of it, and transactions keep out of one another's way.       *)
(***************************************************************************)
EXTENDS SharedCache, FiniteSetTheorems, WellFoundedInduction, TLAPS

(* No function that a statement calls attaches a file.                     *)
Assumed == ~AttachInCallback

Place ==
  [step : {"idle", "wait", "relock", "open", "find", "create", "link",
           "schema", "close", "unref"},
   addr : 0 .. NShared, file : File \cup {NoFile}, todo : SUBSET Addr,
   then : {"idle", "schema", "close"}]

MutexTypeOK ==
  /\ openMutex \in Conn \cup {NoConn}
  /\ cache \in [Addr -> File \cup {NoFile}]
  /\ nRef \in [Addr -> Int]
  /\ mutex \in [Addr -> Conn \cup {NoConn}]
  /\ handle \in [Conn -> SUBSET Addr]
  /\ wantToLock \in [Conn -> [Addr -> Nat]]
  /\ locked \in [Conn -> SUBSET Addr]
  /\ at \in [Conn -> Place]

Users(a) == {c \in Conn : a \in handle[c]}

(* The steps at which a connection holds MUTEX_STATIC_OPEN.                *)
Opening(c) ==
  \/ at[c].step \in {"find", "create", "link", "schema"}
  \/ at[c].step \in {"wait", "relock"} /\ at[c].then = "schema"

(* The list of BtShared: counted references, one for a file, and a file    *)
(* that is about to be added is not on it.                                 *)
ListInv ==
  /\ \A a \in Addr : nRef[a] = Cardinality(Users(a))
  /\ \A c \in Conn : \A a \in handle[c] : cache[a] # NoFile
  /\ \A a, b \in Addr : cache[a] = cache[b] /\ cache[a] # NoFile => a = b
  /\ \A c \in Conn : Opening(c) <=> openMutex = c
  /\ \A c \in Conn :
       at[c].step \in {"open", "find", "create"} => at[c].file \in File
  /\ \A c \in Conn :
       at[c].step = "create" => \A a \in Addr : cache[a] # at[c].file
  /\ \A c \in Conn :
       at[c].step \in {"wait", "relock", "link", "schema", "close", "unref"}
         => at[c].addr \in handle[c]

(* The mutexes of a connection: one that waits holds smaller ones only,    *)
(* and what it has let go of is what it takes again.                       *)
Holding(c) ==
  /\ \A a \in Addr : a \in locked[c] <=> mutex[a] = c
  /\ \A a \in Addr : wantToLock[c][a] > 0 => a \in handle[c]
  /\ \A a \in locked[c] : wantToLock[c][a] > 0
  /\ at[c].step \notin {"wait", "relock"} =>
       \A a \in Addr : wantToLock[c][a] > 0 => a \in locked[c]
  /\ at[c].step \in {"open", "find", "create", "link"} =>
       \A a \in Addr : wantToLock[c][a] = 0
  /\ at[c].step = "wait" =>
       /\ wantToLock[c][at[c].addr] > 0
       /\ \A a \in locked[c] : a < at[c].addr
       /\ \A a \in Addr : wantToLock[c][a] > 0 => a \in locked[c] \/ a >= at[c].addr
       /\ at[c].then # "idle" => wantToLock[c][at[c].addr] = 1
  /\ at[c].step = "relock" =>
       /\ at[c].todo # {}
       /\ at[c].addr \in locked[c]
       /\ \A a \in at[c].todo : wantToLock[c][a] > 0
       /\ \A a \in locked[c], b \in at[c].todo : a < b
       /\ \A a \in Addr : wantToLock[c][a] > 0 => a \in locked[c] \/ a \in at[c].todo
       /\ at[c].then # "idle" => wantToLock[c][at[c].addr] = 1
  /\ at[c].step \in {"schema", "close"} =>
       at[c].addr \in locked[c] /\ wantToLock[c][at[c].addr] = 1
  /\ at[c].step = "unref" => wantToLock[c][at[c].addr] = 0

LockInv == \A c \in Conn : Holding(c)

BtMutexInv == MutexTypeOK /\ ListInv /\ LockInv

-----------------------------------------------------------------------------
(* What holds of the constants.                                            *)
LEMMA Constants ==
  /\ NoConn \notin Conn /\ NoFile \notin File /\ IsFiniteSet(Conn)
  /\ NShared \in Nat /\ MaxWant \in Nat
BY BtMutexAssumption

(* A bounded set of natural numbers has a least and a greatest element: as *)
(* sets of numbers ordered by strict inclusion are well-founded.           *)
LEMMA Least ==
  ASSUME NEW n \in Nat, NEW S \in SUBSET (0 .. n), S # {}
  PROVE  \E x \in S : \A y \in S : x <= y
<1> DEFINE R == StrictSubsetOrdering(0 .. n)
           T == {0 .. x : x \in S}
<1>1. IsWellFoundedOn(R, SUBSET (0 .. n))
  <2>1. IsFiniteSet(0 .. n)
    BY FS_Interval
  <2> QED
    BY <2>1, FS_FiniteSubsetsOfFinite, FS_StrictSubsetOrderingWellFounded
<1>2. T \subseteq SUBSET (0 .. n) /\ T # {}
  <2>1. \A x \in S : 0 .. x \in SUBSET (0 .. n) /\ 0 .. x \in T
    OBVIOUS
  <2> QED
    BY <2>1
<1>3. \E t \in T : \A u \in T : ~(<<u, t>> \in R)
  <2> HIDE DEF R, T
  <2> QED
    BY <1>1, <1>2, WFMin
<1>4. PICK x \in S : \A u \in T : ~(<<u, 0 .. x>> \in R)
  BY <1>3
<1>5. ASSUME NEW y \in S, y < x PROVE FALSE
  <2>1. <<0 .. y, 0 .. x>> \notin R
    BY <1>4
  <2>2. 0 .. y \subseteq 0 .. x /\ x \in 0 .. x /\ x \notin 0 .. y
    BY <1>5
  <2>3. 0 .. y \in SUBSET (0 .. n) /\ 0 .. x \in SUBSET (0 .. n)
    OBVIOUS
  <2> QED
    BY <2>1, <2>2, <2>3 DEF StrictSubsetOrdering
<1> QED
  BY <1>5

LEMMA Greatest ==
  ASSUME NEW n \in Nat, NEW S \in SUBSET (0 .. n), S # {}
  PROVE  \E x \in S : \A y \in S : y <= x
<1> DEFINE T == {n - x : x \in S}
<1>1. T \in SUBSET (0 .. n) /\ T # {}
  <2>1. \A x \in S : n - x \in 0 .. n /\ n - x \in T
    OBVIOUS
  <2> QED
    BY <2>1
<1>2. \E t \in T : \A y \in T : t <= y
  <2> HIDE DEF T
  <2> QED
    BY <1>1, Least
<1>3. PICK x \in S : \A y \in T : n - x <= y
  BY <1>2
<1>4. ASSUME NEW y \in S PROVE y <= x
  <2>1. n - x <= n - y
    BY <1>3
  <2> QED
    BY <2>1
<1> QED
  BY <1>4

-----------------------------------------------------------------------------
LEMMA Initially == BtMutexInit => BtMutexInv
<1> SUFFICES ASSUME BtMutexInit PROVE BtMutexInv
  OBVIOUS
<1>1. MutexTypeOK
  BY Constants DEF BtMutexInit, MutexTypeOK, Idle, Place, Addr
<1>2. ListInv
  <2>1. \A a \in Addr : Users(a) = {}
    BY DEF BtMutexInit, Users
  <2>2. Cardinality({}) = 0
    BY FS_EmptySet
  <2> QED
    BY <2>1, <2>2, Constants DEF BtMutexInit, ListInv, Opening, Idle, Addr
<1>3. LockInv
  BY Constants DEF BtMutexInit, LockInv, Holding, Idle, Addr
<1> QED
  BY <1>1, <1>2, <1>3 DEF BtMutexInv

(* Where a connection can be.                                              *)
LEMMA Places ==
  /\ Idle \in Place
  /\ \A a \in Addr, then \in {"idle", "schema", "close"} :
       /\ Entered(a, then) \in Place
       /\ [Idle EXCEPT !.step = "wait", !.addr = a, !.then = then] \in Place
  /\ \A a \in Addr : [Idle EXCEPT !.step = "link", !.addr = a] \in Place
  /\ \A f \in File : [Idle EXCEPT !.step = "open", !.file = f] \in Place
  /\ \A p \in Place, s \in {"find", "create", "unref"} : [p EXCEPT !.step = s] \in Place
  /\ \A p \in Place, T \in SUBSET Addr :
       /\ [p EXCEPT !.step = "relock", !.todo = T] \in Place
       /\ [p EXCEPT !.todo = T] \in Place
  /\ \A p \in Place : p.todo \in SUBSET Addr /\ p.then \in {"idle", "schema", "close"}
<1>1. Idle \in Place
  BY Constants DEF Idle, Place
<1>2. \A a \in Addr : a \in 0 .. NShared
  BY Constants DEF Addr
<1>3. ASSUME NEW a \in Addr, NEW then \in {"idle", "schema", "close"}
      PROVE  /\ Entered(a, then) \in Place
             /\ [Idle EXCEPT !.step = "wait", !.addr = a, !.then = then] \in Place
             /\ [Idle EXCEPT !.step = "link", !.addr = a] \in Place
  BY <1>1, <1>2 DEF Entered, Place
<1>4. \A f \in File : [Idle EXCEPT !.step = "open", !.file = f] \in Place
  BY <1>1 DEF Place
<1>5. \A p \in Place, s \in {"find", "create", "unref"} : [p EXCEPT !.step = s] \in Place
  BY DEF Place
<1>6. ASSUME NEW p \in Place, NEW T \in SUBSET Addr
      PROVE  /\ [p EXCEPT !.step = "relock", !.todo = T] \in Place
             /\ [p EXCEPT !.todo = T] \in Place
  BY DEF Place
<1>7. \A p \in Place : p.todo \in SUBSET Addr /\ p.then \in {"idle", "schema", "close"}
  BY DEF Place
<1> QED
  BY <1>1, <1>3, <1>4, <1>5, <1>6, <1>7

(* The types are kept, by sqlite3BtreeEnter ...                            *)
LEMMA EnterType ==
  ASSUME MutexTypeOK, NEW c \in Conn, NEW a \in Addr,
         NEW then \in {"idle", "schema", "close"}, EnterThen(c, a, then)
  PROVE  /\ mutex' \in [Addr -> Conn \cup {NoConn}]
         /\ locked' \in [Conn -> SUBSET Addr]
         /\ wantToLock' \in [Conn -> [Addr -> Nat]]
         /\ at' \in [Conn -> Place]
<1>1. mutex' \in [Addr -> Conn \cup {NoConn}]
  BY DEF EnterThen, lockBtreeMutex, unlockBtreeMutexes, MutexTypeOK
<1>2. locked' \in [Conn -> SUBSET Addr]
  BY DEF EnterThen, lockBtreeMutex, unlockBtreeMutexes, Later, MutexTypeOK
<1>3. wantToLock' \in [Conn -> [Addr -> Nat]]
  BY DEF EnterThen, MutexTypeOK
<1>4. PICK e \in Place : at' = [at EXCEPT ![c] = e]
  <2>1. \/ at' = [at EXCEPT ![c] = Entered(a, then)]
        \/ at' = [at EXCEPT ![c] = [Idle EXCEPT !.step = "wait", !.addr = a, !.then = then]]
    BY DEF EnterThen
  <2>2. /\ Entered(a, then) \in Place
        /\ [Idle EXCEPT !.step = "wait", !.addr = a, !.then = then] \in Place
    BY Places
  <2> QED
    BY <2>1, <2>2
<1> QED
  BY <1>1, <1>2, <1>3, <1>4 DEF MutexTypeOK

(* ... and by every other step.                                            *)
LEMMA TypeStep ==
  ASSUME BtMutexInv, NEW c \in Conn, MutexStep(c) \/ Closing(c)
  PROVE  MutexTypeOK'
<1> USE DEF lockBtreeMutex, unlockBtreeMutexes, Later, list
<1>0. MutexTypeOK /\ ListInv
  BY DEF BtMutexInv
<1>a. at[c] \in Place /\ at[c].todo \in SUBSET Addr /\ at[c].then \in {"idle", "schema", "close"}
  BY <1>0, Places DEF MutexTypeOK
<1>b. at[c].step \in {"wait", "relock", "link", "schema", "close", "unref"} => at[c].addr \in Addr
  BY <1>0 DEF ListInv, MutexTypeOK
<1>c. ASSUME NEW e \in Place, at' = [at EXCEPT ![c] = e] PROVE at' \in [Conn -> Place]
  BY <1>0, <1>c DEF MutexTypeOK
<1>1. CASE Obtain(c)
  <2>1. at' \in [Conn -> Place]
    BY <1>0, <1>a, <1>b, <1>1, Places DEF Obtain, MutexTypeOK
  <2>2. mutex' \in [Addr -> Conn \cup {NoConn}]
    BY <1>0, <1>a, <1>b, <1>1 DEF Obtain, MutexTypeOK
  <2>3. locked' \in [Conn -> SUBSET Addr]
    BY <1>0, <1>a, <1>b, <1>1 DEF Obtain, MutexTypeOK
  <2>4. /\ wantToLock' \in [Conn -> [Addr -> Nat]]
        /\ openMutex' \in Conn \cup {NoConn}
        /\ cache' \in [Addr -> File \cup {NoFile}]
        /\ nRef' \in [Addr -> Int]
        /\ handle' \in [Conn -> SUBSET Addr]
    BY <1>0, <1>a, <1>b, <1>1 DEF Obtain, MutexTypeOK
  <2> QED
    BY <2>1, <2>2, <2>3, <2>4 DEF MutexTypeOK
<1>2. CASE Relock(c)
  <2>1. at' \in [Conn -> Place]
    <3>1. PICK b \in at[c].todo :
            at' = [at EXCEPT ![c] = IF at[c].todo = {b} THEN Entered(at[c].addr, at[c].then)
                                    ELSE [at[c] EXCEPT !.todo = at[c].todo \ {b}]]
      BY <1>2 DEF Relock
    <3>2. Entered(at[c].addr, at[c].then) \in Place
      BY <1>2, <1>a, <1>b, Places DEF Relock
    <3>3. [at[c] EXCEPT !.todo = at[c].todo \ {b}] \in Place
      BY <1>a, Places
    <3> QED
      BY <3>1, <3>2, <3>3, <1>c
  <2>2. mutex' \in [Addr -> Conn \cup {NoConn}]
    BY <1>0, <1>a, <1>b, <1>2 DEF Relock, MutexTypeOK
  <2>3. locked' \in [Conn -> SUBSET Addr]
    BY <1>0, <1>a, <1>b, <1>2 DEF Relock, MutexTypeOK
  <2>4. /\ wantToLock' \in [Conn -> [Addr -> Nat]]
        /\ openMutex' \in Conn \cup {NoConn}
        /\ cache' \in [Addr -> File \cup {NoFile}]
        /\ nRef' \in [Addr -> Int]
        /\ handle' \in [Conn -> SUBSET Addr]
    BY <1>0, <1>a, <1>b, <1>2 DEF Relock, MutexTypeOK
  <2> QED
    BY <2>1, <2>2, <2>3, <2>4 DEF MutexTypeOK
<1>3. ASSUME NEW a \in Addr, Enter(c, a) PROVE MutexTypeOK'
  <2>1. /\ mutex' \in [Addr -> Conn \cup {NoConn}]
        /\ locked' \in [Conn -> SUBSET Addr]
        /\ wantToLock' \in [Conn -> [Addr -> Nat]]
        /\ at' \in [Conn -> Place]
    BY <1>0, <1>3, EnterType DEF Enter
  <2>2. /\ openMutex' \in Conn \cup {NoConn}
        /\ cache' \in [Addr -> File \cup {NoFile}]
        /\ nRef' \in [Addr -> Int]
        /\ handle' \in [Conn -> SUBSET Addr]
    BY <1>0, <1>3 DEF Enter, MutexTypeOK
  <2> QED
    BY <2>1, <2>2 DEF MutexTypeOK
<1>4. ASSUME NEW a \in Addr, Leave(c, a) PROVE MutexTypeOK'
  <2>1. mutex' \in [Addr -> Conn \cup {NoConn}]
    BY <1>0, <1>4 DEF Leave, MutexTypeOK
  <2>2. locked' \in [Conn -> SUBSET Addr]
    BY <1>0, <1>4 DEF Leave, MutexTypeOK
  <2>3. wantToLock' \in [Conn -> [Addr -> Nat]]
    BY <1>0, <1>4 DEF Leave, MutexTypeOK
  <2>4. /\ openMutex' \in Conn \cup {NoConn}
        /\ cache' \in [Addr -> File \cup {NoFile}]
        /\ nRef' \in [Addr -> Int]
        /\ handle' \in [Conn -> SUBSET Addr]
        /\ at' \in [Conn -> Place]
    BY <1>0, <1>4 DEF Leave, MutexTypeOK
  <2> QED
    BY <2>1, <2>2, <2>3, <2>4 DEF MutexTypeOK
<1>5. ASSUME NEW a \in Addr, Close(c, a) PROVE MutexTypeOK'
  <2>1. /\ mutex' \in [Addr -> Conn \cup {NoConn}]
        /\ locked' \in [Conn -> SUBSET Addr]
        /\ wantToLock' \in [Conn -> [Addr -> Nat]]
        /\ at' \in [Conn -> Place]
    BY <1>0, <1>5, EnterType DEF Close
  <2>2. /\ openMutex' \in Conn \cup {NoConn}
        /\ cache' \in [Addr -> File \cup {NoFile}]
        /\ nRef' \in [Addr -> Int]
        /\ handle' \in [Conn -> SUBSET Addr]
    BY <1>0, <1>5 DEF Close, MutexTypeOK
  <2> QED
    BY <2>1, <2>2 DEF MutexTypeOK
<1>6. ASSUME NEW f \in File, Open(c, f) PROVE MutexTypeOK'
  <2>1. at' \in [Conn -> Place]
    BY <1>0, <1>6, Places DEF Open, MutexTypeOK
  <2>2. /\ openMutex' \in Conn \cup {NoConn}
        /\ cache' \in [Addr -> File \cup {NoFile}]
        /\ nRef' \in [Addr -> Int]
        /\ mutex' \in [Addr -> Conn \cup {NoConn}]
        /\ handle' \in [Conn -> SUBSET Addr]
        /\ wantToLock' \in [Conn -> [Addr -> Nat]]
        /\ locked' \in [Conn -> SUBSET Addr]
    BY <1>0, <1>6 DEF Open, MutexTypeOK
  <2> QED
    BY <2>1, <2>2 DEF MutexTypeOK
<1>7. CASE OpenMutex(c)
  <2>1. at' \in [Conn -> Place]
    BY <1>0, <1>a, <1>7, Places DEF OpenMutex, MutexTypeOK
  <2>2. /\ openMutex' \in Conn \cup {NoConn}
        /\ cache' \in [Addr -> File \cup {NoFile}]
        /\ nRef' \in [Addr -> Int]
        /\ mutex' \in [Addr -> Conn \cup {NoConn}]
        /\ handle' \in [Conn -> SUBSET Addr]
        /\ wantToLock' \in [Conn -> [Addr -> Nat]]
        /\ locked' \in [Conn -> SUBSET Addr]
    BY <1>0, <1>a, <1>7 DEF OpenMutex, MutexTypeOK
  <2> QED
    BY <2>1, <2>2 DEF MutexTypeOK
<1>8. CASE Find(c)
  <2>1. at' \in [Conn -> Place]
    <3>1. PICK a \in Addr \cup {0} :
            \/ at' = [at EXCEPT ![c] = Idle]
            \/ a \in Addr /\ at' = [at EXCEPT ![c] = [Idle EXCEPT !.step = "link", !.addr = a]]
            \/ at' = [at EXCEPT ![c] = [at[c] EXCEPT !.step = "create"]]
      BY <1>8 DEF Find
    <3>2. /\ Idle \in Place
          /\ a \in Addr => [Idle EXCEPT !.step = "link", !.addr = a] \in Place
          /\ [at[c] EXCEPT !.step = "create"] \in Place
      BY <1>a, Places
    <3> QED
      BY <3>1, <3>2, <1>c
  <2>2. nRef' \in [Addr -> Int]
    <3>1. nRef' = nRef \/ \E a \in Addr : nRef' = [nRef EXCEPT ![a] = @ + 1]
      BY <1>8 DEF Find
    <3> QED
      BY <3>1, <1>0 DEF MutexTypeOK
  <2>3. handle' \in [Conn -> SUBSET Addr]
    <3>1. handle' = handle \/ \E a \in Addr : handle' = [handle EXCEPT ![c] = @ \cup {a}]
      BY <1>8 DEF Find
    <3> QED
      BY <3>1, <1>0 DEF MutexTypeOK
  <2>4. /\ openMutex' \in Conn \cup {NoConn}
        /\ cache' \in [Addr -> File \cup {NoFile}]
        /\ mutex' \in [Addr -> Conn \cup {NoConn}]
        /\ wantToLock' \in [Conn -> [Addr -> Nat]]
        /\ locked' \in [Conn -> SUBSET Addr]
    BY <1>0, <1>a, <1>8 DEF Find, MutexTypeOK
  <2> QED
    BY <2>1, <2>2, <2>3, <2>4 DEF MutexTypeOK
<1>9. CASE Create(c)
  <2>1. at' \in [Conn -> Place]
    <3>1. \/ at' = [at EXCEPT ![c] = Idle]
          \/ \E a \in Addr : at' = [at EXCEPT ![c] = [Idle EXCEPT !.step = "link", !.addr = a]]
      BY <1>9 DEF Create
    <3>2. Idle \in Place /\ \A a \in Addr : [Idle EXCEPT !.step = "link", !.addr = a] \in Place
      BY Places
    <3> QED
      BY <3>1, <3>2, <1>c
  <2>2. cache' \in [Addr -> File \cup {NoFile}]
    <3>1. at[c].file \in File
      BY <1>0, <1>9 DEF Create, ListInv
    <3>2. cache' = cache \/ \E a \in Addr : cache' = [cache EXCEPT ![a] = at[c].file]
      BY <1>9 DEF Create
    <3> QED
      BY <3>1, <3>2, <1>0 DEF MutexTypeOK
  <2>3. nRef' \in [Addr -> Int]
    <3>1. nRef' = nRef \/ \E a \in Addr : nRef' = [nRef EXCEPT ![a] = 1]
      BY <1>9 DEF Create
    <3> QED
      BY <3>1, <1>0 DEF MutexTypeOK
  <2>4. mutex' \in [Addr -> Conn \cup {NoConn}]
    <3>1. mutex' = mutex \/ \E a \in Addr : mutex' = [mutex EXCEPT ![a] = NoConn]
      BY <1>9 DEF Create
    <3> QED
      BY <3>1, <1>0 DEF MutexTypeOK
  <2>5. handle' \in [Conn -> SUBSET Addr]
    <3>1. handle' = handle \/ \E a \in Addr : handle' = [handle EXCEPT ![c] = @ \cup {a}]
      BY <1>9 DEF Create
    <3> QED
      BY <3>1, <1>0 DEF MutexTypeOK
  <2>6. /\ openMutex' \in Conn \cup {NoConn}
        /\ wantToLock' \in [Conn -> [Addr -> Nat]]
        /\ locked' \in [Conn -> SUBSET Addr]
    BY <1>0, <1>a, <1>9 DEF Create, MutexTypeOK
  <2> QED
    BY <2>1, <2>2, <2>3, <2>4, <2>5, <2>6 DEF MutexTypeOK
<1>10. CASE Link(c)
  <2>1. /\ mutex' \in [Addr -> Conn \cup {NoConn}]
        /\ locked' \in [Conn -> SUBSET Addr]
        /\ wantToLock' \in [Conn -> [Addr -> Nat]]
        /\ at' \in [Conn -> Place]
    BY <1>0, <1>10, <1>b, EnterType DEF Link
  <2>2. /\ openMutex' \in Conn \cup {NoConn}
        /\ cache' \in [Addr -> File \cup {NoFile}]
        /\ nRef' \in [Addr -> Int]
        /\ handle' \in [Conn -> SUBSET Addr]
    BY <1>0, <1>10 DEF Link, MutexTypeOK
  <2> QED
    BY <2>1, <2>2 DEF MutexTypeOK
<1>11. CASE Opened(c)
  <2>1. mutex' \in [Addr -> Conn \cup {NoConn}]
    BY <1>0, <1>b, <1>11 DEF Opened, MutexTypeOK
  <2>2. locked' \in [Conn -> SUBSET Addr]
    BY <1>0, <1>b, <1>11 DEF Opened, MutexTypeOK
  <2>3. wantToLock' \in [Conn -> [Addr -> Nat]]
    BY <1>0, <1>b, <1>11 DEF Opened, MutexTypeOK
  <2>4. at' \in [Conn -> Place]
    BY <1>0, <1>b, <1>11, Places DEF Opened, MutexTypeOK
  <2>5. /\ openMutex' \in Conn \cup {NoConn}
        /\ cache' \in [Addr -> File \cup {NoFile}]
        /\ nRef' \in [Addr -> Int]
        /\ handle' \in [Conn -> SUBSET Addr]
    BY <1>0, <1>b, <1>11 DEF Opened, MutexTypeOK
  <2> QED
    BY <2>1, <2>2, <2>3, <2>4, <2>5 DEF MutexTypeOK
<1>12. CASE Unref(c)
  <2>1. at' \in [Conn -> Place]
    BY <1>0, <1>a, <1>b, <1>12, Places DEF Unref, MutexTypeOK
  <2>2. cache' \in [Addr -> File \cup {NoFile}]
    BY <1>0, <1>a, <1>b, <1>12 DEF Unref, MutexTypeOK
  <2>3. nRef' \in [Addr -> Int]
    BY <1>0, <1>a, <1>b, <1>12 DEF Unref, MutexTypeOK
  <2>4. handle' \in [Conn -> SUBSET Addr]
    BY <1>0, <1>a, <1>b, <1>12 DEF Unref, MutexTypeOK
  <2>5. /\ openMutex' \in Conn \cup {NoConn}
        /\ mutex' \in [Addr -> Conn \cup {NoConn}]
        /\ wantToLock' \in [Conn -> [Addr -> Nat]]
        /\ locked' \in [Conn -> SUBSET Addr]
    BY <1>0, <1>a, <1>b, <1>12 DEF Unref, MutexTypeOK
  <2> QED
    BY <2>1, <2>2, <2>3, <2>4, <2>5 DEF MutexTypeOK
<1>13. CASE Closing(c)
  <2>1. at' \in [Conn -> Place]
    BY <1>0, <1>a, <1>b, <1>13, Places DEF Closing, MutexTypeOK
  <2>2. mutex' \in [Addr -> Conn \cup {NoConn}]
    BY <1>0, <1>a, <1>b, <1>13 DEF Closing, MutexTypeOK
  <2>3. locked' \in [Conn -> SUBSET Addr]
    BY <1>0, <1>a, <1>b, <1>13 DEF Closing, MutexTypeOK
  <2>4. wantToLock' \in [Conn -> [Addr -> Nat]]
    BY <1>0, <1>a, <1>b, <1>13 DEF Closing, MutexTypeOK
  <2>5. /\ openMutex' \in Conn \cup {NoConn}
        /\ cache' \in [Addr -> File \cup {NoFile}]
        /\ nRef' \in [Addr -> Int]
        /\ handle' \in [Conn -> SUBSET Addr]
    BY <1>0, <1>a, <1>b, <1>13 DEF Closing, MutexTypeOK
  <2> QED
    BY <2>1, <2>2, <2>3, <2>4, <2>5 DEF MutexTypeOK
<1> QED
  BY <1>1, <1>2, <1>3, <1>4, <1>5, <1>6, <1>7, <1>8, <1>9, <1>10, <1>11, <1>12, <1>13
     DEF MutexStep

-----------------------------------------------------------------------------
(* A step that moves one connection and leaves the list alone.             *)
LEMMA ListKept ==
  ASSUME ListInv, NEW c \in Conn, UNCHANGED <<list, handle>>,
         \A d \in Conn \ {c} : at'[d] = at[d],
         \A d \in Conn \ {c} : openMutex' = d <=> openMutex = d,
         Opening(c)' <=> openMutex' = c,
         at'[c].step \in {"open", "find", "create"} => at'[c].file \in File,
         at'[c].step = "create" => \A a \in Addr : cache[a] # at'[c].file,
         at'[c].step \in {"wait", "relock", "link", "schema", "close", "unref"}
           => at'[c].addr \in handle[c]
  PROVE  ListInv'
<1>1. cache' = cache /\ nRef' = nRef /\ handle' = handle
  BY DEF list
<1>2. \A a \in Addr : Users(a)' = Users(a)
  BY <1>1 DEF Users
<1>3. (\A a \in Addr : nRef[a] = Cardinality(Users(a)))'
  BY <1>1, <1>2 DEF ListInv
<1>4. ASSUME NEW d \in Conn PROVE Opening(d)' <=> openMutex' = d
  <2>1. CASE d = c
    BY <2>1
  <2>2. CASE d # c
    BY <2>2 DEF ListInv, Opening
  <2> QED
    BY <2>1, <2>2
<1>5. (\A d \in Conn : \A a \in handle[d] : cache[a] # NoFile)'
  BY <1>1 DEF ListInv
<1>6. (\A a, b \in Addr : cache[a] = cache[b] /\ cache[a] # NoFile => a = b)'
  BY <1>1 DEF ListInv
<1>7. (\A d \in Conn : at[d].step \in {"open", "find", "create"} => at[d].file \in File)'
  BY DEF ListInv
<1>8. (\A d \in Conn : at[d].step = "create" => \A a \in Addr : cache[a] # at[d].file)'
  BY <1>1 DEF ListInv
<1>9. (\A d \in Conn :
         at[d].step \in {"wait", "relock", "link", "schema", "close", "unref"}
           => at[d].addr \in handle[d])'
  BY <1>1 DEF ListInv
<1> QED
  BY <1>3, <1>4, <1>5, <1>6, <1>7, <1>8, <1>9 DEF ListInv


(* Where sqlite3BtreeEnter leaves a connection.                            *)
LEMMA EnterMove ==
  ASSUME MutexTypeOK, NEW c \in Conn, NEW a \in Addr,
         NEW then \in {"idle", "schema", "close"}, EnterThen(c, a, then)
  PROVE  /\ \A d \in Conn \ {c} : at'[d] = at[d]
         /\ \/ at'[c].step = then /\ (then # "idle" => at'[c].addr = a)
            \/ at'[c].step = "wait" /\ at'[c].addr = a /\ at'[c].then = then
<1>1. \/ at' = [at EXCEPT ![c] = Entered(a, then)]
      \/ at' = [at EXCEPT ![c] = [Idle EXCEPT !.step = "wait", !.addr = a, !.then = then]]
  BY DEF EnterThen
<1>2. \/ at'[c] = Entered(a, then)
      \/ at'[c] = [Idle EXCEPT !.step = "wait", !.addr = a, !.then = then]
  BY <1>1 DEF MutexTypeOK
<1>3. \A d \in Conn \ {c} : at'[d] = at[d]
  BY <1>1 DEF MutexTypeOK
<1>4. /\ Entered(a, then).step = then /\ (then # "idle" => Entered(a, then).addr = a)
      /\ [Idle EXCEPT !.step = "wait", !.addr = a, !.then = then].step = "wait"
      /\ [Idle EXCEPT !.step = "wait", !.addr = a, !.then = then].addr = a
      /\ [Idle EXCEPT !.step = "wait", !.addr = a, !.then = then].then = then
  BY DEF Entered, Idle
<1> QED
  BY <1>2, <1>3, <1>4

(* A BtShared gains a connection, or loses one.                            *)
LEMMA UsersGrow ==
  ASSUME MutexTypeOK, NEW c \in Conn, NEW a \in Addr, a \notin handle[c],
         handle' = [handle EXCEPT ![c] = @ \cup {a}]
  PROVE  /\ Cardinality(Users(a)') = Cardinality(Users(a)) + 1
         /\ \A b \in Addr \ {a} : Users(b)' = Users(b)
<1>1. Users(a)' = Users(a) \cup {c} /\ c \notin Users(a)
  BY DEF Users, MutexTypeOK
<1>2. IsFiniteSet(Users(a))
  BY Constants, FS_Subset DEF Users
<1>3. \A b \in Addr \ {a} : Users(b)' = Users(b)
  BY DEF Users, MutexTypeOK
<1> QED
  BY <1>1, <1>2, <1>3, FS_AddElement

LEMMA UsersShrink ==
  ASSUME MutexTypeOK, NEW c \in Conn, NEW a \in handle[c],
         handle' = [handle EXCEPT ![c] = @ \ {a}]
  PROVE  /\ Cardinality(Users(a)') = Cardinality(Users(a)) - 1
         /\ Cardinality(Users(a)) \in Nat
         /\ Cardinality(Users(a)) <= 1 => Users(a)' = {}
         /\ \A b \in Addr \ {a} : Users(b)' = Users(b)
<1>1. Users(a)' = Users(a) \ {c} /\ c \in Users(a)
  BY DEF Users, MutexTypeOK
<1>2. IsFiniteSet(Users(a)) /\ IsFiniteSet(Users(a)')
  BY <1>1, Constants, FS_Subset DEF Users
<1>3. /\ Cardinality(Users(a)') = Cardinality(Users(a)) - 1
      /\ Cardinality(Users(a)) \in Nat /\ Cardinality(Users(a)') \in Nat
  BY <1>1, <1>2, FS_RemoveElement, FS_CardinalityType
<1>4. Cardinality(Users(a)) <= 1 => Cardinality(Users(a)') = 0
  BY <1>3
<1>5. \A b \in Addr \ {a} : Users(b)' = Users(b)
  BY DEF Users, MutexTypeOK
<1> QED
  BY <1>2, <1>3, <1>4, <1>5, FS_EmptySet

(* The list of BtShared is kept.                                           *)
LEMMA ListStep ==
  ASSUME BtMutexInv, NEW c \in Conn, MutexStep(c) \/ Closing(c)
  PROVE  ListInv'
<1>0. MutexTypeOK /\ ListInv
  BY DEF BtMutexInv
<1>a. at[c] \in Place /\ at[c].todo \in SUBSET Addr /\ at[c].then \in {"idle", "schema", "close"}
  BY <1>0, Places DEF MutexTypeOK
<1>b. at[c].step \in {"wait", "relock", "link", "schema", "close", "unref"}
        => at[c].addr \in Addr /\ at[c].addr \in handle[c]
  BY <1>0 DEF ListInv, MutexTypeOK
<1>c. Opening(c) <=> openMutex = c
  BY <1>0 DEF ListInv
<1>d. openMutex \in Conn \cup {NoConn} /\ NoConn \notin Conn
  BY <1>0, Constants DEF MutexTypeOK
<1>e. at' = [at EXCEPT ![c] = Idle]
        => at'[c].step = "idle" /\ \A d \in Conn \ {c} : at'[d] = at[d]
  <2>1. at' = [at EXCEPT ![c] = Idle]
          => at'[c] = Idle /\ \A d \in Conn \ {c} : at'[d] = at[d]
    BY <1>0 DEF MutexTypeOK
  <2> QED
    BY <2>1 DEF Idle
<1>1. CASE Obtain(c)
  <2> DEFINE todo == {b \in Later(c, at[c].addr) : wantToLock[c][b] > 0}
  <2>1. at' = [at EXCEPT ![c] = IF todo = {} THEN Entered(at[c].addr, at[c].then)
                                ELSE [at[c] EXCEPT !.step = "relock", !.todo = todo]]
    BY <1>1 DEF Obtain
  <2>2. at[c].step = "wait" /\ UNCHANGED <<openMutex, list, handle>>
    BY <1>1 DEF Obtain
  <2>3. todo \in SUBSET Addr
    BY <1>0 DEF Later, MutexTypeOK
  <2>4. /\ \A d \in Conn \ {c} : at'[d] = at[d]
        /\ \/ at'[c] = Entered(at[c].addr, at[c].then)
           \/ at'[c] = [at[c] EXCEPT !.step = "relock", !.todo = todo]
    BY <2>1, <1>0 DEF MutexTypeOK
  <2>5. \/ at'[c].step = at[c].then /\ (at[c].then # "idle" => at'[c].addr = at[c].addr)
        \/ at'[c].step = "relock" /\ at'[c].then = at[c].then /\ at'[c].addr = at[c].addr
    <3>1. /\ Entered(at[c].addr, at[c].then).step = at[c].then
          /\ at[c].then # "idle" => Entered(at[c].addr, at[c].then).addr = at[c].addr
      BY <1>a DEF Entered, Idle
    <3>2. at'[c] = [at[c] EXCEPT !.step = "relock", !.todo = todo]
            => at'[c].step = "relock" /\ at'[c].then = at[c].then /\ at'[c].addr = at[c].addr
      BY <2>2, <1>a DEF Place
    <3> QED
      BY <2>4, <3>1, <3>2
  <2> QED
    BY <2>2, <2>4, <2>5, <1>0, <1>a, <1>b, <1>c, ListKept DEF Opening
<1>2. CASE Relock(c)
  <2>1. PICK b \in at[c].todo :
          at' = [at EXCEPT ![c] = IF at[c].todo = {b} THEN Entered(at[c].addr, at[c].then)
                                  ELSE [at[c] EXCEPT !.todo = at[c].todo \ {b}]]
    BY <1>2 DEF Relock
  <2>2. at[c].step = "relock" /\ UNCHANGED <<openMutex, list, handle>>
    BY <1>2 DEF Relock
  <2>3. at[c].todo \ {b} \in SUBSET Addr
    BY <1>a
  <2>4. /\ \A d \in Conn \ {c} : at'[d] = at[d]
        /\ \/ at'[c] = Entered(at[c].addr, at[c].then)
           \/ at'[c] = [at[c] EXCEPT !.todo = at[c].todo \ {b}]
    BY <2>1, <1>0 DEF MutexTypeOK
  <2>5. \/ at'[c].step = at[c].then /\ (at[c].then # "idle" => at'[c].addr = at[c].addr)
        \/ at'[c].step = "relock" /\ at'[c].then = at[c].then /\ at'[c].addr = at[c].addr
    <3>1. /\ Entered(at[c].addr, at[c].then).step = at[c].then
          /\ at[c].then # "idle" => Entered(at[c].addr, at[c].then).addr = at[c].addr
      BY <1>a DEF Entered, Idle
    <3>2. at'[c] = [at[c] EXCEPT !.todo = at[c].todo \ {b}]
            => at'[c].step = "relock" /\ at'[c].then = at[c].then /\ at'[c].addr = at[c].addr
      BY <2>2, <1>a DEF Place
    <3> QED
      BY <2>4, <3>1, <3>2
  <2> QED
    BY <2>2, <2>4, <2>5, <1>0, <1>a, <1>b, <1>c, ListKept DEF Opening
<1>3. ASSUME NEW a \in Addr, Enter(c, a) PROVE ListInv'
  <2>1. at[c].step = "idle" /\ a \in handle[c] /\ UNCHANGED <<openMutex, list, handle>>
    BY <1>3 DEF Enter
  <2>2. /\ \A d \in Conn \ {c} : at'[d] = at[d]
        /\ \/ at'[c].step = "idle"
           \/ at'[c].step = "wait" /\ at'[c].addr = a /\ at'[c].then = "idle"
    BY <1>0, <1>3, EnterMove DEF Enter
  <2> QED
    BY <2>1, <2>2, <1>0, <1>c, ListKept DEF Opening
<1>4. ASSUME NEW a \in Addr, Leave(c, a) PROVE ListInv'
  <2>1. at[c].step = "idle" /\ UNCHANGED <<openMutex, list, handle, at>>
    BY <1>4 DEF Leave
  <2> QED
    BY <2>1, <1>0, <1>c, ListKept DEF Opening
<1>5. ASSUME NEW a \in Addr, Close(c, a) PROVE ListInv'
  <2>1. at[c].step = "idle" /\ a \in handle[c] /\ UNCHANGED <<openMutex, list, handle>>
    BY <1>5 DEF Close
  <2>2. /\ \A d \in Conn \ {c} : at'[d] = at[d]
        /\ \/ at'[c].step = "close" /\ at'[c].addr = a
           \/ at'[c].step = "wait" /\ at'[c].addr = a /\ at'[c].then = "close"
    BY <1>0, <1>5, EnterMove DEF Close
  <2> QED
    BY <2>1, <2>2, <1>0, <1>c, ListKept DEF Opening
<1>6. ASSUME NEW f \in File, Open(c, f) PROVE ListInv'
  <2>1. at[c].step = "idle" /\ UNCHANGED <<openMutex, list, handle>>
    BY <1>6 DEF Open
  <2>2. /\ at'[c] = [Idle EXCEPT !.step = "open", !.file = f]
        /\ \A d \in Conn \ {c} : at'[d] = at[d]
    BY <1>0, <1>6 DEF Open, MutexTypeOK
  <2>3. at'[c].step = "open" /\ at'[c].file = f
    BY <2>2 DEF Idle
  <2> QED
    BY <2>1, <2>2, <2>3, <1>0, <1>c, ListKept DEF Opening
<1>7. CASE OpenMutex(c)
  <2>1. at[c].step = "open" /\ openMutex = NoConn /\ openMutex' = c /\ UNCHANGED <<list, handle>>
    BY <1>7 DEF OpenMutex
  <2>2. /\ at'[c] = [at[c] EXCEPT !.step = "find"]
        /\ \A d \in Conn \ {c} : at'[d] = at[d]
    BY <1>0, <1>7 DEF OpenMutex, MutexTypeOK
  <2>3. at'[c].step = "find" /\ at'[c].file = at[c].file
    BY <2>2, <1>a DEF Place
  <2>4. at[c].file \in File
    BY <2>1, <1>0 DEF ListInv
  <2> QED
    BY <2>1, <2>2, <2>3, <2>4, <1>0, <1>d, ListKept DEF Opening
<1>8. CASE Find(c)
  <2>0. /\ at[c].step = "find" /\ at[c].file \in File /\ openMutex = c
        /\ cache' = cache
    BY <1>0, <1>8, <1>c DEF Find, ListInv, Opening
  <2>1. CASE openMutex' = NoConn /\ at' = [at EXCEPT ![c] = Idle] /\ UNCHANGED <<nRef, handle>>
    <3>1. at'[c].step = "idle" /\ \A d \in Conn \ {c} : at'[d] = at[d]
      BY <2>1, <1>e
    <3> QED
      BY <2>0, <2>1, <3>1, <1>0, <1>d, ListKept DEF Opening, list
  <2>2. CASE /\ \A a \in Addr : cache[a] # at[c].file
             /\ at' = [at EXCEPT ![c] = [at[c] EXCEPT !.step = "create"]]
             /\ UNCHANGED <<openMutex, nRef, handle>>
    <3>1. /\ at'[c] = [at[c] EXCEPT !.step = "create"]
          /\ \A d \in Conn \ {c} : at'[d] = at[d]
      BY <2>2, <1>0 DEF MutexTypeOK
    <3>2. at'[c].step = "create" /\ at'[c].file = at[c].file
      BY <3>1, <1>a DEF Place
    <3> QED
      BY <2>0, <2>2, <3>1, <3>2, <1>0, <1>c, ListKept DEF Opening, list
  <2>3. ASSUME NEW a \in Addr, cache[a] = at[c].file, a \notin handle[c],
               nRef' = [nRef EXCEPT ![a] = @ + 1],
               handle' = [handle EXCEPT ![c] = @ \cup {a}],
               at' = [at EXCEPT ![c] = [Idle EXCEPT !.step = "link", !.addr = a]],
               openMutex' = openMutex
        PROVE  ListInv'
    <3>1. /\ at'[c].step = "link" /\ at'[c].addr = a
          /\ \A d \in Conn \ {c} : at'[d] = at[d]
      <4>1. /\ at'[c] = [Idle EXCEPT !.step = "link", !.addr = a]
            /\ \A d \in Conn \ {c} : at'[d] = at[d]
        BY <2>3, <1>0 DEF MutexTypeOK
      <4> QED
        BY <4>1 DEF Idle
    <3>2. (\A b \in Addr : nRef[b] = Cardinality(Users(b)))'
      <4>1. /\ Cardinality(Users(a)') = Cardinality(Users(a)) + 1
            /\ \A b \in Addr \ {a} : Users(b)' = Users(b)
        BY <2>3, <1>0, UsersGrow
      <4> QED
        BY <2>3, <4>1, <1>0 DEF ListInv, MutexTypeOK
    <3>3. /\ handle'[c] = handle[c] \cup {a}
          /\ \A d \in Conn \ {c} : handle'[d] = handle[d]
      BY <2>3, <1>0 DEF MutexTypeOK
    <3>4. (\A d \in Conn : \A b \in handle[d] : cache[b] # NoFile)'
      BY <2>0, <2>3, <3>3, <1>0, Constants DEF ListInv
    <3>5. (\A d \in Conn : Opening(d) <=> openMutex = d)'
      BY <2>0, <2>3, <3>1, <1>0 DEF ListInv, Opening
    <3>6. (\A d \in Conn :
             /\ at[d].step \in {"open", "find", "create"} => at[d].file \in File
             /\ at[d].step = "create" => \A b \in Addr : cache[b] # at[d].file
             /\ at[d].step \in {"wait", "relock", "link", "schema", "close", "unref"}
                  => at[d].addr \in handle[d])'
      BY <2>0, <3>1, <3>3, <1>0 DEF ListInv
    <3> QED
      BY <2>0, <3>2, <3>4, <3>5, <3>6, <1>0 DEF ListInv
  <2> QED
    BY <1>8, <2>1, <2>2, <2>3 DEF Find
<1>9. CASE Create(c)
  <2>0. /\ at[c].step = "create" /\ at[c].file \in File /\ openMutex = c
        /\ \A a \in Addr : cache[a] # at[c].file
    BY <1>0, <1>9, <1>c DEF Create, ListInv, Opening
  <2>1. CASE openMutex' = NoConn /\ at' = [at EXCEPT ![c] = Idle] /\ UNCHANGED <<list, handle>>
    <3>1. at'[c].step = "idle" /\ \A d \in Conn \ {c} : at'[d] = at[d]
      BY <2>1, <1>e
    <3> QED
      BY <2>0, <2>1, <3>1, <1>0, <1>d, ListKept DEF Opening, list
  <2>2. ASSUME NEW a \in Addr, cache[a] = NoFile,
               cache' = [cache EXCEPT ![a] = at[c].file],
               nRef' = [nRef EXCEPT ![a] = 1],
               handle' = [handle EXCEPT ![c] = @ \cup {a}],
               at' = [at EXCEPT ![c] = [Idle EXCEPT !.step = "link", !.addr = a]],
               openMutex' = openMutex
        PROVE  ListInv'
    <3>1. /\ at'[c].step = "link" /\ at'[c].addr = a
          /\ \A d \in Conn \ {c} : at'[d] = at[d]
      <4>1. /\ at'[c] = [Idle EXCEPT !.step = "link", !.addr = a]
            /\ \A d \in Conn \ {c} : at'[d] = at[d]
        BY <2>2, <1>0 DEF MutexTypeOK
      <4> QED
        BY <4>1 DEF Idle
    <3>2. (\A b \in Addr : nRef[b] = Cardinality(Users(b)))'
      <4>1. Users(a) = {} /\ a \notin handle[c]
        BY <2>2, <1>0 DEF ListInv, Users
      <4>2. /\ Cardinality(Users(a)') = Cardinality(Users(a)) + 1
            /\ \A b \in Addr \ {a} : Users(b)' = Users(b)
        BY <2>2, <4>1, <1>0, UsersGrow
      <4>3. Cardinality(Users(a)') = 1
        BY <4>1, <4>2, FS_EmptySet
      <4> QED
        BY <2>2, <4>2, <4>3, <1>0 DEF ListInv, MutexTypeOK
    <3>3. /\ handle'[c] = handle[c] \cup {a}
          /\ \A d \in Conn \ {c} : handle'[d] = handle[d]
          /\ cache'[a] = at[c].file /\ \A b \in Addr \ {a} : cache'[b] = cache[b]
          /\ handle \in [Conn -> SUBSET Addr]
      BY <2>2, <1>0 DEF MutexTypeOK
    <3>4. (\A d \in Conn : \A b \in handle[d] : cache[b] # NoFile)'
      BY <2>0, <3>3, <1>0, Constants DEF ListInv
    <3>5. (\A d \in Conn : Opening(d) <=> openMutex = d)'
      BY <2>0, <2>2, <3>1, <1>0 DEF ListInv, Opening
    <3>6. (\A d \in Conn :
             /\ at[d].step \in {"open", "find", "create"} => at[d].file \in File
             /\ at[d].step \in {"wait", "relock", "link", "schema", "close", "unref"}
                  => at[d].addr \in handle[d])'
      BY <3>1, <3>3, <1>0 DEF ListInv
    <3>7. \A d \in Conn : at'[d].step # "create"
      BY <2>0, <3>1, <1>0 DEF ListInv, Opening
    <3>8. (\A b, d \in Addr : cache[b] = cache[d] /\ cache[b] # NoFile => b = d)'
      BY <2>0, <3>3, <1>0 DEF ListInv
    <3> QED
      BY <3>2, <3>4, <3>5, <3>6, <3>7, <3>8 DEF ListInv
  <2> QED
    BY <1>9, <2>1, <2>2 DEF Create
<1>10. CASE Link(c)
  <2>1. at[c].step = "link" /\ UNCHANGED <<openMutex, list, handle>>
    BY <1>10 DEF Link
  <2>2. /\ \A d \in Conn \ {c} : at'[d] = at[d]
        /\ \/ at'[c].step = "schema" /\ at'[c].addr = at[c].addr
           \/ at'[c].step = "wait" /\ at'[c].addr = at[c].addr /\ at'[c].then = "schema"
    BY <2>1, <1>0, <1>b, <1>10, EnterMove DEF Link
  <2> QED
    BY <2>1, <2>2, <1>0, <1>b, <1>c, ListKept DEF Opening
<1>11. CASE Opened(c)
  <2>1. at[c].step = "schema" /\ openMutex' = NoConn /\ UNCHANGED <<list, handle>>
    BY <1>11 DEF Opened
  <2>2. at'[c].step = "idle" /\ \A d \in Conn \ {c} : at'[d] = at[d]
    BY <1>11, <1>e DEF Opened
  <2> QED
    BY <2>1, <2>2, <1>0, <1>c, <1>d, ListKept DEF Opening
<1>12. CASE Unref(c)
  <2>1. PICK a \in Addr :
        /\ at[c].step = "unref" /\ a \in handle[c]
        /\ nRef' = [nRef EXCEPT ![a] = @ - 1]
        /\ cache' = IF nRef[a] <= 1 THEN [cache EXCEPT ![a] = NoFile] ELSE cache
        /\ handle' = [handle EXCEPT ![c] = @ \ {a}]
        /\ openMutex' = openMutex
    BY <1>12, <1>b DEF Unref
  <2>2. at'[c].step = "idle" /\ \A d \in Conn \ {c} : at'[d] = at[d]
    BY <1>12, <1>e DEF Unref
  <2>u. /\ Cardinality(Users(a)') = Cardinality(Users(a)) - 1
        /\ Cardinality(Users(a)) <= 1 => Users(a)' = {}
        /\ \A b \in Addr \ {a} : Users(b)' = Users(b)
    BY <2>1, <1>0, UsersShrink
  <2>3. (\A b \in Addr : nRef[b] = Cardinality(Users(b)))'
    BY <2>1, <2>u, <1>0 DEF ListInv, MutexTypeOK
  <2>4. /\ handle'[c] = handle[c] \ {a}
        /\ \A d \in Conn \ {c} : handle'[d] = handle[d]
        /\ handle \in [Conn -> SUBSET Addr]
        /\ \A b \in Addr \ {a} : cache'[b] = cache[b]
        /\ cache'[a] = cache[a] \/ (cache'[a] = NoFile /\ nRef[a] <= 1)
    <3>1. /\ handle'[c] = handle[c] \ {a}
          /\ \A d \in Conn \ {c} : handle'[d] = handle[d]
          /\ handle \in [Conn -> SUBSET Addr]
      BY <2>1, <1>0 DEF MutexTypeOK
    <3>2. cache' = [cache EXCEPT ![a] = NoFile]
            => (\A b \in Addr \ {a} : cache'[b] = cache[b]) /\ cache'[a] = NoFile
      BY <1>0 DEF MutexTypeOK
    <3>3. cache' = cache \/ (nRef[a] <= 1 /\ cache' = [cache EXCEPT ![a] = NoFile])
      BY <2>1
    <3> QED
      BY <3>1, <3>2, <3>3
  <2>5. nRef[a] <= 1 => \A d \in Conn : a \notin handle'[d]
    <3>1. nRef[a] <= 1 => Users(a)' = {}
      BY <2>1, <2>u, <1>0 DEF ListInv
    <3>2. a \in Addr /\ Users(a)' = {d \in Conn : a \in handle'[d]}
      BY <2>1 DEF Users
    <3> QED
      BY <3>1, <3>2
  <2>6. (\A d \in Conn : \A b \in handle[d] : cache[b] # NoFile)'
    BY <2>4, <2>5, <1>0 DEF ListInv
  <2>7. (\A b, d \in Addr : cache[b] = cache[d] /\ cache[b] # NoFile => b = d)'
    BY <2>4, <1>0 DEF ListInv
  <2>8. (\A d \in Conn : Opening(d) <=> openMutex = d)'
    BY <2>1, <2>2, <1>0 DEF ListInv, Opening
  <2>9. (\A d \in Conn :
           /\ at[d].step \in {"open", "find", "create"} => at[d].file \in File
           /\ at[d].step = "create" => \A b \in Addr : cache[b] # at[d].file
           /\ at[d].step \in {"wait", "relock", "link", "schema", "close", "unref"}
                => at[d].addr \in handle[d])'
    BY <2>2, <2>4, <1>0, Constants DEF ListInv
  <2> QED
    BY <2>3, <2>6, <2>7, <2>8, <2>9 DEF ListInv
<1>13. CASE Closing(c)
  <2>1. at[c].step = "close" /\ UNCHANGED <<openMutex, list, handle>>
    BY <1>13 DEF Closing
  <2>2. /\ at'[c] = [at[c] EXCEPT !.step = "unref"]
        /\ \A d \in Conn \ {c} : at'[d] = at[d]
    BY <1>0, <1>13 DEF Closing, MutexTypeOK
  <2>3. at'[c].step = "unref" /\ at'[c].addr = at[c].addr
    BY <2>2, <1>a DEF Place
  <2> QED
    BY <2>1, <2>2, <2>3, <1>0, <1>b, <1>c, ListKept DEF Opening

<1> QED
  BY <1>1, <1>2, <1>3, <1>4, <1>5, <1>6, <1>7, <1>8, <1>9, <1>10, <1>11, <1>12, <1>13
     DEF MutexStep

-----------------------------------------------------------------------------
(* A step of one connection leaves the others what they hold.              *)
LEMMA LockOthers ==
  ASSUME NEW d \in Conn, Holding(d), at'[d] = at[d], locked'[d] = locked[d],
         wantToLock'[d] = wantToLock[d], handle'[d] = handle[d],
         \A a \in Addr : mutex'[a] = d <=> mutex[a] = d
  PROVE  Holding(d)'
BY DEF Holding

(* What sqlite3BtreeEnter does to the mutexes.                             *)
LEMMA EnterEffect ==
  ASSUME MutexTypeOK, NEW c \in Conn, NEW a \in Addr, NEW then, EnterThen(c, a, then)
  PROVE  /\ wantToLock'[c][a] = wantToLock[c][a] + 1
         /\ \A b \in Addr \ {a} : wantToLock'[c][b] = wantToLock[c][b]
         /\ \A d \in Conn \ {c} : /\ locked'[d] = locked[d]
                                 /\ wantToLock'[d] = wantToLock[d]
BY DEF EnterThen, MutexTypeOK, lockBtreeMutex, unlockBtreeMutexes

(* sqlite3BtreeEnter, whoever calls it, keeps what is known of the mutexes *)
(* of the connection and leaves the others theirs.                         *)
LEMMA EnterHolding ==
  ASSUME MutexTypeOK, NEW c \in Conn, NEW a \in handle[c],
         NEW then \in {"idle", "schema", "close"}, EnterThen(c, a, then),
         Holding(c), at[c].step \notin {"wait", "relock"},
         then # "idle" => wantToLock[c][a] = 0, UNCHANGED handle
  PROVE  Holding(c)' /\ \A d \in Conn \ {c} : Holding(d) => Holding(d)'
<1>0. a \in Addr /\ locked \in [Conn -> SUBSET Addr] /\ wantToLock[c] \in [Addr -> Nat]
      /\ Addr \subseteq Int /\ NoConn \notin Conn
  BY Constants DEF MutexTypeOK, Addr
<1>1. /\ wantToLock'[c][a] = wantToLock[c][a] + 1
      /\ \A b \in Addr \ {a} : wantToLock'[c][b] = wantToLock[c][b]
      /\ \A d \in Conn \ {c} : /\ locked'[d] = locked[d]
                              /\ wantToLock'[d] = wantToLock[d]
  BY <1>0, EnterEffect
<1>a. \A d \in Conn \ {c} : at'[d] = at[d]
  BY <1>0, EnterMove
<1>2. \A b \in Addr : wantToLock[c][b] > 0 <=> b \in locked[c]
  BY <1>0 DEF Holding
<1>3. CASE /\ locked'[c] = locked[c] \cup {a}
           /\ mutex'[a] = c /\ \A b \in Addr \ {a} : mutex'[b] = mutex[b]
           /\ mutex[a] \in {c, NoConn}
           /\ at'[c] = Entered(a, then)
  <2>1. at'[c].step = then /\ (then # "idle" => at'[c].addr = a)
    BY <1>3 DEF Entered, Idle
  <2>a. \A b \in Addr : b \in locked'[c] <=> mutex'[b] = c
    BY <1>0, <1>3 DEF Holding
  <2>b. \A b \in Addr : wantToLock'[c][b] > 0 => b \in handle'[c]
    BY <1>0, <1>1 DEF Holding
  <2>c. \A b \in Addr : wantToLock'[c][b] > 0 <=> b \in locked'[c]
    BY <1>0, <1>1, <1>2, <1>3
  <2>3. Holding(c)'
    BY <1>0, <1>1, <1>3, <2>1, <2>a, <2>b, <2>c DEF Holding
  <2>4. \A d \in Conn \ {c} : \A b \in Addr : mutex'[b] = d <=> mutex[b] = d
    BY <1>0, <1>3
  <2> QED
    BY <1>1, <1>a, <2>3, <2>4, LockOthers
<1>4. CASE /\ a \notin locked[c] /\ locked'[c] = locked[c] \ Later(c, a)
           /\ \A b \in Addr : mutex'[b] = IF b \in Later(c, a) \cap locked[c] THEN NoConn
                                          ELSE mutex[b]
           /\ at'[c] = [Idle EXCEPT !.step = "wait", !.addr = a, !.then = then]
  <2>1. at'[c].step = "wait" /\ at'[c].addr = a /\ at'[c].then = then
    BY <1>4 DEF Idle
  <2>2. \A b \in locked[c] : b \in locked'[c] <=> b < a
    BY <1>0, <1>2, <1>4 DEF Later, Holding
  <2>a. \A b \in Addr : b \in locked'[c] <=> mutex'[b] = c
    BY <1>0, <1>4 DEF Holding
  <2>b. \A b \in Addr : wantToLock'[c][b] > 0 => b \in handle'[c]
    BY <1>0, <1>1 DEF Holding
  <2>c. \A b \in locked'[c] : wantToLock'[c][b] > 0 /\ b < a
    BY <1>0, <1>1, <1>2, <1>4, <2>2
  <2>d. \A b \in Addr : wantToLock'[c][b] > 0 => b \in locked'[c] \/ b >= a
    BY <1>0, <1>1, <1>2, <2>2
  <2>4. Holding(c)'
    BY <1>0, <1>1, <2>1, <2>a, <2>b, <2>c, <2>d DEF Holding
  <2>5. \A d \in Conn \ {c} : \A b \in Addr : mutex'[b] = d <=> mutex[b] = d
    BY <1>0, <1>4 DEF Holding
  <2> QED
    BY <1>1, <1>a, <2>4, <2>5, LockOthers
<1>5. a \in locked[c] => mutex[a] = c /\ locked[c] = locked[c] \cup {a}
  BY <1>0 DEF Holding
<1>6. CASE /\ a \in locked[c] /\ UNCHANGED <<mutex, locked>>
           /\ at' = [at EXCEPT ![c] = Entered(a, then)]
  <2>1. at'[c] = Entered(a, then)
    BY <1>6 DEF MutexTypeOK
  <2> QED
    BY <1>3, <1>5, <1>6, <2>1
<1>7. CASE /\ a \notin locked[c] /\ lockBtreeMutex(c, a)
           /\ at' = [at EXCEPT ![c] = Entered(a, then)]
  <2>1. /\ locked'[c] = locked[c] \cup {a}
        /\ mutex[a] = NoConn /\ mutex'[a] = c
        /\ \A b \in Addr \ {a} : mutex'[b] = mutex[b]
        /\ at'[c] = Entered(a, then)
    BY <1>0, <1>7 DEF MutexTypeOK, lockBtreeMutex
  <2> QED
    BY <1>3, <2>1
<1>8. CASE /\ a \notin locked[c] /\ unlockBtreeMutexes(c, Later(c, a) \cap locked[c])
           /\ at' = [at EXCEPT ![c] = [Idle EXCEPT !.step = "wait", !.addr = a, !.then = then]]
  <2>1. /\ locked'[c] = locked[c] \ Later(c, a)
        /\ \A b \in Addr : mutex'[b] = IF b \in Later(c, a) \cap locked[c] THEN NoConn
                                       ELSE mutex[b]
    BY <1>8 DEF MutexTypeOK, unlockBtreeMutexes
  <2>2. at'[c] = [Idle EXCEPT !.step = "wait", !.addr = a, !.then = then]
    BY <1>8 DEF MutexTypeOK
  <2> QED
    BY <1>4, <1>8, <2>1, <2>2
<1> QED
  BY <1>6, <1>7, <1>8 DEF EnterThen

(* Every other step: each shows what it leaves the connection.             *)
LEMMA LockStep ==
  ASSUME Assumed, BtMutexInv, NEW c \in Conn, MutexStep(c) \/ Closing(c)
  PROVE  LockInv'
<1>0. MutexTypeOK /\ ListInv /\ LockInv
  BY DEF BtMutexInv
<1>a. at[c] \in Place /\ at[c].todo \in SUBSET Addr /\ at[c].then \in {"idle", "schema", "close"}
  BY <1>0, Places DEF MutexTypeOK
<1>b. at[c].step \in {"wait", "relock", "link", "schema", "close", "unref"}
        => at[c].addr \in Addr /\ at[c].addr \in handle[c]
  BY <1>0 DEF ListInv, MutexTypeOK
<1>c. Holding(c)
  BY <1>0 DEF LockInv
<1>d. /\ \A a \in Addr : a \in Int /\ wantToLock[c][a] \in Nat
      /\ \A a \in locked[c] : a \in Addr /\ a \in Int
      /\ NoConn \notin Conn
  BY <1>0, Constants DEF MutexTypeOK, Addr
<1>e. ASSUME Holding(c)', \A d \in Conn \ {c} : Holding(d)' PROVE LockInv'
  BY <1>e DEF LockInv
<1>f. at' = [at EXCEPT ![c] = Idle]
        => at'[c].step = "idle" /\ \A d \in Conn \ {c} : at'[d] = at[d]
  <2>1. at' = [at EXCEPT ![c] = Idle]
          => at'[c] = Idle /\ \A d \in Conn \ {c} : at'[d] = at[d]
    BY <1>0 DEF MutexTypeOK
  <2> QED
    BY <2>1 DEF Idle
<1>1. CASE Obtain(c)
  <2>1. PICK a \in Addr : a = at[c].addr
    BY <1>1, <1>b DEF Obtain
  <2>t. PICK todo \in SUBSET Addr : todo = {b \in Later(c, a) : wantToLock[c][b] > 0}
    BY <1>0 DEF Later, MutexTypeOK
  <2>2. /\ mutex[a] = NoConn /\ mutex'[a] = c
        /\ \A b \in Addr \ {a} : mutex'[b] = mutex[b]
        /\ locked'[c] = locked[c] \cup {a}
        /\ \A d \in Conn \ {c} : locked'[d] = locked[d]
        /\ wantToLock' = wantToLock /\ handle' = handle
    BY <2>1, <1>0, <1>1 DEF Obtain, lockBtreeMutex, MutexTypeOK
  <2>3. /\ \A d \in Conn \ {c} : at'[d] = at[d]
        /\ \/ todo = {} /\ at'[c] = Entered(a, at[c].then)
           \/ todo # {} /\ at'[c] = [at[c] EXCEPT !.step = "relock", !.todo = todo]
    BY <2>1, <2>t, <1>0, <1>1 DEF Obtain, MutexTypeOK
  <2>4. /\ wantToLock[c][a] > 0 /\ \A b \in locked[c] : b < a
        /\ \A b \in Addr : wantToLock[c][b] > 0 => b \in locked[c] \/ b >= a
        /\ at[c].then # "idle" => wantToLock[c][a] = 1
    BY <2>1, <1>1, <1>c DEF Obtain, Holding
  <2>5. /\ \A b \in Addr : b \in locked'[c] <=> mutex'[b] = c
        /\ \A b \in Addr : wantToLock'[c][b] > 0 => b \in handle'[c]
        /\ \A b \in locked'[c] : wantToLock'[c][b] > 0
    BY <2>2, <2>4, <1>c, <1>d DEF Holding
  <2>6. \A b \in Addr : b \in todo <=> b > a /\ wantToLock[c][b] > 0
    BY <2>t, <1>0, <1>c DEF Later, MutexTypeOK, Holding
  <2>7. ASSUME todo = {} /\ at'[c] = Entered(a, at[c].then)
        PROVE  Holding(c)'
    <3>1. at'[c].step = at[c].then /\ (at[c].then # "idle" => at'[c].addr = a)
      BY <2>7 DEF Entered, Idle
    <3>2. \A b \in Addr : wantToLock'[c][b] > 0 => b \in locked'[c]
      BY <2>2, <2>4, <2>6, <2>7, <1>d
    <3>3. at'[c].step # "idle" =>
            at'[c].addr \in locked'[c] /\ wantToLock'[c][at'[c].addr] = 1
      BY <2>2, <2>4, <3>1
    <3>4. at'[c].step \in {"idle", "schema", "close"}
      BY <3>1, <1>a
    <3> QED
      BY <2>5, <3>2, <3>3, <3>4 DEF Holding
  <2>8. ASSUME todo # {} /\ at'[c] = [at[c] EXCEPT !.step = "relock", !.todo = todo]
        PROVE  Holding(c)'
    <3>1. /\ at'[c].step = "relock" /\ at'[c].addr = a
          /\ at'[c].then = at[c].then /\ at'[c].todo = todo
      BY <2>1, <2>8, <1>a DEF Place
    <3>2. \A b \in Addr : wantToLock'[c][b] > 0 => b \in locked'[c] \/ b \in todo
      BY <2>2, <2>4, <2>6, <1>d
    <3>3. \A b \in locked'[c], d \in todo : b < d /\ wantToLock'[c][d] > 0
      BY <2>2, <2>4, <2>6, <1>d
    <3>4. at'[c].todo # {} /\ at'[c].addr \in locked'[c]
      BY <2>2, <2>8, <3>1
    <3>5. at'[c].then # "idle" => wantToLock'[c][at'[c].addr] = 1
      BY <2>2, <2>4, <3>1
    <3>6. /\ \A b \in locked'[c], d \in at'[c].todo : b < d /\ wantToLock'[c][d] > 0
          /\ \A b \in Addr : wantToLock'[c][b] > 0 => b \in locked'[c] \/ b \in at'[c].todo
      BY <3>1, <3>2, <3>3
    <3> QED
      BY <2>5, <3>1, <3>4, <3>5, <3>6 DEF Holding
  <2>9. ASSUME NEW d \in Conn \ {c} PROVE Holding(d)'
    <3>1. Holding(d) /\ \A b \in Addr : mutex'[b] = d <=> mutex[b] = d
      BY <2>2, <1>0, <1>d DEF LockInv
    <3> QED
      BY <2>2, <2>3, <3>1, LockOthers
  <2> QED
    BY <2>3, <2>7, <2>8, <2>9, <1>e
<1>2. CASE Relock(c)
  <2>1. PICK a \in at[c].todo :
          /\ \A d \in at[c].todo : a <= d
          /\ lockBtreeMutex(c, a)
          /\ at' = [at EXCEPT ![c] = IF at[c].todo = {a} THEN Entered(at[c].addr, at[c].then)
                                    ELSE [at[c] EXCEPT !.todo = at[c].todo \ {a}]]
    BY <1>2 DEF Relock
  <2>2. /\ mutex[a] = NoConn /\ mutex'[a] = c
        /\ \A b \in Addr \ {a} : mutex'[b] = mutex[b]
        /\ locked'[c] = locked[c] \cup {a}
        /\ \A d \in Conn \ {c} : locked'[d] = locked[d]
        /\ wantToLock' = wantToLock /\ handle' = handle
    BY <2>1, <1>0, <1>2, <1>a DEF Relock, lockBtreeMutex, MutexTypeOK
  <2>3. /\ \A d \in Conn \ {c} : at'[d] = at[d]
        /\ \/ at[c].todo = {a} /\ at'[c] = Entered(at[c].addr, at[c].then)
           \/ at[c].todo # {a} /\ at'[c] = [at[c] EXCEPT !.todo = at[c].todo \ {a}]
    BY <2>1, <1>0 DEF MutexTypeOK
  <2>4. /\ at[c].step = "relock" /\ at[c].addr \in locked[c]
        /\ \A b \in at[c].todo : wantToLock[c][b] > 0
        /\ \A b \in locked[c], d \in at[c].todo : b < d
        /\ \A b \in Addr : wantToLock[c][b] > 0 => b \in locked[c] \/ b \in at[c].todo
        /\ at[c].then # "idle" => wantToLock[c][at[c].addr] = 1
    BY <1>2, <1>c DEF Relock, Holding
  <2>5. /\ \A b \in Addr : b \in locked'[c] <=> mutex'[b] = c
        /\ \A b \in Addr : wantToLock'[c][b] > 0 => b \in handle'[c]
        /\ \A b \in locked'[c] : wantToLock'[c][b] > 0
    BY <2>2, <2>4, <1>a, <1>c, <1>d DEF Holding
  <2>7. ASSUME at[c].todo = {a} /\ at'[c] = Entered(at[c].addr, at[c].then)
        PROVE  Holding(c)'
    <3>1. at'[c].step = at[c].then /\ (at[c].then # "idle" => at'[c].addr = at[c].addr)
      BY <2>7 DEF Entered, Idle
    <3>2. \A b \in Addr : wantToLock'[c][b] > 0 => b \in locked'[c]
      BY <2>2, <2>4, <2>7
    <3>3. at'[c].step # "idle" =>
            at'[c].addr \in locked'[c] /\ wantToLock'[c][at'[c].addr] = 1
      BY <2>2, <2>4, <3>1
    <3>4. at'[c].step \in {"idle", "schema", "close"}
      BY <3>1, <1>a
    <3> QED
      BY <2>5, <3>2, <3>3, <3>4 DEF Holding
  <2>8. ASSUME at[c].todo # {a} /\ at'[c] = [at[c] EXCEPT !.todo = at[c].todo \ {a}]
        PROVE  Holding(c)'
    <3>1. /\ at'[c].step = "relock" /\ at'[c].addr = at[c].addr
          /\ at'[c].then = at[c].then /\ at'[c].todo = at[c].todo \ {a}
      BY <2>4, <2>8, <1>a DEF Place
    <3>2. \A b \in Addr : wantToLock'[c][b] > 0 => b \in locked'[c] \/ b \in at'[c].todo
      BY <2>2, <2>4, <3>1
    <3>3. \A b \in locked'[c], d \in at'[c].todo : b < d /\ wantToLock'[c][d] > 0
      BY <2>1, <2>2, <2>4, <3>1, <1>a, <1>d
    <3>4. at'[c].todo # {} /\ at'[c].addr \in locked'[c]
      BY <2>2, <2>4, <2>8, <3>1
    <3>5. at'[c].then # "idle" => wantToLock'[c][at'[c].addr] = 1
      BY <2>2, <2>4, <3>1
    <3> QED
      BY <2>5, <3>1, <3>2, <3>3, <3>4, <3>5 DEF Holding
  <2>9. ASSUME NEW d \in Conn \ {c} PROVE Holding(d)'
    <3>1. Holding(d) /\ \A b \in Addr : mutex'[b] = d <=> mutex[b] = d
      BY <2>2, <1>0, <1>d DEF LockInv
    <3> QED
      BY <2>2, <2>3, <3>1, LockOthers
  <2> QED
    BY <2>3, <2>7, <2>8, <2>9, <1>e
<1>3. ASSUME NEW a \in Addr, Enter(c, a) PROVE LockInv'
  <2>1. /\ at[c].step = "idle" /\ a \in handle[c] /\ EnterThen(c, a, "idle")
        /\ UNCHANGED handle
    BY <1>3 DEF Enter
  <2>2. Holding(c)' /\ \A d \in Conn \ {c} : Holding(d) => Holding(d)'
    BY <2>1, <1>0, <1>c, EnterHolding
  <2> QED
    BY <2>2, <1>0, <1>e DEF LockInv
<1>4. ASSUME NEW a \in Addr, Leave(c, a) PROVE LockInv'
  <2>1. /\ at[c].step = "idle" /\ wantToLock[c][a] > 0 /\ UNCHANGED <<handle, at>>
        /\ wantToLock'[c][a] = wantToLock[c][a] - 1
        /\ \A b \in Addr \ {a} : wantToLock'[c][b] = wantToLock[c][b]
        /\ \A d \in Conn \ {c} : wantToLock'[d] = wantToLock[d]
    BY <1>0, <1>4 DEF Leave, MutexTypeOK
  <2>2. /\ \A b \in Addr : b \in locked'[c] <=>
                b \in locked[c] /\ ~(b = a /\ wantToLock[c][a] = 1)
        /\ \A b \in Addr : mutex'[b] = IF b = a /\ wantToLock[c][a] = 1 THEN NoConn ELSE mutex[b]
        /\ \A d \in Conn \ {c} : locked'[d] = locked[d]
        /\ locked'[c] \subseteq Addr
    BY <1>0, <1>4 DEF Leave, unlockBtreeMutexes, MutexTypeOK
  <2>3. mutex[a] = c /\ a \in locked[c]
    BY <2>1, <1>c DEF Holding
  <2>4. /\ \A b \in Addr : b \in locked'[c] <=> mutex'[b] = c
        /\ \A b \in locked'[c] : wantToLock'[c][b] > 0
        /\ \A b \in Addr : wantToLock'[c][b] > 0 => b \in locked'[c] /\ b \in handle'[c]
    BY <2>1, <2>2, <1>c, <1>d DEF Holding
  <2>5. Holding(c)'
    BY <2>1, <2>4 DEF Holding
  <2>6. ASSUME NEW d \in Conn \ {c} PROVE Holding(d)'
    <3>1. Holding(d) /\ \A b \in Addr : mutex'[b] = d <=> mutex[b] = d
      BY <2>2, <2>3, <1>0, <1>d DEF LockInv
    <3> QED
      BY <2>1, <2>2, <3>1, LockOthers
  <2> QED
    BY <2>5, <2>6, <1>e
<1>5. ASSUME NEW a \in Addr, Close(c, a) PROVE LockInv'
  <2>1. /\ at[c].step = "idle" /\ a \in handle[c] /\ EnterThen(c, a, "close")
        /\ wantToLock[c][a] = 0 /\ UNCHANGED handle
    BY <1>5 DEF Close
  <2>2. Holding(c)' /\ \A d \in Conn \ {c} : Holding(d) => Holding(d)'
    BY <2>1, <1>0, <1>c, EnterHolding
  <2> QED
    BY <2>2, <1>0, <1>e DEF LockInv
<1>10. CASE Link(c)
  <2>1. PICK a \in handle[c] : a = at[c].addr
    BY <1>10, <1>b DEF Link
  <2>2. /\ at[c].step = "link" /\ EnterThen(c, a, "schema") /\ a \in Addr
        /\ UNCHANGED handle
    BY <2>1, <1>10, <1>b DEF Link
  <2>3. wantToLock[c][a] = 0
    BY <2>2, <1>c DEF Holding
  <2>4. Holding(c)' /\ \A d \in Conn \ {c} : Holding(d) => Holding(d)'
    BY <2>2, <2>3, <1>0, <1>c, EnterHolding
  <2> QED
    BY <2>4, <1>0, <1>e DEF LockInv
<1>6. ASSUME NEW f \in File, Open(c, f) PROVE LockInv'
  <2>1. /\ at[c].step = "idle" /\ \A a \in Addr : wantToLock[c][a] = 0
        /\ UNCHANGED <<mutex, handle, wantToLock, locked>>
    BY <1>6 DEF Open, Assumed
  <2>2. /\ at'[c] = [Idle EXCEPT !.step = "open", !.file = f]
        /\ \A d \in Conn \ {c} : at'[d] = at[d]
    BY <1>0, <1>6 DEF Open, MutexTypeOK
  <2>3. at'[c].step = "open"
    BY <2>2 DEF Idle
  <2>4. Holding(c)'
    BY <2>1, <2>3, <1>c DEF Holding
  <2>5. \A d \in Conn \ {c} : Holding(d)'
    BY <2>1, <2>2, <1>0, LockOthers DEF LockInv
  <2> QED
    BY <2>4, <2>5, <1>e
<1>7. CASE OpenMutex(c)
  <2>1. at[c].step = "open" /\ UNCHANGED <<mutex, handle, wantToLock, locked>>
    BY <1>7 DEF OpenMutex
  <2>2. /\ at'[c] = [at[c] EXCEPT !.step = "find"]
        /\ \A d \in Conn \ {c} : at'[d] = at[d]
    BY <1>0, <1>7 DEF OpenMutex, MutexTypeOK
  <2>3. at'[c].step = "find"
    BY <2>2, <1>a DEF Place
  <2>4. Holding(c)'
    BY <2>1, <2>3, <1>c DEF Holding
  <2>5. \A d \in Conn \ {c} : Holding(d)'
    BY <2>1, <2>2, <1>0, LockOthers DEF LockInv
  <2> QED
    BY <2>4, <2>5, <1>e
<1>8. CASE Find(c)
  <2>1. at[c].step = "find" /\ UNCHANGED <<mutex, wantToLock, locked>>
    BY <1>8 DEF Find
  <2>2. PICK p : /\ at' = [at EXCEPT ![c] = p]
                 /\ p.step \in {"idle", "link", "create"}
    <3>1. \/ at' = [at EXCEPT ![c] = Idle]
          \/ \E a \in Addr : at' = [at EXCEPT ![c] = [Idle EXCEPT !.step = "link", !.addr = a]]
          \/ at' = [at EXCEPT ![c] = [at[c] EXCEPT !.step = "create"]]
      BY <1>8 DEF Find
    <3>2. /\ Idle.step = "idle"
          /\ \A a \in Addr : [Idle EXCEPT !.step = "link", !.addr = a].step = "link"
          /\ [at[c] EXCEPT !.step = "create"].step = "create"
      BY <1>a DEF Idle, Place
    <3> QED
      BY <3>1, <3>2
  <2>3. at'[c].step \in {"idle", "link", "create"} /\ \A d \in Conn \ {c} : at'[d] = at[d]
    BY <2>2, <1>0 DEF MutexTypeOK
  <2>4. handle[c] \subseteq handle'[c] /\ \A d \in Conn \ {c} : handle'[d] = handle[d]
    <3>1. handle' = handle \/ \E a \in Addr : handle' = [handle EXCEPT ![c] = @ \cup {a}]
      BY <1>8 DEF Find
    <3> QED
      BY <3>1, <1>0 DEF MutexTypeOK
  <2>5. Holding(c)'
    BY <2>1, <2>3, <2>4, <1>c, <1>d DEF Holding
  <2>6. \A d \in Conn \ {c} : Holding(d)'
    BY <2>1, <2>3, <2>4, <1>0, LockOthers DEF LockInv
  <2> QED
    BY <2>5, <2>6, <1>e
<1>9. CASE Create(c)
  <2>1. at[c].step = "create" /\ UNCHANGED <<wantToLock, locked>>
    BY <1>9 DEF Create
  <2>2. PICK p : /\ at' = [at EXCEPT ![c] = p]
                 /\ p.step \in {"idle", "link"}
    <3>1. \/ at' = [at EXCEPT ![c] = Idle]
          \/ \E a \in Addr : at' = [at EXCEPT ![c] = [Idle EXCEPT !.step = "link", !.addr = a]]
      BY <1>9 DEF Create
    <3>2. /\ Idle.step = "idle"
          /\ \A a \in Addr : [Idle EXCEPT !.step = "link", !.addr = a].step = "link"
      BY DEF Idle
    <3> QED
      BY <3>1, <3>2
  <2>3. at'[c].step \in {"idle", "link"} /\ \A d \in Conn \ {c} : at'[d] = at[d]
    BY <2>2, <1>0 DEF MutexTypeOK
  <2>4. handle[c] \subseteq handle'[c] /\ \A d \in Conn \ {c} : handle'[d] = handle[d]
    <3>1. handle' = handle \/ \E a \in Addr : handle' = [handle EXCEPT ![c] = @ \cup {a}]
      BY <1>9 DEF Create
    <3> QED
      BY <3>1, <1>0 DEF MutexTypeOK
  <2>5. \A d \in Conn, b \in Addr : mutex'[b] = d <=> mutex[b] = d
    <3>1. mutex' = mutex \/ \E a \in Addr : cache[a] = NoFile /\ mutex' = [mutex EXCEPT ![a] = NoConn]
      BY <1>9 DEF Create
    <3>2. \A d \in Conn, a \in Addr : cache[a] = NoFile => mutex[a] # d
      BY <1>0 DEF LockInv, Holding, ListInv
    <3> QED
      BY <3>1, <3>2, <1>0, <1>d DEF MutexTypeOK
  <2>6. Holding(c)'
    BY <2>1, <2>3, <2>4, <2>5, <1>c, <1>d DEF Holding
  <2>7. ASSUME NEW d \in Conn \ {c} PROVE Holding(d)'
    <3>1. Holding(d) /\ \A b \in Addr : mutex'[b] = d <=> mutex[b] = d
      BY <2>5, <1>0 DEF LockInv
    <3> QED
      BY <2>1, <2>3, <2>4, <3>1, LockOthers
  <2> QED
    BY <2>6, <2>7, <1>e
<1>11. ASSUME Opened(c) \/ Closing(c) PROVE LockInv'
  <2>1. PICK a \in Addr : a = at[c].addr
    BY <1>11, <1>b DEF Opened, Closing
  <2>2. /\ at[c].step \in {"schema", "close"} /\ a \in locked[c] /\ mutex[a] = c
        /\ \A b \in Addr : wantToLock[c][b] > 0 => b \in locked[c]
    BY <2>1, <1>11, <1>c DEF Opened, Closing, Holding
  <2>3. /\ wantToLock' = [wantToLock EXCEPT ![c][a] = 0] /\ unlockBtreeMutexes(c, {a})
        /\ handle' = handle
    BY <2>1, <1>11 DEF Opened, Closing
  <2>4. /\ wantToLock'[c][a] = 0 /\ \A b \in Addr \ {a} : wantToLock'[c][b] = wantToLock[c][b]
        /\ \A d \in Conn \ {c} : wantToLock'[d] = wantToLock[d]
        /\ locked'[c] = locked[c] \ {a} /\ \A d \in Conn \ {c} : locked'[d] = locked[d]
        /\ \A b \in Addr : mutex'[b] = IF b = a THEN NoConn ELSE mutex[b]
    BY <2>3, <1>0 DEF unlockBtreeMutexes, MutexTypeOK
  <2>5. /\ \A d \in Conn \ {c} : at'[d] = at[d]
        /\ at'[c].step = "idle" \/ (at'[c].step = "unref" /\ at'[c].addr = a)
    <3>1. CASE Opened(c)
      BY <3>1, <1>f DEF Opened
    <3>2. CASE Closing(c)
      <4>1. at'[c] = [at[c] EXCEPT !.step = "unref"] /\ \A d \in Conn \ {c} : at'[d] = at[d]
        BY <3>2, <1>0 DEF Closing, MutexTypeOK
      <4> QED
        BY <4>1, <2>1, <1>a DEF Place
    <3> QED
      BY <1>11, <3>1, <3>2
  <2>6. /\ \A b \in Addr : b \in locked'[c] <=> mutex'[b] = c
        /\ \A b \in locked'[c] : wantToLock'[c][b] > 0
        /\ \A b \in Addr : wantToLock'[c][b] > 0 => b \in locked'[c] /\ b \in handle'[c]
    BY <2>2, <2>3, <2>4, <1>c, <1>d DEF Holding
  <2>7. Holding(c)'
    BY <2>4, <2>5, <2>6 DEF Holding
  <2>8. ASSUME NEW d \in Conn \ {c} PROVE Holding(d)'
    <3>1. Holding(d) /\ \A b \in Addr : mutex'[b] = d <=> mutex[b] = d
      BY <2>2, <2>4, <1>0, <1>d DEF LockInv
    <3> QED
      BY <2>3, <2>4, <2>5, <3>1, LockOthers
  <2> QED
    BY <2>7, <2>8, <1>e
<1>12. CASE Unref(c)
  <2>1. /\ at[c].step = "unref" /\ wantToLock[c][at[c].addr] = 0
        /\ UNCHANGED <<mutex, wantToLock, locked>>
    BY <1>12, <1>c DEF Unref, Holding
  <2>2. at'[c].step = "idle" /\ \A d \in Conn \ {c} : at'[d] = at[d]
    BY <1>12, <1>f DEF Unref
  <2>3. /\ handle'[c] = handle[c] \ {at[c].addr}
        /\ \A d \in Conn \ {c} : handle'[d] = handle[d]
    BY <1>12, <1>0 DEF Unref, MutexTypeOK
  <2>4. \A a \in Addr : wantToLock'[c][a] > 0 => a \in handle'[c]
    BY <2>1, <2>3, <1>c DEF Holding
  <2>5. Holding(c)'
    BY <2>1, <2>2, <2>4, <1>c DEF Holding
  <2>6. \A d \in Conn \ {c} : Holding(d)'
    BY <2>1, <2>2, <2>3, <1>0, LockOthers DEF LockInv
  <2> QED
    BY <2>5, <2>6, <1>e
<1> QED
  BY <1>1, <1>2, <1>3, <1>4, <1>5, <1>6, <1>7, <1>8, <1>9, <1>10, <1>11, <1>12
     DEF MutexStep

-----------------------------------------------------------------------------
(* The invariant is inductive.                                             *)
THEOREM BtMutexInductive == ASSUME Assumed PROVE BtMutexSpec => []BtMutexInv
<1>1. ASSUME BtMutexInv, [BtMutexNext]_mutexVars PROVE BtMutexInv'
  <2>1. ASSUME NEW c \in Conn, MutexStep(c) \/ Closing(c) PROVE BtMutexInv'
    BY <1>1, <2>1, TypeStep, ListStep, LockStep DEF BtMutexInv
  <2>2. CASE UNCHANGED mutexVars
    <3>1. MutexTypeOK'
      BY <1>1, <2>2 DEF BtMutexInv, MutexTypeOK, mutexVars
    <3>2. ListInv'
      BY <1>1, <2>2 DEF BtMutexInv, ListInv, Opening, Users, mutexVars
    <3>3. LockInv'
      BY <1>1, <2>2 DEF BtMutexInv, LockInv, Holding, mutexVars
    <3> QED
      BY <3>1, <3>2, <3>3 DEF BtMutexInv
  <2> QED
    BY <1>1, <2>1, <2>2 DEF BtMutexNext
<1> QED
  BY <1>1, Initially, PTL DEF BtMutexSpec

(* Threads that open a file at the same time share one BtShared, and one   *)
(* that is freed is no connection's any more.                              *)
THEOREM CacheShared == ASSUME Assumed PROVE BtMutexSpec => []OneCache
<1>1. BtMutexInv => OneCache
  BY DEF BtMutexInv, ListInv, OneCache, Users
<1> QED
  BY <1>1, BtMutexInductive, PTL

(* A connection holds what it has entered, whatever it let go of meanwhile. *)
THEOREM EnteredHeld == ASSUME Assumed PROVE BtMutexSpec => []HoldsWhatItEntered
<1>1. BtMutexInv => HoldsWhatItEntered
  BY DEF BtMutexInv, LockInv, Holding, HoldsWhatItEntered
<1> QED
  BY <1>1, BtMutexInductive, PTL

-----------------------------------------------------------------------------
(* Who waits, waits for a mutex larger than all that it holds.             *)
LEMMA AwaitsLarger ==
  ASSUME BtMutexInv, NEW c \in Conn, Waiting(c)
  PROVE  /\ Awaited(c) \in 0 .. NShared
         /\ \A a \in Addr : mutex[a] = c => a < Awaited(c)
         /\ openMutex = c => 0 < Awaited(c)
<1>0. MutexTypeOK /\ ListInv /\ Holding(c) /\ NShared \in Nat
  BY Constants DEF BtMutexInv, LockInv
<1>a. at[c].todo \in SUBSET Addr /\ handle[c] \in SUBSET Addr
  BY <1>0, Places DEF MutexTypeOK
<1>1. CASE at[c].step = "open"
  <2>1. Awaited(c) = 0
    BY <1>1 DEF Awaited
  <2>2. \A a \in Addr : mutex[a] # c
    BY <1>0, <1>1 DEF Holding
  <2>3. openMutex # c
    BY <1>0, <1>1 DEF ListInv, Opening
  <2> QED
    BY <1>0, <2>1, <2>2, <2>3
<1>2. CASE at[c].step = "wait"
  <2>1. Awaited(c) = at[c].addr /\ at[c].addr \in Addr
    BY <1>0, <1>2, <1>a DEF Awaited, ListInv
  <2>2. \A a \in Addr : mutex[a] = c => a < at[c].addr
    BY <1>0, <1>2 DEF Holding
  <2> QED
    BY <1>0, <2>1, <2>2 DEF Addr
<1>3. CASE at[c].step = "relock"
  <2>1. Awaited(c) = CHOOSE b \in at[c].todo : \A d \in at[c].todo : b <= d
    BY <1>3 DEF Awaited
  <2>2. at[c].todo \in SUBSET (0 .. NShared) /\ at[c].todo # {}
    BY <1>0, <1>3, <1>a DEF Holding, Addr
  <2>3. \E b \in at[c].todo : \A d \in at[c].todo : b <= d
    BY <1>0, <2>2, Least
  <2>4. Awaited(c) \in at[c].todo
    BY <2>1, <2>3
  <2>5. \A a \in Addr : mutex[a] = c => a < Awaited(c)
    BY <1>0, <1>3, <2>4 DEF Holding
  <2> QED
    BY <1>0, <1>a, <2>4, <2>5 DEF Addr
<1> QED
  BY <1>1, <1>2, <1>3 DEF Waiting

(* No set of connections waits for one another's mutexes: the largest that *)
(* is waited for is held by one that does not wait for a larger one.       *)
THEOREM DeadlockFree == ASSUME Assumed PROVE BtMutexSpec => []NoDeadlock
<1>1. ASSUME BtMutexInv, NEW S \in SUBSET Conn, S # {},
             \A c \in S : Waiting(c) /\ Holder(Awaited(c)) \in S
      PROVE  FALSE
  <2> DEFINE T == {Awaited(c) : c \in S}
  <2>1. T \in SUBSET (0 .. NShared) /\ T # {}
    <3>1. \A c \in S : Awaited(c) \in 0 .. NShared
      BY <1>1, AwaitsLarger
    <3> QED
      BY <1>1, <3>1
  <2>2. \E x \in T : \A y \in T : y <= x
    <3> HIDE DEF T
    <3> QED
      BY <2>1, Constants, Greatest
  <2>3. PICK c \in S : \A d \in S : Awaited(d) <= Awaited(c)
    BY <2>2
  <2>4. PICK d \in S : d = Holder(Awaited(c))
    BY <1>1
  <2>5. Awaited(c) \in 0 .. NShared /\ Awaited(d) \in 0 .. NShared
    BY <1>1, AwaitsLarger
  <2>6. Awaited(c) < Awaited(d)
    <3>1. /\ \A a \in Addr : mutex[a] = d => a < Awaited(d)
          /\ openMutex = d => 0 < Awaited(d)
      BY <1>1, AwaitsLarger
    <3>2. Awaited(c) = 0 \/ Awaited(c) \in Addr
      BY <2>5, Constants DEF Addr
    <3> QED
      BY <2>4, <3>1, <3>2 DEF Holder
  <2> QED
    BY <2>3, <2>5, <2>6, Constants
<1>2. BtMutexInv => NoDeadlock
  BY <1>1 DEF NoDeadlock
<1> QED
  BY <1>2, BtMutexInductive, PTL

-----------------------------------------------------------------------------
(* SharedCache.                                                            *)
SharedTypeOK ==
  /\ inTrans \in [Conn -> [Addr -> 0 .. 2]]
  /\ tableLock \in [Conn -> [Addr -> [Table -> 0 .. 2]]]
  /\ inTransaction \in [Addr -> 0 .. 2]
  /\ nTransaction \in [Addr -> Int]
  /\ pWriter \in [Addr -> Conn \cup {NoConn}]
  /\ exclusive \in [Addr -> BOOLEAN]
  /\ pending \in [Addr -> BOOLEAN]

Active(a) == {c \in Conn : inTrans[c][a] # None}

(* The transactions on a BtShared: who has one has sqlite_master locked,   *)
(* the writer is the one that BtShared names, and who is waited for has a  *)
(* transaction.                                                            *)
Trans(a) ==
  /\ nTransaction[a] = Cardinality(Active(a))
  /\ \A c \in Conn : inTrans[c][a] # None => tableLock[c][a][1] # None
  /\ \A c \in Conn : \A t \in Table : tableLock[c][a][t] # None => inTrans[c][a] # None
  /\ \A c \in Conn : pWriter[a] = c <=> inTrans[c][a] = Write
  /\ inTransaction[a] = Write <=> pWriter[a] # NoConn
  /\ \A c \in Conn : \A t \in Table : tableLock[c][a][t] = Write => pWriter[a] = c
  /\ \A c, d \in Conn : \A t \in Table :
       c # d /\ tableLock[c][a][t] = Write => tableLock[d][a][t] = None
  /\ exclusive[a] => \A d \in Conn : d # pWriter[a] => inTrans[d][a] = None
  /\ pending[a] =>
       pWriter[a] # NoConn /\ \E d \in Conn : d # pWriter[a] /\ inTrans[d][a] # None

(* Transactions are of open handles.                                       *)
HandleInv ==
  \A c \in Conn :
    /\ \A a \in Addr : inTrans[c][a] # None => a \in handle[c]
    /\ at[c].step = "unref" => inTrans[c][at[c].addr] = None

SharedInv == SharedTypeOK /\ HandleInv /\ \A a \in Addr : Trans(a)

-----------------------------------------------------------------------------
LEMMA Tables == 1 \in Table /\ None = 0 /\ Read = 1 /\ Write = 2
BY SharedCacheAssumption DEF Table, None, Read, Write

(* A BtShared that a step does not touch.                                  *)
Untouched(b) ==
  /\ \A d \in Conn : inTrans'[d][b] = inTrans[d][b] /\ tableLock'[d][b] = tableLock[d][b]
  /\ inTransaction'[b] = inTransaction[b] /\ nTransaction'[b] = nTransaction[b]
  /\ pWriter'[b] = pWriter[b] /\ exclusive'[b] = exclusive[b] /\ pending'[b] = pending[b]

LEMMA TransOthers ==
  ASSUME NEW b \in Addr, Trans(b), Untouched(b)
  PROVE  Trans(b)'
<1>1. Active(b)' = Active(b)
  BY DEF Active, Untouched
<1> QED
  BY <1>1 DEF Trans, Untouched

(* The connections with a transaction, when one begins or ends.            *)
LEMMA ActiveFinite ==
  ASSUME NEW a
  PROVE  IsFiniteSet(Active(a)) /\ Cardinality(Active(a)) \in Nat
<1>1. IsFiniteSet(Active(a))
  BY Constants, FS_Subset DEF Active
<1> QED
  BY <1>1, FS_CardinalityType

(* sqlite3BtreeBeginTrans                                                  *)
LEMMA BeginKeeps ==
  ASSUME SharedTypeOK, \A b \in Addr : Trans(b), NEW c \in Conn, NEW a \in Addr,
         NEW wrflag \in 0 .. 2, BeginTrans(c, a, wrflag)
  PROVE  /\ SharedTypeOK' /\ \A b \in Addr : Trans(b)'
         /\ \A d \in Conn, b \in Addr :
              inTrans'[d][b] # None => inTrans[d][b] # None \/ (d = c /\ b = a)
<1> DEFINE kind == IF wrflag > 0 THEN Write ELSE Read
<1>0. /\ inTrans \in [Conn -> [Addr -> 0 .. 2]]
      /\ tableLock \in [Conn -> [Addr -> [Table -> 0 .. 2]]]
      /\ inTransaction \in [Addr -> 0 .. 2] /\ nTransaction \in [Addr -> Int]
      /\ pWriter \in [Addr -> Conn \cup {NoConn}]
      /\ exclusive \in [Addr -> BOOLEAN] /\ pending \in [Addr -> BOOLEAN]
      /\ kind \in 0 .. 2 /\ NoConn \notin Conn
  BY Constants DEF SharedTypeOK, Read, Write
<1>1. /\ inTrans' = [inTrans EXCEPT ![c][a] = kind]
      /\ inTransaction' = [inTransaction EXCEPT ![a] =
            IF kind > inTransaction[a] THEN kind ELSE inTransaction[a]]
      /\ pending' = pending
  BY DEF BeginTrans
<1>2. \/ /\ inTrans[c][a] = None
         /\ nTransaction' = [nTransaction EXCEPT ![a] = nTransaction[a] + 1]
         /\ tableLock' = [tableLock EXCEPT ![c][a][1] = Read]
      \/ /\ inTrans[c][a] # None
         /\ nTransaction' = nTransaction /\ tableLock' = tableLock
  BY DEF BeginTrans
<1>3. \/ /\ wrflag > 0 /\ pWriter' = [pWriter EXCEPT ![a] = c]
         /\ exclusive' = [exclusive EXCEPT ![a] = wrflag > 1]
      \/ /\ wrflag = 0 /\ pWriter' = pWriter /\ exclusive' = exclusive
  BY DEF BeginTrans
<1>4. /\ inTrans' \in [Conn -> [Addr -> 0 .. 2]]
      /\ inTransaction' \in [Addr -> 0 .. 2]
      /\ pending' \in [Addr -> BOOLEAN]
  BY <1>0, <1>1
<1>t. PICK e \in [Table -> 0 .. 2] :
        /\ inTrans[c][a] = None => e[1] = Read
        /\ \A t \in Table : t # 1 \/ inTrans[c][a] # None => e[t] = tableLock[c][a][t]
        /\ tableLock' = [tableLock EXCEPT ![c][a] = e]
  <2>1. CASE inTrans[c][a] = None
    <3> DEFINE e == [tableLock[c][a] EXCEPT ![1] = Read]
    <3>1. e \in [Table -> 0 .. 2] /\ e[1] = Read /\ \A t \in Table : t # 1 => e[t] = tableLock[c][a][t]
      BY <1>0, Tables
    <3>2. tableLock' = [tableLock EXCEPT ![c][a] = e]
      BY <1>2, <2>1
    <3> HIDE DEF e
    <3> QED
      BY <2>1, <3>1, <3>2
  <2>2. CASE inTrans[c][a] # None
    BY <1>0, <1>2, <2>2
  <2> QED
    BY <2>1, <2>2
<1>5. tableLock' \in [Conn -> [Addr -> [Table -> 0 .. 2]]] /\ nTransaction' \in [Addr -> Int]
  BY <1>0, <1>t, <1>2
<1>6. pWriter' \in [Addr -> Conn \cup {NoConn}] /\ exclusive' \in [Addr -> BOOLEAN]
  <2>1. pWriter' \in [Addr -> Conn \cup {NoConn}]
    BY <1>0, <1>3
  <2>2. (wrflag > 1) \in BOOLEAN
    OBVIOUS
  <2>3. exclusive' \in [Addr -> BOOLEAN]
    BY <1>0, <1>3, <2>2
  <2> QED
    BY <2>1, <2>3
<1>7. SharedTypeOK'
  BY <1>4, <1>5, <1>6 DEF SharedTypeOK
<1>8. /\ inTrans'[c][a] = kind
      /\ \A d \in Conn, b \in Addr : d # c \/ b # a => inTrans'[d][b] = inTrans[d][b]
  BY <1>0, <1>1
<1>9. /\ tableLock'[c][a] = e
      /\ \A d \in Conn, b \in Addr : d # c \/ b # a => tableLock'[d][b] = tableLock[d][b]
  BY <1>0, <1>t
<1>10. \A b \in Addr \ {a} : Untouched(b)
  BY <1>0, <1>1, <1>2, <1>3, <1>8, <1>9 DEF Untouched
<1>a. /\ inTransaction'[a] = IF kind > inTransaction[a] THEN kind ELSE inTransaction[a]
      /\ pending'[a] = pending[a]
      /\ pWriter'[a] = IF wrflag > 0 THEN c ELSE pWriter[a]
  BY <1>0, <1>1, <1>3
<1>n. nTransaction'[a] = IF inTrans[c][a] = None THEN nTransaction[a] + 1 ELSE nTransaction[a]
  BY <1>0, <1>2
<1>x. /\ wrflag = 0 => exclusive' = exclusive
      /\ wrflag > 0 => exclusive'[a] = (wrflag > 1)
  BY <1>0, <1>3
<1>g. /\ inTrans[c][a] # Write /\ (wrflag = 0 => inTrans[c][a] = None)
      /\ wrflag > 0 => inTransaction[a] # Write
      /\ ~pending[a]
      /\ wrflag > 1 => \A d \in Conn \ {c} : tableLock[d][a] = NoLocks
      /\ exclusive[a] => pWriter[a] = c
      /\ \A d \in Conn \ {c} : tableLock[d][a][1] \in {None, Read}
  BY DEF BeginTrans, Blocked, Refused, LockedBy
<1>b. Trans(a)
  OBVIOUS
<1>c. kind = (IF wrflag > 0 THEN 2 ELSE 1) /\ 1 \in Table /\ None = 0 /\ Read = 1 /\ Write = 2
  BY Tables
<1> HIDE DEF kind
<1>d. wrflag > 0 => pWriter[a] = NoConn
  BY <1>0, <1>b, <1>g DEF Trans
<1>11. Trans(a)'
  <2>1. nTransaction'[a] = Cardinality(Active(a)')
    <3>1. CASE inTrans[c][a] = None
      <4>1. Active(a)' = Active(a) \cup {c} /\ c \notin Active(a)
        BY <3>1, <1>8, <1>c DEF Active
      <4> QED
        <5>1. Cardinality(Active(a)') = Cardinality(Active(a)) + 1
          BY <4>1, ActiveFinite, FS_AddElement
        <5> QED
          BY <3>1, <5>1, <1>n, <1>b DEF Trans
    <3>2. CASE inTrans[c][a] # None
      <4>1. Active(a)' = Active(a)
        BY <3>2, <1>8, <1>c DEF Active
      <4> QED
        BY <3>2, <4>1, <1>n, <1>b DEF Trans
    <3> QED
      BY <3>1, <3>2
  <2>2. \A d \in Conn : inTrans'[d][a] # None => tableLock'[d][a][1] # None
    BY <1>8, <1>9, <1>t, <1>b, <1>c DEF Trans
  <2>3. \A d \in Conn : \A t \in Table : tableLock'[d][a][t] # None => inTrans'[d][a] # None
    BY <1>8, <1>9, <1>t, <1>b, <1>c DEF Trans
  <2>4. \A d \in Conn : pWriter'[a] = d <=> inTrans'[d][a] = Write
    BY <1>0, <1>8, <1>a, <1>b, <1>c, <1>d, <1>g DEF Trans
  <2>5. inTransaction'[a] = Write <=> pWriter'[a] # NoConn
    <3>1. (inTransaction[a] = Write <=> pWriter[a] # NoConn) /\ inTransaction[a] \in 0 .. 2
      BY <1>0, <1>b DEF Trans
    <3>2. CASE wrflag > 0
      <4>1. kind = 2 /\ pWriter'[a] = c /\ inTransaction[a] # 2
        BY <3>2, <1>a, <1>c, <1>g
      <4> QED
        BY <3>1, <4>1, <1>0, <1>a, <1>c
    <3>3. CASE wrflag = 0
      <4>1. kind = 1 /\ pWriter'[a] = pWriter[a]
        BY <3>3, <1>a, <1>c
      <4> QED
        BY <3>1, <4>1, <1>a, <1>c
    <3> QED
      BY <3>2, <3>3
  <2>6. \A d \in Conn : \A t \in Table : tableLock'[d][a][t] = Write => pWriter'[a] = d
    BY <1>0, <1>9, <1>t, <1>a, <1>b, <1>c, <1>d, <1>g DEF Trans
  <2>7. \A d, e1 \in Conn : \A t \in Table :
          d # e1 /\ tableLock'[d][a][t] = Write => tableLock'[e1][a][t] = None
    <3>1. \A d \in Conn : \A t \in Table : tableLock'[d][a][t] = Write
            => tableLock[d][a][t] = Write
      BY <1>9, <1>t, <1>c
    <3>2. \A d \in Conn : \A t \in Table : tableLock'[d][a][t] # None
            => tableLock[d][a][t] # None \/ (d = c /\ t = 1)
      BY <1>9, <1>t
    <3>3. \A d \in Conn \ {c} : tableLock[d][a][1] # Write
      BY <1>c, <1>g
    <3> QED
      BY <3>1, <3>2, <3>3, <1>b DEF Trans
  <2>8. exclusive'[a] => \A d \in Conn : d # pWriter'[a] => inTrans'[d][a] = None
    <3>1. wrflag > 1 => \A d \in Conn \ {c} : inTrans[d][a] = None
      BY <1>b, <1>c, <1>g DEF Trans, NoLocks
    <3>2. CASE wrflag = 0
      <4>1. pWriter'[a] = pWriter[a]
        BY <3>2, <1>a
      <4>2. exclusive[a] => pWriter[a] = c /\ \A d \in Conn : d # c => inTrans[d][a] = None
        BY <1>b, <1>g DEF Trans
      <4> QED
        BY <3>2, <4>1, <4>2, <1>8, <1>x
    <3>3. CASE wrflag = 1
      <4>1. wrflag > 0 /\ (wrflag > 1) = FALSE
        BY <3>3
      <4>2. exclusive'[a] = FALSE
        BY <4>1, <1>x
      <4> QED
        BY <4>2
    <3>4. CASE wrflag = 2
      BY <3>1, <3>4, <1>8, <1>a, <1>c
    <3> QED
      BY <3>2, <3>3, <3>4
  <2>9. ~pending'[a]
    BY <1>a, <1>g
  <2> QED
    BY <2>1, <2>2, <2>3, <2>4, <2>5, <2>6, <2>7, <2>8, <2>9 DEF Trans
<1> QED
  BY <1>7, <1>8, <1>10, <1>11, TransOthers

(* sqlite3BtreeLockTable                                                   *)
LEMMA LockKeeps ==
  ASSUME SharedTypeOK, \A b \in Addr : Trans(b), NEW c \in Conn, NEW a \in Addr,
         NEW t \in Table, NEW lock \in {Read, Write}, LockTable(c, a, t, lock)
  PROVE  SharedTypeOK' /\ (\A b \in Addr : Trans(b)') /\ inTrans' = inTrans
<1>0. /\ tableLock \in [Conn -> [Addr -> [Table -> 0 .. 2]]] /\ pending \in [Addr -> BOOLEAN]
      /\ inTrans[c][a] \in 0 .. 2 /\ NoConn \notin Conn
  BY Constants DEF SharedTypeOK
<1>1. /\ inTrans' = inTrans /\ inTransaction' = inTransaction
      /\ nTransaction' = nTransaction /\ pWriter' = pWriter /\ exclusive' = exclusive
  BY DEF LockTable
<1>2. Trans(a) /\ None = 0 /\ Read = 1 /\ Write = 2 /\ inTrans[c][a] >= lock
  BY Tables DEF LockTable
<1>3. \A b \in Addr : Active(b)' = Active(b)
  BY <1>1 DEF Active
<1>4. CASE Refused(c, a, t, lock)
  <2>1. tableLock' = tableLock /\ pending' = [pending EXCEPT ![a] = pending[a] \/ lock = Write]
    BY <1>4 DEF LockTable
  <2>2. pending' \in [Addr -> BOOLEAN] /\ \A b \in Addr \ {a} : pending'[b] = pending[b]
    BY <2>1, <1>0
  <2>3. SharedTypeOK'
    BY <1>1, <2>1, <2>2 DEF SharedTypeOK
  <2>4. \A b \in Addr \ {a} : Trans(b)'
    BY <1>1, <2>1, <2>2, TransOthers DEF Untouched
  <2>5. pending'[a] =>
          pWriter[a] # NoConn /\ \E d \in Conn : d # pWriter[a] /\ inTrans[d][a] # None
    <3>1. CASE lock = Write
      <4>1. pWriter[a] = c /\ c # NoConn
        BY <3>1, <1>0, <1>2 DEF Trans
      <4>2. \E d \in Conn \ {c} : tableLock[d][a][t] # None
        BY <4>1, <1>4 DEF Refused, LockedBy
      <4> QED
        BY <4>1, <4>2, <1>2 DEF Trans
    <3>2. CASE lock # Write
      <4>1. pending'[a] = pending[a]
        BY <3>2, <2>1, <1>0
      <4> QED
        BY <4>1, <1>2 DEF Trans
    <3> QED
      BY <3>1, <3>2
  <2>6. Trans(a)'
    BY <2>1, <2>5, <1>1, <1>2, <1>3 DEF Trans
  <2> QED
    BY <2>3, <2>4, <2>6, <1>1
<1>5. CASE ~Refused(c, a, t, lock)
  <2>1. /\ pending' = pending
        /\ tableLock' = [tableLock EXCEPT ![c][a] =
             [tableLock[c][a] EXCEPT ![t] = IF lock > tableLock[c][a][t] THEN lock
                                            ELSE tableLock[c][a][t]]]
    BY <1>5 DEF LockTable
  <2>2. PICK e \in [Table -> 0 .. 2] :
          /\ \A s \in Table \ {t} : e[s] = tableLock[c][a][s]
          /\ e[t] = IF lock > tableLock[c][a][t] THEN lock ELSE tableLock[c][a][t]
          /\ tableLock' = [tableLock EXCEPT ![c][a] = e]
    <3> DEFINE e == [tableLock[c][a] EXCEPT ![t] = IF lock > tableLock[c][a][t] THEN lock
                                                   ELSE tableLock[c][a][t]]
    <3>1. /\ e \in [Table -> 0 .. 2]
          /\ \A s \in Table \ {t} : e[s] = tableLock[c][a][s]
          /\ e[t] = IF lock > tableLock[c][a][t] THEN lock ELSE tableLock[c][a][t]
      BY <1>0, <1>2
    <3>2. tableLock' = [tableLock EXCEPT ![c][a] = e]
      BY <2>1
    <3> HIDE DEF e
    <3> QED
      BY <3>1, <3>2
  <2>3. /\ tableLock' \in [Conn -> [Addr -> [Table -> 0 .. 2]]]
        /\ tableLock'[c][a] = e
        /\ \A d \in Conn, b \in Addr : d # c \/ b # a => tableLock'[d][b] = tableLock[d][b]
    BY <2>2, <1>0
  <2>4. SharedTypeOK'
    BY <1>1, <2>1, <2>3 DEF SharedTypeOK
  <2>5. \A b \in Addr \ {a} : Trans(b)'
    BY <1>1, <2>1, <2>3, TransOthers DEF Untouched
  <2>6. e[t] # None /\ inTrans[c][a] # None
    BY <2>2, <1>0, <1>2
  <2>7. \A d \in Conn \ {c} : tableLock[d][a][t] \in {None, lock}
    BY <1>5 DEF Refused, LockedBy
  <2>8. e[t] = Write => inTrans[c][a] = Write /\ \A d \in Conn \ {c} : tableLock[d][a][t] = None
    <3>1. CASE tableLock[c][a][t] = Write
      BY <3>1, <1>2 DEF Trans
    <3>2. CASE tableLock[c][a][t] # Write /\ lock = Write
      <4>1. pWriter[a] = c /\ inTrans[c][a] = Write
        BY <3>2, <1>0, <1>2 DEF Trans
      <4>2. \A d \in Conn \ {c} : tableLock[d][a][t] # Write
        BY <4>1, <1>2 DEF Trans
      <4> QED
        BY <3>2, <4>1, <4>2, <2>7
    <3>3. CASE tableLock[c][a][t] # Write /\ lock # Write
      BY <3>3, <2>2
    <3> QED
      BY <3>1, <3>2, <3>3
  <2>9. \A d \in Conn \ {c} : tableLock[d][a][t] = Write => e[t] = None
    <3>1. ASSUME NEW d \in Conn \ {c}, tableLock[d][a][t] = Write PROVE FALSE
      <4>1. lock = Write /\ pWriter[a] = d
        BY <3>1, <2>7, <1>2 DEF Trans
      <4>2. inTrans[c][a] = Write
        BY <4>1, <1>0, <1>2
      <4> QED
        BY <4>1, <4>2, <1>2 DEF Trans
    <3> QED
      BY <3>1
  <2>10. /\ \A d \in Conn : inTrans'[d][a] # None => tableLock'[d][a][1] # None
         /\ \A d \in Conn : \A s \in Table : tableLock'[d][a][s] # None => inTrans'[d][a] # None
    BY <2>2, <2>3, <2>6, <1>1, <1>2, Tables DEF Trans
  <2>11. \A d \in Conn : \A s \in Table : tableLock'[d][a][s] = Write => pWriter'[a] = d
    BY <2>2, <2>3, <2>8, <1>1, <1>2 DEF Trans
  <2>12. \A d, f \in Conn : \A s \in Table :
           d # f /\ tableLock'[d][a][s] = Write => tableLock'[f][a][s] = None
    BY <2>2, <2>3, <2>8, <2>9, <1>2 DEF Trans
  <2>13. Trans(a)'
    BY <2>1, <2>10, <2>11, <2>12, <1>1, <1>2, <1>3 DEF Trans
  <2> QED
    BY <2>4, <2>5, <2>13, <1>1
<1> QED
  BY <1>4, <1>5

(* downgradeAllSharedCacheTableLocks                                       *)
LEMMA DowngradeKeeps ==
  ASSUME SharedTypeOK, \A b \in Addr : Trans(b), NEW c \in Conn, NEW a \in Addr,
         inTrans[c][a] # None, Downgrade(c, a)
  PROVE  /\ SharedTypeOK' /\ \A b \in Addr : Trans(b)'
         /\ \A d \in Conn, b \in Addr : inTrans'[d][b] # None => inTrans[d][b] # None
<1>0. /\ inTrans \in [Conn -> [Addr -> 0 .. 2]]
      /\ tableLock \in [Conn -> [Addr -> [Table -> 0 .. 2]]]
      /\ inTransaction \in [Addr -> 0 .. 2]
      /\ pWriter \in [Addr -> Conn \cup {NoConn}]
      /\ exclusive \in [Addr -> BOOLEAN] /\ pending \in [Addr -> BOOLEAN]
      /\ NoConn \notin Conn
  BY Constants DEF SharedTypeOK
<1>1. /\ inTrans' = [inTrans EXCEPT ![c][a] = Read] /\ nTransaction' = nTransaction
      /\ inTransaction' = [inTransaction EXCEPT ![a] =
            IF inTrans[c][a] = Write THEN Read ELSE inTransaction[a]]
  BY DEF Downgrade
<1>2. Trans(a) /\ None = 0 /\ Read = 1 /\ Write = 2
  BY Tables
<1>3. /\ inTrans' \in [Conn -> [Addr -> 0 .. 2]] /\ inTransaction' \in [Addr -> 0 .. 2]
      /\ inTrans'[c][a] = Read
      /\ \A d \in Conn, b \in Addr : d # c \/ b # a => inTrans'[d][b] = inTrans[d][b]
      /\ \A b \in Addr \ {a} : inTransaction'[b] = inTransaction[b]
  BY <1>0, <1>1, <1>2
<1>4. \A b \in Addr : Active(b)' = Active(b)
  BY <1>2, <1>3 DEF Active
<1>5. \A d \in Conn, b \in Addr : inTrans'[d][b] # None => inTrans[d][b] # None
  BY <1>3
<1>6. CASE pWriter[a] = c
  <2>1. /\ pWriter' = [pWriter EXCEPT ![a] = NoConn]
        /\ exclusive' = [exclusive EXCEPT ![a] = FALSE]
        /\ pending' = [pending EXCEPT ![a] = FALSE]
        /\ tableLock' = [d \in Conn |-> [tableLock[d] EXCEPT ![a] =
              [t \in Table |-> IF tableLock[d][a][t] = None THEN None ELSE Read]]]
    BY <1>6 DEF Downgrade
  <2>2. /\ pWriter' \in [Addr -> Conn \cup {NoConn}] /\ pWriter'[a] = NoConn
        /\ exclusive' \in [Addr -> BOOLEAN] /\ ~exclusive'[a]
        /\ pending' \in [Addr -> BOOLEAN] /\ ~pending'[a]
        /\ \A b \in Addr \ {a} : /\ pWriter'[b] = pWriter[b]
                                /\ exclusive'[b] = exclusive[b] /\ pending'[b] = pending[b]
    BY <2>1, <1>0
  <2>3. ASSUME NEW d \in Conn
        PROVE  /\ tableLock'[d] \in [Addr -> [Table -> 0 .. 2]]
               /\ \A b \in Addr \ {a} : tableLock'[d][b] = tableLock[d][b]
               /\ \A t \in Table : tableLock'[d][a][t] =
                    IF tableLock[d][a][t] = None THEN None ELSE Read
    <3>1. tableLock'[d] = [tableLock[d] EXCEPT ![a] =
            [t \in Table |-> IF tableLock[d][a][t] = None THEN None ELSE Read]]
      BY <2>1
    <3>2. [t \in Table |-> IF tableLock[d][a][t] = None THEN None ELSE Read] \in [Table -> 0 .. 2]
      BY <1>2
    <3> QED
      BY <3>1, <3>2, <1>0
  <2>4. tableLock' \in [Conn -> [Addr -> [Table -> 0 .. 2]]]
    BY <2>1, <2>3
  <2>5. SharedTypeOK'
    BY <2>2, <2>4, <1>1, <1>3 DEF SharedTypeOK
  <2>6. \A b \in Addr \ {a} : Trans(b)'
    BY <2>2, <2>3, <1>1, <1>3, TransOthers DEF Untouched
  <2>7. inTrans[c][a] = Write /\ inTransaction'[a] # Write
    BY <1>0, <1>1, <1>2, <1>6 DEF Trans
  <2>8. \A d \in Conn : inTrans'[d][a] # Write /\ \A t \in Table : tableLock'[d][a][t] # Write
    <3>1. ASSUME NEW d \in Conn PROVE inTrans'[d][a] # Write
      <4>1. CASE d = c
        BY <4>1, <1>2, <1>3
      <4>2. CASE d # c
        <5>1. pWriter[a] # d /\ inTrans'[d][a] = inTrans[d][a]
          BY <4>2, <1>3, <1>6
        <5>2. pWriter[a] = d <=> inTrans[d][a] = Write
          BY <1>2 DEF Trans
        <5> QED
          BY <5>1, <5>2
      <4> QED
        BY <4>1, <4>2
    <3>2. ASSUME NEW d \in Conn, NEW t \in Table PROVE tableLock'[d][a][t] # Write
      <4>1. tableLock'[d][a][t] = IF tableLock[d][a][t] = None THEN None ELSE Read
        BY <2>3
      <4> QED
        BY <4>1, <1>2
    <3> QED
      BY <3>1, <3>2
  <2>9. /\ \A d \in Conn : inTrans'[d][a] # None => tableLock'[d][a][1] # None
        /\ \A d \in Conn : \A t \in Table : tableLock'[d][a][t] # None => inTrans'[d][a] # None
    <3>1. ASSUME NEW d \in Conn
          PROVE  /\ inTrans'[d][a] # None <=> inTrans[d][a] # None
                 /\ \A t \in Table : tableLock'[d][a][t] # None <=> tableLock[d][a][t] # None
      <4>1. inTrans'[d][a] # None <=> inTrans[d][a] # None
        BY <1>2, <1>3
      <4>2. ASSUME NEW t \in Table
            PROVE  tableLock'[d][a][t] # None <=> tableLock[d][a][t] # None
        <5>1. tableLock'[d][a][t] = IF tableLock[d][a][t] = None THEN None ELSE Read
          BY <2>3
        <5> QED
          BY <5>1, <1>2
      <4> QED
        BY <4>1, <4>2
    <3>2. /\ \A d \in Conn : inTrans[d][a] # None => tableLock[d][a][1] # None
          /\ \A d \in Conn : \A t \in Table : tableLock[d][a][t] # None => inTrans[d][a] # None
      BY <1>2 DEF Trans
    <3> QED
      BY <3>1, <3>2, Tables
  <2>10. Trans(a)'
    BY <2>2, <2>7, <2>8, <2>9, <1>0, <1>1, <1>2, <1>4 DEF Trans
  <2> QED
    BY <2>5, <2>6, <2>10, <1>5
<1>7. CASE pWriter[a] # c
  <2>1. /\ pWriter' = pWriter /\ exclusive' = exclusive /\ pending' = pending
        /\ tableLock' = tableLock
    BY <1>7 DEF Downgrade
  <2>2. inTrans[c][a] = Read
    BY <1>0, <1>2, <1>7 DEF Trans
  <2>3. \A b \in Addr : inTransaction'[b] = inTransaction[b]
    BY <2>2, <1>0, <1>1, <1>2
  <2>4. \A b \in Addr : Untouched(b)
    BY <2>1, <2>2, <2>3, <1>1, <1>3 DEF Untouched
  <2>5. SharedTypeOK'
    BY <2>1, <1>1, <1>3 DEF SharedTypeOK
  <2> QED
    BY <2>4, <2>5, <1>5, TransOthers
<1> QED
  BY <1>6, <1>7

(* sqlite3BtreeCommitPhaseTwo and sqlite3BtreeRollback                     *)
LEMMA EndKeeps ==
  ASSUME SharedTypeOK, \A b \in Addr : Trans(b), NEW c \in Conn, NEW a \in Addr,
         EndTransaction(c, a)
  PROVE  /\ SharedTypeOK' /\ \A b \in Addr : Trans(b)'
         /\ \A d \in Conn, b \in Addr : inTrans'[d][b] # None => inTrans[d][b] # None
         /\ inTrans'[c][a] = None
<1>0. /\ inTrans \in [Conn -> [Addr -> 0 .. 2]]
      /\ tableLock \in [Conn -> [Addr -> [Table -> 0 .. 2]]]
      /\ inTransaction \in [Addr -> 0 .. 2] /\ nTransaction \in [Addr -> Int]
      /\ pWriter \in [Addr -> Conn \cup {NoConn}]
      /\ exclusive \in [Addr -> BOOLEAN] /\ pending \in [Addr -> BOOLEAN]
      /\ NoConn \notin Conn
  BY Constants DEF SharedTypeOK
<1>1. CASE inTrans[c][a] = None
  <2>1. UNCHANGED transVars
    BY <1>1 DEF EndTransaction
  <2>2. SharedTypeOK'
    BY <2>1 DEF transVars, SharedTypeOK
  <2>3. \A b \in Addr : Untouched(b)
    BY <2>1 DEF transVars, Untouched
  <2> QED
    BY <2>1, <2>2, <2>3, <1>1, TransOthers DEF transVars
<1>2. CASE inTrans[c][a] # None
  <2>1. /\ tableLock' = [tableLock EXCEPT ![c][a] = NoLocks]
        /\ nTransaction' = [nTransaction EXCEPT ![a] = nTransaction[a] - 1]
        /\ inTransaction' = [inTransaction EXCEPT ![a] =
              IF nTransaction[a] = 1 THEN None
              ELSE IF inTrans[c][a] = Write THEN Read ELSE inTransaction[a]]
        /\ inTrans' = [inTrans EXCEPT ![c][a] = None]
    BY <1>2 DEF EndTransaction, ClearLocks
  <2>2. Trans(a) /\ None = 0 /\ Read = 1 /\ Write = 2 /\ 1 \in Table
    BY Tables
  <2>3. NoLocks \in [Table -> 0 .. 2] /\ \A t \in Table : NoLocks[t] = None
    BY <2>2 DEF NoLocks
  <2>4. /\ inTrans' \in [Conn -> [Addr -> 0 .. 2]] /\ inTransaction' \in [Addr -> 0 .. 2]
        /\ tableLock' \in [Conn -> [Addr -> [Table -> 0 .. 2]]] /\ nTransaction' \in [Addr -> Int]
    BY <2>1, <2>2, <2>3, <1>0
  <2>5. /\ inTrans'[c][a] = None /\ tableLock'[c][a] = NoLocks
        /\ \A d \in Conn, b \in Addr : d # c \/ b # a =>
             inTrans'[d][b] = inTrans[d][b] /\ tableLock'[d][b] = tableLock[d][b]
        /\ \A b \in Addr \ {a} :
             inTransaction'[b] = inTransaction[b] /\ nTransaction'[b] = nTransaction[b]
        /\ nTransaction'[a] = nTransaction[a] - 1
    BY <2>1, <1>0
  <2>6. \A d \in Conn, b \in Addr : inTrans'[d][b] # None => inTrans[d][b] # None
    BY <2>5
  <2>7. /\ Active(a)' = Active(a) \ {c} /\ c \in Active(a)
        /\ Cardinality(Active(a)') = Cardinality(Active(a)) - 1
    <3>1. Active(a)' = Active(a) \ {c} /\ c \in Active(a)
      BY <2>5, <1>2 DEF Active
    <3> QED
      BY <3>1, ActiveFinite, FS_RemoveElement
  <2>8. nTransaction'[a] = Cardinality(Active(a)')
    BY <2>2, <2>5, <2>7 DEF Trans
  <2>9. /\ \A d \in Conn : inTrans'[d][a] # None => tableLock'[d][a][1] # None
        /\ \A d \in Conn : \A t \in Table : tableLock'[d][a][t] # None => inTrans'[d][a] # None
        /\ \A d, f \in Conn : \A t \in Table :
             d # f /\ tableLock'[d][a][t] = Write => tableLock'[f][a][t] = None
    BY <2>2, <2>3, <2>5 DEF Trans
  <2>10. CASE pWriter[a] = c
    <3>1. /\ pWriter' = [pWriter EXCEPT ![a] = NoConn]
          /\ exclusive' = [exclusive EXCEPT ![a] = FALSE]
          /\ pending' = [pending EXCEPT ![a] = FALSE]
      BY <2>10, <1>2 DEF EndTransaction, ClearLocks
    <3>2. /\ pWriter' \in [Addr -> Conn \cup {NoConn}] /\ pWriter'[a] = NoConn
          /\ exclusive' \in [Addr -> BOOLEAN] /\ ~exclusive'[a]
          /\ pending' \in [Addr -> BOOLEAN] /\ ~pending'[a]
          /\ \A b \in Addr \ {a} : /\ pWriter'[b] = pWriter[b]
                                  /\ exclusive'[b] = exclusive[b] /\ pending'[b] = pending[b]
      BY <3>1, <1>0
    <3>3. SharedTypeOK'
      BY <3>2, <2>4 DEF SharedTypeOK
    <3>4. \A b \in Addr \ {a} : Trans(b)'
      BY <3>2, <2>5, TransOthers DEF Untouched
    <3>5. inTrans[c][a] = Write /\ inTransaction'[a] # Write
      BY <2>1, <2>2, <2>10, <1>0 DEF Trans
    <3>6. \A d \in Conn : inTrans'[d][a] # Write /\ \A t \in Table : tableLock'[d][a][t] # Write
      BY <2>2, <2>3, <2>5, <2>10 DEF Trans
    <3>7. Trans(a)'
      BY <3>2, <3>5, <3>6, <2>8, <2>9, <1>0 DEF Trans
    <3> QED
      BY <3>3, <3>4, <3>7, <2>5, <2>6
  <2>11. CASE pWriter[a] # c
    <3>1. /\ pWriter' = pWriter /\ exclusive' = exclusive
          /\ pending' = [pending EXCEPT ![a] = pending[a] /\ nTransaction[a] # 2]
      BY <2>11, <1>2 DEF EndTransaction, ClearLocks
    <3>2. /\ pending' \in [Addr -> BOOLEAN]
          /\ pending'[a] => pending[a] /\ nTransaction[a] # 2
          /\ \A b \in Addr \ {a} : pending'[b] = pending[b]
      BY <3>1, <1>0
    <3>3. SharedTypeOK'
      BY <3>1, <3>2, <2>4, <1>0 DEF SharedTypeOK
    <3>4. \A b \in Addr \ {a} : Trans(b)'
      BY <3>1, <3>2, <2>5, TransOthers DEF Untouched
    <3>5. inTrans[c][a] # Write
      BY <2>2, <2>11 DEF Trans
    <3>6. nTransaction[a] = 1 => pWriter[a] = NoConn
      <4>1. ASSUME nTransaction[a] = 1, pWriter[a] # NoConn PROVE FALSE
        <5>1. PICK w \in Conn : w = pWriter[a] /\ w \in Active(a)'
          BY <4>1, <2>2, <2>5, <2>11, <1>0 DEF Trans, Active
        <5>2. Active(a)' = {}
          <6>1. Cardinality(Active(a)') = 0 /\ IsFiniteSet(Active(a)')
            BY <4>1, <2>2, <2>7, ActiveFinite, FS_RemoveElement DEF Trans
          <6> QED
            BY <6>1, FS_EmptySet
        <5> QED
          BY <5>1, <5>2
      <4> QED
        BY <4>1
    <3>7. inTransaction'[a] = Write <=> pWriter'[a] # NoConn
      BY <3>1, <3>5, <3>6, <2>1, <2>2, <1>0 DEF Trans
    <3>8. pending'[a] =>
            pWriter'[a] # NoConn /\ \E d \in Conn : d # pWriter'[a] /\ inTrans'[d][a] # None
      <4>1. SUFFICES ASSUME pending[a], nTransaction[a] # 2
                     PROVE  pWriter[a] # NoConn
                            /\ \E d \in Conn : d # pWriter[a] /\ inTrans'[d][a] # None
        BY <3>1, <3>2
      <4>2. pWriter[a] # NoConn
        BY <4>1, <2>2 DEF Trans
      <4>3. PICK w \in Conn : w = pWriter[a]
        BY <4>2, <1>0
      <4>4. ASSUME \A d \in Conn : d # w => inTrans'[d][a] = None PROVE FALSE
        <5>1. Active(a)' = {w}
          BY <4>3, <4>4, <2>2, <2>5, <2>11 DEF Active, Trans
        <5>2. Cardinality(Active(a)') = 1
          BY <5>1, FS_Singleton
        <5>3. nTransaction[a] = Cardinality(Active(a)) /\ Cardinality(Active(a)) \in Nat
          BY <2>2, ActiveFinite DEF Trans
        <5> QED
          BY <5>2, <5>3, <4>1, <2>7
      <4> QED
        BY <4>2, <4>3, <4>4
    <3>9. /\ \A d \in Conn : pWriter'[a] = d <=> inTrans'[d][a] = Write
          /\ \A d \in Conn : \A t \in Table : tableLock'[d][a][t] = Write => pWriter'[a] = d
          /\ exclusive'[a] => \A d \in Conn : d # pWriter'[a] => inTrans'[d][a] = None
      BY <3>1, <3>5, <2>2, <2>3, <2>5, <2>11 DEF Trans
    <3>10. Trans(a)'
      BY <3>7, <3>8, <3>9, <2>8, <2>9 DEF Trans
    <3> QED
      BY <3>3, <3>4, <3>10, <2>5, <2>6
  <2> QED
    BY <2>10, <2>11
<1> QED
  BY <1>1, <1>2

-----------------------------------------------------------------------------
LEMMA SharedInitially == SharedInit => SharedInv
<1> SUFFICES ASSUME SharedInit PROVE SharedInv
  OBVIOUS
<1>1. /\ NoConn \notin Conn /\ NoLocks \in [Table -> 0 .. 2]
      /\ \A t \in Table : NoLocks[t] = None
      /\ None = 0 /\ Read = 1 /\ Write = 2
  BY Constants, Tables DEF NoLocks
<1>2. SharedTypeOK
  BY <1>1 DEF SharedInit, SharedTypeOK
<1>3. \A c \in Conn, a \in Addr : inTrans[c][a] = None /\ tableLock[c][a] = NoLocks
  BY DEF SharedInit
<1>4. HandleInv
  BY <1>3 DEF HandleInv, SharedInit, BtMutexInit, Idle
<1>5. ASSUME NEW a \in Addr PROVE Trans(a)
  <2>1. Active(a) = {} /\ nTransaction[a] = 0
    BY <1>3, <1>5 DEF Active, SharedInit
  <2>2. nTransaction[a] = Cardinality(Active(a))
    BY <2>1, FS_EmptySet
  <2>3. /\ inTransaction[a] = None /\ pWriter[a] = NoConn
        /\ exclusive[a] = FALSE /\ pending[a] = FALSE
    BY <1>5 DEF SharedInit
  <2> QED
    BY <1>1, <1>3, <1>5, <2>2, <2>3 DEF Trans
<1> QED
  BY <1>2, <1>4, <1>5 DEF SharedInv

(* What the mutexes do to a connection's handles and to its place: only    *)
(* Unref gives a handle up, and only the end of a transaction leads to it. *)
LEMMA HandlesKept ==
  ASSUME BtMutexInv, NEW c \in Conn, MutexStep(c)
  PROVE  /\ at'[c].step # "unref"
         /\ \A d \in Conn \ {c} : at'[d] = at[d] /\ handle'[d] = handle[d]
         /\ \A a \in handle[c] : a \in handle'[c] \/ (at[c].step = "unref" /\ a = at[c].addr)
<1>0. /\ at \in [Conn -> Place] /\ handle \in [Conn -> SUBSET Addr]
      /\ at[c] \in Place
      /\ at[c].then \in {"idle", "schema", "close"}
      /\ at[c].step \in {"wait", "relock", "link", "schema", "close", "unref"}
           => at[c].addr \in Addr
  BY Places DEF BtMutexInv, MutexTypeOK, ListInv
<1>1. Entered(at[c].addr, at[c].then).step # "unref"
  BY <1>0 DEF Entered, Idle
<1>2. Idle.step # "unref" /\ Idle.step = "idle"
  BY DEF Idle
<1>3. ASSUME NEW a \in Addr, NEW then \in {"idle", "schema", "close"}, EnterThen(c, a, then)
      PROVE  at'[c].step # "unref" /\ \A d \in Conn \ {c} : at'[d] = at[d]
  BY <1>3, EnterMove DEF BtMutexInv
<1>4. CASE Obtain(c) \/ Relock(c)
  <2>1. PICK p : at' = [at EXCEPT ![c] = p] /\ p.step # "unref"
    <3>1. CASE Obtain(c)
      <4> DEFINE todo == {b \in Later(c, at[c].addr) : wantToLock[c][b] > 0}
      <4>1. at' = [at EXCEPT ![c] = IF todo = {} THEN Entered(at[c].addr, at[c].then)
                                    ELSE [at[c] EXCEPT !.step = "relock", !.todo = todo]]
        BY <3>1 DEF Obtain
      <4>2. [at[c] EXCEPT !.step = "relock", !.todo = todo].step = "relock"
        BY <1>0 DEF Place
      <4> HIDE DEF todo
      <4> QED
        BY <4>1, <4>2, <1>0, <1>1
    <3>2. CASE Relock(c)
      <4>1. at[c].step = "relock"
        BY <3>2 DEF Relock
      <4>2. PICK b : at' = [at EXCEPT ![c] =
               IF at[c].todo = {b} THEN Entered(at[c].addr, at[c].then)
               ELSE [at[c] EXCEPT !.todo = at[c].todo \ {b}]]
        BY <3>2 DEF Relock
      <4>3. [at[c] EXCEPT !.todo = at[c].todo \ {b}].step = "relock"
        BY <4>1, <1>0 DEF Place
      <4> QED
        BY <4>2, <4>3, <1>0, <1>1
    <3> QED
      BY <1>4, <3>1, <3>2
  <2>2. handle' = handle
    BY <1>4 DEF Obtain, Relock
  <2> QED
    BY <2>1, <2>2, <1>0
<1>5. ASSUME NEW a \in Addr, Enter(c, a) \/ Close(c, a)
      PROVE  /\ handle' = handle /\ at'[c].step # "unref"
             /\ \A d \in Conn \ {c} : at'[d] = at[d]
  BY <1>3, <1>5 DEF Enter, Close
<1>6. ASSUME NEW a \in Addr, Leave(c, a)
      PROVE  handle' = handle /\ at' = at /\ at'[c].step # "unref"
  BY <1>6 DEF Leave
<1>7. CASE Link(c)
  <2>1. EnterThen(c, at[c].addr, "schema") /\ at[c].addr \in Addr /\ handle' = handle
    BY <1>0, <1>7 DEF Link
  <2> QED
    BY <1>3, <2>1
<1>8. ASSUME NEW f \in File, Open(c, f)
      PROVE  /\ handle' = handle /\ at'[c].step # "unref"
             /\ \A d \in Conn \ {c} : at'[d] = at[d]
  <2>1. at' = [at EXCEPT ![c] = [Idle EXCEPT !.step = "open", !.file = f]] /\ handle' = handle
    BY <1>8 DEF Open
  <2>2. [Idle EXCEPT !.step = "open", !.file = f].step = "open"
    BY DEF Idle
  <2> QED
    BY <1>0, <2>1, <2>2
<1>9. CASE OpenMutex(c) \/ Opened(c)
  <2>1. handle' = handle
    BY <1>9 DEF OpenMutex, Opened
  <2>2. PICK p : at' = [at EXCEPT ![c] = p] /\ p.step # "unref"
    <3>1. [at[c] EXCEPT !.step = "find"].step = "find"
      BY <1>0 DEF Place
    <3> QED
      BY <1>0, <1>2, <1>9, <3>1 DEF OpenMutex, Opened
  <2> QED
    BY <1>0, <2>1, <2>2
<1>10. CASE Find(c) \/ Create(c)
  <2>1. PICK p : at' = [at EXCEPT ![c] = p] /\ p.step # "unref"
    <3>1. [at[c] EXCEPT !.step = "create"].step = "create"
      BY <1>0 DEF Place
    <3>2. \A a \in Addr : [Idle EXCEPT !.step = "link", !.addr = a].step = "link"
      BY DEF Idle
    <3>3. \/ at' = [at EXCEPT ![c] = Idle]
          \/ \E a \in Addr : at' = [at EXCEPT ![c] = [Idle EXCEPT !.step = "link", !.addr = a]]
          \/ at' = [at EXCEPT ![c] = [at[c] EXCEPT !.step = "create"]]
      BY <1>0, <1>10 DEF Find, Create
    <3> QED
      BY <3>1, <3>2, <3>3, <1>2
  <2>2. \/ handle' = handle
        \/ \E a \in Addr : handle' = [handle EXCEPT ![c] = handle[c] \cup {a}]
    BY <1>10 DEF Find, Create
  <2> QED
    BY <1>0, <2>1, <2>2
<1>11. CASE Unref(c)
  <2>1. /\ handle' = [handle EXCEPT ![c] = handle[c] \ {at[c].addr}]
        /\ at' = [at EXCEPT ![c] = Idle] /\ at[c].step = "unref"
    BY <1>11 DEF Unref
  <2> QED
    BY <1>0, <1>2, <2>1
<1> QED
  BY <1>4, <1>5, <1>6, <1>7, <1>8, <1>9, <1>10, <1>11 DEF MutexStep

(* Every step keeps the invariant.                                         *)
LEMMA SharedStep ==
  ASSUME BtMutexInv, SharedInv, SharedNext
  PROVE  SharedInv'
<1>0. SharedTypeOK /\ HandleInv /\ \A b \in Addr : Trans(b)
  BY DEF SharedInv
<1>1. ASSUME NEW c \in Conn, MutexStep(c), UNCHANGED transVars PROVE SharedInv'
  <2>1. SharedTypeOK'
    BY <1>0, <1>1 DEF SharedTypeOK, transVars
  <2>2. \A b \in Addr : Trans(b)'
    BY <1>0, <1>1, TransOthers DEF Untouched, transVars
  <2>3. inTrans' = inTrans
    BY <1>1 DEF transVars
  <2>4. HandleInv'
    BY <1>0, <1>1, <2>3, HandlesKept DEF HandleInv
  <2> QED
    BY <2>1, <2>2, <2>4 DEF SharedInv
<1>2. ASSUME NEW c \in Conn, CloseTransaction(c) PROVE SharedInv'
  <2>1. /\ at[c].step = "close" /\ handle' = handle
        /\ at' = [at EXCEPT ![c].step = "unref"] /\ EndTransaction(c, at[c].addr)
    BY <1>2 DEF CloseTransaction, Closing
  <2>2. at \in [Conn -> Place] /\ at[c] \in Place /\ at[c].addr \in Addr
    BY <2>1, Places DEF BtMutexInv, MutexTypeOK, ListInv
  <2>3. /\ SharedTypeOK' /\ \A b \in Addr : Trans(b)'
        /\ \A d \in Conn, b \in Addr : inTrans'[d][b] # None => inTrans[d][b] # None
        /\ inTrans'[c][at[c].addr] = None
    BY <1>0, <2>1, <2>2, EndKeeps
  <2>4. at'[c].addr = at[c].addr /\ \A d \in Conn \ {c} : at'[d] = at[d]
    BY <2>1, <2>2 DEF Place
  <2>5. ASSUME NEW d \in Conn \ {c}, at[d].step = "unref" PROVE inTrans'[d][at[d].addr] = None
    <3>1. inTrans[d][at[d].addr] = None /\ at[d].addr \in Addr
      BY <1>0, <2>5, Places DEF HandleInv, BtMutexInv, MutexTypeOK, ListInv
    <3> QED
      BY <2>3, <2>5, <3>1
  <2>6. HandleInv'
    BY <1>0, <2>1, <2>3, <2>4, <2>5 DEF HandleInv
  <2> QED
    BY <2>3, <2>6 DEF SharedInv
<1>3. ASSUME NEW c \in Conn, NEW a \in Addr, Transaction(c, a) PROVE SharedInv'
  <2>1. a \in locked[c] /\ at' = at /\ handle' = handle /\ at[c].step = "idle"
    BY <1>3 DEF Transaction, mutexVars
  <2>2. a \in handle[c]
    BY <2>1 DEF BtMutexInv, LockInv, Holding
  <2> DEFINE Kept ==
        /\ SharedTypeOK' /\ \A b \in Addr : Trans(b)'
        /\ \A d \in Conn, b \in Addr :
             inTrans'[d][b] # None => inTrans[d][b] # None \/ (d = c /\ b = a)
  <2>3. Kept
    <3>1. ASSUME NEW wrflag \in 0 .. 2, BeginTrans(c, a, wrflag) PROVE Kept
      BY <1>0, <3>1, BeginKeeps
    <3>2. ASSUME NEW t \in Table, NEW lock \in {Read, Write}, LockTable(c, a, t, lock)
          PROVE  Kept
      <4>1. SharedTypeOK' /\ (\A b \in Addr : Trans(b)') /\ inTrans' = inTrans
        BY <1>0, <3>2, LockKeeps
      <4> QED
        BY <4>1
    <3>3. CASE inTrans[c][a] # None /\ Downgrade(c, a)
      <4>1. /\ SharedTypeOK' /\ \A b \in Addr : Trans(b)'
            /\ \A d \in Conn, b \in Addr : inTrans'[d][b] # None => inTrans[d][b] # None
        BY <1>0, <3>3, DowngradeKeeps
      <4> QED
        BY <4>1
    <3>4. CASE EndTransaction(c, a)
      <4>1. /\ SharedTypeOK' /\ \A b \in Addr : Trans(b)'
            /\ \A d \in Conn, b \in Addr : inTrans'[d][b] # None => inTrans[d][b] # None
        BY <1>0, <3>4, EndKeeps
      <4> QED
        BY <4>1
    <3> QED
      BY <1>3, <3>1, <3>2, <3>3, <3>4 DEF Transaction
  <2>4. ASSUME NEW d \in Conn, at[d].step = "unref" PROVE inTrans'[d][at[d].addr] = None
    <3>1. /\ inTrans[d][at[d].addr] = None /\ at[d].addr \in Addr /\ d # c
      BY <1>0, <2>1, <2>4, Places DEF HandleInv, BtMutexInv, MutexTypeOK, ListInv
    <3> QED
      BY <2>3, <3>1
  <2>5. HandleInv'
    BY <1>0, <2>1, <2>2, <2>3, <2>4 DEF HandleInv
  <2> QED
    BY <2>3, <2>5 DEF SharedInv
<1> QED
  BY <1>1, <1>2, <1>3 DEF SharedNext

(* Every step is one of BtMutex, or leaves the mutexes alone.              *)
LEMMA StepIsMutexStep == [SharedNext]_sharedVars => [BtMutexNext]_mutexVars
<1>1. SharedNext => [BtMutexNext]_mutexVars
  BY DEF SharedNext, BtMutexNext, CloseTransaction, Transaction
<1>2. UNCHANGED sharedVars => UNCHANGED mutexVars
  BY DEF sharedVars
<1> QED
  BY <1>1, <1>2

(* Transactions and table locks are laid over the mutexes: what the mutexes *)
(* promise by themselves they promise to connections with transactions.    *)
THEOREM SharedCacheUsesMutexes == SharedSpec => BtMutexSpec
<1>1. SharedInit => BtMutexInit
  BY DEF SharedInit
<1> QED
  BY <1>1, StepIsMutexStep, PTL DEF SharedSpec, BtMutexSpec

(* The invariant is inductive, given that of the mutexes.                  *)
THEOREM SharedInductive == ASSUME Assumed PROVE SharedSpec => [](BtMutexInv /\ SharedInv)
<1>1. ASSUME BtMutexInv, SharedInv, [SharedNext]_sharedVars PROVE SharedInv'
  <2>1. CASE SharedNext
    BY <1>1, <2>1, SharedStep
  <2>2. CASE UNCHANGED sharedVars
    <3>1. SharedTypeOK /\ HandleInv /\ \A b \in Addr : Trans(b)
      BY <1>1 DEF SharedInv
    <3>2. SharedTypeOK' /\ HandleInv'
      BY <2>2, <3>1 DEF sharedVars, transVars, mutexVars, SharedTypeOK, HandleInv
    <3>3. \A b \in Addr : Trans(b)'
      BY <2>2, <3>1, TransOthers DEF sharedVars, transVars, Untouched
    <3> QED
      BY <3>2, <3>3 DEF SharedInv
  <2> QED
    BY <1>1, <2>1, <2>2
<1> QED
  BY <1>1, SharedInitially, SharedCacheUsesMutexes, BtMutexInductive, PTL DEF SharedSpec

(* Connections with transactions do not wait for one another's mutexes.    *)
THEOREM SharedDeadlockFree == ASSUME Assumed PROVE SharedSpec => []NoDeadlock
BY SharedCacheUsesMutexes, DeadlockFree, PTL

(* Nor do they come to have two caches of a file.                          *)
THEOREM SharedOneCache == ASSUME Assumed PROVE SharedSpec => []OneCache
BY SharedCacheUsesMutexes, CacheShared, PTL

(* What one connection writes no other reads or writes, table by table.    *)
THEOREM TablesExcluded == ASSUME Assumed PROVE SharedSpec => []TablesExclude
<1>1. SharedInv => TablesExclude
  <2> SUFFICES ASSUME SharedInv, NEW a \in Addr, NEW c \in Conn, NEW d \in Conn, c # d
               PROVE  /\ \A t \in Table : tableLock[c][a][t] = Write => tableLock[d][a][t] = None
                      /\ exclusive[a] /\ pWriter[a] = c => inTrans[d][a] = None
    BY DEF TablesExclude
  <2> QED
    BY DEF SharedInv, Trans
<1> QED
  BY <1>1, SharedInductive, PTL

(* While new transactions wait there is a writer, and someone it waits for. *)
THEOREM PendingIsLeft == ASSUME Assumed PROVE SharedSpec => []PendingEnds
<1>1. SharedInv => PendingEnds
  BY DEF SharedInv, Trans, PendingEnds
<1> QED
  BY <1>1, SharedInductive, PTL

(* What a connection leaves behind when it ends a transaction or closes.   *)
THEOREM LeavesNothing == ASSUME Assumed PROVE SharedSpec => []NothingLeft
<1>1. ASSUME SharedInv PROVE NothingLeft
  <2>1. ASSUME NEW a \in Addr, NEW c \in Conn, inTrans[c][a] = None
        PROVE  tableLock[c][a] = NoLocks
    <3>1. tableLock[c][a] \in [Table -> 0 .. 2] /\ \A t \in Table : tableLock[c][a][t] = None
      BY <1>1, <2>1 DEF SharedInv, SharedTypeOK, Trans
    <3> QED
      BY <3>1 DEF NoLocks
  <2> QED
    BY <1>1, <2>1 DEF SharedInv, HandleInv, Trans, Active, NothingLeft
<1> QED
  BY <1>1, SharedInductive, PTL

=============================================================================
