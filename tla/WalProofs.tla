------------------------------ MODULE WalProofs ------------------------------
(***************************************************************************)
(* The copies of a checkpoint, which change the database file, and the     *)
(* faults.  With the steps of WalConnProofs they make the invariant of Wal *)
(* inductive; what follows from that comes next.                           *)
(*                                                                         *)
(* The second part is about what survives: every step keeps Durable too,   *)
(* so that no failure makes recovery lose a commit.  The third shows that  *)
(* every step is one of SnapshotStore.                                     *)
(***************************************************************************)
EXTENDS WalConnProofs, WalDurable

-----------------------------------------------------------------------------
(* A page is copied to the database file.                                  *)
LEMMA AtCopy ==
  ASSUME Inv, NEW c \in Conn, con[c].at = "copy", NEW p \in ToCopy(con[c])
  PROVE  /\ p \in Page /\ con[c].it[p] \in 1 .. shm.h0.mx /\ con[c].it[p] \in Nat
         /\ con[c].it[p] > shm.backfill /\ con[c].it[p] <= con[c].safe /\ shm.h0.init
         /\ shm.pg[con[c].it[p]] = p /\ wal.frame[con[c].it[p]] # NoFrame
         /\ wal.frame[con[c].it[p]].tid \in Pages
         /\ con[c].cl /\ con[c].ex = {0} /\ con[c].rl = -1 /\ con[c].tid = 0
         /\ con[c].at \in AtCkpt /\ con[c].at \notin AtReset
         /\ shm.backfill \in Nat /\ con[c].safe \in Nat
<1>0. /\ con[c] \in State /\ InPlace(con[c]) /\ Locked(con[c]) /\ CheckpointOK(con[c], shm, wal, db)
      /\ shm \in ShmType /\ wal \in LogType /\ IndexOK(shm, wal, db, committed)
  BY ConnNow, IndexNow
<1>1. con[c].at \in AtCkpt /\ con[c].at \notin AtReset
  BY DEF AtCkpt, AtReset
<1>2. con[c].cl /\ con[c].ex = {0} /\ con[c].rl = -1 /\ con[c].tid = 0
  BY <1>0, <1>1 DEF InPlace, Locked, AtCkpt, AtWrite, AtReset, InRecovery, Checkpointing
<1>3. p \in Page /\ con[c].it[p] \in con[c].bf + 1 .. con[c].safe /\ con[c].bf = shm.backfill
  BY <1>0 DEF ToCopy, CheckpointOK
<1>4. /\ shm.backfill \in Nat /\ con[c].safe \in Nat /\ con[c].hdr.mx \in Nat /\ shm.h0.mx \in 0 .. MaxFrame
      /\ shm.h0.mx \in Nat
  BY <1>0, ShmTypes, StateTypes, Bounds
<1>5. shm.h0.init /\ con[c].hdr.mx <= shm.h0.mx /\ con[c].safe <= con[c].hdr.mx
  BY <1>0, <1>1 DEF CheckpointOK
<1>6. /\ con[c].it[p] \in 1 .. shm.h0.mx /\ con[c].it[p] \in Nat /\ con[c].it[p] # 0
      /\ con[c].it[p] > shm.backfill /\ con[c].it[p] <= con[c].safe
  BY <1>3, <1>4, <1>5
<1>7. shm.pg[con[c].it[p]] = p
  BY <1>0, <1>3, <1>6 DEF CheckpointOK
<1>8. wal.frame[con[c].it[p]] # NoFrame
  BY <1>0, <1>5, <1>6 DEF IndexOK, HdrOf, Chained
<1>9. con[c].it[p] \in Index
  BY <1>4, <1>6, Bounds DEF Index
<1>10. wal.frame[con[c].it[p]].tid \in Pages
  BY <1>0, <1>8, <1>9, LogTypes
<1> QED
  BY <1>1, <1>2, <1>3, <1>4, <1>5, <1>6, <1>7, <1>8, <1>10

(* It is of no transaction that somebody reads.                            *)
LEMMA CopyOthers ==
  ASSUME Inv, NEW c \in Conn, con[c].at = "copy", NEW p \in ToCopy(con[c]),
         NEW b \in Image, \A q \in Page \ {p} : b[q] = db[q]
  PROVE  /\ IndexOK(shm, wal, b, committed)
         /\ \A d \in Conn \ {c} : ConnOK(con[d], shm, wal, b, committed)
<1>0. /\ con[c] \in State /\ shm \in ShmType /\ wal \in LogType /\ db \in Image /\ committed \in Image
      /\ IndexOK(shm, wal, db, committed)
  BY ConnNow, IndexNow
<1>1. PICK k \in Nat : k = con[c].it[p]
  BY AtCopy
<1>2. /\ p \in Page /\ k \in 1 .. shm.h0.mx /\ k > shm.backfill /\ k <= con[c].safe
      /\ shm.pg[k] = p /\ wal.frame[k] # NoFrame /\ shm.h0.init
      /\ con[c].cl /\ con[c].ex = {0}
      /\ shm.backfill \in Nat /\ con[c].safe \in Nat
  BY <1>1, AtCopy
<1>3. Overlay(shm.h0.mx, shm, wal, b) = Overlay(shm.h0.mx, shm, wal, db)
  <2>1. ASSUME NEW q \in Page
        PROVE  Overlay(shm.h0.mx, shm, wal, b)[q] = Overlay(shm.h0.mx, shm, wal, db)[q]
    <3>1. CASE q = p
      <4>1. {i \in 1 .. shm.h0.mx : shm.pg[i] = q} # {}
        BY <1>2, <3>1
      <4> QED
        BY <4>1 DEF Overlay
    <3>2. CASE q # p
      BY <3>2 DEF Overlay
    <3> QED
      BY <3>1, <3>2
  <2> QED
    BY <2>1 DEF Overlay
<1>4. ASSUME NEW i \in 1 .. shm.backfill, IsLast(i, shm.h0.mx, shm)
      PROVE  b[shm.pg[i]] = wal.frame[i].tid
  <2>1. i \in Nat /\ i < k
    BY <1>1, <1>2
  <2>2. k \in i + 1 .. shm.h0.mx
    BY <1>2, <2>1
  <2>3. shm.pg[i] # p
    BY <1>2, <1>4, <2>2 DEF IsLast
  <2>4. shm.pg[i] \in Page
    <3>1. wal.frame[i] # NoFrame /\ shm.pg[i] = wal.frame[i].pg
      BY <1>0, <1>2, <1>4 DEF IndexOK, HdrOf, Chained, Indexed, IsLast
    <3>2. i \in Index
      <4>1. shm.h0.mx \in 0 .. MaxFrame
        BY <1>0, ShmTypes
      <4>2. i \in 1 .. shm.h0.mx
        BY <1>4 DEF IsLast
      <4> QED
        BY <4>1, <4>2, Bounds DEF Index
    <3> QED
      BY <1>0, <3>1, <3>2, LogTypes
  <2>5. db[shm.pg[i]] = wal.frame[i].tid
    BY <1>0, <1>4 DEF IndexOK
  <2> QED
    BY <2>3, <2>4, <2>5
<1>5. IndexOK(shm, wal, b, committed)
  BY <1>0, <1>2, <1>3, <1>4 DEF IndexOK
<1>6. ASSUME NEW d \in Conn \ {c} PROVE ConnOK(con[d], shm, wal, b, committed)
  <2>0. /\ ConnOK(con[d], shm, wal, db, committed) /\ con[d] \in State
        /\ PairOK(con[d], con[c], shm)
    BY ConnNow DEF Inv
  <2>1. con[d].rl # 0 /\ ~con[d].cl
    BY <1>2, <2>0 DEF PairOK, Apart
  <2>2. con[d].at # "copy"
    BY <2>0, <2>1 DEF ConnOK, InPlace, Locked, AtCkpt
  <2>3. CheckpointOK(con[d], shm, wal, b)
    BY <2>0, <2>2 DEF CheckpointOK, ConnOK
  <2>4. SnapshotOK(con[d], shm, wal, b)
    <3>1. CASE con[d].at # "read"
      BY <2>0, <3>1 DEF SnapshotOK, ConnOK
    <3>2. CASE con[d].at = "read"
      <4>1. InPlace(con[d]) /\ Locked(con[d]) /\ SnapshotOK(con[d], shm, wal, db)
        BY <2>0 DEF ConnOK
      <4>2. con[d].rl >= 1 /\ ~con[d].wl
        <5>1. con[d].rl # -1 /\ ~con[d].wl
          BY <3>2, <4>1 DEF InPlace, Locked, AtWrite, AtReset, AtCkpt
        <5>2. con[d].rl \in -1 .. NReader - 1
          BY <2>0, StateTypes
        <5> QED
          BY <2>1, <5>1, <5>2, Bounds
      <4>3. con[c].safe <= con[d].hdr.mx
        BY <2>0, <4>2 DEF PairOK, Behind, End
      <4>4. con[d].mi \in 1 .. shm.backfill + 1
        BY <4>1, <4>2 DEF SnapshotOK
      <4>5. con[d].hdr.mx \in Nat
        BY <2>0, StateTypes, Bounds
      <4>6. k \in con[d].mi .. con[d].hdr.mx /\ con[d].hdr.mx # 0
        BY <1>2, <4>3, <4>4, <4>5
      <4>7. Seen(con[d], shm, wal, b) = Seen(con[d], shm, wal, db)
        <5>1. ASSUME NEW q \in Page
              PROVE  Seen(con[d], shm, wal, b)[q] = Seen(con[d], shm, wal, db)[q]
          <6>1. CASE q = p
            <7>1. {i \in con[d].mi .. con[d].hdr.mx : shm.pg[i] = q} # {}
              BY <1>2, <4>6, <6>1
            <7>2. con[d].rl # 0 /\ con[d].hdr.mx # 0
              BY <2>1, <4>6
            <7> QED
              BY <7>1, <7>2 DEF Seen
          <6>2. CASE q # p
            BY <6>2 DEF Seen
          <6> QED
            BY <6>1, <6>2
        <5> QED
          BY <5>1 DEF Seen
      <4> QED
        BY <4>1, <4>7 DEF SnapshotOK
    <3> QED
      BY <3>1, <3>2
  <2> QED
    BY <2>0, <2>3, <2>4 DEF ConnOK
<1> QED
  BY <1>5, <1>6

-----------------------------------------------------------------------------
(* The file with another page.                                             *)
WithPage(b, p, d) == [b EXCEPT ![p] = d]

(* A page that is written changes no other.                                *)
LEMMA PageSet ==
  ASSUME NEW b \in Image, NEW p \in Page, NEW d \in Pages \cup {Torn}
  PROVE  /\ WithPage(b, p, d) \in Image /\ WithPage(b, p, d)[p] = d
         /\ \A q \in Page \ {p} : WithPage(b, p, d)[q] = b[q]
  BY DEF WithPage, Image

(* A write to the database file.                                           *)
LEMMA StoredTypes ==
  ASSUME Inv, NEW p \in Page, NEW d \in Pages \cup {Torn}, Store(p, d),
         UNCHANGED <<wal, walOld, headOld, cutOld>>
  PROVE  db' = WithPage(db, p, d) /\ FileTypes'
<1>1. FileTypes
  BY DEF Inv, Types
<1>2. db' = WithPage(db, p, d)
  BY DEF Store, WithPage
<1>3. db' \in Image
  BY <1>1, <1>2, PageSet DEF FileTypes
<1>4. dbOld' \in [Page -> SUBSET (Pages \cup {Torn})]
  <2>1. PICK e \in Pages \cup {Torn} : e = db[p]
    BY <1>1 DEF FileTypes, Image
  <2>2. PICK S \in SUBSET (Pages \cup {Torn}) : S = dbOld[p] \cup {e, Torn}
    BY <1>1, <2>1, Zenon DEF FileTypes
  <2>3. dbOld' = [dbOld EXCEPT ![p] = S]
    BY <2>1, <2>2 DEF Store
  <2> QED
    BY <1>1, <2>2, <2>3 DEF FileTypes
<1> QED
  BY <1>1, <1>2, <1>3, <1>4 DEF FileTypes

(* A page that is copied to the database file is one that all snapshots    *)
(* take from the log.                                                      *)
LEMMA StoredStep ==
  ASSUME Inv, NEW c \in Conn, con[c].at = "copy", NEW p \in ToCopy(con[c]),
         NEW n \in State, con' = [con EXCEPT ![c] = n], n.at \notin AtReset,
         UNCHANGED <<shm, wal, committed>>, ntxn' = ntxn, FileTypes',
         \A q \in Page \ {p} : db'[q] = db[q],
         ConnOK(n, shm, wal, db', committed),
         Describes(n) => Describes(con[c]) /\ n.hdr.gen = con[c].hdr.gen,
         \A d \in Conn \ {c} : PairOK(n, con[d], shm) /\ PairOK(con[d], n, shm)
  PROVE  Inv'
<1>0. shm \in ShmType /\ committed \in Image /\ ntxn \in 0 .. MaxTxn /\ db' \in Image
  BY ConnNow DEF FileTypes
<1>1. IndexOK(shm, wal, db', committed) /\ con[c].at \notin AtReset
      /\ \A d \in Conn \ {c} : ConnOK(con[d], shm, wal, db', committed)
  BY <1>0, CopyOthers, AtCopy
<1>2. /\ con'[c] = n
      /\ \A d \in Conn \ {c} : con'[d] = con[d]
      /\ \A d, e \in Conn \ {c} : d # e => PairOK(con[d], con[e], shm)
  BY OthersNow, Zenon
<1>3. ShmOK'
  <2>1. IndexOK(shm', wal', db', committed')
    BY <1>1
  <2>2. (\A d \in Conn : con'[d].at # "reset3") => \A d \in Conn : con[d].at # "reset3"
    BY <1>1, <1>2 DEF AtReset
  <2>3. (\A d \in Conn : con'[d].at # "reset2") => \A d \in Conn : con[d].at # "reset2"
    BY <1>1, <1>2 DEF AtReset
  <2>4. ASSUME \A d \in Conn : con'[d].at # "reset2", NEW d \in Conn PROVE Half(con'[d], shm', wal')
    <3>1. Half(con[d], shm, wal)
      BY <2>3, <2>4 DEF Inv, ShmOK
    <3>2. CASE d = c
      BY <1>2, <3>1, <3>2 DEF Half
    <3>3. CASE d # c
      BY <1>2, <3>1, <3>3
    <3> QED
      BY <3>2, <3>3
  <2>5. (\A d \in Conn : con'[d].at # "reset3") => shm'.backfill <= shm'.h0.mx
    BY <2>2 DEF Inv, ShmOK
  <2> QED
    BY <2>1, <2>4, <2>5 DEF ShmOK
<1>4. /\ ConnOK(n, shm', wal', db', committed') /\ shm' \in ShmType /\ committed' \in Image
      /\ \A d \in Conn \ {c} : /\ ConnOK(con[d], shm', wal', db', committed')
                               /\ PairOK(n, con[d], shm') /\ PairOK(con[d], n, shm')
      /\ \A d, e \in Conn \ {c} : d # e => PairOK(con[d], con[e], shm')
  BY <1>0, <1>1, <1>2
<1> QED
  BY <1>0, <1>3, <1>4, LoudStep, Zenon

(* walCheckpoint copies the last frame of a page.                          *)
LEMMA CopyStep ==
  ASSUME Inv, NEW c \in Conn, Copy(c)
  PROVE  Inv'
<1>0. /\ con[c].at = "copy" /\ con[c] \in State /\ InPlace(con[c]) /\ Locked(con[c])
      /\ JobOK(con[c]) /\ HdrKnown(con[c], shm, committed) /\ CheckpointOK(con[c], shm, wal, db)
      /\ db \in Image /\ FileTypes /\ ToCopy(con[c]) # {}
  BY ConnNow DEF Copy
<1>1. PICK p \in Page : p = Min(ToCopy(con[c])) /\ p \in ToCopy(con[c])
                        /\ \A q \in ToCopy(con[c]) : p <= q
  <2>1. NPage \in Nat /\ ToCopy(con[c]) \in SUBSET (0 .. NPage) /\ ToCopy(con[c]) \subseteq Page
    BY Bounds DEF ToCopy, Page
  <2> QED
    BY <1>0, <2>1, FirstOf
<1>2. PICK d \in Pages : d = wal.frame[con[c].it[p]].tid
  BY <1>0, <1>1, AtCopy
<1>3. wal.frame[con[c].it[p]] # NoFrame
  BY <1>0, <1>1, AtCopy
<1>4. Store(p, d) /\ UNCHANGED <<wal, walOld, headOld, cutOld, shm, committed>> /\ ntxn' = ntxn
  BY <1>1, <1>2, <1>3 DEF Copy, history
<1>5. /\ db' = WithPage(db, p, d) /\ FileTypes'
      /\ db'[p] = d /\ \A q \in Page \ {p} : db'[q] = db[q]
  BY <1>0, <1>4, StoredTypes, PageSet
<1>6. PICK k \in Nat : k = p
  BY DEF Page
<1>7. PICK n : n = [con[c] EXCEPT !.i = k]
  BY Zenon
<1>8. con' = [con EXCEPT ![c] = n]
  BY <1>1, <1>6, <1>7 DEF Copy
<1>9. n \in State
  BY <1>0, <1>7, Zenon DEF State
<1>10. /\ n.at = "copy" /\ n.goal = con[c].goal /\ n.mode = con[c].mode /\ n.rl = con[c].rl
       /\ n.ex = con[c].ex /\ n.hdr = con[c].hdr /\ n.cache = con[c].cache /\ n.tid = con[c].tid
       /\ n.job = con[c].job /\ n.log = con[c].log
  BY <1>0, <1>7 DEF State
<1>11. /\ n.wl = con[c].wl /\ n.cl = con[c].cl /\ n.chg = con[c].chg
  BY <1>0, <1>7 DEF State
<1>12. n.i = p /\ n.it = con[c].it /\ n.safe = con[c].safe /\ n.bf = con[c].bf
  BY <1>0, <1>6, <1>7 DEF State
<1>13. con[c].ex = {0} /\ con[c].at \in AtCkpt /\ con[c].rl = -1 /\ con[c].tid = 0
       /\ con[c].at \notin AtReset
  BY <1>0, <1>1, AtCopy
<1>14. /\ InPlace(n) /\ Locked(n) /\ n.job = {} /\ n.log = <<>>
       /\ HdrKnown(n, shm, committed) /\ (Describes(n) => Describes(con[c]))
       /\ \A e \in Conn \ {c} : Apart(n, con[e]) /\ Apart(con[e], n)
  <2>1. \A e \in Conn \ {c} : con[e].rl \notin n.ex /\ n.ex \cap con[e].ex = {}
    BY <1>10, ConnNow DEF PairOK, Apart
  <2>2. n.at \in AtCkpt /\ n.at \notin {"mark", "marklock"}
    BY <1>10 DEF AtCkpt
  <2> QED
    BY <1>9, <1>10, <1>11, <1>13, <2>1, <2>2, CkptMoves, Zenon
<1>15. CheckpointOK(n, shm, wal, db')
  <2>1. ASSUME NEW q \in Page, q <= p, n.it[q] \in n.bf + 1 .. n.safe
        PROVE  db'[q] = wal.frame[n.it[q]].tid
    <3>1. CASE q = p
      BY <1>2, <1>5, <1>12, <3>1, Zenon
    <3>2. CASE q # p
      <4>1. q \notin ToCopy(con[c])
        <5>1. q \in Nat /\ p \in Nat
          BY DEF Page
        <5>2. ~(p <= q)
          BY <2>1, <3>2, <5>1
        <5> QED
          BY <1>1, <5>2
      <4>2. ~(q > con[c].i)
        BY <1>12, <2>1, <4>1 DEF ToCopy
      <4>3. q <= con[c].i
        <5>1. q \in Nat /\ con[c].i \in Nat
          BY <1>0, StateTypes DEF Page
        <5> QED
          BY <4>2, <5>1
      <4>4. db[q] = wal.frame[n.it[q]].tid
        BY <1>0, <1>12, <2>1, <4>3 DEF CheckpointOK
      <4> QED
        BY <1>5, <3>2, <4>4
    <3> QED
      BY <3>1, <3>2
  <2>2. \A q \in Page : q <= n.i /\ n.it[q] \in n.bf + 1 .. n.safe => db'[q] = wal.frame[n.it[q]].tid
    BY <1>12, <2>1
  <2> HIDE <1>7
  <2> QED
    BY <1>0, <1>10, <1>11, <1>12, <2>2 DEF CheckpointOK
<1>16. ConnOK(n, shm, wal, db', committed) /\ n.at \notin AtReset
  <2>1. n.at \in AtCkpt /\ n.at \notin AtReset
    BY <1>0, <1>10, <1>13
  <2> QED
    BY <1>9, <1>14, <1>15, <2>1, CkptOK
<1>17. ASSUME NEW e \in Conn \ {c} PROVE PairOK(n, con[e], shm) /\ PairOK(con[e], n, shm)
  <2>1. PairOK(con[c], con[e], shm) /\ PairOK(con[e], con[c], shm)
    BY ConnNow
  <2>2. Behind(n, con[e], shm) /\ Behind(con[e], n, shm)
    <3>1. ~(n.rl >= 1)
      BY <1>10, <1>13
    <3> QED
      BY <1>0, <1>10, <1>12, <2>1, <3>1 DEF PairOK, Behind
  <2>3. Fresh(n, con[e], shm) /\ Fresh(con[e], n, shm)
    BY <1>0, <1>10, <1>13, <2>1 DEF PairOK, Fresh
  <2> QED
    BY <1>14, <2>2, <2>3 DEF PairOK
<1> QED
  BY <1>0, <1>1, <1>4, <1>5, <1>8, <1>9, <1>10, <1>14, <1>16, <1>17, StoredStep, Zenon

(* A page that is written in part.                                         *)
LEMMA IoCopyStep ==
  ASSUME Inv, NEW c \in Conn, IoError(c), con[c].at = "copy", ToCopy(con[c]) # {}
  PROVE  Inv'
<1>0. /\ con[c] \in State /\ InPlace(con[c]) /\ Locked(con[c])
      /\ HdrKnown(con[c], shm, committed) /\ db \in Image /\ FileTypes /\ shm \in ShmType
  BY ConnNow
<1>1. PICK p \in Page : p = Min(ToCopy(con[c])) /\ p \in ToCopy(con[c])
  <2>1. NPage \in Nat /\ ToCopy(con[c]) \in SUBSET (0 .. NPage) /\ ToCopy(con[c]) \subseteq Page
    BY Bounds DEF ToCopy, Page
  <2> QED
    BY <2>1, FirstOf, Zenon
<1>2. /\ Store(p, Torn) /\ UNCHANGED <<wal, walOld, headOld, cutOld, shm, committed>>
      /\ ntxn' = ntxn
  BY <1>1 DEF IoError
<1>3. Torn \in Pages \cup {Torn}
  OBVIOUS
<1>4. /\ FileTypes' /\ \A q \in Page \ {p} : db'[q] = db[q]
  BY <1>0, <1>2, <1>3, StoredTypes, PageSet
<1>5. PICK n : n = Failed(con[c])
  OBVIOUS
<1>6. con[c].goal \in {"ckpt", "close"} /\ con[c].tid = 0 /\ con[c].at # "closed"
      /\ con[c].at \in AtCkpt
  <2>1. con[c].at \in AtCkpt
    BY DEF AtCkpt
  <2> QED
    BY <1>0, <1>1, <2>1, AtCopy DEF InPlace, Checkpointing
<1>7. con' = [con EXCEPT ![c] = n]
  BY <1>5, <1>6 DEF IoError
<1>8. n = Closed \/ n = Checkpointed(con[c])
  BY <1>5 DEF Failed
<1>9. /\ n \in State /\ n.at \in {"closed", "idle"} /\ n.goal = "none" /\ n.rl = -1
      /\ ~n.wl /\ ~n.cl /\ n.ex = {} /\ ~n.chg /\ n.tid = 0 /\ n.job = {} /\ n.log = <<>>
  BY <1>0, <1>8, ClosedState, CheckpointedState
<1>10. /\ n.cache \in {con[c].cache, NoImage} /\ n.hdr \in {con[c].hdr, NoHdr}
       /\ (n.at = "closed" => n.cache = NoImage)
       /\ (Describes(n) => n.hdr = con[c].hdr /\ Describes(con[c]))
  <2>1. CASE n = Closed
    BY <2>1, ClosedState DEF Describes
  <2>2. CASE n = Checkpointed(con[c])
    BY <1>0, <1>6, <2>2, CheckpointedState, Nothing DEF Describes
  <2> QED
    BY <1>8, <2>1, <2>2
<1>11. Simple(n)
  BY <1>9, <1>10 DEF Simple, InPlace, Locked, AtHdr, AtLock, AtReset, AtWrite, AtCkpt,
                     InRecovery, Checkpointing
<1>12. HdrKnown(n, shm, committed)
  BY <1>0, <1>9, <1>10 DEF HdrKnown, Describes
<1>13. ConnOK(n, shm, wal, db', committed)
  BY <1>9, <1>11, <1>12, SimpleOK
<1>14. ASSUME NEW e \in Conn \ {c} PROVE PairOK(n, con[e], shm) /\ PairOK(con[e], n, shm)
  <2>1. /\ PairOK(con[c], con[e], shm) /\ PairOK(con[e], con[c], shm) /\ con[e] \in State
        /\ ConnOK(con[e], shm, wal, db, committed)
    BY ConnNow DEF Inv
  <2>2. NoMore(n, con[c])
    BY <1>6, <1>9 DEF NoMore, InRecovery
  <2>3. Apart(n, con[e]) /\ Apart(con[e], n)
    BY <1>0, <1>9, <2>1, <2>2, StaysApart DEF PairOK
  <2>4. n.at \notin AtReset /\ n.at \notin Limited /\ n.at \notin AtCkpt
    BY <1>9 DEF AtReset, Limited, AtCkpt
  <2>5. n.hdr.gen \in {con[c].hdr.gen, 0, shm.h0.gen} /\ ~(n.rl >= 1)
    BY <1>9, <1>10, Nothing
  <2> QED
    BY <1>0, <1>9, <2>1, <2>3, <2>4, <2>5, PairKept
<1> QED
  BY <1>1, <1>2, <1>4, <1>7, <1>9, <1>10, <1>13, <1>14, StoredStep, Zenon DEF AtReset

-----------------------------------------------------------------------------
(* All pages up to the limit of the checkpoint are in the file.            *)
LEMMA OthersCopied ==
  ASSUME NEW r \in State, NEW s \in ShmType, NEW t \in ShmType, NEW w, NEW b, NEW im,
         ConnOK(r, s, w, b, im), r.rl # 0, r.at # "reset2", r.at # "copy",
         s.backfill < s.h0.mx, s.backfill <= t.backfill,
         t.h0 = s.h0, t.h1 = s.h1, t.mark = s.mark, t.pg = s.pg
  PROVE  ConnOK(r, t, w, b, im)
<1>1. RecoveryOK(r, t, w)
  BY DEF ConnOK, RecoveryOK, Indexed
<1>2. HdrKnown(r, t, im)
  BY DEF ConnOK, HdrKnown
<1>3. SnapshotOK(r, t, w, b)
  <2>1. Seen(r, t, w, b) = Seen(r, s, w, b) /\ End(r, t) = End(r, s)
    BY DEF Seen, End
  <2>2. r.mi \in 1 .. s.backfill + 1 => r.mi \in 1 .. t.backfill + 1
    <3>1. s.backfill \in Nat /\ t.backfill \in Nat
      BY ShmTypes, Bounds
    <3> QED
      BY <3>1
  <2> QED
    BY <2>1, <2>2 DEF ConnOK, SnapshotOK
<1>4. ResetOK(r, t, im)
  BY DEF ConnOK, ResetOK
<1>5. WriterOK(r, t, im)
  <2>1. ~(s.backfill = s.h0.mx)
    <3>1. s.backfill \in Nat /\ s.h0.mx \in Nat
      BY ShmTypes, Bounds
    <3> QED
      BY <3>1
  <2>2. Changed(r, t) = Changed(r, s)
    BY DEF Changed
  <2>3. WriterOK(r, s, im)
    BY DEF ConnOK
  <2>4. ~(r.tid # 0 /\ r.at \in AtLock \cup {"restart"})
    BY <2>1, <2>3 DEF WriterOK
  <2> QED
    BY <2>2, <2>3, <2>4 DEF WriterOK
<1>6. WrittenOK(r, t, w)
  BY DEF ConnOK, WrittenOK, Indexed
<1>7. CheckpointOK(r, t, w, b)
  BY DEF ConnOK, CheckpointOK, IsLast
<1> QED
  BY <1>1, <1>2, <1>3, <1>4, <1>5, <1>6, <1>7 DEF ConnOK

(* Once all pages up to safe are copied, nBackfill may say so.             *)
LEMMA CopiedIndex ==
  ASSUME NEW r \in State, NEW s \in ShmType, NEW w \in LogType, NEW b, NEW im,
         IndexOK(s, w, b, im), CheckpointOK(r, s, w, b), r.at = "copy", ToCopy(r) = {},
         NEW t \in ShmType, t.h0 = s.h0, t.pg = s.pg, t.backfill = r.safe
  PROVE  IndexOK(t, w, b, im)
<1>0. /\ s.h0.init /\ r.hdr.mx <= s.h0.mx /\ r.safe <= r.hdr.mx
      /\ r.bf = s.backfill /\ r.bf < r.safe
  BY DEF CheckpointOK, AtCkpt
<1>1. /\ r.hdr.mx \in Nat /\ r.safe \in Nat /\ s.backfill \in Nat /\ s.h0.mx \in Nat
      /\ s.h0.mx \in 0 .. MaxFrame
  BY ShmTypes, StateTypes, Bounds
<1>2. ASSUME NEW i \in 1 .. r.safe, IsLast(i, s.h0.mx, s) PROVE b[s.pg[i]] = w.frame[i].tid
  <2>1. CASE i \in 1 .. s.backfill
    BY <1>2, <2>1 DEF IndexOK
  <2>2. CASE i \notin 1 .. s.backfill
    <3>1. i \in r.bf + 1 .. r.safe /\ i \in 1 .. r.hdr.mx
      BY <1>0, <1>1, <2>2
    <3>2. \A j \in i + 1 .. r.hdr.mx : j \in i + 1 .. s.h0.mx
      BY <1>0, <1>1
    <3>3. \A j \in i + 1 .. r.hdr.mx : s.pg[j] # s.pg[i]
      BY <1>2, <3>2 DEF IsLast
    <3>4. s.pg[i] \in Page
      <4>1. i \in 1 .. s.h0.mx /\ i \in Index
        BY <1>0, <1>1, Bounds DEF Index
      <4>2. w.frame[i] # NoFrame /\ s.pg[i] = w.frame[i].pg
        BY <1>0, <4>1 DEF IndexOK, HdrOf, Chained, Indexed
      <4> QED
        BY <4>1, <4>2, LogTypes
    <3>5. PICK p \in Page : p = s.pg[i]
      BY <3>4
    <3>6. r.it[p] # 0 /\ r.it[p] \in 1 .. r.hdr.mx /\ IsLast(r.it[p], r.hdr.mx, s)
          /\ s.pg[r.it[p]] = p
      BY <3>1, <3>5 DEF CheckpointOK, IsLast
    <3>7. r.it[p] = i
      <4>1. r.it[p] < i => i \in r.it[p] + 1 .. r.hdr.mx
        BY <1>1, <3>1, <3>6
      <4>2. ~(r.it[p] < i)
        BY <3>5, <3>6, <4>1 DEF IsLast
      <4>3. r.it[p] > i => r.it[p] \in i + 1 .. r.hdr.mx
        BY <1>1, <3>1, <3>6
      <4>4. ~(r.it[p] > i)
        BY <3>3, <3>5, <3>6, <4>3
      <4> QED
        BY <1>1, <3>1, <3>6, <4>2, <4>4
    <3>8. p <= r.i
      <4>1. ~(p > r.i)
        BY <3>1, <3>7 DEF ToCopy
      <4>2. p \in Nat /\ r.i \in Nat
        BY StateTypes DEF Page
      <4> QED
        BY <4>1, <4>2
    <3>9. b[p] = w.frame[r.it[p]].tid
      BY <3>1, <3>7, <3>8 DEF CheckpointOK
    <3> QED
      BY <3>5, <3>7, <3>9
  <2> QED
    BY <2>1, <2>2
<1>3. HdrOf(t.h0, t, w) /\ im = Overlay(t.h0.mx, t, w, b)
  BY <1>0 DEF IndexOK, HdrOf, Indexed, Overlay
<1>4. \A i \in 1 .. t.backfill : IsLast(i, t.h0.mx, t) => b[t.pg[i]] = w.frame[i].tid
  BY <1>2 DEF IsLast
<1> QED
  BY <1>0, <1>3, <1>4 DEF IndexOK

(* walCheckpoint writes nBackfill.                                         *)
LEMMA BackfilledStep ==
  ASSUME Inv, NEW c \in Conn, Backfilled(c)
  PROVE  Inv'
<1>0. /\ con[c].at = "copy" /\ con[c] \in State /\ InPlace(con[c]) /\ Locked(con[c])
      /\ CheckpointOK(con[c], shm, wal, db) /\ ToCopy(con[c]) = {}
      /\ shm \in ShmType /\ wal \in LogType /\ db \in Image /\ committed \in Image
      /\ FileTypes /\ ntxn \in 0 .. MaxTxn
      /\ IndexOK(shm, wal, db, committed)
  BY ConnNow, IndexNow DEF Backfilled
<1>1. /\ con[c].at \in AtCkpt /\ con[c].at \notin AtReset
      /\ con[c].cl /\ con[c].ex = {0} /\ con[c].rl = -1 /\ con[c].tid = 0 /\ con[c].at # "closed"
  BY <1>0 DEF InPlace, Locked, AtCkpt, AtWrite, AtReset, InRecovery, Checkpointing
<1>2. /\ con[c].bf = shm.backfill /\ con[c].bf < con[c].safe
      /\ con[c].safe <= con[c].hdr.mx /\ con[c].hdr.mx <= shm.h0.mx
  BY <1>0, <1>1 DEF CheckpointOK
<1>3. /\ shm.backfill \in Nat /\ con[c].safe \in Nat /\ con[c].hdr.mx \in Nat /\ shm.h0.mx \in Nat
  BY <1>0, ShmTypes, StateTypes, Bounds
<1>4. PICK x \in SUBSET (0 .. NReader - 1) : x = {}
  BY Zenon
<1>5. PICK n : n = [con[c] EXCEPT !.at = "done", !.ex = x]
  OBVIOUS
<1>6. PICK k \in 0 .. MaxFrame : k = con[c].safe
  BY <1>0, StateTypes
<1>7. con' = [con EXCEPT ![c] = n] /\ shm' = [shm EXCEPT !.backfill = k]
  BY <1>4, <1>5, <1>6 DEF Backfilled
<1>8. n \in State
  <2>1. "done" \in AtAny
    BY DEF AtAny, AtCkpt
  <2> QED
    BY <1>0, <1>4, <1>5, <2>1, Zenon DEF State
<1>9. /\ n.at = "done" /\ n.goal = con[c].goal /\ n.mode = con[c].mode /\ n.rl = con[c].rl
      /\ n.ex = {} /\ n.hdr = con[c].hdr /\ n.cache = con[c].cache /\ n.tid = con[c].tid
      /\ n.job = con[c].job /\ n.log = con[c].log
  BY <1>0, <1>4, <1>5 DEF State
<1>10. /\ n.wl = con[c].wl /\ n.cl = con[c].cl /\ n.chg = con[c].chg
  BY <1>0, <1>5 DEF State
<1>11. /\ shm' \in ShmType /\ shm'.h0 = shm.h0 /\ shm'.h1 = shm.h1 /\ shm'.mark = shm.mark
       /\ shm'.pg = shm.pg /\ shm'.backfill = con[c].safe
  BY <1>0, <1>6, <1>7 DEF ShmType
<1>12. wal' = wal /\ db' = db /\ committed' = committed /\ ntxn' = ntxn /\ FileTypes'
  <2>1. dbOld' \in [Page -> SUBSET (Pages \cup {Torn})]
    BY <1>0 DEF Backfilled, FileTypes
  <2> QED
    BY <1>0, <2>1 DEF Backfilled, history, FileTypes
<1>13. /\ InPlace(n) /\ Locked(n) /\ n.job = {} /\ n.log = <<>>
       /\ HdrKnown(n, shm, committed) /\ (Describes(n) => Describes(con[c]))
       /\ \A d \in Conn \ {c} : Apart(n, con[d]) /\ Apart(con[d], n)
  <2>1. n.at \in AtCkpt /\ n.at \notin {"mark", "marklock", "copy"}
    BY <1>9 DEF AtCkpt
  <2> QED
    BY <1>1, <1>8, <1>9, <1>10, <2>1, CkptMoves, Zenon
<1>14. ConnOK(n, shm', wal, db, committed)
  <2>1. HdrKnown(n, shm', committed)
    BY <1>11, <1>13 DEF HdrKnown
  <2>2. CheckpointOK(n, shm', wal, db) /\ n.at \in AtCkpt
    <3>1. n.at \in AtCkpt
      BY <1>9 DEF AtCkpt
    <3> QED
      BY <1>0, <1>1, <1>9, <1>10, <1>11, <3>1 DEF CheckpointOK
  <2> QED
    BY <1>8, <1>13, <2>1, <2>2, CkptOK
<1>15. /\ con'[c] = n /\ \A d \in Conn \ {c} : con'[d] = con[d]
       /\ \A d \in Conn \ {c} : con[d] \in State /\ ConnOK(con[d], shm, wal, db, committed)
       /\ \A d, e \in Conn \ {c} : d # e => PairOK(con[d], con[e], shm)
  BY <1>7, OthersNow, Zenon
<1>16. ASSUME NEW d \in Conn \ {c} PROVE ConnOK(con[d], shm', wal, db, committed)
  <2>1. /\ ConnOK(con[d], shm, wal, db, committed) /\ con[d] \in State
        /\ PairOK(con[d], con[c], shm) /\ PairOK(con[c], con[d], shm)
    BY <1>15, ConnNow
  <2>2. con[d].rl # 0 /\ ~con[d].cl /\ con[d].at # "reset2"
    BY <1>1, <2>1 DEF PairOK, Apart, Fresh
  <2>3. con[d].at # "copy"
    BY <2>1, <2>2 DEF ConnOK, InPlace, Locked, AtCkpt
  <2>4. shm.backfill < shm.h0.mx /\ shm.backfill <= shm'.backfill
    BY <1>2, <1>3, <1>11
  <2> QED
    BY <1>0, <1>11, <2>1, <2>2, <2>3, <2>4, OthersCopied
<1>17. ASSUME NEW d \in Conn \ {c} PROVE PairOK(n, con[d], shm') /\ PairOK(con[d], n, shm')
  <2>1. /\ PairOK(con[c], con[d], shm) /\ PairOK(con[d], con[c], shm) /\ con[d] \in State
        /\ ConnOK(con[d], shm, wal, db, committed)
    BY <1>15, ConnNow
  <2>2. n.at \notin AtReset /\ n.at \notin Limited /\ ~(n.rl >= 1)
    BY <1>1, <1>9 DEF AtReset, Limited
  <2>3. Apart(n, con[d]) /\ Apart(con[d], n)
    BY <1>13
  <2>4. n.hdr.gen \in {con[c].hdr.gen, 0, shm.h0.gen} /\ n.tid = 0
    BY <1>1, <1>9
  <2>5. PairOK(n, con[d], shm) /\ PairOK(con[d], n, shm)
    BY <1>0, <1>1, <1>8, <2>1, <2>2, <2>3, <2>4, PairKept
  <2> QED
    BY <1>11, <2>5, PairSame
<1>18. \A d, e \in Conn \ {c} : d # e => PairOK(con[d], con[e], shm')
  BY <1>11, <1>15, PairSame
<1>19. ShmOK'
  <2>1. IndexOK(shm', wal, db, committed)
    BY <1>0, <1>11, CopiedIndex
  <2>2. IndexOK(shm', wal', db', committed')
    BY <1>12, <2>1
  <2>3. shm'.backfill <= shm'.h0.mx
    BY <1>2, <1>3, <1>11
  <2>4. (\A d \in Conn : con'[d].at # "reset2") => \A d \in Conn : con[d].at # "reset2"
    BY <1>1, <1>15 DEF AtReset
  <2>5. ASSUME \A d \in Conn : con'[d].at # "reset2", NEW d \in Conn PROVE Half(con'[d], shm', wal')
    <3>1. Half(con[d], shm, wal)
      BY <2>4, <2>5 DEF Inv, ShmOK
    <3>2. Half(con[d], shm', wal')
      BY <1>11, <1>12, <3>1 DEF Half
    <3>3. CASE d = c
      BY <1>9, <1>13, <1>15, <3>2, <3>3 DEF Half
    <3>4. CASE d # c
      BY <1>15, <3>2, <3>4
    <3> QED
      BY <3>3, <3>4
  <2> QED
    BY <2>2, <2>3, <2>5 DEF ShmOK
<1>20. /\ ConnOK(n, shm', wal', db', committed')
       /\ \A d \in Conn \ {c} : ConnOK(con[d], shm', wal', db', committed')
  BY <1>12, <1>14, <1>16
<1> QED
  BY <1>0, <1>7, <1>8, <1>11, <1>12, <1>17, <1>18, <1>19, <1>20, LoudStep, Zenon

-----------------------------------------------------------------------------
(* Nobody has the database open.                                           *)
LEMMA ClosedPair ==
  ASSUME NEW r \in State, NEW q \in State, NEW s, NEW w, NEW b, NEW im,
         ConnOK(r, s, w, b, im), ConnOK(q, s, w, b, im), r.at = "closed", q.at = "closed"
  PROVE  \A t : PairOK(r, q, t)
<1>1. /\ r.rl = -1 /\ r.ex = {} /\ ~r.wl /\ ~r.cl /\ ~InRecovery(r)
      /\ q.rl = -1 /\ q.ex = {} /\ ~q.wl /\ ~q.cl /\ ~InRecovery(q) /\ q.tid = 0
      /\ q.goal = "none"
  BY ClosedIs
<1> QED
  BY <1>1 DEF PairOK, Apart, Behind, Fresh

(* When nobody has the database open nothing else is said.                 *)
LEMMA ClosedStep ==
  ASSUME Types', \A c \in Conn : con'[c].at = "closed" /\ ConnOK(con'[c], shm', wal', db', committed'),
         shm'.backfill <= shm'.h0.mx
  PROVE  Inv'
<1>1. \A c \in Conn : con'[c] \in State
  BY DEF Types
<1>2. \A c, d \in Conn : PairOK(con'[c], con'[d], shm')
  BY <1>1, ClosedPair
<1>3. ASSUME NEW c \in Conn PROVE Half(con'[c], shm', wal')
  BY <1>1, ClosedIs DEF Half
<1>4. ShmOK'
  BY <1>3 DEF ShmOK, Alive
<1> QED
  BY <1>2, <1>4 DEF Inv

(* A closed connection knows nothing.                                      *)
LEMMA ClosedKnows ==
  ASSUME NEW r \in State, Simple(r), r.at = "closed", r.cache = NoImage, NEW s, NEW w, NEW b, NEW im
  PROVE  ConnOK(r, s, w, b, im)
<1>1. HdrKnown(r, s, im)
  BY DEF HdrKnown, Describes, Simple, InPlace
<1> QED
  BY <1>1, SimpleOK

(* A closed connection says nothing.                                       *)
LEMMA ClosedSimple == Simple(Closed)
  BY ClosedState DEF Simple, InPlace, Locked, AtHdr, AtLock, AtReset, AtWrite, AtCkpt,
                     InRecovery, Checkpointing

(* The last connection deletes the log.                                    *)
LEMMA LastClosesStep ==
  ASSUME Inv, NEW c \in Conn, CkptEnd(c), con[c].goal = "close"
  PROVE  Inv'
<1>0. /\ con[c].at = "done" /\ shm \in ShmType /\ FileTypes /\ committed \in Image
      /\ ntxn \in 0 .. MaxTxn /\ con \in [Conn -> State]
  BY ConnNow DEF CkptEnd, Inv, Types
<1>1. \A d \in Conn \ {c} : con[d].at = "closed" /\ ConnOK(con[d], shm, wal, db, committed)
  BY ConnNow DEF PairOK, Apart, Inv
<1>2. con' = [con EXCEPT ![c] = Closed] /\ wal' = NoWal
  BY DEF CkptEnd, NoLog
<1>3. shm' = shm /\ db' = db /\ dbOld' = dbOld /\ committed' = committed /\ ntxn' = ntxn
  BY DEF CkptEnd, history
<1>4. FileTypes'
  <2>1. walOld' \in [Index -> SUBSET (Frame \cup {NoFrame})] /\ headOld' \subseteq HeadType
    BY DEF CkptEnd, NoLog
  <2>2. wal' \in LogType /\ cutOld' \in LogType
    BY <1>0, <1>2, Nothing DEF CkptEnd, NoLog, FileTypes
  <2> QED
    BY <1>0, <1>3, <2>1, <2>2 DEF FileTypes
<1>5. Types'
  BY <1>0, <1>2, <1>3, <1>4, ClosedState DEF Types
<1>6. ASSUME NEW d \in Conn
      PROVE  con'[d].at = "closed" /\ ConnOK(con'[d], shm', wal', db', committed')
  <2>1. con'[d] \in State /\ Simple(con'[d]) /\ con'[d].at = "closed" /\ con'[d].cache = NoImage
    <3>1. CASE d = c
      BY <1>0, <1>2, <3>1, ClosedState, ClosedSimple
    <3>2. CASE d # c
      <4>1. con'[d] = con[d] /\ con[d] \in State
        BY <1>0, <1>2, <3>2
      <4> QED
        BY <1>1, <3>2, <4>1, ClosedIs
    <3> QED
      BY <3>1, <3>2
  <2> QED
    BY <2>1, ClosedKnows
<1>7. shm'.backfill <= shm'.h0.mx
  <2>1. \A d \in Conn : con[d].at # "reset3"
    BY <1>0, <1>1
  <2> QED
    BY <1>3, <2>1 DEF Inv, ShmOK
<1> QED
  BY <1>5, <1>6, <1>7, ClosedStep

(* A power failure closes all connections.                                 *)
LEMMA PowerLossStep ==
  ASSUME Inv, PowerLoss
  PROVE  Inv'
<1>0. FileTypes /\ committed \in Image /\ ntxn \in 0 .. MaxTxn
  BY DEF Inv, Types
<1>1. /\ con' = [c \in Conn |-> Closed] /\ shm' = NoShm
      /\ committed' = committed /\ ntxn' = ntxn
  BY DEF PowerLoss
<1>2. db' \in Image
  <2>1. PICK d \in [Page -> UNION {dbOld[p] \cup {db[p]} : p \in Page}] :
          (\A p \in Page : d[p] \in dbOld[p] \cup {db[p]}) /\ db' = d
    BY DEF PowerLoss
  <2>2. \A p \in Page : d[p] \in Pages \cup {Torn}
    BY <1>0, <2>1 DEF FileTypes, Image
  <2> QED
    BY <2>1, <2>2 DEF Image
<1>3. wal' \in LogType
  <2>1. CASE cutOld # NoWal /\ wal' = cutOld
    BY <1>0, <2>1 DEF FileTypes
  <2>2. ASSUME NEW f \in [Index -> UNION {walOld[i] \cup {wal.frame[i]} : i \in Index}],
               NEW h \in headOld \cup {wal.head},
               \A i \in Index : f[i] \in walOld[i] \cup {wal.frame[i]},
               wal' = [head |-> h, frame |-> f]
        PROVE  wal' \in LogType
    <3>1. \A i \in Index : f[i] \in Frame \cup {NoFrame}
      BY <1>0, <2>2 DEF FileTypes, LogType
    <3>2. f \in [Index -> Frame \cup {NoFrame}]
      BY <3>1
    <3>3. h \in HeadType
      BY <1>0, <2>2 DEF FileTypes, LogType
    <3> QED
      BY <2>2, <3>2, <3>3 DEF LogType
  <2> QED
    BY <2>1, <2>2 DEF PowerLoss
<1>4. FileTypes'
  <2>1. /\ dbOld' \in [Page -> SUBSET (Pages \cup {Torn})]
        /\ walOld' \in [Index -> SUBSET (Frame \cup {NoFrame})]
        /\ headOld' \subseteq HeadType /\ cutOld' \in LogType
    BY Nothing DEF PowerLoss, SyncWal
  <2> QED
    BY <1>2, <1>3, <2>1 DEF FileTypes
<1>5. Types'
  BY <1>0, <1>1, <1>4, ClosedState, Nothing DEF Types
<1>6. \A c \in Conn : con'[c].at = "closed" /\ ConnOK(con'[c], shm', wal', db', committed')
  BY <1>1, ClosedState, ClosedSimple, ClosedKnows
<1>7. shm'.backfill <= shm'.h0.mx
  BY <1>1, NoIndex
<1> QED
  BY <1>5, <1>6, <1>7, ClosedStep

-----------------------------------------------------------------------------
(* The invariant.                                                          *)
LEMMA InitInv ==
  ASSUME Init
  PROVE  Inv
<1>1. PICK n \in State : n = Idle(Closed)
  BY ClosedState, IdleState
<1>2. /\ n.at = "idle" /\ n.goal = "none" /\ n.mode = "passive" /\ n.rl = -1 /\ ~n.wl /\ ~n.cl
      /\ n.ex = {} /\ ~n.chg /\ n.cache = NoImage /\ n.tid = 0 /\ n.job = {} /\ n.log = <<>>
  BY <1>1, ClosedState, IdleState
<1>3. con = [c \in Conn |-> n] /\ shm = NoShm
  BY <1>1 DEF Init
<1>4. db \in Image /\ committed = db /\ ntxn \in 0 .. MaxTxn
  <2>1. 0 \in Pages
    BY Bounds DEF Pages
  <2> QED
    BY <2>1, Nothing DEF Init, Image
<1>5. Types
  <2>1. FileTypes
    BY <1>4, Nothing DEF FileTypes, Init
  <2> QED
    BY <1>1, <1>3, <1>4, <2>1, Nothing DEF Types
<1>6. Simple(n)
  BY <1>2 DEF Simple, InPlace, Locked, AtHdr, AtLock, AtReset, AtWrite, AtCkpt, InRecovery,
              Checkpointing
<1>7. HdrKnown(n, shm, committed)
  BY <1>2 DEF HdrKnown, Describes
<1>8. ConnOK(n, shm, wal, db, committed)
  BY <1>6, <1>7, SimpleOK
<1>9. PairOK(n, n, shm)
  BY <1>2 DEF PairOK, Apart, Behind, Fresh, InRecovery
<1>10. ShmOK
  BY <1>3, NoIndex DEF ShmOK
<1> QED
  BY <1>3, <1>5, <1>8, <1>9, <1>10 DEF Inv

(* A call of the VFS fails: a frame or a page is written in part, or       *)
(* nothing is.                                                             *)
LEMMA IoErrorStep ==
  ASSUME Inv, NEW c \in Conn, IoError(c)
  PROVE  Inv'
<1>1. CASE con[c].at = "frame"
  BY <1>1, IoFrameStep
<1>2. CASE con[c].at = "copy" /\ ToCopy(con[c]) # {}
  BY <1>2, IoCopyStep
<1>3. CASE con[c].at # "frame" /\ ~(con[c].at = "copy" /\ ToCopy(con[c]) # {})
  BY <1>3, IoFailedStep
<1> QED
  BY <1>1, <1>2, <1>3

(* A checkpoint ends, or with it the last connection.                      *)
LEMMA CkptEndStep ==
  ASSUME Inv, NEW c \in Conn, CkptEnd(c)
  PROVE  Inv'
  BY CkptEndsStep, LastClosesStep

(* The steps of a reader.                                                  *)
LEMMA ReadActionStep ==
  ASSUME Inv, NEW c \in Conn, Read(c)
  PROVE  Inv'
  BY BeginReadStep, RetryHdrStep, LockHdrStep, CannotLockHdrStep, ReadLockedStep, RecoverStep,
     CannotRecoverStep, Recover2Step, Recover3Step, ChooseStep, MarksStep, LockMarkStep,
     EndReadStep DEF Read

(* Those of a writer.                                                      *)
LEMMA WriteActionStep ==
  ASSUME Inv, ~disturbed', NEW c \in Conn, Write(c)
  PROVE  Inv'
  BY BeginWriteStep, SpillStep, CommitStep, RestartStep, Reset2Step, Reset3Step, HeaderStep,
     HeaderSyncStep, WriteFrameStep, AppendIndexStep, PublishStep, RollbackStep DEF Write

(* Those of a checkpoint.                                                  *)
LEMMA CheckpointActionStep ==
  ASSUME Inv, NEW c \in Conn, Checkpoint(c)
  PROVE  Inv'
  BY CkptStartStep, CkptActionStep, ReadMarkStep, RaiseMarkStep, BackfillStep, CopyStep,
     BackfilledStep, DoneStep, CutStep, CkptEndStep DEF Checkpoint

(* Every step keeps the invariant.                                         *)
LEMMA NextInv ==
  ASSUME Inv, ~disturbed', [Next]_vars
  PROVE  Inv'
<1>1. ASSUME NEW c \in Conn,
             Open(c) \/ Read(c) \/ Write(c) \/ Checkpoint(c) \/ Close(c) \/ IoError(c) \/ Crash(c)
      PROVE  Inv'
  BY <1>1, OpenStep, ReadActionStep, WriteActionStep, CheckpointActionStep, CloseActionStep,
     IoErrorStep, CrashStep
<1>2. CASE PowerLoss
  BY <1>2, PowerLossStep
<1>3. CASE UNCHANGED vars
  BY <1>3 DEF vars, files, history, Inv, Types, FileTypes, ShmOK, Alive
<1> QED
  BY <1>1, <1>2, <1>3 DEF Next

(* What has been disturbed stays so.                                       *)
LEMMA DisturbedStays ==
  ASSUME disturbed, [Next]_vars
  PROVE  disturbed'
<1>1. ASSUME NEW c \in Conn, Open(c) \/ Close(c) \/ IoError(c) \/ Crash(c) PROVE disturbed'
  BY <1>1, Zenon DEF Open, Close, IoError, Crash, history
<1>2. ASSUME NEW c \in Conn, Read(c) PROVE disturbed'
  <2>1. CASE BeginRead(c) \/ RetryHdr(c) \/ LockHdr(c) \/ CannotLockHdr(c) \/ ReadLocked(c)
    BY <2>1, Zenon DEF BeginRead, RetryHdr, TryHdr, LockHdr, CannotLockHdr, ReadLocked, history
  <2>2. CASE \/ Recover(c) \/ CannotRecover(c) \/ Recover2(c) \/ Recover3(c)
             \/ Choose(c) \/ Marks(c) \/ LockMark(c) \/ EndRead(c)
    BY <2>2, Zenon DEF Recover, CannotRecover, Recover2, Recover3, Choose, Marks, LockMark, EndRead, history
  <2> QED
    BY <1>2, <2>1, <2>2, Zenon DEF Read
<1>3. ASSUME NEW c \in Conn, Write(c) PROVE disturbed'
  <2>1. CASE BeginWrite(c) \/ Spill(c) \/ Commit(c) \/ Restart(c)
    BY <2>1, Zenon DEF BeginWrite, Spill, Commit, Log, Restart, history
  <2>2. CASE \/ Reset2(c) \/ Reset3(c) \/ Header(c) \/ HeaderSync(c) \/ WriteFrame(c)
             \/ AppendIndex(c) \/ Publish(c) \/ Rollback(c)
    BY <2>2, Zenon DEF Reset2, Reset3, Header, HeaderSync, WriteFrame, AppendIndex, Publish, Rollback, history
  <2> QED
    BY <1>3, <2>1, <2>2, Zenon DEF Write
<1>4. ASSUME NEW c \in Conn, Checkpoint(c) PROVE disturbed'
  BY <1>4, Zenon DEF Checkpoint, CkptStart, Ckpt, ReadMark, RaiseMark, Backfill, Copy, Backfilled,
                     Done, Cut, CkptEnd, history
<1>5. CASE PowerLoss
  BY <1>5, Zenon DEF PowerLoss, history
<1>6. CASE UNCHANGED vars
  BY <1>6, Zenon DEF vars, history
<1> QED
  BY <1>1, <1>2, <1>3, <1>4, <1>5, <1>6, Zenon DEF Next

(* The invariant of the log holds until a reset of the log is disturbed.   *)
THEOREM WalInvariance == Spec => [](disturbed \/ Inv)
<1>1. Init => Inv
  BY InitInv
<1>2. (disturbed \/ Inv) /\ [Next]_vars => (disturbed \/ Inv)'
  BY NextInv, DisturbedStays
<1> QED
  BY <1>1, <1>2, PTL DEF Spec

-----------------------------------------------------------------------------
(* What follows from the invariant.                                        *)

(* A writer that reads the file and not the log has all of the committed   *)
(* image there.                                                            *)
LEMMA FileIsCommitted ==
  ASSUME Inv, NEW c \in Conn, con[c].rl = 0, con[c].tid # 0
  PROVE  committed = db
<1>1. con[c] \in State /\ shm \in ShmType /\ db \in Image
  BY DEF Inv, Types, FileTypes
<1>2. /\ Locked(con[c]) /\ InPlace(con[c]) /\ SnapshotOK(con[c], shm, wal, db)
      /\ ResetOK(con[c], shm, committed) /\ WriterOK(con[c], shm, committed)
  BY DEF Inv, ConnOK
<1>3. con[c].at \in AtReset \cup {"write", "restart"} /\ con[c].at # "closed"
  BY <1>2 DEF Locked, InPlace, AtReset, AtWrite
<1>4. IndexOK(shm, wal, db, committed) /\ shm.h0.init
  BY <1>2, <1>3 DEF Inv, ShmOK, Alive, WriterOK
<1>5. shm.backfill >= shm.h0.mx
  <2>1. shm.backfill \in Int /\ shm.h0.mx \in Int
    BY <1>1, ShmTypes, Bounds
  <2>2. CASE con[c].at = "write"
    <3>1. con[c].hdr = shm.h0 /\ con[c].at \notin AtReset
      BY <1>2, <2>2 DEF WriterOK, AtReset
    <3> QED
      BY <1>2, <2>1, <3>1 DEF SnapshotOK
  <2>3. CASE con[c].at \in {"restart", "reset2"}
    BY <1>2, <2>1, <2>3 DEF WriterOK, ResetOK, AtLock
  <2>4. CASE con[c].at = "reset3"
    <3>1. shm.h0.mx = 0
      BY <1>2, <2>4 DEF ResetOK, AtReset
    <3>2. shm.backfill \in 0 .. MaxFrame
      BY <1>1, ShmTypes
    <3> QED
      BY <3>1, <3>2, Bounds
  <2> QED
    BY <1>3, <2>2, <2>3, <2>4 DEF AtReset
<1> QED
  BY <1>1, <1>4, <1>5, OverlayCopied

(* What a writer has cached is what it would read, or a page that it has   *)
(* changed.                                                                *)
LEMMA WriterSees ==
  ASSUME Inv, NEW c \in Conn, con[c].tid # 0, con[c].rl # -1, NEW p \in Page
  PROVE  \/ con[c].cache[p] = Visible(con[c])[p]
         \/ con[c].wl /\ con[c].cache[p] = con[c].tid
<1>1. PICK r \in State : r = con[c]
  BY DEF Inv, Types
<1>2. shm \in ShmType /\ wal \in LogType /\ db \in Image
  BY DEF Inv, Types, FileTypes
<1>3. /\ Locked(r) /\ InPlace(r) /\ SnapshotOK(r, shm, wal, db)
      /\ WriterOK(r, shm, committed) /\ ResetOK(r, shm, committed)
  BY <1>1 DEF Inv, ConnOK
<1>4. r.wl /\ r.tid # 0 /\ r.rl # -1
  BY <1>1, <1>3 DEF Locked
<1>5. r.cache[p] = IF p \in Changed(r, shm) THEN r.tid ELSE committed[p]
  BY <1>3, <1>4 DEF WriterOK
<1>6. CASE p \in Changed(r, shm)
  BY <1>1, <1>4, <1>5, <1>6
<1>7. ASSUME p \notin Changed(r, shm) PROVE r.cache[p] = Seen(r, shm, wal, db)[p]
  <2>1. CASE r.rl = 0
    <3>1. committed = db
      BY <1>1, <1>4, <2>1, FileIsCommitted
    <3>2. Seen(r, shm, wal, db)[p] = db[p]
      BY <2>1 DEF Seen
    <3> QED
      BY <1>5, <1>7, <3>1, <3>2
  <2>2. CASE r.rl # 0
    <3>1. r.rl >= 1
      BY <1>4, <2>2, StateTypes, Bounds
    <3>2. r.at # "reset2" /\ r.at # "closed"
      BY <1>3, <2>2, <3>1 DEF Locked, InPlace, AtReset, AtWrite
    <3>3. shm.h0.init /\ shm.h0.mx <= r.hdr.mx
      BY <1>3, <1>4, <3>2 DEF WriterOK
    <3>4. IndexOK(shm, wal, db, committed)
      BY <1>1, <3>2 DEF Inv, ShmOK, Alive
    <3>5. r.mi \in 1 .. shm.backfill + 1
      BY <1>3, <3>1 DEF SnapshotOK
    <3>6. \A i \in shm.h0.mx + 1 .. r.hdr.mx : shm.pg[i] # p
      BY <1>7 DEF Changed
    <3>7. Seen(r, shm, wal, db)[p] = committed[p]
      BY <1>2, <3>1, <3>3, <3>4, <3>5, <3>6, SeenPage
    <3> QED
      BY <1>5, <1>7, <3>7
  <2> QED
    BY <2>1, <2>2
<1> QED
  BY <1>1, <1>6, <1>7, VisibleIs

(* The log, the wal-index and the connections have their types, and the    *)
(* locks of the wal-index, which sqlite3OsShmLock grants, exclude what     *)
(* they are to exclude.                                                    *)
THEOREM WalTypes == Spec => [](disturbed \/ WalTypeOK)
<1>1. ASSUME Inv PROVE WalTypeOK
  <2>1. db \in Image /\ \A i \in Index : wal.frame[i] \in Frame \cup {NoFrame}
    BY <1>1 DEF Inv, Types, FileTypes, LogType
  <2>2. /\ shm.h0 \in Hdr /\ shm.h1 \in Hdr /\ shm.backfill \in 0 .. MaxFrame
        /\ shm.mark \in [Slots -> 0 .. NotUsed] /\ shm.pg \in [Index -> 0 .. NPage]
    BY <1>1, ShmTypes DEF Inv, Types
  <2>3. \A c \in Conn : con[c].hdr \in Hdr /\ con[c].cache \in Image \cup {NoImage}
    BY <1>1 DEF Inv, Types, State
  <2>4. \A c, d \in Conn : c # d =>
          /\ ~(con[c].wl /\ con[d].wl) /\ ~(con[c].cl /\ con[d].cl)
          /\ con[c].rl \notin con[d].ex /\ con[c].ex \cap con[d].ex = {}
    BY <1>1 DEF Inv, PairOK, Apart
  <2> QED
    BY <2>1, <2>2, <2>3, <2>4 DEF WalTypeOK
<1> QED
  BY <1>1, WalInvariance, PTL

(* Snapshot isolation: from walTryBeginRead to sqlite3WalEndReadTransaction*)
(* a connection goes on reading what it has read, whatever is committed,   *)
(* copied by walCheckpoint or recovered meanwhile.                         *)
THEOREM SnapshotsStay == Spec => []SnapshotKept
<1>1. ASSUME Inv PROVE SnapshotKept
  <2>1. SUFFICES ASSUME NEW c \in Conn, InTransaction(c), con[c].rl # -1, NEW p \in Page
                 PROVE  \/ con[c].cache[p] = Visible(con[c])[p]
                        \/ con[c].wl /\ con[c].cache[p] = con[c].tid
    BY DEF SnapshotKept
  <2>2. CASE con[c].at = "read"
    <3>1. con[c].cache = Seen(con[c], shm, wal, db)
      BY <1>1, <2>2 DEF Inv, ConnOK, SnapshotOK
    <3> QED
      BY <3>1, VisibleIs
  <2>3. CASE con[c].at # "read"
    <3>1. con[c].tid # 0
      BY <1>1, <2>1, <2>3 DEF Inv, ConnOK, Locked, InTransaction, AtWrite
    <3> QED
      BY <1>1, <2>1, <3>1, WriterSees
  <2> QED
    BY <2>2, <2>3
<1>2. disturbed => SnapshotKept
  BY DEF SnapshotKept
<1> QED
  BY <1>1, <1>2, WalInvariance, PTL

(* What walCheckpoint has copied is part of the log whose header it is     *)
(* kept beside: a reader that finds all of it copied may do without the    *)
(* log.                                                                    *)
THEOREM BackfillInLog == Spec => [](disturbed \/ BackfillBounded)
<1>1. Inv => BackfillBounded
  BY DEF Inv, ShmOK, BackfillBounded
<1> QED
  BY <1>1, WalInvariance, PTL

(* A header in the wal-index that has not changed vouches for the cache of *)
(* the pager: walTryBeginRead reports no change, and nothing is read anew. *)
THEOREM HeadersVouch == Spec => []HeaderTellsContent
<1>1. ASSUME Inv PROVE HeaderTellsContent
  <2>1. SUFFICES ASSUME NEW c \in Conn, con[c].at = "idle", con[c].cache # NoImage,
                        con[c].hdr = shm.h0, con[c].hdr.init
                 PROVE  con[c].cache = committed
    BY DEF HeaderTellsContent
  <2>2. InPlace(con[c]) /\ Locked(con[c]) /\ HdrKnown(con[c], shm, committed)
    BY <1>1 DEF Inv, ConnOK
  <2>3. Describes(con[c])
    BY <2>1, <2>2 DEF InPlace, Locked, Describes, AtHdr, AtWrite
  <2> QED
    BY <2>1, <2>2, <2>3 DEF HdrKnown
<1>2. disturbed => HeaderTellsContent
  BY DEF HeaderTellsContent
<1> QED
  BY <1>1, <1>2, WalInvariance, PTL

-----------------------------------------------------------------------------
(* What frames make of a file: page p is what the last frame of it has.    *)
LastAt(w, p, i, n) ==
  i \in 1 .. n /\ w.frame[i].pg = p /\ \A j \in i + 1 .. n : w.frame[j].pg # p

(* The page is in the log or in the file.                                  *)
LEMMA MadeIs ==
  ASSUME NEW n \in 0 .. MaxFrame, NEW w, NEW b, NEW p \in Page
  PROVE  /\ (\A i \in 1 .. n : w.frame[i].pg # p) => Made(w, b, n)[p] = b[p]
         /\ \A i \in 1 .. n : LastAt(w, p, i, n) => Made(w, b, n)[p] = w.frame[i].tid
         /\ (\A i \in 1 .. n : w.frame[i].pg # p) \/ \E i \in 1 .. n : LastAt(w, p, i, n)
<1> USE Bounds
<1> DEFINE found == {i \in 1 .. n : w.frame[i].pg = p}
<1>1. Made(w, b, n)[p] = IF found = {} THEN b[p] ELSE w.frame[Max(found)].tid
  BY DEF Made
<1>2. found \in SUBSET (0 .. n) /\ n \in Nat
  OBVIOUS
<1>3. ASSUME NEW i \in 1 .. n, LastAt(w, p, i, n) PROVE Max(found) = i
  <2>1. \A j \in found : j <= i
    BY <1>3 DEF LastAt
  <2>2. i \in found
    BY <1>3 DEF LastAt
  <2> HIDE DEF found
  <2> QED
    BY <1>2, <2>1, <2>2, LastIs, Zenon
<1>4. ASSUME found # {} PROVE \E i \in 1 .. n : LastAt(w, p, i, n)
  <2>1. PICK m \in found : \A x \in found : x <= m
    <3> HIDE DEF found
    <3> QED
      BY <1>2, <1>4, LastOf, Zenon
  <2>2. m \in 1 .. n /\ w.frame[m].pg = p
    OBVIOUS
  <2>3. ASSUME NEW j \in m + 1 .. n, w.frame[j].pg = p PROVE FALSE
    <3>1. j \in found
      BY <1>2, <2>2, <2>3
    <3> QED
      BY <1>2, <2>1, <2>2, <3>1
  <2> QED
    BY <2>2, <2>3 DEF LastAt
<1>5. \A i \in 1 .. n : LastAt(w, p, i, n) => found # {}
  BY DEF LastAt
<1> QED
  BY <1>1, <1>3, <1>4, <1>5

(* The same frames make the same.                                          *)
LEMMA MadeSame ==
  ASSUME NEW n \in 0 .. MaxFrame, NEW w, NEW v, NEW b, \A i \in 1 .. n : v.frame[i] = w.frame[i]
  PROVE  Made(v, b, n) = Made(w, b, n)
<1>1. ASSUME NEW p \in Page PROVE Made(v, b, n)[p] = Made(w, b, n)[p]
  <2>1. CASE \A i \in 1 .. n : w.frame[i].pg # p
    <3>1. \A i \in 1 .. n : v.frame[i].pg # p
      BY <2>1
    <3> QED
      BY <2>1, <3>1, MadeIs
  <2>2. ASSUME NEW i \in 1 .. n, LastAt(w, p, i, n) PROVE Made(v, b, n)[p] = Made(w, b, n)[p]
    <3>1. \A j \in i + 1 .. n : j \in 1 .. n
      BY Bounds
    <3>2. LastAt(v, p, i, n)
      BY <2>2, <3>1 DEF LastAt
    <3> QED
      BY <2>2, <3>2, MadeIs
  <2> QED
    BY <2>1, <2>2, MadeIs
<1> QED
  BY <1>1, Zenon DEF Made

(* It does not matter what the file has of the pages that are in the log.  *)
LEMMA MadeCovered ==
  ASSUME NEW n \in 0 .. MaxFrame, NEW w, NEW b, NEW c,
         \A p \in Page : c[p] = b[p] \/ \E i \in 1 .. n : w.frame[i].pg = p
  PROVE  Made(w, c, n) = Made(w, b, n)
<1>1. ASSUME NEW p \in Page PROVE Made(w, c, n)[p] = Made(w, b, n)[p]
  BY MadeIs
<1> QED
  BY <1>1 DEF Made

(* More frames: a page that they do not have is as it was.                 *)
LEMMA MadeMore ==
  ASSUME NEW n \in 0 .. MaxFrame, NEW m \in 0 .. n, NEW w, NEW b, NEW p \in Page,
         \A i \in m + 1 .. n : w.frame[i].pg # p
  PROVE  Made(w, b, n)[p] = Made(w, b, m)[p]
<1>0. n \in Nat /\ m \in Nat /\ m <= n /\ m \in 0 .. MaxFrame
  BY Bounds
<1>1. CASE \A i \in 1 .. n : w.frame[i].pg # p
  <2>1. \A i \in 1 .. m : i \in 1 .. n
    BY <1>0
  <2> QED
    BY <1>0, <1>1, <2>1, MadeIs
<1>2. ASSUME NEW i \in 1 .. n, LastAt(w, p, i, n)
      PROVE  Made(w, b, n)[p] = Made(w, b, m)[p]
  <2>1. Made(w, b, n)[p] = w.frame[i].tid /\ i \notin m + 1 .. n
    BY <1>2, MadeIs DEF LastAt
  <2>2. i \in 1 .. m /\ \A j \in i + 1 .. m : j \in i + 1 .. n
    BY <1>0, <2>1
  <2>3. LastAt(w, p, i, m)
    BY <1>2, <2>2 DEF LastAt
  <2> QED
    BY <1>0, <2>1, <2>2, <2>3, MadeIs
<1>3. (\A i \in 1 .. n : w.frame[i].pg # p) \/ \E i \in 1 .. n : LastAt(w, p, i, n)
  BY MadeIs
<1> QED
  BY <1>1, <1>2, <1>3

(* The wal-index makes the same of the file as the log does.               *)
LEMMA MadeOverlay ==
  ASSUME NEW n \in 0 .. MaxFrame, NEW s, NEW w, NEW b, Indexed(n, s, w)
  PROVE  Overlay(n, s, w, b) = Made(w, b, n)
<1>1. \A p \in Page : {i \in 1 .. n : s.pg[i] = p} = {i \in 1 .. n : w.frame[i].pg = p}
  BY DEF Indexed
<1> QED
  BY <1>1, Zenon DEF Overlay, Made

(* Without a frame it is the file.                                         *)
LEMMA MadeNone ==
  ASSUME NEW w, NEW b \in Image
  PROVE  Made(w, b, 0) = b
<1>1. \A p \in Page : Made(w, b, 0)[p] = b[p]
  BY Bounds, MadeIs
<1> QED
  BY <1>1 DEF Made, Image

-----------------------------------------------------------------------------
(* Chains, and where logs end.                                             *)
LEMMA ChainIs ==
  ASSUME NEW w \in LogType, NEW i \in Index
  PROVE  i \in Chain(w) <=> Chained(w.head.gen, i, w)
  BY Bounds DEF Chain, Chained, Index

(* A shorter one.                                                          *)
LEMMA ChainedLess ==
  ASSUME NEW g, NEW n \in 0 .. MaxFrame, NEW m \in 0 .. n, NEW w, Chained(g, n, w)
  PROVE  Chained(g, m, w)
<1>1. 1 .. m \subseteq 1 .. n /\ (m > 0 => n > 0)
  BY Bounds
<1> QED
  BY <1>1 DEF Chained

(* Where a log may end.                                                    *)
LEMMA EndsIs ==
  ASSUME NEW w \in LogType
  PROVE  /\ 0 \in Ends(w) /\ Ends(w) \subseteq 0 .. MaxFrame
         /\ \A j : j \in Ends(w) /\ j # 0
              <=> j \in Index /\ Chained(w.head.gen, j, w) /\ w.frame[j].com
<1>1. Chain(w) \subseteq Index /\ 0 \notin Index /\ Index \subseteq 0 .. MaxFrame /\ 0 \in 0 .. MaxFrame
  BY Bounds DEF Chain, Index
<1> QED
  BY <1>1, ChainIs, Zenon DEF Ends

(* An end that is not the first one has a header and frames before it.     *)
LEMMA EndHas ==
  ASSUME NEW w \in LogType, NEW j \in Ends(w), j # 0
  PROVE  /\ j \in Index /\ j \in 0 .. MaxFrame /\ w.head # NoHead /\ w.frame[j].com
         /\ Chained(w.head.gen, j, w)
         /\ \A i \in 1 .. j : i \in Index /\ w.frame[i] # NoFrame /\ w.frame[i].gen = w.head.gen
<1>1. j \in Index /\ Chained(w.head.gen, j, w) /\ w.frame[j].com
  BY EndsIs
<1>2. j > 0 /\ j \in 0 .. MaxFrame /\ \A i \in 1 .. j : i \in Index
  BY <1>1, Bounds DEF Index
<1> QED
  BY <1>1, <1>2 DEF Chained

(* The last end is what recovery looks for.                                *)
LEMMA LastEnd ==
  ASSUME NEW w \in LogType
  PROVE  LastCommit(w) \in Ends(w) /\ \A j \in Ends(w) : j <= LastCommit(w)
<1>1. Ends(w) \in SUBSET (0 .. MaxFrame) /\ Ends(w) # {} /\ MaxFrame \in Nat
  BY EndsIs, Bounds
<1>2. LastCommit(w) = Max(Ends(w))
  BY DEF LastCommit, Ends
<1> QED
  BY <1>1, <1>2, LastOf, Zenon

(* Logs of the same salts with the same frames end at the same places.     *)
LEMMA SamePrefix ==
  ASSUME NEW w \in LogType, NEW v \in LogType, NEW m \in 0 .. MaxFrame,
         v.head # NoHead \/ v.head = w.head, v.head.gen = w.head.gen,
         \A i \in 1 .. m : v.frame[i] = w.frame[i],
         NEW j \in 0 .. m, j \in Ends(w)
  PROVE  j \in Ends(v) /\ \A b : Made(v, b, j) = Made(w, b, j)
<1>1. j \in 0 .. MaxFrame /\ \A i \in 1 .. j : i \in 1 .. m
  BY Bounds
<1>2. \A b : Made(v, b, j) = Made(w, b, j)
  BY <1>1, MadeSame
<1>3. CASE j = 0
  BY <1>2, <1>3, EndsIs
<1>4. CASE j # 0
  <2>1. j \in Index /\ w.head # NoHead /\ w.frame[j].com /\ Chained(w.head.gen, j, w) /\ j \in 1 .. m
    BY <1>4, EndHas, Bounds DEF Index
  <2>2. \A i \in 1 .. j : i = 1 \/ i - 1 \in 1 .. m
    BY <2>1, Bounds
  <2>3. Chained(v.head.gen, j, v)
    BY <1>1, <2>1, <2>2 DEF Chained
  <2> QED
    BY <1>2, <2>1, <2>3, EndsIs
<1> QED
  BY <1>3, <1>4

(* None of the frames is of the salts of the header.                       *)
LEMMA NoEnds ==
  ASSUME NEW w \in LogType,
         w.head = NoHead \/ \A i \in Index : w.frame[i] = NoFrame \/ w.frame[i].gen # w.head.gen
  PROVE  Ends(w) = {0} /\ LastCommit(w) = 0
<1>1. ASSUME NEW j \in Ends(w), j # 0 PROVE FALSE
  <2>1. 1 \in 1 .. j
    BY <1>1, EndHas, Bounds DEF Index
  <2>2. w.head # NoHead /\ 1 \in Index /\ w.frame[1] # NoFrame /\ w.frame[1].gen = w.head.gen
    BY <1>1, <2>1, EndHas
  <2> QED
    BY <2>2
<1>2. Ends(w) = {0}
  BY <1>1, EndsIs
<1> QED
  BY <1>2, LastEnd

(* The checksum of a frame covers all before it: chains that share a       *)
(* transaction share what is before it, if frames are told apart by their  *)
(* transactions.                                                           *)
LEMMA PrefixSame ==
  ASSUME NEW w, NEW v, NEW j \in Index, NEW g,
         Chained(g, j, w), Chained(g, j, v), w.frame[j].tid = v.frame[j].tid,
         \A i \in 1 .. j : w.frame[i].gen = v.frame[i].gen /\ w.frame[i].tid = v.frame[i].tid
                             => w.frame[i] = v.frame[i]
  PROVE  \A i \in 1 .. j : w.frame[i] = v.frame[i]
<1> DEFINE D == {i \in 1 .. j : w.frame[i] # v.frame[i]}
<1>0. j \in Nat /\ j >= 1
  BY Bounds DEF Index
<1>1. ASSUME D # {} PROVE FALSE
  <2>1. PICK m \in D : \A x \in D : x <= m
    <3>1. D \in SUBSET (0 .. j)
      OBVIOUS
    <3> HIDE DEF D
    <3> QED
      BY <1>0, <1>1, <3>1, LastOf, Zenon
  <2>2. m \in 1 .. j /\ w.frame[m] # v.frame[m]
    OBVIOUS
  <2>3. w.frame[m].gen = g /\ v.frame[m].gen = g
    BY <2>2 DEF Chained
  <2>4. m # j
    BY <2>2, <2>3
  <2>5. m + 1 \in 1 .. j /\ m + 1 # 1 /\ (m + 1) - 1 = m
    BY <1>0, <2>2, <2>4
  <2>6. m + 1 \notin D
    BY <1>0, <2>1, <2>2
  <2>7. w.frame[m + 1] = v.frame[m + 1]
    BY <2>5, <2>6
  <2>8. w.frame[m + 1].prev = w.frame[m].tid /\ v.frame[m + 1].prev = v.frame[m].tid
    BY <2>5 DEF Chained
  <2> QED
    BY <2>2, <2>3, <2>7, <2>8
<1> QED
  BY <1>1

-----------------------------------------------------------------------------
(* The types of what the disk may have.                                    *)
LEMMA LeftTypes ==
  ASSUME Inv
  PROVE  /\ Again \in HeadType /\ headOld \subseteq HeadType /\ wal.head \in HeadType
         /\ Heads \subseteq HeadType
         /\ \A i \in Index : Versions(i) \subseteq Frame \cup {NoFrame}
<1>1. shm \in ShmType /\ FileTypes
  BY DEF Inv, Types
<1>2. shm.h0.gen \in Salt \cup {0}
  BY <1>1, ShmTypes
<1>3. Again \in HeadType
  BY <1>2 DEF Again, HeadType
<1>4. headOld \subseteq HeadType /\ wal.head \in HeadType
  BY <1>1 DEF FileTypes, LogType
<1>5. \A i \in Index : walOld[i] \subseteq Frame \cup {NoFrame} /\ wal.frame[i] \in Frame \cup {NoFrame}
  BY <1>1 DEF FileTypes, LogType
<1>6. \A i \in Index : Versions(i) \subseteq Frame \cup {NoFrame}
  BY <1>5 DEF Versions
<1> QED
  BY <1>3, <1>4, <1>6 DEF Heads

(* The logs that may be left.                                              *)
LEMMA LeftIs ==
  ASSUME Inv
  PROVE  \A w : w \in Left <=> /\ w \in LogType /\ w.head \in Heads
                               /\ \A i \in Index : w.frame[i] \in Versions(i)
<1> DEFINE V == UNION {Versions(i) : i \in Index}
<1>1. Heads \subseteq HeadType /\ \A i \in Index : Versions(i) \subseteq Frame \cup {NoFrame}
  BY LeftTypes
<1>2. V \subseteq Frame \cup {NoFrame} /\ \A i \in Index : Versions(i) \subseteq V
  BY <1>1
<1>3. Left = {w \in [head : Heads, frame : [Index -> V]] : \A i \in Index : w.frame[i] \in Versions(i)}
  BY DEF Left
<1> HIDE DEF V
<1>4. ASSUME NEW w \in Left
      PROVE  w \in LogType /\ w.head \in Heads /\ \A i \in Index : w.frame[i] \in Versions(i)
  <2>1. w \in [head : Heads, frame : [Index -> V]] /\ \A i \in Index : w.frame[i] \in Versions(i)
    BY <1>3
  <2>2. w \in [head : HeadType, frame : [Index -> Frame \cup {NoFrame}]] /\ w.head \in Heads
    BY <1>1, <1>2, <2>1
  <2> QED
    BY <2>1, <2>2 DEF LogType
<1>5. ASSUME NEW w \in LogType, w.head \in Heads, \A i \in Index : w.frame[i] \in Versions(i)
      PROVE  w \in Left
  <2>1. w.frame \in [Index -> V]
    BY <1>2, <1>5 DEF LogType
  <2>2. w \in [head : Heads, frame : [Index -> V]]
    BY <1>5, <2>1 DEF LogType
  <2> QED
    BY <1>3, <1>5, <2>2
<1> QED
  BY <1>4, <1>5

(* The same after a step.                                                  *)
LEMMA LeftThen ==
  ASSUME Inv'
  PROVE  \A w \in Left' : /\ w \in LogType /\ w.head \in Heads'
                          /\ \A i \in Index : w.frame[i] \in Versions(i)'
<1> DEFINE V == UNION {Versions(i)' : i \in Index}
<1>1. shm' \in ShmType /\ FileTypes'
  BY DEF Inv, Types
<1>2. shm'.h0.gen \in Salt \cup {0}
  BY <1>1, ShmTypes
<1>3. Again' \in HeadType
  BY <1>2 DEF Again, HeadType
<1>4. headOld' \subseteq HeadType /\ wal'.head \in HeadType
  BY <1>1 DEF FileTypes, LogType
<1>5. Heads' \subseteq HeadType
  BY <1>3, <1>4 DEF Heads
<1>6. \A i \in Index : walOld'[i] \subseteq Frame \cup {NoFrame} /\ wal'.frame[i] \in Frame \cup {NoFrame}
  BY <1>1 DEF FileTypes, LogType
<1>7. \A i \in Index : Versions(i)' \subseteq Frame \cup {NoFrame}
  BY <1>6 DEF Versions
<1>8. V \subseteq Frame \cup {NoFrame}
  BY <1>7
<1>9. Left' = {w \in [head : Heads', frame : [Index -> V]] : \A i \in Index : w.frame[i] \in Versions(i)'}
  BY DEF Left
<1> HIDE DEF V
<1>10. ASSUME NEW w \in Left'
       PROVE  w \in LogType /\ w.head \in Heads' /\ \A i \in Index : w.frame[i] \in Versions(i)'
  <2>1. w \in [head : Heads', frame : [Index -> V]] /\ \A i \in Index : w.frame[i] \in Versions(i)'
    BY <1>9
  <2>2. w \in [head : HeadType, frame : [Index -> Frame \cup {NoFrame}]] /\ w.head \in Heads'
    BY <1>5, <1>8, <2>1
  <2> QED
    BY <2>1, <2>2 DEF LogType
<1> QED
  BY <1>10

(* The log with another header.                                            *)
LEMMA WithIs ==
  ASSUME Inv, NEW h \in HeadType
  PROVE  With(h) \in LogType /\ With(h).head = h /\ With(h).frame = wal.frame
<1>1. wal \in LogType
  BY DEF Inv, Types, FileTypes
<1> QED
  BY <1>1 DEF With, LogType

(* The log is one that may be left; so is the one with the next header.    *)
LEMMA LeftNow ==
  ASSUME Inv
  PROVE  wal \in Left /\ (Empty => With(Again) \in Left)
<1>1. wal \in LogType /\ Again \in HeadType
  BY LeftTypes DEF Inv, Types, FileTypes
<1>2. wal.head \in Heads /\ \A i \in Index : wal.frame[i] \in Versions(i)
  BY DEF Heads, Versions
<1>3. With(Again) \in LogType /\ With(Again).head = Again /\ With(Again).frame = wal.frame
  BY <1>1, WithIs
<1>4. Empty => Again \in Heads
  BY DEF Heads
<1> QED
  BY <1>1, <1>2, <1>3, <1>4, LeftIs

(* The end of the log that the wal-index knows makes the committed image.  *)
LEMMA IndexEnd ==
  ASSUME Inv, Alive, shm.h0.init
  PROVE  /\ shm.h0.mx \in Ends(wal) /\ Made(wal, db, shm.h0.mx) = committed
         /\ shm.h0.mx > 0 => wal.head # NoHead /\ wal.head.gen = shm.h0.gen
         /\ shm.h0.mx \in 0 .. MaxFrame
<1>1. IndexOK(shm, wal, db, committed) /\ shm \in ShmType /\ wal \in LogType
  BY DEF Inv, ShmOK, Types, FileTypes
<1>2. shm.h0.mx \in 0 .. MaxFrame
  BY <1>1, ShmTypes
<1>3. HdrOf(shm.h0, shm, wal) /\ committed = Overlay(shm.h0.mx, shm, wal, db)
  BY <1>1 DEF IndexOK
<1>4. Made(wal, db, shm.h0.mx) = committed
  BY <1>2, <1>3, MadeOverlay DEF HdrOf
<1>5. shm.h0.mx > 0 => wal.head # NoHead /\ wal.head.gen = shm.h0.gen
  BY <1>3 DEF HdrOf, Chained
<1>6. shm.h0.mx > 0 => shm.h0.mx \in Index /\ Chained(wal.head.gen, shm.h0.mx, wal) /\ wal.frame[shm.h0.mx].com
  BY <1>2, <1>3, <1>5, Bounds DEF HdrOf, Index
<1>7. shm.h0.mx \in Ends(wal)
  <2>1. shm.h0.mx = 0 \/ shm.h0.mx > 0
    BY <1>2, Bounds
  <2> QED
    BY <1>1, <1>6, <2>1, EndsIs
<1> QED
  BY <1>2, <1>4, <1>5, <1>7

(* Without frames in the wal-index it is in the file.                      *)
LEMMA FileCommitted ==
  ASSUME Inv, Alive, shm.h0.init, shm.h0.mx = 0 \/ shm.backfill >= shm.h0.mx
  PROVE  db = committed
<1>1. IndexOK(shm, wal, db, committed) /\ shm \in ShmType /\ db \in Image
  BY DEF Inv, ShmOK, Types, FileTypes
<1>2. shm.backfill >= shm.h0.mx
  BY <1>1, ShmTypes, Bounds
<1> QED
  BY <1>1, <1>2, OverlayCopied

(* What recovery makes of a log that may be left is not lost.              *)
LEMMA LastSurvives ==
  ASSUME Inv, NEW n \in 0 .. MaxFrame, Survives(n), NEW w \in Left
  PROVE  Made(w, db, LastCommit(w)) \in Outcomes
<1>1. w \in LogType
  BY LeftIs
<1>2. LastCommit(w) \in Ends(w) /\ \A j \in Ends(w) : j <= LastCommit(w)
  BY <1>1, LastEnd
<1>3. LastCommit(w) \in Nat /\ n \in Nat
  BY <1>1, <1>2, EndsIs, Bounds
<1>4. LastCommit(w) >= n \/ n \notin Ends(w)
  BY <1>2, <1>3
<1> QED
  BY <1>2, <1>4 DEF Survives

(* Frames behind the last commit: only the last of them may end a          *)
(* transaction.                                                            *)
LEMMA TailEnds ==
  ASSUME Inv, Alive, shm.h0.init, TailOK,
         NEW j \in Ends(With(Again)), j > shm.h0.mx
  PROVE  j = LastCommit(With(Again))
<1> DEFINE w == With(Again)
           L == LastCommit(w)
<1>1. w \in LogType /\ w.head = Again /\ w.frame = wal.frame
  BY LeftTypes, WithIs
<1>2. shm.h0.mx \in Nat
  BY IndexEnd, Bounds
<1>3. L \in Ends(w) /\ j <= L /\ L \in Nat /\ j \in Nat /\ j # 0
  <2>1. L \in Ends(w) /\ \A i \in Ends(w) : i <= L
    BY <1>1, LastEnd
  <2>2. Ends(w) \subseteq 0 .. MaxFrame
    BY <1>1, EndsIs
  <2> HIDE DEF L, w
  <2> QED
    BY <1>2, <2>1, <2>2, Bounds DEF w
<1>4. ASSUME j # L PROVE FALSE
  <2>1. L # 0 /\ j + 1 \in 1 .. L /\ j + 1 > shm.h0.mx + 1 /\ (j + 1) - 1 = j
    <3> HIDE DEF L
    <3> QED
      BY <1>2, <1>3, <1>4
  <2>2. L \in Index /\ Chained(w.head.gen, L, w) /\ L \in 0 .. MaxFrame
    BY <1>1, <1>3, <2>1, EndHas
  <2>3. j + 1 \in Index /\ j + 1 \in 0 .. L
    <3> HIDE DEF L
    <3> QED
      BY <1>3, <2>1, <2>2, Bounds DEF Index
  <2>4. Chained(w.head.gen, j + 1, w)
    BY <2>2, <2>3, ChainedLess
  <2>5. j + 1 \in Chain(w)
    BY <1>1, <2>3, <2>4, ChainIs
  <2>6. ~wal.frame[j].com
    BY <2>1, <2>5 DEF TailOK
  <2>7. w.frame[j].com
    BY <1>1, <1>3, EndHas
  <2> QED
    BY <1>1, <2>6, <2>7
<1> QED
  BY <1>4

-----------------------------------------------------------------------------
(* A step of c that leaves alone what the disk has and what is committed.  *)
Aside(c) ==
  /\ UNCHANGED <<files, committed, doubt>>
  /\ ntxn <= ntxn' /\ shm'.h0 = shm.h0
  /\ \A d \in Conn \ {c} : con'[d] = con[d]

(* While a connection has the database open nobody closes it for good.     *)
LEMMA NobodyCloses ==
  ASSUME Inv, NEW c \in Conn, con[c].at # "closed", NEW d \in Conn \ {c}
  PROVE  con[d].goal # "close"
  BY DEF Inv, PairOK, Apart

(* Frames keep to transactions that have begun.                            *)
LEMMA FramesKept ==
  ASSUME Inv, Inv', FramesOK, ntxn <= ntxn', UNCHANGED files
  PROVE  FramesOK'
<1>1. ntxn \in Nat /\ ntxn' \in Nat
  BY Bounds DEF Inv, Types
<1>2. \A f \in Frame \cup {NoFrame} : FrameFits(f) => FrameFits(f)'
  <2>1. \A f \in Frame : f.tid \in Nat /\ f.prev \in Nat
    BY Bounds DEF Frame
  <2> QED
    BY <1>1, <2>1 DEF FrameFits
<1>3. \A i \in Index : Versions(i) \subseteq Frame \cup {NoFrame} /\ Versions(i)' = Versions(i)
  BY LeftTypes DEF Versions, files
<1>4. \A i \in Index : cutOld.frame[i] \in Frame \cup {NoFrame}
  BY DEF Inv, Types, FileTypes, LogType
<1>5. \A i \in Index : FrameFits(cutOld.frame[i])' /\ \A f \in Versions(i)' : FrameFits(f)'
  <2>1. \A i \in Index : FrameFits(cutOld.frame[i]) /\ \A f \in Versions(i) : FrameFits(f)
    BY DEF FramesOK
  <2>2. \A i \in Index : FrameFits(cutOld.frame[i])'
    BY <1>1, <1>4, <2>1, Bounds DEF FrameFits, files, Frame
  <2> QED
    BY <1>2, <1>3, <2>1, <2>2
<1>6. cutOld' = cutOld /\ headOld' = headOld /\ wal' = wal
  BY DEF files
<1> QED
  BY <1>3, <1>5, <1>6 DEF FramesOK

(* It keeps what is durable if what is said of c holds.                    *)
LEMMA AsideStep ==
  ASSUME Inv, Inv', Durable, NEW c \in Conn, Aside(c),
         con[c].at # "closed" \/ (Alive /\ \A d \in Conn : con[d].goal # "close"),
         con'[c].at # "copy",
         Appends(con[c])' => Appends(con[c]) \/ (shm.h0.init /\ shm.h0.mx > 0),
         WriterFits(con[c])', SaltsKept(con[c])', ClosingOK(con[c])', HeadOK'
  PROVE  Durable'
<1>1. /\ db' = db /\ dbOld' = dbOld /\ wal' = wal /\ walOld' = walOld /\ headOld' = headOld
      /\ cutOld' = cutOld /\ committed' = committed /\ doubt' = doubt
      /\ shm'.h0 = shm.h0 /\ ntxn <= ntxn' /\ \A d \in Conn \ {c} : con'[d] = con[d]
  BY DEF Aside, files
<1>2. Alive /\ ntxn \in Nat /\ ntxn' \in Nat
  BY Bounds DEF Alive, Inv, Types
<1>3. Again' = Again /\ (Empty' => Empty) /\ With(Again)' = With(Again)
  BY <1>1, <1>2 DEF Again, Empty, With
<1>4. Heads' \subseteq Heads /\ \A i \in Index : Versions(i)' = Versions(i)
  BY <1>1, <1>3 DEF Heads, Versions
<1>5. Left' \subseteq Left
  BY <1>4, LeftIs, LeftThen
<1>6. Outcomes' = Outcomes
  BY <1>1 DEF Outcomes
<1>7. PICK n \in 0 .. MaxFrame : Floor(n)
  BY DEF Durable
<1>8. Floor(n)'
  <2>1. OnDisk(n)'
    BY <1>1, <1>7 DEF Floor, OnDisk
  <2>2. Survives(n)'
    BY <1>1, <1>5, <1>6, <1>7 DEF Floor, Survives
  <2>3. Covers(n)'
    BY <1>1, <1>7 DEF Floor, Covers, Settled
  <2>4. (n \in Ends(wal) \/ Ends(wal) = {0})'
    BY <1>1, <1>7 DEF Floor
  <2>5. Empty' => n \in Ends(With(Again)') \/ Ends(With(Again)') = {0}
    BY <1>3, <1>7 DEF Floor
  <2>6. shm'.h0.init /\ shm'.h0.mx > 0 => n <= shm'.h0.mx
    BY <1>1, <1>2, <1>7 DEF Floor
  <2>7. ASSUME NEW d \in Conn, Appends(con[d])' PROVE n <= shm'.h0.mx
    <3>1. CASE d = c
      BY <1>1, <1>2, <1>7, <2>7, <3>1 DEF Floor
    <3>2. CASE d # c
      <4>1. Appends(con[d])
        BY <1>1, <2>7, <3>2 DEF Appends
      <4> QED
        BY <1>1, <1>7, <4>1 DEF Floor
    <3> QED
      BY <3>1, <3>2
  <2> QED
    BY <2>1, <2>2, <2>3, <2>4, <2>5, <2>6, <2>7 DEF Floor
<1>9. CutOK'
  BY <1>1, <1>6 DEF Durable, CutOK
<1>10. FramesOK'
  BY <1>1, FramesKept DEF Durable, files
<1>11. TailOK'
  BY <1>1, <1>2, <1>3 DEF Durable, TailOK
<1>12. ASSUME NEW d \in Conn \ {c} PROVE WriterFits(con[d])' /\ SaltsKept(con[d])' /\ ClosingOK(con[d])'
  <2>1. con'[d] = con[d] /\ WriterFits(con[d]) /\ SaltsKept(con[d]) /\ con[d].tid \in Nat
    BY <1>1, Bounds DEF Durable, Inv, Types, State
  <2>2. WriterFits(con[d])'
    <3>1. con'[d].tid <= ntxn'
      BY <1>1, <1>2, <2>1 DEF WriterFits
    <3> QED
      BY <1>1, <1>4, <2>1, <3>1 DEF WriterFits, Reach, Settled, NoneOf
  <2>3. SaltsKept(con[d])'
    BY <1>1, <2>1 DEF SaltsKept
  <2>4. con'[d].goal # "close"
    BY <2>1, NobodyCloses
  <2> QED
    BY <2>2, <2>3, <2>4 DEF ClosingOK
<1> QED
  BY <1>8, <1>9, <1>10, <1>11, <1>12 DEF Durable

(* What the header of the wal-index says is still so.                      *)
LEMMA HeadKept ==
  ASSUME HeadOK, Alive, NEW c \in Conn, con[c].at # "reset2", Aside(c),
         shm'.h1 = shm.h1, shm'.backfill = shm.backfill
  PROVE  HeadOK'
<1>1. wal' = wal /\ dbOld' = dbOld /\ shm'.h0 = shm.h0 /\ \A d \in Conn \ {c} : con'[d] = con[d]
  BY DEF Aside, files
<1>3. (\A d \in Conn : con'[d].at # "reset2") => \A d \in Conn : con[d].at # "reset2"
  BY <1>1
<1>4. Clean' = Clean
  BY <1>1 DEF Clean
<1> QED
  BY <1>1, <1>3, <1>4 DEF HeadOK

(* A step to a place where nothing is written.                             *)
LEMMA PlainStep ==
  ASSUME Inv, Inv', Durable, NEW c \in Conn, Aside(c), con[c].at \notin {"closed", "reset2"}, HeadOK',
         con'[c].at \notin {"write", "hdrsync", "frame", "index", "publish",
                            "copy", "reset2", "recover2"},
         \/ con'[c].tid = 0
         \/ con'[c].tid = con[c].tid /\ con'[c].hdr.mx = con[c].hdr.mx /\ con'[c].log = con[c].log,
         con'[c].nck => con'[c].at # "closed" /\ con[c].nck /\ con[c].at # "recover2",
         ClosingOK(con[c])'
  PROVE  Durable'
<1>1. /\ wal' = wal /\ walOld' = walOld /\ shm'.h0 = shm.h0 /\ ntxn <= ntxn'
      /\ WriterFits(con[c]) /\ SaltsKept(con[c])
  BY DEF Aside, files, Durable
<1>2. ntxn \in Nat /\ ntxn' \in Nat /\ con[c].tid \in Nat
  BY Bounds DEF Inv, Types, State
<1>3. WriterFits(con[c])'
  <2>1. con'[c].tid <= ntxn'
    BY <1>1, <1>2 DEF WriterFits
  <2>2. con'[c].tid # 0 => \A i \in Index : \A f \in Versions(i)' :
          f = NoFrame \/ con'[c].tid \notin {f.tid, f.prev}
          \/ i \in shm'.h0.mx + 1 .. Reach(con[c])'
    <3>1. \A i \in Index : Versions(i)' = Versions(i)
      BY <1>1 DEF Versions
    <3>2. con'[c].tid # 0 => con'[c].tid = con[c].tid /\ Reach(con[c])' = Reach(con[c])
      BY DEF Reach
    <3> QED
      BY <1>1, <3>1, <3>2 DEF WriterFits
  <2> QED
    BY <2>1, <2>2 DEF WriterFits
<1>4. SaltsKept(con[c])'
  BY <1>1 DEF SaltsKept
<1>5. ~Appends(con[c])'
  BY DEF Appends
<1> QED
  BY <1>3, <1>4, <1>5, AsideStep

-----------------------------------------------------------------------------
(* What a connection keeps of its record.                                  *)
LEMMA LoadedForm ==
  ASSUME NEW r \in State
  PROVE  /\ Loaded(r).at = IF r.goal = "read" THEN "choose" ELSE "ckpt"
         /\ Loaded(r).goal = r.goal /\ Loaded(r).nck = r.nck /\ Loaded(r).hdr = shm.h0
         /\ Loaded(r).tid = r.tid
  BY DEF Loaded, State

(* The same when it begins a snapshot, or looks for another.               *)
LEMMA ReadingForm ==
  ASSUME NEW r \in State
  PROVE  /\ Reading(r).at = "read" /\ Reading(r).goal = "none" /\ Reading(r).nck = r.nck
         /\ Reading(r).tid = r.tid
         /\ Retry(r).at = (IF r.goal = "read" THEN "hdr" ELSE "marks")
         /\ Retry(r).goal = r.goal /\ Retry(r).nck = r.nck /\ Retry(r).tid = r.tid
         /\ Retry(r).hdr = r.hdr /\ Retry(r).log = r.log
<1>1. /\ Reading(r).at = "read" /\ Reading(r).goal = "none" /\ Reading(r).nck = r.nck
      /\ Reading(r).tid = r.tid
  BY DEF Reading, State
<1>2. /\ Retry(r).at = (IF r.goal = "read" THEN "hdr" ELSE "marks")
      /\ Retry(r).goal = r.goal /\ Retry(r).nck = r.nck /\ Retry(r).tid = r.tid
      /\ Retry(r).hdr = r.hdr /\ Retry(r).log = r.log
  BY DEF Retry, State
<1> QED
  BY <1>1, <1>2

(* The same when it is through, or fails.                                  *)
LEMMA IdleForm ==
  ASSUME NEW r \in State
  PROVE  /\ Idle(r).nck = r.nck /\ Checkpointed(r).nck = r.nck
         /\ Failed(r).at \in {"closed", "idle"} /\ Failed(r).goal = "none" /\ Failed(r).tid = 0
         /\ Failed(r).nck => Failed(r).at # "closed" /\ r.nck
<1>1. PICK k \in State : k = Closed
  BY ClosedState
<1>2. Idle(r) = [k EXCEPT !.at = "idle", !.hdr = r.hdr, !.nck = r.nck, !.cache = r.cache]
  BY <1>1 DEF Idle
<1>3. Idle(r).nck = r.nck
  BY <1>2 DEF State
<1>4. PICK q \in State : q = Idle(r)
  BY IdleState
<1>5. PICK h : h = IF r.chg THEN NoHdr ELSE q.hdr
  OBVIOUS
<1>6. Checkpointed(r) = [q EXCEPT !.hdr = h]
  BY <1>4, <1>5 DEF Checkpointed
<1>7. Checkpointed(r).nck = q.nck
  BY <1>6 DEF State
<1>8. Failed(r) = Closed \/ Failed(r) = Checkpointed(r)
  BY DEF Failed
<1> QED
  BY <1>3, <1>4, <1>7, <1>8, ClosedState, CheckpointedState

(* A step to such a place that changes a connection, a mark at most.       *)
LEMMA PlainTo ==
  ASSUME Inv, Inv', Durable, NEW c \in Conn, NEW n, con' = [con EXCEPT ![c] = n],
         UNCHANGED <<files, committed, doubt>>, ntxn <= ntxn',
         shm'.h0 = shm.h0, shm'.h1 = shm.h1, shm'.backfill = shm.backfill,
         con[c].at \notin {"closed", "reset2"},
         n.at \notin {"write", "hdrsync", "frame", "index", "publish",
                      "copy", "reset2", "recover2"},
         n.tid = 0 \/ (n.tid = con[c].tid /\ n.hdr.mx = con[c].hdr.mx /\ n.log = con[c].log),
         n.nck => n.at # "closed" /\ con[c].nck /\ con[c].at # "recover2",
         n.goal = "close" => ClosingOK(n)
  PROVE  Durable'
<1>1. con'[c] = n /\ \A d \in Conn \ {c} : con'[d] = con[d]
  BY ConnTypes DEF Inv
<1>2. Aside(c)
  BY <1>1 DEF Aside
<1>3. ClosingOK(con[c])'
  BY <1>1 DEF ClosingOK
<1>4. HeadOK'
  BY <1>2, HeadKept DEF Durable, Alive
<1> QED
  BY <1>1, <1>2, <1>3, <1>4, PlainStep

(* One that changes nothing else.                                          *)
LEMMA PlainMove ==
  ASSUME Inv, Inv', Durable, NEW c \in Conn, NEW n, con' = [con EXCEPT ![c] = n],
         UNCHANGED <<files, shm, history>>,
         con[c].at \notin {"closed", "reset2"},
         n.at \notin {"write", "hdrsync", "frame", "index", "publish",
                      "copy", "reset2", "recover2"},
         n.tid = 0 \/ (n.tid = con[c].tid /\ n.hdr.mx = con[c].hdr.mx /\ n.log = con[c].log),
         n.nck => n.at # "closed" /\ con[c].nck /\ con[c].at # "recover2",
         n.goal = "close" => ClosingOK(n)
  PROVE  Durable'
<1>1. committed' = committed /\ doubt' = doubt /\ ntxn' = ntxn /\ shm' = shm /\ UNCHANGED files
  BY DEF history
<1>2. ntxn <= ntxn'
  <2>1. ntxn \in Nat
    BY Bounds DEF Inv, Types
  <2> QED
    BY <1>1, <2>1
<1> QED
  BY <1>1, <1>2, PlainTo, Zenon

(* The header of the wal-index is read.                                    *)
LEMMA TryHdrKeeps ==
  ASSUME Inv, Inv', Durable, NEW c \in Conn, NEW r \in State, TryHdr(c, r),
         con[c].at \in {"idle", "hdr"}, r.nck = con[c].nck, r.tid = 0
  PROVE  Durable'
<1>1. PICK n : n = IF Readable THEN Loaded(r) ELSE IF r.wl THEN Failed(r)
                   ELSE [r EXCEPT !.at = "badhdr"]
  BY Zenon
<1>2. con' = [con EXCEPT ![c] = n] /\ UNCHANGED <<files, shm, history>>
  BY <1>1 DEF TryHdr
<1>3. CASE n = Loaded(r)
  <2>1. /\ n.at \in {"choose", "ckpt"} /\ n.tid = 0 /\ n.nck = con[c].nck /\ n.hdr = shm.h0
    BY <1>3, LoadedForm
  <2>2. ClosingOK(n)
    BY <2>1 DEF ClosingOK, AtCkpt
  <2> QED
    BY <1>2, <2>1, <2>2, PlainMove, Zenon
<1>4. CASE n = Failed(r)
  <2>1. n.at \in {"closed", "idle"} /\ n.goal = "none" /\ n.tid = 0
        /\ (n.nck => n.at # "closed" /\ con[c].nck)
    BY <1>4, IdleForm
  <2> QED
    BY <1>2, <2>1, PlainMove, Zenon
<1>5. CASE n = [r EXCEPT !.at = "badhdr"]
  <2>1. n.at = "badhdr" /\ n.tid = 0 /\ n.nck = con[c].nck
    BY <1>5 DEF State
  <2>2. ClosingOK(n)
    BY <2>1 DEF ClosingOK, AtCkpt
  <2> QED
    BY <1>2, <2>1, <2>2, PlainMove, Zenon
<1> QED
  BY <1>1, <1>3, <1>4, <1>5

(* The steps of a connection that waits for its header, with no recovery.  *)
LEMMA HdrKeeps ==
  ASSUME Inv, Inv', Durable, NEW c \in Conn,
         \/ BeginRead(c) \/ RetryHdr(c) \/ LockHdr(c) \/ CannotLockHdr(c)
         \/ ReadLocked(c) \/ CannotRecover(c) \/ EndRead(c)
  PROVE  Durable'
<1>0. PICK r \in State : r = con[c]
  BY DEF Inv, Types
<1>1. CASE BeginRead(c)
  <2>1. PICK q : q = [r EXCEPT !.goal = "read"]
    BY Zenon
  <2>2. q \in State /\ q.nck = r.nck /\ q.tid = r.tid
    BY <2>1, Zenon DEF State
  <2>3. TryHdr(c, q) /\ con[c].at = "idle"
    BY <1>0, <1>1, <2>1 DEF BeginRead
  <2>4. con[c].tid = 0
    BY <2>3, WaitingNow
  <2> QED
    BY <1>0, <2>2, <2>3, <2>4, TryHdrKeeps
<1>2. CASE RetryHdr(c)
  <2>1. TryHdr(c, r) /\ con[c].at = "hdr"
    BY <1>0, <1>2 DEF RetryHdr
  <2>2. con[c].tid = 0
    BY <2>1, WaitingNow
  <2> QED
    BY <1>0, <2>1, <2>2, TryHdrKeeps
<1>3. CASE LockHdr(c)
  <2>1. PICK n : n = [r EXCEPT !.wl = TRUE, !.at = "locked"]
    OBVIOUS
  <2>2. n.at = "locked" /\ n.tid = r.tid /\ n.nck = r.nck
    BY <2>1 DEF State
  <2>3. con' = [con EXCEPT ![c] = n] /\ UNCHANGED <<files, shm, history>> /\ con[c].at = "badhdr"
    BY <1>0, <1>3, <2>1 DEF LockHdr
  <2>4. con[c].tid = 0
    BY <2>3, WaitingNow
  <2>5. ClosingOK(n)
    BY <2>2 DEF ClosingOK, AtCkpt
  <2> QED
    BY <1>0, <2>2, <2>3, <2>4, <2>5, PlainMove, Zenon
<1>4. CASE CannotLockHdr(c)
  <2>0. con[c].at = "badhdr" /\ UNCHANGED <<files, shm, history>>
    BY <1>4 DEF CannotLockHdr
  <2>1. con[c].tid = 0
    BY <2>0, WaitingNow
  <2>2. PICK a, b, f : /\ a = [r EXCEPT !.at = "hdr"] /\ b = [Idle(r) EXCEPT !.cache = NoImage]
                       /\ f = Failed(r)
    BY Zenon
  <2>3. PICK n \in {a, b, f} : con' = [con EXCEPT ![c] = n]
    BY <1>0, <1>4, <2>2, Zenon DEF CannotLockHdr
  <2>4. CASE n = a
    <3>1. n.at = "hdr" /\ n.tid = r.tid /\ n.nck = r.nck
      BY <2>2, <2>4 DEF State
    <3>2. ClosingOK(n)
      BY <3>1 DEF ClosingOK, AtCkpt
    <3> QED
      BY <1>0, <2>0, <2>1, <2>3, <3>1, <3>2, PlainMove, Zenon
  <2>5. CASE n = b
    <3>1. PICK q \in State : q = Idle(r) /\ q.at = "idle" /\ q.goal = "none" /\ q.tid = 0 /\ q.nck = r.nck
      BY IdleState, IdleForm
    <3>2. n = [q EXCEPT !.cache = NoImage]
      BY <2>2, <2>5, <3>1
    <3>3. n.at = "idle" /\ n.goal = "none" /\ n.tid = 0 /\ n.nck = r.nck
      BY <3>1, <3>2 DEF State
    <3> QED
      BY <1>0, <2>0, <2>1, <2>3, <3>3, PlainMove, Zenon
  <2>6. CASE n = f
    <3>1. n.at \in {"closed", "idle"} /\ n.goal = "none" /\ n.tid = 0
          /\ (n.nck => n.at # "closed" /\ r.nck)
      BY <2>2, <2>6, IdleForm
    <3> QED
      BY <1>0, <2>0, <2>3, <3>1, PlainMove, Zenon
  <2> QED
    BY <2>3, <2>4, <2>5, <2>6
<1>5. CASE ReadLocked(c)
  <2>1. PICK q : q = Loaded(r)
    OBVIOUS
  <2>2. PICK n : n = [q EXCEPT !.wl = FALSE]
    BY Zenon
  <2>3. /\ n.at = IF r.goal = "read" THEN "choose" ELSE "ckpt"
        /\ n.tid = r.tid /\ n.nck = r.nck /\ n.hdr = shm.h0 /\ n.goal = r.goal
    BY <2>1, <2>2 DEF Loaded, State
  <2>4. con' = [con EXCEPT ![c] = n] /\ UNCHANGED <<files, shm, history>> /\ con[c].at = "locked"
    BY <1>0, <1>5, <2>1, <2>2 DEF ReadLocked
  <2>5. con[c].tid = 0
    BY <2>4, WaitingNow
  <2>6. ClosingOK(n)
    BY <2>3 DEF ClosingOK
  <2> QED
    BY <1>0, <2>3, <2>4, <2>5, <2>6, PlainMove, Zenon
<1>6. CASE CannotRecover(c)
  <2>0. con[c].at = "locked" /\ UNCHANGED <<files, shm, history>>
    BY <1>6 DEF CannotRecover
  <2>1. con[c].tid = 0
    BY <2>0, WaitingNow
  <2>2. PICK a, q : a = [r EXCEPT !.at = "hdr", !.wl = FALSE, !.chg = TRUE] /\ q = [r EXCEPT !.chg = TRUE]
    BY Zenon
  <2>3. q \in State /\ q.nck = r.nck
    BY <2>2, Zenon DEF State
  <2>4. PICK n \in {a, Failed(q)} : con' = [con EXCEPT ![c] = n]
    BY <1>0, <1>6, <2>2, Zenon DEF CannotRecover
  <2>5. CASE n = a
    <3>1. n.at = "hdr" /\ n.tid = r.tid /\ n.nck = r.nck
      BY <2>2, <2>5 DEF State
    <3>2. ClosingOK(n)
      BY <3>1 DEF ClosingOK, AtCkpt
    <3> QED
      BY <1>0, <2>0, <2>1, <2>4, <3>1, <3>2, PlainMove, Zenon
  <2>6. CASE n = Failed(q)
    <3>1. n.at \in {"closed", "idle"} /\ n.goal = "none" /\ n.tid = 0
          /\ (n.nck => n.at # "closed" /\ r.nck)
      BY <2>3, <2>6, IdleForm
    <3> QED
      BY <1>0, <2>0, <2>4, <3>1, PlainMove, Zenon
  <2> QED
    BY <2>4, <2>5, <2>6
<1>7. CASE EndRead(c)
  <2>1. con' = [con EXCEPT ![c] = Idle(r)] /\ UNCHANGED <<files, shm, history>> /\ con[c].at = "read"
    BY <1>0, <1>7 DEF EndRead
  <2>2. Idle(r).at = "idle" /\ Idle(r).goal = "none" /\ Idle(r).tid = 0 /\ Idle(r).nck = r.nck
    BY IdleState, IdleForm
  <2> QED
    BY <1>0, <2>1, <2>2, PlainMove, Zenon
<1> QED
  BY <1>1, <1>2, <1>3, <1>4, <1>5, <1>6, <1>7

(* The history stays.                                                      *)
LEMMA HistorySame ==
  ASSUME Inv, UNCHANGED history
  PROVE  committed' = committed /\ doubt' = doubt /\ ntxn' = ntxn /\ ntxn <= ntxn'
<1>1. ntxn \in Nat
  BY Bounds DEF Inv, Types
<1> QED
  BY <1>1 DEF history

(* A snapshot is chosen and its mark looked for.                           *)
LEMMA MarksKeep ==
  ASSUME Inv, Inv', Durable, NEW c \in Conn, Choose(c) \/ Marks(c)
  PROVE  Durable'
<1>0. PICK r \in State : r = con[c]
  BY DEF Inv, Types
<1>1. CASE Choose(c)
  <2>1. con[c].at = "choose" /\ UNCHANGED <<files, shm, history>>
    BY <1>1 DEF Choose
  <2>2. PICK a, q : a = [r EXCEPT !.at = "marks"] /\ q = [r EXCEPT !.rl = 0]
    BY Zenon
  <2>3. PICK n \in {a, Reading(q), Retry(r)} : con' = [con EXCEPT ![c] = n]
    BY <1>0, <1>1, <2>2, Zenon DEF Choose
  <2>4. con[c].tid = 0 /\ con[c].goal = "read"
    BY <2>1, WaitingNow, ConnNow DEF InPlace
  <2>5. a.at = "marks" /\ a.tid = r.tid /\ a.nck = r.nck /\ a.goal = r.goal
    BY <2>2 DEF State
  <2>6. q \in State /\ q.tid = r.tid /\ q.nck = r.nck
    <3>1. 0 \in -1 .. NReader - 1
      BY Bounds
    <3> QED
      BY <2>2, <3>1, Zenon DEF State
  <2>7. n.at \in {"marks", "read", "hdr"} /\ n.tid = 0 /\ n.nck = r.nck /\ n.goal # "close"
    BY <1>0, <2>3, <2>4, <2>5, <2>6, ReadingForm
  <2> QED
    BY <1>0, <2>1, <2>3, <2>7, PlainMove, Zenon
<1>2. CASE Marks(c)
  <2>1. con[c].at = "marks" /\ UNCHANGED <<files, history>> /\ shm \in ShmType
    BY <1>2, Zenon DEF Marks, Inv, Types
  <2>2. con[c].goal # "close"
    BY <2>1, ConnNow DEF InPlace, AtLock
  <2>3. \E i, y : \/ shm' = shm \/ shm' = [shm EXCEPT !.mark[i] = y]
    BY <1>2, Zenon DEF Marks
  <2>4. shm'.h0 = shm.h0 /\ shm'.h1 = shm.h1 /\ shm'.backfill = shm.backfill
    BY <2>1, <2>3 DEF ShmType
  <2>5. PICK k : con' = [con EXCEPT ![c] =
                  IF k = 0 THEN Retry(con[c])
                  ELSE [con[c] EXCEPT !.at = "lock", !.i = k, !.y = shm'.mark[k]]]
    <3> DEFINE ok == {i \in Slots : shm.mark[i] <= con[c].hdr.mx}
               best == Max({0} \cup {i \in ok : \A j \in ok : shm.mark[j] <= shm.mark[i]})
               free == {i \in Slots : LockFree(c, i)}
               raise == (best = 0 \/ shm.mark[best] < con[c].hdr.mx) /\ free # {}
               slot == IF raise THEN Min(free) ELSE best
    <3>1. con' = [con EXCEPT ![c] =
            IF slot = 0 THEN Retry(con[c])
            ELSE [con[c] EXCEPT !.at = "lock", !.i = slot, !.y = shm'.mark[slot]]]
      BY <1>2, Zenon DEF Marks
    <3> HIDE DEF ok, best, free, raise, slot
    <3> QED
      BY <3>1
  <2>6. PICK n : /\ con' = [con EXCEPT ![c] = n]
                 /\ n = Retry(r) \/ \E i, y : n = [r EXCEPT !.at = "lock", !.i = i, !.y = y]
    BY <1>0, <2>5, Zenon
  <2>7. /\ n.at \in {"hdr", "marks", "lock"} /\ n.tid = r.tid /\ n.nck = r.nck /\ n.goal = r.goal
        /\ n.hdr = r.hdr /\ n.log = r.log
    <3>1. CASE n = Retry(r)
      BY <3>1, ReadingForm
    <3>2. ASSUME NEW i, NEW y, n = [r EXCEPT !.at = "lock", !.i = i, !.y = y]
          PROVE  /\ n.at = "lock" /\ n.tid = r.tid /\ n.nck = r.nck /\ n.goal = r.goal
                 /\ n.hdr = r.hdr /\ n.log = r.log
      BY <3>2 DEF State
    <3> QED
      BY <2>6, <3>1, <3>2, Zenon
  <2>8. ntxn <= ntxn' /\ committed' = committed /\ doubt' = doubt
    BY <2>1, HistorySame
  <2> QED
    BY <1>0, <2>1, <2>2, <2>4, <2>6, <2>7, <2>8, PlainTo
<1> QED
  BY <1>1, <1>2

(* A writer moves on in the log; its frames stay the same.                 *)
LEMMA WriterStays ==
  ASSUME Inv, Inv', Durable, NEW c \in Conn, NEW n, con' = [con EXCEPT ![c] = n],
         UNCHANGED <<files, shm, history>>,
         con[c].at \notin {"closed", "reset2", "recover2"},
         n.at \in {"write", "frame"}, n.tid = con[c].tid, Reach(n) = Reach(con[c]),
         n.nck = con[c].nck, n.goal # "close",
         Appends(n) => Appends(con[c]) \/ (shm.h0.init /\ shm.h0.mx > 0),
         \A i \in shm.h0.mx + 1 .. Reach(n) : ~wal.frame[i].com
  PROVE  Durable'
<1>1. con'[c] = n /\ \A d \in Conn \ {c} : con'[d] = con[d]
  BY ConnTypes DEF Inv
<1>2. /\ wal' = wal /\ walOld' = walOld /\ shm' = shm /\ ntxn' = ntxn
      /\ ntxn <= ntxn' /\ committed' = committed /\ doubt' = doubt
  BY HistorySame DEF files
<1>3. Aside(c)
  BY <1>1, <1>2 DEF Aside
<1>4. WriterFits(con[c]) /\ SaltsKept(con[c]) /\ HeadOK
  BY DEF Durable
<1>5. \A i \in Index : Versions(i)' = Versions(i)
  BY <1>2 DEF Versions
<1>6. WriterFits(n)'
  BY <1>2, <1>4, <1>5 DEF WriterFits, Reach
<1>7. SaltsKept(n)'
  BY <1>2, <1>4 DEF SaltsKept
<1>8. Appends(n)' => Appends(n)
  BY <1>2 DEF Appends
<1>9. HeadOK'
  BY <1>2, <1>3, <1>4, HeadKept DEF Alive
<1> QED
  BY <1>1, <1>3, <1>6, <1>7, <1>8, <1>9, AsideStep DEF ClosingOK, Appends

(* The mark is locked; a writer goes on with the header or a frame.        *)
LEMMA LockMarkKeeps ==
  ASSUME Inv, Inv', Durable, NEW c \in Conn, LockMark(c)
  PROVE  Durable'
<1>0. PICK r \in State : r = con[c]
  BY DEF Inv, Types
<1>1. /\ con[c].at = "lock" /\ UNCHANGED <<files, shm, history>> /\ shm \in ShmType
      /\ InPlace(con[c]) /\ Locked(con[c]) /\ JobOK(con[c]) /\ WriterOK(con[c], shm, committed)
  BY ConnNow DEF LockMark
<1>2. con[c].goal \in {"read", "write"} /\ con[c].log = <<>>
  BY <1>1 DEF InPlace, AtLock, JobOK
<1>3. PICK m : m = [r EXCEPT !.rl = r.i, !.mi = shm.backfill + 1, !.i = 0, !.y = 0]
  OBVIOUS
<1>4. /\ m.at = r.at /\ m.hdr = r.hdr /\ m.log = r.log /\ m.tid = r.tid /\ m.nck = r.nck
      /\ m.goal = r.goal
  BY <1>3 DEF State
<1>5. m \in State
  <2>1. r.i \in Slots
    BY <1>0, <1>1 DEF InPlace
  <2>2. r.i \in -1 .. NReader - 1 /\ shm.backfill + 1 \in 0 .. MaxFrame + 1
    BY <1>1, <2>1, ShmTypes, Bounds DEF Slots
  <2> QED
    BY <1>3, <2>2, Nothing, Zenon DEF State
<1>6. PICK a, b : a = [m EXCEPT !.at = "header"] /\ b = [m EXCEPT !.at = "frame"]
  BY Zenon
<1>7. \/ con' = [con EXCEPT ![c] = Retry(r)]
      \/ con' = [con EXCEPT ![c] = Reading(m)] /\ r.goal = "read"
      \/ con' = [con EXCEPT ![c] = a] /\ r.goal = "write"
      \/ con' = [con EXCEPT ![c] = b] /\ r.goal = "write" /\ shm.h0 = r.hdr /\ r.hdr.mx # 0
  BY <1>0, <1>1, <1>2, <1>3, <1>6, Zenon DEF LockMark
<1>8. CASE con' = [con EXCEPT ![c] = Retry(r)]
  <2>1. /\ Retry(r).at \in {"hdr", "marks"} /\ Retry(r).tid = r.tid /\ Retry(r).nck = r.nck
        /\ Retry(r).goal = r.goal /\ Retry(r).hdr = r.hdr /\ Retry(r).log = r.log
    BY ReadingForm
  <2> QED
    BY <1>0, <1>1, <1>2, <1>8, <2>1, PlainMove, Zenon
<1>9. CASE con' = [con EXCEPT ![c] = Reading(m)] /\ r.goal = "read"
  <2>1. con[c].tid = 0
    BY <1>0, <1>1, <1>9 DEF Locked, AtWrite
  <2>2. Reading(m).at = "read" /\ Reading(m).tid = 0 /\ Reading(m).nck = r.nck /\ Reading(m).goal = "none"
    BY <1>0, <1>4, <1>5, <2>1, ReadingForm
  <2> QED
    BY <1>0, <1>1, <1>9, <2>2, PlainMove, Zenon
<1>10. CASE con' = [con EXCEPT ![c] = a] /\ r.goal = "write"
  <2>1. a.at = "header" /\ a.tid = r.tid /\ a.nck = r.nck /\ a.goal = r.goal
        /\ a.hdr = r.hdr /\ a.log = r.log
    BY <1>4, <1>5, <1>6 DEF State
  <2> QED
    BY <1>0, <1>1, <1>2, <1>10, <2>1, PlainMove, Zenon
<1>11. CASE con' = [con EXCEPT ![c] = b] /\ r.goal = "write" /\ shm.h0 = r.hdr /\ r.hdr.mx # 0
  <2>1. b.at = "frame" /\ b.tid = r.tid /\ b.nck = r.nck /\ b.goal = r.goal
        /\ b.hdr = r.hdr /\ b.log = r.log
    BY <1>4, <1>5, <1>6 DEF State
  <2>2. shm.h0.init
    BY <1>0, <1>1, <1>11 DEF WriterOK, Locked
  <2>3. shm.h0.mx \in Nat /\ shm.h0.mx > 0
    BY <1>1, <1>11, ShmTypes, Bounds
  <2>4. Reach(b) = shm.h0.mx
    <3>1. Len(<<>>) = 0
      OBVIOUS
    <3> QED
      BY <1>0, <1>2, <1>11, <2>1, <2>3, <3>1 DEF Reach
  <2>5. Reach(b) = Reach(con[c])
    BY <1>0, <2>1 DEF Reach
  <2>6. \A i \in shm.h0.mx + 1 .. Reach(b) : ~wal.frame[i].com
    BY <2>3, <2>4
  <2> QED
    BY <1>0, <1>1, <1>11, <2>1, <2>2, <2>3, <2>5, <2>6, WriterStays, Zenon
<1> QED
  BY <1>7, <1>8, <1>9, <1>10, <1>11

(* No frame belongs to a transaction that begins.                          *)
LEMMA BeginWriteKeeps ==
  ASSUME Inv, Inv', Durable, NEW c \in Conn, BeginWrite(c)
  PROVE  Durable'
<1>0. PICK r \in State : r = con[c]
  BY DEF Inv, Types
<1>1. /\ con[c].at = "read" /\ UNCHANGED <<files, shm, committed, doubt>> /\ shm.h0 = con[c].hdr
      /\ ntxn' = ntxn + 1 /\ con' = [con EXCEPT ![c] = [con[c] EXCEPT
               !.at = "write", !.wl = TRUE, !.tid = ntxn + 1]]
  BY DEF BeginWrite
<1>2. JobOK(con[c]) /\ InPlace(con[c]) /\ shm \in ShmType /\ ntxn \in Nat
  BY ConnNow, Bounds
<1>3. con[c].log = <<>> /\ con[c].goal = "none"
  BY <1>1, <1>2 DEF JobOK, InPlace
<1>4. PICK n : n = [r EXCEPT !.at = "write", !.wl = TRUE, !.tid = ntxn + 1]
  OBVIOUS
<1>5. n.at = "write" /\ n.tid = ntxn + 1 /\ n.nck = r.nck /\ n.hdr = r.hdr /\ n.log = r.log
      /\ n.goal = r.goal
  BY <1>4 DEF State
<1>6. con'[c] = n /\ \A d \in Conn \ {c} : con'[d] = con[d]
  BY <1>0, <1>1, <1>4, ConnTypes, Zenon DEF Inv
<1>7. Aside(c)
  BY <1>1, <1>2, <1>6 DEF Aside
<1>8. WriterFits(con[c]) /\ SaltsKept(con[c]) /\ HeadOK /\ FramesOK
  BY DEF Durable
<1>9. shm.h0.mx \in Nat /\ Reach(n) = shm.h0.mx
  <2>1. Len(<<>>) = 0 /\ shm.h0.mx \in Nat
    BY <1>2, ShmTypes, Bounds
  <2> QED
    BY <1>0, <1>1, <1>3, <1>5, <2>1 DEF Reach
<1>10. wal' = wal /\ walOld' = walOld /\ shm' = shm
  BY <1>1 DEF files
<1>11. ASSUME NEW i \in Index, NEW f \in Versions(i), f # NoFrame
       PROVE  n.tid \notin {f.tid, f.prev}
  <2>1. FrameFits(f) /\ f \in Frame
    BY <1>8, <1>11, LeftTypes DEF FramesOK
  <2>2. f.tid <= ntxn /\ f.prev <= ntxn /\ f.tid \in Nat /\ f.prev \in Nat
    BY <1>11, <2>1, Bounds DEF FrameFits, Frame
  <2> QED
    BY <1>2, <1>5, <2>2
<1>12. WriterFits(n)'
  <2>1. \A i \in Index : Versions(i)' = Versions(i)
    BY <1>10 DEF Versions
  <2>2. n.tid <= ntxn'
    BY <1>1, <1>2, <1>5
  <2>3. shm'.h0.mx + 1 .. Reach(n) = {}
    BY <1>9, <1>10
  <2>4. Reach(n)' = Reach(n)
    BY DEF Reach
  <2> QED
    BY <1>5, <1>11, <2>1, <2>2, <2>3, <2>4 DEF WriterFits
<1>13. SaltsKept(n)'
  BY <1>0, <1>1, <1>5, <1>8, <1>10 DEF SaltsKept
<1>14. ~Appends(n)'
  BY <1>0, <1>1, <1>5, <1>9, <1>10 DEF Appends
<1>15. HeadOK'
  BY <1>1, <1>7, <1>8, HeadKept DEF Alive
<1>16. ClosingOK(n)'
  BY <1>0, <1>3, <1>5 DEF ClosingOK
<1> QED
  BY <1>1, <1>5, <1>6, <1>7, <1>12, <1>13, <1>14, <1>15, <1>16, AsideStep, Zenon

(* Pages are changed to be written.                                        *)
LEMMA LogKeeps ==
  ASSUME Inv, Inv', Durable, NEW c \in Conn, NEW P, NEW commit, Log(c, P, commit)
  PROVE  Durable'
<1>0. PICK r \in State : r = con[c]
  BY DEF Inv, Types
<1>1. /\ con[c].at = "write" /\ UNCHANGED <<files, shm, history>>
      /\ JobOK(con[c]) /\ Locked(con[c]) /\ shm \in ShmType
      /\ WriterOK(con[c], shm, committed) /\ WriterFits(con[c])
  BY ConnNow DEF Log, Durable
<1>2. con[c].log = <<>> /\ con[c].tid # 0
  BY <1>1 DEF JobOK, Locked, AtWrite
<1>3. PICK at, x : /\ at = (IF r.rl = 0 THEN "restart" ELSE IF r.hdr.mx = 0 THEN "header" ELSE "frame")
                   /\ x = [p \in Page |-> IF p \in P THEN r.tid ELSE r.cache[p]]
  BY Zenon
<1>4. PICK n : n = [r EXCEPT !.at = at, !.goal = "write", !.com = commit, !.job = P, !.log = <<>>,
                             !.cache = x]
  OBVIOUS
<1>5. n.at = at /\ n.goal = "write" /\ n.log = <<>> /\ n.tid = r.tid /\ n.nck = r.nck /\ n.hdr = r.hdr
  BY <1>4 DEF State
<1>6. con' = [con EXCEPT ![c] = n]
  BY <1>0, <1>3, <1>4 DEF Log
<1>7. CASE at \in {"restart", "header"}
  BY <1>0, <1>1, <1>2, <1>5, <1>6, <1>7, PlainMove, Zenon
<1>8. CASE at = "frame"
  <2>1. r.hdr.mx # 0 /\ shm.h0.init /\ shm.h0.mx <= r.hdr.mx
    BY <1>0, <1>1, <1>2, <1>3, <1>8 DEF WriterOK
  <2>2. r.hdr.mx \in Nat /\ shm.h0.mx \in Nat
    BY <1>1, StateTypes, ShmTypes, Bounds
  <2>3. Appends(con[c]) \/ (shm.h0.init /\ shm.h0.mx > 0)
    BY <1>0, <1>1, <2>1, <2>2 DEF Appends
  <2>4. Reach(n) = Reach(con[c])
    BY <1>0, <1>2, <1>5 DEF Reach
  <2>5. \A i \in shm.h0.mx + 1 .. Reach(n) : ~wal.frame[i].com
    BY <1>0, <1>1, <2>4 DEF WriterFits
  <2> QED
    BY <1>0, <1>1, <1>5, <1>6, <1>8, <2>3, <2>4, <2>5, WriterStays, Zenon
<1> QED
  BY <1>3, <1>7, <1>8

(* Nothing of a transaction that is rolled back remains with its writer.   *)
LEMMA RollbackKeeps ==
  ASSUME Inv, Inv', Durable, NEW c \in Conn, Rollback(c)
  PROVE  Durable'
<1>0. PICK r \in State : r = con[c]
  BY DEF Inv, Types
<1>1. con[c].at \in {"write", "failed"} /\ UNCHANGED <<files, history>> /\ shm \in ShmType
  BY Zenon DEF Rollback, Inv, Types
<1>2. \E P : shm' = shm \/ shm' = [shm EXCEPT !.pg = P]
  BY Zenon DEF Rollback
<1>3. shm'.h0 = shm.h0 /\ shm'.h1 = shm.h1 /\ shm'.backfill = shm.backfill
  BY <1>1, <1>2 DEF ShmType
<1>4. PICK u : u = [r EXCEPT !.hdr = shm.h0]
  BY Zenon
<1>5. PICK x : x = [p \in Page |-> IF u.cache[p] = r.tid THEN Visible(u)[p] ELSE u.cache[p]]
  BY Zenon
<1>6. PICK n : n = [u EXCEPT !.at = "read", !.goal = "none", !.wl = FALSE, !.tid = 0,
                             !.job = {}, !.log = <<>>, !.com = FALSE, !.cache = x]
  OBVIOUS
<1>7. u.nck = r.nck /\ u \in State
  BY <1>1, <1>4, ShmTypes, Zenon DEF State
<1>8. n.at = "read" /\ n.goal = "none" /\ n.tid = 0 /\ n.nck = r.nck
  BY <1>6, <1>7 DEF State
<1>9. con' = [con EXCEPT ![c] = n]
  BY <1>0, <1>4, <1>5, <1>6 DEF Rollback
<1>10. ntxn <= ntxn' /\ committed' = committed /\ doubt' = doubt
  BY <1>1, HistorySame
<1> QED
  BY <1>0, <1>1, <1>3, <1>8, <1>9, <1>10, PlainTo, Zenon

-----------------------------------------------------------------------------
(* A page is spilled, or a commit begins.                                  *)
LEMMA LogsKeep ==
  ASSUME Inv, Inv', Durable, NEW c \in Conn, Spill(c) \/ Commit(c)
  PROVE  Durable'
<1>1. CASE Spill(c)
  <2>1. PICK p \in Page \ {1} : Log(c, {p}, FALSE)
    BY <1>1, Zenon DEF Spill
  <2> QED
    BY <2>1, LogKeeps, Zenon
<1>2. CASE Commit(c)
  <2>1. PICK P \in Batches : Log(c, P, TRUE)
    BY <1>2, Zenon DEF Commit
  <2> QED
    BY <2>1, LogKeeps, Zenon
<1> QED
  BY <1>1, <1>2

(* A checkpoint begins.                                                    *)
LEMMA CkptBeginKeeps ==
  ASSUME Inv, Inv', Durable, NEW c \in Conn, CkptStart(c) \/ Close(c)
  PROVE  Durable'
<1>0. PICK r \in State : r = con[c]
  BY DEF Inv, Types
<1>1. con[c].at = "idle" /\ UNCHANGED <<files, shm, history>>
  BY Zenon DEF CkptStart, Close
<1>2. con[c].tid = 0
  BY <1>1, WaitingNow
<1>3. \/ con' = [con EXCEPT ![c] = Closed]
      \/ \E g, w, m : con' = [con EXCEPT ![c] = [con[c] EXCEPT
                                !.at = "hdr", !.goal = g, !.cl = TRUE, !.wl = w, !.mode = m]]
  <2>1. CASE CkptStart(c)
    <3>1. PICK m \in Modes : con' = [con EXCEPT ![c] = [con[c] EXCEPT
             !.at = "hdr", !.goal = "ckpt", !.cl = TRUE, !.wl = (m # "passive" /\ WriteFree(c)),
             !.mode = IF m # "passive" /\ WriteFree(c) THEN m ELSE "passive"]]
      BY <2>1, Zenon DEF CkptStart
    <3>2. PICK w, x : /\ w = (m # "passive" /\ WriteFree(c))
                      /\ x = IF m # "passive" /\ WriteFree(c) THEN m ELSE "passive"
      OBVIOUS
    <3>3. con' = [con EXCEPT ![c] = [con[c] EXCEPT
             !.at = "hdr", !.goal = "ckpt", !.cl = TRUE, !.wl = w, !.mode = x]]
      BY <3>1, <3>2
    <3> QED
      BY <3>3, Zenon
  <2>2. CASE Close(c)
    <3>1. [con[c] EXCEPT !.at = "hdr", !.goal = "close", !.mode = "passive", !.cl = TRUE]
          = [con[c] EXCEPT !.at = "hdr", !.goal = "close", !.cl = TRUE, !.wl = con[c].wl,
                           !.mode = "passive"]
      BY <1>0, Zenon DEF State
    <3>2. PICK y : y = [con[c] EXCEPT !.at = "hdr", !.goal = "close", !.mode = "passive", !.cl = TRUE]
      OBVIOUS
    <3>3. con' = [con EXCEPT ![c] = y] \/ con' = [con EXCEPT ![c] = Closed]
      BY <2>2, <3>2 DEF Close
    <3>4. PICK w : w = con[c].wl
      OBVIOUS
    <3>5. y = [con[c] EXCEPT !.at = "hdr", !.goal = "close", !.cl = TRUE, !.wl = w, !.mode = "passive"]
      BY <3>1, <3>2, <3>4
    <3>6. PICK g, m : g = "close" /\ m = "passive"
      OBVIOUS
    <3>7. y = [con[c] EXCEPT !.at = "hdr", !.goal = g, !.cl = TRUE, !.wl = w, !.mode = m]
      BY <3>5, <3>6
    <3>8. con' = [con EXCEPT ![c] = [con[c] EXCEPT
                    !.at = "hdr", !.goal = g, !.cl = TRUE, !.wl = w, !.mode = m]]
          \/ con' = [con EXCEPT ![c] = Closed]
      BY <3>3, <3>7
    <3> QED
      BY <3>8, Zenon, Zenon
  <2> QED
    BY <2>1, <2>2, Zenon
<1>4. CASE con' = [con EXCEPT ![c] = Closed]
  BY <1>1, <1>4, ClosedState, PlainMove, Zenon
<1>5. ASSUME NEW g, NEW w, NEW m,
             con' = [con EXCEPT ![c] = [con[c] EXCEPT
                       !.at = "hdr", !.goal = g, !.cl = TRUE, !.wl = w, !.mode = m]]
      PROVE  Durable'
  <2>1. PICK n : n = [r EXCEPT !.at = "hdr", !.goal = g, !.cl = TRUE, !.wl = w, !.mode = m]
    OBVIOUS
  <2>2. n.at = "hdr" /\ n.tid = r.tid /\ n.nck = r.nck
    BY <2>1 DEF State
  <2>3. ClosingOK(n)
    BY <2>2 DEF ClosingOK, AtCkpt
  <2> QED
    BY <1>0, <1>1, <1>2, <1>5, <2>1, <2>2, <2>3, PlainMove, Zenon
<1> QED
  BY <1>3, <1>4, <1>5, Zenon

(* What the connection that closes finds is all its own.                   *)
LEMMA ClosesAlone ==
  ASSUME Inv, NEW c \in Conn, con[c].goal = "close", NEW i \in 0 .. NReader - 1
  PROVE  LockFree(c, i)
<1>1. ASSUME NEW d \in Others(c) PROVE i \notin con[d].ex /\ con[d].rl # i
  <2>1. d \in Conn /\ d # c
    BY DEF Others
  <2>2. con[d].at = "closed"
    BY <2>1 DEF Inv, PairOK, Apart
  <2>3. con[d] \in State /\ ConnOK(con[d], shm, wal, db, committed)
    BY <2>1 DEF Inv, Types
  <2>4. con[d].rl = -1 /\ con[d].ex = {}
    BY <2>2, <2>3, ClosedIs
  <2> QED
    BY <2>4, Bounds
<1> QED
  BY <1>1 DEF LockFree, ShareFree

(* It looks at the marks, finds all of the log safe, and nothing to do if  *)
(* all is copied.                                                          *)
LEMMA CkptMarksKeep ==
  ASSUME Inv, Inv', Durable, NEW c \in Conn,
         Ckpt(c) \/ ReadMark(c) \/ RaiseMark(c) \/ (Backfill(c) /\ con'[c].at # "copy")
  PROVE  Durable'
<1>0. PICK r \in State : r = con[c]
  BY DEF Inv, Types
<1>1. /\ con[c].at \in {"ckpt", "mark", "marklock", "backfill"}
      /\ InPlace(con[c]) /\ Locked(con[c]) /\ ClosingOK(con[c]) /\ shm \in ShmType
  BY ConnNow DEF Ckpt, ReadMark, RaiseMark, Backfill, Durable
<1>2. con[c].tid = 0 /\ (con[c].at \in {"mark", "marklock"} => r.i \in Slots)
  BY <1>0, <1>1 DEF InPlace, Locked, Checkpointing, AtWrite, AtCkpt
<1>3. shm.backfill \in Nat /\ r.hdr.mx \in Nat /\ r.safe \in Nat /\ r.i \in Nat
  BY <1>1, ShmTypes, StateTypes, Bounds
<1>4. CASE Ckpt(c)
  <2>1. \E it : con' = [con EXCEPT ![c] = [con[c] EXCEPT
             !.at = IF shm.backfill < con[c].hdr.mx THEN "mark" ELSE "done",
             !.it = it, !.safe = con[c].hdr.mx, !.i = 1]]
    <3> DEFINE last(p) == Max({0} \cup {i \in 1 .. con[c].hdr.mx : shm.pg[i] = p})
               it == IF shm.backfill < con[c].hdr.mx THEN [p \in Page |-> last(p)] ELSE con[c].it
    <3>1. con' = [con EXCEPT ![c] = [con[c] EXCEPT
             !.at = IF shm.backfill < con[c].hdr.mx THEN "mark" ELSE "done",
             !.it = it, !.safe = con[c].hdr.mx, !.i = 1]]
      BY <1>4 DEF Ckpt
    <3> HIDE DEF it
    <3> QED
      BY <3>1, Zenon
  <2>2. PICK it : con' = [con EXCEPT ![c] = [con[c] EXCEPT
             !.at = IF shm.backfill < con[c].hdr.mx THEN "mark" ELSE "done",
             !.it = it, !.safe = con[c].hdr.mx, !.i = 1]]
    BY <2>1, Zenon
  <2>3. PICK x : x = IF shm.backfill < r.hdr.mx THEN "mark" ELSE "done"
    OBVIOUS
  <2>30. PICK n : n = [r EXCEPT !.at = x, !.it = it, !.safe = r.hdr.mx, !.i = 1]
    OBVIOUS
  <2>31. con' = [con EXCEPT ![c] = n]
    BY <1>0, <2>2, <2>3, <2>30
  <2>4. n.at = x /\ n.tid = r.tid /\ n.nck = r.nck /\ n.goal = r.goal
        /\ n.hdr = r.hdr /\ n.log = r.log /\ n.safe = r.hdr.mx
    BY <2>30 DEF State
  <2>5. con[c].at = "ckpt" /\ UNCHANGED <<files, shm, history>>
    BY <1>4 DEF Ckpt
  <2>6. x \in {"mark", "done"} /\ (x = "done" => shm.backfill >= r.hdr.mx)
    BY <1>3, <2>3
  <2>7. n.goal = "close" => ClosingOK(n)
    BY <1>0, <1>1, <2>4, <2>5, <2>6 DEF ClosingOK, AtCkpt
  <2> QED
    BY <1>0, <1>2, <2>31, <2>4, <2>5, <2>6, <2>7, PlainMove, Zenon
<1>5. CASE ReadMark(c)
  <2>0. PICK y : y = shm.mark[r.i]
    OBVIOUS
  <2>1. PICK a : a = [r EXCEPT !.at = "marklock", !.y = y]
    OBVIOUS
  <2>2. PICK n \in {a, NextMark(r)} : con' = [con EXCEPT ![c] = n]
    BY <1>0, <1>5, <2>0, <2>1, Zenon DEF ReadMark
  <2>3. con[c].at = "mark" /\ UNCHANGED <<files, shm, history>>
    BY <1>5 DEF ReadMark
  <2>4. n.at \in {"mark", "marklock", "backfill"} /\ n.tid = r.tid /\ n.nck = r.nck /\ n.goal = r.goal
        /\ n.hdr = r.hdr /\ n.log = r.log /\ n.safe = r.safe
    <3>1. CASE n = a
      BY <2>1, <3>1 DEF State
    <3>2. CASE n = NextMark(r)
      BY <3>2 DEF NextMark, State
    <3> QED
      BY <2>2, <3>1, <3>2
  <2>5. n.goal = "close" => ClosingOK(n)
    BY <1>0, <1>1, <2>3, <2>4 DEF ClosingOK, AtCkpt
  <2> QED
    BY <1>0, <1>2, <2>2, <2>3, <2>4, <2>5, PlainMove, Zenon
<1>6. CASE RaiseMark(c)
  <2>1. con[c].at = "marklock" /\ UNCHANGED <<files, history>> /\ r.i \in Slots
    BY <1>0, <1>2, <1>6 DEF RaiseMark
  <2>2. PICK q : q = [r EXCEPT !.safe = r.y]
    BY Zenon
  <2>3. \/ LockFree(c, r.i) /\ con' = [con EXCEPT ![c] = NextMark(r)]
           /\ \E y \in 0 .. NotUsed : shm' = Marked(shm, r.i, y)
        \/ ~LockFree(c, r.i) /\ con' = [con EXCEPT ![c] = NextMark(q)] /\ shm' = shm
    <3>1. CASE LockFree(c, r.i)
      <4>1. shm' = [shm EXCEPT !.mark[r.i] = IF r.i = 1 THEN r.safe ELSE NotUsed]
            /\ con' = [con EXCEPT ![c] = NextMark(r)]
        BY <1>0, <1>6, <3>1 DEF RaiseMark
      <4>2. PICK y : y = IF r.i = 1 THEN r.safe ELSE NotUsed
        OBVIOUS
      <4>3. shm' = Marked(shm, r.i, y)
        BY <4>1, <4>2 DEF Marked
      <4>4. y \in 0 .. NotUsed
        BY <4>2, StateTypes, Bounds
      <4> QED
        BY <3>1, <4>1, <4>3, <4>4
    <3>2. CASE ~LockFree(c, r.i)
      BY <1>0, <1>6, <2>2, <3>2 DEF RaiseMark
    <3> QED
      BY <3>1, <3>2
  <2>4. shm'.h0 = shm.h0 /\ shm'.h1 = shm.h1 /\ shm'.backfill = shm.backfill
    BY <1>1, <2>1, <2>3, MarkedShm
  <2>5. PICK n \in {NextMark(r), NextMark(q)} :
          con' = [con EXCEPT ![c] = n] /\ (LockFree(c, r.i) => n = NextMark(r))
    BY <2>3
  <2>6. q \in State /\ q.tid = r.tid /\ q.nck = r.nck /\ q.goal = r.goal /\ q.hdr = r.hdr /\ q.log = r.log
    <3>1. r.y \in 0 .. MaxFrame
      <4>1. CheckpointOK(con[c], shm, wal, db)
        BY ConnNow
      <4>2. r.y < r.safe /\ r.safe \in 0 .. MaxFrame /\ r.y \in 0 .. NotUsed
        BY <1>0, <2>1, <4>1, StateTypes DEF CheckpointOK
      <4> QED
        BY <4>2, Bounds
    <3> QED
      BY <2>2, <3>1, Zenon DEF State
  <2>7. n.at \in {"mark", "backfill"} /\ n.tid = r.tid /\ n.nck = r.nck /\ n.goal = r.goal
        /\ n.hdr = r.hdr /\ n.log = r.log /\ (n = NextMark(r) => n.safe = r.safe)
    <3>1. \A x \in {r, q} : /\ NextMark(x).at \in {"mark", "backfill"} /\ NextMark(x).tid = x.tid
                            /\ NextMark(x).nck = x.nck /\ NextMark(x).goal = x.goal
                            /\ NextMark(x).hdr = x.hdr /\ NextMark(x).log = x.log
                            /\ NextMark(x).safe = x.safe
      BY <2>6 DEF NextMark, State
    <3> QED
      BY <2>5, <2>6, <3>1
  <2>8. n.goal = "close" => ClosingOK(n)
    <3>1. ASSUME n.goal = "close" PROVE n.safe = r.safe
      <4>1. r.i \in 0 .. NReader - 1
        BY <2>1, Bounds DEF Slots
      <4>2. LockFree(c, r.i)
        BY <1>0, <2>7, <3>1, <4>1, ClosesAlone, Zenon
      <4> QED
        BY <2>5, <2>7, <4>2
    <3> QED
      BY <1>0, <1>1, <2>1, <2>7, <3>1 DEF ClosingOK, AtCkpt
  <2>9. ntxn <= ntxn' /\ committed' = committed /\ doubt' = doubt
    BY <2>1, HistorySame
  <2> QED
    BY <1>0, <1>2, <2>1, <2>4, <2>5, <2>7, <2>8, <2>9, PlainTo, Zenon
<1>7. CASE Backfill(c) /\ con'[c].at # "copy"
  <2>1. PICK m, n : m = [r EXCEPT !.at = "copy", !.ex = {0}, !.bf = shm.backfill]
                    /\ n = [r EXCEPT !.at = "done"]
    BY Zenon
  <2>2. n.at = "done" /\ n.tid = r.tid /\ n.nck = r.nck /\ n.goal = r.goal /\ n.hdr = r.hdr
        /\ n.log = r.log /\ n.safe = r.safe
    BY <2>1 DEF State
  <2>3. \/ con' = [con EXCEPT ![c] = m]
        \/ /\ con' = [con EXCEPT ![c] = n] /\ UNCHANGED <<walOld, headOld, cutOld, doubt>>
           /\ ~(shm.backfill < r.safe /\ LockFree(c, 0))
    BY <1>0, <1>7, <2>1 DEF Backfill
  <2>4. m.at = "copy"
    BY <2>1 DEF State
  <2>5. /\ con' = [con EXCEPT ![c] = n] /\ UNCHANGED <<walOld, headOld, cutOld, doubt>>
        /\ ~(shm.backfill < r.safe /\ LockFree(c, 0))
    BY <1>7, <2>3, <2>4, ConnTypes DEF Inv
  <2>6. con[c].at = "backfill" /\ UNCHANGED <<files, shm, history>>
    BY <1>7, <2>5 DEF Backfill, files, history
  <2>7. n.goal = "close" => ClosingOK(n)
    <3>1. ASSUME n.goal = "close" PROVE shm.backfill >= r.hdr.mx
      <4>1. LockFree(c, 0)
        <5>1. 0 \in 0 .. NReader - 1 /\ con[c].goal = "close"
          BY <1>0, <2>2, <3>1, Bounds
        <5> QED
          BY <5>1, ClosesAlone
      <4>2. r.safe = r.hdr.mx
        BY <1>0, <1>1, <2>2, <2>6, <3>1 DEF ClosingOK, AtCkpt
      <4> QED
        BY <1>3, <2>5, <4>1, <4>2
    <3> QED
      BY <1>0, <1>1, <2>2, <2>6, <3>1 DEF ClosingOK, AtCkpt
  <2> QED
    BY <1>0, <1>2, <2>2, <2>5, <2>6, <2>7, PlainMove, Zenon
<1> QED
  BY <1>4, <1>5, <1>6, <1>7

(* A checkpoint ends and the log stays.                                    *)
LEMMA CkptEndKeeps ==
  ASSUME Inv, Inv', Durable, NEW c \in Conn, CkptEnd(c), con[c].goal # "close"
  PROVE  Durable'
<1>0. PICK r \in State : r = con[c]
  BY DEF Inv, Types
<1>1. con' = [con EXCEPT ![c] = Checkpointed(r)] /\ UNCHANGED <<files, shm, history>> /\ con[c].at = "done"
  BY <1>0 DEF CkptEnd, files
<1>2. /\ Checkpointed(r).at = "idle" /\ Checkpointed(r).goal = "none" /\ Checkpointed(r).tid = 0
      /\ Checkpointed(r).nck = r.nck
  BY CheckpointedState, IdleForm
<1> QED
  BY <1>0, <1>1, <1>2, PlainMove, Zenon

(* A process dies.                                                         *)
LEMMA CrashKeeps ==
  ASSUME Inv, Inv', Durable, ~disturbed', NEW c \in Conn, Crash(c)
  PROVE  Durable'
<1>1. /\ con' = [con EXCEPT ![c] = Closed] /\ UNCHANGED <<files, shm, committed, doubt, ntxn>>
      /\ con[c].at \notin {"closed", "reset2"}
  BY DEF Crash
<1>2. ntxn <= ntxn'
  BY <1>1, Bounds DEF Inv, Types
<1> QED
  BY <1>1, <1>2, ClosedState, PlainTo, Zenon

(* A call of the VFS fails that has written nothing.                       *)
LEMMA IoErrorKeeps ==
  ASSUME Inv, Inv', Durable, NEW c \in Conn, IoError(c), UNCHANGED files
  PROVE  Durable'
<1>0. PICK r \in State : r = con[c]
  BY DEF Inv, Types
<1>1. /\ con[c].at \in {"header", "hdrsync", "frame", "copy", "cut", "index"}
      /\ UNCHANGED <<shm, committed, doubt, ntxn>>
  BY DEF IoError
<1>2. PICK f, a, i : /\ f = Failed(r) /\ a = [r EXCEPT !.at = "failed"]
                     /\ i = [Idle(r) EXCEPT !.cache = NoImage]
  BY Zenon
<1>3. PICK n \in {f, a, i} : con' = [con EXCEPT ![c] = n] /\ (n = a => r.goal # "close" \/ a = f)
  <2>1. con' = [con EXCEPT ![c] = IF con[c].goal \in {"ckpt", "close"} THEN Failed(con[c])
                                  ELSE IF con[c].com THEN [con[c] EXCEPT !.at = "failed"]
                                  ELSE [Idle(con[c]) EXCEPT !.cache = NoImage]]
    BY DEF IoError
  <2> QED
    BY <1>0, <1>2, <2>1, Zenon
<1>4. f.at \in {"closed", "idle"} /\ f.goal = "none" /\ f.tid = 0 /\ (f.nck => f.at # "closed" /\ r.nck)
  BY <1>2, IdleForm
<1>5. i.at = "idle" /\ i.goal = "none" /\ i.tid = 0 /\ i.nck = r.nck
  <2>1. PICK q \in State : q = Idle(r) /\ q.at = "idle" /\ q.goal = "none" /\ q.tid = 0 /\ q.nck = r.nck
    BY IdleState, IdleForm
  <2>2. i = [q EXCEPT !.cache = NoImage]
    BY <1>2, <2>1
  <2> QED
    BY <2>1, <2>2 DEF State
<1>6. a.at = "failed" /\ a.tid = r.tid /\ a.nck = r.nck /\ a.hdr = r.hdr /\ a.log = r.log
      /\ a.goal = r.goal
  BY <1>2 DEF State
<1>7. ntxn <= ntxn'
  BY <1>1, Bounds DEF Inv, Types
<1>8. CASE n = f
  BY <1>0, <1>1, <1>3, <1>4, <1>7, <1>8, PlainTo, Zenon
<1>9. CASE n = i
  BY <1>0, <1>1, <1>3, <1>5, <1>7, <1>9, PlainTo, Zenon
<1>10. CASE n = a
  BY <1>0, <1>1, <1>3, <1>4, <1>6, <1>7, <1>10, PlainTo, Zenon
<1> QED
  BY <1>3, <1>8, <1>9, <1>10

(* A database is opened, by the first connection or another.               *)
LEMMA OpenKeeps ==
  ASSUME Inv, Inv', Durable, NEW c \in Conn, Open(c)
  PROVE  Durable'
<1>1. /\ con[c].at = "closed" /\ \A d \in Conn : con[d].goal # "close"
      /\ con' = [con EXCEPT ![c] = Idle(Closed)] /\ UNCHANGED <<files, history>>
  BY DEF Open
<1>2. PICK n \in State : n = Idle(Closed) /\ n.at = "idle" /\ n.goal = "none" /\ n.tid = 0 /\ ~n.nck
  BY ClosedState, IdleState, IdleForm
<1>3. con'[c] = n /\ \A d \in Conn \ {c} : con'[d] = con[d]
  BY <1>1, <1>2, ConnTypes DEF Inv
<1>4. ntxn <= ntxn' /\ committed' = committed /\ doubt' = doubt /\ ntxn' = ntxn
  BY <1>1, HistorySame
<1>5. WriterFits(n)' /\ SaltsKept(n)' /\ ClosingOK(n)' /\ ~Appends(n)'
  <2>1. ntxn' \in Nat
    BY Bounds DEF Inv, Types
  <2> QED
    BY <1>2, <2>1 DEF WriterFits, SaltsKept, ClosingOK, Appends
<1>6. CASE \E d \in Conn : con[d].at # "closed"
  <2>1. shm' = shm
    BY <1>6 DEF Open
  <2>2. Aside(c) /\ Alive
    BY <1>1, <1>3, <1>4, <1>6, <2>1 DEF Aside, Alive
  <2>3. HeadOK'
    BY <1>1, <2>1, <2>2, HeadKept DEF Durable
  <2> QED
    BY <1>1, <1>2, <1>3, <1>5, <2>2, <2>3, AsideStep
<1>7. CASE \A d \in Conn : con[d].at = "closed"
  <2>1. shm' = NoShm /\ ~shm'.h0.init /\ ~Alive /\ ~Empty /\ ~Empty'
    BY <1>7, Nothing DEF Open, Alive, Empty
  <2>2. /\ db' = db /\ dbOld' = dbOld /\ wal' = wal /\ walOld' = walOld /\ headOld' = headOld
        /\ cutOld' = cutOld
    BY <1>1 DEF files
  <2>3. Left' \subseteq Left
    <3>1. Heads' \subseteq Heads /\ \A i \in Index : Versions(i)' = Versions(i)
      BY <2>1, <2>2 DEF Heads, Versions
    <3> QED
      BY <3>1, LeftIs, LeftThen
  <2>4. Outcomes' = Outcomes
    BY <1>4 DEF Outcomes
  <2>5. \A d \in Conn : con'[d].at \in {"closed", "idle"}
    BY <1>2, <1>3, <1>7
  <2>6. PICK k \in 0 .. MaxFrame : Floor(k)
    BY DEF Durable
  <2>7. Floor(k)'
    <3>1. OnDisk(k)' /\ Survives(k)' /\ (k \in Ends(wal) \/ Ends(wal) = {0})'
      BY <2>2, <2>3, <2>4, <2>6 DEF Floor, OnDisk, Survives
    <3>2. Covers(k)'
      BY <2>2, <2>5, <2>6 DEF Floor, Covers, Settled
    <3>3. \A d \in Conn : ~Appends(con[d])'
      BY <2>5 DEF Appends
    <3> QED
      BY <2>1, <3>1, <3>2, <3>3 DEF Floor
  <2>8. CutOK' /\ FramesOK' /\ TailOK' /\ HeadOK'
    <3>1. CutOK'
      BY <2>2, <2>4 DEF Durable, CutOK
    <3>2. FramesOK'
      BY <1>1, <1>4, FramesKept DEF Durable
    <3> QED
      BY <2>1, <3>1, <3>2 DEF TailOK, HeadOK
  <2>9. ASSUME NEW d \in Conn \ {c} PROVE WriterFits(con[d])' /\ SaltsKept(con[d])' /\ ClosingOK(con[d])'
    <3>1. con'[d] = con[d] /\ con[d].at = "closed" /\ SaltsKept(con[d]) /\ con[d].goal # "close"
      BY <1>1, <1>3, <1>7 DEF Durable
    <3>2. con[d].tid = 0
      BY <3>1, ConnNow DEF Locked, InPlace, AtWrite
    <3>3. ntxn' \in Nat
      BY Bounds DEF Inv, Types
    <3> QED
      BY <3>1, <3>2, <3>3 DEF WriterFits, SaltsKept, ClosingOK
  <2> QED
    BY <1>3, <1>5, <2>6, <2>7, <2>8, <2>9 DEF Durable
<1> QED
  BY <1>6, <1>7

-----------------------------------------------------------------------------
(* New salts are those of no frame.                                        *)
LEMMA NewGenNone ==
  ASSUME Unused # {}
  PROVE  NoneOf(NewGen)
<1>1. NewGen \in Unused
  BY DEF NewGen
<1>2. ASSUME NEW i \in Index, NEW f \in Versions(i), f # NoFrame PROVE f.gen # NewGen
  <2>1. f \in (UNION {walOld[j] \cup {wal.frame[j]} : j \in Index}) \ {NoFrame}
    BY <1>2 DEF Versions
  <2> QED
    BY <1>1, <2>1 DEF Unused
<1> QED
  BY <1>2 DEF NoneOf

(* A log is to begin again: none of its frames has the new salts.          *)
LEMMA ResetKeeps ==
  ASSUME Inv, Inv', Durable, NEW c \in Conn, Reset(c),
         UNCHANGED <<files, committed, doubt, ntxn>>, con[c].at \in {"restart", "done"}, con[c].wl
  PROVE  Durable'
<1>0. PICK r \in State : r = con[c]
  BY DEF Inv, Types
<1>1. Unused # {} /\ shm' = [shm EXCEPT !.h1 = ResetHdr(c)] /\ ResetHdr(c).mx = 0 /\ shm \in ShmType
  BY ResetHdrIs DEF Reset, Inv, Types
<1>2. ResetHdr(c).gen = NewGen
  BY <1>0 DEF ResetHdr, State, Hdr
<1>3. PICK h : h = ResetHdr(c)
  OBVIOUS
<1>4. PICK n : n = [r EXCEPT !.at = "reset2", !.hdr = h, !.nck = TRUE, !.ex = Slots]
  OBVIOUS
<1>5. n.at = "reset2" /\ n.hdr = h /\ n.tid = r.tid /\ n.goal = r.goal
  BY <1>4 DEF State
<1>6. con'[c] = n /\ \A d \in Conn \ {c} : con'[d] = con[d]
  BY <1>0, <1>3, <1>4, ConnTypes, Zenon DEF Inv, Reset
<1>7. shm'.h0 = shm.h0 /\ shm'.backfill = shm.backfill
  BY <1>1 DEF ShmType
<1>8. ntxn <= ntxn' /\ committed' = committed /\ doubt' = doubt /\ ntxn' = ntxn
  BY Bounds DEF Inv, Types
<1>9. Aside(c)
  BY <1>6, <1>7, <1>8 DEF Aside
<1>10. /\ WriterFits(con[c]) /\ HeadOK /\ JobOK(con[c]) /\ InPlace(con[c]) /\ Locked(con[c])
       /\ WriterOK(con[c], shm, committed)
  BY ConnNow DEF Durable
<1>11. n.goal # "close"
  BY <1>0, <1>5, <1>10 DEF InPlace, Locked, AtWrite, AtCkpt
<1>12. \A i \in Index : Versions(i)' = Versions(i)
  BY DEF Versions, files
<1>13. WriterFits(n)'
  <2>1. NoneOf(n.hdr.gen)
    BY <1>1, <1>2, <1>3, <1>5, NewGenNone
  <2>2. NoneOf(n.hdr.gen)'
    BY <1>12, <2>1 DEF NoneOf
  <2>3. ASSUME n.tid # 0 PROVE shm.h0.mx + 1 .. Reach(con[c]) = {}
    <3>1. con[c].at = "restart"
      BY <1>0, <1>5, <1>10, <2>3 DEF Locked, InPlace, AtWrite, AtCkpt, Checkpointing
    <3>2. con[c].log = <<>> /\ con[c].hdr = shm.h0
      BY <1>0, <1>5, <1>10, <2>3, <3>1 DEF JobOK, WriterOK
    <3>3. shm.h0.mx \in Nat /\ Len(<<>>) = 0
      BY <1>1, ShmTypes, Bounds
    <3>4. Reach(con[c]) = shm.h0.mx
      BY <3>2, <3>3 DEF Reach
    <3> QED
      BY <3>3, <3>4
  <2>4. n.tid # 0 => \A i \in Index : \A f \in Versions(i)' : f = NoFrame \/ n.tid \notin {f.tid, f.prev}
    BY <1>0, <1>5, <1>10, <1>12, <2>3 DEF WriterFits
  <2>5. n.tid <= ntxn'
    BY <1>0, <1>5, <1>8, <1>10 DEF WriterFits
  <2> QED
    BY <1>5, <2>2, <2>4, <2>5 DEF WriterFits
<1>14. SaltsKept(n)' /\ ClosingOK(n)' /\ ~Appends(n)'
  BY <1>5, <1>11 DEF SaltsKept, ClosingOK, Appends
<1>15. HeadOK'
  <2>1. Clean' = Clean /\ Alive
    BY DEF Clean, files, Alive
  <2> QED
    BY <1>5, <1>6, <1>7, <1>10, <2>1 DEF HeadOK
<1> QED
  BY <1>5, <1>6, <1>9, <1>13, <1>14, <1>15, AsideStep

(* By a writer or a checkpoint.                                            *)
LEMMA ResetsKeep ==
  ASSUME Inv, Inv', Durable, NEW c \in Conn, Restart(c) \/ Done(c)
  PROVE  Durable'
<1>0. PICK r \in State : r = con[c]
  BY DEF Inv, Types
<1>1. Locked(con[c]) /\ InPlace(con[c])
  BY ConnNow
<1>2. CASE Restart(c) /\ Reset(c)
  <2>1. con[c].at = "restart" /\ UNCHANGED <<files, committed, doubt, ntxn>>
    BY <1>2 DEF Restart
  <2>2. con[c].wl
    BY <1>1, <2>1 DEF Locked, AtWrite
  <2> QED
    BY <1>2, <2>1, <2>2, ResetKeeps
<1>3. CASE Restart(c) /\ ~Reset(c)
  <2>1. con[c].at = "restart" /\ con' = [con EXCEPT ![c] = Retry(r)] /\ UNCHANGED <<files, shm, history>>
    BY <1>0, <1>3 DEF Restart, history
  <2>2. con[c].goal # "close"
    BY <1>1, <2>1 DEF InPlace, AtWrite
  <2>3. /\ Retry(r).at \in {"hdr", "marks"} /\ Retry(r).tid = r.tid /\ Retry(r).nck = r.nck
        /\ Retry(r).goal = r.goal /\ Retry(r).hdr = r.hdr /\ Retry(r).log = r.log
    BY ReadingForm
  <2> QED
    BY <1>0, <2>1, <2>2, <2>3, PlainMove, Zenon
<1>4. CASE Done(c)
  <2>1. con[c].at = "done" /\ UNCHANGED <<files, committed, doubt, ntxn>> /\ Reset(c)
        /\ con[c].mode = "truncate"
    BY <1>4 DEF Done, history
  <2>2. con[c].wl
    BY <1>1, <2>1 DEF Locked, InPlace, AtCkpt, AtWrite
  <2> QED
    BY <2>1, <2>2, ResetKeeps
<1> QED
  BY <1>2, <1>3, <1>4

(* Nothing of what was copied is in the log that has begun.                *)
LEMMA Reset3Keeps ==
  ASSUME Inv, Inv', Durable, NEW c \in Conn, Reset3(c)
  PROVE  Durable'
<1>0. PICK r \in State : r = con[c]
  BY DEF Inv, Types
<1>1. con[c].at = "reset3" /\ UNCHANGED <<files, history>> /\ shm \in ShmType
      /\ ResetOK(con[c], shm, committed) /\ SaltsKept(con[c]) /\ HeadOK
  BY ConnNow DEF Reset3, Durable
<1>2. con[c].goal \in {"write", "ckpt"} /\ con[c].tid \in Nat /\ con[c].log = <<>>
  BY <1>1, DuringReset, StateTypes, ConnNow, Bounds DEF AtReset
<1>3. PICK q : q = [r EXCEPT !.ex = {}]
  BY Zenon
<1>4. PICK a : a = [r EXCEPT !.at = "cut"]
  BY Zenon
<1>5. PICK n \in {Retry(q), a} : con' = [con EXCEPT ![c] = n] /\ (n = a => r.goal # "write" \/ a = Retry(q))
  BY <1>0, <1>3, <1>4, Zenon DEF Reset3
<1>6. q \in State /\ q.tid = r.tid /\ q.nck = r.nck /\ q.goal = r.goal /\ q.hdr = r.hdr /\ q.log = r.log
  BY <1>3, Zenon DEF State
<1>7. n.at \in {"hdr", "marks", "cut"} /\ n.tid = r.tid /\ n.nck = r.nck /\ n.goal = r.goal
      /\ n.hdr = r.hdr /\ n.log = r.log
  <2>1. a.at = "cut" /\ a.tid = r.tid /\ a.nck = r.nck /\ a.goal = r.goal
        /\ a.hdr = r.hdr /\ a.log = r.log
    BY <1>4 DEF State
  <2>2. /\ Retry(q).at \in {"hdr", "marks"} /\ Retry(q).tid = q.tid /\ Retry(q).nck = q.nck
        /\ Retry(q).goal = q.goal /\ Retry(q).hdr = q.hdr /\ Retry(q).log = q.log
    BY <1>6, ReadingForm
  <2> QED
    BY <1>5, <1>6, <2>1, <2>2
<1>8. con'[c] = n /\ \A d \in Conn \ {c} : con'[d] = con[d]
  BY <1>5, ConnTypes DEF Inv
<1>9. shm'.h0 = shm.h0 /\ shm'.h1 = shm.h1 /\ shm'.backfill = 0
  BY <1>1 DEF Reset3, ShmType
<1>10. Aside(c)
  BY <1>1, <1>8, <1>9, HistorySame DEF Aside
<1>11. shm.h0 = shm.h1 /\ shm.h0.mx = 0 /\ shm.h0.init
  BY <1>1 DEF ResetOK, AtReset
<1>12. HeadOK'
  <2>1. Clean' = Clean /\ Alive
    BY <1>1 DEF Clean, files, Alive
  <2>2. shm.backfill >= 0
    BY <1>1, ShmTypes, Bounds
  <2>3. Clean
    BY <1>1, <1>11, <2>1, <2>2 DEF HeadOK
  <2> QED
    BY <1>9, <1>11, <2>1, <2>3 DEF HeadOK
<1>13. ClosingOK(con[c])'
  BY <1>0, <1>2, <1>7, <1>8 DEF ClosingOK
<1> QED
  BY <1>0, <1>1, <1>7, <1>8, <1>10, <1>12, <1>13, PlainStep

(* The second copy of the header is that of the log.                       *)
LEMMA RecoverKeeps ==
  ASSUME Inv, Inv', Durable, NEW c \in Conn, Recover(c)
  PROVE  Durable'
<1>0. PICK r \in State : r = con[c]
  BY DEF Inv, Types
<1>1. con[c].at = "locked" /\ ~Readable /\ UNCHANGED <<files, history>> /\ shm \in ShmType /\ HeadOK
  BY ConnNow DEF Recover, Durable
<1>2. con[c].tid = 0
  BY <1>1, WaitingNow
<1>3. PICK h, k : h = RecoveredHdr(wal) /\ k = wal.head.nck
  OBVIOUS
<1>4. PICK n : n = [r EXCEPT !.at = "recover2", !.ex = {0} \cup Slots, !.chg = TRUE, !.hdr = h, !.nck = k]
  OBVIOUS
<1>5. n.at = "recover2" /\ n.tid = r.tid /\ n.nck = k
  BY <1>4 DEF State
<1>6. con'[c] = n /\ \A d \in Conn \ {c} : con'[d] = con[d]
  BY <1>0, <1>3, <1>4, ConnTypes, Zenon DEF Inv, Recover
<1>7. shm'.h0 = shm.h0 /\ shm'.backfill = shm.backfill
  <2>1. \E x, y : shm' = [shm EXCEPT !.h1 = x, !.pg = y]
    BY Zenon DEF Recover
  <2> QED
    BY <1>1, <2>1 DEF ShmType
<1>8. Aside(c) /\ wal' = wal
  BY <1>1, <1>6, <1>7, HistorySame DEF Aside, files
<1>9. WriterFits(n)'
  <2>1. ntxn' \in Nat
    BY Bounds DEF Inv, Types
  <2> QED
    BY <1>0, <1>2, <1>5, <2>1 DEF WriterFits
<1>10. SaltsKept(n)' /\ ClosingOK(n)' /\ ~Appends(n)'
  BY <1>3, <1>5, <1>8 DEF SaltsKept, ClosingOK, Appends, AtCkpt
<1>11. HeadOK'
  <2>1. Clean' = Clean /\ Alive
    BY <1>1 DEF Clean, files, Alive
  <2>2. \A d \in Conn : con'[d].at # "reset2" => con[d].at # "reset2"
    BY <1>1, <1>6
  <2> QED
    BY <1>1, <1>7, <1>8, <2>1, <2>2 DEF HeadOK, Readable
<1> QED
  BY <1>1, <1>5, <1>6, <1>8, <1>9, <1>10, <1>11, AsideStep

(* Both are, and nothing is copied.                                        *)
LEMMA Recover3Keeps ==
  ASSUME Inv, Inv', Durable, NEW c \in Conn, Recover3(c)
  PROVE  Durable'
<1>0. PICK r \in State : r = con[c]
  BY DEF Inv, Types
<1>1. con[c].at = "recover3" /\ UNCHANGED <<files, history>> /\ shm \in ShmType
      /\ SaltsKept(con[c]) /\ HeadOK /\ RecoveryOK(con[c], shm, wal)
  BY ConnNow DEF Recover3, Durable
<1>2. con[c].tid = 0 /\ shm.h0 = shm.h1
  BY <1>1, DuringRecovery DEF InRecovery, RecoveryOK
<1>3. PICK q : q = Loaded(r)
  OBVIOUS
<1>4. PICK n : n = [q EXCEPT !.wl = FALSE, !.ex = {}]
  OBVIOUS
<1>5. n.at \in {"choose", "ckpt"} /\ n.tid = r.tid /\ n.nck = r.nck /\ n.hdr = shm.h0
  BY <1>3, <1>4 DEF Loaded, State
<1>6. con'[c] = n /\ \A d \in Conn \ {c} : con'[d] = con[d]
  BY <1>0, <1>3, <1>4, ConnTypes, Zenon DEF Inv, Recover3
<1>7. shm'.h0 = shm.h0 /\ shm'.h1 = shm.h1 /\ shm'.backfill = 0
  BY <1>1 DEF Recover3, ShmType
<1>8. Aside(c)
  BY <1>1, <1>6, <1>7, HistorySame DEF Aside
<1>9. HeadOK'
  <2>1. Clean' = Clean /\ Alive
    BY <1>1 DEF Clean, files, Alive
  <2>2. shm.backfill >= 0 /\ shm.h0.mx >= 0 /\ shm.h0.mx \in Nat /\ shm.backfill \in Nat
    BY <1>1, ShmTypes, Bounds
  <2>3. 0 >= shm.h0.mx => shm.backfill >= shm.h0.mx
    BY <2>2
  <2> QED
    BY <1>1, <1>2, <1>7, <2>1, <2>3 DEF HeadOK
<1>10. ClosingOK(n)'
  BY <1>5, <1>7 DEF ClosingOK, AtCkpt
<1> QED
  BY <1>0, <1>1, <1>2, <1>5, <1>6, <1>8, <1>9, <1>10, PlainStep

(* The frames of a writer enter the index.                                 *)
LEMMA AppendsKeep ==
  ASSUME Inv, Inv', Durable, NEW c \in Conn, AppendIndex(c), ~(con[c].com /\ SyncFull)
  PROVE  Durable'
<1>0. PICK r \in State : r = con[c]
  BY DEF Inv, Types
<1>1. /\ con[c].at = "index" /\ UNCHANGED <<files, history>> /\ shm \in ShmType
      /\ WriterFits(con[c]) /\ SaltsKept(con[c]) /\ HeadOK /\ WrittenOK(con[c], shm, wal)
  BY ConnNow DEF AppendIndex, Durable, files, history
<1>2. r.hdr.mx \in Nat /\ r.log \in Seq(Page) /\ Len(r.log) \in Nat /\ r.hdr \in Hdr
  BY Bounds DEF State, Hdr
<1>3. PICK end, b : end = r.hdr.mx + Len(r.log) /\ b = (r.hdr.init \/ r.com)
  OBVIOUS
<1>4. PICK h : h = [r.hdr EXCEPT !.mx = end, !.init = b]
  OBVIOUS
<1>5. h.mx = end /\ h.gen = r.hdr.gen
  BY <1>2, <1>4 DEF Hdr
<1>6. PICK at : at = IF r.com THEN "publish" ELSE "write"
  OBVIOUS
<1>7. PICK n : n = [r EXCEPT !.hdr = h, !.goal = "none", !.log = <<>>, !.com = FALSE, !.at = at]
  OBVIOUS
<1>8. n.hdr = h /\ n.goal = "none" /\ n.log = <<>> /\ n.at = at /\ n.tid = r.tid /\ n.nck = r.nck
  BY <1>7 DEF State
<1>9. con'[c] = n /\ \A d \in Conn \ {c} : con'[d] = con[d]
  BY <1>0, <1>3, <1>4, <1>6, <1>7, ConnTypes DEF Inv, AppendIndex
<1>10. shm'.h0 = shm.h0 /\ shm'.backfill = shm.backfill
  <2>1. \E x, y : shm' = [shm EXCEPT !.pg = x, !.h1 = y]
    BY Zenon DEF AppendIndex
  <2> QED
    BY <1>1, <2>1 DEF ShmType
<1>11. Aside(c) /\ wal' = wal /\ ntxn' = ntxn
  BY <1>1, <1>9, <1>10, HistorySame DEF Aside, files
<1>12. Reach(n) = Reach(con[c])
  <2>1. Len(<<>>) = 0
    OBVIOUS
  <2> QED
    BY <1>0, <1>2, <1>3, <1>5, <1>8, <2>1 DEF Reach
<1>13. WriterFits(n)'
  <2>1. \A i \in Index : Versions(i)' = Versions(i)
    BY <1>1 DEF Versions, files
  <2>2. Reach(n)' = Reach(con[c])
    BY <1>12 DEF Reach
  <2>3. at = "write" => ~r.com
    BY <1>6
  <2>4. at = "publish" => ~SyncFull
    BY <1>0, <1>6
  <2>5. at \in {"write", "publish"}
    BY <1>6
  <2>6. at = "write" => \A i \in shm.h0.mx + 1 .. Reach(con[c]) : ~wal.frame[i].com
    BY <1>0, <1>1, <2>3 DEF WriterFits
  <2> QED
    BY <1>0, <1>1, <1>8, <1>10, <1>11, <2>1, <2>2, <2>4, <2>5, <2>6 DEF WriterFits
<1>14. at \in {"write", "publish"}
  BY <1>6
<1>15. SaltsKept(n)' /\ ClosingOK(n)' /\ (Appends(n)' => Appends(con[c]))
  BY <1>0, <1>1, <1>8, <1>10, <1>11, <1>14 DEF SaltsKept, ClosingOK, Appends
<1>16. HeadOK'
  <2>1. wal.head # NoHead
    BY <1>1 DEF WrittenOK
  <2>2. Clean' = Clean /\ Alive
    BY <1>1 DEF Clean, files, Alive
  <2> QED
    BY <1>1, <1>10, <1>11, <2>1, <2>2 DEF HeadOK
<1> QED
  BY <1>1, <1>8, <1>9, <1>11, <1>13, <1>14, <1>15, <1>16, AsideStep

-----------------------------------------------------------------------------
(* The frames of a writer follow those of the last commit, with the pages  *)
(* that it has changed.                                                    *)
LEMMA WriterChain ==
  ASSUME Inv, NEW c \in Conn, con[c].at \in {"frame", "index"}, NEW m, m = Reach(con[c])
  PROVE  /\ Alive /\ shm.h0.init /\ wal.head # NoHead /\ wal.head.gen = con[c].hdr.gen
         /\ shm.h0.mx \in Nat /\ m \in 0 .. MaxFrame /\ m \in Nat /\ shm.h0.mx <= m
         /\ Chained(wal.head.gen, m, wal)
         /\ \A i \in shm.h0.mx + 1 .. m : wal.frame[i].tid = con[c].tid
         /\ con[c].hdr.sum = IF m = 0 THEN 0 ELSE wal.frame[m].tid
         /\ Changed(con[c], shm)
              = con[c].job \cup {wal.frame[i].pg : i \in shm.h0.mx + 1 .. m}
         /\ con[c].tid # 0 /\ con[c].wl /\ con[c].goal = "write"
<1>0. PICK r \in State : r = con[c]
  BY DEF Inv, Types
<1>1. /\ WrittenOK(con[c], shm, wal) /\ WriterOK(con[c], shm, committed) /\ JobOK(con[c])
      /\ Locked(con[c]) /\ InPlace(con[c]) /\ shm \in ShmType /\ wal \in LogType
  BY ConnNow
<1>2. r.tid # 0 /\ r.wl /\ r.goal = "write"
  BY <1>0, <1>1 DEF Locked, InPlace, AtWrite
<1>3. shm.h0.mx \in Nat /\ shm.h0.mx <= r.hdr.mx /\ shm.h0.init
  BY <1>0, <1>1, <1>2, ShmTypes, Bounds DEF WriterOK
<1>4. r.hdr.mx \in Nat /\ Len(r.log) \in Nat /\ Cardinality(r.job) \in Nat
  <2>1. IsFiniteSet(r.job)
    <3>1. r.job \in SUBSET Page
      BY DEF State
    <3>2. IsFiniteSet(Page)
      BY FS_Interval, Bounds DEF Page
    <3> QED
      BY <3>1, <3>2, FS_Subset
  <2>2. Cardinality(r.job) \in Nat
    BY <2>1, FS_CardinalityType
  <2>3. r.hdr.mx \in Nat
    BY StateTypes, Bounds
  <2>4. r.log \in Seq(Page)
    BY DEF State
  <2> QED
    BY <2>2, <2>3, <2>4
<1>5. r.hdr.mx + Len(r.log) + Cardinality(r.job) <= MaxFrame
  BY <1>0, <1>1, <1>2 DEF JobOK
<1>6. m = r.hdr.mx + Len(r.log) /\ m \in Nat /\ m <= MaxFrame /\ shm.h0.mx <= m
  <2>1. m = r.hdr.mx + Len(r.log)
    BY <1>0 DEF Reach
  <2>2. MaxFrame \in Nat
    BY Bounds
  <2>3. PICK h, l, k \in Nat : h = r.hdr.mx /\ l = Len(r.log) /\ k = Cardinality(r.job)
    BY <1>4
  <2>4. PICK s \in Nat : s = shm.h0.mx
    BY <1>3
  <2>5. h + l + k <= MaxFrame /\ s <= h /\ m = h + l
    BY <1>3, <1>5, <2>1, <2>3, <2>4
  <2> QED
    BY <2>1, <2>2, <2>3, <2>4, <2>5
<1>7. /\ wal.head # NoHead /\ wal.head.gen = r.hdr.gen /\ Chained(r.hdr.gen, m, wal)
      /\ Indexed(r.hdr.mx, shm, wal)
      /\ \A i \in shm.h0.mx + 1 .. r.hdr.mx : wal.frame[i].tid = r.tid
      /\ \A j \in 1 .. Len(r.log) :
           wal.frame[r.hdr.mx + j].pg = r.log[j] /\ wal.frame[r.hdr.mx + j].tid = r.tid
      /\ r.hdr.sum = IF m = 0 THEN 0 ELSE wal.frame[m].tid
  BY <1>0, <1>1, <1>6 DEF WrittenOK
<1>8. \A i \in shm.h0.mx + 1 .. m : i \in shm.h0.mx + 1 .. r.hdr.mx
         \/ \E j \in 1 .. Len(r.log) : i = r.hdr.mx + j
  <2>1. ASSUME NEW i \in shm.h0.mx + 1 .. m, i > r.hdr.mx
        PROVE  \E j \in 1 .. Len(r.log) : i = r.hdr.mx + j
    <3>1. i - r.hdr.mx \in 1 .. Len(r.log) /\ i = r.hdr.mx + (i - r.hdr.mx)
      BY <1>3, <1>4, <1>6, <2>1
    <3> QED
      BY <3>1
  <2> QED
    BY <1>3, <1>4, <1>6, <2>1
<1>9. \A i \in shm.h0.mx + 1 .. m : wal.frame[i].tid = r.tid
  BY <1>7, <1>8
<1>10. {r.log[j] : j \in 1 .. Len(r.log)} \cup {shm.pg[i] : i \in shm.h0.mx + 1 .. r.hdr.mx}
       = {wal.frame[i].pg : i \in shm.h0.mx + 1 .. m}
  <2>1. \A i \in shm.h0.mx + 1 .. r.hdr.mx : shm.pg[i] = wal.frame[i].pg /\ i \in shm.h0.mx + 1 .. m
    BY <1>3, <1>4, <1>6, <1>7 DEF Indexed
  <2>2. \A j \in 1 .. Len(r.log) : r.hdr.mx + j \in shm.h0.mx + 1 .. m
    BY <1>3, <1>4, <1>6
  <2> QED
    BY <1>7, <1>8, <2>1, <2>2
<1>11. Changed(con[c], shm) = con[c].job \cup {wal.frame[i].pg : i \in shm.h0.mx + 1 .. m}
  BY <1>0, <1>10, Zenon DEF Changed
<1>12. Alive /\ m \in 0 .. MaxFrame
  BY <1>6, Bounds DEF Alive
<1> QED
  BY <1>0, <1>2, <1>3, <1>6, <1>7, <1>9, <1>11, <1>12

(* A page that one of the last frames has is from one of them.             *)
LEMMA MadeNew ==
  ASSUME NEW n \in 0 .. MaxFrame, NEW m \in 0 .. n, NEW w, NEW b, NEW p \in Page,
         \E i \in m + 1 .. n : w.frame[i].pg = p
  PROVE  \E i \in m + 1 .. n : Made(w, b, n)[p] = w.frame[i].tid
<1>0. n \in Nat /\ m \in Nat /\ m <= n
  BY Bounds
<1>1. PICK k \in m + 1 .. n : w.frame[k].pg = p
  OBVIOUS
<1>2. k \in 1 .. n
  BY <1>0
<1>3. PICK i \in 1 .. n : LastAt(w, p, i, n)
  BY <1>1, <1>2, MadeIs
<1>4. Made(w, b, n)[p] = w.frame[i].tid
  BY <1>3, MadeIs
<1>5. k \notin i + 1 .. n
  BY <1>1, <1>3 DEF LastAt
<1>6. i \in m + 1 .. n
  BY <1>0, <1>5
<1> QED
  BY <1>4, <1>6

(* What it makes of the database, when all its pages are there: the image  *)
(* it has cached.                                                          *)
LEMMA WriterMakes ==
  ASSUME Inv, NEW c \in Conn, con[c].at \in {"frame", "index"}, NEW v, NEW m \in 0 .. MaxFrame,
         shm.h0.mx \in 0 .. m,
         \A i \in 1 .. shm.h0.mx : v.frame[i] = wal.frame[i],
         \A i \in shm.h0.mx + 1 .. m : v.frame[i].tid = con[c].tid,
         Changed(con[c], shm) = {v.frame[i].pg : i \in shm.h0.mx + 1 .. m}
  PROVE  Made(v, db, m) = con[c].cache
<1>1. /\ Alive /\ shm.h0.init /\ con[c].tid # 0
      /\ WriterOK(con[c], shm, committed) /\ con[c] \in State
  BY WriterChain, ConnNow
<1>2. /\ con[c].cache \in Image
      /\ \A p \in Page : con[c].cache[p] = IF p \in Changed(con[c], shm) THEN con[c].tid ELSE committed[p]
  BY <1>1 DEF WriterOK, State
<1>3. Made(v, db, shm.h0.mx) = committed
  BY <1>1, IndexEnd, MadeSame
<1>4. ASSUME NEW p \in Page PROVE Made(v, db, m)[p] = con[c].cache[p]
  <2>1. CASE p \in Changed(con[c], shm)
    <3>1. \E i \in shm.h0.mx + 1 .. m : v.frame[i].pg = p
      BY <2>1
    <3>2. \E i \in shm.h0.mx + 1 .. m : Made(v, db, m)[p] = v.frame[i].tid
      BY <3>1, MadeNew
    <3> QED
      BY <1>2, <2>1, <3>2
  <2>2. CASE p \notin Changed(con[c], shm)
    BY <1>2, <1>3, <2>2, MadeMore
  <2> QED
    BY <2>1, <2>2
<1> QED
  BY <1>2, <1>4, Zenon DEF Made, Image

(* Whoever does not write has no frames.                                   *)
LEMMA OthersWait ==
  ASSUME Inv, Inv', Durable, NEW c \in Conn, con[c].wl, con[c].at # "closed",
         NEW d \in Conn \ {c}, con'[d] = con[d],
         shm'.h0 = shm.h0 \/ (con[d].nck => shm'.h0.init /\ shm'.h0.gen # 0)
  PROVE  WriterFits(con[d])' /\ SaltsKept(con[d])' /\ ClosingOK(con[d])' /\ ~Appends(con[d])'
<1>1. ~con[d].wl /\ con[d].goal # "close"
  BY NobodyCloses DEF Inv, PairOK, Apart
<1>2. con[d] \in State /\ ConnOK(con[d], shm, wal, db, committed) /\ SaltsKept(con[d])
  BY DEF Inv, Types, Durable
<1>3. /\ con[d].tid = 0 /\ ~InRecovery(con[d]) /\ con[d].at \notin AtReset \cup AtWrite
  BY <1>1, <1>2, WriterAlone
<1>4. con[d].at \notin {"recover2", "reset2", "write", "frame", "index", "publish", "hdrsync"}
  BY <1>3 DEF InRecovery, AtReset, AtWrite
<1>5. ntxn' \in Nat
  BY Bounds DEF Inv, Types
<1> QED
  BY <1>1, <1>2, <1>3, <1>4, <1>5 DEF WriterFits, SaltsKept, ClosingOK, Appends

(* A frame is written behind those of the writer, or it is only half there. *)
LEMMA FrameKeeps ==
  ASSUME Inv, Inv', Durable, NEW c \in Conn, con[c].at = "frame",
         NEW k \in Index, k = Reach(con[c]) + 1, NEW F \in Frame \cup {NoFrame},
         wal' = WithFrame(wal, k, F),
         Versions(k)' \subseteq Versions(k) \cup {NoFrame, F},
         \A i \in Index \ {k} : walOld'[i] = walOld[i],
         UNCHANGED <<db, dbOld, headOld, cutOld, shm, committed, ntxn>>, doubt \subseteq doubt',
         \A d \in Conn \ {c} : con'[d] = con[d],
         F # NoFrame =>
           /\ F.gen = wal.head.gen /\ F.tid = con[c].tid /\ F.prev = con[c].hdr.sum
           /\ F.com => Made(wal', db, k) \in doubt',
         con'[c].at # "copy", WriterFits(con[c])', SaltsKept(con[c])', ClosingOK(con[c])'
  PROVE  Durable'
<1>1. PICK n \in 0 .. MaxFrame : Floor(n)
  BY DEF Durable
<1>2. PICK r \in State : r = con[c]
  BY DEF Inv, Types
<1>3. PICK m : m = Reach(con[c])
  OBVIOUS
<1>4. /\ Alive /\ shm.h0.init /\ wal.head # NoHead
      /\ shm.h0.mx \in Nat /\ m \in 0 .. MaxFrame /\ m \in Nat /\ shm.h0.mx <= m
      /\ Chained(wal.head.gen, m, wal)
      /\ r.hdr.sum = (IF m = 0 THEN 0 ELSE wal.frame[m].tid)
      /\ r.tid # 0 /\ r.wl
  BY <1>2, <1>3, WriterChain
<1>5. /\ k = m + 1 /\ k \in Nat /\ k - 1 = m /\ n \in Nat
      /\ \A i \in 1 .. m : i \in Index /\ i # k /\ i \in 1 .. k
  BY <1>3, <1>4, Bounds DEF Index
<1>6. /\ db' = db /\ dbOld' = dbOld /\ headOld' = headOld /\ cutOld' = cutOld /\ shm' = shm
      /\ committed' = committed /\ ntxn' = ntxn
  OBVIOUS
<1>7. wal \in LogType /\ Again \in HeadType
  BY LeftTypes, ConnNow
<1>8. wal' \in LogType /\ wal'.head = wal.head /\ wal'.frame[k] = F
      /\ \A i \in Index \ {k} : wal'.frame[i] = wal.frame[i]
  BY <1>7, FrameSet
<1>9. \A i \in Index \ {k} : Versions(i)' = Versions(i)
  BY <1>8 DEF Versions
<1>10. Again' = Again /\ (Empty' => Empty) /\ Heads' \subseteq Heads
  <2>1. Again' = Again
    BY <1>6 DEF Again
  <2>2. Empty' => Empty
    BY <1>4, <1>6 DEF Empty
  <2> QED
    BY <1>6, <1>8, <2>1, <2>2 DEF Heads
<1>11. n <= shm.h0.mx /\ n \in 0 .. m
  <2>1. n <= shm.h0.mx
    BY <1>1 DEF Floor, Appends
  <2> QED
    BY <1>4, <1>5, <2>1
<1>12. n \in Ends(wal)
  <2>1. shm.h0.mx \in Ends(wal)
    BY <1>4, IndexEnd
  <2>2. Ends(wal) = {0} => n = 0
    BY <1>4, <1>5, <1>11, <2>1
  <2> QED
    BY <1>1, <2>2, EndsIs, <1>7 DEF Floor
<1>13. n \in Ends(wal')
  <2>1. \A i \in 1 .. m : wal'.frame[i] = wal.frame[i]
    BY <1>5, <1>8
  <2> QED
    BY <1>4, <1>7, <1>8, <1>11, <1>12, <2>1, SamePrefix
<1>14. FramesOK /\ TailOK /\ HeadOK /\ CutOK /\ WriterFits(con[c])
  BY DEF Durable
<1>15. ASSUME NEW i \in Index, NEW f \in Versions(i), f # NoFrame, r.tid \in {f.tid, f.prev}
       PROVE  i \in shm.h0.mx + 1 .. m
  BY <1>2, <1>3, <1>4, <1>14, <1>15 DEF WriterFits
<1>16. \A i \in Index : i > m => \A f \in Versions(i) : f = NoFrame \/ r.tid \notin {f.tid, f.prev}
  BY <1>4, <1>15, Bounds DEF Index
<1>17. Survives(n)'
  <2>0. Survives(n)
    BY <1>1 DEF Floor
  <2>1. Outcomes \subseteq Outcomes'
    BY <1>6 DEF Outcomes
  <2>2. ASSUME NEW w \in Left', NEW j \in Ends(w), j >= n \/ n \notin Ends(w)
        PROVE  Made(w, db, j) \in Outcomes'
    <3>1. w \in LogType /\ w.head \in Heads /\ \A i \in Index : w.frame[i] \in Versions(i)'
      BY <1>10, <2>2, LeftThen
    <3>2. j \in 0 .. MaxFrame /\ j \in Nat
      BY <3>1, EndsIs, Bounds
    <3>3. CASE w.frame[k] \in Versions(k)
      <4>1. w \in Left
        BY <1>9, <3>1, <3>3, LeftIs
      <4> QED
        BY <2>0, <2>1, <2>2, <4>1 DEF Survives
    <3>4. CASE j <= m
      <4>1. PICK v : v = WithFrame(w, k, wal.frame[k])
        OBVIOUS
      <4>2. wal.frame[k] \in Frame \cup {NoFrame} /\ wal.frame[k] \in Versions(k)
        BY <1>7 DEF LogType, Versions
      <4>3. v \in LogType /\ v.head = w.head /\ v.frame[k] = wal.frame[k]
            /\ \A i \in Index \ {k} : v.frame[i] = w.frame[i]
        BY <3>1, <4>1, <4>2, FrameSet
      <4>4. v \in Left
        BY <1>9, <3>1, <4>2, <4>3, LeftIs
      <4>5. \A i \in 1 .. m : v.frame[i] = w.frame[i] /\ w.frame[i] = v.frame[i]
        BY <1>5, <4>3
      <4>6. j \in 0 .. m
        BY <1>4, <3>2, <3>4
      <4>7. j \in Ends(v) /\ Made(v, db, j) = Made(w, db, j)
        BY <1>4, <3>1, <4>3, <4>5, <4>6, SamePrefix
      <4>8. n \in Ends(v) => n \in Ends(w)
        BY <1>4, <1>11, <3>1, <4>3, <4>5, SamePrefix
      <4> QED
        BY <2>0, <2>1, <2>2, <4>4, <4>7, <4>8 DEF Survives
    <3>5. CASE j > m /\ w.frame[k] \notin Versions(k)
      <4>1. /\ j # 0 /\ k \in 1 .. j /\ j \in Index /\ w.head # NoHead /\ w.frame[j].com
            /\ Chained(w.head.gen, j, w)
            /\ \A i \in 1 .. j : i \in Index /\ w.frame[i] # NoFrame /\ w.frame[i].gen = w.head.gen
        <5>1. j # 0 /\ k \in 1 .. j
          BY <1>4, <1>5, <3>2, <3>5, Bounds DEF Index
        <5> QED
          BY <2>2, <3>1, <5>1, EndHas
      <4>2. w.frame[k] = F /\ F # NoFrame
        BY <3>1, <3>5, <4>1
      <4>3. w.head.gen = wal.head.gen
        BY <4>1, <4>2
      <4>4. F.tid = r.tid /\ F.prev = r.hdr.sum /\ (F.com => Made(wal', db, k) \in doubt')
        BY <1>2, <4>2
      <4>5. \A i \in 1 .. m : w.frame[i] = wal.frame[i]
        <5>1. CASE m = 0
          BY <5>1
        <5>2. CASE m # 0
          <6>1. m \in Index /\ m \in 0 .. j /\ k # 1
            BY <1>4, <1>5, <3>2, <3>5, <5>2, Bounds DEF Index
          <6>2. w.frame[m].tid = wal.frame[m].tid
            BY <1>4, <1>5, <4>1, <4>2, <4>4, <5>2, <6>1 DEF Chained
          <6>3. Chained(wal.head.gen, m, w)
            BY <3>2, <4>1, <4>3, <6>1, ChainedLess
          <6>4. ASSUME NEW i \in 1 .. m, w.frame[i].gen = wal.frame[i].gen, w.frame[i].tid = wal.frame[i].tid
                PROVE  w.frame[i] = wal.frame[i]
            <7>1. i \in Index /\ w.frame[i] \in Versions(i) /\ wal.frame[i] \in Versions(i)
              BY <1>5, <1>9, <3>1 DEF Versions
            <7>2. w.frame[i] # NoFrame /\ wal.frame[i] # NoFrame
              BY <1>4, <6>3 DEF Chained
            <7> QED
              BY <1>14, <6>4, <7>1, <7>2 DEF FramesOK
          <6> QED
            BY <1>4, <6>1, <6>2, <6>3, <6>4, PrefixSame
        <5> QED
          BY <5>1, <5>2
      <4>6. CASE j = k
        <5>1. \A i \in 1 .. k : w.frame[i] = wal'.frame[i]
          <6>1. \A i \in 1 .. k : i \in 1 .. m \/ i = k
            BY <1>4, <1>5
          <6>2. \A i \in 1 .. m : wal'.frame[i] = wal.frame[i]
            BY <1>5, <1>8
          <6> QED
            BY <1>8, <4>2, <4>5, <6>1, <6>2
        <5>2. Made(w, db, k) = Made(wal', db, k)
          BY <3>2, <4>6, <5>1, MadeSame
        <5> QED
          BY <4>1, <4>2, <4>4, <4>6, <5>2 DEF Outcomes
      <4>7. CASE j # k
        <5>1. k + 1 \in 1 .. j /\ k + 1 # 1 /\ (k + 1) - 1 = k /\ k + 1 # k /\ k + 1 > m
          BY <1>4, <1>5, <3>2, <3>5, <4>7
        <5>2. w.frame[k + 1].prev = r.tid /\ w.frame[k + 1] # NoFrame
          BY <4>1, <4>2, <4>4, <5>1 DEF Chained
        <5>3. k + 1 \in Index /\ w.frame[k + 1] \in Versions(k + 1)
          BY <1>9, <3>1, <4>1, <5>1
        <5> QED
          BY <1>16, <5>1, <5>2, <5>3
      <4> QED
        BY <4>6, <4>7
    <3> QED
      BY <1>4, <3>2, <3>3, <3>4, <3>5
  <2> QED
    BY <1>6, <2>2 DEF Survives
<1>18. Floor(n)'
  <2>1. OnDisk(n)'
    <3>1. \A i \in 1 .. n : i \in 1 .. m
      BY <1>4, <1>5, <1>11
    <3>2. \A i \in 1 .. n : walOld'[i] = walOld[i]
      BY <1>5, <3>1
    <3> QED
      BY <1>1, <3>2 DEF Floor, OnDisk
  <2>2. Covers(n)'
    <3>1. \A p \in Page : dbOld'[p] # {} =>
             Settled' /\ n \in Ends(wal') /\ \E i \in 1 .. n : wal'.frame[i].pg = p
      <4>1. \A i \in 1 .. n : wal'.frame[i] = wal.frame[i]
        BY <1>4, <1>5, <1>8, <1>11
      <4> QED
        BY <1>1, <1>6, <1>13, <4>1 DEF Floor, Covers, Settled
    <3>2. \A d \in Conn : con'[d].at = "copy" => Settled' /\ con'[d].safe <= n
      BY <1>1, <1>6 DEF Floor, Covers, Settled
    <3> QED
      BY <1>13, <3>1, <3>2 DEF Covers
  <2>3. Empty' => n = 0 /\ 0 \in Ends(With(Again)')
    <3>1. With(Again)' \in LogType
      <4>1. With(Again)' = [wal' EXCEPT !.head = Again]
        BY <1>10 DEF With
      <4> QED
        BY <1>7, <1>8, <4>1 DEF LogType
    <3>2. Empty' => shm.h0.mx = 0
      BY <1>6 DEF Empty
    <3> QED
      BY <1>5, <1>11, <3>1, <3>2, EndsIs
  <2>4. n <= shm'.h0.mx
    BY <1>6, <1>11
  <2> QED
    BY <1>13, <1>17, <2>1, <2>2, <2>3, <2>4 DEF Floor
<1>19. CutOK'
  <2>1. Outcomes \subseteq Outcomes'
    BY <1>6 DEF Outcomes
  <2> QED
    BY <1>6, <1>14, <2>1 DEF CutOK
<1>20. F # NoFrame => FrameFits(F)'
  <2>1. SUFFICES ASSUME F # NoFrame PROVE F.gen # 0 /\ F.tid <= ntxn /\ F.prev <= ntxn
    BY <1>6 DEF FrameFits
  <2>2. F.gen # 0
    BY <1>4, <1>14, <2>1 DEF FramesOK
  <2>3. F.tid <= ntxn
    BY <1>14, <2>1 DEF WriterFits
  <2>4. F.prev <= ntxn
    <3>1. CASE m = 0
      <4>1. ntxn \in Nat
        BY Bounds DEF Inv, Types
      <4> QED
        BY <1>2, <1>4, <2>1, <3>1, <4>1
    <3>2. CASE m # 0
      <4>1. m \in 1 .. m /\ m \in Index
        BY <1>4, <3>2, Bounds DEF Index
      <4>2. wal.frame[m] # NoFrame /\ wal.frame[m] \in Versions(m)
        BY <1>4, <4>1 DEF Chained, Versions
      <4> QED
        BY <1>2, <1>4, <1>14, <2>1, <3>2, <4>1, <4>2 DEF FramesOK, FrameFits
    <3> QED
      BY <3>1, <3>2
  <2> QED
    BY <2>2, <2>3, <2>4
<1>21. FramesOK'
  <2>1. \A i \in Index : FrameFits(cutOld.frame[i])'
    BY <1>6, <1>14 DEF FramesOK, FrameFits
  <2>2. ASSUME NEW i \in Index, NEW f \in Versions(i)' PROVE FrameFits(f)'
    <3>1. f \in Versions(i) => FrameFits(f)'
      BY <1>6, <1>14 DEF FramesOK, FrameFits
    <3>2. f \in Versions(i) \/ f = NoFrame \/ f = F
      BY <1>9, <2>2
    <3> QED
      BY <1>20, <3>1, <3>2 DEF FrameFits
  <2>3. ASSUME NEW i \in Index, NEW f \in Versions(i)', NEW g \in Versions(i)',
               f # NoFrame, g # NoFrame, f.gen = g.gen, f.tid = g.tid
        PROVE  f = g
    <3>1. (f \in Versions(i) \/ (i = k /\ f = F)) /\ (g \in Versions(i) \/ (i = k /\ g = F))
      BY <1>9, <2>3
    <3>2. f \in Versions(i) /\ g \in Versions(i) => f = g
      BY <1>14, <2>3 DEF FramesOK
    <3>3. k > m
      BY <1>4, <1>5
    <3>4. F # NoFrame => F.tid = r.tid
      BY <1>2
    <3> QED
      BY <1>16, <2>3, <3>1, <3>2, <3>3, <3>4
  <2>4. \A h \in headOld' \cup {wal'.head, cutOld'.head} : h.gen = 0 => h = NoHead
    BY <1>6, <1>8, <1>14 DEF FramesOK
  <2> QED
    BY <2>1, <2>2, <2>3, <2>4 DEF FramesOK
<1>22. TailOK'
  <2>1. SUFFICES ASSUME NEW i \in Chain(With(Again)'), i > shm.h0.mx + 1, wal'.frame[i - 1].com
                 PROVE  FALSE
    BY <1>6 DEF TailOK
  <2>2. PICK v : v = With(Again)'
    OBVIOUS
  <2>3. v \in LogType /\ v.head = Again /\ v.frame = wal'.frame
    <3>1. v = [wal' EXCEPT !.head = Again]
      BY <1>10, <2>2 DEF With
    <3> QED
      BY <1>7, <1>8, <3>1 DEF LogType
  <2>4. i \in Index /\ i \in Nat /\ Chained(v.head.gen, i, v) /\ v.head # NoHead
    <3>1. i \in Index /\ v.head # NoHead
      BY <2>1, <2>2 DEF Chain
    <3> QED
      BY <2>1, <2>2, <2>3, <3>1, ChainIs, Bounds DEF Index
  <2>5. CASE i < k
    <3>1. \A j \in 1 .. i : j \in 1 .. m /\ wal'.frame[j] = wal.frame[j]
      BY <1>4, <1>5, <1>8, <2>4, <2>5
    <3>2. With(Again) \in LogType /\ With(Again).head = Again /\ With(Again).frame = wal.frame
      BY <1>7, WithIs
    <3>3. \A j \in 1 .. i : j = 1 \/ j - 1 \in 1 .. i
      BY <2>4
    <3>4. Chained(Again.gen, i, With(Again))
      BY <2>3, <2>4, <3>1, <3>2, <3>3 DEF Chained
    <3>5. i \in Chain(With(Again))
      BY <2>4, <3>2, <3>4, ChainIs
    <3>6. i - 1 \in 1 .. i
      BY <1>4, <2>1, <2>4
    <3> QED
      BY <1>4, <1>14, <2>1, <3>1, <3>5, <3>6 DEF TailOK
  <2>6. CASE i = k
    <3>1. i - 1 = m /\ m \in shm.h0.mx + 1 .. m /\ m # k
      BY <1>4, <1>5, <2>1, <2>6
    <3>2. m \in Index
      BY <1>4, <3>1, Bounds DEF Index
    <3>3. wal.frame[m].com
      BY <1>8, <2>1, <3>1, <3>2
    <3> QED
      BY <1>3, <1>14, <3>1, <3>3 DEF WriterFits
  <2>7. CASE i > k
    <3>1. k \in 1 .. i /\ k + 1 \in 1 .. i /\ k + 1 # 1 /\ (k + 1) - 1 = k /\ k + 1 # k /\ k + 1 > m
          /\ k + 1 \in Index
      BY <1>4, <1>5, <2>4, <2>7, Bounds DEF Index
    <3>2. v.frame[k] # NoFrame /\ v.frame[k + 1] # NoFrame /\ v.frame[k + 1].prev = v.frame[k].tid
      BY <2>4, <3>1 DEF Chained
    <3>3. v.frame[k] = F /\ v.frame[k + 1] = wal.frame[k + 1] /\ wal.frame[k + 1] \in Versions(k + 1)
      BY <1>8, <2>3, <3>1 DEF Versions
    <3> QED
      BY <1>2, <1>16, <3>1, <3>2, <3>3
  <2> QED
    BY <1>5, <2>4, <2>5, <2>6, <2>7
<1>23. HeadOK'
  BY <1>4, <1>6, <1>8, <1>14 DEF HeadOK, Clean, Alive
<1>24. ASSUME NEW d \in Conn \ {c} PROVE WriterFits(con[d])' /\ SaltsKept(con[d])' /\ ClosingOK(con[d])'
  <2>1. shm'.h0 = shm.h0 /\ con[c].wl /\ con'[d] = con[d]
    BY <1>2, <1>4, <1>6
  <2> QED
    BY <2>1, OthersWait
<1> QED
  BY <1>18, <1>19, <1>21, <1>22, <1>23, <1>24 DEF Durable

(* A writer writes a frame; with the last one of a commit the log has the  *)
(* image that is in doubt.                                                 *)
LEMMA WriteFrameKeeps ==
  ASSUME Inv, Inv', Durable, NEW c \in Conn, WriteFrame(c)
  PROVE  Durable'
<1>0. PICK r \in State : r = con[c]
  BY DEF Inv, Types
<1>1. /\ con[c].at = "frame" /\ shm \in ShmType /\ wal \in LogType /\ FileTypes
      /\ UNCHANGED <<db, dbOld, headOld, cutOld, shm, committed, ntxn, nfault>>
      /\ WriterFits(con[c]) /\ SaltsKept(con[c])
  BY ConnNow DEF WriteFrame, Durable
<1>2. /\ con[c].goal = "write" /\ r.tid \in 1 .. MaxTxn /\ r.job \in SUBSET Page
      /\ r.job # {} /\ r.log \in Seq(Page) /\ Len(r.log) \in Nat
      /\ r.hdr.mx \in Nat /\ r.hdr.mx + Len(r.log) + 1 \in Index
      /\ r.hdr.gen \in Salt \cup {0} /\ r.hdr.sum \in 0 .. MaxTxn /\ r.com \in BOOLEAN
  BY <1>0, <1>1, AtFrame
<1>3. PICK m, k : m = Reach(con[c]) /\ k = r.hdr.mx + Len(r.log) + 1 /\ k \in Index /\ k = m + 1
  BY <1>0, <1>2 DEF Reach
<1>4. /\ Alive /\ shm.h0.init /\ wal.head # NoHead /\ wal.head.gen = con[c].hdr.gen
      /\ shm.h0.mx \in Nat /\ m \in 0 .. MaxFrame /\ m \in Nat /\ shm.h0.mx <= m
      /\ \A i \in shm.h0.mx + 1 .. m : wal.frame[i].tid = con[c].tid
      /\ Changed(con[c], shm) = con[c].job \cup {wal.frame[i].pg : i \in shm.h0.mx + 1 .. m}
      /\ con[c].tid # 0
  BY <1>1, <1>3, WriterChain, Zenon
<1>5. PICK p \in Page : p = Min(r.job) /\ p \in r.job
  BY <1>2, FirstPage, Zenon
<1>6. PICK last \in BOOLEAN : last <=> r.job = {p}
  BY Zenon
<1>7. PICK F : F = [pg |-> p, tid |-> r.tid, com |-> r.com /\ last, gen |-> r.hdr.gen, prev |-> r.hdr.sum]
  BY Zenon
<1>8. F \in Frame /\ F.pg = p /\ F.tid = r.tid /\ F.gen = r.hdr.gen /\ F.prev = r.hdr.sum
      /\ (F.com <=> r.com /\ last)
  <2>1. F \in Frame
    BY <1>2, <1>7 DEF Frame
  <2> QED
    BY <1>7, <2>1, Zenon
<1>9. wal' = WithFrame(wal, k, F)
  BY <1>0, <1>3, <1>5, <1>6, <1>7 DEF WriteFrame, WithFrame
<1>10. wal'.frame[k] = F /\ \A i \in Index \ {k} : wal'.frame[i] = wal.frame[i]
  BY <1>1, <1>3, <1>8, <1>9, FrameSet
<1>11. /\ walOld'[k] = walOld[k] \cup {wal.frame[k], NoFrame}
       /\ \A i \in Index \ {k} : walOld'[i] = walOld[i]
  BY <1>0, <1>1, <1>3 DEF WriteFrame, FileTypes
<1>12. /\ Versions(k)' \subseteq Versions(k) \cup {NoFrame, F}
       /\ \A i \in Index \ {k} : Versions(i)' = Versions(i)
  BY <1>10, <1>11 DEF Versions
<1>13. doubt' = IF F.com THEN doubt \cup {r.cache} ELSE doubt
  BY <1>0, <1>5, <1>6, <1>8 DEF WriteFrame
<1>14. PICK J, L, at : J = r.job \ {p} /\ L = Append(r.log, p) /\ at = (IF last THEN "index" ELSE "frame")
  BY Zenon
<1>15. PICK n : n = [r EXCEPT !.job = J, !.log = L, !.hdr.sum = r.tid, !.at = at]
  OBVIOUS
<1>16. con' = [con EXCEPT ![c] = n]
  BY <1>0, <1>5, <1>6, <1>14, <1>15, Zenon DEF WriteFrame
<1>17. /\ n.at = at /\ n.goal = "write" /\ n.log = L /\ n.tid = r.tid /\ n.nck = r.nck
       /\ n.hdr.mx = r.hdr.mx /\ n.com = r.com
  BY <1>0, <1>2, <1>15, Zenon DEF State, Hdr
<1>18. con'[c] = n /\ \A d \in Conn \ {c} : con'[d] = con[d]
  BY <1>16, ConnTypes DEF Inv
<1>19. Reach(n) = k
  BY <1>2, <1>3, <1>5, <1>14, <1>17, Appended DEF Reach
<1>20. /\ k \in Nat /\ k > shm.h0.mx
       /\ \A i \in shm.h0.mx + 1 .. k : i \in shm.h0.mx + 1 .. m \/ i = k
       /\ \A i \in shm.h0.mx + 1 .. m : i # k /\ i \in Index /\ i \in shm.h0.mx + 1 .. k
       /\ \A i \in 1 .. shm.h0.mx : i # k /\ i \in Index
  BY <1>3, <1>4, Bounds DEF Index
<1>21. F.com => Made(wal', db, k) \in doubt'
  <2>1. SUFFICES ASSUME F.com PROVE Made(wal', db, k) = r.cache
    BY <1>13
  <2>2. shm.h0.mx \in 0 .. k /\ k \in 0 .. MaxFrame
    BY <1>3, <1>4, <1>20, Bounds DEF Index
  <2>3. \A i \in shm.h0.mx + 1 .. k : wal'.frame[i].tid = con[c].tid
    BY <1>0, <1>4, <1>8, <1>10, <1>20
  <2>4. \A i \in 1 .. shm.h0.mx : wal'.frame[i] = wal.frame[i]
    BY <1>10, <1>20
  <2>5. Changed(con[c], shm) = {wal'.frame[i].pg : i \in shm.h0.mx + 1 .. k}
    <3>1. con[c].job = {p}
      BY <1>0, <1>6, <1>8, <2>1
    <3>2. \A i \in shm.h0.mx + 1 .. m : wal'.frame[i].pg = wal.frame[i].pg
      BY <1>10, <1>20
    <3>3. wal'.frame[k].pg = p /\ k \in shm.h0.mx + 1 .. k
      BY <1>8, <1>10, <1>4, <1>20
    <3> QED
      BY <1>4, <1>20, <3>1, <3>2, <3>3
  <2> QED
    BY <1>0, <1>1, <2>2, <2>3, <2>4, <2>5, WriterMakes
<1>22. at \in {"frame", "index"} /\ (last => at = "index")
  BY <1>14
<1>23. WriterFits(n)'
  <2>1. n.tid <= ntxn'
    BY <1>0, <1>1, <1>17 DEF WriterFits
  <2>2. Reach(n)' = k /\ shm'.h0.mx = shm.h0.mx
    BY <1>1, <1>19 DEF Reach
  <2>3. ASSUME NEW i \in Index, NEW f \in Versions(i)', f # NoFrame, n.tid \in {f.tid, f.prev}
        PROVE  i \in shm.h0.mx + 1 .. k
    <3>1. CASE i = k
      BY <1>4, <1>20, <3>1
    <3>2. CASE i # k
      <4>1. f \in Versions(i)
        BY <1>12, <2>3, <3>2
      <4>2. i \in shm.h0.mx + 1 .. m
        BY <1>0, <1>1, <1>3, <1>4, <1>17, <2>3, <4>1 DEF WriterFits
      <4> QED
        BY <1>20, <4>2
    <3> QED
      BY <3>1, <3>2
  <2>4. ASSUME NEW i \in shm.h0.mx + 1 .. k, wal'.frame[i].com
        PROVE  n.at = "index" /\ n.com /\ i = k
    <3>1. CASE i = k
      BY <1>8, <1>10, <1>17, <1>22, <2>4, <3>1
    <3>2. CASE i # k
      <4>1. i \in shm.h0.mx + 1 .. m /\ wal.frame[i].com
        BY <1>10, <1>20, <2>4, <3>2
      <4> QED
        BY <1>1, <1>3, <4>1 DEF WriterFits
    <3> QED
      BY <3>1, <3>2
  <2> QED
    BY <1>17, <1>22, <2>1, <2>2, <2>3, <2>4 DEF WriterFits
<1>24. SaltsKept(n)' /\ ClosingOK(n)'
  BY <1>0, <1>1, <1>17, <1>22 DEF SaltsKept, ClosingOK
<1>25. doubt \subseteq doubt'
  BY <1>13
<1>26. n.at # "copy"
  BY <1>17, <1>22
<1> QED
  BY <1>0, <1>1, <1>3, <1>4, <1>8, <1>9, <1>11, <1>12, <1>18, <1>21, <1>23, <1>24, <1>25, <1>26, FrameKeeps

(* A frame is written in part.                                             *)
LEMMA IoFrameKeeps ==
  ASSUME Inv, Inv', Durable, NEW c \in Conn, IoError(c), con[c].at = "frame"
  PROVE  Durable'
<1>0. PICK r \in State : r = con[c]
  BY DEF Inv, Types
<1>1. /\ wal \in LogType /\ FileTypes /\ WriterFits(con[c]) /\ SaltsKept(con[c])
      /\ UNCHANGED <<db, dbOld, headOld, cutOld, shm, committed, doubt, ntxn>>
  BY ConnNow DEF IoError, Durable
<1>2. /\ con[c].goal = "write" /\ Len(r.log) \in Nat /\ r.hdr.mx \in Nat
      /\ r.hdr.mx + Len(r.log) + 1 \in Index
  BY <1>0, AtFrame
<1>3. PICK k \in Index : k = r.hdr.mx + Len(r.log) + 1 /\ k = Reach(con[c]) + 1
  BY <1>0, <1>2 DEF Reach
<1>4. wal' = WithFrame(wal, k, NoFrame)
  BY <1>0, <1>3 DEF IoError, WithFrame
<1>5. wal'.frame[k] = NoFrame /\ \A i \in Index \ {k} : wal'.frame[i] = wal.frame[i]
  BY <1>1, <1>4, FrameSet
<1>6. walOld'[k] = walOld[k] \cup {wal.frame[k]} /\ \A i \in Index \ {k} : walOld'[i] = walOld[i]
  BY <1>0, <1>1, <1>3 DEF IoError, FileTypes
<1>7. /\ Versions(k)' \subseteq Versions(k) \cup {NoFrame}
      /\ \A i \in Index : Versions(i)' \subseteq Versions(i) \cup {NoFrame}
  BY <1>5, <1>6 DEF Versions
<1>8. PICK a, i : a = [r EXCEPT !.at = "failed"] /\ i = [Idle(r) EXCEPT !.cache = NoImage]
  BY Zenon
<1>9. PICK n \in {a, i} : con' = [con EXCEPT ![c] = n]
  BY <1>0, <1>2, <1>8, Zenon DEF IoError
<1>10. i.at = "idle" /\ i.goal = "none" /\ i.tid = 0 /\ i.nck = r.nck
  <2>1. PICK q \in State : q = Idle(r) /\ q.at = "idle" /\ q.goal = "none" /\ q.tid = 0 /\ q.nck = r.nck
    BY IdleState, IdleForm
  <2>2. i = [q EXCEPT !.cache = NoImage]
    BY <1>8, <2>1
  <2> QED
    BY <2>1, <2>2 DEF State
<1>11. a.at = "failed" /\ a.tid = r.tid /\ a.nck = r.nck /\ a.hdr = r.hdr /\ a.log = r.log
       /\ a.goal = r.goal
  BY <1>8 DEF State
<1>12. con'[c] = n /\ \A d \in Conn \ {c} : con'[d] = con[d]
  BY <1>9, ConnTypes DEF Inv
<1>13. WriterFits(n)'
  <2>1. ntxn' \in Nat
    BY Bounds DEF Inv, Types
  <2>2. CASE n = i
    BY <1>10, <2>1, <2>2 DEF WriterFits
  <2>3. CASE n = a
    <3>1. Reach(n)' = Reach(con[c]) /\ shm' = shm /\ ntxn' = ntxn
      BY <1>0, <1>1, <1>11, <2>3 DEF Reach
    <3> QED
      BY <1>0, <1>1, <1>7, <1>11, <2>3, <3>1 DEF WriterFits
  <2> QED
    BY <2>2, <2>3
<1>14. SaltsKept(n)' /\ ClosingOK(n)' /\ n.at # "copy"
  BY <1>0, <1>1, <1>2, <1>10, <1>11 DEF SaltsKept, ClosingOK
<1>15. Versions(k)' \subseteq Versions(k) \cup {NoFrame, NoFrame}
  BY <1>7
<1> QED
  BY <1>1, <1>3, <1>4, <1>6, <1>12, <1>13, <1>14, <1>15, FrameKeeps

-----------------------------------------------------------------------------
(* Recovery of logs with the same salts and frames.                        *)
LEMMA SameLast ==
  ASSUME NEW w, NEW v, w.head # NoHead, v.head # NoHead, v.head.gen = w.head.gen,
         v.frame = w.frame
  PROVE  LastCommit(v) = LastCommit(w) /\ \A b, n : Made(v, b, n) = Made(w, b, n)
<1>1. Chain(v) = Chain(w)
  BY DEF Chain
<1> QED
  BY <1>1 DEF LastCommit, Made

(* With fewer frames than before on the disk.                              *)
LEMMA FramesFewer ==
  ASSUME FramesOK, ntxn' = ntxn, \A i \in Index : Versions(i)' \subseteq Versions(i),
         \A i \in Index : FrameFits(cutOld'.frame[i]),
         \A h \in headOld' \cup {wal'.head, cutOld'.head} : h.gen = 0 => h = NoHead
  PROVE  FramesOK'
<1>1. ASSUME NEW i \in Index PROVE FrameFits(cutOld.frame[i])' /\ \A f \in Versions(i)' : FrameFits(f)'
  BY <1>1 DEF FramesOK, FrameFits
<1>2. \A i \in Index : \A f, g \in Versions(i)' :
        f # NoFrame /\ g # NoFrame /\ f.gen = g.gen /\ f.tid = g.tid => f = g
  BY DEF FramesOK
<1> QED
  BY <1>1, <1>2 DEF FramesOK

(* Nothing of an empty log is copied.                                      *)
LEMMA NobodyCopies ==
  ASSUME Inv, NEW d \in Conn, shm.h0.mx = 0
  PROVE  con[d].at # "copy"
<1>1. SUFFICES ASSUME con[d].at = "copy" PROVE FALSE
  OBVIOUS
<1>2. con[d] \in State /\ CheckpointOK(con[d], shm, wal, db) /\ shm \in ShmType
  BY ConnNow
<1>3. con[d].bf \in Nat /\ con[d].safe \in Nat /\ con[d].hdr.mx \in Nat
  BY <1>2, StateTypes, Bounds
<1>4. con[d].bf < con[d].safe /\ con[d].safe <= con[d].hdr.mx /\ con[d].hdr.mx <= 0
  BY <1>1, <1>2 DEF CheckpointOK, AtCkpt
<1> QED
  BY <1>3, <1>4

(* A writer that begins a log: the wal-index has none of it.               *)
LEMMA BeginsLog ==
  ASSUME Inv, Durable, NEW c \in Conn, con[c].at \in {"header", "hdrsync"}
  PROVE  /\ Alive /\ shm.h0.init /\ shm.h0.mx = 0 /\ Empty /\ Clean /\ db = committed
         /\ con[c].wl /\ con[c].tid # 0 /\ con[c].goal = "write" /\ con[c].log = <<>>
         /\ con[c].hdr.mx = 0 /\ db \in Image /\ shm \in ShmType
<1>1. con[c] \in State /\ shm \in ShmType /\ db \in Image /\ HeadOK
      /\ WriterOK(con[c], shm, committed) /\ Locked(con[c]) /\ InPlace(con[c]) /\ JobOK(con[c])
  BY ConnNow DEF Durable
<1>2. con[c].wl /\ con[c].tid # 0 /\ con[c].goal = "write" /\ con[c].log = <<>>
  BY <1>1 DEF Locked, InPlace, JobOK, AtWrite
<1>3. shm.h0.init /\ con[c].hdr.mx = 0 /\ shm.h0.mx <= con[c].hdr.mx
  BY <1>1, <1>2 DEF WriterOK
<1>4. shm.h0.mx = 0 /\ shm.backfill >= shm.h0.mx
  <2>1. shm.h0.mx \in Nat /\ shm.backfill \in Nat
    BY <1>1, ShmTypes, Bounds
  <2> QED
    BY <1>3, <2>1
<1>5. Alive
  BY DEF Alive
<1> QED
  BY <1>1, <1>2, <1>3, <1>4, <1>5, FileCommitted DEF Empty, HeadOK

(* A header is written: with the salts of the wal-index, or with some that *)
(* no frame has.                                                           *)
LEMMA HeaderKeeps ==
  ASSUME Inv, Inv', Durable, NEW c \in Conn, Header(c)
  PROVE  Durable'
<1>0. PICK r \in State : r = con[c]
  BY DEF Inv, Types
<1>1. /\ con[c].at = "header" /\ headOld' = headOld \cup {wal.head, NoHead}
      /\ con[c].nck \/ Unused # {}
      /\ UNCHANGED <<db, dbOld, walOld, cutOld, shm, committed, doubt, ntxn>>
  BY DEF Header, history
<1>2. /\ Alive /\ shm.h0.init /\ shm.h0.mx = 0 /\ Empty /\ Clean /\ db = committed
      /\ r.wl /\ r.tid # 0 /\ r.goal = "write" /\ r.log = <<>> /\ r.hdr.mx = 0
      /\ db \in Image /\ shm \in ShmType
  BY <1>0, <1>1, BeginsLog
<1>3. FramesOK /\ TailOK /\ HeadOK /\ CutOK /\ WriterFits(con[c]) /\ SaltsKept(con[c])
      /\ WriterOK(con[c], shm, committed)
  BY ConnNow DEF Durable
<1>4. r.hdr = shm.h0
  BY <1>0, <1>1, <1>2, <1>3 DEF WriterOK
<1>5. PICK g : g = IF r.nck THEN r.hdr.gen ELSE NewGen
  OBVIOUS
<1>6. PICK h : h = [gen |-> g, nck |-> r.nck]
  BY Zenon
<1>7. /\ g \in Salt \cup {0} /\ g # 0 /\ (r.nck => g = shm.h0.gen) /\ (~r.nck => NoneOf(g))
      /\ h \in HeadType /\ h.gen = g /\ h # NoHead /\ (r.nck => h = Again)
  <2>1. CASE r.nck
    <3>1. shm.h0.gen # 0 /\ shm.h0.gen \in Salt \cup {0}
      BY <1>0, <1>1, <1>2, <1>3, <2>1, ShmTypes DEF SaltsKept
    <3> QED
      BY <1>4, <1>5, <1>6, <2>1, <3>1, Nothing DEF HeadType, Again
  <2>2. CASE ~r.nck
    <3>1. NewGen \in Salt /\ NewGen # 0 /\ NoneOf(NewGen)
      BY <1>0, <1>1, <2>2, NewGenIs, NewGenNone
    <3>2. r.nck \in BOOLEAN
      BY DEF State
    <3> QED
      BY <1>5, <1>6, <2>2, <3>1, <3>2, Nothing DEF HeadType
  <2> QED
    BY <2>1, <2>2
<1>8. wal' = With(h)
  BY <1>0, <1>5, <1>6 DEF Header, With
<1>9. wal' \in LogType /\ wal'.head = h /\ wal'.frame = wal.frame
  BY <1>7, <1>8, WithIs
<1>10. PICK n : n = [r EXCEPT !.at = "hdrsync", !.hdr.gen = g, !.hdr.sum = 0]
  OBVIOUS
<1>11. n.at = "hdrsync" /\ n.tid = r.tid /\ n.nck = r.nck /\ n.hdr.mx = 0 /\ n.log = <<>>
       /\ n.goal = "write" /\ n.hdr.gen = g
  BY <1>2, <1>10, Zenon DEF State, Hdr
<1>12. con'[c] = n /\ \A d \in Conn \ {c} : con'[d] = con[d]
  BY <1>0, <1>5, <1>10, ConnTypes, Zenon DEF Inv, Header
<1>13. /\ Again' = Again /\ With(Again)' = With(Again) /\ Again \in HeadType
       /\ With(Again) \in LogType /\ With(Again).head = Again
       /\ \A i \in Index : Versions(i)' = Versions(i)
  <2>1. Again' = Again
    BY <1>1 DEF Again
  <2>2. With(Again)' = With(Again)
    BY <1>8, <2>1, Zenon DEF With
  <2> QED
    BY <1>1, <1>9, <2>1, <2>2, LeftTypes, WithIs DEF Versions
<1>14. Heads' \subseteq Heads \cup {NoHead, h}
  BY <1>1, <1>2, <1>9, <1>13 DEF Heads
<1>15. Outcomes' = Outcomes /\ committed \in Outcomes
  BY <1>1 DEF Outcomes
<1>16. ASSUME NEW w \in LogType, w.head = NoHead \/ (w.head = h /\ ~r.nck),
              \A i \in Index : w.frame[i] \in Versions(i)
       PROVE  Ends(w) = {0}
  BY <1>7, <1>16, NoEnds DEF NoneOf
<1>17. PICK k \in 0 .. MaxFrame : Floor(k)
  BY DEF Durable
<1>18. Floor(k)'
  <2>1. OnDisk(k)'
    BY <1>1, <1>17 DEF Floor, OnDisk
  <2>2. ASSUME NEW w \in Left', NEW j \in Ends(w), j >= k \/ k \notin Ends(w)
        PROVE  Made(w, db, j) \in Outcomes
    <3>1. w \in LogType /\ w.head \in Heads \cup {NoHead, h} /\ \A i \in Index : w.frame[i] \in Versions(i)
      BY <1>13, <1>14, <2>2, LeftThen
    <3>2. CASE w.head \in Heads
      <4>1. w \in Left
        BY <3>1, <3>2, LeftIs
      <4> QED
        BY <1>17, <2>2, <4>1 DEF Floor, Survives
    <3>3. CASE w.head \notin Heads
      <4>1. w.head = NoHead \/ (w.head = h /\ ~r.nck)
        BY <1>2, <1>7, <3>1, <3>3 DEF Heads
      <4>2. j = 0
        BY <1>16, <2>2, <3>1, <4>1
      <4> QED
        BY <1>2, <1>15, <4>2, MadeNone
    <3> QED
      BY <3>2, <3>3
  <2>3. Survives(k)'
    BY <1>1, <1>15, <2>2 DEF Survives
  <2>4. Covers(k)'
    <3>1. \A d \in Conn : con'[d].at # "copy"
      BY <1>2, <1>11, <1>12, NobodyCopies
    <3> QED
      BY <1>1, <1>2, <3>1 DEF Covers, Clean
  <2>5. (k \in Ends(wal) \/ Ends(wal) = {0})'
    <3>1. CASE r.nck
      BY <1>2, <1>7, <1>8, <1>17, <3>1 DEF Floor
    <3>2. CASE ~r.nck
      <4>1. \A i \in Index : wal'.frame[i] \in Versions(i)
        BY <1>9 DEF Versions
      <4> QED
        BY <1>9, <1>16, <3>2, <4>1
    <3> QED
      BY <3>1, <3>2
  <2>6. (Empty => k \in Ends(With(Again)) \/ Ends(With(Again)) = {0})'
    BY <1>2, <1>13, <1>17 DEF Floor
  <2>7. ~(shm'.h0.mx > 0)
    BY <1>1, <1>2
  <2>8. ASSUME NEW d \in Conn PROVE ~Appends(con[d])'
    <3>1. CASE d = c
      BY <1>11, <1>12, <3>1 DEF Appends
    <3>2. CASE d # c
      BY <1>0, <1>1, <1>2, <1>12, <3>2, OthersWait
    <3> QED
      BY <3>1, <3>2
  <2> QED
    BY <2>1, <2>3, <2>4, <2>5, <2>6, <2>7, <2>8 DEF Floor
<1>19. CutOK'
  BY <1>1, <1>3, <1>15 DEF CutOK
<1>20. FramesOK'
  <2>1. \A i \in Index : FrameFits(cutOld'.frame[i])
    BY <1>1, <1>3 DEF FramesOK
  <2>2. \A x \in headOld' \cup {wal'.head, cutOld'.head} : x.gen = 0 => x = NoHead
    BY <1>1, <1>3, <1>7, <1>9 DEF FramesOK
  <2> QED
    BY <1>1, <1>3, <1>13, <2>1, <2>2, FramesFewer
<1>21. TailOK'
  BY <1>1, <1>2, <1>3, <1>9, <1>13 DEF TailOK
<1>22. HeadOK'
  BY <1>1, <1>2, <1>7, <1>9 DEF HeadOK, Clean
<1>23. WriterFits(n)'
  <2>1. Reach(n)' = Reach(con[c]) /\ n.tid <= ntxn'
    BY <1>0, <1>1, <1>2, <1>3, <1>11 DEF Reach, WriterFits
  <2>2. n.hdr.gen # shm'.h0.gen => NoneOf(n.hdr.gen)'
    BY <1>1, <1>7, <1>11, <1>13 DEF NoneOf
  <2> QED
    BY <1>0, <1>1, <1>3, <1>11, <1>13, <2>1, <2>2 DEF WriterFits
<1>24. SaltsKept(n)' /\ ClosingOK(n)'
  BY <1>0, <1>1, <1>3, <1>11 DEF SaltsKept, ClosingOK
<1>25. ASSUME NEW d \in Conn \ {c} PROVE WriterFits(con[d])' /\ SaltsKept(con[d])' /\ ClosingOK(con[d])'
  BY <1>0, <1>1, <1>2, <1>12, OthersWait
<1> QED
  BY <1>12, <1>18, <1>19, <1>20, <1>21, <1>22, <1>23, <1>24, <1>25 DEF Durable

(* It is synced, and what was not on the disk of other logs is forgotten.  *)
LEMMA HeaderSyncKeeps ==
  ASSUME Inv, Inv', Durable, NEW c \in Conn, HeaderSync(c)
  PROVE  Durable'
<1>0. PICK r \in State : r = con[c]
  BY DEF Inv, Types
<1>1. /\ con[c].at = "hdrsync" /\ walOld' = [i \in Index |-> {}] /\ headOld' = {} /\ cutOld' = NoWal
      /\ UNCHANGED <<db, dbOld, wal, shm, committed, ntxn>>
  BY DEF HeaderSync, SyncWal
<1>2. /\ Alive /\ shm.h0.init /\ shm.h0.mx = 0 /\ Empty /\ Clean /\ db = committed
      /\ r.wl /\ r.tid # 0 /\ r.goal = "write" /\ r.log = <<>> /\ r.hdr.mx = 0
      /\ db \in Image /\ shm \in ShmType
  BY <1>0, <1>1, BeginsLog
<1>3. /\ FramesOK /\ TailOK /\ HeadOK /\ WriterFits(con[c]) /\ SaltsKept(con[c])
      /\ WrittenOK(con[c], shm, wal) /\ wal \in LogType
  BY ConnNow DEF Durable
<1>4. wal.head # NoHead /\ wal.head.gen = r.hdr.gen
  BY <1>0, <1>1, <1>3 DEF WrittenOK
<1>5. PICK n : n = [r EXCEPT !.at = "frame"]
  BY Zenon
<1>6. n.at = "frame" /\ n.tid = r.tid /\ n.nck = r.nck /\ n.hdr = r.hdr /\ n.log = <<>> /\ n.goal = "write"
  BY <1>2, <1>5 DEF State
<1>7. con'[c] = n /\ \A d \in Conn \ {c} : con'[d] = con[d]
  <2>1. con' = [con EXCEPT ![c] = n]
    BY <1>0, <1>5 DEF HeaderSync
  <2> QED
    BY <2>1, ConnTypes DEF Inv
<1>8. /\ Again' = Again /\ With(Again)' = With(Again) /\ Again \in HeadType
      /\ With(Again) \in LogType /\ With(Again).head = Again /\ With(Again).frame = wal.frame
      /\ Again.gen = shm.h0.gen /\ Again # NoHead
      /\ \A i \in Index : Versions(i)' = {wal.frame[i]} /\ Versions(i)' \subseteq Versions(i)
  <2>1. Again' = Again
    BY <1>1 DEF Again
  <2>2. With(Again)' = With(Again)
    BY <1>1, <2>1 DEF With
  <2>3. Again.gen = shm.h0.gen /\ Again # NoHead
    BY DEF Again, NoHead
  <2> QED
    BY <1>1, <2>1, <2>2, <2>3, LeftTypes, WithIs DEF Versions
<1>9. Heads' \subseteq {wal.head, Again}
  BY <1>1, <1>8 DEF Heads
<1>10. PICK W : W = [wal EXCEPT !.head.gen = shm.h0.gen]
  BY Zenon
<1>11. W \in LogType /\ W.head.gen = shm.h0.gen /\ W.frame = wal.frame
  <2>1. shm.h0.gen \in Salt \cup {0}
    BY <1>2, ShmTypes
  <2>2. PICK h : h = [wal.head EXCEPT !.gen = shm.h0.gen]
    BY Zenon
  <2>3. h \in HeadType /\ h.gen = shm.h0.gen
    BY <1>3, <2>1, <2>2 DEF LogType, HeadType
  <2>4. W = With(h)
    BY <1>10, <2>2 DEF With
  <2> QED
    BY <2>3, <2>4, WithIs
<1>12. doubt \cap {Recovered(W)} \subseteq doubt'
  BY <1>10 DEF HeaderSync, Remaining
<1>13. committed \in Outcomes'
  BY <1>1 DEF Outcomes
<1>14. ASSUME NEW w \in Left', NEW j \in Ends(w) PROVE Made(w, db, j) \in Outcomes'
  <2>1. w \in LogType /\ w.head \in {wal.head, Again} /\ \A i \in Index : w.frame[i] = wal.frame[i]
    BY <1>8, <1>9, <1>14, LeftThen
  <2>2. CASE j = 0
    BY <1>2, <1>13, <2>2, MadeNone
  <2>3. CASE j # 0
    <3>1. j \in Index /\ j \in 0 .. MaxFrame /\ j > 0 /\ 1 \in 1 .. j
      BY <1>14, <2>1, <2>3, EndHas, Bounds DEF Index
    <3>2. 1 \in Index /\ w.frame[1] # NoFrame /\ w.frame[1].gen = w.head.gen /\ w.head # NoHead
      BY <1>14, <2>1, <2>3, <3>1, EndHas
    <3>3. wal.frame[1] \in Versions(1) /\ wal.frame[1] # NoFrame /\ wal.frame[1].gen = w.head.gen
      BY <2>1, <3>2 DEF Versions
    <3>4. w.head.gen = shm.h0.gen /\ w.head.gen # 0
      <4>1. w.head.gen # 0
        BY <1>3, <3>2, <3>3 DEF FramesOK, FrameFits
      <4>2. CASE w.head = Again
        BY <1>8, <4>1, <4>2
      <4>3. CASE w.head = wal.head
        <5>1. r.hdr.gen # shm.h0.gen => NoneOf(r.hdr.gen)
          BY <1>0, <1>1, <1>3 DEF WriterFits
        <5> QED
          BY <1>4, <3>2, <3>3, <4>1, <4>3, <5>1 DEF NoneOf
      <4> QED
        BY <2>1, <4>2, <4>3
    <3>5. j \in Ends(With(Again)) /\ Made(With(Again), db, j) = Made(w, db, j)
      <4>1. \A i \in 1 .. j : With(Again).frame[i] = w.frame[i]
        BY <1>8, <2>1, <3>1, Bounds DEF Index
      <4>2. j \in 0 .. j
        BY <3>1, Bounds DEF Index
      <4> QED
        BY <1>8, <1>14, <2>1, <3>1, <3>4, <4>1, <4>2, SamePrefix
    <3>6. j = LastCommit(With(Again))
      BY <1>2, <1>3, <3>1, <3>5, TailEnds
    <3>7. LastCommit(W) = LastCommit(With(Again)) /\ Made(W, db, j) = Made(With(Again), db, j)
      <4>1. W.head # NoHead
        BY <1>11, <3>4, Nothing
      <4> QED
        BY <1>8, <1>11, <4>1, SameLast
    <3>8. Recovered(W) = Made(w, db, j)
      BY <3>5, <3>6, <3>7 DEF Recovered, Made
    <3>9. Made(w, db, j) \in Outcomes
      <4>1. PICK x \in 0 .. MaxFrame : Survives(x)
        BY DEF Durable, Floor
      <4> QED
        BY <1>2, <3>5, <3>6, <4>1, LeftNow, LastSurvives
    <3> QED
      BY <1>1, <1>12, <3>8, <3>9 DEF Outcomes
  <2> QED
    BY <2>2, <2>3
<1>15. 0 \in 0 .. MaxFrame /\ Floor(0)'
  <2>1. OnDisk(0)' /\ 0 \in 0 .. MaxFrame
    BY Bounds DEF OnDisk
  <2>2. Survives(0)'
    BY <1>1, <1>14 DEF Survives
  <2>3. Covers(0)'
    <3>1. \A d \in Conn : con'[d].at # "copy"
      BY <1>2, <1>6, <1>7, NobodyCopies
    <3> QED
      BY <1>1, <1>2, <3>1 DEF Covers, Clean
  <2>4. 0 \in Ends(wal') /\ 0 \in Ends(With(Again)')
    BY <1>1, <1>3, <1>8, EndsIs
  <2>5. 0 <= shm'.h0.mx
    BY <1>1, <1>2
  <2> QED
    BY <2>1, <2>2, <2>3, <2>4, <2>5 DEF Floor
<1>16. CutOK'
  BY <1>1 DEF CutOK
<1>17. FramesOK'
  <2>1. \A i \in Index : FrameFits(cutOld'.frame[i])
    BY <1>1 DEF NoWal, FrameFits
  <2>2. \A x \in headOld' \cup {wal'.head, cutOld'.head} : x.gen = 0 => x = NoHead
    BY <1>1, <1>3, Nothing DEF FramesOK
  <2> QED
    BY <1>1, <1>3, <1>8, <2>1, <2>2, FramesFewer
<1>18. TailOK'
  BY <1>1, <1>2, <1>3, <1>8 DEF TailOK
<1>19. HeadOK'
  BY <1>1, <1>2, <1>4 DEF HeadOK, Clean
<1>20. WriterFits(n)'
  <2>1. Reach(n)' = Reach(con[c]) /\ n.tid <= ntxn'
    BY <1>0, <1>1, <1>2, <1>3, <1>6 DEF Reach, WriterFits
  <2>2. shm'.h0.mx + 1 .. Reach(n)' = {}
    <3>1. Len(<<>>) = 0
      OBVIOUS
    <3>2. Reach(n)' = 0
      BY <1>2, <1>6, <3>1 DEF Reach
    <3> QED
      BY <1>1, <1>2, <3>2
  <2>3. \A i \in Index : \A f \in Versions(i)' :
          f = NoFrame \/ n.tid \notin {f.tid, f.prev} \/ i \in shm'.h0.mx + 1 .. Reach(n)'
    BY <1>0, <1>1, <1>2, <1>3, <1>6, <1>8, <2>1 DEF WriterFits
  <2> QED
    BY <1>6, <2>1, <2>2, <2>3 DEF WriterFits
<1>21. SaltsKept(n)' /\ ClosingOK(n)'
  BY <1>0, <1>1, <1>3, <1>6 DEF SaltsKept, ClosingOK
<1>22. ASSUME NEW d \in Conn \ {c} PROVE WriterFits(con[d])' /\ SaltsKept(con[d])' /\ ClosingOK(con[d])'
  BY <1>0, <1>1, <1>2, <1>7, OthersWait
<1> QED
  BY <1>7, <1>15, <1>16, <1>17, <1>18, <1>19, <1>20, <1>21, <1>22 DEF Durable

(* The log is synced before a commit: on the disk it has the frames of the *)
(* writer, and none that follow them.                                      *)
LEMMA SyncKeeps ==
  ASSUME Inv, Inv', Durable, NEW c \in Conn, AppendIndex(c), con[c].com, SyncFull
  PROVE  Durable'
<1>0. PICK r \in State : r = con[c]
  BY DEF Inv, Types
<1>1. /\ con[c].at = "index" /\ UNCHANGED <<db, dbOld, wal, committed, ntxn, nfault>>
      /\ walOld' = [i \in Index |-> {}] /\ headOld' = {} /\ cutOld' = NoWal /\ doubt' = {r.cache}
  BY <1>0 DEF AppendIndex, SyncWal
<1>2. /\ shm \in ShmType /\ wal \in LogType /\ WriterFits(con[c]) /\ SaltsKept(con[c]) /\ JobOK(con[c])
      /\ FramesOK /\ TailOK /\ HeadOK
  BY ConnNow DEF Durable
<1>3. PICK m : m = Reach(con[c])
  OBVIOUS
<1>4. /\ Alive /\ shm.h0.init /\ wal.head # NoHead /\ wal.head.gen = con[c].hdr.gen
      /\ shm.h0.mx \in Nat /\ m \in 0 .. MaxFrame /\ m \in Nat /\ shm.h0.mx <= m
      /\ Chained(wal.head.gen, m, wal)
      /\ \A i \in shm.h0.mx + 1 .. m : wal.frame[i].tid = con[c].tid
      /\ Changed(con[c], shm) = con[c].job \cup {wal.frame[i].pg : i \in shm.h0.mx + 1 .. m}
      /\ con[c].tid # 0 /\ con[c].wl
  BY <1>1, <1>3, WriterChain
<1>5. Made(wal, db, m) = r.cache
  <2>1. con[c].job = {}
    BY <1>1, <1>2 DEF JobOK
  <2>2. shm.h0.mx \in 0 .. m
    BY <1>4
  <2>3. Changed(con[c], shm) = {wal.frame[i].pg : i \in shm.h0.mx + 1 .. m}
    BY <1>4, <2>1
  <2> QED
    BY <1>0, <1>1, <1>4, <2>2, <2>3, WriterMakes
<1>6. shm.h0.mx \in Ends(wal) /\ Made(wal, db, shm.h0.mx) = committed /\ shm.h0.mx \in 0 .. MaxFrame
  BY <1>4, IndexEnd
<1>7. r.hdr.mx \in Nat /\ r.log \in Seq(Page) /\ Len(r.log) \in Nat /\ r.hdr \in Hdr
  BY Bounds DEF State, Hdr
<1>8. m > shm.h0.mx
  <2>1. r.log # <<>> /\ r.hdr.mx >= shm.h0.mx
    BY <1>0, <1>1, <1>2, <1>4, ConnNow DEF JobOK, WriterOK, AtReset
  <2>2. Len(r.log) # 0
    BY <1>7, <2>1
  <2> QED
    BY <1>0, <1>3, <1>4, <1>7, <2>1, <2>2 DEF Reach
<1>9. PICK h : h = [r.hdr EXCEPT !.mx = r.hdr.mx + Len(r.log), !.init = r.hdr.init \/ r.com]
  OBVIOUS
<1>10. h.mx = m /\ h.gen = r.hdr.gen
  BY <1>0, <1>3, <1>7, <1>9 DEF Hdr, Reach
<1>11. PICK n : n = [r EXCEPT !.hdr = h, !.goal = "none", !.log = <<>>, !.com = FALSE, !.at = "publish"]
  OBVIOUS
<1>12. n.hdr = h /\ n.goal = "none" /\ n.log = <<>> /\ n.at = "publish" /\ n.tid = r.tid /\ n.nck = r.nck
  BY <1>11 DEF State
<1>13. con'[c] = n /\ \A d \in Conn \ {c} : con'[d] = con[d]
  <2>1. con' = [con EXCEPT ![c] = n]
    BY <1>0, <1>9, <1>11 DEF AppendIndex
  <2> QED
    BY <2>1, ConnTypes DEF Inv
<1>14. shm'.h0 = shm.h0 /\ shm'.backfill = shm.backfill
  <2>1. \E x, y : shm' = [shm EXCEPT !.pg = x, !.h1 = y]
    BY Zenon DEF AppendIndex
  <2> QED
    BY <1>2, <2>1 DEF ShmType
<1>15. /\ Again' = Again /\ With(Again)' = With(Again) /\ (Empty' => Empty)
       /\ With(Again) \in LogType /\ With(Again).head = Again /\ With(Again).frame = wal.frame
       /\ \A i \in Index : Versions(i)' = {wal.frame[i]} /\ Versions(i)' \subseteq Versions(i)
  <2>1. Again' = Again
    BY <1>14 DEF Again
  <2>2. With(Again)' = With(Again)
    BY <1>1, <2>1 DEF With
  <2>3. Empty' => Empty
    BY <1>4, <1>14 DEF Empty
  <2> QED
    BY <1>1, <2>1, <2>2, <2>3, LeftTypes, WithIs DEF Versions
<1>16. Heads' \subseteq {wal.head} \cup (IF Empty THEN {Again} ELSE {})
  BY <1>1, <1>15 DEF Heads
<1>17. committed \in Outcomes' /\ r.cache \in Outcomes'
  BY <1>1 DEF Outcomes
<1>18. PICK k \in 0 .. MaxFrame : Floor(k)
  BY DEF Durable
<1>19. k <= shm.h0.mx /\ k \in Nat /\ \A i \in 1 .. k : i \in 1 .. shm.h0.mx
  <2>1. k <= shm.h0.mx /\ k \in Nat
    BY <1>1, <1>18, Bounds DEF Floor, Appends
  <2> QED
    BY <1>4, <2>1
<1>20. ASSUME NEW w \in Left', NEW j \in Ends(w), j >= shm.h0.mx \/ shm.h0.mx \notin Ends(w)
       PROVE  Made(w, db, j) \in Outcomes'
  <2>1. w \in LogType /\ w.head \in {wal.head} \cup (IF Empty THEN {Again} ELSE {})
        /\ \A i \in Index : w.frame[i] = wal.frame[i]
    BY <1>15, <1>16, <1>20, LeftThen
  <2>2. j \in 0 .. MaxFrame /\ j \in Nat
    BY <2>1, EndsIs, Bounds
  <2>3. \A i \in 1 .. MaxFrame : w.frame[i] = wal.frame[i] /\ wal.frame[i] = w.frame[i]
    BY <2>1 DEF Index
  <2>4. j >= shm.h0.mx
    <3>1. CASE Empty
      BY <2>2, <3>1 DEF Empty
    <3>2. CASE ~Empty
      <4>1. w.head = wal.head /\ shm.h0.mx \in 0 .. MaxFrame /\ MaxFrame \in 0 .. MaxFrame
        BY <1>6, <2>1, <3>2, Bounds
      <4>2. shm.h0.mx \in Ends(w)
        BY <1>2, <1>6, <2>1, <2>3, <4>1, SamePrefix
      <4> QED
        BY <1>20, <4>2
    <3> QED
      BY <3>1, <3>2
  <2>5. CASE j = shm.h0.mx
    <3>1. \A i \in 1 .. j : w.frame[i] = wal.frame[i]
      BY <2>2, <2>3, Bounds
    <3> QED
      BY <1>6, <1>17, <2>2, <2>5, <3>1, MadeSame
  <2>6. CASE j > shm.h0.mx
    <3>1. /\ j # 0 /\ j \in Index /\ wal.frame[j].com /\ Chained(w.head.gen, j, w)
      BY <1>4, <1>20, <2>1, <2>6, EndHas
    <3>2. ASSUME j > m PROVE FALSE
      <4>1. m \in Index /\ m + 1 \in Index /\ m + 1 \in 1 .. j /\ m \in 1 .. j /\ m + 1 # 1 /\ (m + 1) - 1 = m
        BY <1>4, <1>8, <2>2, <3>1, <3>2, Bounds DEF Index
      <4>2. wal.frame[m + 1] # NoFrame /\ wal.frame[m + 1].prev = wal.frame[m].tid
        BY <2>1, <3>1, <4>1 DEF Chained
      <4>3. m \in shm.h0.mx + 1 .. m /\ m + 1 \notin shm.h0.mx + 1 .. m
        BY <1>4, <1>8
      <4>4. wal.frame[m + 1] \in Versions(m + 1)
        BY DEF Versions
      <4> QED
        BY <1>2, <1>3, <1>4, <4>1, <4>2, <4>3, <4>4 DEF WriterFits
    <3>3. j \in shm.h0.mx + 1 .. m
      BY <1>4, <2>2, <2>6, <3>2
    <3>4. j = m
      BY <1>1, <1>2, <1>3, <3>1, <3>3 DEF WriterFits
    <3>5. \A i \in 1 .. j : w.frame[i] = wal.frame[i]
      BY <2>2, <2>3, Bounds
    <3> QED
      BY <1>4, <1>5, <1>17, <3>4, <3>5, MadeSame
  <2> QED
    BY <1>4, <2>2, <2>4, <2>5, <2>6
<1>21. Floor(shm.h0.mx)'
  <2>1. OnDisk(shm.h0.mx)'
    <3>1. \A i \in 1 .. shm.h0.mx : i \in Index
      BY <1>6, Bounds DEF Index
    <3> QED
      BY <1>1, <1>14, <3>1 DEF OnDisk
  <2>2. Survives(shm.h0.mx)'
    BY <1>1, <1>14, <1>20 DEF Survives
  <2>3. Covers(shm.h0.mx)'
    <3>1. Settled'
      BY <1>1 DEF Settled
    <3>2. \A p \in Page : dbOld'[p] # {} => \E i \in 1 .. shm.h0.mx : wal'.frame[i].pg = p
      BY <1>1, <1>18, <1>19 DEF Floor, Covers
    <3>3. ASSUME NEW d \in Conn, con'[d].at = "copy" PROVE con'[d].safe <= shm.h0.mx
      <4>1. con'[d] = con[d] /\ con[d].safe <= k /\ con[d].safe \in Nat
        <5>1. con[d].safe \in Nat
          BY ConnNow, StateTypes, Bounds
        <5> QED
          BY <1>12, <1>13, <1>18, <3>3, <5>1 DEF Floor, Covers
      <4> QED
        BY <1>4, <1>19, <4>1
    <3> QED
      BY <1>1, <1>6, <1>14, <3>1, <3>2, <3>3 DEF Covers
  <2>4. Empty' => shm.h0.mx = 0 /\ 0 \in Ends(With(Again)')
    BY <1>15, EndsIs DEF Empty
  <2>5. shm.h0.mx <= shm'.h0.mx
    BY <1>4, <1>14
  <2> QED
    BY <1>1, <1>6, <1>14, <2>1, <2>2, <2>3, <2>4, <2>5 DEF Floor
<1>22. CutOK'
  BY <1>1 DEF CutOK
<1>23. FramesOK'
  <2>1. \A i \in Index : FrameFits(cutOld'.frame[i])
    BY <1>1 DEF NoWal, FrameFits
  <2>2. \A x \in headOld' \cup {wal'.head, cutOld'.head} : x.gen = 0 => x = NoHead
    BY <1>1, <1>2, Nothing DEF FramesOK
  <2> QED
    BY <1>1, <1>2, <1>15, <2>1, <2>2, FramesFewer
<1>24. TailOK'
  BY <1>1, <1>2, <1>4, <1>14, <1>15 DEF TailOK
<1>25. HeadOK'
  BY <1>1, <1>2, <1>4, <1>14 DEF HeadOK, Clean
<1>26. WriterFits(n)'
  <2>1. Reach(n)' = Reach(con[c]) /\ n.tid <= ntxn'
    <3>1. Len(<<>>) = 0
      OBVIOUS
    <3> QED
      BY <1>0, <1>1, <1>2, <1>3, <1>4, <1>10, <1>12, <3>1 DEF Reach, WriterFits
  <2>2. \A i \in Index : \A f \in Versions(i)' :
          f = NoFrame \/ n.tid \notin {f.tid, f.prev} \/ i \in shm'.h0.mx + 1 .. Reach(n)'
    BY <1>0, <1>2, <1>4, <1>12, <1>14, <1>15, <2>1 DEF WriterFits
  <2>3. Settled' /\ \A i \in Index : walOld'[i] = {}
    BY <1>1 DEF Settled
  <2> QED
    BY <1>12, <2>1, <2>2, <2>3 DEF WriterFits
<1>27. SaltsKept(n)' /\ ClosingOK(n)'
  BY <1>0, <1>1, <1>2, <1>12, <1>14 DEF SaltsKept, ClosingOK
<1>28. ASSUME NEW d \in Conn \ {c} PROVE WriterFits(con[d])' /\ SaltsKept(con[d])' /\ ClosingOK(con[d])'
  BY <1>1, <1>4, <1>13, <1>14, OthersWait
<1> QED
  BY <1>6, <1>13, <1>14, <1>21, <1>22, <1>23, <1>24, <1>25, <1>26, <1>27, <1>28 DEF Durable

(* A commit is published.                                                  *)
LEMMA PublishKeeps ==
  ASSUME Inv, Inv', Durable, NEW c \in Conn, Publish(c)
  PROVE  Durable'
<1>0. PICK r \in State : r = con[c]
  BY DEF Inv, Types
<1>1. /\ con[c].at = "publish" /\ committed' = r.cache /\ UNCHANGED <<files, ntxn, nfault>>
      /\ doubt' = IF SyncFull THEN {} ELSE (doubt \cup {committed}) \ {committed'}
  BY <1>0 DEF Publish
<1>2. /\ shm \in ShmType /\ wal \in LogType /\ WriterFits(con[c]) /\ SaltsKept(con[c]) /\ JobOK(con[c])
      /\ FramesOK /\ TailOK /\ HeadOK /\ CutOK /\ WrittenOK(con[c], shm, wal) /\ Locked(con[c])
      /\ InPlace(con[c])
  BY ConnNow DEF Durable
<1>3. PICK M : M = r.hdr.mx
  OBVIOUS
<1>4. r.log = <<>> /\ r.goal = "none" /\ r.wl /\ r.tid # 0
  BY <1>0, <1>1, <1>2 DEF JobOK, InPlace, Locked, AtWrite
<1>5. M \in 0 .. MaxFrame /\ M \in Nat /\ M = Reach(con[c]) /\ shm.h0.mx \in Nat
  <2>1. M \in 0 .. MaxFrame /\ shm.h0.mx \in Nat /\ Len(<<>>) = 0
    BY <1>2, <1>3, StateTypes, ShmTypes, Bounds
  <2> QED
    BY <1>0, <1>3, <1>4, <2>1, Bounds DEF Reach
<1>6. shm' = WithHdr(shm, r.hdr)
  BY <1>0 DEF Publish, WithHdr
<1>7. /\ shm'.h0 = r.hdr /\ shm'.backfill = shm.backfill /\ shm'.pg = shm.pg /\ shm' \in ShmType
      /\ shm'.h0.mx = M
  BY <1>2, <1>3, <1>6, HdrSet, StateTypes
<1>8. /\ IndexOK(shm', wal, db, r.cache) /\ r.hdr.init /\ shm.h0.init /\ shm.h0.mx < M
      /\ shm.backfill <= shm.h0.mx
  BY <1>0, <1>1, <1>3, <1>7, PublishedIndex
<1>9. Made(wal, db, M) = r.cache /\ Chained(r.hdr.gen, M, wal) /\ wal.frame[M].com
  <2>1. HdrOf(r.hdr, shm', wal) /\ r.cache = Overlay(M, shm', wal, db)
    BY <1>3, <1>7, <1>8 DEF IndexOK
  <2> QED
    BY <1>3, <1>5, <1>8, <2>1, MadeOverlay DEF HdrOf
<1>10. /\ M \in Index /\ M > 0 /\ wal.head # NoHead /\ wal.head.gen = r.hdr.gen /\ M \in Ends(wal)
       /\ wal.frame[M].tid = r.tid
  <2>1. M \in Index /\ M > 0 /\ M \in shm.h0.mx + 1 .. M /\ M # 0
    BY <1>5, <1>8, Bounds DEF Index
  <2>2. wal.head # NoHead /\ wal.head.gen = r.hdr.gen
    BY <1>9, <2>1 DEF Chained
  <2>3. wal.frame[M].tid = r.tid
    BY <1>0, <1>1, <1>2, <1>3, <2>1 DEF WrittenOK
  <2> QED
    BY <1>2, <1>9, <2>1, <2>2, <2>3, EndsIs
<1>11. r.hdr.gen # 0
  <2>1. M \in 1 .. M /\ wal.frame[M] \in Versions(M)
    BY <1>5, <1>10 DEF Versions
  <2> QED
    BY <1>2, <1>9, <1>10, <2>1 DEF Chained, FramesOK, FrameFits
<1>12. ASSUME NEW w, NEW j \in Nat, j > M, j \in Index, Chained(w.head.gen, j, w),
              \A i \in Index : w.frame[i] = wal.frame[i]
       PROVE  FALSE
  <2>1. M + 1 \in Index /\ M + 1 \in 1 .. j /\ M + 1 # 1 /\ (M + 1) - 1 = M
    BY <1>5, <1>10, <1>12, Bounds DEF Index
  <2>2. wal.frame[M + 1] # NoFrame /\ wal.frame[M + 1].prev = r.tid
    BY <1>10, <1>12, <2>1 DEF Chained
  <2>3. M + 1 \notin shm.h0.mx + 1 .. M /\ wal.frame[M + 1] \in Versions(M + 1)
    BY <1>5 DEF Versions
  <2> QED
    BY <1>0, <1>2, <1>4, <1>5, <2>1, <2>2, <2>3 DEF WriterFits
<1>13. PICK n : n = [r EXCEPT !.at = "read", !.wl = FALSE, !.tid = 0]
  OBVIOUS
<1>14. n.at = "read" /\ n.tid = 0 /\ n.goal = "none" /\ n.nck = r.nck
  BY <1>4, <1>13 DEF State
<1>15. con'[c] = n /\ \A d \in Conn \ {c} : con'[d] = con[d]
  <2>1. con' = [con EXCEPT ![c] = n]
    BY <1>0, <1>13 DEF Publish
  <2> QED
    BY <2>1, ConnTypes DEF Inv
<1>16. /\ db' = db /\ dbOld' = dbOld /\ wal' = wal /\ walOld' = walOld /\ headOld' = headOld
       /\ cutOld' = cutOld /\ ntxn' = ntxn
  BY <1>1 DEF files
<1>17. ~Empty' /\ \A i \in Index : Versions(i)' = Versions(i)
  BY <1>3, <1>7, <1>10, <1>16 DEF Empty, Versions
<1>18. Heads' \subseteq headOld \cup {wal.head} /\ Heads' \subseteq Heads
  BY <1>16, <1>17 DEF Heads
<1>19. PICK k \in 0 .. MaxFrame : Floor(k)
  BY DEF Durable
<1>20. k <= shm.h0.mx /\ k \in Nat /\ k <= M /\ \A i \in 1 .. k : i \in 1 .. M
  <2>1. k <= shm.h0.mx /\ k \in Nat
    BY <1>1, <1>19, Bounds DEF Floor, Appends
  <2> QED
    BY <1>5, <1>8, <2>1
<1>21. ASSUME NEW d \in Conn PROVE ~Appends(con[d])'
  <2>1. CASE d = c
    BY <1>14, <1>15, <2>1 DEF Appends
  <2>2. CASE d # c
    BY <1>0, <1>1, <1>4, <1>7, <1>8, <1>11, <1>15, <2>2, OthersWait
  <2> QED
    BY <2>1, <2>2
<1>22. \E x \in 0 .. MaxFrame : Floor(x)'
  <2>1. CASE SyncFull
    <3>1. Settled /\ \A i \in Index : walOld[i] = {}
      BY <1>0, <1>1, <1>2, <2>1 DEF WriterFits
    <3>2. ASSUME NEW w \in Left', NEW j \in Ends(w), j >= M \/ M \notin Ends(w)
          PROVE  Made(w, db, j) = r.cache
      <4>1. w \in LogType /\ w.head = wal.head /\ \A i \in Index : w.frame[i] = wal.frame[i]
        BY <1>17, <1>18, <3>1, <3>2, LeftThen DEF Versions, Settled
      <4>2. \A i \in 1 .. M : w.frame[i] = wal.frame[i]
        BY <1>5, <4>1, Bounds DEF Index
      <4>3. M \in Ends(w) /\ Made(w, db, M) = Made(wal, db, M)
        <5>1. M \in 0 .. M
          BY <1>5
        <5> QED
          BY <1>2, <1>5, <1>10, <4>1, <4>2, <5>1, SamePrefix
      <4>4. j >= M /\ j \in Nat
        BY <3>2, <4>1, <4>3, EndsIs, Bounds
      <4>5. j = M
        <5>1. SUFFICES ASSUME j > M PROVE FALSE
          BY <1>5, <4>4
        <5>2. j # 0
          BY <1>5, <5>1
        <5>3. j \in Index /\ Chained(w.head.gen, j, w)
          BY <3>2, <4>1, <5>2, EndHas
        <5> QED
          BY <1>12, <4>1, <4>4, <5>1, <5>3
      <4> QED
        BY <1>9, <4>3, <4>5
    <3>3. Survives(M)'
      BY <1>1, <1>16, <3>2 DEF Survives, Outcomes
    <3>4. OnDisk(M)'
      <4>1. \A i \in 1 .. M : i \in Index
        BY <1>5, Bounds DEF Index
      <4> QED
        BY <1>16, <3>1, <4>1 DEF OnDisk
    <3>5. Covers(M)'
      <4>1. \A p \in Page : dbOld'[p] # {} => \E i \in 1 .. M : wal'.frame[i].pg = p
        BY <1>16, <1>19, <1>20 DEF Floor, Covers
      <4>2. ASSUME NEW d \in Conn, con'[d].at = "copy" PROVE con'[d].safe <= M
        <5>1. con'[d] = con[d] /\ con[d].safe <= k /\ con[d].safe \in Nat
          <6>1. con[d].safe \in Nat
            BY ConnNow, StateTypes, Bounds
          <6> QED
            BY <1>14, <1>15, <1>19, <4>2, <6>1 DEF Floor, Covers
        <5> QED
          BY <1>5, <1>20, <5>1
      <4> QED
        BY <1>10, <1>16, <3>1, <4>1, <4>2 DEF Covers, Settled
    <3>6. M <= shm'.h0.mx
      BY <1>3, <1>5, <1>7
    <3>7. Floor(M)'
      BY <1>10, <1>16, <1>17, <1>21, <3>3, <3>4, <3>5, <3>6 DEF Floor
    <3> QED
      BY <1>5, <3>7
  <2>2. CASE ~SyncFull
    <3>1. Outcomes \subseteq Outcomes'
      BY <1>1, <2>2 DEF Outcomes
    <3>2. Left' \subseteq Left
      BY <1>17, <1>18, LeftIs, LeftThen
    <3>3. OnDisk(k)' /\ Survives(k)' /\ (k \in Ends(wal) \/ Ends(wal) = {0})'
      BY <1>16, <1>19, <3>1, <3>2 DEF Floor, OnDisk, Survives
    <3>4. Covers(k)'
      BY <1>14, <1>15, <1>16, <1>19 DEF Floor, Covers, Settled
    <3>5. k <= shm'.h0.mx
      BY <1>3, <1>7, <1>20
    <3>6. Floor(k)'
      BY <1>17, <1>21, <3>3, <3>4, <3>5 DEF Floor
    <3> QED
      BY <3>6
  <2> QED
    BY <2>1, <2>2, WalAssumption
<1>23. CutOK'
  <2>1. CASE SyncFull
    BY <1>0, <1>1, <1>2, <1>16, <2>1 DEF WriterFits, Settled, CutOK
  <2>2. CASE ~SyncFull
    <3>1. Outcomes \subseteq Outcomes'
      BY <1>1, <2>2 DEF Outcomes
    <3> QED
      BY <1>2, <1>16, <3>1 DEF CutOK
  <2> QED
    BY <2>1, <2>2
<1>24. FramesOK'
  <2>1. ntxn <= ntxn'
    BY <1>16, Bounds DEF Inv, Types
  <2> QED
    BY <1>1, <1>2, <2>1, FramesKept
<1>25. TailOK'
  <2>1. SUFFICES ASSUME NEW i \in Chain(With(Again)'), i > M + 1 PROVE FALSE
    BY <1>3, <1>7 DEF TailOK
  <2>2. Again' \in HeadType
    BY <1>7, ShmTypes DEF Again, HeadType
  <2>3. PICK w : w = With(Again)'
    OBVIOUS
  <2>4. w \in LogType /\ w.frame = wal.frame
    BY <1>2, <1>16, <2>2, <2>3 DEF With, LogType
  <2>5. i \in Index /\ i \in Nat
    BY <2>1, Bounds DEF Chain, Index
  <2>6. Chained(w.head.gen, i, w)
    BY <2>1, <2>3, <2>4, <2>5, ChainIs
  <2>7. i > M
    BY <1>5, <2>1, <2>5
  <2> QED
    BY <1>12, <2>4, <2>5, <2>6, <2>7
<1>26. HeadOK'
  <2>1. ~(shm'.backfill >= shm'.h0.mx)
    <3>1. shm.backfill \in Nat
      BY <1>2, ShmTypes, Bounds
    <3> QED
      BY <1>3, <1>5, <1>7, <1>8, <3>1
  <2> QED
    BY <1>10, <1>16, <2>1 DEF HeadOK
<1>27. WriterFits(n)' /\ SaltsKept(n)' /\ ClosingOK(n)'
  <2>1. ntxn' \in Nat
    BY Bounds DEF Inv, Types
  <2> QED
    BY <1>7, <1>8, <1>11, <1>14, <2>1 DEF WriterFits, SaltsKept, ClosingOK
<1>28. ASSUME NEW d \in Conn \ {c} PROVE WriterFits(con[d])' /\ SaltsKept(con[d])' /\ ClosingOK(con[d])'
  BY <1>0, <1>1, <1>4, <1>7, <1>8, <1>11, <1>15, OthersWait
<1> QED
  BY <1>15, <1>22, <1>23, <1>24, <1>25, <1>26, <1>27, <1>28 DEF Durable

-----------------------------------------------------------------------------
(* A log without frames of its salts, or without a header, has no commit.  *)
LEMMA NewSalts ==
  ASSUME Inv, FramesOK, NEW h \in HeadType, h.gen = 0 \/ NoneOf(h.gen),
         NEW w \in LogType, w.head = h, \A i \in Index : w.frame[i] \in Versions(i)
  PROVE  Ends(w) = {0} /\ Chain(w) = {}
<1>1. \A i \in Index : w.frame[i] = NoFrame \/ w.frame[i].gen # w.head.gen
  BY DEF NoneOf, FramesOK, FrameFits
<1>2. ASSUME NEW i \in Chain(w) PROVE FALSE
  <2>1. i \in Index /\ 1 \in 1 .. i /\ 1 \in Index
    BY Bounds DEF Chain, Index
  <2>2. Chained(w.head.gen, i, w)
    BY <1>2, <2>1, ChainIs
  <2> QED
    BY <1>1, <2>1, <2>2 DEF Chained
<1> QED
  BY <1>1, <1>2, NoEnds

(* Recovery publishes what it has made of the log.                         *)
LEMMA Recover2Keeps ==
  ASSUME Inv, Inv', Durable, NEW c \in Conn, Recover2(c)
  PROVE  Durable'
<1>0. PICK r \in State : r = con[c]
  BY DEF Inv, Types
<1>1. /\ con[c].at = "recover2" /\ committed' = Recovered(wal) /\ UNCHANGED <<files, ntxn, nfault>>
      /\ doubt' = (doubt \cup {committed}) \ {committed'}
  BY DEF Recover2
<1>2. /\ shm \in ShmType /\ wal \in LogType /\ db \in Image /\ SaltsKept(con[c])
      /\ FramesOK /\ TailOK /\ HeadOK /\ CutOK
      /\ Alive /\ IndexOK(shm, wal, db, committed)
  BY <1>1, ConnNow, IndexNow DEF Durable, Alive
<1>3. /\ r.wl /\ r.tid = 0 /\ r.hdr = shm.h1 /\ r.hdr = RecoveredHdr(wal)
      /\ \A d \in Conn \ {c} : con[d].at \notin AtReset
  BY <1>0, <1>1, DuringRecovery DEF InRecovery
<1>4. PICK L : L = LastCommit(wal)
  OBVIOUS
<1>5. /\ L \in 0 .. MaxFrame /\ L \in Nat /\ L \in Ends(wal) /\ \A j \in Ends(wal) : j <= L
      /\ r.hdr \in Hdr /\ r.hdr.init /\ r.hdr.mx = L /\ r.hdr.gen = wal.head.gen
  BY <1>2, <1>3, <1>4, LastEnd, LastCommitIs, RecoveredHdrIs, Bounds
<1>6. shm' = WithHdr(shm, r.hdr)
  BY <1>0 DEF Recover2, WithHdr
<1>7. /\ shm'.h0 = r.hdr /\ shm'.h1 = shm.h1 /\ shm'.backfill = shm.backfill /\ shm'.pg = shm.pg
      /\ shm' \in ShmType /\ shm'.h0.mx = L
  BY <1>2, <1>5, <1>6, HdrSet
<1>8. shm.h0.mx <= L /\ shm.backfill <= shm.h0.mx /\ shm.h0.mx \in Nat /\ shm.backfill \in Nat
  <2>1. shm.h0.mx <= L /\ shm.backfill <= shm.h0.mx
    BY <1>0, <1>1, <1>5, <1>7, RecoveredImage
  <2> QED
    BY <1>2, <2>1, ShmTypes, Bounds
<1>9. PICK n : n = [r EXCEPT !.at = "recover3"]
  BY Zenon
<1>10. n.at = "recover3" /\ n.tid = 0 /\ n.nck = r.nck
  BY <1>3, <1>9 DEF State
<1>11. con'[c] = n /\ \A d \in Conn \ {c} : con'[d] = con[d]
  <2>1. con' = [con EXCEPT ![c] = n]
    BY <1>0, <1>9 DEF Recover2
  <2> QED
    BY <2>1, ConnTypes DEF Inv
<1>12. /\ db' = db /\ dbOld' = dbOld /\ wal' = wal /\ walOld' = walOld /\ headOld' = headOld
       /\ cutOld' = cutOld /\ ntxn' = ntxn
  BY <1>1 DEF files
<1>13. PICK a \in HeadType : a = Again' /\ a.gen = wal.head.gen /\ a # NoHead
  <2>1. Again' = [gen |-> wal.head.gen, nck |-> TRUE]
    BY <1>5, <1>7, Zenon DEF Again
  <2>2. Again' \in HeadType /\ Again'.gen = wal.head.gen /\ Again' # NoHead
    BY <1>2, <2>1 DEF LogType, HeadType, NoHead
  <2> QED
    BY <2>2
<1>14. /\ With(Again)' = With(a) /\ With(a) \in LogType /\ With(a).head = a
       /\ With(a).frame = wal.frame /\ \A i \in Index : wal.frame[i] \in Versions(i)
  BY <1>12, <1>13, WithIs DEF With, Versions
<1>15. Heads' \subseteq Heads \cup {a} /\ \A i \in Index : Versions(i)' = Versions(i)
  BY <1>12, <1>13 DEF Heads, Versions
<1>16. wal.head # NoHead => wal.head.gen # 0
  BY <1>2 DEF FramesOK
<1>17. Outcomes \subseteq Outcomes'
  BY <1>1 DEF Outcomes
<1>18. PICK k \in 0 .. MaxFrame : Floor(k)
  BY DEF Durable
<1>19. ASSUME NEW w \in Left', w.head = a, wal.head # NoHead
       PROVE  \E v \in Left : \A j \in Ends(w) : j \in Ends(v) /\ Made(v, db, j) = Made(w, db, j)
                 /\ (k \in Ends(v) => k \in Ends(w))
  <2>1. w \in LogType /\ \A i \in Index : w.frame[i] \in Versions(i)
    BY <1>15, <1>19, LeftThen
  <2>2. PICK v : v = [head |-> wal.head, frame |-> w.frame]
    BY Zenon
  <2>3. v \in LogType /\ v.head = wal.head /\ v.frame = w.frame
    BY <1>2, <2>1, <2>2 DEF LogType
  <2>4. v \in Left
    BY <2>1, <2>3, LeftIs DEF Heads
  <2>5. Ends(w) \subseteq 0 .. MaxFrame /\ MaxFrame \in 0 .. MaxFrame
    BY <2>1, EndsIs, Bounds
  <2>6. \A j \in Ends(w) : j \in Ends(v) /\ Made(v, db, j) = Made(w, db, j)
    BY <1>13, <1>19, <2>1, <2>3, <2>5, SamePrefix
  <2>7. k \in Ends(v) => k \in Ends(w)
    BY <1>13, <1>19, <2>1, <2>3, <2>5, SamePrefix
  <2> QED
    BY <2>4, <2>6, <2>7
<1>20. L = 0 => Made(wal, db, 0) = committed' /\ db = committed'
  <2>1. Recovered(wal) = Made(wal, db, L)
    BY <1>4 DEF Recovered, Made
  <2> QED
    BY <1>1, <1>2, <2>1, MadeNone
<1>21. ASSUME NEW w \in Left', NEW j \in Ends(w), j >= k \/ k \notin Ends(w)
       PROVE  Made(w, db, j) \in Outcomes'
  <2>1. w \in LogType /\ w.head \in Heads \cup {a} /\ \A i \in Index : w.frame[i] \in Versions(i)
    BY <1>15, <1>21, LeftThen
  <2>2. CASE w.head \in Heads
    <3>1. w \in Left
      BY <2>1, <2>2, LeftIs
    <3> QED
      BY <1>17, <1>18, <1>21, <3>1 DEF Floor, Survives
  <2>3. CASE w.head = a /\ wal.head # NoHead
    <3>1. PICK v \in Left : j \in Ends(v) /\ Made(v, db, j) = Made(w, db, j)
                            /\ (k \in Ends(v) => k \in Ends(w))
      BY <1>19, <1>21, <2>3
    <3> QED
      BY <1>17, <1>18, <1>21, <3>1 DEF Floor, Survives
  <2>4. CASE w.head = a /\ wal.head = NoHead
    <3>1. Ends(w) = {0}
      BY <1>2, <1>13, <2>1, <2>4, NewSalts, Nothing
    <3>2. L = 0
      BY <1>2, <1>4, <2>4, NoEnds
    <3> QED
      BY <1>2, <1>20, <1>21, <3>1, <3>2, MadeNone DEF Outcomes
  <2> QED
    BY <2>1, <2>2, <2>3, <2>4
<1>22. L = 0 => Ends(wal) = {0} /\ Ends(With(a)) = {0}
  <2>1. SUFFICES ASSUME L = 0 PROVE Ends(wal) = {0} /\ Ends(With(a)) = {0}
    OBVIOUS
  <2>2. Ends(wal) = {0}
    <3>1. \A j \in Ends(wal) : j \in 0 .. MaxFrame /\ j <= 0
      BY <1>2, <1>5, <2>1, EndsIs
    <3>2. \A j \in 0 .. MaxFrame : j <= 0 => j = 0
      BY Bounds
    <3> QED
      BY <1>5, <2>1, <3>1, <3>2, Zenon
  <2>3. CASE wal.head = NoHead
    <3>1. Ends(With(a)) = {0}
      BY <1>2, <1>13, <1>14, <2>3, NewSalts, Nothing
    <3> QED
      BY <2>2, <3>1
  <2>4. CASE wal.head # NoHead
    <3>1. Ends(With(a)) \subseteq 0 .. MaxFrame /\ MaxFrame \in 0 .. MaxFrame
      BY <1>14, EndsIs, Bounds
    <3>2. \A j \in Ends(With(a)) : j \in Ends(wal)
      BY <1>2, <1>13, <1>14, <2>4, <3>1, SamePrefix
    <3> QED
      BY <1>14, <2>2, <3>2, EndsIs
  <2> QED
    BY <2>3, <2>4
<1>23. ASSUME NEW d \in Conn \ {c}
       PROVE  WriterFits(con[d])' /\ SaltsKept(con[d])' /\ ClosingOK(con[d])' /\ ~Appends(con[d])'
  <2>1. con[d].nck => shm'.h0.init /\ shm'.h0.gen # 0
    <3>1. SUFFICES ASSUME con[d].nck, wal.head = NoHead PROVE FALSE
      BY <1>5, <1>7, <1>16
    <3>2. con[d].at \notin {"recover2", "reset2"}
      <4>1. con[d].at # "recover2"
        BY <1>0, <1>1 DEF Inv, PairOK, Apart, InRecovery
      <4> QED
        BY <1>3, <4>1 DEF AtReset
    <3>3. shm.h0.init /\ shm.h0.gen # 0
      BY <3>1, <3>2 DEF Durable, SaltsKept
    <3>4. \A e \in Conn : con[e].at # "reset2"
      BY <1>1, <1>3 DEF AtReset
    <3> QED
      BY <1>2, <1>3, <1>5, <3>1, <3>3, <3>4, Nothing DEF HeadOK
  <2> QED
    BY <1>0, <1>1, <1>3, <1>11, <2>1, OthersWait
<1>24. Floor(k)'
  <2>1. OnDisk(k)' /\ Survives(k)' /\ (k \in Ends(wal) \/ Ends(wal) = {0})'
    BY <1>12, <1>18, <1>21 DEF Floor, OnDisk, Survives
  <2>2. Covers(k)'
    BY <1>10, <1>11, <1>12, <1>18 DEF Floor, Covers, Settled
  <2>3. Empty' => Ends(With(Again)') = {0}
    BY <1>7, <1>14, <1>22 DEF Empty
  <2>4. L > 0 => k <= L
    BY <1>5, <1>18 DEF Floor
  <2>5. \A d \in Conn : ~Appends(con[d])'
    BY <1>10, <1>11, <1>23 DEF Appends
  <2> QED
    BY <1>7, <2>1, <2>2, <2>3, <2>4, <2>5 DEF Floor
<1>25. CutOK'
  BY <1>2, <1>12, <1>17 DEF CutOK
<1>26. FramesOK'
  <2>1. ntxn <= ntxn'
    BY <1>12, Bounds DEF Inv, Types
  <2> QED
    BY <1>1, <1>2, <2>1, FramesKept
<1>27. TailOK'
  <2>1. SUFFICES ASSUME NEW i \in Chain(With(a)), i > L + 1, wal.frame[i - 1].com PROVE FALSE
    BY <1>7, <1>12, <1>14 DEF TailOK
  <2>2. wal.head # NoHead
    BY <1>2, <1>13, <1>14, <2>1, NewSalts, Nothing
  <2>3. i \in Chain(wal) /\ i \in Index /\ i \in Nat
    BY <1>13, <1>14, <2>1, <2>2, Bounds DEF Chain, Index
  <2>4. Chained(wal.head.gen, i, wal)
    BY <1>2, <2>3, ChainIs
  <2>5. i - 1 \in Index /\ i - 1 \in 0 .. i /\ i \in 0 .. MaxFrame /\ i - 1 > L /\ i - 1 # 0
    BY <1>5, <2>1, <2>3, Bounds DEF Index
  <2>6. Chained(wal.head.gen, i - 1, wal)
    BY <2>4, <2>5, ChainedLess
  <2>7. i - 1 \in Ends(wal)
    BY <1>2, <2>1, <2>5, <2>6, EndsIs
  <2> QED
    BY <1>5, <2>3, <2>5, <2>7
<1>28. HeadOK'
  <2>1. shm'.h0 = shm'.h1
    BY <1>3, <1>7, Zenon
  <2>2. shm.backfill >= L => Clean
    <3>1. CASE L = 0
      <4>1. Ends(wal) = {0} /\ (k = 0 => 1 .. k = {})
        BY <1>22, <3>1, Bounds
      <4> QED
        BY <1>18, <4>1 DEF Clean, Floor, Covers
    <3>2. CASE L # 0
      <4>1. shm.backfill >= L => shm.backfill >= shm.h0.mx /\ shm.backfill # 0
        BY <1>5, <1>8, <3>2
      <4> QED
        BY <1>2, <4>1 DEF HeadOK, IndexOK
    <3> QED
      BY <3>1, <3>2
  <2> QED
    BY <1>7, <1>12, <2>1, <2>2 DEF HeadOK, Clean
<1>29. WriterFits(n)' /\ SaltsKept(n)' /\ ClosingOK(n)'
  <2>1. ntxn' \in Nat
    BY Bounds DEF Inv, Types
  <2>2. r.nck => wal.head.nck
    BY <1>0, <1>1, <1>2 DEF SaltsKept
  <2>3. r.nck => wal.head # NoHead
    BY <2>2 DEF NoHead
  <2> QED
    BY <1>5, <1>7, <1>10, <1>16, <2>1, <2>3 DEF WriterFits, SaltsKept, ClosingOK, AtCkpt
<1> QED
  BY <1>11, <1>18, <1>23, <1>24, <1>25, <1>26, <1>27, <1>28, <1>29 DEF Durable

(* A log begins again: the database file has all of the committed image.   *)
LEMMA Reset2Keeps ==
  ASSUME Inv, Inv', Durable, NEW c \in Conn, Reset2(c)
  PROVE  Durable'
<1>0. PICK r \in State : r = con[c]
  BY DEF Inv, Types
<1>1. con[c].at = "reset2" /\ UNCHANGED <<files, history>>
  BY DEF Reset2
<1>2. /\ shm \in ShmType /\ wal \in LogType /\ db \in Image /\ SaltsKept(con[c]) /\ WriterFits(con[c])
      /\ FramesOK /\ TailOK /\ HeadOK /\ CutOK /\ ResetOK(con[c], shm, committed) /\ Alive
  BY <1>1, ConnNow DEF Durable, Alive
<1>3. /\ r.wl /\ r.goal \in {"write", "ckpt"} /\ r.log = <<>> /\ shm.h0.init /\ r.hdr.init
      /\ r.hdr.mx = 0 /\ shm.h1 = r.hdr /\ r.hdr \in Hdr
  BY <1>0, <1>1, DuringReset, StateTypes DEF AtReset
<1>4. shm.backfill = shm.h0.mx /\ r.hdr.gen # 0
  BY <1>0, <1>1, <1>2 DEF ResetOK
<1>5. shm.backfill \in Nat /\ shm.backfill >= shm.h0.mx
  BY <1>2, <1>4, ShmTypes, Bounds
<1>6. db = committed /\ Clean
  BY <1>2, <1>3, <1>5, FileCommitted DEF HeadOK
<1>7. shm' = WithHdr(shm, r.hdr)
  BY <1>0 DEF Reset2, WithHdr
<1>8. /\ shm'.h0 = r.hdr /\ shm'.h1 = shm.h1 /\ shm'.backfill = shm.backfill /\ shm' \in ShmType
      /\ shm'.h0.mx = 0
  BY <1>2, <1>3, <1>7, HdrSet
<1>9. PICK n : n = [r EXCEPT !.at = "reset3"]
  BY Zenon
<1>10. n.at = "reset3" /\ n.tid = r.tid /\ n.nck = r.nck /\ n.goal = r.goal /\ n.hdr = r.hdr /\ n.log = r.log
  BY <1>9 DEF State
<1>11. con'[c] = n /\ \A d \in Conn \ {c} : con'[d] = con[d]
  <2>1. con' = [con EXCEPT ![c] = n]
    BY <1>0, <1>9 DEF Reset2
  <2> QED
    BY <2>1, ConnTypes DEF Inv
<1>12. /\ db' = db /\ dbOld' = dbOld /\ wal' = wal /\ walOld' = walOld /\ headOld' = headOld
       /\ cutOld' = cutOld /\ ntxn' = ntxn /\ committed' = committed /\ doubt' = doubt
  BY <1>1 DEF files, history
<1>13. PICK a \in HeadType : a = Again' /\ a.gen = r.hdr.gen /\ NoneOf(a.gen)
  <2>1. Again' = [gen |-> r.hdr.gen, nck |-> TRUE]
    BY <1>8 DEF Again
  <2>2. Again' \in HeadType /\ Again'.gen = r.hdr.gen
    BY <1>3, <2>1, StateTypes DEF HeadType
  <2>3. NoneOf(r.hdr.gen)
    BY <1>0, <1>1, <1>2 DEF WriterFits
  <2> QED
    BY <2>2, <2>3
<1>14. /\ With(Again)' = With(a) /\ With(a) \in LogType /\ With(a).head = a
       /\ With(a).frame = wal.frame /\ \A i \in Index : wal.frame[i] \in Versions(i)
  BY <1>12, <1>13, WithIs DEF With, Versions
<1>15. Heads' \subseteq Heads \cup {a} /\ \A i \in Index : Versions(i)' = Versions(i)
  BY <1>12, <1>13 DEF Heads, Versions
<1>16. Outcomes' = Outcomes /\ committed \in Outcomes
  BY <1>12 DEF Outcomes
<1>17. Ends(With(a)) = {0} /\ Chain(With(a)) = {}
  BY <1>2, <1>13, <1>14, NewSalts
<1>18. PICK k \in 0 .. MaxFrame : Floor(k)
  BY DEF Durable
<1>19. ASSUME NEW w \in Left', NEW j \in Ends(w), j >= k \/ k \notin Ends(w)
       PROVE  Made(w, db, j) \in Outcomes
  <2>1. w \in LogType /\ w.head \in Heads \cup {a} /\ \A i \in Index : w.frame[i] \in Versions(i)
    BY <1>15, <1>19, LeftThen
  <2>2. CASE w.head \in Heads
    <3>1. w \in Left
      BY <2>1, <2>2, LeftIs
    <3> QED
      BY <1>18, <1>19, <3>1 DEF Floor, Survives
  <2>3. CASE w.head = a
    <3>1. Ends(w) = {0}
      BY <1>2, <1>13, <2>1, <2>3, NewSalts
    <3> QED
      BY <1>2, <1>6, <1>16, <1>19, <3>1, MadeNone
  <2> QED
    BY <2>1, <2>2, <2>3
<1>20. ASSUME NEW d \in Conn \ {c}
       PROVE  WriterFits(con[d])' /\ SaltsKept(con[d])' /\ ClosingOK(con[d])' /\ ~Appends(con[d])'
  BY <1>0, <1>1, <1>3, <1>4, <1>8, <1>11, OthersWait
<1>21. Floor(k)'
  <2>1. OnDisk(k)' /\ Survives(k)' /\ (k \in Ends(wal) \/ Ends(wal) = {0})'
    BY <1>12, <1>16, <1>18, <1>19 DEF Floor, OnDisk, Survives
  <2>2. Covers(k)'
    BY <1>10, <1>11, <1>12, <1>18 DEF Floor, Covers, Settled
  <2>3. Ends(With(Again)') = {0}
    BY <1>14, <1>17
  <2>4. \A d \in Conn : ~Appends(con[d])'
    BY <1>10, <1>11, <1>20 DEF Appends
  <2> QED
    BY <1>8, <2>1, <2>2, <2>3, <2>4 DEF Floor
<1>22. CutOK'
  BY <1>2, <1>12, <1>16 DEF CutOK
<1>23. FramesOK'
  <2>1. ntxn <= ntxn'
    BY <1>12, Bounds DEF Inv, Types
  <2> QED
    BY <1>1, <1>2, <2>1, FramesKept
<1>24. TailOK'
  BY <1>14, <1>17 DEF TailOK
<1>25. HeadOK'
  BY <1>3, <1>6, <1>8, <1>12 DEF HeadOK, Clean
<1>26. WriterFits(n)'
  <2>1. Reach(con[c]) = 0 /\ Reach(n)' = 0 /\ n.tid <= ntxn'
    <3>1. Len(<<>>) = 0
      OBVIOUS
    <3> QED
      BY <1>0, <1>2, <1>3, <1>10, <1>12, <3>1 DEF Reach, WriterFits
  <2>2. shm.h0.mx + 1 .. 0 = {}
    BY <1>4, <1>5
  <2>3. n.tid # 0 => \A i \in Index : \A f \in Versions(i)' : f = NoFrame \/ n.tid \notin {f.tid, f.prev}
    BY <1>0, <1>2, <1>10, <1>15, <2>1, <2>2 DEF WriterFits
  <2> QED
    BY <1>10, <2>1, <2>3 DEF WriterFits
<1>27. SaltsKept(n)' /\ ClosingOK(n)'
  BY <1>3, <1>4, <1>8, <1>10 DEF SaltsKept, ClosingOK
<1> QED
  BY <1>11, <1>18, <1>20, <1>21, <1>22, <1>23, <1>24, <1>25, <1>26, <1>27 DEF Durable

-----------------------------------------------------------------------------
(* What is said of a connection while another one makes more of the log    *)
(* durable, or copies of it.                                               *)
LEMMA BesideFits ==
  ASSUME Inv, Durable, NEW c \in Conn, con[c].at # "closed",
         NEW d \in Conn \ {c}, con'[d] = con[d], wal' = wal, shm'.h0 = shm.h0, ntxn' = ntxn,
         \A i \in Index : walOld'[i] \subseteq walOld[i], Settled => Settled'
  PROVE  WriterFits(con[d])' /\ SaltsKept(con[d])' /\ ClosingOK(con[d])'
<1>1. WriterFits(con[d]) /\ SaltsKept(con[d]) /\ con[d].goal # "close"
  BY NobodyCloses DEF Durable
<1>2. \A i \in Index : Versions(i)' \subseteq Versions(i)
  BY DEF Versions
<1>3. Reach(con[d])' = Reach(con[d])
  BY DEF Reach
<1>4. WriterFits(con[d])'
  <2>1. con'[d].tid <= ntxn'
    BY <1>1 DEF WriterFits
  <2>2. con'[d].at = "publish" /\ SyncFull => Settled' /\ \A i \in Index : walOld'[i] = {}
    BY <1>1 DEF WriterFits
  <2>3. NoneOf(con[d].hdr.gen) => NoneOf(con[d].hdr.gen)'
    BY <1>2 DEF NoneOf
  <2> QED
    BY <1>1, <1>2, <1>3, <2>1, <2>2, <2>3 DEF WriterFits
<1> QED
  BY <1>1, <1>4 DEF SaltsKept, ClosingOK

(* A checkpoint that has frames to copy.                                   *)
LEMMA ToBackfill ==
  ASSUME Inv, NEW c \in Conn, con[c].at \in {"backfill", "copy"}, shm.backfill < con[c].safe
  PROVE  /\ Alive /\ shm.h0.init /\ con[c].safe <= shm.h0.mx /\ con[c].safe <= con[c].hdr.mx
         /\ con[c].hdr.mx <= shm.h0.mx /\ shm.h0.mx > 0 /\ shm.h0.mx \in Nat
         /\ shm.backfill \in Nat /\ con[c].safe \in Nat /\ con[c].hdr.mx \in Nat
         /\ con[c].tid = 0 /\ ~Empty
<1>1. /\ con[c] \in State /\ shm \in ShmType /\ CheckpointOK(con[c], shm, wal, db)
      /\ InPlace(con[c]) /\ Locked(con[c])
  BY ConnNow
<1>2. shm.h0.mx \in Nat /\ shm.backfill \in Nat /\ con[c].safe \in Nat /\ con[c].hdr.mx \in Nat
  BY <1>1, ShmTypes, StateTypes, Bounds
<1>3. shm.h0.init /\ con[c].safe <= con[c].hdr.mx /\ con[c].hdr.mx <= shm.h0.mx
  BY <1>1 DEF CheckpointOK, AtCkpt
<1>4. con[c].tid = 0
  BY <1>1 DEF InPlace, Locked, Checkpointing, AtWrite, AtCkpt
<1>5. Alive
  BY DEF Alive
<1>6. con[c].safe <= shm.h0.mx /\ shm.h0.mx > 0
  BY <1>2, <1>3
<1> QED
  BY <1>2, <1>3, <1>4, <1>5, <1>6 DEF Empty

(* The log is synced before a checkpoint copies from it.                   *)
LEMMA BackfillKeeps ==
  ASSUME Inv, Inv', Durable, NEW c \in Conn, Backfill(c), con'[c].at = "copy"
  PROVE  Durable'
<1>0. PICK r \in State : r = con[c]
  BY DEF Inv, Types
<1>1. PICK m, n : m = [r EXCEPT !.at = "done"]
                  /\ n = [r EXCEPT !.at = "copy", !.ex = {0}, !.bf = shm.backfill]
  BY Zenon
<1>2. /\ con[c].at = "backfill" /\ UNCHANGED <<db, dbOld, wal, shm, committed, ntxn, nfault>>
      /\ \/ con' = [con EXCEPT ![c] = m]
         \/ con' = [con EXCEPT ![c] = n] /\ SyncWal /\ doubt' = Remaining(wal)
            /\ shm.backfill < r.safe
  BY <1>0, <1>1 DEF Backfill
<1>3. m.at = "done" /\ n.at = "copy" /\ n.tid = r.tid /\ n.nck = r.nck /\ n.goal = r.goal
      /\ n.hdr = r.hdr /\ n.log = r.log /\ n.safe = r.safe
  BY <1>1 DEF State
<1>4. /\ con'[c] = n /\ \A d \in Conn \ {c} : con'[d] = con[d]
      /\ doubt' = Remaining(wal) /\ shm.backfill < r.safe
      /\ walOld' = [i \in Index |-> {}] /\ headOld' = {} /\ cutOld' = NoWal
  BY <1>2, <1>3, ConnTypes DEF Inv, SyncWal
<1>5. /\ Alive /\ shm.h0.init /\ r.safe <= shm.h0.mx /\ r.hdr.mx <= shm.h0.mx /\ shm.h0.mx > 0
      /\ shm.h0.mx \in Nat /\ shm.backfill \in Nat /\ r.safe \in Nat /\ r.tid = 0 /\ ~Empty
  BY <1>0, <1>2, <1>4, ToBackfill
<1>6. /\ shm.h0.mx \in Ends(wal) /\ Made(wal, db, shm.h0.mx) = committed
      /\ wal.head # NoHead /\ wal.head.gen = shm.h0.gen /\ shm.h0.mx \in 0 .. MaxFrame
  BY <1>5, IndexEnd
<1>7. /\ wal \in LogType /\ TailOK /\ FramesOK /\ SaltsKept(con[c]) /\ ClosingOK(con[c])
  BY ConnNow DEF Durable
<1>8. PICK k \in 0 .. MaxFrame : Floor(k)
  BY DEF Durable
<1>9. k <= shm.h0.mx /\ k \in Nat /\ \A i \in 1 .. k : i \in 1 .. shm.h0.mx
  <2>1. k <= shm.h0.mx /\ k \in Nat
    BY <1>5, <1>8, Bounds DEF Floor
  <2> QED
    BY <1>5, <2>1
<1>10. /\ Again \in HeadType /\ With(Again) \in LogType /\ With(Again).head = Again
       /\ With(Again).frame = wal.frame /\ Again # NoHead /\ Again.gen = wal.head.gen
  <2>1. Again # NoHead /\ Again.gen = shm.h0.gen
    BY DEF Again, NoHead
  <2> QED
    BY <1>6, <2>1, LeftTypes, WithIs
<1>11. Recovered(wal) \in Outcomes' /\ committed \in Outcomes'
  <2>1. Recovered(wal) = Made(wal, db, LastCommit(wal))
    BY DEF Recovered, Made
  <2>2. Recovered(wal) \in {committed} \cup doubt
    BY <1>8, <2>1, LeftNow, LastSurvives DEF Floor, Outcomes
  <2> QED
    BY <1>2, <1>4, <2>2 DEF Outcomes, Remaining
<1>12. \A i \in Index : Versions(i)' = {wal.frame[i]} /\ Versions(i)' \subseteq Versions(i)
  BY <1>2, <1>4 DEF Versions
<1>13. ~Empty' /\ Heads' = {wal.head}
  <2>1. ~Empty'
    BY <1>2, <1>5 DEF Empty
  <2> QED
    BY <1>2, <1>4, <2>1 DEF Heads
<1>14. ASSUME NEW w \in Left', NEW j \in Ends(w), j >= shm.h0.mx \/ shm.h0.mx \notin Ends(w)
       PROVE  Made(w, db, j) \in Outcomes'
  <2>1. w \in LogType /\ w.head = wal.head /\ \A i \in Index : w.frame[i] = wal.frame[i]
    BY <1>12, <1>13, LeftThen
  <2>2. \A i \in 1 .. MaxFrame : w.frame[i] = wal.frame[i] /\ wal.frame[i] = w.frame[i]
    BY <2>1 DEF Index
  <2>3. j \in 0 .. MaxFrame /\ j \in Nat /\ MaxFrame \in 0 .. MaxFrame
    BY <2>1, EndsIs, Bounds
  <2>4. j >= shm.h0.mx
    <3>1. shm.h0.mx \in Ends(w)
      BY <1>6, <1>7, <2>1, <2>2, <2>3, SamePrefix
    <3> QED
      BY <1>14, <3>1
  <2>5. j \in Ends(wal) /\ Made(w, db, j) = Made(wal, db, j)
    BY <1>7, <2>1, <2>2, <2>3, SamePrefix
  <2>6. CASE j = shm.h0.mx
    BY <1>6, <1>11, <2>5, <2>6
  <2>7. CASE j > shm.h0.mx
    <3>1. \A i \in 1 .. MaxFrame : With(Again).frame[i] = wal.frame[i]
      BY <1>10
    <3>2. j \in Ends(With(Again))
      BY <1>7, <1>10, <2>3, <2>5, <3>1, SamePrefix
    <3>3. j = LastCommit(With(Again))
      BY <1>5, <1>7, <2>7, <3>2, TailEnds
    <3>4. LastCommit(wal) = LastCommit(With(Again))
      BY <1>6, <1>10, SameLast
    <3>5. Recovered(wal) = Made(wal, db, LastCommit(wal))
      BY DEF Recovered, Made
    <3> QED
      BY <1>11, <2>5, <3>3, <3>4, <3>5
  <2> QED
    BY <1>5, <2>3, <2>4, <2>6, <2>7
<1>15. Floor(shm.h0.mx)'
  <2>1. OnDisk(shm.h0.mx)'
    <3>1. \A i \in 1 .. shm.h0.mx : i \in Index
      BY <1>6, Bounds DEF Index
    <3> QED
      BY <1>2, <1>4, <3>1 DEF OnDisk
  <2>2. Survives(shm.h0.mx)'
    BY <1>2, <1>14 DEF Survives
  <2>3. Covers(shm.h0.mx)'
    <3>1. Settled'
      BY <1>4 DEF Settled
    <3>2. \A p \in Page : dbOld'[p] # {} => \E i \in 1 .. shm.h0.mx : wal'.frame[i].pg = p
      BY <1>2, <1>8, <1>9 DEF Floor, Covers
    <3>3. ASSUME NEW d \in Conn, con'[d].at = "copy" PROVE con'[d].safe <= shm.h0.mx
      <4>1. CASE d = c
        BY <1>3, <1>4, <1>5, <4>1
      <4>2. CASE d # c
        <5>1. con[d].safe \in Nat
          BY ConnNow, StateTypes, Bounds
        <5>2. con'[d] = con[d] /\ con[d].safe <= k
          BY <1>4, <1>8, <3>3, <4>2 DEF Floor, Covers
        <5> QED
          BY <1>5, <1>9, <5>1, <5>2
      <4> QED
        BY <4>1, <4>2
    <3> QED
      BY <1>2, <1>6, <3>1, <3>2, <3>3 DEF Covers
  <2>4. shm.h0.mx <= shm'.h0.mx
    BY <1>2, <1>5
  <2> QED
    BY <1>2, <1>6, <1>13, <2>1, <2>2, <2>3, <2>4 DEF Floor
<1>16. CutOK'
  BY <1>4 DEF CutOK
<1>17. FramesOK'
  <2>1. \A i \in Index : FrameFits(cutOld'.frame[i])
    BY <1>4 DEF NoWal, FrameFits
  <2>2. \A x \in headOld' \cup {wal'.head, cutOld'.head} : x.gen = 0 => x = NoHead
    BY <1>2, <1>4, <1>7, Nothing DEF FramesOK
  <2> QED
    BY <1>2, <1>7, <1>12, <2>1, <2>2, FramesFewer
<1>18. TailOK'
  BY <1>2, <1>5, <1>7 DEF TailOK, With, Again
<1>19. HeadOK'
  <2>1. ~(shm.backfill >= shm.h0.mx)
    BY <1>4, <1>5
  <2> QED
    BY <1>2, <1>6, <2>1 DEF HeadOK
<1>20. WriterFits(n)'
  <2>1. ntxn' \in Nat
    BY Bounds DEF Inv, Types
  <2> QED
    BY <1>3, <1>5, <2>1 DEF WriterFits
<1>21. SaltsKept(n)' /\ ClosingOK(n)'
  BY <1>0, <1>2, <1>3, <1>7 DEF SaltsKept, ClosingOK, AtCkpt
<1>22. ASSUME NEW d \in Conn \ {c} PROVE WriterFits(con[d])' /\ SaltsKept(con[d])' /\ ClosingOK(con[d])'
  <2>1. Settled' /\ \A i \in Index : walOld'[i] \subseteq walOld[i]
    BY <1>4 DEF Settled
  <2> QED
    BY <1>2, <1>4, <2>1, BesideFits
<1>23. ASSUME NEW d \in Conn PROVE WriterFits(con[d])' /\ SaltsKept(con[d])' /\ ClosingOK(con[d])'
  <2>1. CASE d = c
    BY <1>4, <1>20, <1>21, <2>1 DEF WriterFits, SaltsKept, ClosingOK, Reach
  <2> QED
    BY <1>22, <2>1
<1>24. \E x \in 0 .. MaxFrame : Floor(x)'
  BY <1>2, <1>6, <1>15
<1> QED
  BY <1>16, <1>17, <1>18, <1>19, <1>23, <1>24 DEF Durable

(* A page that is written to the database file is one of a frame that is   *)
(* on the disk: what recovery makes of the log does not depend on it.      *)
LEMMA StoredKeeps ==
  ASSUME Inv, Inv', Durable, NEW c \in Conn, con[c].at = "copy", NEW p \in ToCopy(con[c]),
         NEW e \in Pages \cup {Torn}, Store(p, e),
         UNCHANGED <<wal, walOld, headOld, cutOld, shm, committed, doubt>>, ntxn' = ntxn,
         NEW n, con' = [con EXCEPT ![c] = n],
         n.at \in {"copy", "closed", "idle"}, n.at = "copy" => n.safe = con[c].safe,
         n.tid = 0, n.nck => n.at # "closed" /\ con[c].nck, n.goal = "close" => ClosingOK(n)
  PROVE  Durable'
<1>1. con'[c] = n /\ \A d \in Conn \ {c} : con'[d] = con[d]
  BY ConnTypes DEF Inv
<1>2. PICK x : x = con[c].it[p]
  OBVIOUS
<1>3. /\ p \in Page /\ x \in 1 .. shm.h0.mx /\ x \in Nat /\ x > shm.backfill /\ x <= con[c].safe
      /\ shm.pg[x] = p /\ shm.backfill \in Nat /\ con[c].safe \in Nat /\ shm.h0.init
  BY <1>2, AtCopy
<1>4. /\ Alive /\ shm.h0.mx \in Nat /\ shm.h0.mx > 0 /\ con[c].safe <= shm.h0.mx /\ ~Empty
  <2>1. shm.backfill < con[c].safe
    BY <1>3
  <2> QED
    BY <2>1, ToBackfill
<1>5. wal.head # NoHead /\ wal.frame[x].pg = p
  <2>1. Indexed(shm.h0.mx, shm, wal)
    BY <1>3, IndexNow DEF IndexOK, HdrOf
  <2> QED
    BY <1>3, <1>4, <2>1, IndexEnd DEF Indexed
<1>6. PICK k \in 0 .. MaxFrame : Floor(k)
  BY DEF Durable
<1>7. k \in Nat /\ Settled /\ k \in Ends(wal) /\ con[c].safe <= k /\ OnDisk(k) /\ x \in 1 .. k
  <2>1. k \in Nat /\ Settled /\ k \in Ends(wal) /\ con[c].safe <= k /\ OnDisk(k)
    BY <1>6, Bounds DEF Floor, Covers
  <2> QED
    BY <1>3, <2>1
<1>8. /\ wal \in LogType /\ db \in Image /\ dbOld \in [Page -> SUBSET (Pages \cup {Torn})]
      /\ TailOK /\ FramesOK /\ CutOK /\ SaltsKept(con[c])
  BY ConnNow DEF Durable, FileTypes
<1>9. /\ \A q \in Page \ {p} : db'[q] = db[q] /\ dbOld'[q] = dbOld[q]
  <2>1. \A q \in Page \ {p} : db'[q] = db[q]
    BY <1>3, <1>8, StoredTypes, PageSet
  <2> QED
    BY <1>8, <2>1 DEF Store
<1>10. /\ ~Empty' /\ Heads' = {wal.head} /\ \A i \in Index : Versions(i)' = Versions(i)
  <2>1. ~Empty'
    BY <1>4 DEF Empty
  <2>2. headOld' = {}
    BY <1>7 DEF Settled
  <2> QED
    BY <2>1, <2>2 DEF Heads, Versions
<1>11. Left' \subseteq Left
  <2>1. Heads' \subseteq Heads
    BY <1>10 DEF Heads
  <2> QED
    BY <1>10, <2>1, LeftIs, LeftThen
<1>12. ASSUME NEW w \in Left', NEW j \in Ends(w), j >= k \/ k \notin Ends(w)
       PROVE  Made(w, db', j) \in Outcomes'
  <2>1. w \in LogType /\ w.head = wal.head /\ \A i \in Index : w.frame[i] \in Versions(i)
    BY <1>10, LeftThen
  <2>2. \A i \in 1 .. k : w.frame[i] = wal.frame[i]
    <3>1. \A i \in 1 .. k : i \in Index
      BY <1>7, Bounds DEF Index
    <3> QED
      BY <1>7, <2>1, <3>1 DEF OnDisk, Versions
  <2>3. j \in 0 .. MaxFrame /\ j \in Nat
    BY <2>1, EndsIs, Bounds
  <2>4. k \in Ends(w)
    <3>1. k \in 0 .. k /\ k \in 0 .. MaxFrame
      BY <1>6, <1>7
    <3> QED
      BY <1>7, <1>8, <2>1, <2>2, <3>1, SamePrefix
  <2>5. x \in 1 .. j /\ w.frame[x].pg = p
    <3>1. x \in 1 .. j
      BY <1>7, <1>12, <2>3, <2>4
    <3> QED
      BY <1>5, <1>7, <2>2, <3>1
  <2>6. \A q \in Page : db'[q] = db[q] \/ \E i \in 1 .. j : w.frame[i].pg = q
    BY <1>9, <2>5
  <2>7. Made(w, db', j) = Made(w, db, j)
    BY <2>3, <2>6, MadeCovered
  <2>8. Made(w, db, j) \in Outcomes
    BY <1>6, <1>11, <1>12 DEF Floor, Survives
  <2> QED
    BY <2>7, <2>8 DEF Outcomes
<1>13. Floor(k)'
  <2>1. OnDisk(k)' /\ Survives(k)' /\ Settled'
    BY <1>7, <1>12 DEF OnDisk, Survives, Settled
  <2>2. Covers(k)'
    <3>1. ASSUME NEW q \in Page, dbOld'[q] # {} PROVE \E i \in 1 .. k : wal'.frame[i].pg = q
      <4>1. CASE q = p
        BY <1>5, <1>7, <4>1
      <4>2. CASE q # p
        BY <1>6, <1>9, <3>1, <4>2 DEF Floor, Covers
      <4> QED
        BY <4>1, <4>2
    <3>2. \A d \in Conn : con'[d].at = "copy" => con'[d].safe <= k
      BY <1>1, <1>6, <1>7 DEF Floor, Covers
    <3> QED
      BY <1>7, <2>1, <3>1, <3>2 DEF Covers
  <2>3. shm.h0.mx > 0 => k <= shm.h0.mx
    BY <1>3, <1>4, <1>6 DEF Floor
  <2>4. \A d \in Conn : Appends(con[d])' => k <= shm'.h0.mx
    BY <1>4, <2>3
  <2> QED
    BY <1>7, <1>10, <2>1, <2>2, <2>3, <2>4 DEF Floor
<1>14. CutOK'
  BY <1>7 DEF CutOK, Settled
<1>15. FramesOK'
  <2>1. \A i \in Index : FrameFits(cutOld'.frame[i])
    BY <1>8 DEF FramesOK
  <2>2. \A h \in headOld' \cup {wal'.head, cutOld'.head} : h.gen = 0 => h = NoHead
    BY <1>8 DEF FramesOK
  <2> QED
    BY <1>8, <1>10, <2>1, <2>2, FramesFewer
<1>16. TailOK'
  BY <1>3, <1>4, <1>8 DEF TailOK, With, Again
<1>17. HeadOK'
  <2>1. ~(shm.backfill >= shm.h0.mx)
    BY <1>3, <1>4
  <2> QED
    BY <1>5, <2>1 DEF HeadOK
<1>18. WriterFits(n)' /\ SaltsKept(n)'
  <2>1. ntxn' \in Nat
    BY Bounds DEF Inv, Types
  <2>2. WriterFits(n)'
    BY <2>1 DEF WriterFits
  <2> QED
    BY <1>8, <2>2 DEF SaltsKept
<1>19. ASSUME NEW d \in Conn PROVE WriterFits(con[d])' /\ SaltsKept(con[d])' /\ ClosingOK(con[d])'
  <2>1. CASE d = c
    <3>1. ClosingOK(n)'
      BY DEF ClosingOK
    <3> QED
      BY <1>1, <1>18, <2>1, <3>1 DEF WriterFits, SaltsKept, ClosingOK, Reach
  <2>2. CASE d # c
    <3>1. Settled' /\ \A i \in Index : walOld'[i] \subseteq walOld[i]
      BY <1>7 DEF Settled
    <3> QED
      BY <1>1, <2>2, <3>1, BesideFits
  <2> QED
    BY <2>1, <2>2
<1>20. \E y \in 0 .. MaxFrame : Floor(y)'
  BY <1>6, <1>13
<1> QED
  BY <1>14, <1>15, <1>16, <1>17, <1>19, <1>20 DEF Durable

(* The first page that is left to copy.                                    *)
LEMMA FirstToCopy ==
  ASSUME NEW r, ToCopy(r) # {}
  PROVE  Min(ToCopy(r)) \in ToCopy(r) /\ Min(ToCopy(r)) \in Page
<1>1. NPage \in Nat /\ ToCopy(r) \in SUBSET (0 .. NPage) /\ ToCopy(r) \subseteq Page
  BY Bounds DEF ToCopy, Page
<1> QED
  BY <1>1, FirstOf, Zenon

(* A page is copied.                                                       *)
LEMMA CopyKeeps ==
  ASSUME Inv, Inv', Durable, NEW c \in Conn, Copy(c)
  PROVE  Durable'
<1>0. PICK r \in State : r = con[c]
  BY DEF Inv, Types
<1>1. PICK p \in Page : p = Min(ToCopy(con[c])) /\ p \in ToCopy(con[c])
  BY FirstToCopy DEF Copy
<1>2. con[c].at = "copy" /\ ClosingOK(con[c]) /\ con[c].tid = 0
  BY <1>1, AtCopy, Zenon DEF Copy, Durable
<1>3. PICK e \in Pages \cup {Torn} : e = wal.frame[con[c].it[p]].tid
  BY <1>1, <1>2, AtCopy
<1>4. wal.frame[con[c].it[p]] # NoFrame
  BY <1>1, <1>2, AtCopy
<1>5. /\ Store(p, e) /\ UNCHANGED <<wal, walOld, headOld, cutOld, shm, committed, doubt>>
      /\ ntxn' = ntxn
  BY <1>1, <1>3, <1>4 DEF Copy, history
<1>6. PICK n : n = [r EXCEPT !.i = p]
  BY Zenon
<1>7. con' = [con EXCEPT ![c] = n]
  BY <1>0, <1>1, <1>6 DEF Copy
<1>8. /\ n.at = r.at /\ n.safe = r.safe /\ n.tid = r.tid /\ n.nck = r.nck /\ n.goal = r.goal
      /\ n.hdr = r.hdr
  BY <1>6 DEF State
<1>9. ClosingOK(n)
  BY <1>0, <1>2, <1>8 DEF ClosingOK
<1> QED
  BY <1>0, <1>1, <1>2, <1>5, <1>7, <1>8, <1>9, StoredKeeps, Zenon

(* It is written in part.                                                  *)
LEMMA IoCopyKeeps ==
  ASSUME Inv, Inv', Durable, NEW c \in Conn, IoError(c), con[c].at = "copy", ToCopy(con[c]) # {}
  PROVE  Durable'
<1>0. PICK r \in State : r = con[c]
  BY DEF Inv, Types
<1>1. PICK p \in Page : p = Min(ToCopy(con[c])) /\ p \in ToCopy(con[c])
  BY FirstToCopy
<1>2. con[c].goal \in {"ckpt", "close"}
  BY ConnNow DEF InPlace, AtCkpt, Checkpointing
<1>3. /\ Store(p, Torn) /\ UNCHANGED <<wal, walOld, headOld, cutOld, shm, committed, doubt>>
      /\ ntxn' = ntxn
  BY <1>1 DEF IoError
<1>4. PICK n : n = Failed(r)
  OBVIOUS
<1>5. con' = [con EXCEPT ![c] = n]
  BY <1>0, <1>2, <1>4 DEF IoError
<1>6. n.at \in {"closed", "idle"} /\ n.goal = "none" /\ n.tid = 0 /\ (n.nck => n.at # "closed" /\ r.nck)
  BY <1>4, IdleForm
<1>7. Torn \in Pages \cup {Torn}
  OBVIOUS
<1> QED
  BY <1>0, <1>1, <1>3, <1>5, <1>6, <1>7, StoredKeeps, Zenon

(* All that can be copied is copied, and synced if it is all of the log.   *)
LEMMA BackfilledKeeps ==
  ASSUME Inv, Inv', Durable, NEW c \in Conn, Backfilled(c)
  PROVE  Durable'
<1>0. PICK r \in State : r = con[c]
  BY DEF Inv, Types
<1>1. /\ con[c].at = "copy" /\ UNCHANGED <<db, wal, walOld, headOld, cutOld, committed, doubt>>
      /\ ntxn' = ntxn
      /\ dbOld' = IF con[c].safe = shm.h0.mx THEN [p \in Page |-> {}] ELSE dbOld
  BY DEF Backfilled, history
<1>2. PICK n : n = [r EXCEPT !.at = "done", !.ex = {}]
  OBVIOUS
<1>3. /\ n.at = "done" /\ n.tid = r.tid /\ n.nck = r.nck /\ n.goal = r.goal
      /\ n.hdr = r.hdr /\ n.log = r.log
  BY <1>2 DEF State
<1>4. con'[c] = n /\ \A d \in Conn \ {c} : con'[d] = con[d]
  <2>1. con' = [con EXCEPT ![c] = n]
    BY <1>0, <1>2 DEF Backfilled
  <2> QED
    BY <2>1, ConnTypes DEF Inv
<1>5. shm'.h0 = shm.h0 /\ shm'.backfill = r.safe
  <2>1. shm' = [shm EXCEPT !.backfill = r.safe] /\ shm \in ShmType
    BY <1>0, ConnNow DEF Backfilled
  <2> QED
    BY <2>1 DEF ShmType
<1>6. CheckpointOK(con[c], shm, wal, db) /\ FileTypes /\ TailOK /\ FramesOK /\ CutOK
      /\ SaltsKept(con[c]) /\ ClosingOK(con[c])
  BY ConnNow DEF Durable
<1>7. /\ Alive /\ shm.h0.init /\ r.safe <= shm.h0.mx /\ shm.h0.mx > 0
      /\ shm.h0.mx \in Nat /\ r.safe \in Nat /\ r.hdr.mx \in Nat /\ r.tid = 0 /\ ~Empty
  <2>1. shm.backfill < con[c].safe
    BY <1>1, <1>6 DEF CheckpointOK
  <2> QED
    BY <1>0, <1>1, <2>1, ToBackfill
<1>8. /\ ~Empty' /\ Again' = Again /\ With(Again)' = With(Again) /\ Heads' = Heads
      /\ \A i \in Index : Versions(i)' = Versions(i)
  <2>1. ~Empty'
    BY <1>5, <1>7 DEF Empty
  <2>2. Again' = Again
    BY <1>5 DEF Again
  <2>3. With(Again)' = With(Again)
    BY <1>1, <2>2 DEF With
  <2> QED
    BY <1>1, <1>7, <2>1, <2>2, <2>3 DEF Heads, Versions
<1>9. Left' \subseteq Left
  BY <1>8, LeftIs, LeftThen
<1>10. PICK k \in 0 .. MaxFrame : Floor(k)
  BY DEF Durable
<1>11. Floor(k)'
  <2>1. OnDisk(k)'
    BY <1>1, <1>10 DEF Floor, OnDisk
  <2>2. Survives(k)'
    BY <1>1, <1>9, <1>10 DEF Floor, Survives, Outcomes
  <2>3. Covers(k)'
    <3>1. \A p \in Page : dbOld'[p] # {} => dbOld[p] # {}
      BY <1>1
    <3>2. \A d \in Conn : con'[d].at = "copy" => con'[d] = con[d]
      BY <1>3, <1>4
    <3>3. Settled' = Settled
      BY <1>1 DEF Settled
    <3> QED
      BY <1>1, <1>10, <3>1, <3>2, <3>3 DEF Floor, Covers
  <2>4. shm.h0.mx > 0 => k <= shm'.h0.mx
    BY <1>5, <1>7, <1>10 DEF Floor
  <2> QED
    BY <1>1, <1>5, <1>7, <1>8, <1>10, <2>1, <2>2, <2>3, <2>4 DEF Floor
<1>12. CutOK'
  BY <1>1, <1>6 DEF CutOK, Outcomes
<1>13. FramesOK'
  <2>1. \A i \in Index : FrameFits(cutOld'.frame[i])
    BY <1>1, <1>6 DEF FramesOK
  <2>2. \A h \in headOld' \cup {wal'.head, cutOld'.head} : h.gen = 0 => h = NoHead
    BY <1>1, <1>6 DEF FramesOK
  <2> QED
    BY <1>1, <1>6, <1>8, <2>1, <2>2, FramesFewer
<1>14. TailOK'
  BY <1>1, <1>5, <1>6, <1>7, <1>8 DEF TailOK
<1>15. HeadOK'
  <2>1. wal'.head # NoHead
    BY <1>1, <1>7, IndexEnd
  <2>2. shm'.backfill >= shm'.h0.mx => Clean'
    <3>1. shm'.backfill >= shm'.h0.mx => r.safe = shm.h0.mx
      BY <1>5, <1>7
    <3> QED
      BY <1>0, <1>1, <3>1 DEF Clean
  <2> QED
    BY <2>1, <2>2 DEF HeadOK
<1>16. WriterFits(n)' /\ SaltsKept(n)' /\ ClosingOK(n)'
  <2>1. ntxn' \in Nat
    BY Bounds DEF Inv, Types
  <2>2. WriterFits(n)'
    BY <1>3, <1>7, <2>1 DEF WriterFits
  <2>3. SaltsKept(n)'
    BY <1>0, <1>1, <1>3, <1>5, <1>6 DEF SaltsKept
  <2>4. n.goal = "close" => r.hdr.mx = shm.h0.mx /\ r.safe = r.hdr.mx
    BY <1>0, <1>1, <1>3, <1>6 DEF ClosingOK, AtCkpt
  <2>5. ClosingOK(n)'
    BY <1>3, <1>5, <1>7, <2>4 DEF ClosingOK
  <2> QED
    BY <2>2, <2>3, <2>5
<1>17. ASSUME NEW d \in Conn PROVE WriterFits(con[d])' /\ SaltsKept(con[d])' /\ ClosingOK(con[d])'
  <2>1. CASE d = c
    BY <1>4, <1>16, <2>1 DEF WriterFits, SaltsKept, ClosingOK, Reach
  <2>2. CASE d # c
    <3>1. (Settled => Settled') /\ \A i \in Index : walOld'[i] \subseteq walOld[i]
      BY <1>1 DEF Settled
    <3> QED
      BY <1>1, <1>4, <1>5, <2>2, <3>1, BesideFits
  <2> QED
    BY <2>1, <2>2
<1>18. \E y \in 0 .. MaxFrame : Floor(y)'
  BY <1>10, <1>11
<1> QED
  BY <1>12, <1>13, <1>14, <1>15, <1>17, <1>18 DEF Durable

-----------------------------------------------------------------------------
(* The log is cut or deleted when the database file has all of it.  The    *)
(* disk may still have it.                                                 *)
LEMMA NoLogKeeps ==
  ASSUME Inv, Inv', Durable, NEW c \in Conn, NoLog, UNCHANGED <<db, dbOld, shm, history>>,
         NEW n, con' = [con EXCEPT ![c] = n],
         n.at \in {"closed", "idle"}, n.goal = "none", n.tid = 0,
         n.nck => n.at # "closed" /\ con[c].nck /\ con[c].at \notin {"recover2", "reset2"},
         Clean, db = committed, Alive' => shm.h0 = shm.h1 /\ shm.h0.mx = 0,
         \A d \in Conn \ {c} : /\ con[d].at # "copy" /\ ~Appends(con[d])'
                               /\ WriterFits(con[d])' /\ SaltsKept(con[d])' /\ ClosingOK(con[d])'
  PROVE  Durable'
<1>1. con'[c] = n /\ \A d \in Conn \ {c} : con'[d] = con[d]
  BY ConnTypes DEF Inv
<1>2. /\ wal' = NoWal /\ walOld' = [i \in Index |-> {}] /\ headOld' = {} /\ cutOld' = wal
      /\ db' = db /\ dbOld' = dbOld /\ shm' = shm
      /\ committed' = committed /\ doubt' = doubt /\ ntxn' = ntxn
  BY DEF NoLog, history
<1>3. /\ NoWal.head = NoHead /\ \A i \in Index : NoWal.frame[i] = NoFrame
  BY DEF NoWal
<1>4. wal \in LogType /\ db \in Image /\ FramesOK /\ SaltsKept(con[c]) /\ shm \in ShmType
  BY ConnNow DEF Durable
<1>5. \A i \in Index : Versions(i)' = {NoFrame}
  BY <1>2, <1>3 DEF Versions
<1>6. PICK k \in 0 .. MaxFrame : Floor(k)
  BY DEF Durable
<1>7. ASSUME NEW w \in Left', NEW j \in Ends(w) PROVE Made(w, db', j) \in Outcomes'
  <2>1. w \in LogType /\ \A i \in Index : w.frame[i] = NoFrame
    BY <1>5, LeftThen
  <2>2. j = 0
    BY <2>1, NoEnds
  <2>3. Made(w, db, 0) = db
    BY <1>4, MadeNone
  <2> QED
    BY <1>2, <2>2, <2>3 DEF Outcomes
<1>8. Floor(0)'
  <2>1. OnDisk(0)'
    <3>1. \A i \in 1 .. 0 : FALSE
      OBVIOUS
    <3> QED
      BY <3>1 DEF OnDisk
  <2>2. Survives(0)'
    BY <1>7 DEF Survives
  <2>3. Covers(0)'
    BY <1>1, <1>2 DEF Covers, Clean
  <2>4. 0 \in Ends(wal') /\ 0 \in Ends(With(Again)')
    BY DEF Ends
  <2>5. 0 <= shm'.h0.mx
    BY <1>2, <1>4, ShmTypes, Bounds
  <2> QED
    BY <2>1, <2>2, <2>3, <2>4, <2>5 DEF Floor
<1>9. CutOK'
  <2>1. Made(wal, db, LastCommit(wal)) \in Outcomes
    BY <1>6, LeftNow, LastSurvives DEF Floor
  <2> QED
    BY <1>2, <2>1 DEF CutOK, Outcomes
<1>10. FramesOK'
  <2>1. \A i \in Index : FrameFits(wal.frame[i])
    BY <1>4 DEF FramesOK, Versions
  <2>2. \A i \in Index : FrameFits(cutOld.frame[i])' /\ \A f \in Versions(i)' : FrameFits(f)'
    BY <1>2, <1>5, <2>1 DEF FrameFits
  <2>3. \A h \in headOld' \cup {wal'.head, cutOld'.head} : h.gen = 0 => h = NoHead
    BY <1>2, <1>3, <1>4 DEF FramesOK
  <2> QED
    BY <1>5, <2>2, <2>3 DEF FramesOK
<1>11. TailOK'
  <2>1. ASSUME NEW i \in Chain(With(Again)') PROVE FALSE
    <3>1. With(Again)'.frame = NoWal.frame
      BY <1>2, <1>3 DEF With, NoWal
    <3>2. i \in Index /\ With(Again)'.frame[i] # NoFrame
      <4>1. i \in Index
        BY <2>1 DEF Chain
      <4>2. i \in 1 .. i
        BY <4>1, Bounds DEF Index
      <4> QED
        BY <2>1, <4>1, <4>2 DEF Chain
    <3> QED
      BY <1>3, <3>1, <3>2
  <2> QED
    BY <2>1 DEF TailOK
<1>12. HeadOK'
  BY <1>2 DEF HeadOK, Clean
<1>13. WriterFits(n)' /\ SaltsKept(n)' /\ ClosingOK(n)'
  <2>1. ntxn' \in Nat
    BY Bounds DEF Inv, Types
  <2>2. WriterFits(n)'
    BY <2>1 DEF WriterFits
  <2> QED
    BY <1>2, <1>4, <2>2 DEF SaltsKept, ClosingOK
<1>14. ASSUME NEW d \in Conn PROVE WriterFits(con[d])' /\ SaltsKept(con[d])' /\ ClosingOK(con[d])'
  <2>1. CASE d = c
    BY <1>1, <1>13, <2>1 DEF WriterFits, SaltsKept, ClosingOK, Reach
  <2> QED
    BY <2>1
<1>15. \E y \in 0 .. MaxFrame : Floor(y)'
  BY <1>8, Bounds
<1> QED
  BY <1>9, <1>10, <1>11, <1>12, <1>14, <1>15 DEF Durable

(* By a checkpoint in mode TRUNCATE.                                       *)
LEMMA CutKeeps ==
  ASSUME Inv, Inv', Durable, NEW c \in Conn, Cut(c)
  PROVE  Durable'
<1>0. PICK r \in State : r = con[c]
  BY DEF Inv, Types
<1>1. /\ con[c].at = "cut" /\ con' = [con EXCEPT ![c] = Checkpointed(r)]
      /\ NoLog /\ UNCHANGED <<db, dbOld, shm, history>>
  BY <1>0 DEF Cut
<1>2. PICK n : n = Checkpointed(r)
  OBVIOUS
<1>3. n.at = "idle" /\ n.goal = "none" /\ n.tid = 0 /\ n.nck = r.nck
  BY <1>2, CheckpointedState, IdleForm
<1>4. Alive /\ con[c].wl /\ shm.h0.init /\ shm.h0 = shm.h1 /\ shm.h0.mx = 0 /\ shm.backfill >= 0
  <2>1. con[c].wl /\ shm.h0.init /\ con[c].hdr.mx = 0 /\ shm.h1 = con[c].hdr
    BY <1>1, DuringReset
  <2>2. shm.h0 = con[c].hdr
    BY <1>1, ConnNow DEF ResetOK
  <2>3. shm.backfill \in Nat
    BY ConnNow, ShmTypes, Bounds
  <2> QED
    BY <1>1, <2>1, <2>2, <2>3 DEF Alive
<1>5. db = committed /\ Clean
  BY <1>4, FileCommitted DEF Durable, HeadOK
<1>6. ASSUME NEW d \in Conn \ {c}
      PROVE  /\ con[d].at # "copy" /\ ~Appends(con[d])'
             /\ WriterFits(con[d])' /\ SaltsKept(con[d])' /\ ClosingOK(con[d])'
  <2>1. con'[d] = con[d]
    BY <1>1, ConnTypes DEF Inv
  <2> QED
    BY <1>1, <1>4, <2>1, OthersWait, NobodyCopies
<1> QED
  BY <1>0, <1>1, <1>2, <1>3, <1>4, <1>5, <1>6, NoLogKeeps, Zenon

(* By the last connection that closes the database.                        *)
LEMMA LastClosesKeeps ==
  ASSUME Inv, Inv', Durable, NEW c \in Conn, CkptEnd(c), con[c].goal = "close"
  PROVE  Durable'
<1>1. /\ con[c].at = "done" /\ con' = [con EXCEPT ![c] = Closed]
      /\ NoLog /\ UNCHANGED <<db, dbOld, shm, history>>
  BY DEF CkptEnd
<1>2. /\ con'[c] = Closed /\ \A d \in Conn \ {c} : con'[d] = con[d] /\ con[d].at = "closed"
  <2>1. \A d \in Conn \ {c} : con[d].at = "closed"
    BY DEF Inv, PairOK, Apart
  <2> QED
    BY <1>1, <2>1, ConnTypes DEF Inv
<1>3. ~Alive'
  BY <1>2, ClosedState DEF Alive
<1>4. Alive /\ shm.h0.init
  BY <1>1, ConnNow DEF Alive, CheckpointOK, AtCkpt
<1>5. shm.backfill >= shm.h0.mx
  BY <1>1 DEF Durable, ClosingOK, AtCkpt
<1>6. db = committed /\ Clean
  BY <1>4, <1>5, FileCommitted DEF Durable, HeadOK
<1>7. ASSUME NEW d \in Conn \ {c}
      PROVE  /\ con[d].at # "copy" /\ ~Appends(con[d])'
             /\ WriterFits(con[d])' /\ SaltsKept(con[d])' /\ ClosingOK(con[d])'
  <2>1. con'[d] = con[d] /\ con[d].at = "closed" /\ ~con[d].nck
    BY <1>2 DEF Durable, SaltsKept
  <2>2. con[d].tid = 0 /\ con[d].goal # "close"
    BY <2>1, ConnNow DEF Locked, InPlace, AtWrite
  <2>3. ntxn' \in Nat
    BY Bounds DEF Inv, Types
  <2> QED
    BY <2>1, <2>2, <2>3 DEF WriterFits, SaltsKept, ClosingOK, Appends
<1> QED
  BY <1>1, <1>3, <1>6, <1>7, ClosedState, NoLogKeeps, Zenon

-----------------------------------------------------------------------------
(* A power failure leaves one of the logs and one of the files that the    *)
(* disk may have.                                                          *)
LEMMA PowerLossLeaves ==
  ASSUME Inv, Inv', PowerLoss
  PROVE  /\ \A p \in Page : db'[p] = db[p] \/ dbOld[p] # {}
         /\ Clean => db' = db
         /\ \/ wal' \in Left /\ wal'.head \in headOld \cup {wal.head}
               /\ \A i \in Index : wal'.frame[i] \in Versions(i)
            \/ cutOld # NoWal /\ wal' = cutOld
<1>0. db \in Image
  BY DEF Inv, Types, FileTypes
<1>1. PICK d \in [Page -> UNION {dbOld[p] \cup {db[p]} : p \in Page}] :
        (\A p \in Page : d[p] \in dbOld[p] \cup {db[p]}) /\ db' = d
  BY DEF PowerLoss
<1>2. \A p \in Page : db'[p] = db[p] \/ dbOld[p] # {}
  BY <1>1
<1>3. Clean => db' = db
  BY <1>0, <1>1 DEF Clean, Image
<1>4. ASSUME NEW f \in [Index -> UNION {walOld[i] \cup {wal.frame[i]} : i \in Index}],
             NEW h \in headOld \cup {wal.head},
             \A i \in Index : f[i] \in walOld[i] \cup {wal.frame[i]},
             wal' = [head |-> h, frame |-> f]
      PROVE  wal' \in Left /\ wal'.head \in headOld \cup {wal.head}
             /\ \A i \in Index : wal'.frame[i] \in Versions(i)
  <2>1. \A i \in Index : f[i] \in Versions(i) /\ wal'.frame[i] = f[i]
    BY <1>4 DEF Versions
  <2>2. wal'.head = h /\ h \in Heads
    BY <1>4 DEF Heads
  <2>3. wal' \in LogType
    BY DEF Inv, Types, FileTypes
  <2> QED
    BY <1>4, <2>1, <2>2, <2>3, LeftIs
<1> QED
  BY <1>2, <1>3, <1>4 DEF PowerLoss

(* What recovery makes of them is not lost.                                *)
LEMMA PowerLossSurvives ==
  ASSUME Inv, Inv', Durable, PowerLoss
  PROVE  Made(wal', db', LastCommit(wal')) \in Outcomes
<1>1. PICK k \in 0 .. MaxFrame : Floor(k)
  BY DEF Durable
<1>2. wal \in LogType /\ wal' \in LogType
  BY DEF Inv, Types, FileTypes
<1>3. CASE Clean
  <2>1. db' = db
    BY <1>3, PowerLossLeaves
  <2>2. CASE wal' \in Left
    BY <1>1, <2>1, <2>2, LastSurvives DEF Floor
  <2>3. CASE cutOld # NoWal /\ wal' = cutOld
    BY <2>1, <2>3 DEF Durable, CutOK
  <2> QED
    BY <2>2, <2>3, PowerLossLeaves
<1>4. CASE ~Clean
  <2>1. Settled /\ k \in Ends(wal) /\ OnDisk(k) /\ k \in Nat
    BY <1>1, <1>4, Bounds DEF Clean, Floor, Covers
  <2>2. wal' \in Left /\ wal'.head = wal.head /\ \A i \in Index : wal'.frame[i] \in Versions(i)
    BY <2>1, PowerLossLeaves DEF Settled
  <2>3. \A i \in 1 .. k : wal'.frame[i] = wal.frame[i]
    <3>1. \A i \in 1 .. k : i \in Index
      BY <2>1, Bounds DEF Index
    <3> QED
      BY <2>1, <2>2, <3>1 DEF OnDisk, Versions
  <2>4. PICK l : l = LastCommit(wal')
    OBVIOUS
  <2>5. l \in 0 .. MaxFrame /\ l >= k /\ l \in Nat
    <3>1. k \in 0 .. k
      BY <2>1
    <3>2. k \in Ends(wal')
      BY <1>1, <1>2, <2>1, <2>2, <2>3, <3>1, SamePrefix
    <3>3. l \in Ends(wal') /\ k <= l
      BY <1>2, <2>4, <3>2, LastEnd
    <3>4. l \in 0 .. MaxFrame
      BY <1>2, <3>3, EndsIs
    <3> QED
      BY <2>1, <3>3, <3>4, Bounds
  <2>6. \A p \in Page : db'[p] = db[p] \/ \E i \in 1 .. l : wal'.frame[i].pg = p
    <3>1. \A p \in Page : db'[p] = db[p] \/ \E i \in 1 .. k : wal.frame[i].pg = p
      BY <1>1, PowerLossLeaves DEF Floor, Covers
    <3>2. \A i \in 1 .. k : i \in 1 .. l
      BY <2>1, <2>5
    <3> QED
      BY <2>3, <3>1, <3>2
  <2>7. Made(wal', db', l) = Made(wal', db, l)
    BY <2>5, <2>6, MadeCovered
  <2>8. Made(wal', db, LastCommit(wal')) \in Outcomes
    BY <1>1, <2>2, LastSurvives DEF Floor
  <2> QED
    BY <2>4, <2>7, <2>8
<1> QED
  BY <1>3, <1>4

(* So nothing that was committed is lost.                                  *)
LEMMA PowerLossKeeps ==
  ASSUME Inv, Inv', Durable, PowerLoss
  PROVE  Durable'
<1>1. /\ con' = [c \in Conn |-> Closed] /\ shm' = NoShm /\ dbOld' = [p \in Page |-> {}]
      /\ walOld' = [i \in Index |-> {}] /\ headOld' = {} /\ cutOld' = NoWal
      /\ committed' = committed /\ doubt' = doubt /\ ntxn' = ntxn
  BY DEF PowerLoss, SyncWal
<1>2. ~Alive' /\ \A c \in Conn : con'[c] = Closed
  BY <1>1, ClosedState DEF Alive
<1>3. wal' \in LogType
  BY DEF Inv, Types, FileTypes
<1>4. PICK l : l = LastCommit(wal')
  OBVIOUS
<1>5. l \in Ends(wal') /\ l \in 0 .. MaxFrame /\ \A j \in Ends(wal') : j <= l
  BY <1>3, <1>4, LastEnd, EndsIs
<1>6. Heads' = {wal'.head} /\ \A i \in Index : Versions(i)' = {wal'.frame[i]}
  BY <1>1, <1>2 DEF Heads, Empty, Versions
<1>7. ASSUME NEW w \in Left', NEW j \in Ends(w), j >= l \/ l \notin Ends(w)
      PROVE  Made(w, db', j) \in Outcomes'
  <2>1. w \in LogType /\ w.head = wal'.head /\ \A i \in Index : w.frame[i] = wal'.frame[i]
    BY <1>6, LeftThen
  <2>2. \A i \in 1 .. MaxFrame : w.frame[i] = wal'.frame[i] /\ wal'.frame[i] = w.frame[i]
    BY <2>1 DEF Index
  <2>3. j \in 0 .. MaxFrame /\ MaxFrame \in 0 .. MaxFrame
    BY <2>1, EndsIs, Bounds
  <2>4. l \in Ends(w)
    BY <1>3, <1>5, <2>1, <2>2, <2>3, SamePrefix
  <2>5. j \in Ends(wal') /\ Made(w, db', j) = Made(wal', db', j)
    BY <1>3, <2>1, <2>2, <2>3, SamePrefix
  <2>6. j = l
    <3>1. j >= l /\ j <= l
      BY <1>5, <1>7, <2>4, <2>5
    <3> QED
      BY <1>5, <2>3, <3>1, Bounds
  <2> QED
    BY <1>1, <1>4, <2>5, <2>6, PowerLossSurvives DEF Outcomes
<1>8. Floor(l)'
  <2>1. OnDisk(l)'
    <3>1. \A i \in 1 .. l : i \in Index
      BY <1>5, Bounds DEF Index
    <3> QED
      BY <1>1, <3>1 DEF OnDisk
  <2>2. Survives(l)'
    BY <1>7 DEF Survives
  <2>3. Covers(l)'
    BY <1>1, <1>2, ClosedState DEF Covers
  <2>4. \A c \in Conn : ~Appends(con[c])'
    BY <1>2, ClosedState DEF Appends
  <2> QED
    BY <1>2, <1>5, <2>1, <2>2, <2>3, <2>4 DEF Floor, Empty
<1>9. CutOK' /\ TailOK' /\ HeadOK'
  BY <1>1, <1>2 DEF CutOK, TailOK, HeadOK
<1>10. FramesOK'
  <2>1. FramesOK
    BY DEF Durable
  <2>2. \A i \in Index : FrameFits(wal'.frame[i])
    BY <2>1, PowerLossLeaves DEF FramesOK
  <2>3. wal'.head \in headOld \cup {wal.head, cutOld.head}
    BY PowerLossLeaves
  <2>4. \A i \in Index : FrameFits(cutOld.frame[i])' /\ \A f \in Versions(i)' : FrameFits(f)'
    <3>1. \A i \in Index : NoWal.frame[i] = NoFrame
      BY DEF NoWal
    <3> QED
      BY <1>1, <1>6, <2>2, <3>1 DEF FrameFits
  <2>5. \A h \in headOld' \cup {wal'.head, cutOld'.head} : h.gen = 0 => h = NoHead
    BY <1>1, <2>1, <2>3, Nothing DEF FramesOK
  <2> QED
    BY <1>6, <2>4, <2>5 DEF FramesOK
<1>11. ASSUME NEW c \in Conn PROVE WriterFits(con[c])' /\ SaltsKept(con[c])' /\ ClosingOK(con[c])'
  <2>1. ntxn' \in Nat
    BY Bounds DEF Inv, Types
  <2> QED
    BY <1>2, <2>1, ClosedState DEF WriterFits, SaltsKept, ClosingOK
<1>12. \E y \in 0 .. MaxFrame : Floor(y)'
  BY <1>5, <1>8
<1> QED
  BY <1>9, <1>10, <1>11, <1>12 DEF Durable

-----------------------------------------------------------------------------
(* It holds of an empty database.                                          *)
LEMMA InitDurable ==
  ASSUME Init, Inv
  PROVE  Durable
<1>1. /\ dbOld = [p \in Page |-> {}] /\ wal = NoWal /\ walOld = [i \in Index |-> {}]
      /\ headOld = {} /\ cutOld = NoWal /\ shm = NoShm /\ committed = db /\ ntxn = 0
      /\ con = [c \in Conn |-> Idle(Closed)]
  BY DEF Init
<1>2. PICK n \in State : n = Idle(Closed) /\ n.at = "idle" /\ n.goal = "none" /\ n.tid = 0 /\ ~n.nck
  BY ClosedState, IdleState, IdleForm
<1>3. ~shm.h0.init /\ \A c \in Conn : con[c] = n
  BY <1>1, <1>2, Nothing
<1>4. /\ NoWal.head = NoHead /\ \A i \in Index : NoWal.frame[i] = NoFrame
  BY DEF NoWal
<1>5. \A i \in Index : Versions(i) = {NoFrame}
  BY <1>1, <1>4 DEF Versions
<1>6. ASSUME NEW w \in Left, NEW j \in Ends(w) PROVE Made(w, db, j) \in Outcomes
  <2>1. w \in LogType /\ \A i \in Index : w.frame[i] = NoFrame
    BY <1>5, LeftIs
  <2>2. j = 0
    BY <2>1, NoEnds
  <2>3. Made(w, db, 0) = db
    BY MadeNone DEF Inv, Types, FileTypes
  <2> QED
    BY <1>1, <2>2, <2>3 DEF Outcomes
<1>7. Floor(0)
  <2>1. \A i \in 1 .. 0 : FALSE
    OBVIOUS
  <2>2. 0 \in Ends(wal)
    BY DEF Ends
  <2>3. \A c \in Conn : ~Appends(con[c]) /\ con[c].at # "copy"
    BY <1>2, <1>3 DEF Appends
  <2> QED
    BY <1>1, <1>3, <1>6, <2>1, <2>2, <2>3 DEF Floor, OnDisk, Survives, Covers, Empty
<1>8. CutOK /\ TailOK /\ HeadOK
  BY <1>1, <1>3 DEF CutOK, TailOK, HeadOK
<1>9. FramesOK
  BY <1>1, <1>4, <1>5 DEF FramesOK, FrameFits
<1>10. \A c \in Conn : WriterFits(con[c]) /\ SaltsKept(con[c]) /\ ClosingOK(con[c])
  BY <1>1, <1>2, <1>3 DEF WriterFits, SaltsKept, ClosingOK
<1>11. 0 \in 0 .. MaxFrame
  BY Bounds
<1> QED
  BY <1>7, <1>8, <1>9, <1>10, <1>11 DEF Durable

(* Nothing happens.                                                        *)
LEMMA UnchangedDurable ==
  ASSUME Inv, Inv', Durable, UNCHANGED vars
  PROVE  Durable'
<1>1. /\ db' = db /\ dbOld' = dbOld /\ wal' = wal /\ walOld' = walOld /\ headOld' = headOld
      /\ cutOld' = cutOld /\ shm' = shm /\ con' = con /\ committed' = committed /\ doubt' = doubt
      /\ ntxn' = ntxn
  BY DEF vars, files, history
<1>2. /\ Again' = Again /\ Empty' = Empty /\ Alive' = Alive /\ With(Again)' = With(Again)
      /\ Heads' = Heads /\ \A i \in Index : Versions(i)' = Versions(i)
  <2>1. Again' = Again /\ Alive' = Alive
    BY <1>1 DEF Again, Alive
  <2>2. Empty' = Empty /\ With(Again)' = With(Again)
    BY <1>1, <2>1 DEF Empty, With
  <2> QED
    BY <1>1, <2>1, <2>2 DEF Heads, Versions
<1>3. Left' \subseteq Left
  BY <1>2, LeftIs, LeftThen
<1>4. PICK k \in 0 .. MaxFrame : Floor(k)
  BY DEF Durable
<1>5. Floor(k)'
  <2>1. OnDisk(k)' /\ Survives(k)' /\ Covers(k)'
    BY <1>1, <1>3, <1>4 DEF Floor, OnDisk, Survives, Outcomes, Covers, Settled
  <2>2. \A d \in Conn : Appends(con[d])' => Appends(con[d])
    BY <1>1 DEF Appends
  <2> QED
    BY <1>1, <1>2, <1>4, <2>1, <2>2 DEF Floor
<1>6. CutOK' /\ TailOK' /\ HeadOK'
  BY <1>1, <1>2 DEF Durable, CutOK, Outcomes, TailOK, HeadOK, Clean
<1>7. FramesOK'
  BY <1>1, <1>2 DEF Durable, FramesOK, FrameFits
<1>8. ASSUME NEW d \in Conn PROVE WriterFits(con[d])' /\ SaltsKept(con[d])' /\ ClosingOK(con[d])'
  BY <1>1, <1>2 DEF Durable, WriterFits, Settled, NoneOf, SaltsKept, ClosingOK, Reach
<1> QED
  BY <1>4, <1>5, <1>6, <1>7, <1>8 DEF Durable

(* A call of the VFS fails.                                                *)
LEMMA IoErrorDurable ==
  ASSUME Inv, Inv', Durable, NEW c \in Conn, IoError(c)
  PROVE  Durable'
<1>1. CASE con[c].at = "frame"
  BY <1>1, IoFrameKeeps
<1>2. CASE con[c].at = "copy" /\ ToCopy(con[c]) # {}
  BY <1>2, IoCopyKeeps
<1>3. CASE con[c].at # "frame" /\ ~(con[c].at = "copy" /\ ToCopy(con[c]) # {})
  <2>1. UNCHANGED files
    BY <1>3 DEF IoError, files
  <2> QED
    BY <2>1, IoErrorKeeps
<1> QED
  BY <1>1, <1>2, <1>3

(* The steps of a reader.                                                  *)
LEMMA ReadDurable ==
  ASSUME Inv, Inv', Durable, NEW c \in Conn, Read(c)
  PROVE  Durable'
BY HdrKeeps, RecoverKeeps, Recover2Keeps, Recover3Keeps, MarksKeep, LockMarkKeeps DEF Read

(* Those of a writer.                                                      *)
LEMMA WriteDurable ==
  ASSUME Inv, Inv', Durable, NEW c \in Conn, Write(c)
  PROVE  Durable'
<1>1. CASE AppendIndex(c)
  BY <1>1, AppendsKeep, SyncKeeps
<1> QED
  BY <1>1, BeginWriteKeeps, LogsKeep, ResetsKeep, Reset2Keeps, Reset3Keeps, HeaderKeeps,
     HeaderSyncKeeps, WriteFrameKeeps, PublishKeeps, RollbackKeeps DEF Write

(* Those of a checkpoint.                                                  *)
LEMMA CheckpointDurable ==
  ASSUME Inv, Inv', Durable, NEW c \in Conn, Checkpoint(c)
  PROVE  Durable'
<1>1. CASE Backfill(c)
  BY <1>1, CkptMarksKeep, BackfillKeeps
<1>2. CASE CkptEnd(c)
  BY <1>2, CkptEndKeeps, LastClosesKeeps
<1> QED
  BY <1>1, <1>2, CkptBeginKeeps, CkptMarksKeep, CopyKeeps, BackfilledKeeps, ResetsKeep, CutKeeps
     DEF Checkpoint

(* Any step.                                                               *)
LEMMA NextDurable ==
  ASSUME Inv, Inv', Durable, ~disturbed', [Next]_vars
  PROVE  Durable'
<1>1. ASSUME NEW c \in Conn, Open(c) \/ Close(c) \/ IoError(c) \/ Crash(c) PROVE Durable'
  BY <1>1, OpenKeeps, CkptBeginKeeps, IoErrorDurable, CrashKeeps
<1>2. ASSUME NEW c \in Conn, Read(c) \/ Write(c) \/ Checkpoint(c) PROVE Durable'
  BY <1>2, ReadDurable, WriteDurable, CheckpointDurable
<1> QED
  BY <1>1, <1>2, PowerLossKeeps, UnchangedDurable DEF Next

(* What a state of the invariant can be recovered to.                      *)
LEMMA DurableRecovers ==
  ASSUME Inv, Durable
  PROVE  Recovers
<1>1. PICK k \in 0 .. MaxFrame : Floor(k)
  BY DEF Durable
<1>2. Recovered(wal) = Made(wal, db, LastCommit(wal))
  BY DEF Recovered, Made
<1> QED
  BY <1>1, <1>2, LeftNow, LastSurvives DEF Floor, Recovers, Outcomes

(* sqlite3WalFrames syncs the log before a commit returns, walCheckpoint   *)
(* before it copies, and the database file before the log is written       *)
(* again: no crash, power failure or I/O error makes recovery lose what a  *)
(* commit has made durable.                                                *)
THEOREM CommitsSurvive == Spec => []Recoverable
<1>1. Init => Inv /\ Durable
  BY InitInv, InitDurable
<1>2. (disturbed \/ (Inv /\ Durable)) /\ [Next]_vars => (disturbed \/ (Inv /\ Durable))'
  BY NextInv, NextDurable, DisturbedStays
<1>3. disturbed \/ (Inv /\ Durable) => Recoverable
  BY DurableRecovers DEF Recoverable, Recovers
<1> QED
  BY <1>1, <1>2, <1>3, PTL DEF Spec

-----------------------------------------------------------------------------
(* The step that each action is in SnapshotStore.                          *)

(* What a connection sees, in the terms of SnapshotStore: a writer what is *)
(* committed, a reader what it has cached.                                 *)
Sight(r, im) == IF r.tid # 0 THEN im ELSE IF r.at = "read" THEN r.cache ELSE NoImage

StoreView   == [c \in Conn |-> View(c)]
StoreWriter == IF Writing = {} THEN NoConn ELSE CHOOSE c \in Writing : TRUE

Sights  == StoreView = [c \in Conn |-> Sight(con[c], committed)]
OneWriter ==
  /\ \A c \in Conn : con[c].tid # 0 =>
       StoreWriter = c /\ \A d \in Conn \ {c} : con[d].tid = 0
  /\ (\A c \in Conn : con[c].tid = 0) => StoreWriter = NoConn

(* Whoever writes has a transaction and the WRITE lock.                    *)
LEMMA WritesIs ==
  ASSUME Inv, NEW c \in Conn
  PROVE  /\ c \in Writing <=> con[c].tid # 0
         /\ InTransaction(c) <=> con[c].tid # 0 \/ con[c].at = "read"
         /\ con[c].at = "read" => ~con[c].wl /\ con[c].tid = 0
<1>1. InPlace(con[c]) /\ Locked(con[c])
  BY ConnNow
<1>2. con[c].at = "read" => ~con[c].wl /\ con[c].tid = 0
  BY <1>1 DEF InPlace, Locked, AtWrite, AtCkpt, AtReset
<1>3. con[c].tid # 0 <=> con[c].at \in AtWrite \/ con[c].goal = "write"
  BY <1>1 DEF Locked
<1>4. con[c].at \in AtWrite => con[c].goal = "write" \/ con[c].at \in {"write", "publish"}
  BY <1>1 DEF InPlace
<1>5. InTransaction(c) <=> con[c].tid # 0 \/ con[c].at = "read"
  BY <1>3, <1>4 DEF InTransaction, AtWrite
<1>6. con[c].tid # 0 => con[c].wl
  BY <1>1 DEF Locked
<1> QED
  BY <1>2, <1>5, <1>6 DEF Writing

(* The image that a writer has changed is the committed one.               *)
LEMMA SightIs ==
  ASSUME Inv, NEW c \in Conn
  PROVE  View(c) = Sight(con[c], committed)
<1>1. /\ con[c] \in State /\ committed \in Image /\ WriterOK(con[c], shm, committed)
      /\ SnapshotOK(con[c], shm, wal, db) /\ Locked(con[c])
  BY ConnNow
<1>2. CASE con[c].tid # 0
  <2>1. con[c].wl /\ InTransaction(c)
    BY <1>1, <1>2, WritesIs DEF Locked
  <2>2. \A p \in Page : con[c].cache[p] # con[c].tid => con[c].cache[p] = committed[p]
    BY <1>1, <1>2 DEF WriterOK
  <2>3. View(c) = [p \in Page |-> committed[p]]
    BY <2>1, <2>2 DEF View
  <2> QED
    BY <1>1, <1>2, <2>3 DEF Sight, Image
<1>3. CASE con[c].at = "read"
  <2>1. ~con[c].wl /\ con[c].tid = 0 /\ InTransaction(c)
    BY <1>3, WritesIs
  <2>2. con[c].cache \in Image
    BY <1>1, <1>3 DEF SnapshotOK, State
  <2>3. View(c) = [p \in Page |-> con[c].cache[p]]
    BY <2>1 DEF View
  <2> QED
    BY <1>3, <2>1, <2>2, <2>3 DEF Sight, Image
<1>4. CASE con[c].tid = 0 /\ con[c].at # "read"
  BY <1>4, WritesIs DEF View, Sight
<1> QED
  BY <1>2, <1>3, <1>4

(* Of two connections one does not write.                                  *)
LEMMA WritesAlone ==
  ASSUME Inv, NEW c \in Conn, con[c].wl, NEW d \in Conn \ {c}
  PROVE  ~con[d].wl /\ con[d].tid = 0 /\ ~Owes(con[d])
<1>1. ~con[d].wl
  BY DEF Inv, PairOK, Apart
<1>2. con[d].tid = 0 /\ con[d].at \notin AtWrite
  BY <1>1, ConnNow, WriterAlone DEF Locked
<1> QED
  BY <1>1, <1>2 DEF Owes, AtWrite

(* What the state is for SnapshotStore.                                    *)
LEMMA StoreIs == Inv => Sights /\ OneWriter
<1> SUFFICES ASSUME Inv PROVE Sights /\ OneWriter
  OBVIOUS
<1>1. Sights
  BY SightIs DEF Sights, StoreView
<1>2. ASSUME NEW c \in Conn, con[c].tid # 0
      PROVE  StoreWriter = c /\ \A d \in Conn \ {c} : con[d].tid = 0
  <2>1. con[c].wl
    BY <1>2, ConnNow DEF Locked
  <2>2. \A d \in Conn \ {c} : con[d].tid = 0
    BY <2>1, WritesAlone
  <2>3. Writing = {c}
    <3>1. Writing \subseteq Conn
      BY DEF Writing
    <3> QED
      BY <1>2, <2>2, <3>1, WritesIs
  <2> QED
    BY <2>2, <2>3 DEF StoreWriter
<1>3. (\A c \in Conn : con[c].tid = 0) => StoreWriter = NoConn
  <2>1. Writing \subseteq Conn
    BY DEF Writing
  <2> QED
    BY <2>1, WritesIs DEF StoreWriter
<1> QED
  BY <1>1, <1>2, <1>3 DEF OneWriter

(* The same of the next state.                                             *)
LEMMA StoreIsNext == Inv' => Sights' /\ OneWriter'
BY StoreIs, PTL

Stored == [A!StoreNext]_(A!storeVars)

(* A step after which c has no transaction.                                *)
LEMMA StepOut ==
  ASSUME Inv, Inv', Promised, NEW c \in Conn, \A d \in Conn \ {c} : con'[d] = con[d],
         committed' = committed, doubt' = doubt, con'[c].tid = 0, con'[c].at # "read"
  PROVE  Stored /\ Promised'
<1> DEFINE V == StoreView
           W == StoreWriter
<1>1. Sights /\ OneWriter /\ Sights' /\ OneWriter'
  BY StoreIs, StoreIsNext
<1>2. V = [d \in Conn |-> Sight(con[d], committed)] /\ V' = [d \in Conn |-> Sight(con'[d], committed)]
  BY <1>1 DEF Sights, Sight
<1>3. Sight(con'[c], committed) = NoImage
  BY DEF Sight
<1>4. W' = IF W \in {c} THEN NoConn ELSE W
  <2>1. CASE \E d \in Conn \ {c} : con[d].tid # 0
    BY <1>1, <2>1 DEF OneWriter
  <2>2. CASE \A d \in Conn \ {c} : con[d].tid = 0
    <3>1. W' = NoConn
      BY <1>1, <2>2 DEF OneWriter
    <3>2. W = c \/ W = NoConn
      BY <1>1, <2>2 DEF OneWriter
    <3> QED
      BY <3>1, <3>2
  <2> QED
    BY <2>1, <2>2
<1>5. V' = [d \in Conn |-> IF d \in {c} THEN NoImage ELSE V[d]]
  <2> HIDE DEF V
  <2> QED
    BY <1>2, <1>3
<1> HIDE DEF V, W
<1>6. A!Stop({c})
  BY <1>4, <1>5 DEF A!Stop, V, W, StoreView, StoreWriter
<1>7. Stored
  BY <1>6 DEF Stored, A!StoreNext
<1>8. ~Owes(con'[c])
  <2>1. Locked(con[c])'
    BY DEF Inv, ConnOK
  <2> QED
    BY <2>1 DEF Owes, Locked, AtWrite
<1>9. Promised'
  BY <1>8 DEF Promised, Owes
<1> QED
  BY <1>7, <1>9

(* A step of a writer that goes on writing.                                *)
LEMMA StepIn ==
  ASSUME Inv, Inv', Promised, NEW c \in Conn, \A d \in Conn \ {c} : con'[d] = con[d],
         committed' = committed, doubt' \subseteq doubt, con[c].tid # 0, con'[c].tid # 0,
         Owes(con'[c]) => con'[c].cache \in doubt'
  PROVE  Stored /\ Promised'
<1> DEFINE V == StoreView
           W == StoreWriter
<1>1. Sights /\ OneWriter /\ Sights' /\ OneWriter'
  BY StoreIs, StoreIsNext
<1>2. V = [d \in Conn |-> Sight(con[d], committed)] /\ V' = [d \in Conn |-> Sight(con'[d], committed)]
  BY <1>1 DEF Sights, Sight
<1>3. Sight(con'[c], committed) = Sight(con[c], committed)
  BY DEF Sight
<1>4. W' = W
  BY <1>1 DEF OneWriter
<1>5. V' = V
  <2> HIDE DEF V
  <2> QED
    BY <1>2, <1>3
<1> HIDE DEF V, W
<1>6. A!Settle
  BY <1>4, <1>5 DEF A!Settle, V, W, StoreView, StoreWriter
<1>7. Stored
  BY <1>6 DEF Stored, A!StoreNext
<1>8. con[c].wl
  BY ConnNow DEF Locked
<1>9. \A d \in Conn \ {c} : ~Owes(con'[d])
  BY <1>8, WritesAlone DEF Owes
<1>10. Promised'
  BY <1>9 DEF Promised, Owes
<1> QED
  BY <1>7, <1>10

(* A reader with the newest header sees what is committed.                 *)
Newest == \A c \in Conn : con[c].at = "read" /\ con[c].hdr = shm.h0 => con[c].cache = committed

LEMMA NewestIs == Inv => Newest
<1> SUFFICES ASSUME Inv, NEW c \in Conn, con[c].at = "read", con[c].hdr = shm.h0
             PROVE  con[c].cache = committed
  BY DEF Newest
<1>1. /\ con[c] \in State /\ HdrKnown(con[c], shm, committed) /\ InPlace(con[c]) /\ Locked(con[c])
      /\ SnapshotOK(con[c], shm, wal, db)
  BY ConnNow
<1>2. con[c].goal = "none" /\ con[c].tid = 0 /\ con[c].hdr.init /\ con[c].cache # NoImage
  BY <1>1, WritesIs DEF InPlace, SnapshotOK
<1>3. Describes(con[c])
  BY <1>1, <1>2 DEF Describes, Locked
<1> QED
  BY <1>1, <1>3 DEF HdrKnown

(* After the step as well.                                                 *)
LEMMA NewestNext == Inv' => Newest'
BY NewestIs, PTL

(* A step that begins to read.                                             *)
LEMMA StepReads ==
  ASSUME Inv, Inv', Promised, NEW c \in Conn, \A d \in Conn \ {c} : con'[d] = con[d],
         committed' = committed, doubt' = doubt, con[c].tid = 0, con[c].at # "read",
         con'[c].at = "read", con'[c].tid = 0, con'[c].hdr = shm'.h0
  PROVE  Stored /\ Promised'
<1> DEFINE V == StoreView
           W == StoreWriter
<1>1. Sights /\ OneWriter /\ Sights' /\ OneWriter'
  BY StoreIs, StoreIsNext
<1>2. V = [d \in Conn |-> Sight(con[d], committed)] /\ V' = [d \in Conn |-> Sight(con'[d], committed)]
  BY <1>1 DEF Sights, Sight
<1>3. con'[c].cache = committed
  BY NewestNext DEF Newest
<1>4. Sight(con'[c], committed) = committed /\ Sight(con[c], committed) = NoImage
  BY <1>3 DEF Sight
<1>5. W' = W
  BY <1>1 DEF OneWriter
<1>6. V[c] = NoImage /\ V' = [V EXCEPT ![c] = committed]
  <2> HIDE DEF V
  <2> QED
    BY <1>2, <1>4
<1> HIDE DEF V, W
<1>7. A!StartRead(c)
  BY <1>5, <1>6 DEF A!StartRead, V, W, StoreView, StoreWriter
<1>8. Promised'
  BY DEF Promised, Owes
<1> QED
  BY <1>7, <1>8 DEF Stored, A!StoreNext

(* A step that begins to write.                                            *)
LEMMA StepWrites ==
  ASSUME Inv, Inv', Promised, NEW c \in Conn, \A d \in Conn \ {c} : con'[d] = con[d],
         committed' = committed, doubt' = doubt, con[c].at = "read", con[c].hdr = shm.h0,
         \A d \in Conn \ {c} : con[d].tid = 0, con'[c].tid # 0, ~Owes(con'[c])
  PROVE  Stored /\ Promised'
<1> DEFINE V == StoreView
           W == StoreWriter
<1>1. Sights /\ OneWriter /\ Sights' /\ OneWriter'
  BY StoreIs, StoreIsNext
<1>2. V = [d \in Conn |-> Sight(con[d], committed)] /\ V' = [d \in Conn |-> Sight(con'[d], committed)]
  BY <1>1 DEF Sights, Sight
<1>3. con[c].cache = committed /\ con[c].tid = 0
  BY NewestIs, WritesIs DEF Newest
<1>4. Sight(con'[c], committed) = committed /\ Sight(con[c], committed) = committed
  BY <1>3 DEF Sight
<1>5. W = NoConn /\ W' = c
  BY <1>1, <1>3 DEF OneWriter
<1>6. V[c] = committed /\ V' = V
  <2> HIDE DEF V
  <2> QED
    BY <1>2, <1>4
<1> HIDE DEF V, W
<1>7. A!StartWrite(c)
  BY <1>5, <1>6 DEF A!StartWrite, V, W, StoreView, StoreWriter
<1>8. Promised'
  BY DEF Promised, Owes
<1> QED
  BY <1>7, <1>8 DEF Stored, A!StoreNext

(* One that gives up writing and reads on.                                 *)
LEMMA StepAbandons ==
  ASSUME Inv, Inv', Promised, NEW c \in Conn, \A d \in Conn \ {c} : con'[d] = con[d],
         committed' = committed, doubt' = doubt, con[c].tid # 0,
         con'[c].at = "read", con'[c].tid = 0, con'[c].hdr = shm'.h0
  PROVE  Stored /\ Promised'
<1> DEFINE V == StoreView
           W == StoreWriter
<1>1. Sights /\ OneWriter /\ Sights' /\ OneWriter'
  BY StoreIs, StoreIsNext
<1>2. V = [d \in Conn |-> Sight(con[d], committed)] /\ V' = [d \in Conn |-> Sight(con'[d], committed)]
  BY <1>1 DEF Sights, Sight
<1>3. con'[c].cache = committed
  BY NewestNext DEF Newest
<1>4. Sight(con'[c], committed) = committed /\ Sight(con[c], committed) = committed
  BY <1>3 DEF Sight
<1>5. W = c /\ W' = NoConn
  BY <1>1 DEF OneWriter
<1>6. V' = V
  <2> HIDE DEF V
  <2> QED
    BY <1>2, <1>4
<1> HIDE DEF V, W
<1>7. A!Abandon(c)
  BY <1>5, <1>6 DEF A!Abandon, V, W, StoreView, StoreWriter
<1>8. Promised'
  BY DEF Promised, Owes
<1> QED
  BY <1>7, <1>8 DEF Stored, A!StoreNext

(* One that writes the last frame of a commit.                             *)
LEMMA StepPrepares ==
  ASSUME Inv, Inv', Promised, NEW c \in Conn, \A d \in Conn \ {c} : con'[d] = con[d],
         committed' = committed, doubt' = doubt \cup {con[c].cache}, con[c].tid # 0,
         con'[c].tid # 0, con'[c].cache = con[c].cache
  PROVE  Stored /\ Promised'
<1> DEFINE V == StoreView
           W == StoreWriter
<1>1. Sights /\ OneWriter /\ Sights' /\ OneWriter'
  BY StoreIs, StoreIsNext
<1>2. V = [d \in Conn |-> Sight(con[d], committed)] /\ V' = [d \in Conn |-> Sight(con'[d], committed)]
  BY <1>1 DEF Sights, Sight
<1>3. Sight(con'[c], committed) = Sight(con[c], committed)
  BY DEF Sight
<1>4. W = c /\ W' = W
  BY <1>1 DEF OneWriter
<1>5. V' = V
  <2> HIDE DEF V
  <2> QED
    BY <1>2, <1>3
<1>6. con[c].cache \in Image
  BY ConnNow DEF WriterOK, State
<1> HIDE DEF V, W
<1>7. A!Prepare(c)
  BY <1>4, <1>5, <1>6 DEF A!Prepare, V, W, StoreView, StoreWriter
<1>8. Promised'
  BY DEF Promised, Owes
<1> QED
  BY <1>7, <1>8 DEF Stored, A!StoreNext

(* The commit.                                                             *)
LEMMA PublishStored ==
  ASSUME Inv, Inv', Promised, NEW c \in Conn, Publish(c)
  PROVE  Stored /\ Promised'
<1> DEFINE V == StoreView
           W == StoreWriter
<1>0. PICK r \in State : r = con[c]
  BY DEF Inv, Types
<1>1. PICK n : n = [r EXCEPT !.at = "read", !.wl = FALSE, !.tid = 0]
  OBVIOUS
<1>2. n.at = "read" /\ n.tid = 0 /\ n.cache = r.cache
  BY <1>1 DEF State
<1>3. con'[c] = n /\ \A d \in Conn \ {c} : con'[d] = con[d]
  <2>1. con' = [con EXCEPT ![c] = n]
    BY <1>0, <1>1 DEF Publish
  <2> QED
    BY <2>1, ConnTypes DEF Inv
<1>4. /\ con[c].at = "publish" /\ committed' = r.cache
      /\ doubt' = IF SyncFull THEN {} ELSE (doubt \cup {committed}) \ {committed'}
  BY <1>0 DEF Publish
<1>5. con[c].tid # 0 /\ con[c].wl
  BY <1>4, ConnNow DEF Locked, AtWrite
<1>6. committed' \in doubt
  BY <1>0, <1>4 DEF Promised, Owes
<1>7. \A d \in Conn \ {c} : con[d].tid = 0 /\ ~Owes(con[d])
  BY <1>5, WritesAlone
<1>8. Sights /\ OneWriter /\ Sights' /\ OneWriter'
  BY StoreIs, StoreIsNext
<1>9. V = [d \in Conn |-> Sight(con[d], committed)] /\ V' = [d \in Conn |-> Sight(con'[d], committed')]
  BY <1>8 DEF Sights, Sight
<1>10. /\ Sight(con'[c], committed') = committed'
       /\ \A d \in Conn \ {c} : Sight(con'[d], committed') = Sight(con[d], committed)
  BY <1>2, <1>3, <1>4, <1>7 DEF Sight
<1>11. W = c /\ W' = NoConn
  BY <1>2, <1>3, <1>5, <1>7, <1>8 DEF OneWriter
<1>12. V' = [V EXCEPT ![c] = committed']
  <2> HIDE DEF V
  <2> QED
    BY <1>9, <1>10
<1>13. doubt' \subseteq IF SyncFull THEN {} ELSE doubt \cup {committed}
  BY <1>4
<1> HIDE DEF V, W
<1>14. A!Replace(c)
  BY <1>6, <1>11, <1>12, <1>13 DEF A!Replace, V, W, StoreView, StoreWriter
<1>15. Promised'
  BY <1>2, <1>3, <1>7 DEF Promised, Owes
<1> QED
  BY <1>14, <1>15 DEF Stored, A!StoreNext

(* Recovery, which nobody watches.                                         *)
LEMMA Recover2Stored ==
  ASSUME Inv, Inv', Recovers, NEW c \in Conn, Recover2(c)
  PROVE  Stored /\ Promised'
<1> DEFINE V == StoreView
           W == StoreWriter
<1>0. PICK r \in State : r = con[c]
  BY DEF Inv, Types
<1>1. PICK n : n = [r EXCEPT !.at = "recover3"]
  BY Zenon
<1>2. n.at = "recover3" /\ n.tid = r.tid
  BY <1>1 DEF State
<1>3. con'[c] = n /\ \A d \in Conn \ {c} : con'[d] = con[d]
  <2>1. con' = [con EXCEPT ![c] = n]
    BY <1>0, <1>1 DEF Recover2
  <2> QED
    BY <2>1, ConnTypes DEF Inv
<1>4. /\ con[c].at = "recover2" /\ committed' = Recovered(wal)
      /\ doubt' = (doubt \cup {committed}) \ {committed'}
  BY DEF Recover2
<1>5. con[c].tid = 0 /\ con[c].wl /\ con[c].ex = {0} \cup Slots
  <2>1. InPlace(con[c]) /\ Locked(con[c]) /\ InRecovery(con[c])
    BY <1>4, ConnNow DEF InRecovery
  <2>2. con[c].goal # "write" /\ con[c].at \notin AtWrite
    BY <1>4, <2>1 DEF InPlace, AtHdr, AtWrite
  <2> QED
    BY <1>4, <2>1, <2>2 DEF Locked
<1>6. ASSUME NEW d \in Conn \ {c} PROVE con[d].tid = 0 /\ con[d].at # "read" /\ ~Owes(con[d])
  <2>1. con[d].tid = 0 /\ ~Owes(con[d])
    BY <1>5, WritesAlone
  <2>2. con[d].rl \notin con[c].ex
    BY DEF Inv, PairOK, Apart
  <2>3. con[d].rl \in -1 .. NReader - 1 /\ Locked(con[d])
    BY ConnNow, Zenon DEF State
  <2>4. con[d].rl = -1
    BY <1>5, <2>2, <2>3, Bounds DEF Slots
  <2> QED
    BY <2>1, <2>3, <2>4 DEF Locked
<1>7. Sights /\ OneWriter /\ Sights' /\ OneWriter'
  BY StoreIs, StoreIsNext
<1>8. V = [d \in Conn |-> Sight(con[d], committed)] /\ V' = [d \in Conn |-> Sight(con'[d], committed')]
  BY <1>7 DEF Sights, Sight
<1>9. ASSUME NEW d \in Conn PROVE Sight(con[d], committed) = NoImage /\ Sight(con'[d], committed') = NoImage
  <2>1. CASE d = c
    BY <1>0, <1>2, <1>3, <1>4, <1>5, <2>1 DEF Sight
  <2>2. CASE d # c
    BY <1>3, <1>6, <2>2 DEF Sight
  <2> QED
    BY <2>1, <2>2
<1>10. W = NoConn /\ W' = NoConn
  <2>1. (\A d \in Conn : con[d].tid = 0) /\ \A d \in Conn : con'[d].tid = 0
    BY <1>0, <1>2, <1>3, <1>5, <1>6
  <2> QED
    BY <1>7, <2>1 DEF OneWriter
<1>11. V' = V /\ \A d \in Conn : V[d] = NoImage
  <2> HIDE DEF V
  <2> QED
    BY <1>8, <1>9
<1>12. committed' \in {committed} \cup doubt /\ doubt' \in SUBSET (doubt \cup {committed})
  BY <1>4 DEF Recovers
<1> HIDE DEF V, W
<1>13. A!Recover
  BY <1>10, <1>11, <1>12, Zenon DEF A!Recover, V, W, StoreView, StoreWriter
<1>14. Promised'
  BY <1>2, <1>3, <1>6 DEF Promised, Owes
<1> QED
  BY <1>13, <1>14 DEF Stored, A!StoreNext

(* All of the log that counts, when a commit has written its last frame.   *)
LEMMA OwedRecovered ==
  ASSUME Inv, Durable, NEW c \in Conn, Owes(con[c]), shm.h0.mx > 0
  PROVE  Recovered(wal) = con[c].cache
<1>0. PICK r \in State : r = con[c]
  BY DEF Inv, Types
<1>1. /\ shm \in ShmType /\ wal \in LogType /\ db \in Image /\ committed \in Image /\ TailOK
      /\ WrittenOK(con[c], shm, wal) /\ WriterOK(con[c], shm, committed) /\ JobOK(con[c])
      /\ Locked(con[c]) /\ InPlace(con[c])
  BY ConnNow DEF Durable
<1>2. Alive /\ r.tid # 0 /\ shm.h0.init /\ r.at \in {"index", "publish"} /\ r.goal \in {"write", "none"}
      /\ (r.at = "publish" => r.goal = "none")
  BY <1>0, <1>1 DEF Owes, Alive, Locked, InPlace, AtWrite, WriterOK
<1>3. /\ shm.h0.mx \in Nat /\ r.hdr.mx \in 0 .. MaxFrame /\ r.hdr.mx \in Nat
      /\ r.log \in Seq(Page) /\ Len(r.log) \in Nat
  <2>1. shm.h0.mx \in 0 .. MaxFrame /\ r.hdr.mx \in 0 .. MaxFrame
    BY <1>1, ShmTypes, StateTypes
  <2>2. r.log \in Seq(Page)
    BY DEF State
  <2>3. Len(r.log) \in Nat
    BY <2>2
  <2> QED
    BY <2>1, <2>2, <2>3
<1>4. /\ wal.head # NoHead /\ wal.head.gen = shm.h0.gen /\ Made(wal, db, shm.h0.mx) = committed
  BY <1>2, IndexEnd
<1>5. r.job = {}
  BY <1>0, <1>1, <1>2 DEF JobOK
<1>6. \E m \in Index : /\ m > shm.h0.mx /\ Chained(wal.head.gen, m, wal) /\ wal.frame[m].com
                       /\ Made(wal, db, m) = r.cache
  <2>1. CASE r.at = "index"
    <3>1. PICK m : m = Reach(con[c])
      OBVIOUS
    <3>2. /\ shm.h0.mx <= m /\ m \in 0 .. MaxFrame /\ m \in Nat /\ Chained(wal.head.gen, m, wal)
          /\ \A i \in shm.h0.mx + 1 .. m : wal.frame[i].tid = con[c].tid
          /\ Changed(con[c], shm) = con[c].job \cup {wal.frame[i].pg : i \in shm.h0.mx + 1 .. m}
      BY <1>0, <2>1, <3>1, WriterChain
    <3>3. Made(wal, db, m) = r.cache
      <4>1. shm.h0.mx \in 0 .. m
        BY <1>3, <3>2
      <4>2. Changed(con[c], shm) = {wal.frame[i].pg : i \in shm.h0.mx + 1 .. m}
        BY <1>0, <1>5, <3>2
      <4> QED
        BY <1>0, <2>1, <3>2, <4>1, <4>2, WriterMakes
    <3>4. m > shm.h0.mx /\ m \in Index
      <4>1. r.log # <<>> /\ r.hdr.mx >= shm.h0.mx
        BY <1>0, <1>1, <1>2, <2>1 DEF JobOK, WriterOK, AtReset
      <4>2. Len(r.log) # 0
        BY <1>3, <4>1
      <4> QED
        BY <1>0, <1>3, <3>1, <3>2, <4>1, <4>2, Bounds DEF Reach, Index
    <3>5. wal.frame[m].com
      BY <1>0, <1>1, <2>1, <3>1 DEF WrittenOK, Reach, Owes
    <3> QED
      BY <3>2, <3>3, <3>4, <3>5
  <2>2. CASE r.at = "publish"
    <3>1. /\ Chained(r.hdr.gen, r.hdr.mx, wal) /\ Indexed(r.hdr.mx, shm, wal)
          /\ \A i \in shm.h0.mx + 1 .. r.hdr.mx : wal.frame[i].tid = r.tid
          /\ r.hdr.mx > shm.h0.mx /\ wal.frame[r.hdr.mx].com
      BY <1>0, <1>1, <2>2 DEF WrittenOK
    <3>2. r.log = <<>>
      BY <1>0, <1>1, <2>2 DEF JobOK
    <3>3. IndexOK(shm, wal, db, committed)
      BY <1>2 DEF Inv, ShmOK
    <3>4. /\ r.cache \in Image
          /\ \A p \in Page : r.cache[p] = IF p \in Changed(r, shm) THEN r.tid ELSE committed[p]
      BY <1>0, <1>1, <1>2 DEF WriterOK, State
    <3>5. r.cache = Overlay(r.hdr.mx, shm, wal, db)
      <4>1. shm.h0.mx <= r.hdr.mx
        BY <1>3, <3>1
      <4>2. shm \in ShmType /\ db \in Image /\ committed \in Image
        BY <1>1
      <4>3. \A i \in shm.h0.mx + 1 .. r.hdr.mx : wal.frame[i].tid = r.tid
        BY <3>1
      <4>4. shm.h0.init /\ r.cache \in Image /\ r.job = {} /\ r.log = <<>>
        BY <1>2, <1>5, <3>2, <3>4
      <4>5. \A p \in Page : r.cache[p] = IF p \in Changed(r, shm) THEN r.tid ELSE committed[p]
        BY <3>4
      <4> QED
        BY <3>3, <4>1, <4>2, <4>3, <4>4, <4>5, PublishedImage, Zenon
    <3>6. Made(wal, db, r.hdr.mx) = r.cache
      BY <1>3, <3>1, <3>5, MadeOverlay
    <3>7. r.hdr.mx \in Index /\ r.hdr.gen = wal.head.gen
      BY <1>3, <3>1, Bounds DEF Index, Chained
    <3> QED
      BY <3>1, <3>6, <3>7
  <2> QED
    BY <1>2, <2>1, <2>2
<1>7. PICK m \in Index : /\ m > shm.h0.mx /\ Chained(wal.head.gen, m, wal) /\ wal.frame[m].com
                         /\ Made(wal, db, m) = r.cache
  BY <1>6
<1>8. /\ With(Again) \in LogType /\ With(Again).head = Again /\ With(Again).frame = wal.frame
      /\ Again # NoHead /\ Again.gen = wal.head.gen
  <2>1. Again # NoHead /\ Again.gen = shm.h0.gen
    BY DEF Again, NoHead
  <2> QED
    BY <1>4, <2>1, LeftTypes, WithIs
<1>9. m \in Ends(With(Again))
  <2>1. Chained(With(Again).head.gen, m, With(Again))
    BY <1>7, <1>8 DEF Chained
  <2>2. m # 0
    BY <1>7, Bounds DEF Index
  <2> QED
    BY <1>7, <1>8, <2>1, <2>2, EndsIs
<1>10. m = LastCommit(With(Again))
  BY <1>1, <1>2, <1>7, <1>9, TailEnds
<1>11. LastCommit(wal) = m
  BY <1>4, <1>8, <1>10, SameLast
<1> QED
  BY <1>0, <1>7, <1>11 DEF Recovered, Made

(* The sync before a checkpoint copies: what is left in doubt is in the    *)
(* log.                                                                    *)
LEMMA BackfillStored ==
  ASSUME Inv, Inv', Durable, Promised, NEW c \in Conn, Backfill(c)
  PROVE  Stored /\ Promised'
<1> DEFINE V == StoreView
           W == StoreWriter
<1>0. PICK r \in State : r = con[c]
  BY DEF Inv, Types
<1>1. PICK m, n : m = [r EXCEPT !.at = "done"]
                  /\ n = [r EXCEPT !.at = "copy", !.ex = {0}, !.bf = shm.backfill]
  BY Zenon
<1>2. m.at = "done" /\ n.at = "copy" /\ n.tid = r.tid /\ m.tid = r.tid
  BY <1>1 DEF State
<1>3. /\ con[c].at = "backfill" /\ committed' = committed
      /\ \/ con' = [con EXCEPT ![c] = m] /\ doubt' = doubt
         \/ con' = [con EXCEPT ![c] = n] /\ doubt' = Remaining(wal) /\ shm.backfill < con[c].safe
  BY <1>0, <1>1 DEF Backfill
<1>4. r.tid = 0
  BY <1>0, <1>3, ConnNow DEF InPlace, Locked, Checkpointing, AtWrite, AtCkpt
<1>5. CASE con' = [con EXCEPT ![c] = m] /\ doubt' = doubt
  <2>1. con'[c] = m /\ \A d \in Conn \ {c} : con'[d] = con[d]
    BY <1>5, ConnTypes DEF Inv
  <2> QED
    BY <1>2, <1>3, <1>4, <1>5, <2>1, StepOut
<1>6. CASE con' = [con EXCEPT ![c] = n] /\ doubt' = Remaining(wal) /\ shm.backfill < con[c].safe
  <2>1. con'[c] = n /\ \A d \in Conn \ {c} : con'[d] = con[d]
    BY <1>6, ConnTypes DEF Inv
  <2>2. Sights /\ OneWriter /\ Sights' /\ OneWriter'
    BY StoreIs, StoreIsNext
  <2>3. /\ V = [d \in Conn |-> Sight(con[d], committed)]
        /\ V' = [d \in Conn |-> Sight(con'[d], committed)]
    BY <1>3, <2>2 DEF Sights, Sight
  <2>4. Sight(con'[c], committed) = Sight(con[c], committed) /\ con'[c].tid = con[c].tid
    BY <1>0, <1>2, <1>3, <1>4, <2>1 DEF Sight
  <2>5. \A d \in Conn : con'[d].tid = con[d].tid
    BY <2>1, <2>4
  <2>6. W' = W
    BY <2>2, <2>5 DEF OneWriter
  <2>7. V' = V
    <3> HIDE DEF V
    <3> QED
      BY <2>1, <2>3, <2>4
  <2>8. doubt' \in SUBSET doubt
    BY <1>6 DEF Remaining
  <2>9. A!Settle
    <3> HIDE DEF V, W
    <3> QED
      BY <1>3, <2>6, <2>7, <2>8 DEF A!Settle, V, W, StoreView, StoreWriter
  <2>10. shm.h0.mx > 0
    BY <1>3, <1>6, ToBackfill
  <2>11. ASSUME NEW d \in Conn, Owes(con'[d]) PROVE con'[d].cache \in doubt'
    <3>1. d # c
      BY <1>2, <2>1, <2>11 DEF Owes
    <3>2. con'[d] = con[d] /\ Owes(con[d]) /\ con[d].cache \in doubt
      BY <2>1, <2>11, <3>1 DEF Promised, Owes
    <3>3. Recovered(wal) = con[d].cache
      BY <2>10, <3>2, OwedRecovered
    <3> QED
      BY <1>6, <3>2, <3>3 DEF Remaining
  <2> QED
    BY <2>9, <2>11 DEF Stored, A!StoreNext, Promised, Owes
<1> QED
  BY <1>3, <1>5, <1>6

-----------------------------------------------------------------------------
(* The steps of a connection that does not read, nor write.                *)
LEMMA NotWriting ==
  ASSUME Inv, NEW c \in Conn,
         con[c].at \in {"closed", "idle", "hdr", "badhdr", "locked", "recover2", "recover3", "choose", "cut"}
                       \cup AtCkpt
           \/ (con[c].at \in AtLock \cup AtReset /\ con[c].goal # "write")
  PROVE  con[c].tid = 0
<1>1. InPlace(con[c]) /\ Locked(con[c])
  BY ConnNow
<1>2. con[c].goal # "write"
  BY <1>1 DEF InPlace, AtHdr, AtCkpt, Checkpointing
<1>3. con[c].at \notin AtWrite
  BY DEF AtWrite, AtLock, AtReset, AtCkpt
<1> QED
  BY <1>1, <1>2, <1>3 DEF Locked

(* A step to a record that says so.                                        *)
LEMMA MoveOut ==
  ASSUME Inv, Inv', Promised, NEW c \in Conn, NEW n, con' = [con EXCEPT ![c] = n],
         committed' = committed, doubt' = doubt, n.tid = 0, n.at # "read"
  PROVE  Stored /\ Promised'
<1>1. con'[c] = n /\ \A d \in Conn \ {c} : con'[d] = con[d]
  BY ConnTypes DEF Inv
<1> QED
  BY <1>1, StepOut

(* The header of the wal-index is read.                                    *)
LEMMA TryHdrStored ==
  ASSUME Inv, Inv', Promised, NEW c \in Conn, NEW r \in State, TryHdr(c, r), r.tid = 0
  PROVE  Stored /\ Promised'
<1>1. PICK n : n = IF Readable THEN Loaded(r) ELSE IF r.wl THEN Failed(r)
                   ELSE [r EXCEPT !.at = "badhdr"]
  BY Zenon
<1>2. con' = [con EXCEPT ![c] = n] /\ committed' = committed /\ doubt' = doubt
  BY <1>1 DEF TryHdr, history
<1>3. n.tid = 0 /\ n.at # "read"
  <2>1. CASE n = Loaded(r)
    BY <2>1, LoadedForm
  <2>2. CASE n = Failed(r)
    BY <2>2, IdleForm
  <2>3. CASE n = [r EXCEPT !.at = "badhdr"]
    BY <2>3 DEF State
  <2> QED
    BY <1>1, <2>1, <2>2, <2>3
<1> QED
  BY <1>2, <1>3, MoveOut, Zenon

(* A connection waits for its header, or recovers the wal-index.           *)
LEMMA HdrStored ==
  ASSUME Inv, Inv', Promised, NEW c \in Conn,
         \/ BeginRead(c) \/ RetryHdr(c) \/ LockHdr(c) \/ CannotLockHdr(c)
         \/ ReadLocked(c) \/ Recover(c) \/ CannotRecover(c) \/ Recover3(c) \/ EndRead(c)
  PROVE  Stored /\ Promised'
<1>0. PICK r \in State : r = con[c]
  BY DEF Inv, Types
<1>1. CASE BeginRead(c)
  <2>1. PICK q : q = [r EXCEPT !.goal = "read"]
    BY Zenon
  <2>2. q \in State /\ q.tid = r.tid
    BY <2>1, Zenon DEF State
  <2>3. TryHdr(c, q) /\ con[c].at = "idle"
    BY <1>0, <1>1, <2>1 DEF BeginRead
  <2> QED
    BY <1>0, <2>2, <2>3, NotWriting, TryHdrStored
<1>2. CASE RetryHdr(c)
  <2>1. TryHdr(c, r) /\ con[c].at = "hdr"
    BY <1>0, <1>2 DEF RetryHdr
  <2> QED
    BY <1>0, <2>1, NotWriting, TryHdrStored
<1>3. CASE LockHdr(c)
  <2>1. PICK n : n = [r EXCEPT !.wl = TRUE, !.at = "locked"]
    OBVIOUS
  <2>2. n.tid = r.tid /\ n.at = "locked"
    BY <2>1 DEF State
  <2>3. con' = [con EXCEPT ![c] = n] /\ committed' = committed /\ doubt' = doubt /\ con[c].at = "badhdr"
    BY <1>0, <1>3, <2>1 DEF LockHdr, history
  <2> QED
    BY <1>0, <2>2, <2>3, NotWriting, MoveOut, Zenon
<1>4. CASE CannotLockHdr(c)
  <2>1. PICK h, k, i : /\ h = [r EXCEPT !.at = "hdr"] /\ i = Idle(r)
                       /\ k = [i EXCEPT !.cache = NoImage]
    BY Zenon
  <2>2. h.tid = r.tid /\ h.at = "hdr"
    BY <2>1 DEF State
  <2>3. k.tid = 0 /\ k.at = "idle"
    <3>1. i \in State /\ i.tid = 0 /\ i.at = "idle"
      BY <2>1, IdleState
    <3> QED
      BY <2>1, <3>1 DEF State
  <2>4. PICK n \in {h, k, Failed(r)} : con' = [con EXCEPT ![c] = n]
    BY <1>0, <1>4, <2>1, Zenon DEF CannotLockHdr
  <2>5. committed' = committed /\ doubt' = doubt /\ con[c].at = "badhdr"
    BY <1>4 DEF CannotLockHdr, history
  <2>6. n.tid = 0 /\ n.at # "read"
    BY <1>0, <2>2, <2>3, <2>4, <2>5, NotWriting, IdleForm
  <2> QED
    BY <2>4, <2>5, <2>6, MoveOut, Zenon
<1>5. CASE ReadLocked(c) \/ Recover3(c)
  <2>1. PICK k, n, o : /\ k = Loaded(r) /\ n = [k EXCEPT !.wl = FALSE]
                       /\ o = [k EXCEPT !.wl = FALSE, !.ex = {}]
    BY Zenon
  <2>2. k.tid = r.tid /\ k.at # "read"
    BY <2>1, LoadedForm
  <2>3. n.tid = k.tid /\ n.at = k.at /\ o.tid = k.tid /\ o.at = k.at
    BY <2>1 DEF Loaded, State
  <2>4. /\ con' = [con EXCEPT ![c] = n] \/ con' = [con EXCEPT ![c] = o]
        /\ committed' = committed /\ doubt' = doubt /\ con[c].at \in {"locked", "recover3"}
    BY <1>0, <1>5, <2>1 DEF ReadLocked, Recover3, history
  <2>5. r.tid = 0
    BY <1>0, <2>4, NotWriting
  <2> QED
    BY <2>2, <2>3, <2>4, <2>5, MoveOut
<1>6. CASE Recover(c)
  <2>1. PICK n : n = [r EXCEPT
               !.at = "recover2", !.ex = {0} \cup Slots, !.chg = TRUE,
               !.hdr = RecoveredHdr(wal), !.nck = wal.head.nck]
    OBVIOUS
  <2>2. n.tid = r.tid /\ n.at = "recover2"
    BY <2>1 DEF State
  <2>3. con' = [con EXCEPT ![c] = n] /\ committed' = committed /\ doubt' = doubt /\ con[c].at = "locked"
    BY <1>0, <1>6, <2>1 DEF Recover, history
  <2> QED
    BY <1>0, <2>2, <2>3, NotWriting, MoveOut, Zenon
<1>7. CASE CannotRecover(c)
  <2>1. PICK h, k : h = [r EXCEPT !.at = "hdr", !.wl = FALSE, !.chg = TRUE] /\ k = [r EXCEPT !.chg = TRUE]
    BY Zenon
  <2>2. h.tid = r.tid /\ h.at = "hdr" /\ k \in State
    BY <2>1, Zenon DEF State
  <2>3. PICK n : n = IF r.goal = "read" THEN h ELSE Failed(k)
    OBVIOUS
  <2>4. con' = [con EXCEPT ![c] = n] /\ committed' = committed /\ doubt' = doubt /\ con[c].at = "locked"
    BY <1>0, <1>7, <2>1, <2>3 DEF CannotRecover, history
  <2>5. n.tid = 0 /\ n.at # "read"
    BY <1>0, <2>2, <2>3, <2>4, NotWriting, IdleForm
  <2> QED
    BY <2>4, <2>5, MoveOut, Zenon
<1>8. CASE EndRead(c)
  <2>1. PICK n : n = Idle(r)
    OBVIOUS
  <2>2. n.tid = 0 /\ n.at = "idle"
    BY <2>1, IdleState
  <2>3. con' = [con EXCEPT ![c] = n] /\ committed' = committed /\ doubt' = doubt
    BY <1>0, <1>8, <2>1 DEF EndRead, history
  <2> QED
    BY <2>2, <2>3, MoveOut, Zenon
<1> QED
  BY <1>1, <1>2, <1>3, <1>4, <1>5, <1>6, <1>7, <1>8

(* A step of a writer to another place.                                    *)
LEMMA MoveIn ==
  ASSUME Inv, Inv', Promised, NEW c \in Conn, NEW n, con' = [con EXCEPT ![c] = n],
         committed' = committed, doubt' \subseteq doubt, con[c].tid # 0, n.tid = con[c].tid,
         ~Owes(n)
  PROVE  Stored /\ Promised'
<1>1. con'[c] = n /\ \A d \in Conn \ {c} : con'[d] = con[d]
  BY ConnTypes DEF Inv
<1> QED
  BY <1>1, StepIn

(* A step of whoever it is to a place that is none of a transaction, or of *)
(* a writer before its last frame.                                         *)
LEMMA MoveOn ==
  ASSUME Inv, Inv', Promised, NEW c \in Conn, NEW n, con' = [con EXCEPT ![c] = n],
         committed' = committed, doubt' = doubt, n.tid = con[c].tid,
         n.at \notin {"read", "index", "publish"}
  PROVE  Stored /\ Promised'
<1>1. ~Owes(n)
  BY DEF Owes
<1> QED
  BY <1>1, MoveOut, MoveIn, Zenon

(* A reader gets its snapshot, or looks again.                             *)
LEMMA SnapshotStored ==
  ASSUME Inv, Inv', Promised, NEW c \in Conn, NEW r \in State, NEW n,
         con' = [con EXCEPT ![c] = n], n = Reading(r), r.tid = 0, r.hdr = shm'.h0,
         con[c].tid = 0, con[c].at # "read", committed' = committed, doubt' = doubt
  PROVE  Stored /\ Promised'
<1>1. con'[c] = n /\ \A d \in Conn \ {c} : con'[d] = con[d]
  BY ConnTypes DEF Inv
<1>2. n.at = "read" /\ n.tid = 0
  BY ReadingForm
<1>3. n.hdr = r.hdr
  BY DEF Reading, State
<1> QED
  BY <1>1, <1>2, <1>3, StepReads

(* The three steps of walTryBeginRead after the header.                    *)
LEMMA MarksStored ==
  ASSUME Inv, Inv', Promised, NEW c \in Conn, Choose(c) \/ Marks(c) \/ LockMark(c)
  PROVE  Stored /\ Promised'
<1>0. PICK r \in State : r = con[c]
  BY DEF Inv, Types
<1>1. committed' = committed /\ doubt' = doubt
  BY Zenon DEF Choose, Marks, LockMark, history
<1>2. Retry(r).tid = r.tid /\ Retry(r).at \in {"hdr", "marks"}
  BY ReadingForm
<1>3. CASE Choose(c)
  <2>1. PICK m, z : m = [r EXCEPT !.at = "marks"] /\ z = [r EXCEPT !.rl = 0]
    BY Zenon
  <2>2. m.tid = r.tid /\ m.at = "marks"
    BY <2>1 DEF State
  <2>3. z \in State /\ z.tid = r.tid /\ z.hdr = r.hdr
    <3>1. 0 \in -1 .. NReader - 1
      BY Bounds
    <3> QED
      BY <2>1, <3>1, Zenon DEF State
  <2>4. con[c].at = "choose" /\ shm' = shm
    BY <1>3 DEF Choose
  <2>5. r.tid = 0
    BY <1>0, <2>4, NotWriting
  <2>6. \/ con' = [con EXCEPT ![c] = m] \/ con' = [con EXCEPT ![c] = Retry(r)]
        \/ con' = [con EXCEPT ![c] = Reading(z)] /\ shm.h0 = r.hdr
    BY <1>0, <1>3, <2>1, Zenon DEF Choose
  <2>7. CASE con' = [con EXCEPT ![c] = Reading(z)] /\ shm.h0 = r.hdr
    BY <1>0, <1>1, <2>3, <2>4, <2>5, <2>7, SnapshotStored, Zenon
  <2> QED
    BY <1>0, <1>1, <1>2, <2>2, <2>5, <2>6, <2>7, MoveOut
<1>4. CASE Marks(c)
  <2>1. PICK s, y, n : n = [r EXCEPT !.at = "lock", !.i = s, !.y = y]
                       /\ (con' = [con EXCEPT ![c] = n] \/ con' = [con EXCEPT ![c] = Retry(r)])
    BY <1>0, <1>4, Zenon DEF Marks
  <2>2. n.tid = r.tid /\ n.at = "lock"
    BY <2>1 DEF State
  <2>3. CASE con' = [con EXCEPT ![c] = n]
    BY <1>0, <1>1, <2>2, <2>3, MoveOn, Zenon
  <2>4. CASE con' = [con EXCEPT ![c] = Retry(r)]
    BY <1>0, <1>1, <1>2, <2>4, MoveOn, Zenon
  <2> QED
    BY <2>1, <2>3, <2>4
<1>5. CASE LockMark(c)
  <2>1. PICK b, z, h, f :
          /\ b = shm.backfill + 1 /\ z = [r EXCEPT !.rl = r.i, !.mi = b, !.i = 0, !.y = 0]
          /\ h = [z EXCEPT !.at = "header"] /\ f = [z EXCEPT !.at = "frame"]
    BY Zenon
  <2>2. con[c].at = "lock" /\ shm' = shm
    BY <1>5 DEF LockMark
  <2>3. r.i \in Slots /\ b \in 0 .. MaxFrame + 1
    <3>1. r.i \in Slots
      BY <1>0, <2>2, ConnNow DEF InPlace
    <3>2. shm.backfill \in 0 .. MaxFrame
      BY ConnNow, ShmTypes
    <3> QED
      BY <2>1, <3>1, <3>2, Bounds
  <2>4. z \in State /\ z.tid = r.tid /\ z.hdr = r.hdr
    <3>1. r.i \in -1 .. NReader - 1
      BY <2>3, Bounds DEF Slots
    <3> QED
      BY <2>1, <2>3, <3>1, Nothing, Zenon DEF State
  <2>5. h.tid = r.tid /\ h.at = "header" /\ f.tid = r.tid /\ f.at = "frame"
    BY <2>1, <2>4 DEF State
  <2>6. \/ con' = [con EXCEPT ![c] = Retry(r)]
        \/ con' = [con EXCEPT ![c] = h] \/ con' = [con EXCEPT ![c] = f]
        \/ con' = [con EXCEPT ![c] = Reading(z)] /\ shm.h0 = r.hdr /\ r.goal = "read"
    BY <1>0, <1>5, <2>1, Zenon DEF LockMark
  <2>7. CASE con' = [con EXCEPT ![c] = Reading(z)] /\ shm.h0 = r.hdr /\ r.goal = "read"
    <3>1. r.tid = 0
      BY <1>0, <2>2, <2>7, NotWriting DEF AtLock
    <3> QED
      BY <1>0, <1>1, <2>2, <2>4, <2>7, <3>1, SnapshotStored, Zenon
  <2> QED
    BY <1>0, <1>1, <1>2, <2>5, <2>6, <2>7, MoveOn
<1> QED
  BY <1>3, <1>4, <1>5

(* A write transaction begins.                                             *)
LEMMA BeginWriteStored ==
  ASSUME Inv, Inv', Promised, NEW c \in Conn, BeginWrite(c)
  PROVE  Stored /\ Promised'
<1>0. PICK r \in State : r = con[c]
  BY DEF Inv, Types
<1>1. PICK n : n = [r EXCEPT !.at = "write", !.wl = TRUE, !.tid = ntxn + 1]
  OBVIOUS
<1>2. n.at = "write" /\ n.tid = ntxn + 1
  BY <1>1 DEF State
<1>3. /\ con[c].at = "read" /\ WriteFree(c) /\ shm.h0 = con[c].hdr
      /\ committed' = committed /\ doubt' = doubt /\ con' = [con EXCEPT ![c] = n]
  BY <1>0, <1>1 DEF BeginWrite
<1>4. con'[c] = n /\ \A d \in Conn \ {c} : con'[d] = con[d]
  BY <1>3, ConnTypes DEF Inv
<1>5. \A d \in Conn \ {c} : con[d].tid = 0
  <2>1. ASSUME NEW d \in Conn \ {c} PROVE con[d].tid = 0
    BY <1>3, ConnNow DEF WriteFree, Others, Locked
  <2> QED
    BY <2>1
<1>6. n.tid # 0 /\ ~Owes(n)
  BY <1>2, Bounds DEF Inv, Types, Owes
<1> QED
  BY <1>3, <1>4, <1>5, <1>6, StepWrites

(* The steps of a writer before the last frame of a commit.                *)
LEMMA LogStored ==
  ASSUME Inv, Inv', Promised, NEW c \in Conn, NEW P, NEW b, Log(c, P, b)
  PROVE  Stored /\ Promised'
<1>0. PICK r \in State : r = con[c]
  BY DEF Inv, Types
<1>1. PICK a, k, n :
        /\ a = (IF r.rl = 0 THEN "restart" ELSE IF r.hdr.mx = 0 THEN "header" ELSE "frame")
        /\ k = [p \in Page |-> IF p \in P THEN r.tid ELSE r.cache[p]]
        /\ n = [r EXCEPT !.at = a, !.goal = "write", !.com = b, !.job = P, !.log = <<>>, !.cache = k]
  BY Zenon
<1>2. n.at = a /\ n.tid = r.tid
  BY <1>1 DEF State
<1>3. con' = [con EXCEPT ![c] = n] /\ committed' = committed /\ doubt' = doubt
  BY <1>0, <1>1 DEF Log, history
<1>4. n.at \in {"restart", "header", "frame"}
  BY <1>1, <1>2
<1> QED
  BY <1>0, <1>2, <1>3, <1>4, MoveOn, Zenon

(* ... and those of a reset.                                               *)
LEMMA ResetStored ==
  ASSUME Inv, Inv', Promised, NEW c \in Conn, Restart(c) \/ Done(c) \/ Reset2(c) \/ Reset3(c)
  PROVE  Stored /\ Promised'
<1>0. PICK r \in State : r = con[c]
  BY DEF Inv, Types
<1>1. committed' = committed /\ doubt' = doubt
  BY DEF Restart, Done, Reset2, Reset3, history
<1>2. PICK h, m, n, k, z :
        /\ h = ResetHdr(c) /\ m = [r EXCEPT !.at = "reset2", !.hdr = h, !.nck = TRUE, !.ex = Slots]
        /\ n = [r EXCEPT !.at = "reset3"] /\ k = [r EXCEPT !.at = "cut"] /\ z = [r EXCEPT !.ex = {}]
  BY Zenon
<1>3. m.at = "reset2" /\ m.tid = r.tid /\ n.at = "reset3" /\ n.tid = r.tid
  BY <1>2 DEF State
<1>4. k.at = "cut" /\ k.tid = r.tid /\ z \in State /\ z.tid = r.tid
  BY <1>2, Zenon DEF State
<1>5. \A q \in {r, z} : Retry(q).tid = r.tid /\ Retry(q).at \in {"hdr", "marks"}
  BY <1>4, ReadingForm
<1>6. CASE Restart(c) \/ Done(c)
  <2>1. con' = [con EXCEPT ![c] = m] \/ con' = [con EXCEPT ![c] = Retry(r)]
    BY <1>0, <1>2, <1>6 DEF Restart, Done, Reset
  <2> QED
    BY <1>0, <1>1, <1>3, <1>5, <2>1, MoveOn
<1>7. CASE Reset2(c)
  <2>1. con' = [con EXCEPT ![c] = n]
    BY <1>0, <1>2, <1>7 DEF Reset2
  <2> QED
    BY <1>0, <1>1, <1>3, <2>1, MoveOn, Zenon
<1>8. CASE Reset3(c)
  <2>1. con' = [con EXCEPT ![c] = Retry(z)] \/ con' = [con EXCEPT ![c] = k]
    BY <1>0, <1>2, <1>8, Zenon DEF Reset3
  <2> QED
    BY <1>0, <1>1, <1>4, <1>5, <2>1, MoveOn
<1> QED
  BY <1>6, <1>7, <1>8

(* The header of the log.  Of what was in doubt some is no longer.         *)
LEMMA HeaderStored ==
  ASSUME Inv, Inv', Promised, NEW c \in Conn, Header(c) \/ HeaderSync(c)
  PROVE  Stored /\ Promised'
<1>0. PICK r \in State : r = con[c]
  BY DEF Inv, Types
<1>1. committed' = committed
  BY DEF Header, HeaderSync, history
<1>2. con[c].at \in {"header", "hdrsync"} /\ con[c].tid # 0
  <2>1. con[c].at \in {"header", "hdrsync"}
    BY DEF Header, HeaderSync
  <2> QED
    BY <2>1, ConnNow DEF Locked, AtWrite
<1>3. CASE Header(c)
  <2>1. PICK h, n : n = [r EXCEPT !.at = "hdrsync", !.hdr = h] /\ con' = [con EXCEPT ![c] = n]
    <3>1. PICK g : con' = [con EXCEPT ![c] = [con[c] EXCEPT !.at = "hdrsync", !.hdr.gen = g, !.hdr.sum = 0]]
      BY <1>3, Zenon DEF Header
    <3>2. PICK h : h = [[r.hdr EXCEPT !.gen = g] EXCEPT !.sum = 0]
      OBVIOUS
    <3>3. [r EXCEPT !.at = "hdrsync", !.hdr.gen = g, !.hdr.sum = 0] = [r EXCEPT !.at = "hdrsync", !.hdr = h]
      BY <3>2, Zenon DEF State
    <3> QED
      BY <1>0, <3>1, <3>3, Zenon
  <2>2. n.at = "hdrsync" /\ n.tid = r.tid
    BY <2>1 DEF State
  <2>3. doubt' = doubt
    BY <1>3 DEF Header, history
  <2> QED
    BY <1>0, <1>1, <2>1, <2>2, <2>3, MoveOn, Zenon
<1>4. CASE HeaderSync(c)
  <2>1. PICK n : n = [r EXCEPT !.at = "frame"]
    BY Zenon
  <2>2. n.at = "frame" /\ n.tid = r.tid
    BY <2>1 DEF State
  <2>3. con' = [con EXCEPT ![c] = n]
    BY <1>0, <1>4, <2>1 DEF HeaderSync
  <2>4. doubt' \subseteq doubt
    BY <1>4 DEF HeaderSync, Remaining
  <2>5. ~Owes(n)
    BY <2>2 DEF Owes
  <2> QED
    BY <1>0, <1>1, <1>2, <2>2, <2>3, <2>4, <2>5, MoveIn, Zenon
<1> QED
  BY <1>3, <1>4

(* A frame: with the last one of a commit that commit may survive.         *)
LEMMA WriteFrameStored ==
  ASSUME Inv, Inv', Promised, NEW c \in Conn, WriteFrame(c)
  PROVE  Stored /\ Promised'
<1>0. PICK r \in State : r = con[c]
  BY DEF Inv, Types
<1>1. PICK p, j, l, h, a, n :
        /\ p = Min(r.job) /\ j = r.job \ {p} /\ l = Append(r.log, p) /\ h = [r.hdr EXCEPT !.sum = r.tid]
        /\ a = (IF r.job = {p} THEN "index" ELSE "frame")
        /\ n = [r EXCEPT !.job = j, !.log = l, !.hdr = h, !.at = a]
  BY Zenon
<1>2. n.at = a /\ n.tid = r.tid /\ n.cache = r.cache /\ n.com = r.com
  BY <1>1 DEF State
<1>3. con' = [con EXCEPT ![c] = n]
  <2>1. con' = [con EXCEPT ![c] = [r EXCEPT
              !.job = @ \ {p}, !.log = Append(@, p), !.hdr.sum = r.tid,
              !.at = IF r.job = {p} THEN "index" ELSE "frame"]]
    BY <1>0, <1>1 DEF WriteFrame
  <2> QED
    BY <1>1, <2>1 DEF State
<1>4. /\ con[c].at = "frame" /\ committed' = committed
      /\ doubt' = IF r.com /\ r.job = {p} THEN doubt \cup {r.cache} ELSE doubt
  BY <1>0, <1>1 DEF WriteFrame
<1>5. con'[c] = n /\ \A d \in Conn \ {c} : con'[d] = con[d]
  BY <1>3, ConnTypes DEF Inv
<1>6. con[c].tid # 0
  BY <1>4, ConnNow DEF Locked, AtWrite
<1>7. CASE r.com /\ r.job = {p}
  BY <1>0, <1>2, <1>4, <1>5, <1>6, <1>7, StepPrepares
<1>8. CASE ~(r.com /\ r.job = {p})
  <2>1. ~Owes(n)
    BY <1>1, <1>2, <1>8 DEF Owes
  <2>2. doubt' \subseteq doubt
    BY <1>4, <1>8
  <2> QED
    BY <1>0, <1>2, <1>3, <1>4, <1>6, <2>1, <2>2, MoveIn, Zenon
<1> QED
  BY <1>7, <1>8

(* The frames enter the wal-index.  What a commit that is synced makes is  *)
(* all that is in doubt.                                                   *)
LEMMA AppendIndexStored ==
  ASSUME Inv, Inv', Promised, NEW c \in Conn, AppendIndex(c)
  PROVE  Stored /\ Promised'
<1>0. PICK r \in State : r = con[c]
  BY DEF Inv, Types
<1>1. PICK h, a, n :
        /\ h = [r.hdr EXCEPT !.mx = r.hdr.mx + Len(r.log), !.init = r.hdr.init \/ r.com]
        /\ a = (IF r.com THEN "publish" ELSE "write")
        /\ n = [r EXCEPT !.hdr = h, !.goal = "none", !.log = <<>>, !.com = FALSE, !.at = a]
  BY Zenon
<1>2. n.at = a /\ n.tid = r.tid /\ n.cache = r.cache
  BY <1>1 DEF State
<1>3. con' = [con EXCEPT ![c] = n]
  BY <1>0, <1>1 DEF AppendIndex
<1>4. /\ con[c].at = "index" /\ committed' = committed
      /\ doubt' = IF r.com /\ SyncFull THEN {r.cache} ELSE doubt
  BY <1>0 DEF AppendIndex
<1>5. con'[c] = n /\ \A d \in Conn \ {c} : con'[d] = con[d]
  BY <1>3, ConnTypes DEF Inv
<1>6. con[c].tid # 0
  BY <1>4, ConnNow DEF Locked, AtWrite
<1>7. r.com => r.cache \in doubt /\ r.cache \in doubt'
  <2>1. r.com => r.cache \in doubt
    BY <1>0, <1>4 DEF Promised, Owes
  <2> QED
    BY <1>4, <2>1
<1>8. doubt' \subseteq doubt
  BY <1>4, <1>7
<1>9. Owes(con'[c]) => con'[c].cache \in doubt'
  BY <1>1, <1>2, <1>5, <1>7 DEF Owes
<1> QED
  BY <1>0, <1>2, <1>4, <1>5, <1>6, <1>8, <1>9, StepIn

(* A transaction is rolled back.                                           *)
LEMMA RollbackStored ==
  ASSUME Inv, Inv', Promised, NEW c \in Conn, Rollback(c)
  PROVE  Stored /\ Promised'
<1>0. PICK r \in State : r = con[c]
  BY DEF Inv, Types
<1>1. /\ con[c].at \in {"write", "failed"} /\ committed' = committed /\ doubt' = doubt
  BY DEF Rollback, history
<1>2. PICK u, k, n :
        /\ u = [r EXCEPT !.hdr = shm.h0]
        /\ k = [p \in Page |-> IF u.cache[p] = r.tid THEN Visible(u)[p] ELSE u.cache[p]]
        /\ n = [u EXCEPT !.at = "read", !.goal = "none", !.wl = FALSE, !.tid = 0,
                         !.job = {}, !.log = <<>>, !.com = FALSE, !.cache = k]
  BY Zenon
<1>3. con' = [con EXCEPT ![c] = n]
  BY <1>0, <1>2 DEF Rollback
<1>4. n.at = "read" /\ n.tid = 0 /\ n.hdr = shm.h0
  <2>1. u \in State /\ u.hdr = shm.h0
    <3>1. shm.h0 \in Hdr
      BY ConnNow, ShmTypes
    <3> QED
      BY <1>2, <3>1, Zenon DEF State
  <2> QED
    BY <1>2, <2>1 DEF State
<1>5. shm'.h0 = shm.h0
  <2>1. shm' = shm \/ \E x : shm' = [shm EXCEPT !.pg = x]
    BY Zenon DEF Rollback
  <2>2. shm \in ShmType
    BY ConnNow
  <2> QED
    BY <2>1, <2>2 DEF ShmType
<1>6. con'[c] = n /\ \A d \in Conn \ {c} : con'[d] = con[d]
  BY <1>3, ConnTypes DEF Inv
<1>7. con[c].tid # 0
  BY <1>1, ConnNow DEF Locked, AtWrite
<1> QED
  BY <1>1, <1>4, <1>5, <1>6, <1>7, StepAbandons

-----------------------------------------------------------------------------
(* The steps of a checkpoint, and of opening and closing.                  *)
LEMMA CkptStored ==
  ASSUME Inv, Inv', Promised, NEW c \in Conn,
         \/ Open(c) \/ Close(c) \/ CkptStart(c) \/ Ckpt(c) \/ ReadMark(c) \/ RaiseMark(c)
         \/ Copy(c) \/ Backfilled(c) \/ CkptEnd(c) \/ Cut(c)
  PROVE  Stored /\ Promised'
<1>0. PICK r \in State : r = con[c]
  BY DEF Inv, Types
<1>1. committed' = committed /\ doubt' = doubt
  BY Zenon DEF Open, Close, CkptStart, Ckpt, ReadMark, RaiseMark, Copy, Backfilled, CkptEnd, Cut, history
<1>2. r.tid = 0
  <2>1. con[c].at \in {"closed", "idle", "cut"} \cup AtCkpt
    BY Zenon DEF Open, Close, CkptStart, Ckpt, ReadMark, RaiseMark, Copy, Backfilled, CkptEnd, Cut, AtCkpt
  <2> QED
    BY <1>0, <2>1, NotWriting
<1>3. /\ Closed.tid = 0 /\ Closed.at = "closed" /\ Idle(Closed).tid = 0 /\ Idle(Closed).at = "idle"
      /\ Checkpointed(r).tid = 0 /\ Checkpointed(r).at = "idle"
  BY ClosedState, IdleState, CheckpointedState
<1>4. CASE Open(c) \/ CkptEnd(c) \/ Cut(c)
  <2>1. \E n \in {Closed, Idle(Closed), Checkpointed(r)} : con' = [con EXCEPT ![c] = n]
    BY <1>0, <1>4 DEF Open, CkptEnd, Cut
  <2> QED
    BY <1>1, <1>3, <2>1, MoveOut, Zenon
<1>5. CASE Close(c)
  <2>1. PICK n : n = [r EXCEPT !.at = "hdr", !.goal = "close", !.mode = "passive", !.cl = TRUE]
    OBVIOUS
  <2>2. n.tid = r.tid /\ n.at = "hdr"
    BY <2>1 DEF State
  <2>3. con' = [con EXCEPT ![c] = n] \/ con' = [con EXCEPT ![c] = Closed]
    BY <1>0, <1>5, <2>1 DEF Close
  <2> QED
    BY <1>1, <1>2, <1>3, <2>2, <2>3, MoveOut
<1>6. CASE CkptStart(c)
  <2>1. PICK w, m, n : /\ n = [r EXCEPT !.at = "hdr", !.goal = "ckpt", !.cl = TRUE, !.wl = w, !.mode = m]
                       /\ con' = [con EXCEPT ![c] = n]
    BY <1>0, <1>6 DEF CkptStart
  <2>2. n.tid = r.tid /\ n.at = "hdr"
    BY <2>1 DEF State
  <2> QED
    BY <1>1, <1>2, <2>1, <2>2, MoveOut, Zenon
<1>7. CASE Ckpt(c)
  <2>1. PICK a, t, s, n :
          /\ a = (IF shm.backfill < r.hdr.mx THEN "mark" ELSE "done")
          /\ n = [r EXCEPT !.at = a, !.it = t, !.safe = s, !.i = 1]
          /\ con' = [con EXCEPT ![c] = n]
    BY <1>0, <1>7, Zenon DEF Ckpt
  <2>2. n.tid = r.tid /\ n.at = a
    BY <2>1 DEF State
  <2>3. n.at \in {"mark", "done"}
    BY <2>1, <2>2
  <2>4. con' = [con EXCEPT ![c] = n]
    BY <2>1
  <2> QED
    BY <1>1, <1>2, <2>2, <2>3, <2>4, MoveOut, Zenon
<1>8. CASE ReadMark(c) \/ RaiseMark(c)
  <2>1. PICK y, m, k : /\ y = shm.mark[r.i] /\ m = [r EXCEPT !.at = "marklock", !.y = y]
                       /\ k = [r EXCEPT !.safe = r.y]
    BY Zenon
  <2>2. m.tid = r.tid /\ m.at = "marklock" /\ k.tid = r.tid
    BY <2>1 DEF State
  <2>3. /\ NextMark(r).tid = r.tid /\ NextMark(r).at \in {"backfill", "mark"}
        /\ NextMark(k).tid = r.tid /\ NextMark(k).at \in {"backfill", "mark"}
    BY <2>1 DEF NextMark, State
  <2>4. k.at = con[c].at /\ con[c].at # "read"
    BY <1>0, <1>8, <2>1, Zenon DEF ReadMark, RaiseMark, State
  <2>5. \E n \in {m, NextMark(r), NextMark(k)} : con' = [con EXCEPT ![c] = n]
    BY <1>0, <1>8, <2>1 DEF ReadMark, RaiseMark
  <2> QED
    BY <1>1, <1>2, <2>2, <2>3, <2>4, <2>5, MoveOut, Zenon
<1>9. CASE Copy(c)
  <2>1. PICK p, n : n = [r EXCEPT !.i = p] /\ con' = [con EXCEPT ![c].i = p]
    BY <1>9, Zenon DEF Copy
  <2>2. n.tid = r.tid /\ n.at = r.at
    BY <2>1 DEF State
  <2>3. con' = [con EXCEPT ![c] = n] /\ r.at = "copy"
    BY <1>0, <1>9, <2>1, Zenon DEF Copy
  <2> QED
    BY <1>1, <1>2, <2>2, <2>3, MoveOut, Zenon
<1>10. CASE Backfilled(c)
  <2>1. PICK n : n = [r EXCEPT !.at = "done", !.ex = {}]
    OBVIOUS
  <2>2. n.tid = r.tid /\ n.at = "done"
    BY <2>1 DEF State
  <2>3. con' = [con EXCEPT ![c] = n]
    BY <1>0, <1>10, <2>1 DEF Backfilled
  <2> QED
    BY <1>1, <1>2, <2>2, <2>3, MoveOut, Zenon
<1> QED
  BY <1>4, <1>5, <1>6, <1>7, <1>8, <1>9, <1>10

(* Faults of one connection.                                               *)
LEMMA FaultStored ==
  ASSUME Inv, Inv', Promised, NEW c \in Conn, IoError(c) \/ Crash(c)
  PROVE  Stored /\ Promised'
<1>0. PICK r \in State : r = con[c]
  BY DEF Inv, Types
<1>1. committed' = committed /\ doubt' = doubt
  BY DEF IoError, Crash
<1>2. CASE Crash(c)
  <2>1. con' = [con EXCEPT ![c] = Closed]
    BY <1>2 DEF Crash
  <2> QED
    BY <1>1, <2>1, ClosedState, MoveOut, Zenon
<1>3. CASE IoError(c)
  <2>1. PICK i, k, f : /\ i = Idle(r) /\ k = [i EXCEPT !.cache = NoImage]
                       /\ f = [r EXCEPT !.at = "failed"]
    BY Zenon
  <2>2. k.tid = 0 /\ k.at = "idle"
    <3>1. i \in State /\ i.tid = 0 /\ i.at = "idle"
      BY <2>1, IdleState
    <3> QED
      BY <2>1, <3>1 DEF State
  <2>3. f.tid = r.tid /\ f.at = "failed"
    BY <2>1 DEF State
  <2>4. Failed(r).tid = 0 /\ Failed(r).at \in {"closed", "idle"}
    BY IdleForm
  <2>5. \/ con' = [con EXCEPT ![c] = Failed(r)] \/ con' = [con EXCEPT ![c] = k]
        \/ con' = [con EXCEPT ![c] = f]
    BY <1>0, <1>3, <2>1, Zenon DEF IoError
  <2> QED
    BY <1>0, <1>1, <2>2, <2>3, <2>4, <2>5, MoveOut, MoveOn
<1> QED
  BY <1>2, <1>3

(* The power fails, and all transactions end.                              *)
LEMMA PowerLossStored ==
  ASSUME Inv, Inv', PowerLoss
  PROVE  Stored /\ Promised'
<1> DEFINE V == StoreView
           W == StoreWriter
<1>1. con' = [d \in Conn |-> Closed] /\ committed' = committed /\ doubt' = doubt
  BY DEF PowerLoss
<1>2. \A d \in Conn : con'[d].tid = 0 /\ con'[d].at = "closed"
  BY <1>1, ClosedState
<1>3. Sights /\ OneWriter /\ Sights' /\ OneWriter'
  BY StoreIs, StoreIsNext
<1>4. V' = [d \in Conn |-> Sight(con'[d], committed')]
  BY <1>3 DEF Sights, Sight
<1>5. \A d \in Conn : Sight(con'[d], committed') = NoImage
  BY <1>2 DEF Sight
<1>6. V' = [d \in Conn |-> IF d \in Conn THEN NoImage ELSE V[d]]
  <2> HIDE DEF V
  <2> QED
    BY <1>4, <1>5
<1>7. W' = IF W \in Conn THEN NoConn ELSE W
  <2>1. W' = NoConn
    BY <1>2, <1>3 DEF OneWriter
  <2>2. W \in Conn \/ W = NoConn
    <3>1. CASE \E d \in Conn : con[d].tid # 0
      BY <1>3, <3>1 DEF OneWriter
    <3>2. CASE \A d \in Conn : con[d].tid = 0
      BY <1>3, <3>2 DEF OneWriter
    <3> QED
      BY <3>1, <3>2
  <2> QED
    BY <2>1, <2>2
<1> HIDE DEF V, W
<1>8. A!Stop(Conn)
  BY <1>1, <1>6, <1>7 DEF A!Stop, V, W, StoreView, StoreWriter
<1>9. Promised'
  BY <1>2 DEF Promised, Owes
<1> QED
  BY <1>8, <1>9 DEF Stored, A!StoreNext

(* The initial states map to initial states.                               *)
LEMMA InitStored ==
  ASSUME Init, Inv
  PROVE  A!StoreInit /\ Promised
<1> DEFINE V == StoreView
           W == StoreWriter
<1>1. con = [d \in Conn |-> Idle(Closed)] /\ doubt = {} /\ committed \in Image
  BY DEF Init, Inv, Types
<1>2. \A d \in Conn : con[d].tid = 0 /\ con[d].at = "idle"
  BY <1>1, ClosedState, IdleState
<1>3. Sights /\ OneWriter
  BY StoreIs
<1>4. V = [d \in Conn |-> NoImage]
  BY <1>2, <1>3 DEF Sights, Sight
<1>5. W = NoConn
  BY <1>2, <1>3 DEF OneWriter
<1> HIDE DEF V, W
<1>6. A!StoreInit
  BY <1>1, <1>4, <1>5 DEF A!StoreInit, V, W, StoreView, StoreWriter
<1>7. Promised
  BY <1>2 DEF Promised, Owes
<1> QED
  BY <1>6, <1>7

(* Nothing happens.                                                        *)
LEMMA UnchangedStored ==
  ASSUME Promised, UNCHANGED vars
  PROVE  Stored /\ Promised'
<1>1. con' = con /\ committed' = committed /\ doubt' = doubt
  BY DEF vars, files, history
<1>2. UNCHANGED A!storeVars
  BY <1>1 DEF A!storeVars, View, InTransaction, Writing
<1>3. Promised'
  BY <1>1 DEF Promised, Owes
<1> QED
  BY <1>2, <1>3 DEF Stored

(* Any step.                                                               *)
LEMMA NextStored ==
  ASSUME Inv, Inv', Durable, Recovers, Promised, [Next]_vars
  PROVE  Stored /\ Promised'
<1>1. ASSUME NEW c \in Conn, Read(c) PROVE Stored /\ Promised'
  BY <1>1, HdrStored, Recover2Stored, MarksStored DEF Read
<1>2. ASSUME NEW c \in Conn, Write(c) PROVE Stored /\ Promised'
  <2>1. Spill(c) \/ Commit(c) => \E P, b : Log(c, P, b)
    BY Zenon DEF Spill, Commit
  <2> QED
    BY <1>2, <2>1, BeginWriteStored, LogStored, ResetStored, HeaderStored, WriteFrameStored,
       AppendIndexStored, PublishStored, RollbackStored DEF Write
<1>3. ASSUME NEW c \in Conn, Checkpoint(c) PROVE Stored /\ Promised'
  BY <1>3, CkptStored, BackfillStored, ResetStored DEF Checkpoint
<1>4. ASSUME NEW c \in Conn, Open(c) \/ Close(c) \/ IoError(c) \/ Crash(c) PROVE Stored /\ Promised'
  BY <1>4, CkptStored, FaultStored
<1> QED
  BY <1>1, <1>2, <1>3, <1>4, PowerLossStored, UnchangedStored DEF Next

(* The log makes the database a store of snapshots, until a reset of the   *)
(* log is disturbed: a transaction sees one committed image, a commit      *)
(* builds on the newest, is one step, disturbs nobody and stays, whatever  *)
(* walCheckpoint and walIndexRecover do.                                   *)
THEOREM WalIsSnapshotStore == Spec => StoreSpec
<1> DEFINE Good == Inv /\ Durable /\ Promised
<1>1. Init => Good /\ A!StoreInit
  BY InitInv, InitDurable, InitStored
<1>2. ASSUME Good, ~disturbed', [Next]_vars
      PROVE  Good' /\ [A!StoreNext]_(A!storeVars)
  <2>1. Inv' /\ Durable' /\ Recovers
    BY <1>2, NextInv, NextDurable, DurableRecovers
  <2> QED
    BY <1>2, <2>1, NextStored DEF Stored
<1>3. (disturbed \/ Good) /\ [Next]_vars => (disturbed \/ Good)'
  BY <1>2, DisturbedStays
<1>4. (disturbed \/ Good) /\ [Next]_vars => [disturbed' \/ A!StoreNext]_(A!storeVars)
  BY <1>2, DisturbedStays
<1> HIDE DEF Good
<1> QED
  BY <1>1, <1>3, <1>4, PTL DEF Spec, StoreSpec

=============================================================================
