---------------------------- MODULE WalConnProofs ----------------------------
(***************************************************************************)
(* The steps of Wal that leave the database file alone: those of readers,  *)
(* those in which a writer or a checkpoint finds its place, read marks,    *)
(* what a writer does to the log behind its end, a reset of the log, the   *)
(* commit and recovery.  None of them disturbs the invariant.              *)
(***************************************************************************)
EXTENDS WalInvariant, FiniteSetTheorems, WellFoundedInduction, TLAPS

-----------------------------------------------------------------------------
(* Numbers.                                                                *)
LEMMA Bounds ==
  /\ NPage \in Nat /\ NPage >= 1 /\ NReader \in Nat /\ NReader >= 2
  /\ MaxFrame \in Nat /\ MaxFrame >= 1 /\ MaxTxn \in Nat
  /\ Salt \subseteq Nat /\ 0 \notin Salt
  /\ NotUsed = MaxFrame + 1
  BY WalAssumption DEF NotUsed

(* A set of numbers up to n has a first and a last one.                    *)
LEMMA FirstOf ==
  ASSUME NEW n \in Nat, NEW S \in SUBSET (0 .. n), S # {}
  PROVE  Min(S) \in S /\ \A x \in S : Min(S) <= x
<1> DEFINE D == 0 .. n
           R == StrictSubsetOrdering(D)
           T == {0 .. x : x \in S}
<1>1. IsWellFoundedOn(R, SUBSET D)
  <2>1. IsFiniteSet(D)
    BY FS_Interval
  <2> QED
    BY <2>1, FS_FiniteSubsetsOfFinite, FS_StrictSubsetOrderingWellFounded, Zenon
<1>2. T \subseteq SUBSET D /\ T # {}
  <2>1. \A x \in S : 0 .. x \in SUBSET D /\ 0 .. x \in T
    OBVIOUS
  <2> QED
    BY <2>1, Zenon
<1>3. \E t \in T : \A u \in T : ~(<<u, t>> \in R)
  <2> HIDE DEF R, T, D
  <2> QED
    BY <1>1, <1>2, WFMin
<1>4. PICK x \in S : \A u \in T : ~(<<u, 0 .. x>> \in R)
  BY <1>3
<1>5. ASSUME NEW y \in S, y < x PROVE FALSE
  <2>1. <<0 .. y, 0 .. x>> \notin R
    BY <1>4, Zenon
  <2>2. 0 .. y \subseteq 0 .. x /\ x \in 0 .. x /\ x \notin 0 .. y
    BY <1>5
  <2>3. 0 .. y \in SUBSET D /\ 0 .. x \in SUBSET D
    BY <1>5
  <2> QED
    BY <2>1, <2>2, <2>3 DEF StrictSubsetOrdering
<1>6. \E z \in S : \A y \in S : z =< y
  BY <1>5
<1> QED
  BY <1>6, Zenon DEF Min

(* Maxima are minima from the other end.                                   *)
LEMMA LastOf ==
  ASSUME NEW n \in Nat, NEW S \in SUBSET (0 .. n), S # {}
  PROVE  Max(S) \in S /\ \A x \in S : x <= Max(S)
<1> DEFINE N == {n - x : x \in S}
<1>1. N \in SUBSET (0 .. n) /\ N # {}
  <2>1. \A x \in S : n - x \in 0 .. n
    OBVIOUS
  <2> QED
    BY <2>1, Zenon
<1>2. Min(N) \in N /\ \A y \in N : Min(N) <= y
  <2> HIDE DEF N
  <2> QED
    BY <1>1, FirstOf, Zenon
<1>3. PICK z \in S : Min(N) = n - z
  BY <1>2, Zenon
<1>4. ASSUME NEW x \in S PROVE x <= z
  <2>1. n - x \in N /\ x \in 0 .. n /\ z \in 0 .. n
    OBVIOUS
  <2>2. n - z <= n - x
    BY <1>2, <1>3, <2>1, Zenon
  <2> QED
    BY <2>1, <2>2
<1>5. \E x \in S : \A y \in S : x >= y
  BY <1>4
<1>6. Max(S) \in S /\ \A y \in S : Max(S) >= y
  BY <1>5, Zenon DEF Max
<1> QED
  BY <1>6

(* The last element is the one that is behind none.                        *)
LEMMA LastIs ==
  ASSUME NEW n \in Nat, NEW S \in SUBSET (0 .. n), NEW x \in S, \A y \in S : y <= x
  PROVE  Max(S) = x
<1>1. Max(S) \in S /\ x <= Max(S)
  BY LastOf, Zenon
<1>2. Max(S) <= x /\ Max(S) \in 0 .. n /\ x \in 0 .. n
  BY <1>1, Zenon
<1> QED
  BY <1>1, <1>2

-----------------------------------------------------------------------------
(* Constants of the types.                                                 *)
LEMMA Nothing ==
  /\ NoHdr \in Hdr /\ NoHdr.mx = 0 /\ NoHdr.gen = 0 /\ ~NoHdr.init
  /\ NoHead \in HeadType /\ NoHead.gen = 0
  /\ NoWal \in LogType /\ NoWal.head = NoHead
  /\ NoShm \in ShmType /\ NoShm.h0 = NoHdr /\ NoShm.h1 = NoHdr /\ NoShm.backfill = 0
  /\ 0 \in 0 .. MaxFrame /\ 0 \in 0 .. MaxFrame + 1 /\ 0 \in 0 .. MaxTxn /\ 0 \in 0 .. NotUsed
<1> USE Bounds
<1>1. NoHdr \in Hdr /\ NoHdr.mx = 0 /\ NoHdr.gen = 0 /\ ~NoHdr.init
  BY DEF NoHdr, Hdr
<1>2. NoHead \in HeadType /\ NoHead.gen = 0
  BY DEF NoHead, HeadType
<1>3. NoWal \in LogType /\ NoWal.head = NoHead
  BY <1>2 DEF NoWal, LogType
<1>4. NoShm \in ShmType /\ NoShm.h0 = NoHdr /\ NoShm.h1 = NoHdr /\ NoShm.backfill = 0
  BY <1>1 DEF NoShm, ShmType, NoPages, NotUsed
<1> QED
  BY <1>1, <1>2, <1>3, <1>4

(* The record of a connection that has no database open.                   *)
LEMMA ClosedState ==
  /\ Closed \in State
  /\ Closed.at = "closed" /\ Closed.goal = "none" /\ Closed.mode = "passive"
  /\ Closed.rl = -1 /\ ~Closed.wl /\ ~Closed.cl /\ Closed.ex = {}
  /\ Closed.hdr = NoHdr /\ ~Closed.nck /\ ~Closed.chg /\ Closed.cache = NoImage
  /\ Closed.tid = 0 /\ Closed.job = {} /\ Closed.log = <<>> /\ ~Closed.com
<1> USE Bounds, Nothing
<1>1. <<>> \in Seq(Page)
  OBVIOUS
<1>2. [p \in Page |-> 0] \in [Page -> 0 .. MaxFrame]
  OBVIOUS
<1>3. "closed" \in AtAny
  BY DEF AtAny
<1> QED
  BY <1>1, <1>2, <1>3 DEF Closed, State

(* What is left of a connection between two transactions.                  *)
LEMMA IdleState ==
  ASSUME NEW r \in State
  PROVE  /\ Idle(r) \in State
         /\ Idle(r).at = "idle" /\ Idle(r).goal = "none" /\ Idle(r).mode = "passive"
         /\ Idle(r).rl = -1 /\ ~Idle(r).wl /\ ~Idle(r).cl /\ Idle(r).ex = {}
         /\ Idle(r).hdr = r.hdr /\ ~Idle(r).chg /\ Idle(r).cache = r.cache
         /\ Idle(r).tid = 0 /\ Idle(r).job = {} /\ Idle(r).log = <<>> /\ ~Idle(r).com
<1>1. PICK k \in State : k = Closed
  BY ClosedState
<1>2. PICK n : n = [k EXCEPT !.at = "idle", !.hdr = r.hdr, !.nck = r.nck, !.cache = r.cache]
  OBVIOUS
<1>3. Idle(r) = n
  BY <1>1, <1>2 DEF Idle
<1>4. r.hdr \in Hdr /\ r.nck \in BOOLEAN /\ r.cache \in Image \cup {NoImage} /\ "idle" \in AtAny
  BY DEF State, AtAny
<1>5. n \in State
  BY <1>2, <1>4, Zenon DEF State
<1>6. /\ n.at = "idle" /\ n.goal = k.goal /\ n.mode = k.mode
      /\ n.rl = k.rl /\ n.ex = k.ex /\ n.hdr = r.hdr /\ n.cache = r.cache
      /\ n.tid = k.tid /\ n.job = k.job /\ n.log = k.log
  BY <1>2, <1>5 DEF State
<1>7. n.wl = k.wl /\ n.cl = k.cl /\ n.chg = k.chg /\ n.com = k.com
  BY <1>2, <1>5 DEF State
<1> QED
  BY <1>1, <1>3, <1>5, <1>6, <1>7, ClosedState

-----------------------------------------------------------------------------
(* The log and the wal-index.                                              *)
LEMMA LogTypes ==
  ASSUME NEW w \in LogType, NEW i \in Index, w.frame[i] # NoFrame
  PROVE  /\ w.frame[i] \in Frame /\ w.frame[i].pg \in Page /\ w.frame[i].tid \in 1 .. MaxTxn
         /\ w.frame[i].tid \in Pages /\ w.frame[i].gen \in Salt \cup {0}
<1>1. w.frame[i] \in Frame
  BY DEF LogType
<1> QED
  BY <1>1, Bounds DEF Frame, Pages

(* The page a snapshot of n frames has: that of its last frame.            *)
LEMMA OverlayIs ==
  ASSUME NEW n \in 0 .. MaxFrame, NEW s \in ShmType, NEW w, NEW b, NEW p \in Page
  PROVE  /\ (\A i \in 1 .. n : s.pg[i] # p) => Overlay(n, s, w, b)[p] = b[p]
         /\ \A i \in 1 .. n : IsLast(i, n, s) /\ s.pg[i] = p
              => Overlay(n, s, w, b)[p] = w.frame[i].tid
         /\ (\A i \in 1 .. n : s.pg[i] # p)
              \/ \E i \in 1 .. n : IsLast(i, n, s) /\ s.pg[i] = p
<1> USE Bounds
<1> DEFINE found == {i \in 1 .. n : s.pg[i] = p}
<1>1. Overlay(n, s, w, b)[p] = IF found = {} THEN b[p] ELSE w.frame[Max(found)].tid
  BY DEF Overlay
<1>2. found \in SUBSET (0 .. n) /\ n \in Nat
  OBVIOUS
<1>3. ASSUME NEW i \in 1 .. n, IsLast(i, n, s), s.pg[i] = p
      PROVE  Max(found) = i
  <2>1. \A j \in found : j <= i
    BY <1>3 DEF IsLast
  <2>2. i \in found
    BY <1>3
  <2> HIDE DEF found
  <2> QED
    BY <1>2, <2>1, <2>2, LastIs
<1>4. ASSUME found # {} PROVE \E i \in 1 .. n : IsLast(i, n, s) /\ s.pg[i] = p
  <2>1. PICK m \in found : \A x \in found : x <= m
    <3> HIDE DEF found
    <3> QED
      BY <1>2, <1>4, LastOf, Zenon
  <2>2. m \in 1 .. n /\ s.pg[m] = p
    OBVIOUS
  <2>3. ASSUME NEW j \in m + 1 .. n, s.pg[j] = p PROVE FALSE
    <3>1. j \in found
      BY <1>2, <2>2, <2>3
    <3> QED
      BY <1>2, <2>1, <2>2, <3>1
  <2> QED
    BY <2>2, <2>3 DEF IsLast
<1> QED
  BY <1>1, <1>3, <1>4

(* Snapshots of the same frames over the same file are the same.           *)
LEMMA OverlaySame ==
  ASSUME NEW n \in 0 .. MaxFrame, NEW s \in ShmType, NEW w, NEW b, NEW t, NEW v,
         \A i \in 1 .. n : t.pg[i] = s.pg[i] /\ v.frame[i] = w.frame[i]
  PROVE  Overlay(n, t, v, b) = Overlay(n, s, w, b)
<1> USE Bounds
<1>1. ASSUME NEW p \in Page
      PROVE  Overlay(n, t, v, b)[p] = Overlay(n, s, w, b)[p]
  <2> DEFINE F == {i \in 1 .. n : s.pg[i] = p}
             G == {i \in 1 .. n : t.pg[i] = p}
  <2>1. F = G /\ F \in SUBSET (0 .. n) /\ n \in Nat
    OBVIOUS
  <2>2. F # {} => Max(F) \in 1 .. n
    <3>1. F # {} => Max(F) \in F
      <4> HIDE DEF F
      <4> QED
        BY <2>1, LastOf, Zenon
    <3> QED
      BY <3>1
  <2>3. /\ Overlay(n, s, w, b)[p] = IF F = {} THEN b[p] ELSE w.frame[Max(F)].tid
        /\ Overlay(n, t, v, b)[p] = IF G = {} THEN b[p] ELSE v.frame[Max(G)].tid
    BY DEF Overlay
  <2> HIDE DEF F, G
  <2> QED
    BY <2>1, <2>2, <2>3
<1> QED
  BY <1>1 DEF Overlay

(* It is an image.                                                         *)
LEMMA OverlayImage ==
  ASSUME NEW n \in 0 .. MaxFrame, NEW s \in ShmType, NEW w \in LogType, NEW b \in Image,
         \A i \in 1 .. n : w.frame[i] # NoFrame
  PROVE  Overlay(n, s, w, b) \in Image
<1>1. ASSUME NEW p \in Page PROVE Overlay(n, s, w, b)[p] \in Pages \cup {Torn}
  <2>1. b[p] \in Pages \cup {Torn}
    BY DEF Image
  <2>2. \A i \in 1 .. n : w.frame[i].tid \in Pages
    BY Bounds, LogTypes DEF Index
  <2> QED
    BY <2>1, <2>2, OverlayIs
<1> QED
  BY <1>1 DEF Overlay, Image

(* Once all is copied it is the file.                                      *)
LEMMA OverlayCopied ==
  ASSUME NEW s \in ShmType, NEW w, NEW b \in Image, NEW im,
         IndexOK(s, w, b, im), s.h0.init, s.backfill >= s.h0.mx
  PROVE  im = b
<1>0. s.h0.mx \in 0 .. MaxFrame /\ s.backfill \in 0 .. MaxFrame
  BY DEF ShmType, Hdr
<1>1. ASSUME NEW p \in Page PROVE Overlay(s.h0.mx, s, w, b)[p] = b[p]
  <2>1. \A i \in 1 .. s.h0.mx : IsLast(i, s.h0.mx, s) /\ s.pg[i] = p => b[p] = w.frame[i].tid
    BY <1>0, Bounds DEF IndexOK
  <2> QED
    BY <1>0, <2>1, OverlayIs
<1>2. im = Overlay(s.h0.mx, s, w, b)
  BY DEF IndexOK
<1>3. Overlay(s.h0.mx, s, w, b) = b
  BY <1>1 DEF Overlay, Image
<1> QED
  BY <1>2, <1>3

(* What a connection sees if it has locked a mark: the frames before mi    *)
(* are in the file already.                                                *)
LEMMA SeenPage ==
  ASSUME NEW r \in State, NEW s \in ShmType, NEW w \in LogType, NEW b \in Image, NEW im,
         IndexOK(s, w, b, im), s.h0.init, s.h0.mx <= r.hdr.mx, r.rl >= 1,
         r.mi \in 1 .. s.backfill + 1,
         NEW p \in Page, \A i \in s.h0.mx + 1 .. r.hdr.mx : s.pg[i] # p
  PROVE  Seen(r, s, w, b)[p] = im[p]
<1> USE Bounds
<1> DEFINE found == {i \in r.mi .. r.hdr.mx : s.pg[i] = p}
<1>0. /\ s.h0.mx \in 0 .. MaxFrame /\ s.backfill \in 0 .. MaxFrame
      /\ r.hdr.mx \in 0 .. MaxFrame /\ r.mi \in 0 .. MaxFrame + 1 /\ r.rl # 0
  <2>1. s.h0 \in Hdr /\ s.backfill \in 0 .. MaxFrame
    BY DEF ShmType
  <2>2. r.hdr \in Hdr /\ r.mi \in 0 .. MaxFrame + 1 /\ r.rl \in -1 .. NReader - 1
    BY DEF State
  <2> QED
    BY <2>1, <2>2 DEF Hdr
<1>1. im = Overlay(s.h0.mx, s, w, b) /\ HdrOf(s.h0, s, w)
  BY DEF IndexOK
<1>2. Seen(r, s, w, b)[p] =
        IF r.hdr.mx = 0 \/ found = {} THEN b[p]
        ELSE IF w.frame[Max(found)] = NoFrame THEN Torn ELSE w.frame[Max(found)].tid
  BY <1>0 DEF Seen
<1>3. CASE \A i \in 1 .. s.h0.mx : s.pg[i] # p
  <2>1. found = {}
    BY <1>0, <1>3
  <2> QED
    BY <1>0, <1>1, <1>2, <1>3, <2>1, OverlayIs
<1>4. CASE ~ \A i \in 1 .. s.h0.mx : s.pg[i] # p
  <2>1. PICK i \in 1 .. s.h0.mx : IsLast(i, s.h0.mx, s) /\ s.pg[i] = p
    <3>1. \/ \A i \in 1 .. s.h0.mx : s.pg[i] # p
          \/ \E i \in 1 .. s.h0.mx : IsLast(i, s.h0.mx, s) /\ s.pg[i] = p
      BY <1>0, OverlayIs
    <3> QED
      BY <1>4, <3>1
  <2>2. im[p] = w.frame[i].tid
    BY <1>0, <1>1, <2>1, OverlayIs
  <2>3. CASE i < r.mi
    <3>1. i \in 1 .. s.backfill
      BY <1>0, <2>3
    <3>2. b[p] = w.frame[i].tid
      BY <2>1, <3>1 DEF IndexOK
    <3>3. found = {}
      BY <1>0, <2>1, <2>3 DEF IsLast
    <3> QED
      BY <1>2, <2>2, <3>2, <3>3
  <2>4. CASE ~(i < r.mi)
    <3>1. i \in found /\ found \in SUBSET (0 .. MaxFrame)
      BY <1>0, <2>1, <2>4
    <3>2. \A j \in found : j <= i
      BY <1>0, <2>1 DEF IsLast
    <3>3. Max(found) = i
      <4> HIDE DEF found
      <4> QED
        BY <3>1, <3>2, LastIs, Zenon
    <3>4. w.frame[i] # NoFrame
      BY <1>0, <1>1 DEF HdrOf, Chained
    <3> QED
      BY <1>0, <1>2, <2>2, <3>1, <3>3, <3>4
  <2> QED
    BY <2>3, <2>4
<1> QED
  BY <1>3, <1>4

(* A snapshot that ends where the log ends is the committed image.         *)
LEMMA SeenAll ==
  ASSUME NEW r \in State, NEW s \in ShmType, NEW w \in LogType, NEW b \in Image, NEW im \in Image,
         IndexOK(s, w, b, im), s.h0.init, s.h0.mx = r.hdr.mx,
         \/ r.rl >= 1 /\ r.mi \in 1 .. s.backfill + 1
         \/ r.rl = 0 /\ s.backfill >= s.h0.mx
  PROVE  Seen(r, s, w, b) = im
<1>0. s.h0.mx \in 0 .. MaxFrame
  BY DEF ShmType, Hdr
<1>1. CASE r.rl >= 1 /\ r.mi \in 1 .. s.backfill + 1
  <2>1. ASSUME NEW p \in Page PROVE Seen(r, s, w, b)[p] = im[p]
    <3>1. s.h0.mx <= r.hdr.mx /\ \A i \in s.h0.mx + 1 .. r.hdr.mx : s.pg[i] # p
      BY <1>0, Bounds
    <3> QED
      BY <1>1, <3>1, SeenPage
  <2> QED
    BY <2>1 DEF Seen, Image
<1>2. CASE r.rl = 0 /\ s.backfill >= s.h0.mx
  <2>1. im = b
    BY <1>2, OverlayCopied
  <2>2. Seen(r, s, w, b) = [p \in Page |-> b[p]]
    BY <1>2 DEF Seen
  <2> QED
    BY <2>1, <2>2 DEF Image
<1> QED
  BY <1>1, <1>2

(* What recovery finds in a log: its longest chain that ends with a commit.*)
LEMMA LastCommitIs ==
  ASSUME NEW w \in LogType
  PROVE  /\ LastCommit(w) \in 0 .. MaxFrame
         /\ Chained(w.head.gen, LastCommit(w), w)
         /\ LastCommit(w) > 0 => w.frame[LastCommit(w)].com
         /\ \A n \in Index : Chained(w.head.gen, n, w) /\ w.frame[n].com => n <= LastCommit(w)
         /\ \A i \in 1 .. LastCommit(w) : i \in Chain(w)
<1> USE Bounds
<1> DEFINE S == {0} \cup {i \in Chain(w) : w.frame[i].com}
<1>1. S \in SUBSET (0 .. MaxFrame) /\ S # {} /\ MaxFrame \in Nat
  BY DEF Chain, Index
<1>2. LastCommit(w) \in S /\ \A x \in S : x <= LastCommit(w)
  <2>1. LastCommit(w) = Max(S)
    BY DEF LastCommit
  <2> HIDE DEF S
  <2> QED
    BY <1>1, <2>1, LastOf, Zenon
<1>3. LastCommit(w) \in 0 .. MaxFrame
  <2> HIDE DEF S
  <2> QED
    BY <1>1, <1>2, Zenon
<1>4. LastCommit(w) > 0 => LastCommit(w) \in Chain(w) /\ w.frame[LastCommit(w)].com
  BY <1>2
<1>5. Chained(w.head.gen, LastCommit(w), w) /\ \A i \in 1 .. LastCommit(w) : i \in Chain(w)
  BY <1>3, <1>4 DEF Chain, Chained, Index
<1>6. ASSUME NEW n \in Index, Chained(w.head.gen, n, w), w.frame[n].com PROVE n <= LastCommit(w)
  <2>1. n \in Chain(w)
    BY <1>6 DEF Chained, Chain, Index
  <2> QED
    BY <1>2, <1>6, <2>1, Zenon
<1> QED
  BY <1>3, <1>4, <1>5, <1>6

(* The header that recovery writes is one of this log.                     *)
LEMMA RecoveredHdrIs ==
  ASSUME NEW w \in LogType
  PROVE  /\ RecoveredHdr(w) \in Hdr /\ RecoveredHdr(w).init
         /\ RecoveredHdr(w).mx = LastCommit(w) /\ RecoveredHdr(w).gen = w.head.gen
         /\ \A s \in ShmType : Indexed(LastCommit(w), s, w) => HdrOf(RecoveredHdr(w), s, w)
<1> USE Bounds
<1>1. LastCommit(w) \in 0 .. MaxFrame
  BY LastCommitIs
<1>2. LastCommit(w) > 0 => w.frame[LastCommit(w)].tid \in 1 .. MaxTxn
  <2>1. LastCommit(w) > 0 => LastCommit(w) \in Index /\ w.frame[LastCommit(w)] # NoFrame
    BY <1>1, LastCommitIs DEF Chained, Index
  <2> QED
    BY <2>1, LogTypes
<1>3. w.head.gen \in Salt \cup {0}
  BY DEF LogType, HeadType
<1>4. RecoveredHdr(w) \in Hdr
  BY <1>1, <1>2, <1>3 DEF RecoveredHdr, Hdr
<1>5. /\ RecoveredHdr(w).mx = LastCommit(w) /\ RecoveredHdr(w).gen = w.head.gen
      /\ RecoveredHdr(w).init
      /\ LastCommit(w) > 0 => RecoveredHdr(w).sum = w.frame[LastCommit(w)].tid
  BY <1>1 DEF RecoveredHdr
<1>6. ASSUME NEW s \in ShmType, Indexed(LastCommit(w), s, w) PROVE HdrOf(RecoveredHdr(w), s, w)
  BY <1>5, <1>6, LastCommitIs DEF HdrOf
<1> QED
  BY <1>4, <1>5, <1>6

(* Recovery finds the image of the frames it has indexed.                  *)
LEMMA RecoveredIs ==
  ASSUME Types, Indexed(LastCommit(wal), shm, wal)
  PROVE  /\ Recovered(wal) = Overlay(LastCommit(wal), shm, wal, db)
         /\ Recovered(wal) \in Image
<1> USE Bounds
<1>1. LastCommit(wal) \in 0 .. MaxFrame /\ wal \in LogType /\ shm \in ShmType /\ db \in Image
  BY LastCommitIs DEF Types, FileTypes
<1>2. \A p \in Page : {i \in 1 .. LastCommit(wal) : wal.frame[i].pg = p}
                       = {i \in 1 .. LastCommit(wal) : shm.pg[i] = p}
  BY DEF Indexed
<1>3. Recovered(wal) = Overlay(LastCommit(wal), shm, wal, db)
  BY <1>2, Zenon DEF Recovered, Overlay
<1>4. \A i \in 1 .. LastCommit(wal) : wal.frame[i] # NoFrame
  BY <1>1, LastCommitIs DEF Chained
<1> QED
  BY <1>1, <1>3, <1>4, OverlayImage

(* The connection's own view is that of its record.                        *)
LEMMA VisibleIs ==
  ASSUME NEW r
  PROVE  Visible(r) = Seen(r, shm, wal, db)
  BY DEF Visible, Seen

(* A new generation is nobody's.                                           *)
LEMMA NewGenIs ==
  ASSUME Unused # {}
  PROVE  /\ NewGen \in Salt /\ NewGen # 0
         /\ NewGen # shm.h0.gen /\ NewGen # wal.head.gen
         /\ \A c \in Conn : con[c].hdr.gen # NewGen
<1>1. NewGen \in Unused
  BY DEF NewGen
<1> QED
  BY <1>1, Bounds DEF Unused

-----------------------------------------------------------------------------
(* A step of a connection, and the others.                                 *)
LEMMA StateTypes ==
  ASSUME NEW r \in State
  PROVE  /\ r.at \in AtAny /\ r.hdr \in Hdr
         /\ r.hdr.mx \in 0 .. MaxFrame /\ r.hdr.gen \in Salt \cup {0} /\ r.hdr.init \in BOOLEAN
         /\ r.rl \in -1 .. NReader - 1 /\ r.ex \in SUBSET (0 .. NReader - 1)
         /\ r.mi \in 0 .. MaxFrame + 1 /\ r.y \in 0 .. NotUsed /\ r.i \in Nat
         /\ r.safe \in 0 .. MaxFrame /\ r.bf \in 0 .. MaxFrame /\ r.tid \in 0 .. MaxTxn
<1>1. r.hdr \in Hdr /\ r.at \in AtAny
  BY DEF State
<1>2. r.hdr.mx \in 0 .. MaxFrame /\ r.hdr.gen \in Salt \cup {0} /\ r.hdr.init \in BOOLEAN
  BY <1>1 DEF Hdr
<1>3. r.rl \in -1 .. NReader - 1 /\ r.ex \in SUBSET (0 .. NReader - 1)
  BY DEF State
<1>4. r.mi \in 0 .. MaxFrame + 1 /\ r.y \in 0 .. NotUsed /\ r.i \in Nat
  BY DEF State
<1>5. r.safe \in 0 .. MaxFrame /\ r.bf \in 0 .. MaxFrame /\ r.tid \in 0 .. MaxTxn
  BY DEF State
<1> QED
  BY <1>1, <1>2, <1>3, <1>4, <1>5

(* The same of the wal-index.                                              *)
LEMMA ShmTypes ==
  ASSUME NEW s \in ShmType
  PROVE  /\ s.h0 \in Hdr /\ s.h1 \in Hdr
         /\ s.h0.mx \in 0 .. MaxFrame /\ s.h0.gen \in Salt \cup {0} /\ s.h0.init \in BOOLEAN
         /\ s.backfill \in 0 .. MaxFrame
         /\ s.mark \in [Slots -> 0 .. NotUsed] /\ s.pg \in [Index -> 0 .. NPage]
  BY DEF ShmType, Hdr

(* n holds no lock that r does not hold.                                   *)
NoMore(n, r) ==
  /\ n.wl => r.wl
  /\ n.cl \/ InRecovery(n) => r.cl \/ InRecovery(r)
  /\ n.rl = -1 \/ n.rl = r.rl
  /\ n.ex \subseteq r.ex
  /\ n.goal = "close" => r.goal = "close"
  /\ r.at = "closed" => n.at = "closed"

(* Who takes no lock stays apart from the others.                          *)
LEMMA StaysApart ==
  ASSUME NEW r \in State, NEW n \in State, NEW q \in State,
         Apart(r, q), Apart(q, r), NoMore(n, r)
  PROVE  Apart(n, q) /\ Apart(q, n)
<1>1. -1 \notin q.ex
  BY StateTypes, Bounds
<1>2. n.rl \notin q.ex /\ q.rl \notin n.ex /\ n.ex \cap q.ex = {} /\ q.ex \cap n.ex = {}
  BY <1>1 DEF Apart, NoMore
<1>3. ~(n.wl /\ q.wl) /\ ~((n.cl \/ InRecovery(n)) /\ (q.cl \/ InRecovery(q)))
  BY DEF Apart, NoMore
<1>4. (q.goal = "close" => n.at = "closed") /\ (n.goal = "close" => q.at = "closed")
  BY DEF Apart, NoMore
<1> QED
  BY <1>2, <1>3, <1>4 DEF Apart

(* The checkpoint that readers limit is before its end.                    *)
Limited == {"mark", "marklock", "backfill", "copy"}

(* What two connections have to do with each other outlasts a step of one  *)
(* of them that takes no header from elsewhere and begins no reset.        *)
LEMMA PairKept ==
  ASSUME NEW s \in ShmType, NEW w, NEW b, NEW im,
         NEW r \in State, NEW n \in State, NEW q \in State,
         ConnOK(q, s, w, b, im), PairOK(r, q, s), PairOK(q, r, s),
         Apart(n, q), Apart(q, n), n.at \notin AtReset,
         n.rl >= 1 => \/ n.rl = r.rl /\ End(n, s) >= End(r, s)
                      \/ End(n, s) >= s.h0.mx,
         n.at \in Limited => Behind(q, n, s),
         n.hdr.gen \in {r.hdr.gen, 0, s.h0.gen},
         n.at \in AtCkpt => r.at \in AtCkpt \/ s.h0 = s.h1,
         n.tid # 0 => n.hdr.gen = s.h0.gen \/ (n.hdr.gen = r.hdr.gen /\ r.tid # 0 /\ r.at \notin AtReset)
  PROVE  PairOK(n, q, s) /\ PairOK(q, n, s)
<1>2. Behind(n, q, s)
  <2>1. /\ q.y \in Int /\ q.i \in Int /\ q.safe \in Int /\ r.rl \in Int
        /\ End(r, s) \in Int /\ End(n, s) \in Int
    BY StateTypes, ShmTypes, Bounds DEF End, NotUsed
  <2>2. CASE n.rl >= 1
    <3>1. Behind(r, q, s)
      BY DEF PairOK
    <3>2. q.at \in Limited => q.safe <= s.h0.mx
      <4>1. q.at \in Limited => q.safe <= q.hdr.mx /\ q.hdr.mx <= s.h0.mx
        BY DEF ConnOK, CheckpointOK, Limited, AtCkpt
      <4> QED
        BY <4>1, StateTypes, ShmTypes, Bounds
    <3>3. s.h0.mx \in Int
      BY ShmTypes, Bounds
    <3>4. CASE n.rl = r.rl /\ End(n, s) >= End(r, s)
      BY <2>1, <2>2, <3>1, <3>4 DEF Behind
    <3>5. CASE End(n, s) >= s.h0.mx
      BY <2>1, <3>2, <3>3, <3>5 DEF Behind, Limited
    <3> QED
      BY <2>2, <3>4, <3>5
  <2>3. CASE ~(n.rl >= 1)
    BY <2>3 DEF Behind
  <2> QED
    BY <2>2, <2>3
<1>3. Behind(q, n, s)
  BY DEF Behind, Limited
<1>4. Fresh(n, q, s)
  <2>1. ASSUME q.at = "reset2" PROVE n.hdr.gen # q.hdr.gen /\ n.at \notin AtCkpt
    <3>1. q.hdr.gen \notin {0, s.h0.gen} /\ s.h1 = q.hdr
      BY <2>1 DEF ConnOK, ResetOK, AtReset
    <3>2. r.hdr.gen # q.hdr.gen /\ r.at \notin AtCkpt
      BY <2>1 DEF PairOK, Fresh
    <3> QED
      BY <3>1, <3>2
  <2>2. ASSUME q.tid # 0, q.at \notin AtReset, q.hdr.gen # s.h0.gen PROVE n.hdr.gen # q.hdr.gen
    <3>1. q.hdr.gen # 0
      BY <2>2 DEF ConnOK, WriterOK
    <3>2. r.hdr.gen # q.hdr.gen
      BY <2>2 DEF PairOK, Fresh
    <3> QED
      BY <2>2, <3>1, <3>2
  <2> QED
    BY <2>1, <2>2 DEF Fresh
<1>5. Fresh(q, n, s)
  <2>1. n.at # "reset2"
    BY DEF AtReset
  <2>2. Fresh(q, r, s)
    BY DEF PairOK
  <2> QED
    BY <2>1, <2>2 DEF Fresh
<1> QED
  BY <1>2, <1>3, <1>4, <1>5 DEF PairOK

(* What the invariant says of a connection, and of one that moves.         *)
LEMMA ConnTypes ==
  ASSUME Types, NEW c \in Conn
  PROVE  /\ con[c] \in State
         /\ \A n : con' = [con EXCEPT ![c] = n] =>
              con'[c] = n /\ \A d \in Conn \ {c} : con'[d] = con[d]
         /\ \A n \in State : [con EXCEPT ![c] = n] \in [Conn -> State]
  BY DEF Types

(* A step that changes neither the wal-index nor the files.                *)
Quiet(c, n) ==
  /\ con' = [con EXCEPT ![c] = n]
  /\ shm' = shm /\ wal' = wal /\ db' = db /\ committed' = committed
  /\ FileTypes' /\ ntxn' \in 0 .. MaxTxn

(* Such a step keeps the invariant if what is said of the one that moves   *)
(* holds.                                                                  *)
LEMMA QuietStep ==
  ASSUME Inv, NEW c \in Conn, NEW n \in State, Quiet(c, n),
         con[c].at # "closed", con[c].at \notin AtReset, n.at \notin AtReset,
         ConnOK(n, shm, wal, db, committed),
         Describes(n) => \/ Describes(con[c]) /\ n.hdr.gen = con[c].hdr.gen
                         \/ n.hdr.gen = shm.h0.gen,
         \A d \in Conn \ {c} : PairOK(n, con[d], shm) /\ PairOK(con[d], n, shm)
  PROVE  Inv'
<1>1. con'[c] = n /\ \A d \in Conn \ {c} : con'[d] = con[d]
  BY ConnTypes DEF Quiet, Inv
<1>2. Types'
  BY ConnTypes DEF Inv, Types, Quiet
<1>3. \A d \in Conn : ConnOK(con'[d], shm', wal', db', committed')
  BY <1>1 DEF Inv, Quiet
<1>4. \A d, e \in Conn : d # e => PairOK(con'[d], con'[e], shm')
  BY <1>1 DEF Inv, Quiet
<1>5. (\A d \in Conn : con'[d].at # "reset3") => shm'.backfill <= shm'.h0.mx
  BY <1>1 DEF Inv, ShmOK, Quiet, AtReset
<1>6. (\A d \in Conn : con'[d].at # "reset2") => \A d \in Conn : Half(con'[d], shm', wal')
  <2>1. ASSUME \A d \in Conn : con'[d].at # "reset2"
        PROVE  \A d \in Conn : Half(con[d], shm, wal)
    BY <1>1, <2>1 DEF Inv, ShmOK, AtReset
  <2>2. Half(con[c], shm, wal) => Half(n, shm, wal)
    BY DEF Half
  <2> QED
    BY <1>1, <2>1, <2>2 DEF Quiet
<1>7. Alive' => IndexOK(shm', wal', db', committed')
  BY DEF Inv, ShmOK, Alive, Quiet
<1> QED
  BY <1>2, <1>3, <1>4, <1>5, <1>6, <1>7 DEF Inv, ShmOK

-----------------------------------------------------------------------------
(* Connections of which little is to be said: those that hold no snapshot, *)
(* change nothing and copy nothing.                                        *)
Simple(r) ==
  /\ r.at \in {"closed", "idle", "hdr", "badhdr", "locked", "choose", "marks", "lock"}
  /\ r.tid = 0
  /\ InPlace(r) /\ Locked(r)
  /\ r.job = {} /\ r.log = <<>>
  /\ r.at = "lock" => r.y <= r.hdr.mx

(* For them most of the invariant is void.                                 *)
LEMMA SimpleOK ==
  ASSUME NEW r \in State, NEW s, NEW w, NEW b, NEW im, Simple(r), HdrKnown(r, s, im)
  PROVE  ConnOK(r, s, w, b, im) /\ r.rl = -1 /\ r.goal # "write"
<1>1. r.rl = -1 /\ r.goal # "write" /\ ~InRecovery(r)
  BY DEF Simple, Locked, InRecovery, AtWrite, AtReset
<1>2. r.at \notin AtCkpt \cup AtReset \cup AtWrite /\ r.at \notin {"read", "cut"}
  BY DEF Simple, AtCkpt, AtReset, AtWrite
<1>3. InPlace(r) /\ Locked(r) /\ JobOK(r)
  BY <1>1, <1>2 DEF Simple, JobOK, AtWrite
<1>4. RecoveryOK(r, s, w)
  BY <1>1 DEF RecoveryOK, InRecovery
<1>5. SnapshotOK(r, s, w, b)
  BY <1>1, <1>2 DEF SnapshotOK, Simple
<1>6. ResetOK(r, s, im)
  BY <1>2 DEF ResetOK, AtReset
<1>7. WriterOK(r, s, im)
  BY DEF WriterOK, Simple
<1>8. WrittenOK(r, s, w)
  BY <1>2 DEF WrittenOK, AtWrite
<1>9. CheckpointOK(r, s, w, b)
  BY <1>2 DEF CheckpointOK, AtCkpt
<1> QED
  BY <1>1, <1>3, <1>4, <1>5, <1>6, <1>7, <1>8, <1>9 DEF ConnOK

(* A step to such a state.                                                 *)
LEMMA SimpleStep ==
  ASSUME Inv, NEW c \in Conn, NEW n \in State, Quiet(c, n),
         con[c].at # "closed", con[c].at \notin AtReset,
         Simple(n), HdrKnown(n, shm, committed),
         Describes(n) => \/ Describes(con[c]) /\ n.hdr.gen = con[c].hdr.gen
                         \/ n.hdr.gen = shm.h0.gen,
         n.hdr.gen \in {con[c].hdr.gen, 0, shm.h0.gen},
         NoMore(n, con[c]) \/ \A d \in Conn \ {c} : Apart(n, con[d]) /\ Apart(con[d], n)
  PROVE  Inv'
<1>1. ConnOK(n, shm, wal, db, committed) /\ n.rl = -1
  BY SimpleOK
<1>2. n.at \notin AtReset /\ n.at \notin Limited /\ n.at \notin AtCkpt /\ n.tid = 0
  BY DEF Simple, AtReset, Limited, AtCkpt
<1>3. ASSUME NEW d \in Conn \ {c}
      PROVE  PairOK(n, con[d], shm) /\ PairOK(con[d], n, shm)
  <2>1. PairOK(con[c], con[d], shm) /\ PairOK(con[d], con[c], shm)
    BY DEF Inv
  <2>2. con[c] \in State /\ con[d] \in State /\ shm \in ShmType
    BY DEF Inv, Types
  <2>3. Apart(n, con[d]) /\ Apart(con[d], n)
    BY <2>1, <2>2, StaysApart DEF PairOK
  <2>4. ConnOK(con[d], shm, wal, db, committed)
    BY DEF Inv
  <2> QED
    BY <1>1, <1>2, <2>1, <2>2, <2>3, <2>4, PairKept
<1> QED
  BY <1>1, <1>2, <1>3, QuietStep

(* Where a connection may be.                                              *)
LEMMA Names ==
  /\ \A at \in {"closed", "idle", "hdr", "badhdr", "locked", "choose", "marks", "lock"} :
       at \in AtAny /\ at \notin AtWrite \cup AtReset \cup AtCkpt
  /\ AtCkpt \subseteq AtAny /\ AtReset \subseteq AtAny /\ AtWrite \subseteq AtAny
  /\ AtHdr \subseteq AtAny
  BY DEF AtAny, AtWrite, AtReset, AtCkpt, AtHdr, AtLock

(* Its header and its cache stay what they are.                            *)
LEMMA HdrKnownKept ==
  ASSUME NEW r, NEW n, NEW s, NEW im, HdrKnown(r, s, im),
         n.hdr = r.hdr, n.cache = r.cache, Describes(n) => Describes(r),
         n.goal = "read" /\ n.at \notin AtHdr => n.hdr.init /\ s.h0.init
  PROVE  HdrKnown(n, s, im)
  BY DEF HdrKnown

(* A step that leaves header and cache alone.                              *)
LEMMA WaitStep ==
  ASSUME Inv, NEW c \in Conn, NEW n \in State, Quiet(c, n),
         con[c].at # "closed", con[c].tid = 0, con[c].at \notin AtReset, Simple(n),
         n.hdr = con[c].hdr, n.cache = con[c].cache, con[c].chg => n.chg,
         n.goal = "read" /\ n.at \notin AtHdr => n.hdr.init /\ shm.h0.init,
         NoMore(n, con[c]) \/ \A d \in Conn \ {c} : Apart(n, con[d]) /\ Apart(con[d], n)
  PROVE  Inv'
<1>1. Describes(n) => Describes(con[c])
  BY DEF Describes
<1>2. HdrKnown(con[c], shm, committed)
  BY DEF Inv, ConnOK
<1>3. HdrKnown(n, shm, committed)
  BY <1>1, <1>2, HdrKnownKept
<1> QED
  BY <1>1, <1>3, SimpleStep

(* It lets go of everything.                                               *)
LEMMA IdleStep ==
  ASSUME Inv, NEW c \in Conn, NEW n \in State, Quiet(c, n),
         con[c].at # "closed", con[c].at \notin AtReset,
         n.at = "idle", n.goal = "none", n.rl = -1, ~n.wl, ~n.cl, n.ex = {}, ~n.chg,
         n.tid = 0, n.job = {}, n.log = <<>>,
         n.hdr \in {con[c].hdr, NoHdr}, n.cache \in {con[c].cache, NoImage},
         Describes(n) => n.hdr = con[c].hdr /\ Describes(con[c])
  PROVE  Inv'
<1>1. Simple(n)
  BY Names DEF Simple, InPlace, Locked, AtHdr, AtLock, AtReset, AtWrite, AtCkpt, Checkpointing, InRecovery
<1>2. NoMore(n, con[c])
  BY DEF NoMore, InRecovery
<1>3. HdrKnown(n, shm, committed)
  <2>1. HdrKnown(con[c], shm, committed)
    BY DEF Inv, ConnOK
  <2> QED
    BY <2>1 DEF HdrKnown, Describes
<1>4. n.hdr.gen \in {con[c].hdr.gen, 0}
  BY Nothing
<1> QED
  BY <1>1, <1>2, <1>3, <1>4, SimpleStep

(* It closes, or its process dies.                                         *)
LEMMA CloseStep ==
  ASSUME Inv, NEW c \in Conn, NEW n, n = Closed, Quiet(c, n),
         con[c].at # "closed", con[c].at \notin AtReset
  PROVE  Inv'
<1>1. n \in State
  BY ClosedState
<1>2. Simple(n)
  BY ClosedState, Names DEF Simple, InPlace, Locked, AtHdr, AtLock, AtReset, AtWrite, AtCkpt, Checkpointing, InRecovery
<1>3. NoMore(n, con[c])
  BY ClosedState DEF NoMore, InRecovery
<1>4. ~Describes(n) /\ n.cache = NoImage /\ n.goal = "none" /\ n.hdr.gen = 0
  BY ClosedState, Nothing DEF Describes
<1>5. HdrKnown(n, shm, committed)
  BY <1>4 DEF HdrKnown
<1> QED
  BY <1>1, <1>2, <1>3, <1>4, <1>5, SimpleStep

(* A checkpoint ends.                                                      *)
LEMMA CheckpointedState ==
  ASSUME NEW r \in State
  PROVE  /\ Checkpointed(r) \in State
         /\ Checkpointed(r).at = "idle" /\ Checkpointed(r).goal = "none"
         /\ Checkpointed(r).rl = -1 /\ ~Checkpointed(r).wl /\ ~Checkpointed(r).cl
         /\ Checkpointed(r).ex = {} /\ ~Checkpointed(r).chg
         /\ Checkpointed(r).cache = r.cache /\ Checkpointed(r).tid = 0
         /\ Checkpointed(r).job = {} /\ Checkpointed(r).log = <<>>
         /\ Checkpointed(r).hdr = IF r.chg THEN NoHdr ELSE r.hdr
<1>1. PICK k \in State : k = Idle(r)
  BY IdleState
<1>2. PICK h \in Hdr : h = IF r.chg THEN NoHdr ELSE r.hdr
  BY Nothing, StateTypes
<1>3. PICK n : n = [k EXCEPT !.hdr = h]
  BY Zenon
<1>4. Checkpointed(r) = n
  <2>1. r.hdr = k.hdr
    BY <1>1, IdleState
  <2> QED
    BY <1>1, <1>2, <1>3, <2>1 DEF Checkpointed
<1>5. n \in State
  BY <1>3, Zenon DEF State
<1>6. n.at = k.at /\ n.goal = k.goal /\ n.rl = k.rl /\ n.ex = k.ex /\ n.hdr = h
      /\ n.cache = k.cache /\ n.tid = k.tid /\ n.job = k.job /\ n.log = k.log
  BY <1>3, <1>5 DEF State
<1>7. n.wl = k.wl /\ n.cl = k.cl /\ n.chg = k.chg
  BY <1>3, <1>5 DEF State
<1> QED
  BY <1>1, <1>2, <1>4, <1>5, <1>6, <1>7, IdleState

(* A checkpoint that ends leaves a header only if it is that of the        *)
(* cache.                                                                  *)
LEMMA CheckpointedStep ==
  ASSUME Inv, NEW c \in Conn, NEW n, n = Checkpointed(con[c]), Quiet(c, n),
         con[c].at # "closed", con[c].at \notin AtReset, con[c].tid = 0
  PROVE  Inv'
<1>1. con[c] \in State
  BY DEF Inv, Types
<1>2. n \in State
  BY <1>1, CheckpointedState
<1>3. /\ n.at = "idle" /\ n.goal = "none" /\ n.rl = -1 /\ ~n.wl /\ ~n.cl /\ n.ex = {} /\ ~n.chg
      /\ n.tid = 0 /\ n.job = {} /\ n.log = <<>> /\ n.cache = con[c].cache
      /\ n.hdr = IF con[c].chg THEN NoHdr ELSE con[c].hdr
  BY <1>1, CheckpointedState
<1>4. Describes(n) => n.hdr = con[c].hdr /\ Describes(con[c])
  BY <1>3, Nothing DEF Describes
<1> QED
  BY <1>2, <1>3, <1>4, IdleStep

(* The same if it fails.                                                   *)
LEMMA FailedStep ==
  ASSUME Inv, NEW c \in Conn, NEW n, n = Failed(con[c]), Quiet(c, n),
         con[c].at # "closed", con[c].at \notin AtReset, con[c].tid = 0
  PROVE  Inv'
<1>1. n = Closed \/ n = Checkpointed(con[c])
  BY DEF Failed
<1> QED
  BY <1>1, CloseStep, CheckpointedStep

-----------------------------------------------------------------------------
(* A checkpoint that copies nothing yet.                                   *)
LEMMA CkptOK ==
  ASSUME NEW r \in State, NEW s, NEW w, NEW b, NEW im, r.at \in AtCkpt,
         InPlace(r), Locked(r), r.job = {}, r.log = <<>>,
         HdrKnown(r, s, im), CheckpointOK(r, s, w, b)
  PROVE  ConnOK(r, s, w, b, im) /\ r.rl = -1 /\ r.tid = 0
<1>1. r.at \notin AtReset \cup AtWrite \cup {"read", "cut", "lock", "choose"} /\ ~InRecovery(r)
  BY DEF AtCkpt, AtReset, AtWrite, InRecovery
<1>2. r.rl = -1 /\ r.goal \in {"ckpt", "close"}
  BY <1>1 DEF Locked, InPlace, Checkpointing
<1>3. r.tid = 0
  BY <1>1, <1>2 DEF Locked
<1>4. JobOK(r)
  BY <1>1, <1>2 DEF JobOK, AtWrite
<1>5. RecoveryOK(r, s, w)
  BY <1>1 DEF RecoveryOK, InRecovery
<1>6. SnapshotOK(r, s, w, b)
  BY <1>1, <1>2 DEF SnapshotOK
<1>7. ResetOK(r, s, im)
  BY <1>1 DEF ResetOK, AtReset
<1>8. WriterOK(r, s, im)
  BY <1>3 DEF WriterOK
<1>9. WrittenOK(r, s, w)
  BY <1>1 DEF WrittenOK, AtWrite
<1> QED
  BY <1>2, <1>3, <1>4, <1>5, <1>6, <1>7, <1>8, <1>9 DEF ConnOK

(* A step of a checkpoint that copies nothing yet.                         *)
LEMMA CkptStep ==
  ASSUME Inv, NEW c \in Conn, NEW n \in State, Quiet(c, n),
         con[c].at # "closed", con[c].at \notin AtReset,
         n.at \in AtCkpt, con[c].at \in AtCkpt \/ shm.h0 = shm.h1,
         InPlace(n), Locked(n), n.job = {}, n.log = <<>>,
         HdrKnown(n, shm, committed), CheckpointOK(n, shm, wal, db),
         Describes(n) => \/ Describes(con[c]) /\ n.hdr.gen = con[c].hdr.gen
                         \/ n.hdr.gen = shm.h0.gen,
         n.hdr.gen \in {con[c].hdr.gen, shm.h0.gen},
         \A d \in Conn \ {c} : Apart(n, con[d]) /\ Apart(con[d], n),
         \A d \in Conn \ {c} : n.at \in Limited => Behind(con[d], n, shm)
  PROVE  Inv'
<1>1. ConnOK(n, shm, wal, db, committed) /\ n.rl = -1 /\ n.tid = 0
  BY CkptOK
<1>2. n.at \notin AtReset
  BY DEF AtReset, AtCkpt
<1>3. ASSUME NEW d \in Conn \ {c}
      PROVE  PairOK(n, con[d], shm) /\ PairOK(con[d], n, shm)
  <2>1. PairOK(con[c], con[d], shm) /\ PairOK(con[d], con[c], shm)
    BY DEF Inv
  <2>2. con[c] \in State /\ con[d] \in State /\ shm \in ShmType
    BY DEF Inv, Types
  <2>4. ConnOK(con[d], shm, wal, db, committed)
    BY DEF Inv
  <2> QED
    BY <1>1, <1>2, <2>1, <2>2, <2>4, PairKept
<1> QED
  BY <1>1, <1>2, <1>3, QuietStep

-----------------------------------------------------------------------------
(* Where a connection is, from what it holds.                              *)
LEMMA ConnNow ==
  ASSUME Inv, NEW c \in Conn
  PROVE  /\ con[c] \in State /\ shm \in ShmType /\ wal \in LogType
         /\ db \in Image /\ committed \in Image /\ FileTypes /\ ntxn \in 0 .. MaxTxn
         /\ InPlace(con[c]) /\ Locked(con[c]) /\ JobOK(con[c])
         /\ RecoveryOK(con[c], shm, wal) /\ HdrKnown(con[c], shm, committed)
         /\ SnapshotOK(con[c], shm, wal, db) /\ ResetOK(con[c], shm, committed)
         /\ WriterOK(con[c], shm, committed) /\ WrittenOK(con[c], shm, wal)
         /\ CheckpointOK(con[c], shm, wal, db)
         /\ \A d \in Conn \ {c} : PairOK(con[c], con[d], shm) /\ PairOK(con[d], con[c], shm)
<1>1. ConnOK(con[c], shm, wal, db, committed)
  BY DEF Inv
<1>2. \A d \in Conn \ {c} : PairOK(con[c], con[d], shm) /\ PairOK(con[d], con[c], shm)
  BY DEF Inv
<1> QED
  BY <1>1, <1>2 DEF ConnOK, Inv, Types, FileTypes

(* While somebody has the database open the wal-index holds.               *)
LEMMA IndexNow ==
  ASSUME Inv, NEW c \in Conn, con[c].at # "closed"
  PROVE  IndexOK(shm, wal, db, committed)
  BY DEF Inv, ShmOK, Alive

(* The unchanged files keep their types.                                   *)
LEMMA QuietFiles ==
  ASSUME Inv, NEW c \in Conn, NEW n, con' = [con EXCEPT ![c] = n],
         UNCHANGED <<files, shm, committed>>, ntxn' \in 0 .. MaxTxn
  PROVE  Quiet(c, n)
  BY DEF Quiet, files, Inv, Types, FileTypes

(* A connection that waits or begins holds no snapshot.                    *)
LEMMA WaitingNow ==
  ASSUME Inv, NEW c \in Conn,
         con[c].at \in {"idle", "hdr", "badhdr", "locked", "choose"}
           \/ (con[c].at \in {"marks", "lock"} /\ con[c].goal = "read")
  PROVE  /\ con[c].rl = -1 /\ con[c].ex = {} /\ con[c].tid = 0
         /\ con[c].job = {} /\ con[c].log = <<>> /\ con[c].goal # "write"
         /\ con[c].at \notin AtReset /\ con[c].at # "closed" /\ ~InRecovery(con[c])
<1>1. con[c].at \notin AtWrite \cup AtReset \cup {"read", "cut", "copy", "closed"} /\ ~InRecovery(con[c])
  BY DEF AtWrite, AtReset, InRecovery
<1>2. con[c].goal # "write"
  BY ConnNow DEF InPlace, AtHdr
<1>3. con[c].rl = -1 /\ con[c].ex = {} /\ con[c].tid = 0
  BY <1>1, <1>2, ConnNow DEF Locked
<1>4. con[c].job = {} /\ con[c].log = <<>>
  BY <1>1, <1>2, ConnNow DEF JobOK, AtWrite
<1> QED
  BY <1>1, <1>2, <1>3, <1>4

(* A header that is loaded.                                                *)
LEMMA LoadedStep ==
  ASSUME Inv, NEW c \in Conn, NEW n \in State, Quiet(c, n), Readable,
         con[c].at \in {"idle", "hdr", "locked"},
         n.hdr = shm.h0, n.chg <=> con[c].chg \/ con[c].hdr # shm.h0,
         n.goal \in {"read", "ckpt", "close"},
         n.at = IF n.goal = "read" THEN "choose" ELSE "ckpt",
         n.cache = con[c].cache, n.cl <=> Checkpointing(n), n.cl => con[c].cl,
         n.wl <=> Checkpointing(n) /\ n.mode # "passive", n.wl => con[c].wl,
         n.goal = "close" => n.mode = "passive" /\ con[c].goal = "close",
         n.rl = -1, n.ex = {}, n.tid = 0, n.job = {}, n.log = <<>>
  PROVE  Inv'
<1>1. /\ shm \in ShmType /\ con[c] \in State
      /\ con[c].at # "closed" /\ con[c].at \notin AtReset /\ ~InRecovery(con[c])
  BY ConnNow, WaitingNow
<1>3. HdrKnown(n, shm, committed)
  <2>1. HdrKnown(con[c], shm, committed) /\ con[c].tid = 0
    BY ConnNow, WaitingNow
  <2>2. Describes(n) => Describes(con[c]) /\ con[c].hdr = shm.h0
    BY <2>1 DEF Describes
  <2> QED
    BY <1>1, <2>1, <2>2, ShmTypes DEF HdrKnown, Readable
<1>4. NoMore(n, con[c])
  BY <1>1 DEF NoMore, InRecovery
<1>5. CASE n.goal = "read"
  <2>1. InPlace(n)
    BY <1>5 DEF InPlace, AtHdr, AtLock, AtReset, AtWrite, AtCkpt, Checkpointing
  <2>2. Locked(n)
    BY <1>5 DEF Locked, AtReset, AtWrite, AtCkpt, Checkpointing, InRecovery
  <2>3. Simple(n)
    BY <1>5, <2>1, <2>2 DEF Simple
  <2> QED
    BY <1>1, <1>3, <1>4, <2>3, SimpleStep
<1>6. CASE n.goal # "read"
  <2>1. InPlace(n)
    BY <1>6 DEF InPlace, AtHdr, AtLock, AtReset, AtWrite, AtCkpt, Checkpointing
  <2>2. Locked(n)
    BY <1>6 DEF Locked, AtReset, AtWrite, AtCkpt, Checkpointing, InRecovery
  <2>3. CheckpointOK(n, shm, wal, db)
    BY <1>1, <1>6, ShmTypes DEF CheckpointOK, Readable
  <2>4. n.at \in AtCkpt /\ n.at \notin Limited
    BY <1>6 DEF AtCkpt, Limited
  <2>5. ASSUME NEW d \in Conn \ {c} PROVE Apart(n, con[d]) /\ Apart(con[d], n)
    BY <1>1, <1>4, ConnNow, StaysApart DEF PairOK
  <2>6. shm.h0 = shm.h1 /\ n.hdr.gen = shm.h0.gen
    BY DEF Readable
  <2> QED
    BY <1>1, <1>3, <2>1, <2>2, <2>3, <2>4, <2>5, <2>6, CkptStep
<1> QED
  BY <1>5, <1>6

(* The header is read, or a lock is needed for it.                         *)
LEMMA TryHdrStep ==
  ASSUME Inv, NEW c \in Conn, NEW r \in State, TryHdr(c, r),
         con[c].at \in {"idle", "hdr"}, r.wl => r = con[c],
         r.goal = con[c].goal \/ (con[c].goal = "none" /\ r.goal = "read"),
         r.goal # "none",
         r.hdr = con[c].hdr, r.cache = con[c].cache, r.chg <=> con[c].chg,
         r.rl = con[c].rl, r.ex = con[c].ex, r.tid = con[c].tid, r.job = con[c].job,
         r.log = con[c].log, r.mode = con[c].mode, r.cl <=> con[c].cl, r.wl <=> con[c].wl
  PROVE  Inv'
<1>0. /\ r.rl = -1 /\ r.ex = {} /\ r.tid = 0 /\ r.job = {} /\ r.log = <<>>
      /\ con[c].at \notin AtReset /\ con[c].at # "closed" /\ con[c].tid = 0
      /\ con[c].goal # "write" /\ ~InRecovery(con[c])
  BY WaitingNow
<1>1. /\ InPlace(con[c]) /\ Locked(con[c]) /\ shm \in ShmType /\ con[c] \in State
  BY ConnNow
<1>2. /\ r.goal \in {"read", "ckpt", "close"} /\ (r.goal = "close" => r.mode = "passive")
      /\ (r.cl <=> Checkpointing(r)) /\ (r.wl <=> Checkpointing(r) /\ r.mode # "passive")
      /\ (r.goal = "close" => con[c].goal = "close")
  <2>1. r.goal \in {"none", "read", "write", "ckpt", "close"}
    BY DEF State
  <2>2. CASE con[c].at = "idle"
    BY <1>0, <1>1, <2>1, <2>2 DEF InPlace, Locked, Checkpointing, AtCkpt, AtReset
  <2>3. CASE con[c].at = "hdr"
    BY <1>0, <1>1, <2>1, <2>3 DEF InPlace, Locked, Checkpointing, AtCkpt, AtReset
  <2> QED
    BY <2>2, <2>3
<1>3. UNCHANGED <<files, shm, committed>> /\ ntxn' \in 0 .. MaxTxn
  BY ConnNow DEF TryHdr, history
<1>4. CASE Readable
  <2>1. PICK chg \in BOOLEAN : chg = (r.chg \/ r.hdr # shm.h0)
    BY Zenon
  <2>2. PICK at \in AtAny : at = IF r.goal = "read" THEN "choose" ELSE "ckpt"
    BY DEF AtAny, AtCkpt
  <2>3. PICK h \in Hdr : h = shm.h0
    BY <1>1, ShmTypes
  <2>4. PICK n : n = [r EXCEPT !.hdr = h, !.chg = chg, !.at = at]
    OBVIOUS
  <2>5. con' = [con EXCEPT ![c] = n]
    BY <1>4, <2>1, <2>2, <2>3, <2>4 DEF TryHdr, Loaded
  <2>6. n \in State
    BY <2>4 DEF State
  <2>7. /\ n.hdr = h /\ n.at = at /\ n.goal = r.goal /\ n.mode = r.mode /\ n.rl = r.rl
        /\ n.ex = r.ex /\ n.cache = r.cache /\ n.tid = r.tid /\ n.job = r.job /\ n.log = r.log
    <3>1. n.hdr = h /\ n.at = at /\ n.goal = r.goal /\ n.mode = r.mode /\ n.rl = r.rl
      BY <2>4 DEF State
    <3>2. n.ex = r.ex /\ n.cache = r.cache /\ n.tid = r.tid /\ n.job = r.job /\ n.log = r.log
      BY <2>4 DEF State
    <3> QED
      BY <3>1, <3>2
  <2>8. n.wl = r.wl /\ n.cl = r.cl /\ n.chg = chg
    BY <2>4, <2>6 DEF State
  <2>9. Quiet(c, n)
    BY <1>3, <2>5, QuietFiles, Zenon
  <2> QED
    BY <1>0, <1>2, <1>4, <2>1, <2>2, <2>3, <2>6, <2>7, <2>8, <2>9, LoadedStep DEF Checkpointing
<1>5. CASE ~Readable /\ r.wl
  <2>1. PICK n : n = Failed(con[c])
    OBVIOUS
  <2>2. con' = [con EXCEPT ![c] = n]
    BY <1>5, <2>1, Zenon DEF TryHdr
  <2>3. Quiet(c, n)
    BY <1>3, <2>2, QuietFiles, Zenon
  <2> QED
    BY <1>0, <2>1, <2>3, FailedStep
<1>6. CASE ~Readable /\ ~r.wl
  <2>1. PICK n : n = [r EXCEPT !.at = "badhdr"]
    BY Zenon
  <2>2. con' = [con EXCEPT ![c] = n]
    BY <1>6, <2>1 DEF TryHdr
  <2>3. Quiet(c, n)
    BY <1>3, <2>2, QuietFiles, Zenon
  <2>4. n \in State
    BY <2>1, Names, Zenon DEF State
  <2>5. /\ n.hdr = r.hdr /\ n.at = "badhdr" /\ n.goal = r.goal /\ n.mode = r.mode /\ n.rl = r.rl
        /\ n.ex = r.ex /\ n.cache = r.cache /\ n.tid = r.tid /\ n.job = r.job /\ n.log = r.log
    BY <2>1, <2>4, Zenon DEF State
  <2>6. n.wl = r.wl /\ n.cl = r.cl /\ n.chg = r.chg
    BY <2>1, <2>4 DEF State
  <2>7. InPlace(n)
    BY <1>2, <2>5 DEF InPlace, AtHdr, AtLock, AtReset, AtWrite, AtCkpt, Checkpointing
  <2>8. Locked(n)
    BY <1>0, <1>2, <1>6, <2>5, <2>6 DEF Locked, AtReset, AtWrite, AtCkpt, Checkpointing, InRecovery
  <2>9. Simple(n)
    BY <1>0, <2>5, <2>7, <2>8 DEF Simple
  <2>10. NoMore(n, con[c])
    BY <1>0, <1>2, <2>5, <2>6 DEF NoMore, InRecovery
  <2>11. n.at \in AtHdr
    BY <2>5 DEF AtHdr
  <2> QED
    BY <1>0, <2>3, <2>4, <2>5, <2>6, <2>9, <2>10, <2>11, WaitStep
<1> QED
  BY <1>4, <1>5, <1>6

(* walIndexReadHdr at the start of a transaction.                          *)
LEMMA BeginReadStep ==
  ASSUME Inv, NEW c \in Conn, BeginRead(c)
  PROVE  Inv'
<1>1. con[c].at = "idle" /\ con[c] \in State /\ con[c].goal = "none" /\ ~con[c].wl
  BY ConnNow, WaitingNow DEF BeginRead, InPlace, Locked, AtCkpt, AtReset
<1>2. PICK r : r = [con[c] EXCEPT !.goal = "read"]
  BY Zenon
<1>3. r \in State
  BY <1>1, <1>2, Zenon DEF State
<1>4. /\ r.goal = "read" /\ r.hdr = con[c].hdr /\ r.cache = con[c].cache
      /\ r.rl = con[c].rl /\ r.ex = con[c].ex /\ r.tid = con[c].tid /\ r.job = con[c].job
      /\ r.log = con[c].log /\ r.mode = con[c].mode
  BY <1>1, <1>2, <1>3 DEF State
<1>5. r.cl = con[c].cl /\ r.wl = con[c].wl /\ r.chg = con[c].chg
  BY <1>1, <1>2, <1>3 DEF State
<1>6. TryHdr(c, r)
  BY <1>2 DEF BeginRead
<1> QED
  BY <1>1, <1>3, <1>4, <1>5, <1>6, TryHdrStep

(* walIndexReadHdr, the next time.                                         *)
LEMMA RetryHdrStep ==
  ASSUME Inv, NEW c \in Conn, RetryHdr(c)
  PROVE  Inv'
<1>1. con[c].at = "hdr" /\ con[c] \in State /\ con[c].goal # "none"
  BY ConnNow, Names DEF RetryHdr, InPlace, AtHdr
<1> QED
  BY <1>1, TryHdrStep DEF RetryHdr

(* The WRITE lock to read the header.                                      *)
LEMMA LockHdrStep ==
  ASSUME Inv, NEW c \in Conn, LockHdr(c)
  PROVE  Inv'
<1>0. /\ con[c].at = "badhdr"
      /\ con[c].rl = -1 /\ con[c].ex = {} /\ con[c].tid = 0 /\ con[c].job = {} /\ con[c].log = <<>>
      /\ con[c].at \notin AtReset /\ con[c].at # "closed" /\ ~InRecovery(con[c])
  BY WaitingNow DEF LockHdr
<1>1. InPlace(con[c]) /\ Locked(con[c]) /\ con[c] \in State
  BY ConnNow
<1>2. PICK n : n = [con[c] EXCEPT !.wl = TRUE, !.at = "locked"]
  OBVIOUS
<1>3. Quiet(c, n)
  BY <1>2, ConnNow, QuietFiles, Zenon DEF LockHdr, history
<1>4. n \in State
  BY <1>1, <1>2, Names, Zenon DEF State
<1>5. /\ n.hdr = con[c].hdr /\ n.at = "locked" /\ n.goal = con[c].goal /\ n.mode = con[c].mode
      /\ n.rl = con[c].rl /\ n.ex = con[c].ex /\ n.cache = con[c].cache /\ n.tid = con[c].tid
      /\ n.job = con[c].job /\ n.log = con[c].log
  BY <1>1, <1>2, <1>4 DEF State
<1>6. n.wl = TRUE /\ n.cl = con[c].cl /\ n.chg = con[c].chg
  BY <1>1, <1>2, <1>4 DEF State
<1>7. InPlace(n)
  BY <1>0, <1>1, <1>5 DEF InPlace, AtHdr, AtLock, AtReset, AtWrite, AtCkpt, Checkpointing
<1>8. Locked(n)
  BY <1>0, <1>1, <1>5, <1>6 DEF Locked, AtReset, AtWrite, AtCkpt, Checkpointing, InRecovery
<1>9. Simple(n)
  BY <1>0, <1>5, <1>7, <1>8 DEF Simple
<1>10. ASSUME NEW d \in Conn \ {c} PROVE Apart(n, con[d]) /\ Apart(con[d], n)
  <2>1. ~con[d].wl
    BY DEF LockHdr, WriteFree, Others
  <2>2. Apart(con[c], con[d]) /\ Apart(con[d], con[c])
    BY ConnNow DEF PairOK
  <2> QED
    BY <1>0, <1>5, <1>6, <2>1, <2>2 DEF Apart, InRecovery
<1>11. n.at \in AtHdr
  BY <1>5 DEF AtHdr
<1> QED
  BY <1>0, <1>3, <1>4, <1>5, <1>6, <1>9, <1>10, <1>11, WaitStep

(* The WRITE lock is taken: another try, or none.                          *)
LEMMA CannotLockHdrStep ==
  ASSUME Inv, NEW c \in Conn, CannotLockHdr(c)
  PROVE  Inv'
<1>0. /\ con[c].at = "badhdr"
      /\ con[c].rl = -1 /\ con[c].ex = {} /\ con[c].tid = 0 /\ con[c].job = {} /\ con[c].log = <<>>
      /\ con[c].at \notin AtReset /\ con[c].at # "closed" /\ ~InRecovery(con[c])
  BY WaitingNow DEF CannotLockHdr
<1>1. InPlace(con[c]) /\ Locked(con[c]) /\ con[c] \in State
  BY ConnNow
<1>2. UNCHANGED <<files, shm, committed>> /\ ntxn' \in 0 .. MaxTxn
  BY ConnNow DEF CannotLockHdr, history
<1>3. PICK next : /\ con' = [con EXCEPT ![c] = next]
                  /\ \/ con[c].goal = "read" /\ next = [con[c] EXCEPT !.at = "hdr"]
                     \/ con[c].goal = "read" /\ next = [Idle(con[c]) EXCEPT !.cache = NoImage]
                     \/ next = Failed(con[c])
  BY Zenon DEF CannotLockHdr
<1>4. Quiet(c, next)
  BY <1>2, <1>3, QuietFiles, Zenon
<1>5. CASE con[c].goal = "read" /\ next = [con[c] EXCEPT !.at = "hdr"]
  <2>1. next \in State
    BY <1>1, <1>5, Names, Zenon DEF State
  <2>2. /\ next.hdr = con[c].hdr /\ next.at = "hdr" /\ next.goal = "read" /\ next.mode = con[c].mode
        /\ next.rl = con[c].rl /\ next.ex = con[c].ex /\ next.cache = con[c].cache
        /\ next.tid = con[c].tid /\ next.job = con[c].job /\ next.log = con[c].log
    BY <1>1, <1>5, <2>1 DEF State
  <2>3. next.wl = con[c].wl /\ next.cl = con[c].cl /\ next.chg = con[c].chg
    BY <1>1, <1>5, <2>1 DEF State
  <2>4. InPlace(next)
    BY <1>0, <1>1, <2>2 DEF InPlace, AtHdr, AtLock, AtReset, AtWrite, AtCkpt, Checkpointing
  <2>5. Locked(next)
    BY <1>0, <1>1, <1>5, <2>2, <2>3 DEF Locked, AtReset, AtWrite, AtCkpt, Checkpointing, InRecovery
  <2>6. Simple(next)
    BY <1>0, <2>2, <2>4, <2>5 DEF Simple
  <2>7. NoMore(next, con[c])
    BY <1>0, <2>2, <2>3 DEF NoMore, InRecovery
  <2>8. next.at \in AtHdr
    BY <2>2 DEF AtHdr
  <2> QED
    BY <1>0, <1>4, <2>1, <2>2, <2>3, <2>6, <2>7, <2>8, WaitStep
<1>6. CASE con[c].goal = "read" /\ next = [Idle(con[c]) EXCEPT !.cache = NoImage]
  <2>1. PICK k \in State : k = Idle(con[c])
    BY <1>1, IdleState
  <2>2. next = [k EXCEPT !.cache = NoImage]
    BY <1>6, <2>1
  <2>3. next \in State
    BY <2>2, Zenon DEF State
  <2>4. /\ next.hdr = k.hdr /\ next.at = k.at /\ next.goal = k.goal
        /\ next.rl = k.rl /\ next.ex = k.ex /\ next.cache = NoImage
        /\ next.tid = k.tid /\ next.job = k.job /\ next.log = k.log
    BY <2>2, <2>3 DEF State
  <2>5. next.wl = k.wl /\ next.cl = k.cl /\ next.chg = k.chg
    BY <2>2, <2>3 DEF State
  <2>6. ~Describes(next)
    BY <2>4 DEF Describes
  <2>7. /\ k.hdr = con[c].hdr /\ k.at = "idle" /\ k.goal = "none" /\ k.rl = -1 /\ k.ex = {}
        /\ k.tid = 0 /\ k.job = {} /\ k.log = <<>> /\ ~k.wl /\ ~k.cl /\ ~k.chg
    BY <1>1, <2>1, IdleState
  <2> QED
    BY <1>0, <1>4, <2>3, <2>4, <2>5, <2>6, <2>7, IdleStep
<1>7. CASE next = Failed(con[c])
  BY <1>0, <1>4, <1>7, FailedStep
<1> QED
  BY <1>3, <1>5, <1>6, <1>7

(* The header can be read after all.                                       *)
LEMMA ReadLockedStep ==
  ASSUME Inv, NEW c \in Conn, ReadLocked(c)
  PROVE  Inv'
<1>0. /\ con[c].at = "locked"
      /\ con[c].rl = -1 /\ con[c].ex = {} /\ con[c].tid = 0 /\ con[c].job = {} /\ con[c].log = <<>>
  BY WaitingNow DEF ReadLocked
<1>1. InPlace(con[c]) /\ Locked(con[c]) /\ con[c] \in State /\ shm \in ShmType
  BY ConnNow
<1>2. PICK chg \in BOOLEAN : chg = (con[c].chg \/ con[c].hdr # shm.h0)
  BY Zenon
<1>3. PICK at \in AtAny : at = IF con[c].goal = "read" THEN "choose" ELSE "ckpt"
  BY DEF AtAny, AtCkpt
<1>4. PICK h \in Hdr : h = shm.h0
  BY <1>1, ShmTypes
<1>5. PICK l : l = [con[c] EXCEPT !.hdr = h, !.chg = chg, !.at = at]
  OBVIOUS
<1>6. PICK n : n = [l EXCEPT !.wl = FALSE]
  BY Zenon
<1>7. Readable /\ con' = [con EXCEPT ![c] = n]
  BY <1>2, <1>3, <1>4, <1>5, <1>6 DEF ReadLocked, Loaded
<1>8. l \in State
  BY <1>1, <1>5, Zenon DEF State
<1>9. n \in State
  BY <1>6, <1>8, Zenon DEF State
<1>10. /\ l.hdr = h /\ l.at = at /\ l.goal = con[c].goal /\ l.mode = con[c].mode
       /\ l.rl = con[c].rl /\ l.ex = con[c].ex /\ l.cache = con[c].cache
       /\ l.tid = con[c].tid /\ l.job = con[c].job /\ l.log = con[c].log
  BY <1>1, <1>5, <1>8 DEF State
<1>11. l.cl = con[c].cl /\ l.chg = chg
  BY <1>1, <1>5, <1>8 DEF State
<1>12. /\ n.hdr = l.hdr /\ n.at = l.at /\ n.goal = l.goal /\ n.mode = l.mode
       /\ n.rl = l.rl /\ n.ex = l.ex /\ n.cache = l.cache
       /\ n.tid = l.tid /\ n.job = l.job /\ n.log = l.log
  BY <1>6, <1>8, <1>9 DEF State
<1>13. n.wl = FALSE /\ n.cl = l.cl /\ n.chg = l.chg
  BY <1>6, <1>8, <1>9 DEF State
<1>14. Quiet(c, n)
  BY <1>7, ConnNow, QuietFiles, Zenon DEF ReadLocked, history
<1>15. /\ n.goal \in {"read", "ckpt", "close"} /\ (n.cl <=> Checkpointing(n))
       /\ (Checkpointing(n) => n.mode = "passive")
  BY <1>0, <1>1, <1>10, <1>11, <1>12, <1>13 DEF InPlace, Locked, AtHdr, Checkpointing
<1>16. n.goal = "close" => con[c].goal = "close"
  BY <1>10, <1>12
<1> HIDE <1>5, <1>6
<1> QED
  BY <1>0, <1>2, <1>3, <1>4, <1>7, <1>9, <1>10, <1>11, <1>12, <1>13, <1>14, <1>15, <1>16,
     LoadedStep, Zenon DEF Checkpointing

(* Recovery cannot have its locks.                                         *)
LEMMA CannotRecoverStep ==
  ASSUME Inv, NEW c \in Conn, CannotRecover(c)
  PROVE  Inv'
<1>0. /\ con[c].at = "locked"
      /\ con[c].rl = -1 /\ con[c].ex = {} /\ con[c].tid = 0 /\ con[c].job = {} /\ con[c].log = <<>>
      /\ con[c].at \notin AtReset /\ con[c].at # "closed" /\ ~InRecovery(con[c])
  BY WaitingNow DEF CannotRecover
<1>1. InPlace(con[c]) /\ Locked(con[c]) /\ con[c] \in State
  BY ConnNow
<1>2. UNCHANGED <<files, shm, committed>> /\ ntxn' \in 0 .. MaxTxn
  BY ConnNow DEF CannotRecover, history
<1>3. CASE con[c].goal = "read"
  <2>1. PICK n : n = [con[c] EXCEPT !.at = "hdr", !.wl = FALSE, !.chg = TRUE]
    OBVIOUS
  <2>2. con' = [con EXCEPT ![c] = n]
    BY <1>3, <2>1 DEF CannotRecover
  <2>3. Quiet(c, n)
    BY <1>2, <2>2, QuietFiles, Zenon
  <2>4. n \in State
    BY <1>1, <2>1, Names, Zenon DEF State
  <2>5. /\ n.hdr = con[c].hdr /\ n.at = "hdr" /\ n.goal = "read" /\ n.mode = con[c].mode
        /\ n.rl = con[c].rl /\ n.ex = con[c].ex /\ n.cache = con[c].cache
        /\ n.tid = con[c].tid /\ n.job = con[c].job /\ n.log = con[c].log
    BY <1>1, <1>3, <2>1, <2>4 DEF State
  <2>6. n.wl = FALSE /\ n.cl = con[c].cl /\ n.chg = TRUE
    BY <1>1, <2>1, <2>4 DEF State
  <2>7. InPlace(n)
    BY <2>5 DEF InPlace, AtHdr, AtLock, AtReset, AtWrite, AtCkpt, Checkpointing
  <2>8. Locked(n)
    BY <1>0, <1>1, <1>3, <2>5, <2>6 DEF Locked, AtReset, AtWrite, AtCkpt, Checkpointing, InRecovery
  <2>9. Simple(n)
    BY <1>0, <2>5, <2>7, <2>8 DEF Simple
  <2>10. NoMore(n, con[c])
    BY <1>0, <2>5, <2>6 DEF NoMore, InRecovery
  <2>11. n.at \in AtHdr
    BY <2>5 DEF AtHdr
  <2> QED
    BY <1>0, <2>3, <2>4, <2>5, <2>6, <2>9, <2>10, <2>11, WaitStep
<1>4. CASE con[c].goal # "read"
  <2>1. PICK r : r = [con[c] EXCEPT !.chg = TRUE]
    BY Zenon
  <2>2. r \in State
    BY <1>1, <2>1, Zenon DEF State
  <2>3. r.chg = TRUE /\ r.cache = con[c].cache
    BY <1>1, <2>1, <2>2 DEF State
  <2>4. PICK n : n = Failed(r)
    OBVIOUS
  <2>5. con' = [con EXCEPT ![c] = n]
    BY <1>4, <2>1, <2>4 DEF CannotRecover
  <2>6. Quiet(c, n)
    BY <1>2, <2>5, QuietFiles, Zenon
  <2>7. CASE n = Closed
    BY <1>0, <2>6, <2>7, CloseStep
  <2>8. CASE n = Checkpointed(r)
    <3>1. /\ n \in State /\ n.at = "idle" /\ n.goal = "none" /\ n.rl = -1 /\ ~n.wl /\ ~n.cl
          /\ n.ex = {} /\ ~n.chg /\ n.cache = con[c].cache /\ n.tid = 0
          /\ n.job = {} /\ n.log = <<>> /\ n.hdr = NoHdr
      BY <2>2, <2>3, <2>8, CheckpointedState
    <3>2. ~Describes(n)
      BY <3>1, Nothing DEF Describes
    <3> QED
      BY <1>0, <2>6, <3>1, <3>2, IdleStep
  <2> QED
    BY <2>4, <2>7, <2>8 DEF Failed
<1> QED
  BY <1>3, <1>4

(* sqlite3WalEndReadTransaction.                                           *)
LEMMA EndReadStep ==
  ASSUME Inv, NEW c \in Conn, EndRead(c)
  PROVE  Inv'
<1>0. InPlace(con[c]) /\ Locked(con[c]) /\ con[c] \in State /\ con[c].at = "read"
  BY ConnNow DEF EndRead
<1>1. PICK n \in State : n = Idle(con[c])
  BY <1>0, IdleState
<1>2. Quiet(c, n)
  BY <1>1, ConnNow, QuietFiles, Zenon DEF EndRead, history
<1>3. /\ n.at = "idle" /\ n.goal = "none" /\ n.rl = -1 /\ ~n.wl /\ ~n.cl
      /\ n.ex = {} /\ ~n.chg /\ n.cache = con[c].cache /\ n.tid = 0
      /\ n.job = {} /\ n.log = <<>> /\ n.hdr = con[c].hdr
  BY <1>0, <1>1, IdleState
<1>4. ~con[c].chg /\ con[c].tid = 0 /\ con[c].at \notin AtReset
  BY <1>0 DEF InPlace, Locked, AtWrite, AtReset
<1>5. Describes(n) => Describes(con[c])
  BY <1>3, <1>4 DEF Describes
<1> QED
  BY <1>0, <1>2, <1>3, <1>4, <1>5, IdleStep

(* A snapshot begins: what is cached is the committed image.               *)
LEMMA ReadStep ==
  ASSUME Inv, NEW c \in Conn, NEW n \in State, Quiet(c, n),
         con[c].at = "choose" \/ (con[c].at = "lock" /\ con[c].goal = "read"),
         con[c].hdr = shm.h0, n.hdr = shm.h0,
         n.at = "read", n.goal = "none", ~n.chg,
         n.cache = IF con[c].chg \/ con[c].cache = NoImage THEN Seen(n, shm, wal, db)
                   ELSE con[c].cache,
         \/ n.rl = 0 /\ shm.backfill = shm.h0.mx
         \/ n.rl >= 1 /\ n.mi = shm.backfill + 1 /\ shm.mark[n.rl] <= shm.h0.mx,
         n.ex = {}, ~n.wl, ~n.cl, n.tid = 0, n.job = {}, n.log = <<>>,
         \A d \in Conn \ {c} : n.rl \notin con[d].ex
  PROVE  Inv'
<1>0. /\ con[c].rl = -1 /\ con[c].ex = {} /\ con[c].tid = 0 /\ con[c].goal # "write"
      /\ con[c].at \notin AtReset /\ con[c].at # "closed" /\ con[c] \in State
      /\ InPlace(con[c]) /\ HdrKnown(con[c], shm, committed)
      /\ shm \in ShmType /\ wal \in LogType /\ db \in Image /\ committed \in Image
  BY WaitingNow, ConnNow
<1>1. con[c].goal = "read" /\ shm.h0.init
  BY <1>0 DEF InPlace, HdrKnown, AtHdr
<1>2. Seen(n, shm, wal, db) = committed
  <2>1. shm.h0.mx \in Nat /\ shm.backfill \in Nat
    BY <1>0, ShmTypes, Bounds
  <2>2. \/ n.rl >= 1 /\ n.mi \in 1 .. shm.backfill + 1
        \/ n.rl = 0 /\ shm.backfill >= shm.h0.mx
    BY <2>1
  <2> QED
    BY <1>0, <1>1, <2>2, IndexNow, SeenAll
<1>3. n.cache = committed /\ n.cache # NoImage
  <2>1. ~con[c].chg /\ con[c].cache # NoImage => Describes(con[c])
    BY <1>0, <1>1 DEF Describes
  <2>2. committed # NoImage
    BY <1>0, MarkAssumption
  <2> QED
    BY <1>0, <1>2, <2>1, <2>2 DEF HdrKnown
<1>4. ConnOK(n, shm, wal, db, committed)
  <2>0. /\ n.at \notin AtHdr \cup AtLock \cup AtReset \cup AtWrite \cup AtCkpt \cup {"cut", "closed"}
        /\ ~InRecovery(n) /\ n.rl # -1
    BY <1>0, ShmTypes, Bounds DEF AtHdr, AtLock, AtReset, AtWrite, AtCkpt, InRecovery
  <2>1. InPlace(n) /\ Locked(n) /\ JobOK(n)
    BY <2>0 DEF InPlace, Locked, JobOK, AtHdr, AtLock, AtReset, AtWrite, AtCkpt, Checkpointing
  <2>2. RecoveryOK(n, shm, wal)
    BY <2>0 DEF RecoveryOK, InRecovery
  <2>3. HdrKnown(n, shm, committed)
    BY <1>0, <1>1, <1>3, ShmTypes, Bounds DEF HdrKnown
  <2>4. SnapshotOK(n, shm, wal, db)
    <3>1. n.rl >= 1 => n.mi \in 1 .. shm.backfill + 1 /\ shm.mark[n.rl] <= End(n, shm)
      BY <1>0, ShmTypes, Bounds DEF End
    <3>2. n.rl = 0 => shm.backfill = shm.h0.mx
      OBVIOUS
    <3> QED
      BY <1>0, <1>1, <1>2, <1>3, <3>1, <3>2, ShmTypes, Bounds DEF SnapshotOK
  <2>5. ResetOK(n, shm, committed)
    BY <2>0 DEF ResetOK, AtReset
  <2>6. WriterOK(n, shm, committed) /\ WrittenOK(n, shm, wal)
    BY <2>0 DEF WriterOK, WrittenOK, AtWrite
  <2>7. CheckpointOK(n, shm, wal, db)
    BY <2>0 DEF CheckpointOK, AtCkpt
  <2> QED
    BY <2>1, <2>2, <2>3, <2>4, <2>5, <2>6, <2>7 DEF ConnOK
<1>5. ASSUME NEW d \in Conn \ {c} PROVE PairOK(n, con[d], shm) /\ PairOK(con[d], n, shm)
  <2>1. PairOK(con[c], con[d], shm) /\ PairOK(con[d], con[c], shm)
    BY ConnNow
  <2>2. Apart(n, con[d]) /\ Apart(con[d], n)
    BY <1>0, <2>1 DEF PairOK, Apart, InRecovery
  <2>3. con[d] \in State /\ ConnOK(con[d], shm, wal, db, committed)
    BY DEF Inv, Types
  <2>4. n.at \notin AtReset /\ n.at \notin Limited /\ n.at \notin AtCkpt
    BY DEF AtReset, AtCkpt, Limited
  <2>5. End(n, shm) >= shm.h0.mx
    BY <1>0, ShmTypes, Bounds DEF End
  <2> QED
    BY <1>0, <2>1, <2>2, <2>3, <2>4, <2>5, PairKept
<1>6. n.at \notin AtReset
  BY DEF AtReset
<1> QED
  BY <1>0, <1>4, <1>5, <1>6, QuietStep

(* A reader that has locked a mark and found the header unchanged sees     *)
(* the committed image.                                                    *)
LEMMA ReadingStep ==
  ASSUME Inv, NEW c \in Conn, NEW r \in State, con' = [con EXCEPT ![c] = Reading(r)],
         UNCHANGED <<files, shm, committed>>, ntxn' = ntxn,
         con[c].at = "choose" \/ (con[c].at = "lock" /\ con[c].goal = "read"),
         con[c].hdr = shm.h0, r.hdr = con[c].hdr, r.cache = con[c].cache, r.chg = con[c].chg,
         \/ r.rl = 0 /\ shm.backfill = shm.h0.mx
         \/ r.rl >= 1 /\ r.mi = shm.backfill + 1 /\ shm.mark[r.rl] <= shm.h0.mx,
         r.ex = con[c].ex, r.wl = con[c].wl, r.cl = con[c].cl, r.tid = con[c].tid,
         r.job = con[c].job, r.log = con[c].log,
         \A d \in Conn \ {c} : r.rl \notin con[d].ex
  PROVE  Inv'
<1>0. /\ con[c].rl = -1 /\ con[c].ex = {} /\ con[c].tid = 0 /\ con[c].goal # "write"
      /\ con[c].at \notin AtReset /\ con[c].at # "closed" /\ con[c].job = {} /\ con[c].log = <<>>
      /\ InPlace(con[c]) /\ Locked(con[c]) /\ HdrKnown(con[c], shm, committed)
      /\ shm \in ShmType /\ wal \in LogType /\ db \in Image /\ committed \in Image
  BY WaitingNow, ConnNow
<1>1. con[c].goal = "read" /\ shm.h0.init /\ ~con[c].wl /\ ~con[c].cl
  BY <1>0 DEF InPlace, Locked, HdrKnown, AtHdr, Checkpointing
<1>2. Seen(r, shm, wal, db) = committed
  <2>1. shm.h0.mx \in Nat /\ shm.backfill \in Nat
    BY <1>0, ShmTypes, Bounds
  <2>2. \/ r.rl >= 1 /\ r.mi \in 1 .. shm.backfill + 1
        \/ r.rl = 0 /\ shm.backfill >= shm.h0.mx
    BY <2>1
  <2>3. IndexOK(shm, wal, db, committed) /\ shm.h0.mx = r.hdr.mx
    BY <1>0, IndexNow
  <2> QED
    BY <1>0, <1>1, <2>2, <2>3, SeenAll
<1>3. PICK cache \in Image \cup {NoImage} :
        cache = IF r.chg \/ r.cache = NoImage THEN Visible(r) ELSE r.cache
  <2>1. Visible(r) \in Image
    BY <1>0, <1>2, VisibleIs
  <2>2. r.cache \in Image \cup {NoImage}
    BY DEF State
  <2> QED
    BY <2>1, <2>2
<1>4. PICK n : n = [r EXCEPT !.at = "read", !.goal = "none", !.chg = FALSE, !.i = 0, !.y = 0,
                             !.cache = cache]
  OBVIOUS
<1>5. Reading(r) = n
  BY <1>3, <1>4 DEF Reading
<1>6. n \in State
  BY <1>4, Nothing DEF State, AtAny
<1>7. /\ n.at = "read" /\ n.goal = "none" /\ n.hdr = r.hdr /\ n.rl = r.rl /\ n.mi = r.mi
      /\ n.ex = r.ex /\ n.cache = cache /\ n.tid = r.tid /\ n.job = r.job /\ n.log = r.log
  BY <1>4, <1>6 DEF State
<1>8. n.wl = r.wl /\ n.cl = r.cl /\ n.chg = FALSE
  <2>1. n.wl = r.wl /\ n.cl = r.cl
    BY <1>4, <1>6 DEF State
  <2>2. n.chg = FALSE
    BY <1>4 DEF State
  <2> QED
    BY <2>1, <2>2
<1>9. Quiet(c, n)
  BY <1>5, ConnNow, QuietFiles, Zenon
<1>10. Seen(n, shm, wal, db) = Seen(r, shm, wal, db)
  BY <1>7 DEF Seen
<1>11. n.cache = IF con[c].chg \/ con[c].cache = NoImage THEN Seen(n, shm, wal, db)
                 ELSE con[c].cache
  BY <1>3, <1>7, <1>10, VisibleIs
<1>12. n.hdr = shm.h0 /\ n.ex = {} /\ ~n.wl /\ ~n.cl /\ ~n.chg /\ n.tid = 0 /\ n.job = {} /\ n.log = <<>>
  BY <1>0, <1>1, <1>7, <1>8
<1>13. \/ n.rl = 0 /\ shm.backfill = shm.h0.mx
       \/ n.rl >= 1 /\ n.mi = shm.backfill + 1 /\ shm.mark[n.rl] <= shm.h0.mx
  BY <1>7
<1>14. \A d \in Conn \ {c} : n.rl \notin con[d].ex
  BY <1>7
<1> QED
  BY <1>6, <1>7, <1>9, <1>11, <1>12, <1>13, <1>14, ReadStep

(* Another try for a lock, with the header read again or not.              *)
LEMMA RetryState ==
  ASSUME NEW r \in State
  PROVE  /\ Retry(r) \in State
         /\ Retry(r).at = (IF r.goal = "read" THEN "hdr" ELSE "marks")
         /\ Retry(r).rl = -1 /\ Retry(r).mi = 0 /\ Retry(r).goal = r.goal /\ Retry(r).mode = r.mode
         /\ Retry(r).ex = r.ex /\ Retry(r).hdr = r.hdr /\ Retry(r).cache = r.cache
         /\ Retry(r).tid = r.tid /\ Retry(r).job = r.job /\ Retry(r).log = r.log
         /\ Retry(r).wl = r.wl /\ Retry(r).cl = r.cl /\ Retry(r).chg = r.chg /\ Retry(r).com = r.com
<1>1. PICK at \in AtAny : at = IF r.goal = "read" THEN "hdr" ELSE "marks"
  BY Names
<1>2. PICK n : n = [r EXCEPT !.rl = -1, !.mi = 0, !.i = 0, !.y = 0, !.at = at]
  OBVIOUS
<1>3. Retry(r) = n
  BY <1>1, <1>2 DEF Retry
<1>4. -1 \in -1 .. NReader - 1
  BY Bounds
<1>5. n \in State
  BY <1>2, <1>4, Nothing, Zenon DEF State
<1>6. /\ n.at = at /\ n.rl = -1 /\ n.mi = 0 /\ n.goal = r.goal /\ n.mode = r.mode
      /\ n.ex = r.ex /\ n.hdr = r.hdr /\ n.cache = r.cache
      /\ n.tid = r.tid /\ n.job = r.job /\ n.log = r.log
  BY <1>2, <1>5 DEF State
<1>7. n.wl = r.wl /\ n.cl = r.cl /\ n.chg = r.chg /\ n.com = r.com
  BY <1>2, <1>5 DEF State
<1> QED
  BY <1>1, <1>3, <1>5, <1>6, <1>7

(* A reader that tries again.                                              *)
LEMMA ReaderRetryStep ==
  ASSUME Inv, NEW c \in Conn, con' = [con EXCEPT ![c] = Retry(con[c])],
         UNCHANGED <<files, shm, committed>>, ntxn' = ntxn,
         con[c].at \in {"choose", "marks", "lock"}, con[c].goal = "read"
  PROVE  Inv'
<1>0. /\ con[c].rl = -1 /\ con[c].ex = {} /\ con[c].tid = 0 /\ con[c].job = {} /\ con[c].log = <<>>
      /\ con[c].at \notin AtReset /\ con[c].at # "closed" /\ ~InRecovery(con[c])
  BY WaitingNow
<1>1. InPlace(con[c]) /\ Locked(con[c]) /\ con[c] \in State
  BY ConnNow
<1>2. PICK n \in State : n = Retry(con[c])
  BY <1>1, RetryState
<1>3. Quiet(c, n)
  BY <1>2, ConnNow, QuietFiles, Zenon
<1>4. /\ n.at = "hdr" /\ n.rl = -1 /\ n.goal = "read"
      /\ n.ex = con[c].ex /\ n.hdr = con[c].hdr /\ n.cache = con[c].cache
      /\ n.tid = con[c].tid /\ n.job = con[c].job /\ n.log = con[c].log
      /\ n.wl = con[c].wl /\ n.cl = con[c].cl /\ n.chg = con[c].chg
  BY <1>1, <1>2, RetryState
<1>5. ~con[c].wl /\ ~con[c].cl
  BY <1>0, <1>1 DEF Locked, Checkpointing
<1>6. InPlace(n)
  BY <1>4 DEF InPlace, AtHdr, AtLock, AtReset, AtWrite, AtCkpt, Checkpointing
<1>7. Locked(n)
  BY <1>0, <1>4, <1>5 DEF Locked, AtReset, AtWrite, AtCkpt, Checkpointing, InRecovery
<1>8. Simple(n)
  BY <1>0, <1>4, <1>6, <1>7 DEF Simple
<1>9. NoMore(n, con[c])
  BY <1>0, <1>4 DEF NoMore, InRecovery
<1>10. n.at \in AtHdr
  BY <1>4 DEF AtHdr
<1> QED
  BY <1>0, <1>3, <1>4, <1>8, <1>9, <1>10, WaitStep

(* walTryBeginRead: the database file alone, or a mark.                    *)
LEMMA ChooseStep ==
  ASSUME Inv, NEW c \in Conn, Choose(c)
  PROVE  Inv'
<1>0. /\ con[c].at = "choose"
      /\ con[c].rl = -1 /\ con[c].ex = {} /\ con[c].tid = 0 /\ con[c].job = {} /\ con[c].log = <<>>
      /\ con[c].at \notin AtReset /\ con[c].at # "closed" /\ ~InRecovery(con[c])
  BY WaitingNow DEF Choose
<1>1. /\ InPlace(con[c]) /\ Locked(con[c]) /\ con[c] \in State
      /\ HdrKnown(con[c], shm, committed)
  BY ConnNow
<1>2. con[c].goal = "read" /\ con[c].hdr.init /\ shm.h0.init
  BY <1>0, <1>1 DEF InPlace, HdrKnown, AtHdr
<1>3. UNCHANGED <<files, shm, committed>> /\ ntxn' = ntxn
  BY DEF Choose, history
<1>4. CASE shm.backfill # con[c].hdr.mx \/ ~ShareFree(c, 0)
  <2>1. PICK n : n = [con[c] EXCEPT !.at = "marks"]
    BY Zenon
  <2>2. con' = [con EXCEPT ![c] = n]
    BY <1>4, <2>1, Zenon DEF Choose
  <2>3. Quiet(c, n)
    BY <1>3, <2>2, ConnNow, QuietFiles, Zenon
  <2>4. n \in State
    BY <1>1, <2>1, Names, Zenon DEF State
  <2>5. /\ n.hdr = con[c].hdr /\ n.at = "marks" /\ n.goal = "read" /\ n.mode = con[c].mode
        /\ n.rl = con[c].rl /\ n.ex = con[c].ex /\ n.cache = con[c].cache
        /\ n.tid = con[c].tid /\ n.job = con[c].job /\ n.log = con[c].log
    BY <1>1, <1>2, <2>1, <2>4 DEF State
  <2>6. n.wl = con[c].wl /\ n.cl = con[c].cl /\ n.chg = con[c].chg
    BY <1>1, <2>1, <2>4 DEF State
  <2>7. InPlace(n)
    BY <2>5 DEF InPlace, AtHdr, AtLock, AtReset, AtWrite, AtCkpt, Checkpointing
  <2>8. Locked(n)
    BY <1>0, <1>1, <1>2, <2>5, <2>6 DEF Locked, AtReset, AtWrite, AtCkpt, Checkpointing, InRecovery
  <2>9. Simple(n)
    BY <1>0, <2>5, <2>7, <2>8 DEF Simple
  <2>10. NoMore(n, con[c])
    BY <1>0, <2>5, <2>6 DEF NoMore, InRecovery
  <2> QED
    BY <1>0, <1>2, <2>3, <2>4, <2>5, <2>6, <2>9, <2>10, WaitStep
<1>5. CASE ~(shm.backfill # con[c].hdr.mx \/ ~ShareFree(c, 0)) /\ shm.h0 = con[c].hdr
  <2>1. PICK r : r = [con[c] EXCEPT !.rl = 0]
    BY Zenon
  <2>2. con' = [con EXCEPT ![c] = Reading(r)]
    BY <1>5, <2>1 DEF Choose
  <2>3. 0 \in -1 .. NReader - 1
    BY Bounds
  <2>4. r \in State
    BY <1>1, <2>1, <2>3, Zenon DEF State
  <2>5. /\ r.hdr = con[c].hdr /\ r.rl = 0 /\ r.ex = con[c].ex /\ r.cache = con[c].cache
        /\ r.tid = con[c].tid /\ r.job = con[c].job /\ r.log = con[c].log
    BY <1>1, <2>1, <2>4 DEF State
  <2>6. r.wl = con[c].wl /\ r.cl = con[c].cl /\ r.chg = con[c].chg
    BY <1>1, <2>1, <2>4 DEF State
  <2>7. \A d \in Conn \ {c} : r.rl \notin con[d].ex
    BY <1>5, <2>5 DEF ShareFree, Others
  <2>8. shm.backfill = shm.h0.mx
    BY <1>5
  <2> QED
    BY <1>0, <1>3, <1>5, <2>2, <2>4, <2>5, <2>6, <2>7, <2>8, ReadingStep, Zenon
<1>6. CASE ~(shm.backfill # con[c].hdr.mx \/ ~ShareFree(c, 0)) /\ shm.h0 # con[c].hdr
  <2>1. con' = [con EXCEPT ![c] = Retry(con[c])]
    BY <1>6 DEF Choose
  <2> QED
    BY <1>0, <1>2, <1>3, <2>1, ReaderRetryStep, Zenon
<1> QED
  BY <1>4, <1>5, <1>6

-----------------------------------------------------------------------------
(* A writer that waits for a lock.                                         *)
LEMMA WriterWaitsOK ==
  ASSUME NEW s, NEW w, NEW b, NEW im, NEW r \in State, NEW n \in State,
         ConnOK(r, s, w, b, im), r.tid # 0, r.at \in AtLock \cup {"restart"}, n.at \in AtLock,
         n.goal = "write", n.rl = -1, n.ex = {}, n.wl, ~n.cl, ~n.chg, n.tid = r.tid,
         n.hdr = r.hdr, n.cache = r.cache, n.job = r.job, n.log = r.log,
         n.at = "lock" => n.i \in Slots /\ n.y <= n.hdr.mx,
         n.hdr.mx + Cardinality(n.job) <= MaxFrame
  PROVE  ConnOK(n, s, w, b, im)
<1>0. /\ n.at \notin AtHdr \cup AtReset \cup AtWrite \cup AtCkpt
      /\ n.at \notin {"cut", "closed", "idle", "read", "choose", "copy"} /\ ~InRecovery(n)
      /\ r.at \notin {"index", "failed", "frame"} /\ r.at # "reset2" /\ r.at \notin AtReset
      /\ r.goal = "write"
  <2>1. r.goal = "write"
    BY DEF ConnOK, Locked, InPlace, AtWrite, AtLock
  <2> QED
    BY <2>1 DEF AtHdr, AtReset, AtWrite, AtCkpt, AtLock, InRecovery
<1>1. InPlace(n)
  BY <1>0 DEF InPlace, AtLock, Checkpointing
<1>2. Locked(n)
  BY <1>0 DEF Locked, AtLock, Checkpointing, InRecovery
<1>3. JobOK(n)
  <2>1. r.job # {} /\ r.log = <<>>
    BY <1>0 DEF ConnOK, JobOK
  <2>2. Len(n.log) = 0 /\ n.hdr.mx \in Int
    BY <2>1, StateTypes, Bounds
  <2> QED
    BY <1>0, <2>1, <2>2 DEF JobOK, AtWrite
<1>4. RecoveryOK(n, s, w)
  BY <1>0 DEF RecoveryOK, InRecovery
<1>5. HdrKnown(n, s, im)
  BY DEF HdrKnown, Describes, ConnOK
<1>6. SnapshotOK(n, s, w, b)
  BY <1>0 DEF SnapshotOK
<1>7. ResetOK(n, s, im)
  BY <1>0 DEF ResetOK, AtReset
<1>8. WriterOK(n, s, im)
  <2>1. Changed(n, s) = Changed(r, s)
    BY DEF Changed
  <2> QED
    BY <1>0, <2>1 DEF WriterOK, ConnOK, AtLock
<1>9. WrittenOK(n, s, w)
  BY <1>0 DEF WrittenOK, AtWrite
<1>10. CheckpointOK(n, s, w, b)
  BY <1>0 DEF CheckpointOK, AtCkpt
<1> QED
  BY <1>1, <1>2, <1>3, <1>4, <1>5, <1>6, <1>7, <1>8, <1>9, <1>10 DEF ConnOK

(* A writer that looks for a mark changes nothing else.                    *)
LEMMA WriterWaitsStep ==
  ASSUME Inv, NEW c \in Conn, NEW n \in State, Quiet(c, n),
         con[c].tid # 0, con[c].at \in AtLock \cup {"restart"}, n.at \in AtLock,
         n.goal = "write", n.rl = -1, n.ex = {}, n.wl, ~n.cl, ~n.chg, n.tid = con[c].tid,
         n.hdr = con[c].hdr, n.cache = con[c].cache, n.job = con[c].job, n.log = con[c].log,
         n.at = "lock" => n.i \in Slots /\ n.y <= n.hdr.mx,
         n.hdr.mx + Cardinality(n.job) <= MaxFrame
  PROVE  Inv'
<1>1. con[c] \in State /\ ConnOK(con[c], shm, wal, db, committed) /\ Locked(con[c])
  BY ConnNow DEF Inv
<1>2. ConnOK(n, shm, wal, db, committed)
  BY <1>1, WriterWaitsOK
<1>3. /\ con[c].at \notin AtReset /\ n.at \notin AtReset /\ con[c].at # "closed" /\ con[c].wl
      /\ n.at \notin Limited /\ n.at \notin AtCkpt /\ ~InRecovery(n)
  BY <1>1 DEF Locked, AtLock, AtReset, AtCkpt, Limited, InRecovery
<1>4. NoMore(n, con[c]) /\ ~Describes(n) /\ n.rl = -1
  BY <1>3 DEF NoMore, Describes
<1>5. ASSUME NEW d \in Conn \ {c} PROVE PairOK(n, con[d], shm) /\ PairOK(con[d], n, shm)
  <2>1. PairOK(con[c], con[d], shm) /\ PairOK(con[d], con[c], shm) /\ shm \in ShmType
    BY ConnNow
  <2>2. con[d] \in State /\ ConnOK(con[d], shm, wal, db, committed)
    BY DEF Inv, Types
  <2>3. Apart(n, con[d]) /\ Apart(con[d], n)
    BY <1>1, <1>4, <2>1, <2>2, StaysApart DEF PairOK
  <2> QED
    BY <1>1, <1>3, <1>4, <2>1, <2>2, <2>3, PairKept
<1> QED
  BY <1>2, <1>3, <1>4, <1>5, QuietStep

(* A connection that writes.                                               *)
LEMMA WritingOK ==
  ASSUME NEW r \in State, NEW s, NEW w, NEW b, NEW im, r.at \in AtWrite,
         InPlace(r), Locked(r), JobOK(r), SnapshotOK(r, s, w, b), WriterOK(r, s, im),
         WrittenOK(r, s, w)
  PROVE  ConnOK(r, s, w, b, im) /\ r.tid # 0
<1>0. /\ r.at \notin AtHdr \cup AtReset \cup AtCkpt /\ ~InRecovery(r) /\ r.tid # 0
      /\ r.at # "cut" /\ r.goal # "read"
  BY DEF AtHdr, AtReset, AtWrite, AtCkpt, InRecovery, InPlace, Locked
<1>1. RecoveryOK(r, s, w)
  BY <1>0 DEF RecoveryOK, InRecovery
<1>2. HdrKnown(r, s, im)
  BY <1>0 DEF HdrKnown, Describes, WriterOK
<1>3. ResetOK(r, s, im)
  BY <1>0 DEF ResetOK, AtReset
<1>4. CheckpointOK(r, s, w, b)
  BY <1>0 DEF CheckpointOK, AtCkpt
<1> QED
  BY <1>0, <1>1, <1>2, <1>3, <1>4 DEF ConnOK

(* A writer that touches no file.                                          *)
LEMMA WritingStep ==
  ASSUME Inv, NEW c \in Conn, NEW n \in State, Quiet(c, n),
         con[c].at # "closed", con[c].at \notin AtReset, n.at \in AtWrite,
         ConnOK(n, shm, wal, db, committed), n.hdr = con[c].hdr,
         n.hdr.gen = shm.h0.gen \/ con[c].tid # 0,
         n.rl >= 1 => \/ n.rl = con[c].rl /\ End(n, shm) >= End(con[c], shm)
                      \/ End(n, shm) >= shm.h0.mx,
         \A d \in Conn \ {c} : Apart(n, con[d]) /\ Apart(con[d], n)
  PROVE  Inv'
<1>1. n.at \notin AtReset /\ n.at \notin Limited /\ n.at \notin AtCkpt
  BY DEF AtReset, AtWrite, AtCkpt, Limited
<1>2. ~Describes(n)
  BY DEF Describes, ConnOK, Locked
<1>3. ASSUME NEW d \in Conn \ {c} PROVE PairOK(n, con[d], shm) /\ PairOK(con[d], n, shm)
  <2>1. PairOK(con[c], con[d], shm) /\ PairOK(con[d], con[c], shm) /\ shm \in ShmType
    BY ConnNow
  <2>2. /\ con[d] \in State /\ ConnOK(con[d], shm, wal, db, committed) /\ con[c] \in State
    BY DEF Inv, Types
  <2> QED
    BY <1>1, <2>1, <2>2, PairKept
<1> QED
  BY <1>1, <1>2, <1>3, QuietStep

(* With the newest header a writer knows the log.                          *)
LEMMA NewestLog ==
  ASSUME NEW r \in State, NEW s \in ShmType, NEW w \in LogType, NEW b, NEW im,
         IndexOK(s, w, b, im), s.h0.init, r.hdr = s.h0
  PROVE  /\ Chained(r.hdr.gen, r.hdr.mx, w) /\ Indexed(r.hdr.mx, s, w)
         /\ \A i \in s.h0.mx + 1 .. r.hdr.mx : w.frame[i].tid = r.tid
         /\ r.hdr.mx > 0 => /\ w.frame[r.hdr.mx].tid = r.hdr.sum
                            /\ w.head # NoHead /\ w.head.gen = r.hdr.gen
<1>1. s.h0.mx \in Nat /\ s.h0.mx + 1 .. r.hdr.mx = {}
  BY ShmTypes, Bounds
<1> QED
  BY <1>1 DEF IndexOK, HdrOf, Chained

(* sqlite3WalBeginWriteTransaction: only on top of the newest header.      *)
LEMMA BeginWriteStep ==
  ASSUME Inv, NEW c \in Conn, BeginWrite(c)
  PROVE  Inv'
<1>0. /\ InPlace(con[c]) /\ Locked(con[c]) /\ con[c] \in State /\ con[c].at = "read"
      /\ JobOK(con[c]) /\ HdrKnown(con[c], shm, committed) /\ SnapshotOK(con[c], shm, wal, db)
      /\ shm \in ShmType /\ wal \in LogType /\ shm.h0 = con[c].hdr
  BY ConnNow DEF BeginWrite
<1>1. /\ con[c].goal = "none" /\ con[c].tid = 0 /\ ~con[c].chg /\ ~con[c].cl /\ con[c].rl >= 0
      /\ con[c].ex = {} /\ con[c].job = {} /\ con[c].log = <<>> /\ con[c].at \notin AtReset
      /\ ~InRecovery(con[c])
  <2>1. con[c].rl \in -1 .. NReader - 1 /\ con[c].rl # -1
    BY <1>0, StateTypes DEF Locked
  <2> QED
    BY <1>0, <2>1, Bounds DEF InPlace, Locked, JobOK, AtWrite, AtReset, InRecovery, Checkpointing
<1>2. PICK tid \in 0 .. MaxTxn : tid = ntxn + 1 /\ tid # 0
  BY ConnNow, Bounds DEF BeginWrite
<1>3. PICK n : n = [con[c] EXCEPT !.at = "write", !.wl = TRUE, !.tid = tid]
  OBVIOUS
<1>4. con' = [con EXCEPT ![c] = n] /\ ntxn' \in 0 .. MaxTxn
  BY <1>2, <1>3 DEF BeginWrite
<1>5. Quiet(c, n)
  BY <1>4, ConnNow, QuietFiles, Zenon DEF BeginWrite
<1>6. n \in State
  BY <1>0, <1>3 DEF State, AtAny, AtWrite
<1>7. /\ n.hdr = con[c].hdr /\ n.at = "write" /\ n.goal = con[c].goal /\ n.mode = con[c].mode
      /\ n.rl = con[c].rl /\ n.ex = con[c].ex /\ n.cache = con[c].cache /\ n.mi = con[c].mi
      /\ n.tid = tid /\ n.job = con[c].job /\ n.log = con[c].log
  BY <1>0, <1>3, <1>6 DEF State
<1>8. n.wl = TRUE /\ n.cl = con[c].cl /\ n.chg = con[c].chg
  BY <1>0, <1>3, <1>6 DEF State
<1>9. shm.h0.init /\ con[c].cache # NoImage /\ con[c].cache = committed
  <2>1. con[c].hdr.init /\ con[c].cache # NoImage
    BY <1>0 DEF SnapshotOK
  <2> QED
    BY <1>0, <1>1, <2>1 DEF HdrKnown, Describes
<1>10. ConnOK(n, shm, wal, db, committed)
  <2>1. InPlace(n)
    BY <1>1, <1>7 DEF InPlace, AtHdr, AtLock, AtReset, AtWrite, AtCkpt, Checkpointing
  <2>2. Locked(n)
    BY <1>1, <1>2, <1>7, <1>8, StateTypes, <1>6, Bounds
       DEF Locked, AtReset, AtWrite, AtCkpt, Checkpointing, InRecovery
  <2>3. JobOK(n)
    BY <1>1, <1>7 DEF JobOK
  <2>4. SnapshotOK(n, shm, wal, db)
    BY <1>0, <1>7, <1>8 DEF SnapshotOK, End, AtReset
  <2>5. WriterOK(n, shm, committed)
    <3>1. Changed(n, shm) = {}
      <4>1. shm.h0.mx \in Nat /\ n.hdr.mx = shm.h0.mx
        BY <1>0, <1>7, ShmTypes, Bounds
      <4>2. shm.h0.mx + 1 .. n.hdr.mx = {} /\ 1 .. Len(n.log) = {}
        BY <1>1, <1>7, <4>1
      <4> QED
        BY <1>1, <1>7, <4>2 DEF Changed
    <3>2. shm.h0.mx <= n.hdr.mx
      BY <1>0, <1>7, ShmTypes, Bounds
    <3> QED
      BY <1>0, <1>7, <1>9, <3>1, <3>2 DEF WriterOK, AtLock
  <2>6. WrittenOK(n, shm, wal)
    <3>1. IndexOK(shm, wal, db, committed)
      BY <1>0, IndexNow
    <3>2. /\ Chained(n.hdr.gen, n.hdr.mx, wal) /\ Indexed(n.hdr.mx, shm, wal)
          /\ \A i \in shm.h0.mx + 1 .. n.hdr.mx : wal.frame[i].tid = n.tid
          /\ n.hdr.mx > 0 => wal.frame[n.hdr.mx].tid = n.hdr.sum
      BY <1>0, <1>6, <1>7, <1>9, <3>1, NewestLog
    <3> QED
      BY <1>7, <3>2 DEF WrittenOK
  <2>7. n.at \in AtWrite
    BY <1>7 DEF AtWrite
  <2> QED
    BY <1>6, <2>1, <2>2, <2>3, <2>4, <2>5, <2>6, <2>7, WritingOK
<1>11. ASSUME NEW d \in Conn \ {c} PROVE Apart(n, con[d]) /\ Apart(con[d], n)
  <2>1. ~con[d].wl
    BY DEF BeginWrite, WriteFree, Others
  <2>2. Apart(con[c], con[d]) /\ Apart(con[d], con[c])
    BY ConnNow DEF PairOK
  <2> QED
    BY <1>0, <1>1, <1>7, <1>8, <2>1, <2>2 DEF Apart, InRecovery
<1>12. End(n, shm) >= shm.h0.mx
  BY <1>0, <1>8, ShmTypes, Bounds DEF End
<1>13. n.at \in AtWrite /\ con[c].at # "closed"
  BY <1>0, <1>7 DEF AtWrite
<1> QED
  BY <1>0, <1>1, <1>5, <1>6, <1>7, <1>10, <1>11, <1>12, <1>13, WritingStep

(* The pages of a commit or of a spill.                                    *)
LEMMA LogStep ==
  ASSUME Inv, NEW c \in Conn, NEW P \in SUBSET Page, P # {}, Cardinality(P) <= MaxFrame,
         NEW commit \in BOOLEAN, Log(c, P, commit)
  PROVE  Inv'
<1>0. /\ InPlace(con[c]) /\ Locked(con[c]) /\ con[c] \in State /\ con[c].at = "write"
      /\ JobOK(con[c]) /\ SnapshotOK(con[c], shm, wal, db)
      /\ WriterOK(con[c], shm, committed) /\ WrittenOK(con[c], shm, wal)
      /\ shm \in ShmType /\ wal \in LogType
  BY ConnNow DEF Log
<1>1. /\ con[c].goal = "none" /\ con[c].tid # 0 /\ ~con[c].chg /\ ~con[c].cl /\ con[c].rl >= 0
      /\ con[c].ex = {} /\ con[c].job = {} /\ con[c].log = <<>> /\ con[c].at \notin AtReset
      /\ ~InRecovery(con[c]) /\ con[c].wl
  <2>1. con[c].rl \in -1 .. NReader - 1 /\ con[c].rl # -1
    BY <1>0, StateTypes DEF Locked, AtWrite
  <2> QED
    BY <1>0, <2>1, Bounds DEF InPlace, Locked, JobOK, AtWrite, AtReset, InRecovery, Checkpointing
<1>2. PICK at \in AtAny : at = IF con[c].rl = 0 THEN "restart"
                               ELSE IF con[c].hdr.mx = 0 THEN "header" ELSE "frame"
  BY DEF AtAny, AtWrite
<1>3. con[c].cache \in Image /\ con[c].tid \in Pages
  BY <1>0, <1>1, StateTypes DEF WriterOK, State, Pages
<1>4. PICK cache \in Image : cache = [p \in Page |-> IF p \in P THEN con[c].tid ELSE con[c].cache[p]]
  BY <1>3, Zenon DEF Image
<1>5. <<>> \in Seq(Page)
  OBVIOUS
<1>6. PICK n : n = [con[c] EXCEPT !.at = at, !.goal = "write", !.com = commit, !.job = P,
                                  !.log = <<>>, !.cache = cache]
  OBVIOUS
<1>7. con' = [con EXCEPT ![c] = n] /\ ntxn' = ntxn
  BY <1>2, <1>4, <1>6 DEF Log, history
<1>8. Quiet(c, n)
  BY <1>7, ConnNow, QuietFiles, Zenon DEF Log, history
<1>9. n \in State
  BY <1>0, <1>5, <1>6 DEF State
<1>10. /\ n.hdr = con[c].hdr /\ n.at = at /\ n.goal = "write" /\ n.mode = con[c].mode
       /\ n.rl = con[c].rl /\ n.ex = con[c].ex /\ n.cache = cache /\ n.mi = con[c].mi
       /\ n.tid = con[c].tid /\ n.job = P /\ n.log = <<>>
  BY <1>0, <1>6, <1>9 DEF State
<1>11. n.wl = con[c].wl /\ n.cl = con[c].cl /\ n.chg = con[c].chg
  BY <1>0, <1>6, <1>9 DEF State
<1>12. at \in {"restart", "header", "frame"} /\ at \in AtWrite /\ cache # NoImage
  BY <1>2, MarkAssumption DEF AtWrite
<1>13. con[c].hdr.mx \in 0 .. MaxFrame /\ shm.h0.mx \in 0 .. MaxFrame /\ Len(<<>>) = 0
  BY <1>0, StateTypes, ShmTypes
<1>14. ConnOK(n, shm, wal, db, committed)
  <2>1. InPlace(n)
    BY <1>10, <1>12 DEF InPlace, AtHdr, AtLock, AtReset, AtWrite, AtCkpt, Checkpointing
  <2>2. Locked(n)
    BY <1>1, <1>2, <1>10, <1>11, <1>12, <1>9, StateTypes, Bounds
       DEF Locked, AtReset, AtWrite, AtCkpt, Checkpointing, InRecovery
  <2>3. JobOK(n)
    <3>1. at # "restart" => con[c].hdr.mx + Cardinality(P) <= MaxFrame
      BY <1>2 DEF Log
    <3>2. n.hdr.mx + Len(n.log) = con[c].hdr.mx
      BY <1>10, <1>13, Bounds
    <3> QED
      BY <1>10, <1>12, <3>1, <3>2 DEF JobOK, AtWrite
  <2>4. SnapshotOK(n, shm, wal, db)
    BY <1>0, <1>10, <1>11, <1>12 DEF SnapshotOK, End, AtReset
  <2>5. WriterOK(n, shm, committed)
    <3>1. /\ shm.h0.init /\ con[c].hdr.init /\ shm.h0.mx <= con[c].hdr.mx
          /\ \A p \in Page : con[c].cache[p] = IF p \in Changed(con[c], shm) THEN con[c].tid ELSE committed[p]
          /\ con[c].rl = 0 \/ con[c].hdr.mx = shm.h0.mx => con[c].hdr = shm.h0
          /\ con[c].hdr.gen # shm.h0.gen => shm.h0.mx = 0 /\ con[c].hdr.gen # 0
      BY <1>0, <1>1 DEF WriterOK
    <3>2. Changed(n, shm) = P \cup Changed(con[c], shm)
      BY <1>1, <1>10 DEF Changed
    <3>3. at \in AtLock \cup {"restart", "header"} => con[c].hdr = shm.h0
      BY <1>2, <1>12, <1>13, <3>1, Bounds DEF AtLock
    <3>4. at \in AtLock \cup {"restart"} => shm.backfill = shm.h0.mx
      BY <1>0, <1>1, <1>2, <1>12, <3>3 DEF SnapshotOK, AtLock
    <3>5. at \in {"header", "hdrsync"} => con[c].hdr.mx = 0
      BY <1>2, <1>12
    <3>6. \A p \in Page : n.cache[p] = IF p \in Changed(n, shm) THEN n.tid ELSE committed[p]
      BY <1>4, <1>10, <3>1, <3>2
    <3> QED
      BY <1>10, <1>12, <3>1, <3>3, <3>4, <3>5, <3>6 DEF WriterOK
  <2>6. WrittenOK(n, shm, wal)
    <3>1. /\ Chained(n.hdr.gen, n.hdr.mx, wal) /\ Indexed(n.hdr.mx, shm, wal)
          /\ \A i \in shm.h0.mx + 1 .. n.hdr.mx : wal.frame[i].tid = n.tid
          /\ n.hdr.mx > 0 => wal.frame[n.hdr.mx].tid = n.hdr.sum
      BY <1>0, <1>10 DEF WrittenOK
    <3>2. at = "frame" => n.hdr.mx > 0 /\ wal.head # NoHead /\ wal.head.gen = n.hdr.gen
      BY <1>2, <1>10, <1>13, <3>1, Bounds DEF Chained
    <3>3. n.hdr.mx + Len(n.log) = n.hdr.mx /\ 1 .. Len(n.log) = {} /\ n.hdr.mx \in 0 .. MaxFrame
      BY <1>10, <1>13, Bounds
    <3> QED
      BY <1>10, <1>12, <3>1, <3>2, <3>3, Bounds DEF WrittenOK
  <2> QED
    BY <1>9, <1>10, <1>12, <2>1, <2>2, <2>3, <2>4, <2>5, <2>6, WritingOK
<1>15. NoMore(n, con[c])
  BY <1>0, <1>1, <1>10, <1>11, <1>12 DEF NoMore, InRecovery
<1>16. ASSUME NEW d \in Conn \ {c} PROVE Apart(n, con[d]) /\ Apart(con[d], n)
  <2>1. PairOK(con[c], con[d], shm) /\ PairOK(con[d], con[c], shm) /\ con[d] \in State
    BY ConnNow DEF Inv, Types
  <2> QED
    BY <1>0, <1>9, <1>15, <2>1, StaysApart DEF PairOK
<1>17. End(n, shm) >= End(con[c], shm)
  BY <1>1, <1>11, <1>13, Bounds DEF End
<1>18. con[c].at # "closed" /\ n.at \in AtWrite
  BY <1>0, <1>10, <1>12
<1> QED
  BY <1>0, <1>1, <1>8, <1>9, <1>10, <1>14, <1>16, <1>17, <1>18, WritingStep

(* A single page fits into the log.                                        *)
LEMMA OnePage ==
  ASSUME NEW p \in Page
  PROVE  {p} \in SUBSET Page /\ {p} # {} /\ Cardinality({p}) <= MaxFrame
<1>1. Cardinality({p}) = 1
  BY FS_Singleton, Zenon
<1> QED
  BY <1>1, Bounds

(* A page leaves the cache in the middle of a transaction.                 *)
LEMMA SpillStep ==
  ASSUME Inv, NEW c \in Conn, Spill(c)
  PROVE  Inv'
<1>1. PICK p \in Page : Log(c, {p}, FALSE)
  BY Zenon DEF Spill
<1>2. {p} \in SUBSET Page /\ {p} # {} /\ Cardinality({p}) <= MaxFrame /\ FALSE \in BOOLEAN
  BY OnePage
<1> QED
  BY <1>1, <1>2, LogStep, Zenon

(* A commit begins to write its pages.                                     *)
LEMMA CommitStep ==
  ASSUME Inv, NEW c \in Conn, Commit(c)
  PROVE  Inv'
<1>1. PICK P \in Batches : Log(c, P, TRUE)
  BY Zenon DEF Commit
<1>2. P \in SUBSET Page /\ P # {} /\ Cardinality(P) <= MaxFrame /\ TRUE \in BOOLEAN
  BY WalAssumption DEF Page
<1> QED
  BY <1>1, <1>2, LogStep, Zenon

(* walTryBeginRead: the mark is locked, then looked at again.              *)
LEMMA LockMarkStep ==
  ASSUME Inv, NEW c \in Conn, LockMark(c)
  PROVE  Inv'
<1>0. /\ InPlace(con[c]) /\ Locked(con[c]) /\ con[c] \in State /\ con[c].at = "lock"
      /\ JobOK(con[c]) /\ SnapshotOK(con[c], shm, wal, db)
      /\ WriterOK(con[c], shm, committed) /\ shm \in ShmType /\ wal \in LogType
  BY ConnNow DEF LockMark
<1>1. /\ con[c].goal \in {"read", "write"} /\ con[c].rl = -1 /\ con[c].ex = {} /\ ~con[c].cl
      /\ con[c].i \in Slots /\ con[c].at \notin AtReset /\ con[c].at # "closed"
      /\ (con[c].goal = "read" <=> con[c].tid = 0) /\ (~con[c].chg \/ con[c].goal = "read")
      /\ ~InRecovery(con[c]) /\ con[c].log = <<>>
  BY <1>0 DEF InPlace, Locked, JobOK, AtLock, AtWrite, AtReset, InRecovery, Checkpointing
<1>2. UNCHANGED <<files, shm, committed>> /\ ntxn' = ntxn
  BY DEF LockMark, history
<1>3. PICK m : m = [con[c] EXCEPT !.rl = con[c].i, !.mi = shm.backfill + 1, !.i = 0, !.y = 0]
  OBVIOUS
<1>4. con' = [con EXCEPT ![c] =
           IF ~ShareFree(c, con[c].i) \/ shm.mark[con[c].i] # con[c].y \/ shm.h0 # con[c].hdr
           THEN Retry(con[c])
           ELSE IF con[c].goal = "read" THEN Reading(m)
           ELSE [m EXCEPT !.at = IF con[c].hdr.mx = 0 THEN "header" ELSE "frame"]]
  BY <1>3 DEF LockMark
<1>5. /\ con[c].i \in -1 .. NReader - 1 /\ con[c].i >= 1
      /\ shm.backfill + 1 \in 0 .. MaxFrame + 1 /\ con[c].hdr.mx \in 0 .. MaxFrame
      /\ shm.h0.mx \in 0 .. MaxFrame /\ shm.mark[con[c].i] \in Int
  <2>1. con[c].i \in -1 .. NReader - 1 /\ con[c].i >= 1
    BY <1>1, Bounds DEF Slots
  <2>2. shm.backfill + 1 \in 0 .. MaxFrame + 1
    BY <1>0, ShmTypes, Bounds
  <2>3. con[c].hdr.mx \in 0 .. MaxFrame /\ shm.h0.mx \in 0 .. MaxFrame
    BY <1>0, StateTypes, ShmTypes
  <2>4. shm.mark[con[c].i] \in 0 .. NotUsed /\ NotUsed \in Int
    BY <1>0, <1>1, ShmTypes, Bounds
  <2> QED
    BY <2>1, <2>2, <2>3, <2>4
<1>6. m \in State
  BY <1>0, <1>3, <1>5, Nothing, Zenon DEF State
<1>7. /\ m.hdr = con[c].hdr /\ m.at = con[c].at /\ m.goal = con[c].goal /\ m.mode = con[c].mode
      /\ m.rl = con[c].i /\ m.ex = con[c].ex /\ m.cache = con[c].cache
      /\ m.mi = shm.backfill + 1
      /\ m.tid = con[c].tid /\ m.job = con[c].job /\ m.log = con[c].log
  BY <1>0, <1>3, <1>6 DEF State
<1>8. m.wl = con[c].wl /\ m.cl = con[c].cl /\ m.chg = con[c].chg
  BY <1>0, <1>3, <1>6 DEF State
<1>9. CASE ~ShareFree(c, con[c].i) \/ shm.mark[con[c].i] # con[c].y \/ shm.h0 # con[c].hdr
  <2>1. con' = [con EXCEPT ![c] = Retry(con[c])]
    BY <1>4, <1>9, Zenon
  <2>2. CASE con[c].goal = "read"
    BY <1>0, <1>2, <2>1, <2>2, ReaderRetryStep, Zenon
  <2>3. CASE con[c].goal = "write"
    <3>1. PICK n \in State : n = Retry(con[c])
      BY <1>0, RetryState
    <3>2. Quiet(c, n)
      BY <1>2, <2>1, <3>1, ConnNow, QuietFiles, Zenon
    <3>3. /\ n.at = "marks" /\ n.rl = -1 /\ n.goal = "write"
          /\ n.ex = con[c].ex /\ n.hdr = con[c].hdr /\ n.cache = con[c].cache
          /\ n.tid = con[c].tid /\ n.job = con[c].job /\ n.log = con[c].log
          /\ n.wl = con[c].wl /\ n.cl = con[c].cl /\ n.chg = con[c].chg
      BY <1>0, <2>3, <3>1, RetryState
    <3>4. con[c].tid # 0 /\ con[c].wl /\ ~con[c].chg
      BY <1>0, <1>1, <2>3 DEF Locked
    <3>5. con[c].hdr.mx + Len(<<>>) + Cardinality(con[c].job) <= MaxFrame /\ Len(<<>>) = 0
      BY <1>0, <1>1, <2>3 DEF JobOK
    <3>6. n.hdr.mx + Cardinality(n.job) <= MaxFrame
      BY <1>5, <3>3, <3>5, Bounds
    <3>7. n.at \in AtLock /\ con[c].at \in AtLock
      BY <1>0, <3>3 DEF AtLock
    <3> QED
      BY <1>1, <3>2, <3>3, <3>4, <3>6, <3>7, WriterWaitsStep, Zenon
  <2> QED
    BY <1>1, <2>2, <2>3
<1>10. ASSUME ShareFree(c, con[c].i), shm.mark[con[c].i] = con[c].y, shm.h0 = con[c].hdr
       PROVE  Inv'
  <2>1. shm.mark[con[c].i] <= shm.h0.mx
    BY <1>0, <1>10 DEF SnapshotOK
  <2>2. \A d \in Conn \ {c} : m.rl \notin con[d].ex
    BY <1>7, <1>10 DEF ShareFree, Others
  <2>3. CASE con[c].goal = "read"
    <3>1. con' = [con EXCEPT ![c] = Reading(m)]
      BY <1>4, <1>10, <2>3
    <3>2. m.rl >= 1 /\ m.mi = shm.backfill + 1 /\ shm.mark[m.rl] <= shm.h0.mx
      BY <1>5, <1>7, <2>1
    <3> QED
      BY <1>0, <1>2, <1>6, <1>7, <1>8, <1>10, <2>2, <2>3, <3>1, <3>2, ReadingStep, Zenon
  <2>4. CASE con[c].goal = "write"
    <3>1. PICK at \in AtAny : at = IF con[c].hdr.mx = 0 THEN "header" ELSE "frame"
      BY DEF AtAny, AtWrite
    <3>2. PICK n : n = [m EXCEPT !.at = at]
      BY Zenon
    <3>3. con' = [con EXCEPT ![c] = n]
      BY <1>4, <1>10, <2>4, <3>1, <3>2
    <3>4. Quiet(c, n)
      BY <1>2, <3>3, ConnNow, QuietFiles, Zenon
    <3>5. n \in State
      BY <1>6, <3>2, Zenon DEF State
    <3>6. /\ n.hdr = m.hdr /\ n.at = at /\ n.goal = m.goal /\ n.mode = m.mode
          /\ n.rl = m.rl /\ n.ex = m.ex /\ n.cache = m.cache /\ n.mi = m.mi
          /\ n.tid = m.tid /\ n.job = m.job /\ n.log = m.log
      BY <1>6, <3>2, <3>5 DEF State
    <3>7. n.wl = m.wl /\ n.cl = m.cl /\ n.chg = m.chg
      BY <1>6, <3>2, <3>5 DEF State
    <3>8. con[c].tid # 0 /\ con[c].wl /\ ~con[c].chg
      BY <1>0, <1>1, <2>4 DEF Locked
    <3>9. at \in {"header", "frame"} /\ at \in AtWrite
      BY <3>1 DEF AtWrite
    <3>10. shm.h0.init
      BY <1>0, <3>8 DEF WriterOK
    <3>11. InPlace(n)
      BY <1>7, <2>4, <3>6, <3>9 DEF InPlace, AtHdr, AtLock, AtReset, AtWrite, AtCkpt, Checkpointing
    <3>12. Locked(n)
      BY <1>1, <1>5, <1>7, <1>8, <2>4, <3>6, <3>7, <3>8, <3>9, Bounds
         DEF Locked, AtReset, AtWrite, AtCkpt, Checkpointing, InRecovery
    <3>13. JobOK(n)
      BY <1>0, <1>1, <1>7, <2>4, <3>6, <3>9 DEF JobOK
    <3>14. SnapshotOK(n, shm, wal, db)
      BY <1>0, <1>5, <1>7, <1>8, <2>1, <3>6, <3>7, <3>8, <3>9, ShmTypes, Bounds
         DEF SnapshotOK, End
    <3>15. WriterOK(n, shm, committed)
      <4>1. Changed(n, shm) = Changed(con[c], shm)
        BY <1>7, <3>6 DEF Changed
      <4>2. n.at \in {"header", "hdrsync"} => n.hdr.mx = 0
        BY <1>7, <3>1, <3>6
      <4>3. /\ con[c].hdr.init /\ con[c].cache # NoImage /\ shm.h0.init
            /\ \A p \in Page : con[c].cache[p] = IF p \in Changed(con[c], shm) THEN con[c].tid
                                                ELSE committed[p]
        BY <1>0, <3>8 DEF WriterOK
      <4>4. n.hdr = shm.h0 /\ n.cache = con[c].cache /\ n.tid = con[c].tid /\ shm.h0.mx <= n.hdr.mx
        BY <1>5, <1>7, <1>10, <3>6, Bounds
      <4>5. n.at \notin AtLock \cup {"restart", "write", "reset2"}
        BY <3>6, <3>9 DEF AtLock
      <4> QED
        BY <4>1, <4>2, <4>3, <4>4, <4>5 DEF WriterOK
    <3>16. WrittenOK(n, shm, wal)
      <4>1. IndexOK(shm, wal, db, committed) /\ n.hdr = shm.h0
        BY <1>0, <1>1, <1>7, <1>10, <3>6, IndexNow
      <4>2. /\ Chained(n.hdr.gen, n.hdr.mx, wal) /\ Indexed(n.hdr.mx, shm, wal)
            /\ \A i \in shm.h0.mx + 1 .. n.hdr.mx : wal.frame[i].tid = n.tid
            /\ n.hdr.mx > 0 => /\ wal.frame[n.hdr.mx].tid = n.hdr.sum
                               /\ wal.head # NoHead /\ wal.head.gen = n.hdr.gen
        BY <1>0, <3>5, <3>10, <4>1, NewestLog
      <4>3. n.log = <<>> /\ Len(<<>>) = 0 /\ n.hdr.mx \in 0 .. MaxFrame
        BY <1>1, <1>5, <1>7, <3>6
      <4>4. n.hdr.mx + Len(n.log) = n.hdr.mx /\ 1 .. Len(n.log) = {}
        BY <4>3, Bounds
      <4>5. at = "frame" => n.hdr.mx > 0
        BY <1>5, <1>7, <3>1, <3>6, Bounds
      <4>6. CASE at = "header"
        BY <3>6, <4>6 DEF WrittenOK
      <4>7. CASE at = "frame"
        <5>1. n.hdr.mx # 0
          BY <4>3, <4>5, <4>7
        <5>2. n.hdr.sum = IF n.hdr.mx = 0 THEN 0 ELSE wal.frame[n.hdr.mx].tid
          BY <4>2, <4>5, <4>7, <5>1
        <5> QED
          BY <3>6, <4>2, <4>4, <4>5, <4>7, <5>2 DEF WrittenOK
      <4> QED
        BY <3>9, <4>6, <4>7
    <3>17. ConnOK(n, shm, wal, db, committed)
      BY <3>5, <3>6, <3>9, <3>11, <3>12, <3>13, <3>14, <3>15, <3>16, WritingOK
    <3>18. ASSUME NEW d \in Conn \ {c} PROVE Apart(n, con[d]) /\ Apart(con[d], n)
      <4>1. PairOK(con[c], con[d], shm) /\ PairOK(con[d], con[c], shm)
        BY ConnNow
      <4>2. ~InRecovery(n)
        BY <3>6, <3>9 DEF InRecovery
      <4>3. n.goal # "close" /\ n.at # "closed" /\ n.ex = {} /\ ~n.cl /\ n.rl \notin con[d].ex /\ n.wl
        BY <1>1, <1>7, <1>8, <2>2, <2>4, <3>6, <3>7, <3>8, <3>9
      <4> QED
        BY <1>1, <3>8, <4>1, <4>2, <4>3 DEF PairOK, Apart
    <3>19. End(n, shm) >= shm.h0.mx
      BY <1>5, <1>8, <3>7, <3>8, Bounds DEF End
    <3>20. n.at \in AtWrite /\ n.hdr = con[c].hdr
      BY <1>7, <3>6, <3>9
    <3> QED
      BY <1>1, <3>4, <3>5, <3>8, <3>17, <3>18, <3>19, <3>20, WritingStep
  <2> QED
    BY <1>1, <2>3, <2>4
<1> QED
  BY <1>9, <1>10

(* The rest of walRestartLog: another lock.                                *)
LEMMA RestartWaitsStep ==
  ASSUME Inv, NEW c \in Conn, con[c].at = "restart",
         con' = [con EXCEPT ![c] = Retry(con[c])], UNCHANGED <<files, shm, committed>>, ntxn' = ntxn,
         con[c].hdr.mx + Cardinality(con[c].job) <= MaxFrame
  PROVE  Inv'
<1>0. /\ InPlace(con[c]) /\ Locked(con[c]) /\ con[c] \in State
  BY ConnNow
<1>1. /\ con[c].tid # 0 /\ con[c].wl /\ ~con[c].chg /\ ~con[c].cl /\ con[c].ex = {}
      /\ con[c].goal = "write" /\ con[c].at \in AtLock \cup {"restart"}
  BY <1>0 DEF InPlace, Locked, AtWrite, AtReset, InRecovery, Checkpointing
<1>2. PICK n \in State : n = Retry(con[c])
  BY <1>0, RetryState
<1>3. Quiet(c, n)
  BY <1>2, ConnNow, QuietFiles, Zenon
<1>4. /\ n.at = "marks" /\ n.rl = -1 /\ n.goal = "write"
      /\ n.ex = con[c].ex /\ n.hdr = con[c].hdr /\ n.cache = con[c].cache
      /\ n.tid = con[c].tid /\ n.job = con[c].job /\ n.log = con[c].log
      /\ n.wl = con[c].wl /\ n.cl = con[c].cl /\ n.chg = con[c].chg
  BY <1>0, <1>1, <1>2, RetryState, Zenon
<1>5. n.at \in AtLock
  BY <1>4 DEF AtLock
<1> QED
  BY <1>1, <1>3, <1>4, <1>5, WriterWaitsStep, Zenon

-----------------------------------------------------------------------------
(* Opening and closing, and the death of a process.                        *)
LEMMA CrashStep ==
  ASSUME Inv, ~disturbed', NEW c \in Conn, Crash(c)
  PROVE  Inv'
<1>1. PICK n : n = Closed
  OBVIOUS
<1>2. con' = [con EXCEPT ![c] = n] /\ con[c].at # "closed" /\ con[c].at \notin AtReset
  BY <1>1 DEF Crash, AtReset
<1>3. Quiet(c, n)
  BY <1>2, ConnNow, QuietFiles, Zenon DEF Crash
<1> QED
  BY <1>1, <1>2, <1>3, CloseStep

(* A checkpoint begins, which may be that of the last connection.          *)
LEMMA CkptBegins ==
  ASSUME Inv, NEW c \in Conn, con[c].at = "idle", NEW n \in State, Quiet(c, n),
         n.at = "hdr", n.goal \in {"ckpt", "close"}, n.cl, n.wl <=> n.mode # "passive",
         n.goal = "close" => n.mode = "passive",
         n.hdr = con[c].hdr, n.rl = con[c].rl, n.ex = con[c].ex, n.cache = con[c].cache,
         n.tid = con[c].tid, n.job = con[c].job, n.log = con[c].log, n.chg = con[c].chg,
         \A d \in Conn \ {c} :
           /\ n.wl => ~con[d].wl
           /\ ~con[d].cl /\ ~InRecovery(con[d])
           /\ n.goal = "close" => con[d].at = "closed"
  PROVE  Inv'
<1>0. /\ con[c].rl = -1 /\ con[c].ex = {} /\ con[c].tid = 0 /\ con[c].job = {} /\ con[c].log = <<>>
      /\ con[c].at \notin AtReset /\ con[c].at # "closed"
      /\ InPlace(con[c]) /\ Locked(con[c]) /\ con[c] \in State
  BY WaitingNow, ConnNow
<1>5. ~con[c].chg
  BY <1>0 DEF Locked, InPlace
<1>6. InPlace(n)
  BY DEF InPlace, AtHdr, AtLock, AtReset, AtWrite, AtCkpt, Checkpointing
<1>7. Locked(n)
  BY <1>0, <1>5 DEF Locked, AtReset, AtWrite, AtCkpt, Checkpointing, InRecovery
<1>8. Simple(n)
  BY <1>0, <1>6, <1>7 DEF Simple
<1>9. ASSUME NEW d \in Conn \ {c} PROVE Apart(n, con[d]) /\ Apart(con[d], n)
  <2>1. Apart(con[c], con[d]) /\ Apart(con[d], con[c])
    BY ConnNow DEF PairOK
  <2>2. con[d].goal # "close"
    BY <1>0, <2>1 DEF Apart
  <2> QED
    BY <1>0, <2>1, <2>2 DEF Apart, InRecovery
<1>10. n.goal # "read"
  OBVIOUS
<1> QED
  BY <1>0, <1>5, <1>8, <1>9, <1>10, WaitStep

(* sqlite3WalCheckpoint takes its locks.                                   *)
LEMMA CkptStartStep ==
  ASSUME Inv, NEW c \in Conn, CkptStart(c)
  PROVE  Inv'
<1>0. con[c] \in State /\ con[c].at = "idle"
  BY ConnNow DEF CkptStart
<1>1. PICK m \in Modes : con' = [con EXCEPT ![c] = [con[c] EXCEPT
        !.at = "hdr", !.goal = "ckpt", !.cl = TRUE, !.wl = m # "passive" /\ WriteFree(c),
        !.mode = IF m # "passive" /\ WriteFree(c) THEN m ELSE "passive"]]
  BY Zenon DEF CkptStart
<1>2. PICK wl \in BOOLEAN : wl = (m # "passive" /\ WriteFree(c))
  BY Zenon
<1>3. PICK mode \in {"passive", "full", "truncate"} : mode = IF wl THEN m ELSE "passive"
  BY WalAssumption
<1>4. PICK n : n = [con[c] EXCEPT !.at = "hdr", !.goal = "ckpt", !.cl = TRUE, !.wl = wl, !.mode = mode]
  OBVIOUS
<1>5. con' = [con EXCEPT ![c] = n]
  BY <1>1, <1>2, <1>3, <1>4, Zenon
<1>6. Quiet(c, n)
  BY <1>5, ConnNow, QuietFiles, Zenon DEF CkptStart, history
<1>7. n \in State
  BY <1>0, <1>4, Names, Zenon DEF State
<1>8. /\ n.hdr = con[c].hdr /\ n.at = "hdr" /\ n.goal = "ckpt" /\ n.mode = mode
      /\ n.rl = con[c].rl /\ n.ex = con[c].ex /\ n.cache = con[c].cache
      /\ n.tid = con[c].tid /\ n.job = con[c].job /\ n.log = con[c].log
  BY <1>0, <1>4, <1>7 DEF State
<1>9. n.wl = wl /\ n.cl = TRUE /\ n.chg = con[c].chg
  BY <1>0, <1>4, <1>7 DEF State
<1>10. wl <=> mode # "passive"
  BY <1>2, <1>3, Zenon
<1>11. ASSUME NEW d \in Conn \ {c} PROVE (n.wl => ~con[d].wl) /\ ~con[d].cl /\ ~InRecovery(con[d])
  BY <1>2, <1>9, Zenon DEF CkptStart, WriteFree, CkptFree, Others, Recovering, InRecovery
<1> QED
  BY <1>0, <1>6, <1>7, <1>8, <1>9, <1>10, <1>11, CkptBegins

(* sqlite3WalClose: the last one runs a checkpoint, the others leave.      *)
LEMMA CloseActionStep ==
  ASSUME Inv, NEW c \in Conn, Close(c)
  PROVE  Inv'
<1>0. con[c] \in State /\ con[c].at = "idle" /\ con[c].at \notin AtReset
      /\ Locked(con[c]) /\ InPlace(con[c])
  BY ConnNow DEF Close, AtReset
<1>1. PICK n : con' = [con EXCEPT ![c] = n]
               /\ n = IF \A d \in Others(c) : con[d].at = "closed"
                      THEN [con[c] EXCEPT !.at = "hdr", !.goal = "close", !.mode = "passive", !.cl = TRUE]
                      ELSE Closed
  BY DEF Close
<1>2. Quiet(c, n)
  BY <1>1, ConnNow, QuietFiles, Zenon DEF Close, history
<1>3. CASE \A d \in Others(c) : con[d].at = "closed"
  <2>1. n = [con[c] EXCEPT !.at = "hdr", !.goal = "close", !.mode = "passive", !.cl = TRUE]
    BY <1>1, <1>3
  <2>2. n \in State
    BY <1>0, <2>1, Names, Zenon DEF State
  <2>3. /\ n.hdr = con[c].hdr /\ n.at = "hdr" /\ n.goal = "close" /\ n.mode = "passive"
        /\ n.rl = con[c].rl /\ n.ex = con[c].ex /\ n.cache = con[c].cache
        /\ n.tid = con[c].tid /\ n.job = con[c].job /\ n.log = con[c].log
    BY <1>0, <2>1, <2>2 DEF State
  <2>4. n.wl = con[c].wl /\ n.cl = TRUE /\ n.chg = con[c].chg
    BY <1>0, <2>1, <2>2 DEF State
  <2>5. ~con[c].wl
    BY <1>0 DEF Locked, InPlace, AtReset, AtWrite, AtCkpt
  <2>6. ASSUME NEW d \in Conn \ {c}
        PROVE  ~con[d].cl /\ ~InRecovery(con[d]) /\ con[d].at = "closed"
    <3>1. con[d].at = "closed" /\ InPlace(con[d]) /\ Locked(con[d])
      BY <1>3, ConnNow DEF Others
    <3> QED
      BY <3>1 DEF InPlace, Locked, Checkpointing, InRecovery
  <2> QED
    BY <1>0, <1>2, <2>2, <2>3, <2>4, <2>5, <2>6, CkptBegins
<1>4. CASE ~(\A d \in Others(c) : con[d].at = "closed")
  <2>1. n = Closed /\ con[c].at # "closed"
    BY <1>0, <1>1, <1>4
  <2> QED
    BY <1>0, <1>2, <2>1, CloseStep
<1> QED
  BY <1>3, <1>4

-----------------------------------------------------------------------------
(* The steps of a checkpoint up to the first page that it copies.          *)
LEMMA CkptMoves ==
  ASSUME Inv, NEW c \in Conn, NEW n \in State, con[c].at \in AtCkpt, n.at \in AtCkpt,
         n.at \in {"mark", "marklock"} => n.i \in Slots,
         n.hdr = con[c].hdr, n.goal = con[c].goal, n.mode = con[c].mode, n.rl = con[c].rl,
         n.cache = con[c].cache, n.tid = con[c].tid, n.job = con[c].job, n.log = con[c].log,
         n.wl = con[c].wl, n.cl = con[c].cl, n.chg = con[c].chg,
         n.ex = IF n.at = "copy" THEN {0} ELSE {},
         \A d \in Conn \ {c} : con[d].rl \notin n.ex /\ n.ex \cap con[d].ex = {}
  PROVE  /\ InPlace(n) /\ Locked(n) /\ n.job = {} /\ n.log = <<>>
         /\ HdrKnown(n, shm, committed) /\ (Describes(n) => Describes(con[c]))
         /\ con[c].at # "closed" /\ con[c].at \notin AtReset
         /\ \A d \in Conn \ {c} : Apart(n, con[d]) /\ Apart(con[d], n)
<1>0. /\ InPlace(con[c]) /\ Locked(con[c]) /\ JobOK(con[c]) /\ con[c] \in State
      /\ HdrKnown(con[c], shm, committed)
  BY ConnNow
<1>1. /\ con[c].goal \in {"ckpt", "close"} /\ con[c].at # "closed" /\ con[c].at \notin AtReset
      /\ con[c].at \notin AtWrite \cup {"read"} \cup AtLock \cup AtHdr
      /\ n.at \notin AtWrite \cup {"read"} \cup AtReset \cup AtLock \cup AtHdr
      /\ n.at \notin {"closed", "idle", "choose", "cut", "locked", "badhdr", "recover2", "recover3"}
      /\ con[c].at \notin {"locked", "recover2", "recover3"} /\ ~InRecovery(n) /\ ~InRecovery(con[c])
  BY <1>0 DEF InPlace, AtCkpt, AtReset, AtWrite, AtLock, AtHdr, Checkpointing, InRecovery
<1>2. con[c].rl = -1 /\ con[c].tid = 0 /\ con[c].cl
  BY <1>0, <1>1 DEF Locked, Checkpointing
<1>3. InPlace(n)
  BY <1>0, <1>1 DEF InPlace, Checkpointing, AtLock, AtReset, AtWrite
<1>4. n.wl <=> n.mode # "passive"
  <2>1. con[c].wl <=> con[c].mode # "passive"
    BY <1>0, <1>1, <1>2 DEF Locked, Checkpointing
  <2> QED
    BY <2>1
<1>5. Locked(n)
  <2>1. n.cl /\ Checkpointing(n) /\ n.rl = -1 /\ n.tid = 0 /\ n.goal # "write"
    BY <1>1, <1>2 DEF Checkpointing
  <2>2. n.at \notin {"restart", "closed", "write"} /\ n.at \notin AtReset \cup {"cut"}
    BY <1>1 DEF AtWrite
  <2> QED
    BY <1>1, <1>4, <2>1, <2>2 DEF Locked
<1>6. n.job = {} /\ n.log = <<>>
  BY <1>0, <1>1 DEF JobOK, AtWrite
<1>7. Describes(n) => Describes(con[c])
  BY DEF Describes
<1>8. HdrKnown(n, shm, committed)
  BY <1>0, <1>1, <1>7, HdrKnownKept
<1>9. ASSUME NEW d \in Conn \ {c} PROVE Apart(n, con[d]) /\ Apart(con[d], n)
  <2>1. Apart(con[c], con[d]) /\ Apart(con[d], con[c])
    BY ConnNow DEF PairOK
  <2>2. con[d].goal # "close" /\ (n.goal = "close" => con[d].at = "closed")
    BY <1>1, <2>1 DEF Apart
  <2> QED
    BY <1>1, <1>2, <2>1, <2>2 DEF Apart
<1> QED
  BY <1>1, <1>3, <1>5, <1>6, <1>7, <1>8, <1>9

(* walCheckpoint begins with the frames that are not copied yet.           *)
LEMMA CkptActionStep ==
  ASSUME Inv, NEW c \in Conn, Ckpt(c)
  PROVE  Inv'
<1>0. /\ con[c] \in State /\ con[c].at = "ckpt" /\ CheckpointOK(con[c], shm, wal, db)
      /\ shm \in ShmType /\ Locked(con[c]) /\ InPlace(con[c])
  BY ConnNow DEF Ckpt
<1>1. con[c].hdr.mx \in 0 .. MaxFrame /\ con[c].hdr.mx \in Nat
  BY <1>0, StateTypes, Bounds
<1>2. PICK it \in [Page -> 0 .. MaxFrame] :
        it = IF shm.backfill < con[c].hdr.mx
             THEN [p \in Page |-> Max({0} \cup {i \in 1 .. con[c].hdr.mx : shm.pg[i] = p})]
             ELSE con[c].it
  <2>1. ASSUME NEW p \in Page
        PROVE  Max({0} \cup {i \in 1 .. con[c].hdr.mx : shm.pg[i] = p}) \in 0 .. MaxFrame
    <3>1. {0} \cup {i \in 1 .. con[c].hdr.mx : shm.pg[i] = p} \in SUBSET (0 .. con[c].hdr.mx)
      BY <1>1
    <3>2. Max({0} \cup {i \in 1 .. con[c].hdr.mx : shm.pg[i] = p}) \in 0 .. con[c].hdr.mx
      BY <1>1, <3>1, LastOf, Zenon
    <3> QED
      BY <1>1, <3>2, Bounds
  <2>2. con[c].it \in [Page -> 0 .. MaxFrame]
    BY <1>0, Zenon DEF State
  <2> QED
    BY <2>1, <2>2, Zenon
<1>3. PICK at \in AtAny : at = IF shm.backfill < con[c].hdr.mx THEN "mark" ELSE "done"
  BY DEF AtAny, AtCkpt
<1>4. PICK n : n = [con[c] EXCEPT !.at = at, !.it = it, !.safe = con[c].hdr.mx, !.i = 1]
  OBVIOUS
<1>5. con' = [con EXCEPT ![c] = n]
  BY <1>2, <1>3, <1>4 DEF Ckpt
<1>6. Quiet(c, n)
  BY <1>5, ConnNow, QuietFiles, Zenon DEF Ckpt, history
<1>7. n \in State
  BY <1>0, <1>1, <1>4, Zenon DEF State
<1>8. /\ n.hdr = con[c].hdr /\ n.at = at /\ n.goal = con[c].goal /\ n.mode = con[c].mode
      /\ n.rl = con[c].rl /\ n.ex = con[c].ex /\ n.cache = con[c].cache
      /\ n.tid = con[c].tid /\ n.job = con[c].job /\ n.log = con[c].log
  BY <1>0, <1>4, <1>7 DEF State
<1>9. n.wl = con[c].wl /\ n.cl = con[c].cl /\ n.chg = con[c].chg
  BY <1>0, <1>4, <1>7 DEF State
<1>10. n.it = it /\ n.safe = con[c].hdr.mx /\ n.i = 1
  BY <1>0, <1>1, <1>4, <1>7 DEF State
<1>11. n.at \in {"mark", "done"} /\ n.at \in AtCkpt /\ con[c].at \in AtCkpt
  BY <1>0, <1>3, <1>8 DEF AtCkpt
<1>12. con[c].ex = {} /\ 1 \in Slots
  BY <1>0, Bounds DEF Locked, InRecovery, AtReset, Slots
<1>13. CheckpointOK(n, shm, wal, db)
  <2>1. ASSUME at = "mark", NEW p \in Page
        PROVE IF n.it[p] = 0 THEN \A i \in 1 .. n.hdr.mx : shm.pg[i] # p
              ELSE IsLast(n.it[p], n.hdr.mx, shm) /\ shm.pg[n.it[p]] = p
    <3>1. n.it[p] = Max({0} \cup {i \in 1 .. con[c].hdr.mx : shm.pg[i] = p})
      BY <1>2, <1>3, <1>10, <2>1
    <3>2. {0} \cup {i \in 1 .. con[c].hdr.mx : shm.pg[i] = p} \in SUBSET (0 .. con[c].hdr.mx)
      BY <1>1
    <3>3. /\ n.it[p] \in {0} \cup {i \in 1 .. con[c].hdr.mx : shm.pg[i] = p}
          /\ \A x \in {0} \cup {i \in 1 .. con[c].hdr.mx : shm.pg[i] = p} : x <= n.it[p]
      BY <1>1, <3>1, <3>2, LastOf, Zenon
    <3> QED
      BY <1>1, <1>8, <3>3 DEF IsLast
  <2>2. n.safe <= n.hdr.mx
    BY <1>1, <1>8, <1>10
  <2>3. at \in {"mark", "done"}
    BY <1>8, <1>11
  <2> QED
    BY <1>0, <1>8, <1>9, <1>11, <2>1, <2>2, <2>3 DEF CheckpointOK
<1>14. \A d \in Conn \ {c} : n.at \in Limited => Behind(con[d], n, shm)
  BY <1>10, <1>11 DEF Behind, Limited
<1>15. n.ex = (IF n.at = "copy" THEN {0} ELSE {}) /\ (n.at \in {"mark", "marklock"} => n.i \in Slots)
  BY <1>8, <1>10, <1>11, <1>12
<1>16. \A d \in Conn \ {c} : con[d].rl \notin n.ex /\ n.ex \cap con[d].ex = {}
  BY <1>8, <1>12
<1>17. /\ InPlace(n) /\ Locked(n) /\ n.job = {} /\ n.log = <<>>
       /\ HdrKnown(n, shm, committed) /\ (Describes(n) => Describes(con[c]))
       /\ con[c].at # "closed" /\ con[c].at \notin AtReset
       /\ \A d \in Conn \ {c} : Apart(n, con[d]) /\ Apart(con[d], n)
  BY <1>7, <1>8, <1>9, <1>11, <1>15, <1>16, CkptMoves
<1> QED
  BY <1>6, <1>7, <1>8, <1>11, <1>13, <1>14, <1>17, CkptStep

(* The next read mark.                                                     *)
LEMMA NextMarkState ==
  ASSUME NEW r \in State, r.i \in Slots
  PROVE  /\ NextMark(r) \in State
         /\ NextMark(r).at = (IF r.i = NReader - 1 THEN "backfill" ELSE "mark")
         /\ NextMark(r).i = (IF r.i = NReader - 1 THEN 0 ELSE r.i + 1)
         /\ NextMark(r).hdr = r.hdr /\ NextMark(r).goal = r.goal /\ NextMark(r).mode = r.mode
         /\ NextMark(r).rl = r.rl /\ NextMark(r).ex = r.ex /\ NextMark(r).cache = r.cache
         /\ NextMark(r).tid = r.tid /\ NextMark(r).job = r.job /\ NextMark(r).log = r.log
         /\ NextMark(r).it = r.it /\ NextMark(r).safe = r.safe
         /\ NextMark(r).wl = r.wl /\ NextMark(r).cl = r.cl /\ NextMark(r).chg = r.chg
<1>1. PICK at \in AtAny : at = IF r.i = NReader - 1 THEN "backfill" ELSE "mark"
  BY DEF AtAny, AtCkpt
<1>2. PICK i \in Nat : i = IF r.i = NReader - 1 THEN 0 ELSE r.i + 1
  BY Bounds DEF Slots
<1>3. PICK n : n = [r EXCEPT !.y = 0, !.i = i, !.at = at]
  OBVIOUS
<1>4. NextMark(r) = n
  BY <1>1, <1>2, <1>3 DEF NextMark
<1>5. n \in State
  BY <1>3, Nothing, Zenon DEF State
<1>6. /\ n.hdr = r.hdr /\ n.at = at /\ n.i = i /\ n.goal = r.goal /\ n.mode = r.mode
      /\ n.rl = r.rl /\ n.ex = r.ex /\ n.cache = r.cache
      /\ n.tid = r.tid /\ n.job = r.job /\ n.log = r.log
  BY <1>3, <1>5 DEF State
<1>7. n.it = r.it /\ n.safe = r.safe
  BY <1>3, <1>5 DEF State
<1>8. n.wl = r.wl /\ n.cl = r.cl /\ n.chg = r.chg
  BY <1>3, <1>5 DEF State
<1> QED
  BY <1>1, <1>2, <1>4, <1>5, <1>6, <1>7, <1>8

(* Its reader, if it has one, has been looked at.                          *)
LEMMA NextMarkBehind ==
  ASSUME NEW s \in ShmType, NEW q \in State, NEW r \in State, NEW n \in State, Behind(q, r, s),
         r.at \in {"mark", "marklock"}, r.i \in Slots, n.safe <= r.safe,
         q.rl = r.i => n.safe <= End(q, s),
         n.at = IF r.i = NReader - 1 THEN "backfill" ELSE "mark",
         n.i = IF r.i = NReader - 1 THEN 0 ELSE r.i + 1
  PROVE  Behind(q, n, s)
<1>1. /\ r.safe \in Int /\ n.safe \in Int /\ End(q, s) \in Int /\ r.i \in Int
      /\ q.rl \in -1 .. NReader - 1 /\ NReader \in Int
  BY StateTypes, ShmTypes, Bounds DEF End
<1>2. CASE ~(q.rl >= 1)
  BY <1>2 DEF Behind
<1>3. CASE q.rl >= 1 /\ r.safe <= End(q, s)
  <2>1. n.safe <= End(q, s)
    BY <1>1, <1>3
  <2> QED
    BY <2>1 DEF Behind
<1>4. CASE q.rl >= 1 /\ q.rl = r.i
  BY <1>4 DEF Behind
<1>5. CASE q.rl >= 1 /\ q.rl > r.i
  <2>1. r.i # NReader - 1 /\ q.rl >= r.i + 1
    BY <1>1, <1>5
  <2> QED
    BY <2>1 DEF Behind
<1>6. q.rl >= 1 => r.safe <= End(q, s) \/ q.rl = r.i \/ q.rl > r.i
  BY <1>1 DEF Behind
<1> QED
  BY <1>2, <1>3, <1>4, <1>5, <1>6

(* walCheckpoint looks at a mark: nobody behind it is overtaken.           *)
LEMMA ReadMarkStep ==
  ASSUME Inv, NEW c \in Conn, ReadMark(c)
  PROVE  Inv'
<1>0. /\ con[c] \in State /\ con[c].at = "mark" /\ CheckpointOK(con[c], shm, wal, db)
      /\ shm \in ShmType /\ Locked(con[c]) /\ InPlace(con[c]) /\ con[c].at \in AtCkpt
  BY ConnNow DEF ReadMark, AtCkpt
<1>1. con[c].i \in Slots /\ con[c].ex = {}
  BY <1>0 DEF InPlace, Locked, InRecovery, AtReset
<1>2. PICK y \in 0 .. NotUsed : y = shm.mark[con[c].i]
  BY <1>0, <1>1, ShmTypes
<1>3. UNCHANGED <<files, shm, committed>> /\ ntxn' = ntxn
  BY DEF ReadMark, history
<1>4. ASSUME NEW d \in Conn \ {c}, con[d].rl = con[c].i
      PROVE  y <= End(con[d], shm)
  BY <1>1, <1>2, <1>4, ConnNow, Bounds DEF SnapshotOK, Slots
<1>5. CASE con[c].safe > y
  <2>1. PICK n : n = [con[c] EXCEPT !.at = "marklock", !.y = y]
    OBVIOUS
  <2>2. con' = [con EXCEPT ![c] = n]
    BY <1>2, <1>5, <2>1 DEF ReadMark
  <2>3. Quiet(c, n)
    BY <1>3, <2>2, ConnNow, QuietFiles, Zenon
  <2>4. n \in State
    BY <1>0, <2>1, Names, Zenon DEF State, AtCkpt
  <2>5. /\ n.hdr = con[c].hdr /\ n.at = "marklock" /\ n.goal = con[c].goal /\ n.mode = con[c].mode
        /\ n.rl = con[c].rl /\ n.ex = con[c].ex /\ n.cache = con[c].cache
        /\ n.tid = con[c].tid /\ n.job = con[c].job /\ n.log = con[c].log
    BY <1>0, <2>1, <2>4 DEF State
  <2>6. n.wl = con[c].wl /\ n.cl = con[c].cl /\ n.chg = con[c].chg
    BY <1>0, <2>1, <2>4 DEF State
  <2>7. n.it = con[c].it /\ n.safe = con[c].safe /\ n.i = con[c].i /\ n.y = y
    BY <1>0, <2>1, <2>4 DEF State
  <2>8. n.at \in AtCkpt
    BY <2>5 DEF AtCkpt
  <2>9. CheckpointOK(n, shm, wal, db)
    <3>1. n.y < n.safe
      BY <1>0, <1>5, <2>7, StateTypes, Bounds
    <3> QED
      BY <1>0, <2>5, <2>6, <2>7, <2>8, <3>1 DEF CheckpointOK
  <2>10. ASSUME NEW d \in Conn \ {c} PROVE Behind(con[d], n, shm)
    <3>1. Behind(con[d], con[c], shm) /\ con[d] \in State
      BY ConnNow DEF PairOK, Inv, Types
    <3>2. con[d].rl \in Int /\ con[c].i \in Int
      BY <1>0, <3>1, StateTypes, Bounds
    <3>3. con[d].rl >= 1 => \/ con[c].safe <= End(con[d], shm)
                            \/ con[d].rl > con[c].i
                            \/ con[d].rl = con[c].i /\ y <= End(con[d], shm)
      BY <1>0, <1>4, <3>1, <3>2 DEF Behind
    <3> QED
      BY <2>5, <2>7, <3>3 DEF Behind
  <2>11. n.ex = (IF n.at = "copy" THEN {0} ELSE {}) /\ n.i \in Slots
    BY <1>1, <2>5, <2>7
  <2>12. \A d \in Conn \ {c} : con[d].rl \notin n.ex /\ n.ex \cap con[d].ex = {}
    BY <2>5, <2>11
  <2>13. /\ InPlace(n) /\ Locked(n) /\ n.job = {} /\ n.log = <<>>
         /\ HdrKnown(n, shm, committed) /\ (Describes(n) => Describes(con[c]))
         /\ con[c].at # "closed" /\ con[c].at \notin AtReset
         /\ \A d \in Conn \ {c} : Apart(n, con[d]) /\ Apart(con[d], n)
    BY <1>0, <2>4, <2>5, <2>6, <2>8, <2>11, <2>12, CkptMoves, Zenon
  <2> QED
    BY <1>0, <2>3, <2>4, <2>5, <2>8, <2>9, <2>10, <2>13, CkptStep
<1>6. CASE ~(con[c].safe > y)
  <2>1. PICK n \in State : n = NextMark(con[c])
    BY <1>0, <1>1, NextMarkState
  <2>2. con' = [con EXCEPT ![c] = n]
    BY <1>2, <1>6, <2>1 DEF ReadMark
  <2>3. Quiet(c, n)
    BY <1>3, <2>2, ConnNow, QuietFiles, Zenon
  <2>4. /\ n.at = (IF con[c].i = NReader - 1 THEN "backfill" ELSE "mark")
        /\ n.i = (IF con[c].i = NReader - 1 THEN 0 ELSE con[c].i + 1)
    BY <1>0, <1>1, <2>1, NextMarkState
  <2>5. /\ n.hdr = con[c].hdr /\ n.goal = con[c].goal /\ n.mode = con[c].mode
        /\ n.rl = con[c].rl /\ n.ex = con[c].ex /\ n.cache = con[c].cache
        /\ n.tid = con[c].tid /\ n.job = con[c].job /\ n.log = con[c].log
        /\ n.wl = con[c].wl /\ n.cl = con[c].cl /\ n.chg = con[c].chg
        /\ n.it = con[c].it /\ n.safe = con[c].safe
    BY <1>0, <1>1, <2>1, NextMarkState
  <2>6. n.at \in {"mark", "backfill"} /\ n.at \in AtCkpt
    BY <2>4 DEF AtCkpt
  <2>7. (n.at \in {"mark", "marklock"} => n.i \in Slots) /\ (n.at = "backfill" => n.i = 0)
    BY <1>1, <2>4, Bounds DEF Slots
  <2>8. CheckpointOK(n, shm, wal, db)
    BY <1>0, <2>5, <2>6, <2>7 DEF CheckpointOK
  <2>9. ASSUME NEW d \in Conn \ {c} PROVE Behind(con[d], n, shm)
    <3>1. Behind(con[d], con[c], shm) /\ con[d] \in State
      BY ConnNow DEF PairOK, Inv, Types
    <3>2. n.safe <= con[c].safe
      BY <1>0, <2>5, StateTypes, Bounds
    <3>3. con[d].rl = con[c].i => n.safe <= End(con[d], shm)
      <4>1. End(con[d], shm) \in Int
        BY <1>0, <3>1, StateTypes, ShmTypes, Bounds DEF End
      <4>2. con[c].safe \in Int /\ y \in Int
        BY <1>0, StateTypes, Bounds
      <4> QED
        BY <1>4, <1>6, <2>5, <4>1, <4>2
    <3> QED
      BY <1>0, <1>1, <2>4, <3>1, <3>2, <3>3, NextMarkBehind
  <2>10. n.ex = (IF n.at = "copy" THEN {0} ELSE {})
    BY <1>1, <2>5, <2>6
  <2>11. \A d \in Conn \ {c} : con[d].rl \notin n.ex /\ n.ex \cap con[d].ex = {}
    BY <1>1, <2>5
  <2>12. /\ InPlace(n) /\ Locked(n) /\ n.job = {} /\ n.log = <<>>
         /\ HdrKnown(n, shm, committed) /\ (Describes(n) => Describes(con[c]))
         /\ con[c].at # "closed" /\ con[c].at \notin AtReset
         /\ \A d \in Conn \ {c} : Apart(n, con[d]) /\ Apart(con[d], n)
    BY <1>0, <2>5, <2>6, <2>7, <2>10, <2>11, CkptMoves
  <2> QED
    BY <1>0, <2>3, <2>5, <2>6, <2>8, <2>9, <2>12, CkptStep
<1> QED
  BY <1>5, <1>6

(* The log that is synced has no older contents.                           *)
LEMMA Synced ==
  ASSUME Inv, SyncWal, UNCHANGED <<db, dbOld, wal>>
  PROVE  FileTypes'
<1>1. FileTypes /\ NoWal \in LogType
  BY Nothing DEF Inv, Types
<1>2. walOld' \in [Index -> SUBSET (Frame \cup {NoFrame})]
  BY DEF SyncWal
<1> QED
  BY <1>1, <1>2 DEF FileTypes, SyncWal

(* walCheckpoint takes READ0 and syncs the log.                            *)
LEMMA BackfillStep ==
  ASSUME Inv, NEW c \in Conn, Backfill(c)
  PROVE  Inv'
<1>0. /\ con[c] \in State /\ con[c].at = "backfill" /\ CheckpointOK(con[c], shm, wal, db)
      /\ shm \in ShmType /\ Locked(con[c]) /\ InPlace(con[c]) /\ con[c].at \in AtCkpt
  BY ConnNow DEF Backfill, AtCkpt
<1>1. con[c].ex = {} /\ con[c].i = 0
  BY <1>0 DEF Locked, CheckpointOK, InRecovery, AtReset
<1>2. shm' = shm /\ wal' = wal /\ db' = db /\ committed' = committed /\ ntxn' = ntxn /\ dbOld' = dbOld
  BY DEF Backfill
<1>3. FileTypes'
  BY <1>2, Synced DEF Backfill, Inv, Types, FileTypes
<1>4. CASE shm.backfill < con[c].safe /\ LockFree(c, 0)
  <2>0. shm.backfill \in 0 .. MaxFrame /\ {0} \in SUBSET (0 .. NReader - 1)
    BY <1>0, ShmTypes, Bounds
  <2>1. PICK n : n = [con[c] EXCEPT !.at = "copy", !.ex = {0}, !.bf = shm.backfill]
    OBVIOUS
  <2>2. con' = [con EXCEPT ![c] = n]
    BY <1>4, <2>1 DEF Backfill
  <2>3. Quiet(c, n)
    BY <1>2, <1>3, <2>2, ConnNow DEF Quiet
  <2>4. n \in State
    BY <1>0, <2>0, <2>1, Names, Zenon DEF State, AtCkpt
  <2>5. /\ n.hdr = con[c].hdr /\ n.at = "copy" /\ n.goal = con[c].goal /\ n.mode = con[c].mode
        /\ n.rl = con[c].rl /\ n.ex = {0} /\ n.cache = con[c].cache
        /\ n.tid = con[c].tid /\ n.job = con[c].job /\ n.log = con[c].log
    BY <1>0, <2>0, <2>1, <2>4 DEF State
  <2>6. n.wl = con[c].wl /\ n.cl = con[c].cl /\ n.chg = con[c].chg
    BY <1>0, <2>1, <2>4 DEF State
  <2>7. n.it = con[c].it /\ n.safe = con[c].safe /\ n.i = con[c].i /\ n.bf = shm.backfill
    BY <1>0, <2>0, <2>1, <2>4 DEF State
  <2>8. n.at \in AtCkpt
    BY <2>5 DEF AtCkpt
  <2>9. CheckpointOK(n, shm, wal, db)
    <3>1. \A p \in Page : ~(p <= n.i)
      BY <1>1, <2>7, Bounds DEF Page
    <3> QED
      BY <1>0, <1>4, <2>5, <2>6, <2>7, <2>8, <3>1 DEF CheckpointOK
  <2>10. ASSUME NEW d \in Conn \ {c} PROVE Behind(con[d], n, shm)
    <3>1. Behind(con[d], con[c], shm)
      BY ConnNow DEF PairOK
    <3> QED
      BY <1>0, <2>5, <2>7, <3>1 DEF Behind
  <2>12. \A d \in Conn \ {c} : con[d].rl \notin n.ex /\ n.ex \cap con[d].ex = {}
    BY <1>4, <2>5 DEF LockFree, ShareFree, Others
  <2>13. /\ InPlace(n) /\ Locked(n) /\ n.job = {} /\ n.log = <<>>
         /\ HdrKnown(n, shm, committed) /\ (Describes(n) => Describes(con[c]))
         /\ con[c].at # "closed" /\ con[c].at \notin AtReset
         /\ \A d \in Conn \ {c} : Apart(n, con[d]) /\ Apart(con[d], n)
    BY <1>0, <2>4, <2>5, <2>6, <2>8, <2>12, CkptMoves, Zenon
  <2> QED
    BY <1>0, <2>3, <2>4, <2>5, <2>8, <2>9, <2>10, <2>13, CkptStep
<1>5. CASE ~(shm.backfill < con[c].safe /\ LockFree(c, 0))
  <2>1. PICK n : n = [con[c] EXCEPT !.at = "done"]
    BY Zenon
  <2>2. con' = [con EXCEPT ![c] = n]
    BY <1>5, <2>1 DEF Backfill
  <2>3. Quiet(c, n)
    BY <1>2, <1>3, <2>2, ConnNow DEF Quiet
  <2>4. n \in State
    BY <1>0, <2>1, Names, Zenon DEF State, AtCkpt
  <2>5. /\ n.hdr = con[c].hdr /\ n.at = "done" /\ n.goal = con[c].goal /\ n.mode = con[c].mode
        /\ n.rl = con[c].rl /\ n.ex = con[c].ex /\ n.cache = con[c].cache
        /\ n.tid = con[c].tid /\ n.job = con[c].job /\ n.log = con[c].log
    BY <1>0, <2>1, <2>4 DEF State
  <2>6. n.wl = con[c].wl /\ n.cl = con[c].cl /\ n.chg = con[c].chg
    BY <1>0, <2>1, <2>4 DEF State
  <2>7. n.at \in AtCkpt /\ n.at \notin Limited
    BY <2>5 DEF AtCkpt, Limited
  <2>8. CheckpointOK(n, shm, wal, db)
    BY <1>0, <2>5, <2>6 DEF CheckpointOK
  <2>9. \A d \in Conn \ {c} : con[d].rl \notin n.ex /\ n.ex \cap con[d].ex = {}
    BY <1>1, <2>5
  <2>10. /\ InPlace(n) /\ Locked(n) /\ n.job = {} /\ n.log = <<>>
         /\ HdrKnown(n, shm, committed) /\ (Describes(n) => Describes(con[c]))
         /\ con[c].at # "closed" /\ con[c].at \notin AtReset
         /\ \A d \in Conn \ {c} : Apart(n, con[d]) /\ Apart(con[d], n)
    BY <1>0, <1>1, <2>4, <2>5, <2>6, <2>7, <2>9, CkptMoves, Zenon
  <2> QED
    BY <1>0, <2>3, <2>4, <2>5, <2>7, <2>8, <2>10, CkptStep
<1> QED
  BY <1>4, <1>5

-----------------------------------------------------------------------------
(* The header of the log is on the disk.                                   *)
LEMMA HeaderSyncStep ==
  ASSUME Inv, NEW c \in Conn, HeaderSync(c)
  PROVE  Inv'
<1>0. /\ InPlace(con[c]) /\ Locked(con[c]) /\ con[c] \in State /\ con[c].at = "hdrsync"
      /\ JobOK(con[c]) /\ SnapshotOK(con[c], shm, wal, db)
      /\ WriterOK(con[c], shm, committed) /\ WrittenOK(con[c], shm, wal)
      /\ shm \in ShmType /\ wal \in LogType
  BY ConnNow DEF HeaderSync
<1>1. /\ con[c].goal = "write" /\ con[c].tid # 0 /\ con[c].wl /\ ~con[c].chg /\ ~con[c].cl
      /\ con[c].ex = {} /\ con[c].at \in AtWrite /\ con[c].at \notin AtReset /\ con[c].log = <<>>
  BY <1>0 DEF InPlace, Locked, JobOK, AtWrite, AtReset, InRecovery, Checkpointing
<1>2. PICK n : n = [con[c] EXCEPT !.at = "frame"]
  BY Zenon
<1>3. con' = [con EXCEPT ![c] = n]
  BY <1>2 DEF HeaderSync
<1>4. FileTypes'
  BY Synced DEF HeaderSync
<1>5. Quiet(c, n)
  BY <1>3, <1>4, ConnNow, Zenon DEF Quiet, HeaderSync
<1>6. n \in State
  BY <1>0, <1>2, Names, Zenon DEF State, AtWrite
<1>7. /\ n.hdr = con[c].hdr /\ n.at = "frame" /\ n.goal = con[c].goal /\ n.mode = con[c].mode
      /\ n.rl = con[c].rl /\ n.ex = con[c].ex /\ n.cache = con[c].cache /\ n.mi = con[c].mi
      /\ n.tid = con[c].tid /\ n.job = con[c].job /\ n.log = con[c].log
  BY <1>0, <1>2, <1>6 DEF State
<1>8. n.wl = con[c].wl /\ n.cl = con[c].cl /\ n.chg = con[c].chg
  BY <1>0, <1>2, <1>6 DEF State
<1>9. n.at \in AtWrite /\ con[c].at # "closed"
  BY <1>0, <1>7 DEF AtWrite
<1>10. con[c].hdr.mx = 0 /\ shm.h0.mx = 0
  BY <1>0, <1>1, ShmTypes, Bounds DEF WriterOK, AtReset
<1>11. ConnOK(n, shm, wal, db, committed)
  <2>1. InPlace(n)
    BY <1>1, <1>7 DEF InPlace, AtHdr, AtLock, AtReset, AtWrite, AtCkpt, Checkpointing
  <2>2. Locked(n)
    BY <1>0, <1>1, <1>7, <1>8 DEF Locked, AtReset, AtWrite, AtCkpt, Checkpointing, InRecovery
  <2>3. JobOK(n)
    BY <1>0, <1>1, <1>7 DEF JobOK
  <2>4. SnapshotOK(n, shm, wal, db)
    BY <1>0, <1>7, <1>8 DEF SnapshotOK, End, AtReset
  <2>5. WriterOK(n, shm, committed)
    <3>1. Changed(n, shm) = Changed(con[c], shm)
      BY <1>7 DEF Changed
    <3>2. n.at \notin AtLock \cup {"restart", "header", "hdrsync", "write", "reset2"} \cup AtReset
      BY <1>7 DEF AtLock, AtReset
    <3>3. con[c].at # "reset2"
      BY <1>0
    <3> QED
      BY <1>0, <1>1, <1>7, <3>1, <3>2, <3>3 DEF WriterOK
  <2>6. WrittenOK(n, shm, wal)
    <3>1. 1 .. 0 = {} /\ Len(<<>>) = 0 /\ 0 + 0 = 0 /\ 0 + 1 .. 0 = {}
      OBVIOUS
    <3>2. wal.head # NoHead /\ wal.head.gen = n.hdr.gen /\ n.hdr.sum = 0
      BY <1>0, <1>7 DEF WrittenOK
    <3>3. Chained(n.hdr.gen, 0, wal) /\ Indexed(0, shm, wal)
      BY <3>1 DEF Chained, Indexed
    <3>4. n.hdr.mx = 0 /\ n.hdr.mx + Len(n.log) = 0 /\ n.log = <<>>
      BY <1>1, <1>7, <1>10, <3>1
    <3> QED
      BY <1>7, <1>10, <3>1, <3>2, <3>3, <3>4 DEF WrittenOK
  <2> QED
    BY <1>6, <1>9, <2>1, <2>2, <2>3, <2>4, <2>5, <2>6, WritingOK
<1>12. NoMore(n, con[c])
  BY <1>0, <1>7, <1>8 DEF NoMore, InRecovery
<1>13. ASSUME NEW d \in Conn \ {c} PROVE Apart(n, con[d]) /\ Apart(con[d], n)
  BY <1>0, <1>6, <1>12, ConnNow, StaysApart DEF PairOK, Inv, Types
<1>14. End(n, shm) >= End(con[c], shm)
  BY <1>0, <1>7, <1>8, StateTypes, ShmTypes, Bounds DEF End
<1> QED
  BY <1>1, <1>5, <1>6, <1>7, <1>9, <1>11, <1>13, <1>14, WritingStep

(* The end of a checkpoint that is not that of the last connection.        *)
LEMMA CkptEndsStep ==
  ASSUME Inv, NEW c \in Conn, CkptEnd(c), con[c].goal # "close"
  PROVE  Inv'
<1>0. con[c].at = "done" /\ InPlace(con[c]) /\ Locked(con[c])
  BY ConnNow DEF CkptEnd
<1>1. con[c].at \notin AtReset /\ con[c].at # "closed" /\ con[c].tid = 0
  BY <1>0 DEF InPlace, Locked, AtReset, AtWrite, AtCkpt, Checkpointing
<1>2. PICK n : n = Checkpointed(con[c])
  OBVIOUS
<1>3. con' = [con EXCEPT ![c] = n]
  BY <1>2 DEF CkptEnd
<1>4. Quiet(c, n)
  BY <1>3, ConnNow, QuietFiles, Zenon DEF CkptEnd, files, history
<1> QED
  BY <1>1, <1>2, <1>4, CheckpointedStep

-----------------------------------------------------------------------------
(* A call of the VFS fails: what a connection does about it.               *)
LEMMA IoFailedStep ==
  ASSUME Inv, NEW c \in Conn, IoError(c), con[c].at # "frame", ~(con[c].at = "copy" /\ ToCopy(con[c]) # {})
  PROVE  Inv'
<1>0. /\ InPlace(con[c]) /\ Locked(con[c]) /\ con[c] \in State
      /\ JobOK(con[c]) /\ SnapshotOK(con[c], shm, wal, db)
      /\ WriterOK(con[c], shm, committed) /\ WrittenOK(con[c], shm, wal)
      /\ shm \in ShmType /\ wal \in LogType
  BY ConnNow
<1>1. con[c].at \in {"header", "hdrsync", "copy", "cut", "index"}
  BY DEF IoError
<1>2. con[c].at # "closed" /\ con[c].at \notin AtReset /\ (con[c].at = "index" => con[c].com)
  BY <1>1 DEF AtReset, IoError
<1>3. UNCHANGED <<files, shm, committed>> /\ ntxn' = ntxn
  BY DEF IoError, files
<1>4. PICK n : /\ con' = [con EXCEPT ![c] = n]
               /\ n = IF con[c].goal \in {"ckpt", "close"} THEN Failed(con[c])
                      ELSE IF con[c].com THEN [con[c] EXCEPT !.at = "failed"]
                      ELSE [Idle(con[c]) EXCEPT !.cache = NoImage]
  BY Zenon DEF IoError
<1>5. Quiet(c, n)
  BY <1>3, <1>4, ConnNow, QuietFiles, Zenon
<1>6. CASE con[c].goal \in {"ckpt", "close"}
  <2>1. con[c].at \in {"copy", "cut"}
    BY <1>0, <1>1, <1>6 DEF InPlace, AtWrite
  <2>2. con[c].tid = 0
    BY <1>0, <1>6, <2>1 DEF Locked, AtWrite
  <2> QED
    BY <1>2, <1>4, <1>5, <1>6, <2>2, FailedStep
<1>7. CASE con[c].goal \notin {"ckpt", "close"} /\ con[c].com
  <2>1. /\ con[c].at \in {"header", "hdrsync", "index"} /\ con[c].goal = "write" /\ con[c].tid # 0
        /\ con[c].wl /\ ~con[c].chg /\ ~con[c].cl /\ con[c].ex = {}
    BY <1>0, <1>1, <1>7 DEF InPlace, Locked, AtWrite, AtReset, AtCkpt, Checkpointing, InRecovery
  <2>2. n = [con[c] EXCEPT !.at = "failed"]
    BY <1>4, <1>7
  <2>3. n \in State
    BY <1>0, <2>2, Names, Zenon DEF State, AtWrite
  <2>4. /\ n.hdr = con[c].hdr /\ n.at = "failed" /\ n.goal = con[c].goal /\ n.mode = con[c].mode
        /\ n.rl = con[c].rl /\ n.ex = con[c].ex /\ n.cache = con[c].cache /\ n.mi = con[c].mi
        /\ n.tid = con[c].tid /\ n.job = con[c].job /\ n.log = con[c].log
    BY <1>0, <2>2, <2>3 DEF State
  <2>5. n.wl = con[c].wl /\ n.cl = con[c].cl /\ n.chg = con[c].chg
    BY <1>0, <2>2, <2>3 DEF State
  <2>6. n.at \in AtWrite /\ con[c].at \in AtWrite
    BY <2>1, <2>4 DEF AtWrite
  <2>7. ConnOK(n, shm, wal, db, committed)
    <3>1. InPlace(n)
      BY <2>1, <2>4 DEF InPlace, AtHdr, AtLock, AtReset, AtWrite, AtCkpt, Checkpointing
    <3>2. Locked(n)
      BY <1>0, <2>1, <2>4, <2>5 DEF Locked, AtReset, AtWrite, AtCkpt, Checkpointing, InRecovery
    <3>3. JobOK(n)
      BY <1>0, <2>1, <2>4 DEF JobOK
    <3>4. SnapshotOK(n, shm, wal, db)
      BY <1>0, <2>1, <2>4, <2>5 DEF SnapshotOK, End, AtReset
    <3>5. WriterOK(n, shm, committed)
      <4>1. Changed(n, shm) = Changed(con[c], shm)
        BY <2>4 DEF Changed
      <4>2. n.at \notin AtLock \cup {"restart", "header", "hdrsync", "write", "reset2"} \cup AtReset
        BY <2>4 DEF AtLock, AtReset
      <4>3. con[c].at # "reset2" /\ con[c].at \notin AtReset
        BY <2>1 DEF AtReset
      <4> QED
        BY <1>0, <2>1, <2>4, <4>1, <4>2, <4>3 DEF WriterOK
    <3>6. WrittenOK(n, shm, wal)
      <4>1. /\ Chained(n.hdr.gen, n.hdr.mx, wal) /\ Indexed(n.hdr.mx, shm, wal)
            /\ \A i \in shm.h0.mx + 1 .. n.hdr.mx : wal.frame[i].tid = n.tid
        <5>1. CASE con[c].at = "index"
          BY <1>0, <2>4, <5>1 DEF WrittenOK
        <5>2. CASE con[c].at # "index"
          <6>1. con[c].hdr.mx = 0 /\ shm.h0.mx = 0
            BY <1>0, <2>1, <5>2, ShmTypes, Bounds DEF WriterOK
          <6>2. 1 .. 0 = {} /\ 0 + 1 .. 0 = {}
            OBVIOUS
          <6> QED
            BY <2>4, <6>1, <6>2 DEF Chained, Indexed
        <5> QED
          BY <5>1, <5>2
      <4> QED
        BY <2>4, <4>1 DEF WrittenOK
    <3> QED
      BY <2>3, <2>6, <3>1, <3>2, <3>3, <3>4, <3>5, <3>6, WritingOK
  <2>8. NoMore(n, con[c])
    BY <1>2, <2>4, <2>5 DEF NoMore, InRecovery
  <2>9. ASSUME NEW d \in Conn \ {c} PROVE Apart(n, con[d]) /\ Apart(con[d], n)
    BY <1>0, <2>3, <2>8, ConnNow, StaysApart DEF PairOK, Inv, Types
  <2>10. End(n, shm) >= End(con[c], shm)
    BY <1>0, <2>4, <2>5, StateTypes, ShmTypes, Bounds DEF End
  <2> QED
    BY <1>2, <1>5, <2>1, <2>3, <2>4, <2>6, <2>7, <2>9, <2>10, WritingStep
<1>8. CASE con[c].goal \notin {"ckpt", "close"} /\ ~con[c].com
  <2>1. PICK k \in State : k = Idle(con[c])
    BY <1>0, IdleState
  <2>2. n = [k EXCEPT !.cache = NoImage]
    BY <1>4, <1>8, <2>1
  <2>3. n \in State
    BY <2>1, <2>2, Zenon DEF State
  <2>4. /\ n.at = k.at /\ n.goal = k.goal /\ n.rl = k.rl /\ n.ex = k.ex /\ n.cache = NoImage
        /\ n.tid = k.tid /\ n.job = k.job /\ n.log = k.log /\ n.hdr = k.hdr
    BY <2>1, <2>2, <2>3 DEF State
  <2>5. n.wl = k.wl /\ n.cl = k.cl /\ n.chg = k.chg
    BY <2>1, <2>2, <2>3 DEF State
  <2>6. ~Describes(n)
    BY <2>4 DEF Describes
  <2>7. /\ k.at = "idle" /\ k.goal = "none" /\ k.rl = -1 /\ ~k.wl /\ ~k.cl /\ k.ex = {} /\ ~k.chg
        /\ k.tid = 0 /\ k.job = {} /\ k.log = <<>> /\ k.hdr = con[c].hdr
    BY <1>0, <2>1, IdleState
  <2> QED
    BY <1>2, <1>5, <2>3, <2>4, <2>5, <2>6, <2>7, IdleStep
<1> QED
  BY <1>6, <1>7, <1>8

-----------------------------------------------------------------------------
(* A step that changes the wal-index or a file.                            *)
LEMMA LoudStep ==
  ASSUME Inv, NEW c \in Conn, NEW n \in State, con' = [con EXCEPT ![c] = n],
         FileTypes', shm' \in ShmType, committed' \in Image, ntxn' \in 0 .. MaxTxn, ShmOK',
         ConnOK(n, shm', wal', db', committed'),
         \A d \in Conn \ {c} :
           /\ ConnOK(con[d], shm', wal', db', committed')
           /\ PairOK(n, con[d], shm') /\ PairOK(con[d], n, shm'),
         \A d, e \in Conn \ {c} : d # e => PairOK(con[d], con[e], shm')
  PROVE  Inv'
<1>1. con'[c] = n /\ \A d \in Conn \ {c} : con'[d] = con[d]
  BY ConnTypes DEF Inv
<1>2. Types'
  BY ConnTypes DEF Inv, Types
<1>3. \A d \in Conn : ConnOK(con'[d], shm', wal', db', committed')
  BY <1>1
<1>4. \A d, e \in Conn : d # e => PairOK(con'[d], con'[e], shm')
  BY <1>1
<1> QED
  BY <1>2, <1>3, <1>4 DEF Inv

(* Of two connections only the end of the log matters.                     *)
LEMMA PairSame ==
  ASSUME NEW r, NEW q, NEW s, NEW t, PairOK(r, q, s), t.h0 = s.h0
  PROVE  PairOK(r, q, t)
  BY DEF PairOK, Behind, Fresh, End

(* The other connections after a step of one of them.                      *)
LEMMA OthersNow ==
  ASSUME Inv, NEW c \in Conn, NEW n, con' = [con EXCEPT ![c] = n]
  PROVE  /\ con'[c] = n
         /\ \A d \in Conn \ {c} : con'[d] = con[d]
         /\ \A d \in Conn \ {c} : con[d] \in State /\ ConnOK(con[d], shm, wal, db, committed)
         /\ \A d, e \in Conn \ {c} : d # e => PairOK(con[d], con[e], shm)
  BY ConnTypes DEF Inv, Types

(* Read marks matter to those who hold them only.                          *)
LEMMA MarkKept ==
  ASSUME NEW r, NEW s, NEW t, NEW w, NEW b, NEW im, ConnOK(r, s, w, b, im),
         t.h0 = s.h0, t.h1 = s.h1, t.backfill = s.backfill, t.pg = s.pg,
         r.rl >= 1 => t.mark[r.rl] <= End(r, s)
  PROVE  ConnOK(r, t, w, b, im)
<1>1. InPlace(r) /\ Locked(r) /\ JobOK(r)
  BY DEF ConnOK
<1>2. RecoveryOK(r, t, w)
  BY DEF ConnOK, RecoveryOK, Indexed
<1>3. HdrKnown(r, t, im)
  BY DEF ConnOK, HdrKnown
<1>4. SnapshotOK(r, t, w, b)
  <2>1. Seen(r, t, w, b) = Seen(r, s, w, b) /\ End(r, t) = End(r, s)
    BY DEF Seen, End
  <2> QED
    BY <2>1 DEF ConnOK, SnapshotOK
<1>5. ResetOK(r, t, im)
  BY DEF ConnOK, ResetOK
<1>6. WriterOK(r, t, im)
  <2>1. Changed(r, t) = Changed(r, s)
    BY DEF Changed
  <2> QED
    BY <2>1 DEF ConnOK, WriterOK
<1>7. WrittenOK(r, t, w)
  BY DEF ConnOK, WrittenOK, Indexed
<1>8. CheckpointOK(r, t, w, b)
  BY DEF ConnOK, CheckpointOK, IsLast
<1> QED
  BY <1>1, <1>2, <1>3, <1>4, <1>5, <1>6, <1>7, <1>8 DEF ConnOK

(* Marks say nothing of the log.                                           *)
LEMMA IndexSame ==
  ASSUME NEW s, NEW t, NEW w, NEW b, NEW im, IndexOK(s, w, b, im),
         t.h0 = s.h0, t.backfill = s.backfill, t.pg = s.pg
  PROVE  IndexOK(t, w, b, im)
<1>1. Overlay(s.h0.mx, t, w, b) = Overlay(s.h0.mx, s, w, b)
  BY DEF Overlay
<1> QED
  BY <1>1 DEF IndexOK, HdrOf, Indexed, IsLast

(* The wal-index with another read mark.                                   *)
Marked(s, k, y) == [s EXCEPT !.mark[k] = y]

(* A mark that is set changes nothing else.                                *)
LEMMA MarkedShm ==
  ASSUME NEW s \in ShmType, NEW k \in Slots, NEW y \in 0 .. NotUsed
  PROVE  /\ Marked(s, k, y) \in ShmType
         /\ Marked(s, k, y).h0 = s.h0 /\ Marked(s, k, y).h1 = s.h1
         /\ Marked(s, k, y).backfill = s.backfill /\ Marked(s, k, y).pg = s.pg
         /\ Marked(s, k, y).mark[k] = y
         /\ \A j \in Slots \ {k} : Marked(s, k, y).mark[j] = s.mark[j]
<1>1. PICK m \in [Slots -> 0 .. NotUsed] : m = [s.mark EXCEPT ![k] = y]
  BY ShmTypes, Zenon
<1>2. PICK t : t = [s EXCEPT !.mark = m]
  BY Zenon
<1>3. t \in ShmType
  BY <1>2 DEF ShmType
<1>4. t.h0 = s.h0 /\ t.h1 = s.h1 /\ t.backfill = s.backfill /\ t.pg = s.pg /\ t.mark = m
  BY <1>2, <1>3 DEF ShmType
<1>5. s.mark \in [Slots -> 0 .. NotUsed] /\ Marked(s, k, y) = t
  BY <1>1, <1>2, ShmTypes DEF Marked, ShmType
<1> QED
  BY <1>1, <1>3, <1>4, <1>5

(* A read mark that nobody holds is changed.                               *)
LEMMA MarkStep ==
  ASSUME Inv, NEW c \in Conn, NEW n \in State, con' = [con EXCEPT ![c] = n],
         UNCHANGED <<files, committed>>, ntxn' = ntxn,
         NEW k \in Slots, NEW y \in 0 .. NotUsed, shm' = Marked(shm, k, y),
         \A d \in Conn \ {c} : con[d].rl # k,
         con[c].at # "closed", con[c].at \notin AtReset, n.at \notin AtReset,
         ConnOK(n, shm', wal, db, committed),
         Describes(n) => Describes(con[c]) /\ n.hdr.gen = con[c].hdr.gen,
         \A d \in Conn \ {c} : PairOK(n, con[d], shm) /\ PairOK(con[d], n, shm)
  PROVE  Inv'
<1>1. shm \in ShmType
  BY ConnNow
<1>2. /\ shm' \in ShmType /\ shm'.h0 = shm.h0 /\ shm'.h1 = shm.h1
      /\ shm'.backfill = shm.backfill /\ shm'.pg = shm.pg
      /\ \A j \in Slots \ {k} : shm'.mark[j] = shm.mark[j]
  BY <1>1, MarkedShm
<1>3. wal' = wal /\ db' = db /\ committed' = committed /\ FileTypes' /\ committed \in Image
      /\ ntxn' \in 0 .. MaxTxn
  BY ConnNow DEF files, FileTypes
<1>4. /\ con'[c] = n /\ \A d \in Conn \ {c} : con'[d] = con[d]
      /\ \A d \in Conn \ {c} : con[d] \in State /\ ConnOK(con[d], shm, wal, db, committed)
      /\ \A d, e \in Conn \ {c} : d # e => PairOK(con[d], con[e], shm)
  BY OthersNow, Zenon
<1>5. ASSUME NEW d \in Conn \ {c} PROVE ConnOK(con[d], shm', wal', db', committed')
  <2>1. con[d].rl >= 1 => con[d].rl \in Slots \ {k}
    BY <1>4, StateTypes, Bounds DEF Slots
  <2>2. con[d].rl >= 1 => shm'.mark[con[d].rl] <= End(con[d], shm)
    BY <1>2, <1>4, <2>1 DEF ConnOK, SnapshotOK
  <2>3. ConnOK(con[d], shm, wal, db, committed)
    BY <1>4
  <2>4. ConnOK(con[d], shm', wal, db, committed)
    BY <1>2, <2>2, <2>3, MarkKept
  <2> QED
    BY <1>3, <2>4
<1>6. ASSUME NEW d \in Conn \ {c} PROVE PairOK(n, con[d], shm') /\ PairOK(con[d], n, shm')
  BY <1>2, PairSame
<1>7. \A d, e \in Conn \ {c} : d # e => PairOK(con[d], con[e], shm')
  BY <1>2, <1>4, PairSame
<1>8. ShmOK'
  <2>1. IndexOK(shm', wal', db', committed')
    BY <1>2, <1>3, IndexNow, IndexSame
  <2>2. (\A d \in Conn : con'[d].at # "reset3") => shm'.backfill <= shm'.h0.mx
    BY <1>2, <1>4 DEF Inv, ShmOK, AtReset
  <2>3. (\A d \in Conn : con'[d].at # "reset2") => \A d \in Conn : Half(con'[d], shm', wal')
    <3>1. ASSUME \A d \in Conn : con'[d].at # "reset2"
          PROVE  \A d \in Conn : Half(con[d], shm, wal)
      BY <1>4, <3>1 DEF Inv, ShmOK, AtReset
    <3>2. Half(con[c], shm, wal) => Half(n, shm, wal)
      BY DEF Half
    <3>3. \A r : Half(r, shm, wal) => Half(r, shm', wal')
      BY <1>2, <1>3 DEF Half
    <3> QED
      BY <1>4, <3>1, <3>2, <3>3
  <2> QED
    BY <2>1, <2>2, <2>3 DEF ShmOK
<1>9. ConnOK(n, shm', wal', db', committed')
  BY <1>3
<1> QED
  BY <1>2, <1>3, <1>5, <1>6, <1>7, <1>8, <1>9, LoudStep

-----------------------------------------------------------------------------
(* A writer looks for another read mark.                                   *)
LEMMA WriterRetryStep ==
  ASSUME Inv, NEW c \in Conn, con' = [con EXCEPT ![c] = Retry(con[c])],
         UNCHANGED <<files, shm, committed>>, ntxn' = ntxn,
         con[c].at \in AtLock, con[c].goal = "write"
  PROVE  Inv'
<1>0. InPlace(con[c]) /\ Locked(con[c]) /\ con[c] \in State /\ JobOK(con[c])
  BY ConnNow
<1>1. con[c].tid # 0 /\ con[c].wl /\ ~con[c].chg /\ ~con[c].cl /\ con[c].ex = {}
      /\ con[c].at \notin {"restart", "failed", "frame", "index"}
  BY <1>0 DEF Locked, AtWrite, AtLock, AtReset, InRecovery, Checkpointing
<1>2. con[c].hdr.mx + Cardinality(con[c].job) <= MaxFrame
  <2>1. con[c].log = <<>> /\ con[c].hdr.mx + Len(con[c].log) + Cardinality(con[c].job) <= MaxFrame
    BY <1>0, <1>1 DEF JobOK
  <2>2. con[c].hdr.mx + Len(<<>>) = con[c].hdr.mx
    BY <1>0, StateTypes, Bounds
  <2> QED
    BY <2>1, <2>2
<1>3. PICK n \in State : n = Retry(con[c])
  BY <1>0, RetryState
<1>4. Quiet(c, n)
  BY <1>3, ConnNow, QuietFiles, Zenon
<1>5. /\ n.at = "marks" /\ n.rl = -1 /\ n.goal = "write"
      /\ n.ex = con[c].ex /\ n.hdr = con[c].hdr /\ n.cache = con[c].cache
      /\ n.tid = con[c].tid /\ n.job = con[c].job /\ n.log = con[c].log
      /\ n.wl = con[c].wl /\ n.cl = con[c].cl /\ n.chg = con[c].chg
  BY <1>0, <1>3, RetryState
<1>6. n.at \in AtLock
  BY <1>5 DEF AtLock
<1> QED
  BY <1>1, <1>2, <1>4, <1>5, <1>6, WriterWaitsStep, Zenon

(* A connection with a read mark that it has yet to lock.                  *)
WithMark(r, k, y) == [r EXCEPT !.at = "lock", !.i = k, !.y = y]

(* From the choice of a mark to its lock.                                  *)
LEMMA ToLock ==
  ASSUME NEW r \in State, r.at = "marks", InPlace(r), Locked(r), JobOK(r), WriterOK(r, shm, committed),
         NEW k \in Slots, NEW y \in 0 .. NotUsed, y <= r.hdr.mx,
         NEW n, n = WithMark(r, k, y)
  PROVE  /\ n \in State /\ n.at = "lock" /\ n.i = k /\ n.y = y
         /\ n.hdr = r.hdr /\ n.goal = r.goal /\ n.rl = -1 /\ n.ex = {} /\ n.cache = r.cache
         /\ n.tid = r.tid /\ n.job = r.job /\ n.log = r.log /\ n.wl = r.wl /\ ~n.cl /\ n.chg = r.chg
         /\ NoMore(n, r)
         /\ r.goal \in {"read", "write"}
         /\ r.goal = "read" => Simple(n) /\ r.tid = 0
         /\ r.goal = "write" => r.tid # 0 /\ r.wl /\ ~r.chg /\ n.hdr.mx + Cardinality(n.job) <= MaxFrame
<1>1. /\ r.goal \in {"read", "write"} /\ r.rl = -1 /\ r.ex = {} /\ ~r.cl
      /\ (r.goal = "write" <=> r.tid # 0) /\ (r.wl <=> r.tid # 0) /\ (r.chg => r.goal = "read")
  BY DEF InPlace, Locked, AtLock, AtWrite, AtReset, AtHdr, AtCkpt, InRecovery, Checkpointing
<1>2. k \in Nat
  BY Bounds DEF Slots
<1>3. n \in State
  BY <1>2, Names, Zenon DEF State, WithMark
<1>4. /\ n.hdr = r.hdr /\ n.at = "lock" /\ n.goal = r.goal /\ n.mode = r.mode
      /\ n.rl = r.rl /\ n.ex = r.ex /\ n.cache = r.cache /\ n.i = k /\ n.y = y
      /\ n.tid = r.tid /\ n.job = r.job /\ n.log = r.log
  BY <1>2, <1>3 DEF State, WithMark
<1>5. n.wl = r.wl /\ n.cl = r.cl /\ n.chg = r.chg
  BY <1>3 DEF State, WithMark
<1>6. r.goal = "write" => n.hdr.mx + Cardinality(n.job) <= MaxFrame
  <2>1. r.goal = "write" => r.log = <<>> /\ r.hdr.mx + Len(r.log) + Cardinality(r.job) <= MaxFrame
    BY DEF JobOK
  <2>2. r.hdr.mx + Len(<<>>) = r.hdr.mx
    BY StateTypes, Bounds
  <2> QED
    BY <1>4, <2>1, <2>2
<1>7. NoMore(n, r)
  BY <1>4, <1>5 DEF NoMore, InRecovery
<1>8. ASSUME r.goal = "read" PROVE Simple(n)
  <2>1. InPlace(n)
    BY <1>4, <1>8 DEF InPlace, AtHdr, AtLock, AtReset, AtWrite, AtCkpt, Checkpointing
  <2>2. Locked(n)
    BY <1>1, <1>4, <1>5, <1>8 DEF Locked, AtReset, AtWrite, AtCkpt, Checkpointing, InRecovery
  <2>3. r.job = {} /\ r.log = <<>>
    BY <1>8 DEF JobOK
  <2> QED
    BY <1>1, <1>4, <1>8, <2>1, <2>2, <2>3 DEF Simple
<1> QED
  BY <1>1, <1>3, <1>4, <1>5, <1>6, <1>7, <1>8

(* walTryBeginRead chooses a mark, or sets one that nobody uses.           *)
LEMMA MarksStep ==
  ASSUME Inv, NEW c \in Conn, Marks(c)
  PROVE  Inv'
<1>0. /\ InPlace(con[c]) /\ Locked(con[c]) /\ con[c] \in State /\ con[c].at = "marks"
      /\ JobOK(con[c]) /\ WriterOK(con[c], shm, committed) /\ shm \in ShmType
      /\ HdrKnown(con[c], shm, committed) /\ con[c].at \in AtLock /\ con[c].at # "closed"
      /\ con[c].at \notin AtReset
  BY ConnNow DEF Marks, AtLock, AtReset
<1> DEFINE ok == {i \in Slots : shm.mark[i] <= con[c].hdr.mx}
           best == Max({0} \cup {i \in ok : \A j \in ok : shm.mark[j] <= shm.mark[i]})
           free == {i \in Slots : LockFree(c, i)}
           raise == (best = 0 \/ shm.mark[best] < con[c].hdr.mx) /\ free # {}
           slot == IF raise THEN Min(free) ELSE best
<1>1. /\ shm' = IF raise THEN [shm EXCEPT !.mark[slot] = con[c].hdr.mx] ELSE shm
      /\ con' = [con EXCEPT ![c] =
           IF slot = 0 THEN Retry(con[c])
           ELSE [con[c] EXCEPT !.at = "lock", !.i = slot, !.y = shm'.mark[slot]]]
  BY DEF Marks
<1>2. UNCHANGED <<files, committed>> /\ ntxn' = ntxn
  BY Zenon DEF Marks, history
<1>3. free # {} => Min(free) \in free
  <2>1. NReader - 1 \in Nat /\ free \in SUBSET (0 .. NReader - 1)
    BY Bounds DEF Slots
  <2> QED
    BY <2>1, FirstOf, Zenon
<1>4. best \in {0} \cup ok
  <2>1. NReader - 1 \in Nat
        /\ {0} \cup {i \in ok : \A j \in ok : shm.mark[j] <= shm.mark[i]} \in SUBSET (0 .. NReader - 1)
    BY Bounds DEF Slots
  <2>2. best \in {0} \cup {i \in ok : \A j \in ok : shm.mark[j] <= shm.mark[i]}
    BY <2>1, LastOf, Zenon
  <2> QED
    BY <2>2
<1>5. con[c].goal \in {"read", "write"}
  BY <1>0 DEF InPlace, AtLock
<1>6. CASE raise
  <2>1. PICK k \in Slots : k = slot /\ LockFree(c, k)
    BY <1>3, <1>6, Zenon
  <2>2. k # 0
    BY Bounds DEF Slots
  <2>3. PICK y \in 0 .. NotUsed : y = con[c].hdr.mx /\ y <= con[c].hdr.mx
    BY <1>0, StateTypes, Bounds
  <2>4. shm' = Marked(shm, k, y)
    BY <1>1, <1>6, <2>1, <2>3 DEF Marked
  <2>7. con' = [con EXCEPT ![c] = [con[c] EXCEPT !.at = "lock", !.i = k, !.y = shm'.mark[k]]]
    BY <1>1, <2>1, <2>2, Zenon
  <2> HIDE DEF ok, best, free, raise, slot
  <2>a. k \in Slots /\ y \in 0 .. NotUsed /\ y <= con[c].hdr.mx /\ LockFree(c, k)
    BY <2>1, <2>3
  <2>5. /\ shm' \in ShmType /\ shm'.h0 = shm.h0 /\ shm'.h1 = shm.h1
        /\ shm'.backfill = shm.backfill /\ shm'.pg = shm.pg /\ shm'.mark[k] = y
    BY <1>0, <2>a, <2>4, MarkedShm
  <2>6. PICK n : n = WithMark(con[c], k, y)
    OBVIOUS
  <2>b. con' = [con EXCEPT ![c] = n]
    BY <2>5, <2>6, <2>7 DEF WithMark
  <2>8. /\ n \in State /\ n.at = "lock" /\ n.i = k /\ n.y = y
        /\ n.hdr = con[c].hdr /\ n.goal = con[c].goal /\ n.rl = -1 /\ n.ex = {}
        /\ n.cache = con[c].cache /\ n.tid = con[c].tid /\ n.job = con[c].job
        /\ n.log = con[c].log /\ n.wl = con[c].wl /\ ~n.cl /\ n.chg = con[c].chg
        /\ NoMore(n, con[c])
        /\ (con[c].goal = "read" => Simple(n) /\ con[c].tid = 0)
        /\ (con[c].goal = "write" => /\ con[c].tid # 0 /\ con[c].wl /\ ~con[c].chg
                                    /\ n.hdr.mx + Cardinality(n.job) <= MaxFrame)
    BY <1>0, <2>a, <2>6, ToLock
  <2>9. \A d \in Conn \ {c} : con[d].rl # k
    BY <2>a DEF LockFree, Others
  <2>10. Describes(n) => Describes(con[c]) /\ n.hdr.gen = con[c].hdr.gen
    BY <2>8 DEF Describes
  <2>11. ConnOK(con[c], shm', wal, db, committed)
    <3>1. con[c].rl = -1 /\ ConnOK(con[c], shm, wal, db, committed)
      BY <1>0, <1>5 DEF Inv, Locked, AtWrite, AtReset
    <3> QED
      BY <2>5, <3>1, MarkKept
  <2>12. n.at \in AtLock /\ n.at \notin AtReset
    BY <2>8 DEF AtLock, AtReset
  <2>13. ConnOK(n, shm', wal, db, committed)
    <3>1. CASE con[c].goal = "read"
      <4>1. HdrKnown(con[c], shm', committed)
        BY <2>11 DEF ConnOK
      <4>2. n.goal = "read" /\ n.at \notin AtHdr => n.hdr.init /\ shm'.h0.init
        BY <1>0, <3>1, <2>8, <4>1 DEF HdrKnown, AtHdr
      <4>3. HdrKnown(n, shm', committed)
        BY <2>8, <2>10, <4>1, <4>2, HdrKnownKept
      <4> QED
        BY <2>8, <3>1, <4>3, SimpleOK
    <3>2. CASE con[c].goal = "write"
      BY <1>0, <2>a, <2>8, <2>11, <2>12, <3>2, WriterWaitsOK
    <3> QED
      BY <1>5, <3>1, <3>2
  <2>14. ASSUME NEW d \in Conn \ {c} PROVE PairOK(n, con[d], shm) /\ PairOK(con[d], n, shm)
    <3>1. PairOK(con[c], con[d], shm) /\ PairOK(con[d], con[c], shm)
      BY ConnNow
    <3>2. con[d] \in State /\ ConnOK(con[d], shm, wal, db, committed)
      BY DEF Inv, Types
    <3>4. Apart(n, con[d]) /\ Apart(con[d], n)
      BY <1>0, <2>8, <3>1, <3>2, StaysApart DEF PairOK
    <3>5. n.at \notin Limited /\ n.at \notin AtCkpt
      BY <2>8 DEF Limited, AtCkpt
    <3> QED
      BY <1>0, <2>8, <2>12, <3>1, <3>2, <3>4, <3>5, PairKept
  <2> QED
    BY <1>0, <1>2, <2>a, <2>b, <2>4, <2>8, <2>9, <2>10, <2>12, <2>13, <2>14, MarkStep, Zenon
<1>7. CASE ~raise /\ best = 0
  <2>1. con' = [con EXCEPT ![c] = Retry(con[c])] /\ shm' = shm
    BY <1>1, <1>7, Zenon
  <2> QED
    BY <1>0, <1>2, <1>5, <2>1, ReaderRetryStep, WriterRetryStep, Zenon
<1>8. CASE ~raise /\ best # 0
  <2>1. PICK k \in Slots : k = best /\ shm.mark[k] <= con[c].hdr.mx
    BY <1>4, <1>8, Zenon
  <2>2. PICK y \in 0 .. NotUsed : y = shm.mark[k] /\ y <= con[c].hdr.mx
    BY <1>0, <2>1, ShmTypes, Zenon
  <2>3. PICK n : n = WithMark(con[c], k, y)
    OBVIOUS
  <2>4. con' = [con EXCEPT ![c] = n] /\ shm' = shm
    BY <1>1, <1>8, <2>1, <2>2, <2>3, Zenon DEF WithMark
  <2> HIDE DEF ok, best, free, raise, slot
  <2>a. k \in Slots /\ y \in 0 .. NotUsed /\ y <= con[c].hdr.mx
    BY <2>1, <2>2
  <2>5. /\ n \in State /\ n.at = "lock" /\ n.i = k /\ n.y = y
        /\ n.hdr = con[c].hdr /\ n.goal = con[c].goal /\ n.rl = -1 /\ n.ex = {}
        /\ n.cache = con[c].cache /\ n.tid = con[c].tid /\ n.job = con[c].job
        /\ n.log = con[c].log /\ n.wl = con[c].wl /\ ~n.cl /\ n.chg = con[c].chg
        /\ NoMore(n, con[c])
        /\ (con[c].goal = "read" => Simple(n) /\ con[c].tid = 0)
        /\ (con[c].goal = "write" => /\ con[c].tid # 0 /\ con[c].wl /\ ~con[c].chg
                                    /\ n.hdr.mx + Cardinality(n.job) <= MaxFrame)
    BY <1>0, <2>a, <2>3, ToLock
  <2>6. Quiet(c, n)
    BY <1>2, <2>4, ConnNow, QuietFiles, Zenon
  <2>7. n.at \in AtLock /\ n.at \notin AtHdr
    BY <2>5 DEF AtLock, AtHdr
  <2>8. CASE con[c].goal = "read"
    <3>1. n.hdr.init /\ shm.h0.init
      BY <1>0, <2>5, <2>8 DEF HdrKnown, AtHdr
    <3>2. con[c].chg => n.chg
      BY <2>5
    <3> QED
      BY <1>0, <2>5, <2>6, <2>8, <3>1, <3>2, WaitStep
  <2>9. CASE con[c].goal = "write"
    BY <1>0, <2>a, <2>5, <2>6, <2>7, <2>9, WriterWaitsStep
  <2> QED
    BY <1>5, <2>8, <2>9
<1> QED
  BY <1>6, <1>7, <1>8

(* A checkpoint that goes on to the next read mark.                        *)
LEMMA NextMarkOK ==
  ASSUME Inv, NEW c \in Conn, con[c].at = "marklock", NEW n \in State,
         n.at = IF con[c].i = NReader - 1 THEN "backfill" ELSE "mark",
         n.i = IF con[c].i = NReader - 1 THEN 0 ELSE con[c].i + 1,
         n.hdr = con[c].hdr, n.goal = con[c].goal, n.mode = con[c].mode,
         n.rl = con[c].rl, n.ex = con[c].ex, n.cache = con[c].cache,
         n.tid = con[c].tid, n.job = con[c].job, n.log = con[c].log,
         n.wl = con[c].wl, n.cl = con[c].cl, n.chg = con[c].chg,
         n.it = con[c].it, n.safe <= con[c].safe,
         \A d \in Conn \ {c} : con[d].rl = con[c].i => n.safe <= End(con[d], shm)
  PROVE  /\ ConnOK(n, shm, wal, db, committed) /\ n.rl = -1 /\ (Describes(n) => Describes(con[c]))
         /\ n.at \in AtCkpt /\ n.at \notin AtReset
         /\ con[c].at # "closed" /\ con[c].at \notin AtReset
         /\ \A d \in Conn \ {c} : PairOK(n, con[d], shm) /\ PairOK(con[d], n, shm)
<1>0. /\ con[c] \in State /\ CheckpointOK(con[c], shm, wal, db)
      /\ shm \in ShmType /\ Locked(con[c]) /\ InPlace(con[c]) /\ con[c].at \in AtCkpt
  BY ConnNow DEF AtCkpt
<1>1. con[c].i \in Slots /\ con[c].ex = {}
  BY <1>0 DEF InPlace, Locked, InRecovery, AtReset
<1>2. n.at \in {"mark", "backfill"} /\ n.at \in AtCkpt /\ n.at \notin AtReset
  BY DEF AtCkpt, AtReset
<1>3. (n.at \in {"mark", "marklock"} => n.i \in Slots) /\ (n.at = "backfill" => n.i = 0)
  BY <1>1, Bounds DEF Slots
<1>4. n.safe <= n.hdr.mx
  BY <1>0, StateTypes, Bounds DEF CheckpointOK
<1>5. CheckpointOK(n, shm, wal, db)
  BY <1>0, <1>2, <1>3, <1>4 DEF CheckpointOK
<1>6. n.ex = (IF n.at = "copy" THEN {0} ELSE {})
  BY <1>1, <1>2
<1>7. \A d \in Conn \ {c} : con[d].rl \notin n.ex /\ n.ex \cap con[d].ex = {}
  BY <1>1
<1>8. /\ InPlace(n) /\ Locked(n) /\ n.job = {} /\ n.log = <<>>
      /\ HdrKnown(n, shm, committed) /\ (Describes(n) => Describes(con[c]))
      /\ con[c].at # "closed" /\ con[c].at \notin AtReset
      /\ \A d \in Conn \ {c} : Apart(n, con[d]) /\ Apart(con[d], n)
  BY <1>0, <1>2, <1>3, <1>6, <1>7, CkptMoves, Zenon
<1>9. ConnOK(n, shm, wal, db, committed) /\ n.rl = -1 /\ n.tid = 0
  BY <1>2, <1>5, <1>8, CkptOK, Zenon
<1>10. ASSUME NEW d \in Conn \ {c} PROVE PairOK(n, con[d], shm) /\ PairOK(con[d], n, shm)
  <2>1. PairOK(con[c], con[d], shm) /\ PairOK(con[d], con[c], shm)
    BY ConnNow
  <2>2. con[d] \in State /\ ConnOK(con[d], shm, wal, db, committed)
    BY DEF Inv, Types
  <2>3. Behind(con[d], n, shm)
    <3>1. Behind(con[d], con[c], shm)
      BY <2>1 DEF PairOK
    <3> QED
      BY <1>0, <1>1, <2>2, <3>1, NextMarkBehind
  <2>4. Apart(n, con[d]) /\ Apart(con[d], n)
    BY <1>8
  <2> QED
    BY <1>0, <1>2, <1>9, <2>1, <2>2, <2>3, <2>4, PairKept
<1> QED
  BY <1>2, <1>8, <1>9, <1>10

(* walCheckpoint sets a mark that nobody uses to the end.                  *)
LEMMA RaiseMarkStep ==
  ASSUME Inv, NEW c \in Conn, RaiseMark(c)
  PROVE  Inv'
<1>0. /\ con[c] \in State /\ con[c].at = "marklock" /\ CheckpointOK(con[c], shm, wal, db)
      /\ shm \in ShmType /\ InPlace(con[c]) /\ con[c].at \in AtCkpt
  BY ConnNow DEF RaiseMark, AtCkpt
<1>1. con[c].i \in Slots /\ con[c].safe \in 0 .. MaxFrame
  BY <1>0, StateTypes DEF InPlace
<1>2. UNCHANGED <<files, committed>> /\ ntxn' = ntxn
  BY DEF RaiseMark, history
<1>3. CASE LockFree(c, con[c].i)
  <2>1. PICK y \in 0 .. NotUsed : y = IF con[c].i = 1 THEN con[c].safe ELSE NotUsed
    BY <1>1, Bounds
  <2>2. PICK n \in State : n = NextMark(con[c])
    BY <1>0, <1>1, NextMarkState
  <2>3. shm' = Marked(shm, con[c].i, y) /\ con' = [con EXCEPT ![c] = n]
    BY <1>3, <2>1, <2>2 DEF RaiseMark, Marked
  <2>4. /\ n.at = (IF con[c].i = NReader - 1 THEN "backfill" ELSE "mark")
        /\ n.i = (IF con[c].i = NReader - 1 THEN 0 ELSE con[c].i + 1)
        /\ n.hdr = con[c].hdr /\ n.goal = con[c].goal /\ n.mode = con[c].mode
        /\ n.rl = con[c].rl /\ n.ex = con[c].ex /\ n.cache = con[c].cache
        /\ n.tid = con[c].tid /\ n.job = con[c].job /\ n.log = con[c].log
        /\ n.wl = con[c].wl /\ n.cl = con[c].cl /\ n.chg = con[c].chg
        /\ n.it = con[c].it /\ n.safe = con[c].safe
    BY <1>0, <1>1, <2>2, NextMarkState
  <2>5. \A d \in Conn \ {c} : con[d].rl # con[c].i
    BY <1>3 DEF LockFree, Others
  <2>6. n.safe <= con[c].safe
    BY <1>1, <2>4, Bounds
  <2>7. /\ ConnOK(n, shm, wal, db, committed) /\ n.rl = -1 /\ (Describes(n) => Describes(con[c]))
        /\ n.at \in AtCkpt /\ n.at \notin AtReset
        /\ con[c].at # "closed" /\ con[c].at \notin AtReset
        /\ \A d \in Conn \ {c} : PairOK(n, con[d], shm) /\ PairOK(con[d], n, shm)
    BY <1>0, <2>2, <2>4, <2>5, <2>6, NextMarkOK
  <2>8. ConnOK(n, shm', wal, db, committed)
    <3>1. shm'.h0 = shm.h0 /\ shm'.h1 = shm.h1 /\ shm'.backfill = shm.backfill /\ shm'.pg = shm.pg
      BY <1>0, <1>1, <2>1, <2>3, MarkedShm
    <3> QED
      BY <2>7, <3>1, MarkKept
  <2> QED
    BY <1>1, <1>2, <2>1, <2>2, <2>3, <2>4, <2>5, <2>7, <2>8, MarkStep, Zenon
<1>4. CASE ~LockFree(c, con[c].i)
  <2>1. con[c].y \in 0 .. MaxFrame /\ con[c].y <= con[c].safe
    BY <1>0, StateTypes, Bounds DEF CheckpointOK, NotUsed
  <2>2. PICK r : r = [con[c] EXCEPT !.safe = con[c].y]
    BY Zenon
  <2>3. r \in State
    BY <1>0, <2>1, <2>2, Zenon DEF State
  <2>4. /\ r.hdr = con[c].hdr /\ r.goal = con[c].goal /\ r.mode = con[c].mode
        /\ r.rl = con[c].rl /\ r.ex = con[c].ex /\ r.cache = con[c].cache
        /\ r.tid = con[c].tid /\ r.job = con[c].job /\ r.log = con[c].log
    BY <1>0, <2>2, <2>3 DEF State
  <2>5. r.wl = con[c].wl /\ r.cl = con[c].cl /\ r.chg = con[c].chg
    BY <1>0, <2>2, <2>3 DEF State
  <2>6. r.it = con[c].it /\ r.safe = con[c].y /\ r.i = con[c].i
    BY <1>0, <2>1, <2>2, <2>3 DEF State
  <2>7. PICK n \in State : n = NextMark(r)
    BY <1>1, <2>3, <2>6, NextMarkState
  <2>8. con' = [con EXCEPT ![c] = n] /\ shm' = shm
    BY <1>4, <2>2, <2>7 DEF RaiseMark
  <2>9. Quiet(c, n)
    BY <1>2, <2>8, ConnNow, QuietFiles, Zenon
  <2>10. /\ n.at = (IF con[c].i = NReader - 1 THEN "backfill" ELSE "mark")
         /\ n.i = (IF con[c].i = NReader - 1 THEN 0 ELSE con[c].i + 1)
         /\ n.hdr = con[c].hdr /\ n.goal = con[c].goal /\ n.mode = con[c].mode
         /\ n.rl = con[c].rl /\ n.ex = con[c].ex /\ n.cache = con[c].cache
         /\ n.tid = con[c].tid /\ n.job = con[c].job /\ n.log = con[c].log
         /\ n.wl = con[c].wl /\ n.cl = con[c].cl /\ n.chg = con[c].chg
         /\ n.it = con[c].it /\ n.safe = con[c].y
    BY <1>1, <2>3, <2>4, <2>5, <2>6, <2>7, NextMarkState
  <2>11. ASSUME NEW d \in Conn \ {c}, con[d].rl = con[c].i PROVE n.safe <= End(con[d], shm)
    <3>1. Behind(con[d], con[c], shm) /\ con[d] \in State
      BY ConnNow DEF PairOK, Inv, Types
    <3>2. con[c].safe \in Int /\ con[c].y \in Int /\ End(con[d], shm) \in Int /\ con[c].i \in Int /\ con[c].i >= 1
      BY <1>0, <1>1, <2>1, <3>1, StateTypes, ShmTypes, Bounds DEF End, Slots
    <3> QED
      BY <1>0, <2>1, <2>10, <2>11, <3>1, <3>2 DEF Behind
  <2>12. n.safe <= con[c].safe
    BY <2>1, <2>10
  <2>13. /\ ConnOK(n, shm, wal, db, committed) /\ n.rl = -1 /\ (Describes(n) => Describes(con[c]))
         /\ n.at \in AtCkpt /\ n.at \notin AtReset
         /\ con[c].at # "closed" /\ con[c].at \notin AtReset
         /\ \A d \in Conn \ {c} : PairOK(n, con[d], shm) /\ PairOK(con[d], n, shm)
    BY <1>0, <2>7, <2>10, <2>11, <2>12, NextMarkOK
  <2> QED
    BY <2>9, <2>7, <2>10, <2>13, QuietStep
<1> QED
  BY <1>3, <1>4

-----------------------------------------------------------------------------
(* A connection opens the database.                                        *)
LEMMA ClosedIs ==
  ASSUME NEW r \in State, NEW s, NEW w, NEW b, NEW im, ConnOK(r, s, w, b, im), r.at = "closed"
  PROVE  /\ Simple(r) /\ r.rl = -1 /\ r.ex = {} /\ ~r.wl /\ ~r.cl /\ ~InRecovery(r)
         /\ r.tid = 0 /\ r.cache = NoImage /\ r.goal = "none" /\ ~Describes(r)
<1>1. InPlace(r) /\ Locked(r) /\ JobOK(r)
  BY DEF ConnOK
<1>2. /\ r.rl = -1 /\ r.ex = {} /\ ~r.wl /\ ~r.cl /\ ~InRecovery(r)
      /\ r.tid = 0 /\ r.cache = NoImage /\ r.goal = "none"
  BY <1>1 DEF InPlace, Locked, AtWrite, AtReset, AtCkpt, InRecovery, Checkpointing
<1>3. r.job = {} /\ r.log = <<>>
  BY <1>1, <1>2 DEF JobOK
<1> QED
  BY <1>1, <1>2, <1>3 DEF Simple, Describes

(* Without a wal-index there is nothing to know.                           *)
LEMMA NoIndex ==
  /\ \A w, b, im : IndexOK(NoShm, w, b, im)
  /\ NoShm.backfill <= NoShm.h0.mx
  /\ \A r, w : Half(r, NoShm, w)
<1>1. NoShm.h0.mx = 0 /\ NoShm.backfill = 0 /\ ~NoShm.h0.init /\ 1 .. 0 = {}
  BY Nothing
<1> QED
  BY <1>1 DEF IndexOK, Half

(* The first connection that opens the database zeroes the wal-index.      *)
LEMMA OpenStep ==
  ASSUME Inv, NEW c \in Conn, Open(c)
  PROVE  Inv'
<1>0. con[c].at = "closed" /\ con[c] \in State /\ shm \in ShmType
  BY ConnNow DEF Open
<1>1. PICK n \in State : n = Idle(Closed)
  BY ClosedState, IdleState
<1>2. con' = [con EXCEPT ![c] = n]
  BY <1>1 DEF Open
<1>3. wal' = wal /\ db' = db /\ committed' = committed /\ FileTypes' /\ committed \in Image
      /\ ntxn' \in 0 .. MaxTxn
  BY ConnNow DEF Open, files, history, FileTypes
<1>4. /\ n.at = "idle" /\ n.goal = "none" /\ n.rl = -1 /\ ~n.wl /\ ~n.cl /\ n.ex = {} /\ ~n.chg
      /\ n.tid = 0 /\ n.job = {} /\ n.log = <<>> /\ n.cache = NoImage /\ n.hdr.gen = 0
  BY <1>1, ClosedState, IdleState, Nothing
<1>5. Simple(n) /\ ~Describes(n) /\ \A s, im : HdrKnown(n, s, im)
  <2>1. Simple(n)
    BY <1>4, Names DEF Simple, InPlace, Locked, AtHdr, AtLock, AtReset, AtWrite, AtCkpt, Checkpointing, InRecovery
  <2> QED
    BY <1>4, <2>1 DEF Describes, HdrKnown
<1>6. /\ con'[c] = n /\ \A d \in Conn \ {c} : con'[d] = con[d]
      /\ \A d \in Conn \ {c} : con[d] \in State /\ ConnOK(con[d], shm, wal, db, committed)
      /\ \A d, e \in Conn \ {c} : d # e => PairOK(con[d], con[e], shm)
  BY <1>2, OthersNow, Zenon
<1>7. \A s, w, b, im : ConnOK(n, s, w, b, im)
  BY <1>5, SimpleOK
<1>8. ConnOK(con[c], shm, wal, db, committed)
  BY DEF Inv
<1>9. CASE \A d \in Conn : con[d].at = "closed"
  <2>1. shm' = NoShm
    BY <1>9 DEF Open
  <2>2. ASSUME NEW d \in Conn \ {c}
        PROVE  ConnOK(con[d], shm', wal', db', committed')
    <3>1. Simple(con[d]) /\ con[d].cache = NoImage /\ con[d].goal = "none" /\ ~Describes(con[d])
      BY <1>6, <1>9, ClosedIs
    <3>2. HdrKnown(con[d], shm', committed')
      BY <3>1 DEF HdrKnown
    <3> QED
      BY <1>6, <3>1, <3>2, SimpleOK
  <2>3. ASSUME NEW d \in Conn \ {c}
        PROVE  PairOK(n, con[d], shm') /\ PairOK(con[d], n, shm')
    <3>1. /\ con[d].at = "closed" /\ con[d].goal = "none" /\ con[d].rl = -1 /\ con[d].ex = {}
          /\ ~con[d].wl /\ ~con[d].cl /\ ~InRecovery(con[d]) /\ con[d].tid = 0
      BY <1>6, <1>9, ClosedIs
    <3> QED
      BY <1>4, <3>1 DEF PairOK, Apart, Behind, Fresh, InRecovery
  <2>4. ASSUME NEW d \in Conn \ {c}, NEW e \in Conn \ {c}, d # e
        PROVE  PairOK(con[d], con[e], shm')
    <3>1. /\ con[d].at = "closed" /\ con[d].goal = "none" /\ con[d].rl = -1 /\ con[d].ex = {}
          /\ ~con[d].wl /\ ~con[d].cl /\ ~InRecovery(con[d]) /\ con[d].tid = 0
      BY <1>6, <1>9, ClosedIs
    <3>2. /\ con[e].at = "closed" /\ con[e].goal = "none" /\ con[e].rl = -1 /\ con[e].ex = {}
          /\ ~con[e].wl /\ ~con[e].cl /\ ~InRecovery(con[e]) /\ con[e].tid = 0
      BY <1>6, <1>9, ClosedIs
    <3> QED
      BY <3>1, <3>2 DEF PairOK, Apart, Behind, Fresh
  <2>5. ShmOK'
    BY <2>1, NoIndex DEF ShmOK
  <2> QED
    BY <1>2, <1>3, <1>7, <2>1, <2>2, <2>3, <2>4, <2>5, Nothing, LoudStep, Zenon
<1>10. CASE \E d \in Conn : con[d].at # "closed"
  <2>1. shm' = shm /\ \A d \in Conn : con[d].goal # "close"
    BY <1>10 DEF Open
  <2>2. ASSUME NEW d \in Conn \ {c} PROVE PairOK(n, con[d], shm) /\ PairOK(con[d], n, shm)
    <3>1. PairOK(con[c], con[d], shm) /\ PairOK(con[d], con[c], shm)
      BY ConnNow
    <3>2. Apart(n, con[d]) /\ Apart(con[d], n)
      BY <1>4, <2>1, <3>1, <1>0, <1>8, ClosedIs DEF PairOK, Apart, InRecovery
    <3>3. n.at \notin AtReset /\ n.at \notin Limited /\ n.at \notin AtCkpt
      BY <1>4 DEF AtReset, AtCkpt, Limited
    <3> QED
      BY <1>0, <1>4, <1>6, <3>1, <3>2, <3>3, PairKept
  <2>3. \A d \in Conn \ {c} : ConnOK(con[d], shm', wal', db', committed')
    BY <1>3, <1>6, <2>1
  <2>4. ShmOK'
    <3>1. IndexOK(shm', wal', db', committed')
      BY <1>3, <1>10, <2>1, IndexNow
    <3>2. (\A d \in Conn : con'[d].at # "reset3") => shm'.backfill <= shm'.h0.mx
      BY <1>0, <1>6, <2>1 DEF Inv, ShmOK
    <3>3. (\A d \in Conn : con'[d].at # "reset2") => \A d \in Conn : Half(con'[d], shm', wal')
      <4>1. ASSUME \A d \in Conn : con'[d].at # "reset2"
            PROVE  \A d \in Conn : Half(con[d], shm, wal)
        BY <1>0, <1>6, <4>1 DEF Inv, ShmOK
      <4>2. Half(n, shm, wal)
        BY <1>5 DEF Half
      <4> QED
        BY <1>3, <1>6, <2>1, <4>1, <4>2
    <3> QED
      BY <3>1, <3>2, <3>3 DEF ShmOK
  <2> QED
    BY <1>0, <1>2, <1>3, <1>6, <1>7, <2>1, <2>2, <2>3, <2>4, LoudStep, Zenon
<1> QED
  BY <1>9, <1>10

-----------------------------------------------------------------------------
(* The steps of a writer behind the end of the log.                        *)
LEMMA WriterAlone ==
  ASSUME NEW r \in State, NEW s, NEW w, NEW b, NEW im, ConnOK(r, s, w, b, im), ~r.wl
  PROVE  /\ r.tid = 0 /\ r.goal # "write" /\ ~InRecovery(r) /\ r.at # "locked"
         /\ r.at \notin AtReset \cup AtWrite /\ r.at # "cut"
<1>1. InPlace(r) /\ Locked(r)
  BY DEF ConnOK
<1>2. r.tid = 0 /\ r.goal # "write" /\ ~InRecovery(r) /\ r.at # "locked" /\ r.at \notin AtWrite
  BY <1>1 DEF Locked, InRecovery
<1>3. r.at \notin AtReset /\ r.at # "cut"
  <2>1. r.at \in AtReset \cup {"cut"} => Checkpointing(r)
    BY <1>1, <1>2 DEF InPlace, Checkpointing
  <2> QED
    BY <1>1, <2>1 DEF Locked
<1> QED
  BY <1>2, <1>3

(* What happens in the log behind the last commit does not concern the     *)
(* others.                                                                 *)
LEMMA OthersBeyond ==
  ASSUME NEW r \in State, NEW s \in ShmType, NEW t \in ShmType, NEW w, NEW v, NEW b, NEW im,
         ConnOK(r, s, w, b, im), ~r.wl,
         t.h0 = s.h0, t.backfill = s.backfill, t.mark = s.mark,
         \A i \in 1 .. s.h0.mx : t.pg[i] = s.pg[i] /\ v.frame[i] = w.frame[i]
  PROVE  ConnOK(r, t, v, b, im)
<1>1. InPlace(r) /\ Locked(r) /\ JobOK(r)
  BY DEF ConnOK
<1>2. /\ r.tid = 0 /\ r.goal # "write" /\ ~InRecovery(r)
      /\ r.at \notin AtReset \cup AtWrite /\ r.at # "cut"
  BY WriterAlone
<1>3. RecoveryOK(r, t, v)
  BY <1>2 DEF RecoveryOK, InRecovery
<1>4. HdrKnown(r, t, im)
  BY DEF ConnOK, HdrKnown
<1>5. SnapshotOK(r, t, v, b)
  <2>1. SnapshotOK(r, s, w, b)
    BY DEF ConnOK
  <2>2. End(r, t) = End(r, s)
    BY DEF End
  <2>3. r.hdr.mx \in 0 .. MaxFrame /\ s.h0.mx \in 0 .. MaxFrame /\ r.rl \in -1 .. NReader - 1
        /\ s.backfill \in 0 .. MaxFrame
    BY StateTypes, ShmTypes
  <2>4. ASSUME r.at = "read" PROVE r.cache = Seen(r, t, v, b)
    <3>1. CASE r.rl = 0
      <4>1. Seen(r, t, v, b) = Seen(r, s, w, b)
        BY <3>1 DEF Seen
      <4> QED
        BY <2>1, <2>4, <4>1 DEF SnapshotOK
    <3>2. CASE r.rl # 0
      <4>1. r.rl >= 1
        BY <1>1, <2>3, <2>4, <3>2, Bounds DEF Locked
      <4>2. r.mi \in 1 .. s.backfill + 1 /\ r.hdr.mx <= s.h0.mx
        BY <2>1, <2>4, <4>1 DEF SnapshotOK
      <4>3. \A i \in r.mi .. r.hdr.mx : i \in 1 .. s.h0.mx
        BY <2>3, <4>2, Bounds
      <4>4. ASSUME NEW p \in Page PROVE Seen(r, t, v, b)[p] = Seen(r, s, w, b)[p]
        <5> DEFINE F == {i \in r.mi .. r.hdr.mx : s.pg[i] = p}
        <5>1. {i \in r.mi .. r.hdr.mx : t.pg[i] = p} = F
          BY <4>3
        <5>2. F # {} => Max(F) \in 1 .. s.h0.mx
          <6>1. F \in SUBSET (0 .. s.h0.mx) /\ s.h0.mx \in Nat
            BY <2>3, <4>3
          <6>2. F # {} => Max(F) \in F
            BY <6>1, LastOf, Zenon
          <6> QED
            BY <4>3, <6>2
        <5>3. F # {} => v.frame[Max(F)] = w.frame[Max(F)]
          BY <5>2
        <5>4. Seen(r, t, v, b)[p] = IF r.rl = 0 \/ r.hdr.mx = 0 \/ F = {} THEN b[p]
                                     ELSE IF v.frame[Max(F)] = NoFrame THEN Torn
                                     ELSE v.frame[Max(F)].tid
          BY <5>1, Zenon DEF Seen
        <5>5. Seen(r, s, w, b)[p] = IF r.rl = 0 \/ r.hdr.mx = 0 \/ F = {} THEN b[p]
                                     ELSE IF w.frame[Max(F)] = NoFrame THEN Torn
                                     ELSE w.frame[Max(F)].tid
          BY DEF Seen
        <5> HIDE DEF F
        <5> QED
          BY <5>3, <5>4, <5>5
      <4>5. Seen(r, t, v, b) = Seen(r, s, w, b)
        <5>1. Seen(r, t, v, b) = [p \in Page |-> Seen(r, t, v, b)[p]]
          BY DEF Seen
        <5>2. Seen(r, s, w, b) = [p \in Page |-> Seen(r, s, w, b)[p]]
          BY DEF Seen
        <5> QED
          BY <4>4, <5>1, <5>2
      <4> QED
        BY <2>1, <2>4, <4>5 DEF SnapshotOK
    <3> QED
      BY <3>1, <3>2
  <2> QED
    BY <2>1, <2>2, <2>4 DEF SnapshotOK
<1>6. ResetOK(r, t, im)
  BY <1>2 DEF ResetOK, AtReset
<1>7. WriterOK(r, t, im) /\ WrittenOK(r, t, v)
  BY <1>2 DEF WriterOK, WrittenOK, AtWrite
<1>8. CheckpointOK(r, t, v, b)
  <2>1. CheckpointOK(r, s, w, b)
    BY DEF ConnOK
  <2>2. r.at \in AtCkpt => \A i \in 1 .. r.hdr.mx : i \in 1 .. s.h0.mx
    BY <2>1, StateTypes, ShmTypes, Bounds DEF CheckpointOK
  <2>3. ASSUME NEW p \in Page, r.at \in {"mark", "marklock", "backfill", "copy"}
        PROVE IF r.it[p] = 0 THEN \A i \in 1 .. r.hdr.mx : t.pg[i] # p
              ELSE IsLast(r.it[p], r.hdr.mx, t) /\ t.pg[r.it[p]] = p
    <3>1. IF r.it[p] = 0 THEN \A i \in 1 .. r.hdr.mx : s.pg[i] # p
          ELSE IsLast(r.it[p], r.hdr.mx, s) /\ s.pg[r.it[p]] = p
      BY <2>1, <2>3 DEF CheckpointOK
    <3>2. \A i \in 1 .. r.hdr.mx : t.pg[i] = s.pg[i]
      BY <2>2, <2>3 DEF AtCkpt
    <3>3. CASE r.it[p] = 0
      BY <3>1, <3>2, <3>3
    <3>4. CASE r.it[p] # 0
      <4>1. r.it[p] \in 1 .. r.hdr.mx /\ \A j \in r.it[p] + 1 .. r.hdr.mx : s.pg[j] # s.pg[r.it[p]]
        BY <3>1, <3>4 DEF IsLast
      <4>2. \A j \in r.it[p] + 1 .. r.hdr.mx : j \in 1 .. r.hdr.mx
        BY <4>1, StateTypes, Bounds
      <4> QED
        BY <3>1, <3>2, <3>4, <4>1, <4>2 DEF IsLast
    <3> QED
      BY <3>3, <3>4
  <2>4. ASSUME r.at = "copy", NEW p \in Page, p <= r.i, r.it[p] \in r.bf + 1 .. r.safe
        PROVE  b[p] = v.frame[r.it[p]].tid
    <3>1. r.it[p] \in 1 .. r.hdr.mx
      <4>1. r.bf \in 0 .. MaxFrame /\ r.safe \in 0 .. MaxFrame /\ r.hdr.mx \in 0 .. MaxFrame
        BY StateTypes
      <4> QED
        BY <2>1, <2>4, <4>1, Bounds DEF CheckpointOK
    <3>2. v.frame[r.it[p]] = w.frame[r.it[p]]
      BY <2>2, <2>4, <3>1 DEF AtCkpt
    <3> QED
      BY <2>1, <2>4, <3>2 DEF CheckpointOK
  <2> QED
    BY <2>1, <2>3, <2>4 DEF CheckpointOK
<1> QED
  BY <1>1, <1>3, <1>4, <1>5, <1>6, <1>7, <1>8 DEF ConnOK

(* Nor does it change what the wal-index says of the committed frames.     *)
LEMMA IndexBeyond ==
  ASSUME NEW s \in ShmType, NEW t \in ShmType, NEW w, NEW v, NEW b, NEW im,
         IndexOK(s, w, b, im), s.h0.init, t.h0 = s.h0, t.backfill = s.backfill,
         \A i \in 1 .. s.h0.mx : t.pg[i] = s.pg[i] /\ v.frame[i] = w.frame[i],
         s.h0.mx > 0 => v.head = w.head
  PROVE  IndexOK(t, v, b, im)
<1>1. s.h0.mx \in 0 .. MaxFrame
  BY ShmTypes
<1>2. Overlay(t.h0.mx, t, v, b) = Overlay(s.h0.mx, s, w, b)
  BY <1>1, OverlaySame
<1>3. Chained(t.h0.gen, t.h0.mx, v)
  <2>1. Chained(s.h0.gen, s.h0.mx, w)
    BY DEF IndexOK, HdrOf
  <2>2. ASSUME NEW i \in 1 .. s.h0.mx
        PROVE  /\ v.frame[i] # NoFrame /\ v.frame[i].gen = s.h0.gen
               /\ v.frame[i].prev = IF i = 1 THEN 0 ELSE v.frame[i - 1].tid
    <3>1. v.frame[i] = w.frame[i] /\ w.frame[i] # NoFrame /\ w.frame[i].gen = s.h0.gen
          /\ w.frame[i].prev = IF i = 1 THEN 0 ELSE w.frame[i - 1].tid
      BY <2>1 DEF Chained
    <3>2. i # 1 => v.frame[i - 1] = w.frame[i - 1]
      <4>1. i # 1 => i - 1 \in 1 .. s.h0.mx
        BY <1>1, Bounds
      <4> QED
        BY <4>1
    <3> QED
      BY <3>1, <3>2
  <2> QED
    BY <2>1, <2>2 DEF Chained
<1>4. Indexed(t.h0.mx, t, v)
  BY DEF IndexOK, HdrOf, Indexed
<1>5. t.h0.mx > 0 => v.frame[t.h0.mx].com /\ v.frame[t.h0.mx].tid = t.h0.sum
  BY <1>1, Bounds DEF IndexOK, HdrOf
<1>6. ASSUME NEW i \in 1 .. t.backfill, IsLast(i, t.h0.mx, t)
      PROVE  b[t.pg[i]] = v.frame[i].tid
  <2>1. i \in 1 .. s.h0.mx /\ \A j \in i + 1 .. s.h0.mx : t.pg[j] # t.pg[i]
    BY <1>6 DEF IsLast
  <2>2. \A j \in i + 1 .. s.h0.mx : j \in 1 .. s.h0.mx
    BY <2>1, <1>1, Bounds
  <2>3. IsLast(i, s.h0.mx, s)
    BY <2>1, <2>2 DEF IsLast
  <2> QED
    BY <2>1, <2>3 DEF IndexOK
<1> QED
  BY <1>2, <1>3, <1>4, <1>5, <1>6 DEF IndexOK, HdrOf

(* A step of the writer behind the last commit.                            *)
LEMMA WriterStep ==
  ASSUME Inv, NEW c \in Conn, NEW n \in State, con' = [con EXCEPT ![c] = n],
         con[c].wl, con[c].at \notin AtReset, con[c].at # "closed", n.at \notin AtReset,
         shm' \in ShmType, shm'.h0 = shm.h0, shm'.backfill = shm.backfill, shm'.mark = shm.mark,
         shm.h0.init, db' = db, committed' = committed, ntxn' = ntxn, FileTypes',
         \A i \in 1 .. shm.h0.mx : shm'.pg[i] = shm.pg[i] /\ wal'.frame[i] = wal.frame[i],
         shm.h0.mx > 0 => wal'.head = wal.head,
         ConnOK(n, shm', wal', db, committed), Half(n, shm', wal'),
         \A d \in Conn \ {c} : /\ PairOK(n, con[d], shm) /\ PairOK(con[d], n, shm)
                               /\ Half(con[d], shm, wal) => Half(con[d], shm', wal')
  PROVE  Inv'
<1>1. shm \in ShmType /\ committed \in Image /\ ntxn' \in 0 .. MaxTxn
  BY ConnNow
<1>2. /\ con'[c] = n /\ \A d \in Conn \ {c} : con'[d] = con[d]
      /\ \A d \in Conn \ {c} : con[d] \in State /\ ConnOK(con[d], shm, wal, db, committed)
      /\ \A d, e \in Conn \ {c} : d # e => PairOK(con[d], con[e], shm)
  BY OthersNow, Zenon
<1>3. \A d \in Conn \ {c} : ~con[d].wl
  BY ConnNow DEF PairOK, Apart
<1>4. ASSUME NEW d \in Conn \ {c} PROVE ConnOK(con[d], shm', wal', db', committed')
  <2>1. con[d] \in State /\ ConnOK(con[d], shm, wal, db, committed) /\ ~con[d].wl
    BY <1>2, <1>3
  <2>2. ConnOK(con[d], shm', wal', db, committed)
    BY <1>1, <2>1, OthersBeyond
  <2> QED
    BY <2>2
<1>5. ASSUME NEW d \in Conn \ {c} PROVE PairOK(n, con[d], shm') /\ PairOK(con[d], n, shm')
  BY PairSame
<1>6. \A d, e \in Conn \ {c} : d # e => PairOK(con[d], con[e], shm')
  BY <1>2, PairSame
<1>7. \A d \in Conn : con[d].at \notin AtReset
  BY <1>2, <1>3, WriterAlone
<1>8. ShmOK'
  <2>1. IndexOK(shm', wal', db', committed')
    <3>1. IndexOK(shm, wal, db, committed)
      BY IndexNow
    <3>2. IndexOK(shm', wal', db, committed)
      BY <1>1, <3>1, IndexBeyond
    <3> QED
      BY <3>2
  <2>2. shm'.backfill <= shm'.h0.mx
    BY <1>7 DEF Inv, ShmOK, AtReset
  <2>3. \A d \in Conn : Half(con'[d], shm', wal')
    <3>1. \A d \in Conn : Half(con[d], shm, wal)
      BY <1>7 DEF Inv, ShmOK, AtReset
    <3> QED
      BY <1>2, <3>1
  <2> QED
    BY <2>1, <2>2, <2>3 DEF ShmOK
<1>9. ConnOK(n, shm', wal', db', committed')
  OBVIOUS
<1> QED
  BY <1>1, <1>4, <1>5, <1>6, <1>8, <1>9, LoudStep, Zenon

(* A writer that goes on writing.                                          *)
LEMMA WriterMoves ==
  ASSUME Inv, NEW c \in Conn, NEW n \in State, con' = [con EXCEPT ![c] = n],
         con[c].at \in AtWrite \ {"write", "restart"}, n.at \in AtWrite \ {"restart"},
         n.goal = IF n.at \in {"write", "publish"} THEN "none" ELSE "write",
         n.mode = con[c].mode, n.rl = con[c].rl, n.ex = con[c].ex, n.mi = con[c].mi,
         n.tid = con[c].tid, n.wl = con[c].wl, n.cl = con[c].cl, n.chg = con[c].chg,
         n.hdr.gen = con[c].hdr.gen \/ \A d \in Conn \ {c} : con[d].hdr.gen # n.hdr.gen,
         shm' \in ShmType, shm'.h0 = shm.h0, shm'.backfill = shm.backfill, shm'.mark = shm.mark,
         db' = db, committed' = committed, ntxn' = ntxn, FileTypes',
         \A i \in 1 .. shm.h0.mx : shm'.pg[i] = shm.pg[i] /\ wal'.frame[i] = wal.frame[i],
         shm.h0.mx > 0 => wal'.head = wal.head,
         (wal'.head = wal.head /\ shm'.h1 = shm.h1) \/ wal'.head.gen = n.hdr.gen,
         JobOK(n), WriterOK(n, shm', committed), WrittenOK(n, shm', wal')
  PROVE  Inv'
<1>0. /\ InPlace(con[c]) /\ Locked(con[c]) /\ con[c] \in State
      /\ SnapshotOK(con[c], shm, wal, db) /\ WriterOK(con[c], shm, committed)
      /\ shm \in ShmType /\ wal \in LogType
  BY ConnNow
<1>1. /\ con[c].at \in AtWrite /\ con[c].tid # 0 /\ con[c].wl /\ ~con[c].cl
      /\ con[c].ex = {} /\ con[c].rl >= 1 /\ con[c].at \notin AtReset /\ con[c].at # "closed"
  BY <1>0 DEF Locked, InPlace, AtWrite, AtReset, AtCkpt, InRecovery, Checkpointing
<1>2. ~con[c].chg
  <2>1. con[c].goal \in {"none", "write"}
    BY <1>0 DEF InPlace, AtWrite
  <2> QED
    BY <1>0, <2>1 DEF Locked
<1>3. /\ n.at \notin AtReset /\ n.at \in AtWrite /\ n.at \notin {"closed", "read", "lock", "cut"}
      /\ n.at \notin AtHdr \cup AtLock \cup AtReset \cup AtCkpt /\ ~InRecovery(n)
  BY DEF AtWrite, AtReset, AtHdr, AtLock, AtCkpt, InRecovery
<1>4. InPlace(n)
  BY <1>3 DEF InPlace, AtWrite, AtCkpt, Checkpointing
<1>5. Locked(n)
  BY <1>1, <1>2, <1>3, <1>4, StateTypes, Bounds
     DEF Locked, AtReset, AtCkpt, Checkpointing, InRecovery
<1>6. SnapshotOK(n, shm', wal', db)
  BY <1>0, <1>1, <1>3 DEF SnapshotOK, End
<1>7. ConnOK(n, shm', wal', db, committed)
  BY <1>3, <1>4, <1>5, <1>6, WritingOK
<1>8. NoMore(n, con[c])
  BY <1>1, <1>3 DEF NoMore
<1>9. ASSUME NEW d \in Conn \ {c}
      PROVE  /\ con[d] \in State /\ con[d].tid = 0 /\ con[d].at # "reset2"
             /\ PairOK(con[c], con[d], shm) /\ PairOK(con[d], con[c], shm)
             /\ n.hdr.gen # shm.h0.gen => con[d].hdr.gen # n.hdr.gen
  <2>1. PairOK(con[c], con[d], shm) /\ PairOK(con[d], con[c], shm) /\ con[d] \in State
    BY ConnNow
  <2>2. ~con[d].wl
    BY <1>1, <2>1 DEF PairOK, Apart
  <2>3. con[d].tid = 0 /\ con[d].at # "reset2"
    <3>1. ConnOK(con[d], shm, wal, db, committed)
      BY DEF Inv
    <3> QED
      BY <2>1, <2>2, <3>1, WriterAlone DEF AtReset
  <2>4. n.hdr.gen # shm.h0.gen => con[d].hdr.gen # n.hdr.gen
    BY <1>1, <2>1 DEF PairOK, Fresh
  <2> QED
    BY <2>1, <2>3, <2>4
<1>10. ASSUME NEW d \in Conn \ {c} PROVE PairOK(n, con[d], shm) /\ PairOK(con[d], n, shm)
  <2>1. Apart(n, con[d]) /\ Apart(con[d], n)
    BY <1>0, <1>8, <1>9, StaysApart DEF PairOK
  <2>2. Behind(n, con[d], shm)
    BY <1>1, <1>9 DEF PairOK, Behind, End
  <2>3. Behind(con[d], n, shm)
    BY <1>3 DEF Behind, AtCkpt
  <2>4. Fresh(n, con[d], shm) /\ Fresh(con[d], n, shm)
    BY <1>3, <1>9 DEF Fresh, AtReset
  <2> QED
    BY <2>1, <2>2, <2>3, <2>4 DEF PairOK
<1>11. Half(n, shm', wal')
  BY <1>1 DEF Half, Describes
<1>12. ASSUME NEW d \in Conn \ {c}, Half(con[d], shm, wal) PROVE Half(con[d], shm', wal')
  BY <1>9, <1>12 DEF Half
<1>13. shm.h0.init
  BY <1>0, <1>1 DEF WriterOK
<1> QED
  BY <1>1, <1>3, <1>7, <1>10, <1>11, <1>12, <1>13, WriterStep, Zenon

(* The header of the log, of a generation that is nobody's or the newest.  *)
LEMMA HeaderStep ==
  ASSUME Inv, NEW c \in Conn, Header(c)
  PROVE  Inv'
<1>0. /\ InPlace(con[c]) /\ Locked(con[c]) /\ con[c] \in State /\ con[c].at = "header"
      /\ JobOK(con[c]) /\ WriterOK(con[c], shm, committed)
      /\ shm \in ShmType /\ wal \in LogType /\ FileTypes
  BY ConnNow DEF Header
<1>1. /\ con[c].goal = "write" /\ con[c].tid # 0 /\ con[c].at \in AtWrite \ {"write", "restart"}
  BY <1>0 DEF InPlace, Locked, AtWrite
<1>2. PICK g : g = IF con[c].nck THEN con[c].hdr.gen ELSE NewGen
  OBVIOUS
<1>3. /\ g \in Salt \cup {0} /\ con[c].nck \in BOOLEAN
      /\ con[c].nck \/ g # 0
      /\ g = con[c].hdr.gen \/ (\A d \in Conn \ {c} : con[d].hdr.gen # g)
      /\ g # shm.h0.gen => g # 0
  <2>1. con[c].hdr.gen \in Salt \cup {0} /\ con[c].nck \in BOOLEAN
    BY <1>0, StateTypes, Zenon DEF State
  <2>2. con[c].hdr = shm.h0
    BY <1>0, <1>1 DEF WriterOK
  <2>3. CASE con[c].nck
    BY <1>2, <2>1, <2>2, <2>3
  <2>4. CASE ~con[c].nck
    <3>1. Unused # {}
      BY <2>4 DEF Header
    <3>2. g = NewGen
      BY <1>2, <2>4
    <3> QED
      BY <2>1, <2>4, <3>1, <3>2, NewGenIs
  <2> QED
    BY <2>1, <2>3, <2>4
<1>4. PICK h : h = [con[c].hdr EXCEPT !.gen = g, !.sum = 0]
  OBVIOUS
<1>5. h \in Hdr /\ h.gen = g /\ h.sum = 0 /\ h.mx = con[c].hdr.mx /\ h.init = con[c].hdr.init
  <2>1. con[c].hdr \in Hdr
    BY <1>0, StateTypes
  <2> QED
    BY <1>3, <1>4, <2>1, Nothing, Zenon DEF Hdr
<1>6. PICK n : n = [con[c] EXCEPT !.at = "hdrsync", !.hdr = h]
  OBVIOUS
<1>7. con' = [con EXCEPT ![c] = n]
  <2>1. con' = [con EXCEPT ![c] = [con[c] EXCEPT !.at = "hdrsync", !.hdr.gen = g, !.hdr.sum = 0]]
    BY <1>2 DEF Header
  <2>2. [con[c] EXCEPT !.at = "hdrsync", !.hdr.gen = g, !.hdr.sum = 0] = n
    BY <1>0, <1>4, <1>6, Zenon DEF State, Hdr
  <2> QED
    BY <2>1, <2>2, Zenon
<1>8. n \in State
  <2>1. "hdrsync" \in AtAny
    BY DEF AtAny, AtWrite
  <2>2. con[c] \in State /\ h \in Hdr
    BY <1>0, <1>5
  <2> QED
    BY <1>6, <2>1, <2>2, Zenon DEF State
<1>9. /\ n.hdr = h /\ n.at = "hdrsync" /\ n.goal = con[c].goal /\ n.mode = con[c].mode
      /\ n.rl = con[c].rl /\ n.ex = con[c].ex /\ n.cache = con[c].cache /\ n.mi = con[c].mi
      /\ n.tid = con[c].tid /\ n.job = con[c].job /\ n.log = con[c].log
  BY <1>0, <1>6, <1>8 DEF State
<1>10. n.wl = con[c].wl /\ n.cl = con[c].cl /\ n.chg = con[c].chg
  BY <1>0, <1>6, <1>8 DEF State
<1>11. PICK hd : hd = [gen |-> g, nck |-> con[c].nck]
  BY Zenon
<1>12. hd \in HeadType /\ hd # NoHead /\ hd.gen = g
  BY <1>3, <1>11 DEF HeadType, NoHead
<1>13. wal' = [wal EXCEPT !.head = hd]
  BY <1>2, <1>11 DEF Header
<1>14. wal' \in LogType /\ wal'.head = hd /\ wal'.frame = wal.frame
  BY <1>0, <1>12, <1>13 DEF LogType
<1>15. FileTypes' /\ UNCHANGED <<db, shm, committed, ntxn>>
  <2>1. UNCHANGED <<db, dbOld, walOld, cutOld, shm, committed, ntxn>>
    BY DEF Header, history
  <2>2. headOld' \subseteq HeadType
    BY <1>0, Nothing DEF FileTypes, Header, LogType
  <2> QED
    BY <1>0, <1>14, <2>1, <2>2 DEF FileTypes
<1>16. con[c].hdr = shm.h0 /\ con[c].hdr.mx = 0 /\ shm.h0.mx = 0
  BY <1>0, <1>1 DEF WriterOK
<1>17. JobOK(n)
  BY <1>0, <1>1, <1>5, <1>9 DEF JobOK
<1>18. WriterOK(n, shm, committed)
  <2>1. Changed(n, shm) = Changed(con[c], shm)
    BY <1>5, <1>9 DEF Changed
  <2>2. n.at \notin AtLock \cup {"restart", "header", "write", "reset2"} \cup AtReset
    BY <1>9 DEF AtLock, AtReset
  <2> QED
    BY <1>0, <1>1, <1>3, <1>5, <1>9, <1>16, <2>1, <2>2 DEF WriterOK
<1>19. WrittenOK(n, shm, wal')
  BY <1>5, <1>9, <1>12, <1>14 DEF WrittenOK
<1>20. shm' \in ShmType /\ n.at \in AtWrite \ {"restart"}
  BY <1>0, <1>9, <1>15 DEF AtWrite
<1>21. \A i \in 1 .. shm.h0.mx : shm'.pg[i] = shm.pg[i] /\ wal'.frame[i] = wal.frame[i]
  BY <1>14, <1>15
<1>22. ~(shm.h0.mx > 0)
  BY <1>16
<1>23. WriterOK(n, shm', committed) /\ WrittenOK(n, shm', wal')
  BY <1>15, <1>18, <1>19
<1>24. /\ shm'.h0 = shm.h0 /\ shm'.backfill = shm.backfill /\ shm'.mark = shm.mark
       /\ db' = db /\ committed' = committed /\ ntxn' = ntxn /\ FileTypes'
  BY <1>15
<1>25. /\ n.goal = IF n.at \in {"write", "publish"} THEN "none" ELSE "write"
       /\ n.hdr.gen = con[c].hdr.gen \/ \A d \in Conn \ {c} : con[d].hdr.gen # n.hdr.gen
       /\ wal'.head.gen = n.hdr.gen
  BY <1>1, <1>3, <1>5, <1>9, <1>12, <1>14
<1> QED
  BY <1>1, <1>7, <1>8, <1>9, <1>10, <1>17, <1>20, <1>21, <1>22, <1>23, <1>24, <1>25, WriterMoves, Zenon

-----------------------------------------------------------------------------
(* A chain of frames.                                                      *)
LEMMA ChainedSame ==
  ASSUME NEW g, NEW n \in Int, NEW w, NEW v, Chained(g, n, w),
         n > 0 => v.head = w.head, \A i \in 1 .. n : v.frame[i] = w.frame[i]
  PROVE  Chained(g, n, v)
<1>1. ASSUME NEW i \in 1 .. n
      PROVE  /\ v.frame[i] # NoFrame /\ v.frame[i].gen = g
             /\ v.frame[i].prev = IF i = 1 THEN 0 ELSE v.frame[i - 1].tid
  <2>1. v.frame[i] = w.frame[i] /\ w.frame[i] # NoFrame /\ w.frame[i].gen = g
        /\ w.frame[i].prev = IF i = 1 THEN 0 ELSE w.frame[i - 1].tid
    BY DEF Chained
  <2>2. i # 1 => i - 1 \in 1 .. n
    OBVIOUS
  <2> QED
    BY <2>1, <2>2
<1> QED
  BY <1>1 DEF Chained

(* One frame more.                                                         *)
LEMMA ChainedMore ==
  ASSUME NEW g, NEW n \in Nat, NEW w, NEW v, Chained(g, n, w), v.head = w.head,
         \A i \in 1 .. n : v.frame[i] = w.frame[i],
         v.head # NoHead, v.head.gen = g, v.frame[n + 1] # NoFrame, v.frame[n + 1].gen = g,
         v.frame[n + 1].prev = IF n = 0 THEN 0 ELSE v.frame[n].tid
  PROVE  Chained(g, n + 1, v)
<1>1. Chained(g, n, v)
  BY ChainedSame
<1>2. ASSUME NEW i \in 1 .. n + 1
      PROVE  /\ v.frame[i] # NoFrame /\ v.frame[i].gen = g
             /\ v.frame[i].prev = IF i = 1 THEN 0 ELSE v.frame[i - 1].tid
  <2>1. CASE i \in 1 .. n
    BY <1>1, <2>1 DEF Chained
  <2>2. CASE i = n + 1
    <3>1. i - 1 = n /\ (i = 1 <=> n = 0)
      BY <2>2
    <3> QED
      BY <2>2, <3>1
  <2> QED
    BY <2>1, <2>2
<1> QED
  BY <1>2 DEF Chained

(* The first of the pages that are still to be written.                    *)
LEMMA FirstPage ==
  ASSUME NEW J \in SUBSET Page, J # {}
  PROVE  /\ Min(J) \in J /\ Min(J) \in Page
         /\ Cardinality(J) \in Nat /\ Cardinality(J) >= 1
         /\ Cardinality(J \ {Min(J)}) = Cardinality(J) - 1
         /\ J \ {Min(J)} \in SUBSET Page
         /\ J \ {Min(J)} = {} <=> J = {Min(J)}
<1>1. J \in SUBSET (0 .. NPage) /\ NPage \in Nat
  BY Bounds DEF Page
<1>2. Min(J) \in J
  BY <1>1, FirstOf, Zenon
<1>3. IsFiniteSet(Page)
  BY Bounds, FS_Interval DEF Page
<1>4. IsFiniteSet(J)
  BY <1>3, FS_Subset
<1>5. Cardinality(J) \in Nat /\ Cardinality(J) # 0
  BY <1>4, FS_CardinalityType, FS_EmptySet
<1>6. Cardinality(J \ {Min(J)}) = Cardinality(J) - 1
  BY <1>2, <1>4, FS_RemoveElement
<1> QED
  BY <1>2, <1>5, <1>6

(* The pages of a sequence, and of one that is appended to it.             *)
Entries(L) == {L[j] : j \in 1 .. Len(L)}

(* A page more in the list of those written.                               *)
LEMMA Appended ==
  ASSUME NEW L \in Seq(Page), NEW p \in Page
  PROVE  /\ Append(L, p) \in Seq(Page) /\ Len(L) \in Nat /\ Len(Append(L, p)) = Len(L) + 1
         /\ \A j \in 1 .. Len(L) : Append(L, p)[j] = L[j]
         /\ Append(L, p)[Len(L) + 1] = p
         /\ Entries(Append(L, p)) = Entries(L) \cup {p}
<1>1. /\ Append(L, p) \in Seq(Page) /\ Len(L) \in Nat /\ Len(Append(L, p)) = Len(L) + 1
      /\ \A j \in 1 .. Len(L) : Append(L, p)[j] = L[j]
      /\ Append(L, p)[Len(L) + 1] = p
  OBVIOUS
<1>2. \A j \in 1 .. Len(L) + 1 : j \in 1 .. Len(L) \/ j = Len(L) + 1
  BY <1>1
<1>3. 1 .. Len(L) \subseteq 1 .. Len(L) + 1 /\ Len(L) + 1 \in 1 .. Len(L) + 1
  BY <1>1
<1>4. {Append(L, p)[j] : j \in 1 .. Len(L) + 1} = {L[j] : j \in 1 .. Len(L)} \cup {p}
  BY <1>1, <1>2, <1>3
<1> QED
  BY <1>1, <1>4 DEF Entries

(* The pages a writer has changed.                                         *)
Between(f, a, b) == {f[i] : i \in a .. b}

(* The pages of a writer, put together.                                    *)
LEMMA ChangedIs ==
  ASSUME NEW r, NEW s
  PROVE  Changed(r, s) = r.job \cup Entries(r.log) \cup Between(s.pg, s.h0.mx + 1, r.hdr.mx)
  BY DEF Changed, Entries, Between

(* The log with another frame k.                                           *)
WithFrame(w, k, f) == [w EXCEPT !.frame[k] = f]

(* A frame that is written changes no other.                               *)
LEMMA FrameSet ==
  ASSUME NEW w \in LogType, NEW k \in Index, NEW f \in Frame \cup {NoFrame}
  PROVE  /\ WithFrame(w, k, f) \in LogType /\ WithFrame(w, k, f).head = w.head
         /\ WithFrame(w, k, f).frame[k] = f
         /\ \A i \in Index \ {k} : WithFrame(w, k, f).frame[i] = w.frame[i]
<1>1. /\ w.frame \in [Index -> Frame \cup {NoFrame}] /\ w.head \in HeadType
      /\ WithFrame(w, k, f) = [w EXCEPT !.frame = [w.frame EXCEPT ![k] = f]]
  BY DEF LogType, WithFrame
<1>2. PICK F \in [Index -> Frame \cup {NoFrame}] : F = [w.frame EXCEPT ![k] = f]
  BY <1>1, Zenon
<1>3. PICK v : v = WithFrame(w, k, f) /\ v = [w EXCEPT !.frame = F]
  BY <1>1, <1>2
<1>4. v \in LogType /\ v.head = w.head /\ v.frame = F
  BY <1>2, <1>3 DEF LogType
<1>5. F[k] = f /\ \A i \in Index \ {k} : F[i] = w.frame[i]
  BY <1>1, <1>2
<1> QED
  BY <1>3, <1>4, <1>5

(* The end of the log after another frame.                                 *)
LEMMA LogEnd ==
  ASSUME NEW a \in Nat, NEW b \in Nat
  PROVE  /\ \A d \in Nat : a + b + d <= MaxFrame /\ d >= 1
              => /\ a + b + 1 \in Index
                 /\ a + (b + 1) + (d - 1) <= MaxFrame
         /\ a + b \in Nat /\ a <= a + b /\ a + (b + 1) = a + b + 1 /\ a + b + 1 # 0
         /\ (a + b + 1) - 1 = a + b
         /\ \A i \in 1 .. a : i \in 1 .. a + b
         /\ \A j \in 1 .. b : a + j \in 1 .. a + b
         /\ \A j \in 1 .. b + 1 : j \in 1 .. b \/ j = b + 1
  BY Bounds DEF Index

(* Where a writer is in the log.                                           *)
LEMMA AtFrame ==
  ASSUME Inv, NEW c \in Conn, con[c].at = "frame"
  PROVE  /\ con[c].goal = "write" /\ con[c].tid \in 1 .. MaxTxn /\ con[c].job \in SUBSET Page
         /\ con[c].job # {} /\ con[c].log \in Seq(Page) /\ Len(con[c].log) \in Nat
         /\ con[c].hdr.mx \in Nat /\ con[c].hdr.mx + Len(con[c].log) + 1 \in Index
         /\ shm.h0.mx \in Nat /\ shm.h0.mx <= con[c].hdr.mx
         /\ con[c].hdr.gen \in Salt \cup {0} /\ con[c].hdr.sum \in 0 .. MaxTxn
         /\ con[c].com \in BOOLEAN
<1>0. /\ InPlace(con[c]) /\ Locked(con[c]) /\ con[c] \in State /\ shm \in ShmType
      /\ JobOK(con[c]) /\ WriterOK(con[c], shm, committed)
  BY ConnNow
<1>1. con[c].goal = "write" /\ con[c].tid # 0
  BY <1>0 DEF InPlace, Locked, AtWrite
<1>2. /\ con[c].tid \in 0 .. MaxTxn /\ con[c].hdr \in Hdr /\ con[c].hdr.mx \in 0 .. MaxFrame
      /\ con[c].hdr.gen \in Salt \cup {0} /\ shm.h0.mx \in 0 .. MaxFrame
  BY <1>0, StateTypes, ShmTypes
<1>3. con[c].hdr.sum \in 0 .. MaxTxn
  BY <1>2 DEF Hdr
<1>4. con[c].job \in SUBSET Page /\ con[c].log \in Seq(Page) /\ con[c].com \in BOOLEAN
  BY <1>0, Zenon DEF State
<1>5. con[c].job # {} /\ con[c].hdr.mx + Len(con[c].log) + Cardinality(con[c].job) <= MaxFrame
  BY <1>0, <1>1 DEF JobOK
<1>6. Cardinality(con[c].job) \in Nat /\ Cardinality(con[c].job) >= 1
  BY <1>4, <1>5, FirstPage, Zenon
<1>7. Len(con[c].log) \in Nat
  BY <1>4
<1>8. con[c].hdr.mx + Len(con[c].log) + 1 \in Index
  <2>1. PICK a \in Nat, b \in Nat, d \in Nat :
          a = con[c].hdr.mx /\ b = Len(con[c].log) /\ d = Cardinality(con[c].job)
    BY <1>2, <1>6, <1>7, Bounds
  <2>2. a + b + d <= MaxFrame /\ d >= 1
    BY <1>5, <1>6, <2>1
  <2>3. a + b + 1 \in Index
    BY <2>1, <2>2, LogEnd, Zenon
  <2> QED
    BY <2>1, <2>3
<1>9. shm.h0.mx <= con[c].hdr.mx
  BY <1>0, <1>1 DEF WriterOK
<1> QED
  BY <1>1, <1>2, <1>3, <1>4, <1>5, <1>7, <1>8, <1>9, Bounds

(* walWriteOneFrame continues the chain of the log.                        *)
LEMMA WriteFrameStep ==
  ASSUME Inv, NEW c \in Conn, WriteFrame(c)
  PROVE  Inv'
<1>0. /\ InPlace(con[c]) /\ con[c] \in State /\ con[c].at = "frame"
      /\ JobOK(con[c]) /\ WriterOK(con[c], shm, committed) /\ WrittenOK(con[c], shm, wal)
      /\ shm \in ShmType /\ wal \in LogType /\ FileTypes
  BY ConnNow DEF WriteFrame
<1>1. /\ con[c].goal = "write" /\ con[c].tid \in 1 .. MaxTxn /\ con[c].tid # 0
      /\ con[c].job \in SUBSET Page
      /\ con[c].job # {} /\ con[c].log \in Seq(Page) /\ Len(con[c].log) \in Nat
      /\ con[c].hdr.mx \in Nat /\ con[c].hdr.mx + Len(con[c].log) + 1 \in Index
      /\ shm.h0.mx \in Nat /\ shm.h0.mx <= con[c].hdr.mx
      /\ con[c].hdr.gen \in Salt \cup {0} /\ con[c].hdr.sum \in 0 .. MaxTxn
      /\ con[c].com \in BOOLEAN
  BY <1>0, AtFrame
<1>2. PICK k \in Index : k = con[c].hdr.mx + Len(con[c].log) + 1
  BY <1>1
<1>3. PICK p \in Page : p = Min(con[c].job)
  BY <1>1, FirstPage, Zenon
<1>4. PICK last \in BOOLEAN : last <=> con[c].job = {p}
  BY Zenon
<1>5. PICK f : f = [pg |-> p, tid |-> con[c].tid, com |-> con[c].com /\ last,
                    gen |-> con[c].hdr.gen, prev |-> con[c].hdr.sum]
  BY Zenon
<1>6. /\ f \in Frame /\ f # NoFrame /\ f.pg = p /\ f.tid = con[c].tid
      /\ f.gen = con[c].hdr.gen /\ f.prev = con[c].hdr.sum /\ (f.com <=> con[c].com /\ last)
  <2>1. f \in Frame
    BY <1>1, <1>5 DEF Frame
  <2> QED
    BY <1>5, <2>1, MarkAssumption, Zenon
<1>7. PICK J \in SUBSET Page : J = con[c].job \ {p}
  BY <1>1, Zenon
<1>8. PICK L \in Seq(Page) : L = Append(con[c].log, p)
  BY <1>1, <1>3, Appended, Zenon
<1>9. PICK h : h = [con[c].hdr EXCEPT !.sum = con[c].tid]
  BY Zenon
<1>10. /\ h \in Hdr /\ h.mx = con[c].hdr.mx /\ h.gen = con[c].hdr.gen
       /\ h.init = con[c].hdr.init /\ h.sum = con[c].tid
  <2>1. PICK g \in Hdr : g = con[c].hdr
    BY <1>0, StateTypes
  <2>2. PICK t \in 0 .. MaxTxn : t = con[c].tid
    BY <1>1
  <2>3. h = [g EXCEPT !.sum = t]
    BY <1>9, <2>1, <2>2
  <2>4. h \in Hdr
    BY <2>3 DEF Hdr
  <2>5. h.mx = g.mx /\ h.gen = g.gen /\ h.init = g.init /\ h.sum = t
    BY <2>3 DEF Hdr
  <2> QED
    BY <2>1, <2>2, <2>4, <2>5
<1>11. PICK at \in AtAny : at = IF last THEN "index" ELSE "frame"
  BY DEF AtAny, AtWrite
<1>12. PICK n : n = [con[c] EXCEPT !.job = J, !.log = L, !.hdr = h, !.at = at]
  OBVIOUS
<1>13. con' = [con EXCEPT ![c] = n]
  <2>1. con' = [con EXCEPT ![c] = [con[c] EXCEPT
                !.job = con[c].job \ {p}, !.log = Append(con[c].log, p), !.hdr.sum = con[c].tid,
                !.at = IF con[c].job = {p} THEN "index" ELSE "frame"]]
    BY <1>0, <1>3 DEF WriteFrame, State
  <2>2. n = [con[c] EXCEPT
                !.job = con[c].job \ {p}, !.log = Append(con[c].log, p), !.hdr.sum = con[c].tid,
                !.at = IF con[c].job = {p} THEN "index" ELSE "frame"]
    BY <1>0, <1>4, <1>7, <1>8, <1>9, <1>11, <1>12, Zenon DEF State, Hdr
  <2> QED
    BY <2>1, <2>2
<1>14. n \in State
  <2>1. con[c] \in State /\ h \in Hdr
    BY <1>0, <1>10
  <2> QED
    BY <1>12, <2>1, Zenon DEF State
<1>15. /\ n.hdr = h /\ n.at = at /\ n.goal = con[c].goal /\ n.mode = con[c].mode
       /\ n.rl = con[c].rl /\ n.ex = con[c].ex /\ n.cache = con[c].cache /\ n.mi = con[c].mi
       /\ n.tid = con[c].tid /\ n.job = J /\ n.log = L
  BY <1>0, <1>12, <1>14 DEF State
<1>16. n.wl = con[c].wl /\ n.cl = con[c].cl /\ n.chg = con[c].chg /\ n.com = con[c].com
  BY <1>0, <1>12, <1>14 DEF State
<1>17. wal' = WithFrame(wal, k, f)
  BY <1>2, <1>3, <1>4, <1>5 DEF WriteFrame, WithFrame
<1>18. /\ wal' \in LogType /\ wal'.head = wal.head /\ wal'.frame[k] = f
       /\ \A i \in Index \ {k} : wal'.frame[i] = wal.frame[i]
  BY <1>0, <1>2, <1>6, <1>17, FrameSet
<1>19. FileTypes' /\ UNCHANGED <<db, shm, committed, ntxn>>
  <2>1. UNCHANGED <<db, dbOld, headOld, cutOld, shm, committed, ntxn>>
    BY DEF WriteFrame
  <2>2. walOld' = [walOld EXCEPT ![k] = walOld[k] \cup {wal.frame[k], NoFrame}]
    BY <1>0, <1>2 DEF WriteFrame, FileTypes
  <2>3. walOld' \in [Index -> SUBSET (Frame \cup {NoFrame})]
    BY <1>0, <2>2 DEF FileTypes, LogType
  <2> QED
    BY <1>0, <1>18, <2>1, <2>3 DEF FileTypes
<1>32. PICK x \in Nat, l \in Nat : x = con[c].hdr.mx /\ l = Len(con[c].log) /\ k = x + l + 1
  BY <1>1, <1>2, Zenon
<1>20. \A i \in 1 .. k - 1 : i \in Index \ {k}
  BY <1>1, <1>2, Bounds DEF Index
<1>21. \A i \in 1 .. k - 1 : wal'.frame[i] = wal.frame[i]
  BY <1>18, <1>20
<1>22. at \in {"index", "frame"} /\ (at = "index" <=> last) /\ (J = {} <=> last)
  BY <1>1, <1>3, <1>4, <1>7, <1>11, FirstPage
<1>23. /\ Len(L) = Len(con[c].log) + 1 /\ L # <<>>
       /\ \A j \in 1 .. Len(con[c].log) : L[j] = con[c].log[j]
       /\ L[Len(con[c].log) + 1] = p
       /\ Entries(L) = Entries(con[c].log) \cup {p}
  <2>1. /\ Len(L) = Len(con[c].log) + 1
        /\ \A j \in 1 .. Len(con[c].log) : L[j] = con[c].log[j]
        /\ L[Len(con[c].log) + 1] = p
        /\ Entries(L) = Entries(con[c].log) \cup {p}
    BY <1>1, <1>3, <1>8, Appended
  <2>2. Len(<<>>) = 0 /\ Len(L) # 0
    BY <1>1, <2>1
  <2> QED
    BY <2>1, <2>2
<1>24. JobOK(n)
  <2>1. Cardinality(J) = Cardinality(con[c].job) - 1 /\ Cardinality(con[c].job) \in Nat
    BY <1>1, <1>3, <1>7, FirstPage, Zenon
  <2>2. con[c].hdr.mx + Len(con[c].log) + Cardinality(con[c].job) <= MaxFrame
    BY <1>0, <1>1 DEF JobOK
  <2>3. n.hdr.mx + Len(n.log) + Cardinality(n.job) <= MaxFrame
    <3>1. PICK d \in Nat : d = Cardinality(con[c].job) /\ Cardinality(J) = d - 1
      BY <2>1
    <3>2. n.hdr.mx = x /\ Len(n.log) = l + 1 /\ Cardinality(n.job) = d - 1
      BY <1>10, <1>15, <1>23, <1>32, <3>1
    <3>3. x + l + d <= MaxFrame
      BY <1>32, <2>2, <3>1
    <3>5. d >= 1
      BY <1>1, <3>1, FirstPage, Zenon
    <3>4. x + (l + 1) + (d - 1) <= MaxFrame
      BY <1>32, <3>1, <3>3, <3>5, LogEnd, Zenon
    <3> QED
      BY <3>2, <3>4
  <2> QED
    BY <1>1, <1>15, <1>22, <1>23, <2>3 DEF JobOK
<1>25. WriterOK(n, shm, committed)
  <2>1. Changed(n, shm) = Changed(con[c], shm)
    <3>1. J \cup {p} = con[c].job
      <4>1. p \in con[c].job
        BY <1>1, <1>3, FirstPage, Zenon
      <4> QED
        BY <1>7, <4>1
    <3>2. J \cup Entries(L) = con[c].job \cup Entries(con[c].log)
      BY <1>23, <3>1
    <3> QED
      BY <1>10, <1>15, <3>2, ChangedIs, Zenon
  <2>2. n.at \notin AtLock \cup {"restart", "header", "hdrsync", "write", "reset2"} \cup AtReset
    BY <1>15, <1>22 DEF AtLock, AtReset
  <2>3. con[c].at # "reset2" /\ con[c].at \notin AtReset
    BY <1>0 DEF AtReset
  <2> QED
    BY <1>0, <1>1, <1>10, <1>15, <2>1, <2>2, <2>3 DEF WriterOK
<1>26. WrittenOK(n, shm, wal')
  <2>1. /\ Chained(con[c].hdr.gen, con[c].hdr.mx, wal) /\ Indexed(con[c].hdr.mx, shm, wal)
        /\ \A i \in shm.h0.mx + 1 .. con[c].hdr.mx : wal.frame[i].tid = con[c].tid
        /\ wal.head # NoHead /\ wal.head.gen = con[c].hdr.gen
        /\ Chained(con[c].hdr.gen, con[c].hdr.mx + Len(con[c].log), wal)
        /\ \A j \in 1 .. Len(con[c].log) :
             /\ wal.frame[con[c].hdr.mx + j].pg = con[c].log[j]
             /\ wal.frame[con[c].hdr.mx + j].tid = con[c].tid
        /\ con[c].hdr.sum = IF con[c].hdr.mx + Len(con[c].log) = 0 THEN 0
                            ELSE wal.frame[con[c].hdr.mx + Len(con[c].log)].tid
    BY <1>0 DEF WrittenOK
  <2>2. PICK m \in Nat : m = x + l /\ m = con[c].hdr.mx + Len(con[c].log)
    BY <1>32, LogEnd
  <2>3. k = m + 1 /\ k - 1 = m
    BY <1>32, <2>2, LogEnd
  <2>15. x \in Nat /\ l \in Nat /\ m = x + l /\ k = m + 1
    BY <1>32, <2>2, <2>3
  <2>4. \A i \in 1 .. con[c].hdr.mx : wal'.frame[i] = wal.frame[i]
    <3>1. \A i \in 1 .. x : i \in 1 .. m
      BY <2>15
    <3>2. \A i \in 1 .. x : i \in 1 .. k - 1
      BY <2>3, <3>1
    <3> QED
      BY <1>21, <1>32, <3>2
  <2>5. Chained(n.hdr.gen, n.hdr.mx, wal')
    BY <1>1, <1>10, <1>15, <1>18, <2>1, <2>4, ChainedSame
  <2>6. Indexed(n.hdr.mx, shm, wal')
    BY <1>10, <1>15, <2>1, <2>4 DEF Indexed
  <2>7. \A i \in shm.h0.mx + 1 .. n.hdr.mx : wal'.frame[i].tid = n.tid
    <3>1. \A i \in shm.h0.mx + 1 .. con[c].hdr.mx : i \in 1 .. con[c].hdr.mx
      BY <1>1
    <3>2. \A i \in shm.h0.mx + 1 .. con[c].hdr.mx : wal'.frame[i].tid = con[c].tid
      BY <2>1, <2>4, <3>1
    <3> QED
      BY <1>10, <1>15, <3>2
  <2>8. Chained(n.hdr.gen, m + 1, wal')
    <3>1. f.prev = IF m = 0 THEN 0 ELSE wal.frame[m].tid
      BY <1>6, <2>1, <2>2
    <3>2. m # 0 => wal'.frame[m] = wal.frame[m]
      BY <1>21, <2>3
    <3>3. \A i \in 1 .. m : wal'.frame[i] = wal.frame[i]
      BY <1>21, <2>3
    <3>4. Chained(n.hdr.gen, m, wal) /\ wal'.head.gen = n.hdr.gen /\ wal'.head # NoHead
      BY <1>10, <1>15, <1>18, <2>1, <2>2
    <3>5. wal'.frame[m + 1] = f
      BY <1>18, <2>3
    <3> QED
      BY <1>6, <1>10, <1>15, <1>18, <3>1, <3>2, <3>3, <3>4, <3>5, ChainedMore
  <2>9. n.hdr.mx + Len(n.log) = m + 1 /\ m + 1 # 0
    <3>1. n.hdr.mx = x /\ Len(n.log) = l + 1
      BY <1>10, <1>15, <1>23, <1>32
    <3>2. x + (l + 1) = m + 1 /\ m + 1 # 0
      BY <2>15
    <3> QED
      BY <3>1, <3>2
  <2>10. ASSUME NEW j \in 1 .. Len(n.log)
         PROVE  wal'.frame[n.hdr.mx + j].pg = n.log[j] /\ wal'.frame[n.hdr.mx + j].tid = n.tid
    <3>1. CASE j = Len(con[c].log) + 1
      <4>1. n.hdr.mx + j = k
        <5>1. n.hdr.mx = x /\ j = l + 1
          BY <1>10, <1>15, <1>32, <3>1
        <5>2. x + (l + 1) = k
          BY <2>15
        <5> QED
          BY <5>1, <5>2
      <4> QED
        BY <1>6, <1>15, <1>18, <1>23, <3>1, <4>1
    <3>2. CASE j # Len(con[c].log) + 1
      <4>1. j \in 1 .. Len(con[c].log) /\ n.hdr.mx + j = con[c].hdr.mx + j
        BY <1>1, <1>10, <1>15, <1>23, <3>2
      <4>2. con[c].hdr.mx + j \in 1 .. k - 1
        <5>1. j \in 1 .. l
          BY <1>32, <4>1
        <5>2. x + j \in 1 .. k - 1
          BY <2>15, <5>1
        <5> QED
          BY <1>32, <5>2
      <4> QED
        BY <1>15, <1>21, <1>23, <2>1, <4>1, <4>2
    <3> QED
      BY <3>1, <3>2
  <2>11. n.hdr.sum = wal'.frame[m + 1].tid
    BY <1>6, <1>10, <1>15, <1>18, <2>3
  <2>12. n.at = "index" /\ n.com => wal'.frame[m + 1].com
    BY <1>6, <1>15, <1>16, <1>18, <1>22, <2>3
  <2>13. n.at \notin {"hdrsync", "write", "publish"}
    BY <1>15, <1>22
  <2>14. wal'.head # NoHead /\ wal'.head.gen = n.hdr.gen
    BY <1>10, <1>15, <1>18, <2>1
  <2> QED
    BY <2>5, <2>6, <2>7, <2>8, <2>9, <2>10, <2>11, <2>12, <2>13, <2>14 DEF WrittenOK
<1>27. /\ con[c].at \in AtWrite \ {"write", "restart"} /\ n.at \in AtWrite \ {"restart"}
       /\ n.goal = IF n.at \in {"write", "publish"} THEN "none" ELSE "write"
  BY <1>0, <1>1, <1>15, <1>22 DEF AtWrite
<1>28. /\ shm' \in ShmType /\ shm'.h0 = shm.h0 /\ shm'.backfill = shm.backfill
       /\ shm'.mark = shm.mark /\ shm'.h1 = shm.h1
       /\ db' = db /\ committed' = committed /\ ntxn' = ntxn /\ FileTypes'
  BY <1>0, <1>19
<1>29. \A i \in 1 .. shm.h0.mx : i \in 1 .. k - 1
  BY <1>1, <1>2
<1>30. \A i \in 1 .. shm.h0.mx : shm'.pg[i] = shm.pg[i] /\ wal'.frame[i] = wal.frame[i]
  BY <1>19, <1>21, <1>29
<1>31. WriterOK(n, shm', committed) /\ WrittenOK(n, shm', wal') /\ n.hdr.gen = con[c].hdr.gen
  BY <1>10, <1>15, <1>19, <1>25, <1>26
<1> QED
  BY <1>13, <1>14, <1>15, <1>16, <1>18, <1>24, <1>27, <1>28, <1>30, <1>31, WriterMoves, Zenon

(* A frame that cannot be written.                                         *)
LEMMA IoFrameStep ==
  ASSUME Inv, NEW c \in Conn, IoError(c), con[c].at = "frame"
  PROVE  Inv'
<1>0. /\ InPlace(con[c]) /\ Locked(con[c]) /\ con[c] \in State
      /\ JobOK(con[c]) /\ WriterOK(con[c], shm, committed) /\ WrittenOK(con[c], shm, wal)
      /\ shm \in ShmType /\ wal \in LogType /\ FileTypes
  BY ConnNow
<1>1. /\ con[c].goal = "write" /\ con[c].tid \in 1 .. MaxTxn /\ con[c].tid # 0
      /\ Len(con[c].log) \in Nat
      /\ con[c].hdr.mx \in Nat /\ con[c].hdr.mx + Len(con[c].log) + 1 \in Index
      /\ shm.h0.mx \in Nat /\ shm.h0.mx <= con[c].hdr.mx
  BY AtFrame
<1>2. PICK k \in Index : k = con[c].hdr.mx + Len(con[c].log) + 1
  BY <1>1
<1>3. wal' = WithFrame(wal, k, NoFrame)
  BY <1>2 DEF IoError, WithFrame
<1>4. /\ wal' \in LogType /\ wal'.head = wal.head
      /\ \A i \in Index \ {k} : wal'.frame[i] = wal.frame[i]
  BY <1>0, <1>2, <1>3, FrameSet
<1>5. \A i \in 1 .. con[c].hdr.mx : i \in Index \ {k}
  <2>1. PICK x \in Nat, l \in Nat : x = con[c].hdr.mx /\ l = Len(con[c].log) /\ k = x + l + 1
    BY <1>1, <1>2, Zenon
  <2>2. x \in Nat /\ l \in Nat /\ k = x + l + 1 /\ k \in 1 .. MaxFrame
    BY <1>2, <2>1 DEF Index
  <2>3. \A i \in 1 .. x : i \in 1 .. MaxFrame /\ i # k
    BY <2>2, Bounds
  <2> QED
    BY <2>1, <2>3 DEF Index
<1>6. \A i \in 1 .. con[c].hdr.mx : wal'.frame[i] = wal.frame[i]
  BY <1>4, <1>5
<1>7. FileTypes' /\ UNCHANGED <<db, shm, committed, ntxn>>
  <2>1. UNCHANGED <<db, dbOld, headOld, cutOld, shm, committed, ntxn>>
    BY DEF IoError
  <2>2. walOld' = [walOld EXCEPT ![k] = walOld[k] \cup {wal.frame[k]}]
    BY <1>0, <1>2 DEF IoError, FileTypes
  <2>3. walOld' \in [Index -> SUBSET (Frame \cup {NoFrame})]
    BY <1>0, <1>2, <2>2 DEF FileTypes, LogType
  <2> QED
    BY <1>0, <1>4, <2>1, <2>3 DEF FileTypes
<1>8. PICK n : /\ con' = [con EXCEPT ![c] = n]
               /\ n = IF con[c].com THEN [con[c] EXCEPT !.at = "failed"]
                      ELSE [Idle(con[c]) EXCEPT !.cache = NoImage]
  BY <1>1, Zenon DEF IoError
<1>9. /\ con[c].at \in AtWrite \ {"write", "restart"} /\ con[c].wl /\ con[c].at \notin AtReset
      /\ con[c].at # "closed"
  BY <1>0, <1>1 DEF Locked, AtWrite, AtReset
<1>10. /\ shm' \in ShmType /\ shm'.h0 = shm.h0 /\ shm'.backfill = shm.backfill
       /\ shm'.mark = shm.mark /\ shm'.h1 = shm.h1
       /\ db' = db /\ committed' = committed /\ ntxn' = ntxn /\ FileTypes'
  BY <1>0, <1>7
<1>11. \A i \in 1 .. shm.h0.mx : i \in 1 .. con[c].hdr.mx
  BY <1>1
<1>12. \A i \in 1 .. shm.h0.mx : shm'.pg[i] = shm.pg[i] /\ wal'.frame[i] = wal.frame[i]
  BY <1>6, <1>7, <1>11
<1>13. CASE con[c].com
  <2>1. n = [con[c] EXCEPT !.at = "failed"]
    BY <1>8, <1>13
  <2>2. n \in State
    <3>1. "failed" \in AtAny
      BY DEF AtAny, AtWrite
    <3> QED
      BY <1>0, <2>1, <3>1 DEF State
  <2>3. /\ n.hdr = con[c].hdr /\ n.at = "failed" /\ n.goal = con[c].goal /\ n.mode = con[c].mode
        /\ n.rl = con[c].rl /\ n.ex = con[c].ex /\ n.cache = con[c].cache /\ n.mi = con[c].mi
        /\ n.tid = con[c].tid /\ n.job = con[c].job /\ n.log = con[c].log
    BY <1>0, <2>1, <2>2 DEF State
  <2>4. n.wl = con[c].wl /\ n.cl = con[c].cl /\ n.chg = con[c].chg
    BY <1>0, <2>1, <2>2 DEF State
  <2>5. JobOK(n)
    BY <1>0, <1>1, <2>3 DEF JobOK
  <2>6. WriterOK(n, shm, committed)
    <3>1. Changed(n, shm) = Changed(con[c], shm)
      BY <2>3 DEF Changed
    <3>2. n.at \notin AtLock \cup {"restart", "header", "hdrsync", "write", "reset2"} \cup AtReset
      BY <2>3 DEF AtLock, AtReset
    <3>3. con[c].at # "reset2" /\ con[c].at \notin AtReset
      BY <1>9 DEF AtReset
    <3> QED
      BY <1>0, <1>1, <2>3, <3>1, <3>2, <3>3 DEF WriterOK
  <2>7. WrittenOK(n, shm, wal')
    <3>1. /\ Chained(con[c].hdr.gen, con[c].hdr.mx, wal) /\ Indexed(con[c].hdr.mx, shm, wal)
          /\ \A i \in shm.h0.mx + 1 .. con[c].hdr.mx : wal.frame[i].tid = con[c].tid
      BY <1>0 DEF WrittenOK
    <3>2. Chained(con[c].hdr.gen, con[c].hdr.mx, wal')
      BY <1>1, <1>4, <1>6, <3>1, ChainedSame
    <3>3. Indexed(con[c].hdr.mx, shm, wal')
      BY <1>6, <3>1 DEF Indexed
    <3>4. \A i \in shm.h0.mx + 1 .. con[c].hdr.mx : i \in 1 .. con[c].hdr.mx
      BY <1>1
    <3>5. \A i \in shm.h0.mx + 1 .. con[c].hdr.mx : wal'.frame[i].tid = con[c].tid
      BY <1>6, <3>1, <3>4
    <3> QED
      BY <2>3, <3>2, <3>3, <3>5 DEF WrittenOK
  <2>8. /\ n.at \in AtWrite \ {"restart"}
        /\ n.goal = IF n.at \in {"write", "publish"} THEN "none" ELSE "write"
    BY <1>1, <2>3 DEF AtWrite
  <2>9. WriterOK(n, shm', committed) /\ WrittenOK(n, shm', wal') /\ n.hdr.gen = con[c].hdr.gen
    BY <1>7, <2>3, <2>6, <2>7
  <2> QED
    BY <1>4, <1>8, <1>9, <1>10, <1>12, <2>2, <2>3, <2>4, <2>5, <2>8, <2>9, WriterMoves, Zenon
<1>14. CASE ~con[c].com
  <2>1. PICK j \in State : j = Idle(con[c])
    BY <1>0, IdleState
  <2>2. n = [j EXCEPT !.cache = NoImage]
    BY <1>8, <1>14, <2>1
  <2>3. n \in State
    BY <2>1, <2>2 DEF State
  <2>4. /\ n.at = j.at /\ n.goal = j.goal /\ n.rl = j.rl /\ n.ex = j.ex /\ n.cache = NoImage
        /\ n.tid = j.tid /\ n.job = j.job /\ n.log = j.log /\ n.hdr = j.hdr
    BY <2>1, <2>2, <2>3 DEF State
  <2>5. n.wl = j.wl /\ n.cl = j.cl /\ n.chg = j.chg
    BY <2>1, <2>2, <2>3 DEF State
  <2>6. /\ n.at = "idle" /\ n.goal = "none" /\ n.rl = -1 /\ ~n.wl /\ ~n.cl /\ n.ex = {} /\ ~n.chg
        /\ n.tid = 0 /\ n.job = {} /\ n.log = <<>> /\ n.hdr = con[c].hdr
    BY <1>0, <2>1, <2>4, <2>5, IdleState
  <2>7. Simple(n)
    <3>1. InPlace(n)
      BY <2>6 DEF InPlace, AtHdr, AtLock, AtReset, AtWrite, AtCkpt, Checkpointing
    <3>2. Locked(n)
      BY <2>6 DEF Locked, AtReset, AtWrite, AtCkpt, Checkpointing, InRecovery
    <3> QED
      BY <2>6, <3>1, <3>2 DEF Simple
  <2>8. ~Describes(n)
    BY <2>4 DEF Describes
  <2>9. HdrKnown(n, shm', committed)
    BY <2>4, <2>6, <2>8 DEF HdrKnown
  <2>10. ConnOK(n, shm', wal', db, committed)
    BY <2>3, <2>7, <2>9, SimpleOK
  <2>11. NoMore(n, con[c])
    BY <1>9, <2>6 DEF NoMore, InRecovery
  <2>12. ASSUME NEW d \in Conn \ {c} PROVE PairOK(n, con[d], shm) /\ PairOK(con[d], n, shm)
    <3>1. /\ PairOK(con[c], con[d], shm) /\ PairOK(con[d], con[c], shm) /\ con[d] \in State
          /\ ConnOK(con[d], shm, wal, db, committed)
      BY ConnNow DEF Inv
    <3>2. Apart(n, con[d]) /\ Apart(con[d], n)
      BY <1>0, <2>3, <2>11, <3>1, StaysApart DEF PairOK
    <3>3. ~con[d].wl
      BY <1>9, <3>1 DEF PairOK, Apart
    <3>4. con[d].tid = 0 /\ con[d].at # "reset2"
      BY <3>1, <3>3, WriterAlone DEF AtReset
    <3>5. Behind(n, con[d], shm) /\ Behind(con[d], n, shm)
      BY <2>6 DEF Behind
    <3>6. Fresh(n, con[d], shm) /\ Fresh(con[d], n, shm)
      BY <2>6, <3>4 DEF Fresh
    <3> QED
      BY <3>2, <3>5, <3>6 DEF PairOK
  <2>13. Half(n, shm', wal')
    BY <2>8 DEF Half
  <2>14. ASSUME NEW d \in Conn \ {c}, Half(con[d], shm, wal) PROVE Half(con[d], shm', wal')
    BY <1>4, <1>10, <2>14 DEF Half
  <2>15. shm.h0.init /\ n.at \notin AtReset
    BY <1>0, <1>1, <2>6 DEF WriterOK, AtReset
  <2>16. shm.h0.mx > 0 => wal'.head = wal.head
    BY <1>4
  <2> QED
    BY <1>8, <1>9, <1>10, <1>12, <2>3, <2>10, <2>12, <2>13, <2>14, <2>15, <2>16, WriterStep, Zenon
<1> QED
  BY <1>13, <1>14

(* The frames of a writer enter the wal-index.                             *)
IndexedTo(s, m, L) ==
  [i \in Index |-> IF i <= m THEN s.pg[i] ELSE IF i <= m + Len(L) THEN L[i - m] ELSE 0]

(* Pages entered behind frame m leave the first m as they are.             *)
LEMMA EnterIndex ==
  ASSUME NEW s \in ShmType, NEW m \in Nat, NEW L \in Seq(Page), m + Len(L) <= MaxFrame
  PROVE  /\ IndexedTo(s, m, L) \in [Index -> 0 .. NPage]
         /\ \A i \in 1 .. m : IndexedTo(s, m, L)[i] = s.pg[i]
         /\ \A j \in 1 .. Len(L) : IndexedTo(s, m, L)[m + j] = L[j]
<1>0. PICK l \in Nat, e \in Nat : l = Len(L) /\ e = m + l /\ e <= MaxFrame /\ e = m + Len(L)
  OBVIOUS
<1>1. \A i \in Index : i > m /\ i <= e => i - m \in 1 .. l
  BY <1>0, Bounds DEF Index
<1>2. \A i \in Index : i > m /\ i <= e => L[i - m] \in Page
  BY <1>0, <1>1
<1>3. s.pg \in [Index -> 0 .. NPage] /\ \A p \in Page : p \in 0 .. NPage
  BY ShmTypes, Bounds DEF Page
<1>4. 0 \in 0 .. NPage /\ \A i \in Index : i \in Int
  BY Bounds DEF Index
<1>5. ASSUME NEW i \in Index
      PROVE  (IF i <= m THEN s.pg[i] ELSE IF i <= e THEN L[i - m] ELSE 0) \in 0 .. NPage
  <2>1. CASE i <= m
    BY <1>3, <2>1
  <2>2. CASE ~(i <= m) /\ i <= e
    <3>1. i > m
      BY <1>4, <2>2
    <3> QED
      BY <1>2, <1>3, <2>2, <3>1
  <2>3. CASE ~(i <= m) /\ ~(i <= e)
    BY <1>4, <2>3
  <2> QED
    BY <2>1, <2>2, <2>3
<1>6. IndexedTo(s, m, L) \in [Index -> 0 .. NPage]
  BY <1>0, <1>5 DEF IndexedTo
<1>7. \A i \in 1 .. m : i \in Index /\ i <= m
  BY <1>0, Bounds DEF Index
<1>8. \A i \in 1 .. m : IndexedTo(s, m, L)[i] = s.pg[i]
  BY <1>7 DEF IndexedTo
<1>9. \A j \in 1 .. l : m + j \in Index /\ ~(m + j <= m) /\ m + j <= e /\ (m + j) - m = j
  BY <1>0, Bounds DEF Index
<1>10. \A j \in 1 .. l : IndexedTo(s, m, L)[m + j] = L[j]
  BY <1>0, <1>9 DEF IndexedTo
<1> QED
  BY <1>0, <1>6, <1>8, <1>10, Zenon

(* They are found where they were entered.                                 *)
LEMMA EnterPages ==
  ASSUME NEW s \in ShmType, NEW m \in Nat, NEW L \in Seq(Page), m + Len(L) <= MaxFrame,
         NEW n \in 1 .. m + 1
  PROVE  Between(IndexedTo(s, m, L), n, m + Len(L)) = Entries(L) \cup Between(s.pg, n, m)
<1>0. PICK l \in Nat, e \in Nat : l = Len(L) /\ e = m + l /\ e = m + Len(L)
  OBVIOUS
<1> DEFINE P == IndexedTo(s, m, L)
<1>1. \A i \in 1 .. m : P[i] = s.pg[i]
  BY EnterIndex
<1>2. \A j \in 1 .. l : P[m + j] = L[j]
  BY <1>0, EnterIndex
<1> HIDE DEF P
<1>3. ASSUME NEW i \in n .. e
      PROVE  P[i] \in Entries(L) \cup {s.pg[x] : x \in n .. m}
  <2>1. CASE i \in n .. m
    <3>1. i \in 1 .. m
      BY <2>1
    <3> QED
      BY <1>1, <2>1, <3>1
  <2>2. CASE i \notin n .. m
    <3>1. PICK j \in 1 .. l : i = m + j
      <4>1. i - m \in 1 .. l /\ i = m + (i - m)
        BY <1>0, <2>2
      <4> QED
        BY <4>1
    <3> QED
      BY <1>0, <1>2, <3>1 DEF Entries
  <2> QED
    BY <2>1, <2>2
<1>4. ASSUME NEW j \in 1 .. l PROVE L[j] \in {P[i] : i \in n .. e}
  <2>1. m + j \in n .. e
    BY <1>0
  <2> QED
    BY <1>2, <2>1, Zenon
<1>5. ASSUME NEW i \in n .. m PROVE s.pg[i] \in {P[x] : x \in n .. e}
  <2>1. i \in 1 .. m /\ i \in n .. e
    BY <1>0
  <2> QED
    BY <1>1, <2>1
<1>6. {P[i] : i \in n .. e} = Entries(L) \cup {s.pg[i] : i \in n .. m}
  <2>1. Entries(L) = {L[j] : j \in 1 .. l}
    BY <1>0 DEF Entries
  <2> QED
    BY <1>3, <1>4, <1>5, <2>1, Zenon
<1> QED
  BY <1>0, <1>6, Zenon DEF P, Between

(* walIndexAppend: the frames of the writer become its header.             *)
LEMMA AppendIndexStep ==
  ASSUME Inv, NEW c \in Conn, AppendIndex(c)
  PROVE  Inv'
<1>0. /\ InPlace(con[c]) /\ Locked(con[c]) /\ con[c] \in State /\ con[c].at = "index"
      /\ JobOK(con[c]) /\ WriterOK(con[c], shm, committed) /\ WrittenOK(con[c], shm, wal)
      /\ shm \in ShmType /\ wal \in LogType /\ FileTypes
  BY ConnNow DEF AppendIndex
<1>1. /\ con[c].goal = "write" /\ con[c].tid # 0 /\ con[c].at \in AtWrite \ {"write", "restart"}
      /\ con[c].at \notin AtReset /\ con[c].rl >= 1
  BY <1>0 DEF InPlace, Locked, AtWrite, AtReset
<1>2. /\ shm.h0.init /\ con[c].hdr.init /\ shm.h0.mx <= con[c].hdr.mx
      /\ con[c].job = {} /\ con[c].log # <<>>
  BY <1>0, <1>1 DEF WriterOK, JobOK
<1>3. /\ con[c].hdr \in Hdr /\ con[c].hdr.mx \in Nat /\ shm.h0.mx \in Nat
      /\ con[c].log \in Seq(Page) /\ con[c].com \in BOOLEAN
  <2>1. con[c].hdr \in Hdr /\ con[c].hdr.mx \in 0 .. MaxFrame /\ shm.h0.mx \in 0 .. MaxFrame
    BY <1>0, StateTypes, ShmTypes
  <2>2. con[c].log \in Seq(Page) /\ con[c].com \in BOOLEAN
    BY <1>0, Zenon DEF State
  <2> QED
    BY <2>1, <2>2, Bounds
<1>4. PICK m \in Nat, l \in Nat : m = con[c].hdr.mx /\ l = Len(con[c].log) /\ l >= 1
  BY <1>2, <1>3
<1>5. PICK e \in Nat : e = m + l
  BY <1>4
<1>6. e <= MaxFrame /\ e = con[c].hdr.mx + Len(con[c].log)
  <2>1. con[c].hdr.mx + Len(con[c].log) + Cardinality(con[c].job) <= MaxFrame
    BY <1>0, <1>1 DEF JobOK
  <2>2. Cardinality(con[c].job) = 0
    BY <1>2, FS_EmptySet
  <2>3. m + l + 0 <= MaxFrame
    BY <1>4, <2>1, <2>2
  <2>4. m \in Nat /\ l \in Nat /\ e = m + l
    BY <1>4, <1>5
  <2>5. e <= MaxFrame
    BY <2>3, <2>4, Bounds
  <2> QED
    BY <1>4, <1>5, <2>5
<1>7. PICK h : h = [con[c].hdr EXCEPT !.mx = e, !.init = TRUE]
  OBVIOUS
<1>8. /\ h \in Hdr /\ h.mx = e /\ h.gen = con[c].hdr.gen /\ h.sum = con[c].hdr.sum /\ h.init
      /\ h = [con[c].hdr EXCEPT !.mx = con[c].hdr.mx + Len(con[c].log),
                                !.init = con[c].hdr.init \/ con[c].com]
  <2>1. e \in 0 .. MaxFrame
    BY <1>5, <1>6, Bounds
  <2>2. (con[c].hdr.init \/ con[c].com) = TRUE
    BY <1>2
  <2> QED
    BY <1>3, <1>6, <1>7, <2>1, <2>2, Zenon DEF Hdr
<1>9. PICK at \in AtAny : at = IF con[c].com THEN "publish" ELSE "write"
  BY DEF AtAny, AtWrite
<1>10. PICK n : n = [con[c] EXCEPT !.hdr = h, !.goal = "none", !.log = <<>>, !.com = FALSE,
                                   !.at = at]
  OBVIOUS
<1>11. con' = [con EXCEPT ![c] = n]
  BY <1>0, <1>8, <1>9, <1>10 DEF AppendIndex, State, Hdr
<1>12. n \in State
  <2>1. con[c] \in State /\ h \in Hdr /\ <<>> \in Seq(Page)
    BY <1>0, <1>8
  <2> QED
    BY <1>10, <2>1, Zenon DEF State
<1>13. /\ n.hdr = h /\ n.at = at /\ n.goal = "none" /\ n.mode = con[c].mode
       /\ n.rl = con[c].rl /\ n.ex = con[c].ex /\ n.cache = con[c].cache /\ n.mi = con[c].mi
       /\ n.tid = con[c].tid /\ n.job = con[c].job /\ n.log = <<>>
  BY <1>0, <1>10, <1>12 DEF State
<1>14. n.wl = con[c].wl /\ n.cl = con[c].cl /\ n.chg = con[c].chg
  BY <1>0, <1>10, <1>12 DEF State
<1>15. PICK P \in [Index -> 0 .. NPage] : P = IndexedTo(shm, m, con[c].log)
  BY <1>0, <1>3, <1>4, <1>5, <1>6, EnterIndex
<1>16. PICK H \in Hdr : H = IF con[c].com THEN h ELSE shm.h1
  BY <1>0, <1>8, ShmTypes
<1>17. shm' = [shm EXCEPT !.pg = P, !.h1 = H]
  <2>1. P = [i \in Index |-> IF i <= con[c].hdr.mx THEN shm.pg[i]
                             ELSE IF i <= con[c].hdr.mx + Len(con[c].log)
                                  THEN con[c].log[i - con[c].hdr.mx] ELSE 0]
    BY <1>4, <1>6, <1>15 DEF IndexedTo
  <2>2. H = IF con[c].com THEN [con[c].hdr EXCEPT !.mx = con[c].hdr.mx + Len(con[c].log),
                                                  !.init = con[c].hdr.init \/ con[c].com]
            ELSE shm.h1
    BY <1>8, <1>16
  <2>3. shm' = [shm EXCEPT
          !.pg = [i \in Index |-> IF i <= con[c].hdr.mx THEN shm.pg[i]
                                  ELSE IF i <= con[c].hdr.mx + Len(con[c].log)
                                       THEN con[c].log[i - con[c].hdr.mx] ELSE 0],
          !.h1 = IF con[c].com THEN [con[c].hdr EXCEPT !.mx = con[c].hdr.mx + Len(con[c].log),
                                                  !.init = con[c].hdr.init \/ con[c].com]
                 ELSE shm.h1]
    BY <1>0 DEF AppendIndex, ShmType
  <2> QED
    BY <2>1, <2>2, <2>3
<1>18. /\ shm' \in ShmType /\ shm'.h0 = shm.h0 /\ shm'.backfill = shm.backfill
       /\ shm'.mark = shm.mark /\ shm'.h1 = H /\ shm'.pg = P
  BY <1>0, <1>15, <1>16, <1>17, Zenon DEF ShmType
<1>19. wal' = wal /\ db' = db /\ committed' = committed /\ ntxn' = ntxn /\ FileTypes'
  <2>1. wal' = wal /\ db' = db /\ dbOld' = dbOld /\ committed' = committed /\ ntxn' = ntxn
    BY DEF AppendIndex
  <2>2. SyncWal \/ UNCHANGED <<walOld, headOld, cutOld>>
    BY DEF AppendIndex
  <2>3. CASE SyncWal
    BY <2>1, <2>3, Synced
  <2>4. CASE UNCHANGED <<walOld, headOld, cutOld>>
    BY <1>0, <2>1, <2>4 DEF FileTypes
  <2> QED
    BY <2>1, <2>2, <2>3, <2>4
<1>20. /\ \A i \in 1 .. m : P[i] = shm.pg[i]
       /\ \A j \in 1 .. l : P[m + j] = con[c].log[j]
       /\ \A i \in 1 .. e : i \in 1 .. m \/ (i - m \in 1 .. l /\ m + (i - m) = i)
  <2>1. PICK L \in Seq(Page) : L = con[c].log
    BY <1>3
  <2>2. /\ shm \in ShmType /\ m \in Nat /\ l \in Nat /\ l = Len(L) /\ e \in Nat
        /\ e = m + l /\ e <= MaxFrame
    BY <1>0, <1>4, <1>5, <1>6, <2>1
  <2>3. /\ \A i \in 1 .. m : IndexedTo(shm, m, L)[i] = shm.pg[i]
        /\ \A j \in 1 .. l : IndexedTo(shm, m, L)[m + j] = L[j]
    BY <2>2, EnterIndex
  <2>4. \A i \in 1 .. e : i \in 1 .. m \/ (i - m \in 1 .. l /\ m + (i - m) = i)
    <3>1. m \in Nat /\ l \in Nat /\ e \in Nat /\ e = m + l
      BY <1>4, <1>5
    <3> QED
      BY <3>1
  <2> QED
    BY <1>15, <2>1, <2>3, <2>4
<1>21. at \in {"publish", "write"} /\ (at = "publish" <=> con[c].com)
  BY <1>9
<1>22. shm.h0.mx <= m /\ m < e /\ shm.h0.mx < e /\ e # 0
  <2>1. shm.h0.mx <= m
    BY <1>2, <1>4
  <2>2. m < e /\ e # 0
    <3>1. m \in Nat /\ l \in Nat /\ e \in Nat /\ e = m + l /\ l >= 1
      BY <1>4, <1>5
    <3> QED
      BY <3>1
  <2> QED
    BY <1>3, <1>4, <1>5, <2>1, <2>2
<1>23. JobOK(n)
  BY <1>2, <1>13, <1>21 DEF JobOK
<1>24. WriterOK(n, shm', committed)
  <2>1. Changed(n, shm') = Changed(con[c], shm)
    <3>1. Between(P, shm.h0.mx + 1, e)
            = Entries(con[c].log) \cup Between(shm.pg, shm.h0.mx + 1, m)
      <4>1. shm.h0.mx + 1 \in 1 .. m + 1
        BY <1>3, <1>4, <1>22
      <4>2. PICK L \in Seq(Page) : L = con[c].log
        BY <1>3
      <4>3. /\ shm \in ShmType /\ m \in Nat /\ l \in Nat /\ l = Len(L) /\ e \in Nat
            /\ e = m + l /\ e <= MaxFrame /\ m + Len(L) <= MaxFrame /\ m + Len(L) = e
        BY <1>0, <1>4, <1>5, <1>6, <4>2
      <4>4. Between(IndexedTo(shm, m, L), shm.h0.mx + 1, m + Len(L))
              = Entries(L) \cup Between(shm.pg, shm.h0.mx + 1, m)
        BY <4>1, <4>3, EnterPages
      <4> QED
        BY <1>15, <4>2, <4>3, <4>4
    <3>2. Entries(<<>>) = {}
      <4>1. Len(<<>>) = 0 /\ 1 .. 0 = {}
        OBVIOUS
      <4> QED
        BY <4>1 DEF Entries
    <3>3. Changed(n, shm') = n.job \cup Entries(n.log)
                             \cup Between(shm'.pg, shm'.h0.mx + 1, n.hdr.mx)
      BY ChangedIs
    <3>4. Changed(n, shm') = {} \cup {} \cup Between(P, shm.h0.mx + 1, e)
      BY <1>2, <1>8, <1>13, <1>18, <3>2, <3>3
    <3>5. Changed(con[c], shm) = {} \cup Entries(con[c].log)
                                 \cup Between(shm.pg, shm.h0.mx + 1, m)
      BY <1>2, <1>4, ChangedIs
    <3> QED
      BY <3>1, <3>4, <3>5
  <2>2. n.at \notin AtLock \cup {"restart", "header", "hdrsync", "reset2"} \cup AtReset
    BY <1>13, <1>21 DEF AtLock, AtReset
  <2>3. ~(n.rl = 0 \/ n.hdr.mx = shm'.h0.mx) /\ shm'.h0.mx <= n.hdr.mx
    <3>1. n.rl # 0
      BY <1>1, <1>13
    <3>2. n.hdr.mx = e /\ shm'.h0.mx = shm.h0.mx
      BY <1>8, <1>13, <1>18
    <3> QED
      BY <1>3, <1>5, <1>22, <3>1, <3>2
  <2>4. con[c].at # "reset2"
    BY <1>0
  <2> QED
    BY <1>0, <1>1, <1>2, <1>8, <1>13, <1>18, <2>1, <2>2, <2>3, <2>4 DEF WriterOK
<1>25. WrittenOK(n, shm', wal)
  <2>1. /\ Chained(con[c].hdr.gen, e, wal) /\ Indexed(m, shm, wal)
        /\ \A i \in shm.h0.mx + 1 .. m : wal.frame[i].tid = con[c].tid
        /\ \A j \in 1 .. l : wal.frame[m + j].pg = con[c].log[j] /\ wal.frame[m + j].tid = con[c].tid
        /\ con[c].hdr.sum = wal.frame[e].tid
        /\ con[c].com => wal.frame[e].com
    BY <1>0, <1>4, <1>6, <1>22 DEF WrittenOK
  <2>2. Chained(n.hdr.gen, n.hdr.mx, wal)
    BY <1>8, <1>13, <2>1
  <2>3. Indexed(n.hdr.mx, shm', wal)
    <3>1. ASSUME NEW i \in 1 .. e PROVE P[i] = wal.frame[i].pg
      <4>1. CASE i \in 1 .. m
        BY <1>20, <2>1, <4>1 DEF Indexed
      <4>2. CASE i \notin 1 .. m
        <5>1. PICK j \in 1 .. l : i = m + j
          BY <1>20, <4>2
        <5> QED
          BY <1>20, <2>1, <5>1
      <4> QED
        BY <4>1, <4>2
    <3> QED
      BY <1>8, <1>13, <1>18, <3>1 DEF Indexed
  <2>4. ASSUME NEW i \in shm.h0.mx + 1 .. e PROVE wal.frame[i].tid = con[c].tid
    <3>1. CASE i \in shm.h0.mx + 1 .. m
      BY <2>1, <3>1
    <3>2. CASE i \notin shm.h0.mx + 1 .. m
      <4>1. i \in 1 .. e /\ i \notin 1 .. m
        BY <1>3, <1>4, <1>5, <3>2
      <4>2. PICK j \in 1 .. l : i = m + j
        BY <1>20, <4>1
      <4> QED
        BY <2>1, <4>2
    <3> QED
      BY <3>1, <3>2
  <2>5. n.hdr.mx = e /\ shm'.h0.mx = shm.h0.mx /\ n.hdr.sum = con[c].hdr.sum
    BY <1>8, <1>13, <1>18
  <2>6. n.at = "publish" => shm'.h1 = n.hdr /\ wal.frame[n.hdr.mx].com
    BY <1>13, <1>16, <1>18, <1>21, <2>1, <2>5
  <2>7. n.hdr.mx > shm'.h0.mx
    BY <1>3, <1>5, <1>22, <2>5
  <2>8. n.at \in {"publish", "write"}
    BY <1>13, <1>21
  <2> QED
    BY <1>13, <2>1, <2>2, <2>3, <2>4, <2>5, <2>6, <2>7, <2>8 DEF WrittenOK
<1>26. /\ n.at \in AtWrite \ {"restart"}
       /\ n.goal = IF n.at \in {"write", "publish"} THEN "none" ELSE "write"
  BY <1>13, <1>21 DEF AtWrite
<1>27. \A i \in 1 .. shm.h0.mx : i \in 1 .. m
  BY <1>3, <1>4, <1>22
<1>28. \A i \in 1 .. shm.h0.mx : shm'.pg[i] = shm.pg[i] /\ wal'.frame[i] = wal.frame[i]
  BY <1>18, <1>19, <1>20, <1>27
<1>29. n.hdr.gen = con[c].hdr.gen /\ wal'.head.gen = n.hdr.gen /\ wal'.head = wal.head
  BY <1>0, <1>8, <1>13, <1>19 DEF WrittenOK
<1>30. WrittenOK(n, shm', wal')
  BY <1>19, <1>25
<1> QED
  BY <1>1, <1>11, <1>12, <1>13, <1>14, <1>18, <1>19, <1>23, <1>24, <1>26, <1>28, <1>29, <1>30,
     WriterMoves, Zenon

-----------------------------------------------------------------------------
(* A writer rolls back.                                                    *)
Undone(r) == [r EXCEPT !.hdr = shm.h0]

RolledBack(r) ==
  [Undone(r) EXCEPT !.at = "read", !.goal = "none", !.wl = FALSE, !.tid = 0,
                    !.job = {}, !.log = <<>>, !.com = FALSE, !.cache = committed]

(* The connection after sqlite3WalUndo.                                    *)
LEMMA RolledBackState ==
  ASSUME Types, NEW r \in State
  PROVE  /\ Undone(r) \in State /\ Undone(r).hdr = shm.h0 /\ Undone(r).rl = r.rl
         /\ Undone(r).mi = r.mi /\ Undone(r).cache = r.cache
         /\ RolledBack(r) \in State
         /\ RolledBack(r).at = "read" /\ RolledBack(r).goal = "none" /\ ~RolledBack(r).wl
         /\ RolledBack(r).tid = 0 /\ RolledBack(r).job = {} /\ RolledBack(r).log = <<>>
         /\ RolledBack(r).cache = committed /\ RolledBack(r).hdr = shm.h0
         /\ RolledBack(r).rl = r.rl /\ RolledBack(r).ex = r.ex /\ RolledBack(r).mi = r.mi
         /\ RolledBack(r).mode = r.mode /\ RolledBack(r).cl = r.cl /\ RolledBack(r).chg = r.chg
<1>1. PICK h \in Hdr : h = shm.h0
  BY ShmTypes DEF Types
<1>2. PICK u : u = Undone(r) /\ u = [r EXCEPT !.hdr = h]
  BY <1>1, Zenon DEF Undone
<1>3. u \in State
  BY <1>2 DEF State
<1>4. /\ u.hdr = h /\ u.rl = r.rl /\ u.mi = r.mi /\ u.cache = r.cache /\ u.ex = r.ex
      /\ u.mode = r.mode
  BY <1>2, <1>3 DEF State
<1>5. u.cl = r.cl /\ u.chg = r.chg
  BY <1>2, <1>3 DEF State
<1>6. PICK m \in Image : m = committed
  BY DEF Types
<1>7. PICK n : n = RolledBack(r) /\
               n = [u EXCEPT !.at = "read", !.goal = "none", !.wl = FALSE, !.tid = 0,
                             !.job = {}, !.log = <<>>, !.com = FALSE, !.cache = m]
  BY <1>2, <1>6 DEF RolledBack
<1>8. n \in State
  <2>1. "read" \in AtAny /\ 0 \in 0 .. MaxTxn /\ <<>> \in Seq(Page) /\ {} \in SUBSET Page
    BY Nothing DEF AtAny
  <2>2. m \in Image \cup {NoImage}
    BY <1>6
  <2>3. PICK at \in AtAny, t \in 0 .. MaxTxn, L \in Seq(Page), J \in SUBSET Page :
          at = "read" /\ t = 0 /\ L = <<>> /\ J = {}
    BY <2>1, Zenon
  <2>7. PICK q : q = [u EXCEPT !.at = at, !.goal = "none", !.tid = t]
    OBVIOUS
  <2>8. q \in State
    BY <1>3, <2>7, Zenon DEF State
  <2>4. PICK v : v = [u EXCEPT !.at = at, !.goal = "none", !.wl = FALSE, !.tid = t]
    OBVIOUS
  <2>9. v = [q EXCEPT !.wl = FALSE]
    BY <1>3, <2>4, <2>7, <2>8 DEF State
  <2>5. v \in State
    BY <2>8, <2>9, Zenon DEF State
  <2>6. n = [v EXCEPT !.job = J, !.log = L, !.com = FALSE, !.cache = m]
    BY <1>3, <1>7, <2>3, <2>4, <2>5 DEF State
  <2> QED
    BY <2>2, <2>3, <2>5, <2>6 DEF State
<1>9. /\ n.at = "read" /\ n.goal = "none" /\ n.tid = 0 /\ n.job = {} /\ n.log = <<>>
      /\ n.cache = m /\ n.hdr = u.hdr /\ n.rl = u.rl /\ n.ex = u.ex /\ n.mi = u.mi
      /\ n.mode = u.mode
  BY <1>3, <1>7, <1>8 DEF State
<1>10. ~n.wl /\ n.cl = u.cl /\ n.chg = u.chg
  BY <1>3, <1>7, <1>8 DEF State
<1> QED
  BY <1>1, <1>2, <1>3, <1>4, <1>5, <1>6, <1>7, <1>8, <1>9, <1>10

(* sqlite3WalUndo: the frames behind the last commit are nobody's.         *)
LEMMA RollbackStep ==
  ASSUME Inv, NEW c \in Conn, Rollback(c)
  PROVE  Inv'
<1>0. /\ InPlace(con[c]) /\ Locked(con[c]) /\ con[c] \in State /\ con[c].at \in {"write", "failed"}
      /\ JobOK(con[c]) /\ WriterOK(con[c], shm, committed) /\ SnapshotOK(con[c], shm, wal, db)
      /\ shm \in ShmType /\ wal \in LogType /\ db \in Image /\ committed \in Image /\ Types
  BY ConnNow DEF Rollback, Inv
<1>1. /\ con[c].tid # 0 /\ con[c].wl /\ con[c].at \notin AtReset /\ con[c].at # "closed"
      /\ con[c].rl # -1 /\ con[c].ex = {} /\ ~con[c].cl /\ ~con[c].chg
  BY <1>0 DEF InPlace, Locked, AtWrite, AtReset, InRecovery, Checkpointing
<1>2. shm.h0.init /\ IndexOK(shm, wal, db, committed)
  BY <1>0, <1>1, IndexNow DEF WriterOK
<1>3. UNCHANGED <<files, committed>> /\ ntxn' = ntxn
  BY DEF Rollback, history
<1>4. /\ con[c].rl >= 1 => con[c].mi \in 1 .. shm.backfill + 1
      /\ con[c].rl = 0 => shm.backfill >= shm.h0.mx
  <2>1. con[c].rl >= 1 => con[c].mi \in 1 .. shm.backfill + 1
    BY <1>0 DEF SnapshotOK
  <2>2. ASSUME con[c].rl = 0 PROVE shm.backfill >= shm.h0.mx
    <3>1. con[c].at = "write"
      BY <1>0, <2>2 DEF Locked, AtWrite
    <3>2. con[c].hdr = shm.h0
      BY <1>0, <1>1, <2>2, <3>1 DEF WriterOK
    <3>3. shm.backfill = shm.h0.mx
      BY <1>0, <1>1, <2>2, <3>2 DEF SnapshotOK
    <3> QED
      BY <1>0, <3>3, ShmTypes, Bounds
  <2> QED
    BY <2>1, <2>2
<1>5. con[c].rl >= 1 \/ con[c].rl = 0
  BY <1>0, <1>1, StateTypes, Bounds
<1>6. Visible(Undone(con[c])) = committed
  <2>1. Seen(Undone(con[c]), shm, wal, db) = committed
    <3>1. PICK u \in State : /\ u = Undone(con[c]) /\ u.hdr = shm.h0 /\ u.rl = con[c].rl
                             /\ u.mi = con[c].mi
      BY <1>0, RolledBackState
    <3> QED
      BY <1>0, <1>2, <1>4, <1>5, <3>1, SeenAll
  <2> QED
    BY <2>1, VisibleIs
<1>7. PICK n \in State : n = RolledBack(con[c])
  BY <1>0, RolledBackState
<1>8. con' = [con EXCEPT ![c] = n]
  <2>1. con' = [con EXCEPT ![c] = [Undone(con[c]) EXCEPT
              !.at = "read", !.goal = "none", !.wl = FALSE, !.tid = 0,
              !.job = {}, !.log = <<>>, !.com = FALSE,
              !.cache = [p \in Page |-> IF Undone(con[c]).cache[p] = con[c].tid
                                        THEN Visible(Undone(con[c]))[p]
                                        ELSE Undone(con[c]).cache[p]]]]
    BY <1>0 DEF Rollback, Undone, State
  <2>2. [p \in Page |-> IF Undone(con[c]).cache[p] = con[c].tid
                        THEN Visible(Undone(con[c]))[p] ELSE Undone(con[c]).cache[p]] = committed
    <3>1. \A p \in Page : con[c].cache[p] = IF p \in Changed(con[c], shm) THEN con[c].tid
                                            ELSE committed[p]
      BY <1>0, <1>1 DEF WriterOK
    <3>2. \A p \in Page : (IF Undone(con[c]).cache[p] = con[c].tid
                           THEN Visible(Undone(con[c]))[p]
                           ELSE Undone(con[c]).cache[p]) = committed[p]
      <4>1. Undone(con[c]).cache = con[c].cache
        BY <1>0, RolledBackState
      <4> QED
        BY <1>6, <3>1, <4>1
    <3>3. committed = [p \in Page |-> committed[p]]
      BY <1>0 DEF Image
    <3> QED
      BY <3>2, <3>3
  <2> QED
    BY <1>7, <2>1, <2>2, Zenon DEF RolledBack
<1>9. /\ n.at = "read" /\ n.goal = "none" /\ ~n.wl
      /\ n.tid = 0 /\ n.job = {} /\ n.log = <<>> /\ n.cache = committed /\ n.hdr = shm.h0
      /\ n.rl = con[c].rl /\ n.ex = con[c].ex /\ n.mi = con[c].mi
      /\ n.mode = con[c].mode /\ n.cl = con[c].cl /\ n.chg = con[c].chg
  BY <1>0, <1>7, RolledBackState
<1>10. PICK P \in [Index -> 0 .. NPage] :
         /\ shm' = [shm EXCEPT !.pg = P]
         /\ \A i \in 1 .. shm.h0.mx : P[i] = shm.pg[i]
  <2>1. \A i \in 1 .. shm.h0.mx : i \in Index /\ i <= shm.h0.mx
    BY <1>0, ShmTypes, Bounds DEF Index
  <2>2. shm.pg \in [Index -> 0 .. NPage] /\ 0 \in 0 .. NPage
    BY <1>0, ShmTypes, Bounds
  <2>3. PICK P : P = [i \in Index |-> IF i <= shm.h0.mx THEN shm.pg[i] ELSE 0]
    BY Zenon
  <2>4. P \in [Index -> 0 .. NPage]
    BY <2>2, <2>3
  <2>5. \A i \in 1 .. shm.h0.mx : P[i] = shm.pg[i]
    BY <2>1, <2>3
  <2>6. shm' = shm \/ shm' = [shm EXCEPT !.pg = P]
    BY <1>0, <2>3 DEF Rollback, ShmType
  <2>7. shm = [shm EXCEPT !.pg = shm.pg]
    BY <1>0 DEF ShmType
  <2> QED
    BY <2>2, <2>4, <2>5, <2>6, <2>7
<1>11. /\ shm' \in ShmType /\ shm'.h0 = shm.h0 /\ shm'.backfill = shm.backfill
       /\ shm'.mark = shm.mark /\ shm'.h1 = shm.h1 /\ shm'.pg = P
  BY <1>0, <1>10 DEF ShmType
<1>12. wal' = wal /\ db' = db /\ committed' = committed /\ FileTypes'
  BY <1>0, <1>3 DEF files, Types, FileTypes
<1>13. \A i \in 1 .. shm.h0.mx : shm'.pg[i] = shm.pg[i] /\ wal'.frame[i] = wal.frame[i]
  BY <1>10, <1>11, <1>12
<1>14. IndexOK(shm', wal', db, committed)
  BY <1>0, <1>2, <1>11, <1>12, <1>13, IndexBeyond
<1>15. n.cache = Seen(n, shm', wal', db)
  BY <1>0, <1>2, <1>4, <1>5, <1>9, <1>11, <1>12, <1>14, SeenAll
<1>16. ConnOK(n, shm', wal', db, committed)
  <2>1. InPlace(n)
    BY <1>9 DEF InPlace, AtHdr, AtLock, AtReset, AtWrite, AtCkpt, Checkpointing
  <2>2. Locked(n)
    BY <1>1, <1>9 DEF Locked, AtReset, AtWrite, AtCkpt, Checkpointing, InRecovery
  <2>3. JobOK(n)
    BY <1>9 DEF JobOK
  <2>4. RecoveryOK(n, shm', wal') /\ ResetOK(n, shm', committed) /\ WriterOK(n, shm', committed)
        /\ WrittenOK(n, shm', wal') /\ CheckpointOK(n, shm', wal', db)
    <3>1. RecoveryOK(n, shm', wal')
      BY <1>9 DEF RecoveryOK, InRecovery
    <3>2. ResetOK(n, shm', committed)
      BY <1>9 DEF ResetOK, AtReset
    <3>3. WriterOK(n, shm', committed)
      BY <1>9 DEF WriterOK
    <3>4. WrittenOK(n, shm', wal')
      BY <1>9 DEF WrittenOK
    <3>5. CheckpointOK(n, shm', wal', db)
      BY <1>9 DEF CheckpointOK, AtCkpt
    <3> QED
      BY <3>1, <3>2, <3>3, <3>4, <3>5
  <2>5. HdrKnown(n, shm', committed)
    BY <1>0, <1>2, <1>9, <1>11, ShmTypes, Bounds DEF HdrKnown
  <2>6. SnapshotOK(n, shm', wal', db)
    <3>1. n.cache # NoImage /\ n.hdr.init /\ n.hdr.mx <= shm'.h0.mx
      BY <1>0, <1>2, <1>9, <1>11, MarkAssumption, ShmTypes, Bounds
    <3>2. n.rl >= 1 => n.mi \in 1 .. shm'.backfill + 1 /\ shm'.mark[n.rl] <= End(n, shm')
      BY <1>0, <1>1, <1>4, <1>9, <1>11 DEF SnapshotOK, End
    <3>3. n.rl = 0 => shm'.backfill = shm'.h0.mx
      <4>1. shm.backfill <= shm.h0.mx
        <5>1. \A d \in Conn : con[d].at # "reset3"
          <6>1. \A d \in Conn \ {c} : ConnOK(con[d], shm, wal, db, committed) /\ con[d] \in State
            BY ConnNow DEF Inv
          <6>2. \A d \in Conn \ {c} : ~con[d].wl
            BY <1>1, ConnNow DEF PairOK, Apart
          <6> QED
            BY <1>1, <6>1, <6>2, WriterAlone DEF AtReset
        <5> QED
          BY <5>1 DEF Inv, ShmOK
      <4> QED
        BY <1>0, <1>4, <1>9, <1>11, <4>1, ShmTypes, Bounds
    <3> QED
      BY <1>9, <1>15, <3>1, <3>2, <3>3 DEF SnapshotOK
  <2> QED
    BY <2>1, <2>2, <2>3, <2>4, <2>5, <2>6 DEF ConnOK
<1>17. NoMore(n, con[c])
  BY <1>1, <1>9 DEF NoMore, InRecovery
<1>18. ASSUME NEW d \in Conn \ {c} PROVE PairOK(n, con[d], shm) /\ PairOK(con[d], n, shm)
  <2>1. /\ PairOK(con[c], con[d], shm) /\ PairOK(con[d], con[c], shm) /\ con[d] \in State
        /\ ConnOK(con[d], shm, wal, db, committed)
    BY ConnNow DEF Inv
  <2>2. Apart(n, con[d]) /\ Apart(con[d], n)
    BY <1>0, <1>17, <2>1, StaysApart DEF PairOK
  <2>3. ~con[d].wl
    BY <1>1, <2>1 DEF PairOK, Apart
  <2>4. con[d].tid = 0 /\ con[d].at # "reset2"
    BY <2>1, <2>3, WriterAlone DEF AtReset
  <2>5. Behind(n, con[d], shm)
    BY <1>1, <1>9, <2>1 DEF PairOK, Behind, End
  <2>6. Behind(con[d], n, shm)
    BY <1>9 DEF Behind
  <2>7. Fresh(n, con[d], shm) /\ Fresh(con[d], n, shm)
    BY <1>9, <2>4 DEF Fresh
  <2> QED
    BY <2>2, <2>5, <2>6, <2>7 DEF PairOK
<1>19. Half(n, shm', wal')
  BY <1>9, <1>11 DEF Half
<1>20. ASSUME NEW d \in Conn \ {c}, Half(con[d], shm, wal) PROVE Half(con[d], shm', wal')
  BY <1>11, <1>12, <1>20 DEF Half
<1>21. n.at \notin AtReset /\ (shm.h0.mx > 0 => wal'.head = wal.head)
  BY <1>9, <1>12 DEF AtReset
<1> QED
  BY <1>1, <1>2, <1>3, <1>8, <1>11, <1>12, <1>13, <1>16, <1>18, <1>19, <1>20, <1>21, WriterStep, Zenon

-----------------------------------------------------------------------------
(* A reset of the log.  The second copy of the header matters to those who *)
(* write.                                                                  *)
LEMMA SecondCopy ==
  ASSUME NEW r \in State, NEW s, NEW t, NEW w, NEW b, NEW im, ConnOK(r, s, w, b, im), ~r.wl,
         t.h0 = s.h0, t.backfill = s.backfill, t.mark = s.mark, t.pg = s.pg
  PROVE  ConnOK(r, t, w, b, im)
<1>1. /\ r.tid = 0 /\ r.goal # "write" /\ ~InRecovery(r) /\ r.at # "locked"
      /\ r.at \notin AtReset \cup AtWrite /\ r.at # "cut"
  BY WriterAlone
<1>2. RecoveryOK(r, t, w) /\ r.at # "recover2" /\ r.at # "recover3"
  BY <1>1 DEF RecoveryOK, InRecovery
<1>3. HdrKnown(r, t, im)
  BY DEF HdrKnown, ConnOK
<1>4. SnapshotOK(r, t, w, b)
  BY DEF SnapshotOK, Seen, End, ConnOK
<1>5. ResetOK(r, t, im) /\ WriterOK(r, t, im) /\ WrittenOK(r, t, w)
  BY <1>1 DEF ResetOK, WriterOK, WrittenOK, AtReset, AtWrite
<1>6. CheckpointOK(r, t, w, b)
  BY DEF CheckpointOK, IsLast, ConnOK
<1> QED
  BY <1>2, <1>3, <1>4, <1>5, <1>6 DEF ConnOK

(* The header of an empty log.                                             *)
LEMMA ResetHdrIs ==
  ASSUME Inv, NEW c \in Conn, Unused # {}, con[c].wl
  PROVE  /\ ResetHdr(c) \in Hdr /\ ResetHdr(c).mx = 0 /\ ResetHdr(c).init
         /\ ResetHdr(c).gen \notin {0, shm.h0.gen}
         /\ \A d \in Conn : con[d].hdr.gen # ResetHdr(c).gen
<1>1. con[c].hdr \in Hdr
  BY ConnNow, StateTypes
<1>2. PICK g \in Salt \cup {0} : g = NewGen
  BY NewGenIs
<1>3. PICK h : h = ResetHdr(c) /\ h = [con[c].hdr EXCEPT !.mx = 0, !.gen = g, !.init = TRUE]
  BY <1>2 DEF ResetHdr
<1>4. h \in Hdr /\ h.mx = 0 /\ h.init /\ h.gen = g
  BY <1>1, <1>2, <1>3, Nothing, Zenon DEF Hdr
<1> QED
  BY <1>2, <1>3, <1>4, NewGenIs

(* walRestartHdr writes the first copy of a header that nobody has.        *)
LEMMA ResetStep ==
  ASSUME Inv, NEW c \in Conn, Reset(c), UNCHANGED <<files, committed>>, ntxn' = ntxn,
         con[c].at \in {"restart", "done"}, con[c].wl, con[c].hdr = shm.h0, shm.h0.init,
         shm.backfill = shm.h0.mx, con[c].goal \in {"write", "ckpt"},
         con[c].goal = "ckpt" => con[c].mode = "truncate",
         AllFree(c, Slots),
         \A d \in Conn \ {c} : con[d].cl => con[d].at \in {"hdr", "badhdr", "locked"}
  PROVE  Inv'
<1>0. /\ InPlace(con[c]) /\ Locked(con[c]) /\ con[c] \in State /\ JobOK(con[c])
      /\ HdrKnown(con[c], shm, committed) /\ WriterOK(con[c], shm, committed)
      /\ shm \in ShmType /\ FileTypes /\ committed \in Image /\ ntxn \in 0 .. MaxTxn
  BY ConnNow
<1>1. /\ (con[c].goal = "write" <=> con[c].tid # 0) /\ (con[c].goal = "write" <=> con[c].rl = 0)
      /\ (con[c].goal = "ckpt" <=> con[c].rl = -1)
      /\ (con[c].cl <=> con[c].goal = "ckpt") /\ ~InRecovery(con[c]) /\ con[c].log = <<>>
      /\ (con[c].at = "restart" <=> con[c].goal = "write") /\ con[c].at # "closed"
      /\ (con[c].goal = "ckpt" => con[c].job = {})
      /\ (con[c].goal = "write" => con[c].job # {} /\ Cardinality(con[c].job) <= MaxFrame)
      /\ con[c].ex = {} /\ (con[c].chg => con[c].goal = "ckpt")
  BY <1>0 DEF InPlace, Locked, JobOK, AtWrite, AtReset, AtCkpt, InRecovery, Checkpointing
<1>2. PICK h \in Hdr : h = ResetHdr(c)
  BY ResetHdrIs DEF Reset
<1>3. /\ h.mx = 0 /\ h.init /\ h.gen \notin {0, shm.h0.gen}
      /\ \A d \in Conn : con[d].hdr.gen # h.gen
  BY <1>2, ResetHdrIs DEF Reset
<1>4. PICK X \in SUBSET (0 .. NReader - 1) : X = Slots
  BY Bounds DEF Slots
<1>5. PICK n : n = [con[c] EXCEPT !.at = "reset2", !.hdr = h, !.nck = TRUE, !.ex = X]
  OBVIOUS
<1>6. con' = [con EXCEPT ![c] = n] /\ shm' = [shm EXCEPT !.h1 = h]
  BY <1>2, <1>4, <1>5 DEF Reset
<1>7. n \in State
  <2>1. "reset2" \in AtAny
    BY DEF AtAny, AtReset
  <2> QED
    BY <1>0, <1>2, <1>4, <1>5, <2>1, Zenon DEF State
<1>8. /\ n.hdr = h /\ n.at = "reset2" /\ n.goal = con[c].goal /\ n.mode = con[c].mode
      /\ n.rl = con[c].rl /\ n.ex = Slots /\ n.cache = con[c].cache
      /\ n.tid = con[c].tid /\ n.job = con[c].job /\ n.log = con[c].log
  BY <1>0, <1>4, <1>5, <1>7 DEF State
<1>9. n.wl = con[c].wl /\ n.cl = con[c].cl /\ n.chg = con[c].chg
  BY <1>0, <1>5, <1>7 DEF State
<1>10. /\ shm' \in ShmType /\ shm'.h0 = shm.h0 /\ shm'.backfill = shm.backfill
       /\ shm'.mark = shm.mark /\ shm'.h1 = h /\ shm'.pg = shm.pg
  BY <1>0, <1>2, <1>6 DEF ShmType
<1>11. wal' = wal /\ db' = db /\ committed' = committed /\ FileTypes'
  BY <1>0 DEF files, FileTypes
<1>12. ConnOK(n, shm', wal, db, committed)
  <2>1. InPlace(n)
    BY <1>8 DEF InPlace, AtHdr, AtLock, AtReset, AtWrite, AtCkpt, Checkpointing
  <2>2. Locked(n)
    BY <1>1, <1>8, <1>9 DEF Locked, AtReset, AtWrite, AtCkpt, Checkpointing, InRecovery
  <2>3. JobOK(n)
    <3>1. Len(<<>>) = 0
      OBVIOUS
    <3>2. n.goal = "write" => n.hdr.mx + Len(n.log) + Cardinality(n.job) <= MaxFrame
      <4>1. ASSUME n.goal = "write" PROVE n.hdr.mx + Len(n.log) + Cardinality(n.job) <= MaxFrame
        <5>1. n.hdr.mx = 0 /\ Len(n.log) = 0 /\ n.job = con[c].job
          BY <1>1, <1>3, <1>8, <3>1
        <5>2. Cardinality(con[c].job) \in Nat
          BY <1>0, <1>1, <1>8, <4>1, FirstPage, Zenon DEF State
        <5>3. 0 + 0 + Cardinality(con[c].job) <= MaxFrame
          BY <1>1, <1>8, <4>1, <5>2, Bounds
        <5> QED
          BY <5>1, <5>3
      <4> QED
        BY <4>1
    <3> QED
      BY <1>1, <1>8, <3>2 DEF JobOK
  <2>4. RecoveryOK(n, shm', wal) /\ WrittenOK(n, shm', wal) /\ CheckpointOK(n, shm', wal, db)
    <3>1. RecoveryOK(n, shm', wal)
      BY <1>8 DEF RecoveryOK, InRecovery
    <3>2. WrittenOK(n, shm', wal)
      BY <1>8 DEF WrittenOK
    <3>3. CheckpointOK(n, shm', wal, db)
      BY <1>8 DEF CheckpointOK, AtCkpt
    <3> QED
      BY <3>1, <3>2, <3>3
  <2>5. HdrKnown(n, shm', committed)
    BY <1>0, <1>3, <1>8, <1>10 DEF HdrKnown
  <2>6. SnapshotOK(n, shm', wal, db)
    <3>1. ~(n.rl >= 1)
      BY <1>1, <1>8
    <3> QED
      BY <1>8, <3>1 DEF SnapshotOK, AtReset
  <2>7. ResetOK(n, shm', committed)
    <3>1. n.tid = 0 /\ n.cache # NoImage /\ ~n.chg => Describes(con[c])
      BY <1>8, <1>9 DEF Describes
    <3>2. Describes(con[c]) => con[c].cache = committed
      BY <1>0 DEF HdrKnown
    <3> QED
      BY <1>3, <1>8, <1>10, <3>1, <3>2 DEF ResetOK
  <2>8. WriterOK(n, shm', committed)
    <3>1. Changed(n, shm') = Changed(con[c], shm)
      <4>1. shm.h0.mx \in Nat
        BY <1>0, ShmTypes, Bounds
      <4>2. shm.h0.mx + 1 .. 0 = {} /\ shm.h0.mx + 1 .. shm.h0.mx = {}
        BY <4>1
      <4> QED
        BY <1>3, <1>8, <1>10, <4>2 DEF Changed
    <3>2. n.at \notin AtLock \cup {"restart", "header", "hdrsync", "write"}
          /\ n.at \in AtReset
      BY <1>8 DEF AtLock, AtReset
    <3> QED
      BY <1>0, <1>3, <1>8, <1>10, <3>1, <3>2 DEF WriterOK
  <2> QED
    BY <2>1, <2>2, <2>3, <2>4, <2>5, <2>6, <2>7, <2>8 DEF ConnOK
<1>13. /\ con'[c] = n /\ \A d \in Conn \ {c} : con'[d] = con[d]
       /\ \A d \in Conn \ {c} : con[d] \in State /\ ConnOK(con[d], shm, wal, db, committed)
       /\ \A d, e \in Conn \ {c} : d # e => PairOK(con[d], con[e], shm)
  BY <1>6, OthersNow, Zenon
<1>14. \A d \in Conn \ {c} : ~con[d].wl
  BY ConnNow DEF PairOK, Apart
<1>15. ASSUME NEW d \in Conn \ {c} PROVE ConnOK(con[d], shm', wal', db', committed')
  <2>1. ConnOK(con[d], shm', wal, db, committed)
    BY <1>10, <1>13, <1>14, SecondCopy
  <2> QED
    BY <1>11, <2>1
<1>16. ASSUME NEW d \in Conn \ {c} PROVE PairOK(n, con[d], shm') /\ PairOK(con[d], n, shm')
  <2>1. PairOK(con[c], con[d], shm) /\ PairOK(con[d], con[c], shm) /\ con[d] \in State
    BY ConnNow
  <2>2. /\ con[d].tid = 0 /\ ~InRecovery(con[d]) /\ con[d].at # "reset2" /\ ~con[d].wl
    BY <1>13, <1>14, WriterAlone DEF AtReset
  <2>3. con[d].at \notin AtCkpt
    <3>1. con[d].at \in AtCkpt => con[d].cl
      BY <1>13 DEF ConnOK, InPlace, Locked
    <3> QED
      BY <3>1 DEF AtCkpt
  <2>4. con[d].rl \notin Slots /\ con[d].ex \cap Slots = {}
    BY DEF AllFree, LockFree, ShareFree, Others
  <2>5. /\ ~((con[c].cl \/ InRecovery(con[c])) /\ (con[d].cl \/ InRecovery(con[d])))
        /\ con[c].rl \notin con[d].ex /\ con[d].goal # "close"
    BY <1>1, <2>1 DEF PairOK, Apart
  <2>6. /\ n.cl \/ InRecovery(n) => con[c].cl
        /\ n.rl \notin con[d].ex /\ n.ex \cap con[d].ex = {} /\ con[d].ex \cap n.ex = {}
        /\ con[d].rl \notin n.ex /\ n.goal # "close"
    BY <1>8, <1>9, <2>4, <2>5 DEF InRecovery
  <2>7. Apart(n, con[d]) /\ Apart(con[d], n)
    BY <2>2, <2>5, <2>6 DEF Apart
  <2>8. Behind(n, con[d], shm') /\ Behind(con[d], n, shm')
    <3>1. ~(n.rl >= 1)
      BY <1>1, <1>8
    <3> QED
      BY <1>8, <3>1 DEF Behind
  <2>9. Fresh(n, con[d], shm') /\ Fresh(con[d], n, shm')
    BY <1>3, <1>8, <2>2, <2>3 DEF Fresh, AtReset
  <2> QED
    BY <2>7, <2>8, <2>9 DEF PairOK
<1>17. \A d, e \in Conn \ {c} : d # e => PairOK(con[d], con[e], shm')
  BY <1>10, <1>13, PairSame
<1>18. ShmOK'
  <2>1. IndexOK(shm', wal', db', committed')
    <3>1. IndexOK(shm, wal, db, committed)
      BY <1>1, IndexNow
    <3>2. IndexOK(shm', wal, db, committed)
      BY <1>10, <3>1, IndexSame
    <3> QED
      BY <1>11, <3>2
  <2>2. shm'.backfill <= shm'.h0.mx
    BY <1>0, <1>10, ShmTypes, Bounds
  <2>3. con'[c].at = "reset2"
    BY <1>8, <1>13
  <2> QED
    BY <2>1, <2>2, <2>3 DEF ShmOK
<1>19. ConnOK(n, shm', wal', db', committed')
  BY <1>11, <1>12
<1> QED
  BY <1>0, <1>6, <1>7, <1>10, <1>11, <1>15, <1>16, <1>17, <1>18, <1>19, LoudStep, Zenon

-----------------------------------------------------------------------------
(* walRestartLog, and TRUNCATE at the end of a checkpoint.                 *)
LEMMA RestartStep ==
  ASSUME Inv, ~disturbed', NEW c \in Conn, Restart(c)
  PROVE  Inv'
<1>0. /\ con[c].at = "restart" /\ InPlace(con[c]) /\ Locked(con[c]) /\ con[c] \in State
      /\ WriterOK(con[c], shm, committed)
  BY ConnNow DEF Restart
<1>1. /\ con[c].goal = "write" /\ con[c].tid # 0 /\ con[c].wl
      /\ con[c].hdr = shm.h0 /\ shm.h0.init /\ shm.backfill = shm.h0.mx
  BY <1>0 DEF InPlace, Locked, AtWrite, WriterOK
<1>2. UNCHANGED <<files, committed>> /\ ntxn' = ntxn
  BY DEF Restart
<1>3. CASE shm.backfill > 0 /\ AllFree(c, Slots)
  <2>1. Undisturbed(c) /\ Reset(c)
    BY <1>3 DEF Restart
  <2>2. \A d \in Conn \ {c} : con[d].cl => con[d].at \in {"hdr", "badhdr", "locked"}
    BY <2>1 DEF Undisturbed, Others
  <2> QED
    BY <1>0, <1>1, <1>2, <1>3, <2>1, <2>2, ResetStep
<1>4. CASE ~(shm.backfill > 0 /\ AllFree(c, Slots))
  BY <1>0, <1>2, <1>4, RestartWaitsStep DEF Restart
<1> QED
  BY <1>3, <1>4

(* With the WRITE lock held nobody else resets the log.                    *)
LEMMA CopiedNow ==
  ASSUME Inv, NEW c \in Conn, con[c].wl, con[c].at # "reset3"
  PROVE  shm.backfill <= shm.h0.mx
<1>1. ASSUME NEW d \in Conn PROVE con[d].at # "reset3"
  <2>1. CASE d = c
    BY <2>1
  <2>2. CASE d # c
    <3>1. ConnOK(con[d], shm, wal, db, committed) /\ con[d] \in State /\ Apart(con[c], con[d])
      BY <2>2, ConnNow DEF Inv, PairOK
    <3> QED
      BY <3>1, WriterAlone DEF AtReset, Apart
  <2> QED
    BY <2>1, <2>2
<1> QED
  BY <1>1 DEF Inv, ShmOK

(* A TRUNCATE checkpoint that has copied everything begins a reset.        *)
LEMMA DoneStep ==
  ASSUME Inv, NEW c \in Conn, Done(c)
  PROVE  Inv'
<1>0. /\ con[c].at = "done" /\ con[c].mode = "truncate" /\ con[c] \in State /\ shm \in ShmType
      /\ InPlace(con[c]) /\ Locked(con[c]) /\ CheckpointOK(con[c], shm, wal, db)
  BY ConnNow DEF Done
<1>1. con[c].at \in AtCkpt
  BY <1>0 DEF AtCkpt
<1>2. /\ con[c].goal = "ckpt" /\ con[c].wl /\ con[c].cl
      /\ con[c].hdr = shm.h0 /\ shm.h0.init
  <2>1. Checkpointing(con[c]) /\ con[c].goal # "close"
    BY <1>0, <1>1 DEF InPlace
  <2>2. con[c].wl /\ con[c].cl
    BY <1>0, <1>1, <2>1 DEF Locked
  <2> QED
    BY <1>0, <1>1, <2>1, <2>2 DEF Checkpointing, CheckpointOK
<1>3. UNCHANGED <<files, committed>> /\ ntxn' = ntxn /\ AllFree(c, Slots) /\ Reset(c)
      /\ shm.backfill >= shm.h0.mx
  BY <1>2 DEF Done, history
<1>4. \A d \in Conn \ {c} : ~con[d].wl /\ ~con[d].cl
  BY <1>2, ConnNow DEF PairOK, Apart
<1>5. shm.backfill = shm.h0.mx
  <2>2. shm.backfill <= shm.h0.mx
    BY <1>0, <1>2, CopiedNow
  <2>3. shm.backfill \in Nat /\ shm.h0.mx \in Nat
    BY <1>0, ShmTypes, Bounds
  <2> QED
    BY <1>3, <2>2, <2>3
<1> QED
  BY <1>0, <1>2, <1>3, <1>4, <1>5, ResetStep

-----------------------------------------------------------------------------
(* While a log is reset the others neither write nor use the log.          *)
LEMMA DuringReset ==
  ASSUME Inv, NEW c \in Conn, con[c].at \in AtReset \cup {"cut"}
  PROVE  /\ con[c].wl /\ con[c].ex = Slots /\ con[c].goal \in {"write", "ckpt"}
         /\ con[c].rl = (IF con[c].goal = "write" THEN 0 ELSE -1)
         /\ (con[c].goal = "write" <=> con[c].tid # 0) /\ con[c].log = <<>>
         /\ con[c].at # "closed" /\ ~InRecovery(con[c]) /\ con[c].at \notin AtCkpt
         /\ shm.h0.init /\ con[c].hdr.init /\ con[c].hdr.mx = 0 /\ shm.h1 = con[c].hdr
         /\ IndexOK(shm, wal, db, committed)
         /\ \A d \in Conn \ {c} :
              /\ con[d].tid = 0 /\ con[d].goal # "write" /\ ~InRecovery(con[d]) /\ ~con[d].wl
              /\ con[d].at \notin AtReset \cup AtWrite /\ con[d].at # "cut"
              /\ ~(con[d].rl >= 1)
<1>1. /\ con[c] \in State /\ InPlace(con[c]) /\ Locked(con[c]) /\ JobOK(con[c])
      /\ ResetOK(con[c], shm, committed)
  BY ConnNow
<1>2. /\ con[c].goal \in {"write", "ckpt"} /\ con[c].ex = Slots /\ con[c].log = <<>>
      /\ con[c].at # "closed" /\ ~InRecovery(con[c]) /\ con[c].at \notin AtCkpt
  BY <1>1 DEF InPlace, Locked, JobOK, AtReset, AtCkpt, InRecovery
<1>3. /\ (con[c].goal = "write" <=> con[c].tid # 0) /\ con[c].wl
      /\ con[c].rl = (IF con[c].goal = "write" THEN 0 ELSE -1)
  BY <1>1, <1>2 DEF Locked, InPlace, AtReset, AtWrite, Checkpointing
<1>4. /\ shm.h0.init /\ con[c].hdr.init /\ con[c].hdr.mx = 0 /\ shm.h1 = con[c].hdr
      /\ IndexOK(shm, wal, db, committed)
  BY <1>1, <1>2, IndexNow DEF ResetOK
<1>5. ASSUME NEW d \in Conn \ {c}
      PROVE  /\ con[d].tid = 0 /\ con[d].goal # "write" /\ ~InRecovery(con[d]) /\ ~con[d].wl
             /\ con[d].at \notin AtReset \cup AtWrite /\ con[d].at # "cut"
             /\ ~(con[d].rl >= 1)
  <2>1. ConnOK(con[d], shm, wal, db, committed) /\ con[d] \in State /\ Apart(con[d], con[c])
    BY ConnNow DEF Inv, PairOK
  <2>2. ~con[d].wl /\ con[d].rl \notin Slots
    BY <1>2, <1>3, <2>1 DEF Apart
  <2>3. con[d].rl \in -1 .. NReader - 1
    BY <2>1, StateTypes
  <2>4. ~(con[d].rl >= 1)
    BY <2>2, <2>3, Bounds DEF Slots
  <2> QED
    BY <2>1, <2>2, <2>4, WriterAlone
<1> QED
  BY <1>2, <1>3, <1>4, <1>5

(* An empty log.                                                           *)
LEMMA EmptyLog ==
  ASSUME NEW s \in ShmType, NEW w, NEW b \in Image, NEW g
  PROVE  /\ Chained(g, 0, w) /\ Indexed(0, s, w) /\ Overlay(0, s, w, b) = b
         /\ \A i : ~IsLast(i, 0, s)
<1>1. 1 .. 0 = {} /\ ~(0 > 0)
  OBVIOUS
<1>2. ASSUME NEW p \in Page PROVE Overlay(0, s, w, b)[p] = b[p]
  BY <1>1, OverlayIs, Nothing
<1>3. Overlay(0, s, w, b) = b
  BY <1>2 DEF Overlay, Image
<1> QED
  BY <1>1, <1>3 DEF Chained, Indexed, IsLast

(* walIndexWriteHdr, the second copy: from here the log is empty, and its  *)
(* image is the database file.                                             *)
LEMMA Reset2Step ==
  ASSUME Inv, NEW c \in Conn, Reset2(c)
  PROVE  Inv'
<1>0. /\ con[c].at = "reset2" /\ con[c] \in State /\ InPlace(con[c]) /\ Locked(con[c])
      /\ JobOK(con[c]) /\ ResetOK(con[c], shm, committed) /\ WriterOK(con[c], shm, committed)
      /\ shm \in ShmType /\ db \in Image /\ committed \in Image /\ FileTypes
      /\ ntxn \in 0 .. MaxTxn
  BY ConnNow DEF Reset2
<1>1. con[c].at \in AtReset
  BY <1>0 DEF AtReset
<1>2. /\ shm.backfill = shm.h0.mx /\ con[c].hdr.gen \notin {0, shm.h0.gen}
      /\ con[c].tid = 0 /\ con[c].cache # NoImage /\ ~con[c].chg => con[c].cache = committed
  BY <1>0 DEF ResetOK
<1>3. PICK h \in Hdr : h = con[c].hdr
  BY <1>0, StateTypes
<1>4. PICK n : n = [con[c] EXCEPT !.at = "reset3"]
  BY Zenon
<1>5. con' = [con EXCEPT ![c] = n] /\ shm' = [shm EXCEPT !.h0 = h]
  BY <1>3, <1>4 DEF Reset2
<1>6. n \in State
  <2>1. "reset3" \in AtAny
    BY DEF AtAny, AtReset
  <2> QED
    BY <1>0, <1>4, <2>1, Zenon DEF State
<1>7. /\ n.at = "reset3" /\ n.goal = con[c].goal /\ n.mode = con[c].mode /\ n.rl = con[c].rl
      /\ n.ex = con[c].ex /\ n.hdr = con[c].hdr /\ n.cache = con[c].cache /\ n.tid = con[c].tid
      /\ n.job = con[c].job /\ n.log = con[c].log
  BY <1>0, <1>4 DEF State
<1>8. n.wl = con[c].wl /\ n.cl = con[c].cl /\ n.chg = con[c].chg
  BY <1>0, <1>4 DEF State
<1>9. /\ shm' \in ShmType /\ shm'.h0 = h /\ shm'.h1 = shm.h1 /\ shm'.backfill = shm.backfill
      /\ shm'.mark = shm.mark /\ shm'.pg = shm.pg
  BY <1>0, <1>3, <1>5 DEF ShmType
<1>10. wal' = wal /\ db' = db /\ committed' = committed /\ FileTypes' /\ ntxn' = ntxn
  BY <1>0 DEF Reset2, files, history, FileTypes
<1>11. h.init /\ h.mx = 0 /\ shm.h1 = h
  BY <1>1, <1>3, DuringReset
<1>12. committed = db
  <2>1. shm.h0.mx \in Nat
    BY <1>0, ShmTypes, Bounds
  <2> QED
    BY <1>0, <1>1, <1>2, <2>1, DuringReset, OverlayCopied
<1>13. IndexOK(shm', wal, db, committed)
  BY <1>0, <1>9, <1>11, <1>12, EmptyLog DEF IndexOK, HdrOf
<1>14. ConnOK(n, shm', wal, db, committed)
  <2>1. InPlace(n) /\ Locked(n) /\ JobOK(n)
    <3>1. InPlace(n)
      BY <1>0, <1>7 DEF InPlace, AtHdr, AtLock, AtReset, AtWrite, AtCkpt, Checkpointing
    <3>2. Locked(n)
      BY <1>0, <1>7, <1>8 DEF Locked, AtReset, AtWrite, AtCkpt, Checkpointing, InRecovery
    <3>3. JobOK(n)
      BY <1>0, <1>7 DEF JobOK
    <3> QED
      BY <3>1, <3>2, <3>3
  <2>2. RecoveryOK(n, shm', wal) /\ WrittenOK(n, shm', wal) /\ CheckpointOK(n, shm', wal, db)
    <3>1. RecoveryOK(n, shm', wal)
      BY <1>7 DEF RecoveryOK, InRecovery
    <3>2. WrittenOK(n, shm', wal)
      BY <1>7 DEF WrittenOK
    <3>3. CheckpointOK(n, shm', wal, db)
      BY <1>7 DEF CheckpointOK, AtCkpt
    <3> QED
      BY <3>1, <3>2, <3>3
  <2>3. HdrKnown(n, shm', committed)
    <3>1. n.goal # "read"
      BY <1>1, <1>7, DuringReset
    <3>2. Describes(n) => n.cache = committed
      BY <1>2, <1>7, <1>8 DEF Describes
    <3> QED
      BY <1>3, <1>7, <1>9, <1>11, <3>1, <3>2 DEF HdrKnown
  <2>4. SnapshotOK(n, shm', wal, db)
    <3>1. ~(n.rl >= 1)
      BY <1>1, <1>7, DuringReset
    <3> QED
      BY <1>7, <3>1 DEF SnapshotOK, AtReset
  <2>5. ResetOK(n, shm', committed)
    BY <1>3, <1>7, <1>9, <1>11 DEF ResetOK
  <2>6. WriterOK(n, shm', committed)
    <3>1. Changed(n, shm') = Changed(con[c], shm)
      <4>1. shm.h0.mx \in Nat
        BY <1>0, ShmTypes, Bounds
      <4>2. shm.h0.mx + 1 .. 0 = {} /\ 0 + 1 .. 0 = {}
        BY <4>1
      <4> QED
        BY <1>3, <1>7, <1>9, <1>11, <4>2 DEF Changed
    <3>2. n.at \notin AtLock \cup {"restart", "header", "hdrsync", "write"} /\ n.at \in AtReset
      BY <1>7 DEF AtLock, AtReset
    <3>3. h.mx <= n.hdr.mx
      BY <1>3, <1>7, <1>11
    <3> QED
      BY <1>0, <1>3, <1>7, <1>9, <1>11, <3>1, <3>2, <3>3 DEF WriterOK
  <2> QED
    BY <2>1, <2>2, <2>3, <2>4, <2>5, <2>6 DEF ConnOK
<1>15. /\ con'[c] = n /\ \A d \in Conn \ {c} : con'[d] = con[d]
       /\ \A d \in Conn \ {c} : con[d] \in State /\ ConnOK(con[d], shm, wal, db, committed)
       /\ \A d, e \in Conn \ {c} : d # e => PairOK(con[d], con[e], shm)
  BY <1>5, OthersNow, Zenon
<1>16. ASSUME NEW d \in Conn \ {c}
       PROVE  /\ con[d].tid = 0 /\ ~InRecovery(con[d]) /\ con[d].at \notin AtReset \cup AtWrite
              /\ con[d].at # "cut" /\ ~(con[d].rl >= 1)
              /\ con[d].hdr.gen # h.gen /\ con[d].at \notin AtCkpt
  BY <1>0, <1>1, <1>3, DuringReset, ConnNow DEF PairOK, Fresh
<1>17. ASSUME NEW d \in Conn \ {c} PROVE ConnOK(con[d], shm', wal, db, committed)
  <2>1. ConnOK(con[d], shm, wal, db, committed)
    BY <1>15
  <2>2. RecoveryOK(con[d], shm', wal)
    BY <1>16 DEF RecoveryOK, InRecovery
  <2>3. HdrKnown(con[d], shm', committed)
    BY <1>9, <1>11, <1>16, <2>1 DEF HdrKnown, ConnOK
  <2>4. SnapshotOK(con[d], shm', wal, db)
    BY <1>9, <1>16, <2>1 DEF SnapshotOK, Seen, ConnOK
  <2>5. ResetOK(con[d], shm', committed) /\ WriterOK(con[d], shm', committed)
        /\ WrittenOK(con[d], shm', wal)
    BY <1>16 DEF ResetOK, WriterOK, WrittenOK, AtWrite, AtReset
  <2>6. CheckpointOK(con[d], shm', wal, db)
    BY <1>16 DEF CheckpointOK, AtCkpt
  <2> QED
    BY <2>1, <2>2, <2>3, <2>4, <2>5, <2>6 DEF ConnOK
<1>18. ASSUME NEW d \in Conn \ {c} PROVE PairOK(n, con[d], shm') /\ PairOK(con[d], n, shm')
  <2>1. PairOK(con[c], con[d], shm) /\ PairOK(con[d], con[c], shm)
    BY ConnNow
  <2>2. NoMore(n, con[c])
    BY <1>1, <1>7, <1>8, DuringReset DEF NoMore, InRecovery
  <2>3. Apart(n, con[d]) /\ Apart(con[d], n)
    BY <1>0, <1>6, <1>15, <2>1, <2>2, StaysApart DEF PairOK
  <2>4. ~(n.rl >= 1)
    BY <1>1, <1>7, DuringReset
  <2>5. Behind(n, con[d], shm') /\ Behind(con[d], n, shm')
    BY <1>16, <2>4 DEF Behind
  <2>6. Fresh(n, con[d], shm') /\ Fresh(con[d], n, shm')
    BY <1>7, <1>16 DEF Fresh, AtReset
  <2> QED
    BY <2>3, <2>5, <2>6 DEF PairOK
<1>19. ASSUME NEW d \in Conn \ {c}, NEW e \in Conn \ {c}, d # e PROVE PairOK(con[d], con[e], shm')
  <2>1. Apart(con[d], con[e])
    BY <1>15, <1>19 DEF PairOK
  <2>2. Behind(con[d], con[e], shm')
    BY <1>16 DEF Behind
  <2>3. Fresh(con[d], con[e], shm')
    BY <1>16 DEF Fresh, AtReset
  <2> QED
    BY <2>1, <2>2, <2>3 DEF PairOK
<1>20. ShmOK'
  <2>1. con'[c].at = "reset3"
    BY <1>7, <1>15
  <2>2. IndexOK(shm', wal', db', committed')
    BY <1>10, <1>13
  <2>3. \A d \in Conn : Half(con'[d], shm', wal')
    BY <1>9, <1>11 DEF Half
  <2> QED
    BY <2>1, <2>2, <2>3 DEF ShmOK
<1>21. /\ ConnOK(n, shm', wal', db', committed')
       /\ \A d \in Conn \ {c} : ConnOK(con[d], shm', wal', db', committed')
  BY <1>10, <1>14, <1>17
<1> QED
  BY <1>0, <1>5, <1>6, <1>9, <1>10, <1>18, <1>19, <1>20, <1>21, LoudStep, Zenon

-----------------------------------------------------------------------------
(* The last part of a reset: nothing of the log is in the database file.   *)
LEMMA NoneCopied ==
  ASSUME NEW r \in State, NEW s \in ShmType, NEW t \in ShmType, NEW w, NEW b, NEW im,
         ConnOK(r, s, w, b, im), ~r.wl, ~(r.rl >= 1), s.h0.mx = 0,
         t.h0 = s.h0, t.h1 = s.h1, t.backfill = 0, t.pg = s.pg
  PROVE  ConnOK(r, t, w, b, im)
<1>1. /\ r.tid = 0 /\ r.goal # "write" /\ ~InRecovery(r)
      /\ r.at \notin AtReset \cup AtWrite /\ r.at # "cut"
  BY WriterAlone
<1>2. RecoveryOK(r, t, w) /\ HdrKnown(r, t, im)
  BY <1>1 DEF RecoveryOK, InRecovery, HdrKnown, ConnOK
<1>3. SnapshotOK(r, t, w, b)
  BY DEF SnapshotOK, Seen, ConnOK
<1>4. ResetOK(r, t, im) /\ WriterOK(r, t, im) /\ WrittenOK(r, t, w)
  BY <1>1 DEF ResetOK, WriterOK, WrittenOK, AtReset, AtWrite
<1>5. CheckpointOK(r, t, w, b)
  <2>1. CheckpointOK(r, s, w, b)
    BY DEF ConnOK
  <2>2. r.at # "copy"
    <3>1. r.hdr.mx \in Nat /\ r.safe \in Nat /\ r.bf \in Nat
      BY StateTypes, Bounds
    <3>2. r.at = "copy" => r.hdr.mx <= 0 /\ r.safe <= r.hdr.mx /\ r.bf < r.safe
      BY <2>1 DEF CheckpointOK, AtCkpt
    <3> QED
      BY <3>1, <3>2
  <2> QED
    BY <2>1, <2>2 DEF CheckpointOK, IsLast
<1> QED
  BY <1>2, <1>3, <1>4, <1>5 DEF ConnOK

(* The connection that has reset the log: a writer looks for a read mark,  *)
(* a checkpoint cuts the file.                                             *)
LEMMA ResetDone ==
  ASSUME Inv, NEW c \in Conn, con[c].at = "reset3", NEW n \in State,
         n.at = IF con[c].goal = "write" THEN "marks" ELSE "cut",
         n.goal = con[c].goal, n.mode = con[c].mode, n.rl = -1,
         n.ex = IF con[c].goal = "write" THEN {} ELSE con[c].ex,
         n.hdr = con[c].hdr, n.cache = con[c].cache, n.tid = con[c].tid,
         n.job = con[c].job, n.log = con[c].log,
         n.wl = con[c].wl, n.cl = con[c].cl, n.chg = con[c].chg,
         NEW t \in ShmType, t.h0 = shm.h0, t.h1 = shm.h1, t.backfill = 0, t.pg = shm.pg
  PROVE  ConnOK(n, t, wal, db, committed)
<1>0. /\ InPlace(con[c]) /\ Locked(con[c]) /\ JobOK(con[c])
      /\ HdrKnown(con[c], shm, committed)
      /\ ResetOK(con[c], shm, committed) /\ WriterOK(con[c], shm, committed)
  BY ConnNow
<1>1. con[c].at \in AtReset
  BY DEF AtReset
<1>2. /\ con[c].goal \in {"write", "ckpt"} /\ con[c].log = <<>> /\ con[c].hdr.mx = 0
      /\ shm.h1 = con[c].hdr /\ shm.h0 = con[c].hdr /\ shm.h0.init
      /\ con[c].wl /\ con[c].ex = Slots /\ (con[c].goal = "write" <=> con[c].tid # 0)
  BY <1>0, <1>1, DuringReset DEF ResetOK
<1>3. InPlace(n)
  BY <1>2 DEF InPlace, AtHdr, AtLock, AtReset, AtWrite, AtCkpt, Checkpointing
<1>4. Locked(n)
  BY <1>0, <1>2 DEF Locked, AtReset, AtWrite, AtCkpt, Checkpointing, InRecovery
<1>5. JobOK(n)
  BY <1>0, <1>2 DEF JobOK
<1>6. HdrKnown(n, t, committed)
  BY <1>0, <1>2 DEF HdrKnown, Describes
<1>7. SnapshotOK(n, t, wal, db)
  BY DEF SnapshotOK
<1>8. RecoveryOK(n, t, wal) /\ WrittenOK(n, t, wal) /\ CheckpointOK(n, t, wal, db)
  <2>1. RecoveryOK(n, t, wal)
    BY DEF RecoveryOK, InRecovery
  <2>2. WrittenOK(n, t, wal)
    BY DEF WrittenOK
  <2>3. CheckpointOK(n, t, wal, db)
    BY DEF CheckpointOK, AtCkpt
  <2> QED
    BY <2>1, <2>2, <2>3
<1>9. ResetOK(n, t, committed)
  BY <1>2 DEF ResetOK, AtReset
<1>10. WriterOK(n, t, committed)
  <2>1. Changed(n, t) = Changed(con[c], shm)
    BY DEF Changed
  <2>2. n.tid # 0 => n.at = "marks"
    BY <1>2
  <2>3. t.backfill = t.h0.mx /\ t.h0.mx <= n.hdr.mx /\ n.hdr = t.h0
    BY <1>2
  <2> QED
    BY <1>0, <2>1, <2>2, <2>3 DEF WriterOK, AtReset
<1> QED
  BY <1>3, <1>4, <1>5, <1>6, <1>7, <1>8, <1>9, <1>10 DEF ConnOK

(* walRestartHdr: nBackfill and the marks, last of all.                    *)
LEMMA Reset3Step ==
  ASSUME Inv, NEW c \in Conn, Reset3(c)
  PROVE  Inv'
<1>0. /\ con[c].at = "reset3" /\ con[c] \in State /\ ResetOK(con[c], shm, committed)
      /\ shm \in ShmType /\ committed \in Image /\ FileTypes /\ ntxn \in 0 .. MaxTxn
  BY ConnNow DEF Reset3
<1>1. con[c].at \in AtReset
  BY <1>0 DEF AtReset
<1>2. shm.h0 = con[c].hdr /\ shm.h1 = con[c].hdr /\ shm.h0.mx = 0 /\ shm.h0.init
  BY <1>0, <1>1, DuringReset DEF ResetOK
<1>3. PICK m \in [Slots -> 0 .. NotUsed] : m = [i \in Slots |-> IF i = 1 THEN 0 ELSE NotUsed]
  <2>1. 0 \in 0 .. NotUsed /\ NotUsed \in 0 .. NotUsed
    BY Bounds
  <2> QED
    BY <2>1, Zenon
<1>4. PICK x \in SUBSET (0 .. NReader - 1) : x = {}
  BY Zenon
<1>5. PICK e : e = [con[c] EXCEPT !.ex = x]
  BY Zenon
<1>6. /\ e \in State /\ e.at = con[c].at /\ e.goal = con[c].goal /\ e.mode = con[c].mode
      /\ e.ex = {} /\ e.hdr = con[c].hdr /\ e.cache = con[c].cache /\ e.tid = con[c].tid
      /\ e.job = con[c].job /\ e.log = con[c].log
  BY <1>0, <1>4, <1>5, Zenon DEF State
<1>7. e.wl = con[c].wl /\ e.cl = con[c].cl /\ e.chg = con[c].chg
  BY <1>0, <1>5 DEF State
<1>8. PICK k : k = [con[c] EXCEPT !.at = "cut"]
  BY Zenon
<1>9. /\ k \in State /\ k.at = "cut" /\ k.goal = con[c].goal /\ k.mode = con[c].mode
      /\ k.rl = con[c].rl /\ k.ex = con[c].ex /\ k.hdr = con[c].hdr /\ k.cache = con[c].cache
      /\ k.tid = con[c].tid /\ k.job = con[c].job /\ k.log = con[c].log
  <2>1. "cut" \in AtAny
    BY DEF AtAny
  <2> QED
    BY <1>0, <1>8, <2>1, Zenon DEF State
<1>10. k.wl = con[c].wl /\ k.cl = con[c].cl /\ k.chg = con[c].chg
  BY <1>0, <1>8 DEF State
<1>11. PICK n : n = IF con[c].goal = "write" THEN Retry(e) ELSE k
  OBVIOUS
<1>12. con' = [con EXCEPT ![c] = n] /\ shm' = [shm EXCEPT !.backfill = 0, !.mark = m]
  BY <1>3, <1>4, <1>5, <1>8, <1>11 DEF Reset3
<1>13. /\ n \in State /\ n.at = IF con[c].goal = "write" THEN "marks" ELSE "cut"
  BY <1>6, <1>9, <1>11, RetryState
<1>14. /\ n.goal = con[c].goal /\ n.mode = con[c].mode /\ n.rl = -1
       /\ n.ex = IF con[c].goal = "write" THEN {} ELSE con[c].ex
  <2>1. con[c].goal # "write" => con[c].rl = -1
    BY <1>1, DuringReset
  <2> QED
    BY <1>6, <1>9, <1>11, <2>1, RetryState, Zenon
<1>15. /\ n.hdr = con[c].hdr /\ n.cache = con[c].cache /\ n.tid = con[c].tid
       /\ n.job = con[c].job /\ n.log = con[c].log
       /\ n.wl = con[c].wl /\ n.cl = con[c].cl /\ n.chg = con[c].chg
  BY <1>6, <1>7, <1>9, <1>10, <1>11, RetryState
<1>16. /\ shm' \in ShmType /\ shm'.h0 = shm.h0 /\ shm'.h1 = shm.h1 /\ shm'.backfill = 0
       /\ shm'.pg = shm.pg
  BY <1>0, <1>3, <1>12, Nothing, Zenon DEF ShmType
<1>17. wal' = wal /\ db' = db /\ committed' = committed /\ FileTypes' /\ ntxn' = ntxn
  BY <1>0 DEF Reset3, files, history, FileTypes
<1>18. ConnOK(n, shm', wal, db, committed)
  BY <1>0, <1>13, <1>14, <1>15, <1>16, ResetDone
<1>19. /\ con'[c] = n /\ \A d \in Conn \ {c} : con'[d] = con[d]
       /\ \A d \in Conn \ {c} : con[d] \in State /\ ConnOK(con[d], shm, wal, db, committed)
       /\ \A d, f \in Conn \ {c} : d # f => PairOK(con[d], con[f], shm)
  BY <1>12, OthersNow, Zenon
<1>20. ASSUME NEW d \in Conn \ {c} PROVE ConnOK(con[d], shm', wal, db, committed)
  BY <1>0, <1>1, <1>2, <1>16, <1>19, DuringReset, NoneCopied
<1>21. ASSUME NEW d \in Conn \ {c} PROVE PairOK(n, con[d], shm') /\ PairOK(con[d], n, shm')
  <2>1. PairOK(con[c], con[d], shm) /\ PairOK(con[d], con[c], shm)
    BY ConnNow
  <2>2. /\ con[c].ex = Slots /\ con[c].at # "closed"
        /\ con[d].tid = 0 /\ con[d].at \notin AtReset
    BY <1>1, DuringReset
  <2>3. NoMore(n, con[c])
    BY <1>13, <1>14, <1>15, <2>2 DEF NoMore, InRecovery
  <2>4. Apart(n, con[d]) /\ Apart(con[d], n)
    BY <1>0, <1>13, <1>19, <2>1, <2>3, StaysApart DEF PairOK
  <2>5. Behind(n, con[d], shm') /\ Behind(con[d], n, shm')
    BY <1>13, <1>14 DEF Behind
  <2>6. Fresh(n, con[d], shm') /\ Fresh(con[d], n, shm')
    BY <1>2, <1>13, <1>15, <1>16, <2>2 DEF Fresh, AtReset
  <2> QED
    BY <2>4, <2>5, <2>6 DEF PairOK
<1>22. \A d, f \in Conn \ {c} : d # f => PairOK(con[d], con[f], shm')
  BY <1>16, <1>19, PairSame
<1>23. ShmOK'
  <2>1. IndexOK(shm', wal, db, committed)
    <3>1. IndexOK(shm, wal, db, committed) /\ 1 .. 0 = {}
      BY <1>1, DuringReset
    <3> QED
      BY <1>2, <1>16, <3>1, EmptyLog DEF IndexOK, HdrOf, Indexed, Overlay
  <2>2. IndexOK(shm', wal', db', committed')
    BY <1>17, <2>1
  <2>3. \A d \in Conn : Half(con'[d], shm', wal')
    BY <1>2, <1>16 DEF Half
  <2>4. shm'.backfill <= shm'.h0.mx
    BY <1>2, <1>16
  <2> QED
    BY <2>2, <2>3, <2>4 DEF ShmOK
<1>24. /\ ConnOK(n, shm', wal', db', committed')
       /\ \A d \in Conn \ {c} : ConnOK(con[d], shm', wal', db', committed')
  BY <1>17, <1>18, <1>20
<1> QED
  BY <1>0, <1>12, <1>13, <1>16, <1>17, <1>21, <1>22, <1>23, <1>24, LoudStep, Zenon

(* The log is cut.                                                         *)
LEMMA CutStep ==
  ASSUME Inv, NEW c \in Conn, Cut(c)
  PROVE  Inv'
<1>0. /\ con[c].at = "cut" /\ con[c] \in State /\ shm \in ShmType /\ InPlace(con[c])
      /\ HdrKnown(con[c], shm, committed) /\ ResetOK(con[c], shm, committed) /\ FileTypes
  BY ConnNow DEF Cut
<1>1. /\ con[c].wl /\ con[c].at # "closed" /\ shm.h0.init /\ shm.h0 = shm.h1 /\ shm.h0.mx = 0
      /\ con[c].tid = 0 /\ con[c].at \notin AtReset
  BY <1>0, DuringReset DEF ResetOK, InPlace, AtReset
<1>2. PICK n : n = Checkpointed(con[c])
  OBVIOUS
<1>3. /\ n \in State /\ n.at = "idle" /\ n.goal = "none" /\ n.rl = -1 /\ ~n.wl /\ ~n.cl
      /\ n.ex = {} /\ ~n.chg /\ n.cache = con[c].cache /\ n.tid = 0 /\ n.job = {} /\ n.log = <<>>
      /\ n.hdr = IF con[c].chg THEN NoHdr ELSE con[c].hdr
  BY <1>0, <1>2, CheckpointedState
<1>4. con' = [con EXCEPT ![c] = n] /\ wal' = NoWal
  BY <1>2 DEF Cut, NoLog
<1>5. shm' = shm /\ db' = db /\ committed' = committed /\ ntxn' = ntxn
  BY DEF Cut, history
<1>6. FileTypes'
  <2>1. walOld' \in [Index -> SUBSET (Frame \cup {NoFrame})] /\ headOld' \subseteq HeadType
    BY DEF Cut, NoLog
  <2>2. wal' \in LogType /\ cutOld' \in LogType /\ dbOld' = dbOld
    BY <1>0, <1>4, Nothing DEF Cut, NoLog, FileTypes
  <2> QED
    BY <1>0, <1>5, <2>1, <2>2 DEF FileTypes
<1>7. Simple(n)
  BY <1>3 DEF Simple, InPlace, Locked, AtHdr, AtLock, AtReset, AtWrite, AtCkpt, InRecovery,
              Checkpointing
<1>8. HdrKnown(n, shm, committed)
  <2>1. Describes(n) => Describes(con[c]) /\ n.hdr = con[c].hdr
    BY <1>1, <1>3, Nothing DEF Describes
  <2> QED
    BY <1>0, <1>3, <2>1 DEF HdrKnown
<1>9. ConnOK(n, shm', wal', db, committed)
  BY <1>3, <1>4, <1>5, <1>7, <1>8, SimpleOK
<1>10. \A i \in 1 .. shm.h0.mx : shm'.pg[i] = shm.pg[i] /\ wal'.frame[i] = wal.frame[i]
  <2>1. 1 .. 0 = {}
    OBVIOUS
  <2> QED
    BY <1>1, <2>1
<1>11. ASSUME NEW d \in Conn \ {c} PROVE PairOK(n, con[d], shm) /\ PairOK(con[d], n, shm)
  <2>1. /\ PairOK(con[c], con[d], shm) /\ PairOK(con[d], con[c], shm)
        /\ con[d] \in State /\ con[d].tid = 0 /\ con[d].at \notin AtReset
    BY <1>0, ConnNow, DuringReset
  <2>2. NoMore(n, con[c])
    BY <1>1, <1>3 DEF NoMore, InRecovery
  <2>3. Apart(n, con[d]) /\ Apart(con[d], n)
    BY <1>0, <1>3, <2>1, <2>2, StaysApart DEF PairOK
  <2> QED
    BY <1>3, <2>1, <2>3 DEF PairOK, Behind, Fresh, AtReset
<1>12. \A r : Half(r, shm', wal')
  BY <1>1, <1>5 DEF Half
<1>13. ~(shm.h0.mx > 0) /\ n.at \notin AtReset
  BY <1>1, <1>3 DEF AtReset
<1> QED
  BY <1>0, <1>1, <1>3, <1>4, <1>5, <1>6, <1>9, <1>10, <1>11, <1>12, <1>13, WriterStep, Zenon

-----------------------------------------------------------------------------
(* A commit: what the new end of the log makes of the file is the cache of *)
(* the writer.                                                             *)
LEMMA PublishedImage ==
  ASSUME NEW r \in State, NEW s \in ShmType, NEW w, NEW b \in Image, NEW im \in Image,
         IndexOK(s, w, b, im), s.h0.init, s.h0.mx <= r.hdr.mx,
         r.cache \in Image, r.job = {}, r.log = <<>>,
         \A p \in Page : r.cache[p] = IF p \in Changed(r, s) THEN r.tid ELSE im[p],
         \A i \in s.h0.mx + 1 .. r.hdr.mx : w.frame[i].tid = r.tid
  PROVE  r.cache = Overlay(r.hdr.mx, s, w, b)
<1>0. s.h0.mx \in 0 .. MaxFrame /\ r.hdr.mx \in 0 .. MaxFrame
  BY ShmTypes, StateTypes
<1>1. s.h0.mx \in Nat /\ r.hdr.mx \in Nat /\ s.h0.mx <= r.hdr.mx
  BY <1>0
<1>2. im = Overlay(s.h0.mx, s, w, b)
  BY DEF IndexOK
<1>3. Changed(r, s) = {s.pg[i] : i \in s.h0.mx + 1 .. r.hdr.mx}
  <2>1. 1 .. Len(<<>>) = {}
    OBVIOUS
  <2> QED
    BY <2>1 DEF Changed
<1>4. ASSUME NEW p \in Page PROVE r.cache[p] = Overlay(r.hdr.mx, s, w, b)[p]
  <2>1. CASE \A i \in 1 .. r.hdr.mx : s.pg[i] # p
    <3>1. \A i \in 1 .. s.h0.mx : i \in 1 .. r.hdr.mx
      BY <1>1
    <3>2. \A i \in s.h0.mx + 1 .. r.hdr.mx : i \in 1 .. r.hdr.mx
      BY <1>1
    <3>3. p \notin Changed(r, s)
      BY <1>3, <2>1, <3>2
    <3>4. Overlay(s.h0.mx, s, w, b)[p] = b[p]
      BY <1>0, <2>1, <3>1, OverlayIs
    <3>5. Overlay(r.hdr.mx, s, w, b)[p] = b[p]
      BY <1>0, <2>1, OverlayIs
    <3> QED
      BY <1>2, <3>3, <3>4, <3>5
  <2>2. ASSUME NEW i \in 1 .. r.hdr.mx, IsLast(i, r.hdr.mx, s), s.pg[i] = p
        PROVE  r.cache[p] = Overlay(r.hdr.mx, s, w, b)[p]
    <3>1. Overlay(r.hdr.mx, s, w, b)[p] = w.frame[i].tid
      BY <1>0, <2>2, OverlayIs
    <3>2. CASE i \in s.h0.mx + 1 .. r.hdr.mx
      <4>1. p \in Changed(r, s)
        BY <1>3, <2>2, <3>2
      <4> QED
        BY <3>1, <3>2, <4>1
    <3>3. CASE i \notin s.h0.mx + 1 .. r.hdr.mx
      <4>1. i \in 1 .. s.h0.mx
        BY <1>1, <3>3
      <4>2. \A j \in s.h0.mx + 1 .. r.hdr.mx : j \in i + 1 .. r.hdr.mx
        BY <1>1, <4>1
      <4>3. \A j \in i + 1 .. s.h0.mx : j \in i + 1 .. r.hdr.mx
        BY <1>1, <4>1
      <4>4. p \notin Changed(r, s)
        BY <1>3, <2>2, <4>2 DEF IsLast
      <4>5. IsLast(i, s.h0.mx, s)
        BY <2>2, <4>1, <4>3 DEF IsLast
      <4>6. Overlay(s.h0.mx, s, w, b)[p] = w.frame[i].tid
        BY <1>0, <2>2, <4>1, <4>5, OverlayIs
      <4> QED
        BY <1>2, <3>1, <4>4, <4>6
    <3> QED
      BY <3>2, <3>3
  <2> QED
    BY <1>0, <2>1, <2>2, OverlayIs
<1> QED
  BY <1>4, Zenon DEF Overlay, Image

(* The wal-index with a new first copy of its header.                      *)
WithHdr(s, h) == [s EXCEPT !.h0 = h]

(* A header that is written changes nothing else.                          *)
LEMMA HdrSet ==
  ASSUME NEW s \in ShmType, NEW h \in Hdr
  PROVE  /\ WithHdr(s, h) \in ShmType /\ WithHdr(s, h).h0 = h /\ WithHdr(s, h).h1 = s.h1
         /\ WithHdr(s, h).backfill = s.backfill /\ WithHdr(s, h).mark = s.mark
         /\ WithHdr(s, h).pg = s.pg
  BY DEF WithHdr, ShmType

(* The log that a writer is about to publish.                              *)
LEMMA PublishedIndex ==
  ASSUME Inv, NEW c \in Conn, con[c].at = "publish",
         NEW t \in ShmType, t.h0 = con[c].hdr, t.backfill = shm.backfill, t.pg = shm.pg
  PROVE  /\ IndexOK(t, wal, db, con[c].cache) /\ con[c].cache \in Image
         /\ con[c].hdr.init /\ shm.h0.init /\ shm.h0.mx < con[c].hdr.mx
         /\ shm.h1 = con[c].hdr /\ shm.backfill <= shm.h0.mx
<1>0. /\ con[c] \in State /\ InPlace(con[c]) /\ Locked(con[c]) /\ JobOK(con[c])
      /\ WriterOK(con[c], shm, committed) /\ WrittenOK(con[c], shm, wal)
      /\ shm \in ShmType /\ wal \in LogType /\ db \in Image /\ committed \in Image
  BY ConnNow
<1>1. con[c].tid # 0 /\ con[c].wl /\ con[c].goal = "none" /\ con[c].job = {} /\ con[c].log = <<>>
  BY <1>0 DEF InPlace, Locked, JobOK, AtWrite
<1>2. IndexOK(shm, wal, db, committed)
  BY IndexNow
<1>3. /\ shm.h0.init /\ con[c].hdr.init /\ con[c].cache # NoImage
      /\ \A p \in Page : con[c].cache[p] = IF p \in Changed(con[c], shm) THEN con[c].tid
                                           ELSE committed[p]
  BY <1>0, <1>1 DEF WriterOK
<1>4. /\ Chained(con[c].hdr.gen, con[c].hdr.mx, wal) /\ Indexed(con[c].hdr.mx, shm, wal)
      /\ \A i \in shm.h0.mx + 1 .. con[c].hdr.mx : wal.frame[i].tid = con[c].tid
      /\ con[c].hdr.mx > 0 => wal.frame[con[c].hdr.mx].tid = con[c].hdr.sum
      /\ shm.h1 = con[c].hdr /\ con[c].hdr.mx > shm.h0.mx /\ wal.frame[con[c].hdr.mx].com
  BY <1>0 DEF WrittenOK
<1>5. con[c].cache \in Image
  BY <1>0, <1>3 DEF State
<1>6. shm.h0.mx \in Nat /\ con[c].hdr.mx \in Nat
  BY <1>0, ShmTypes, StateTypes, Bounds
<1>7. shm.h0.mx < con[c].hdr.mx /\ shm.h0.mx <= con[c].hdr.mx
  BY <1>4, <1>6
<1>8. con[c].cache = Overlay(con[c].hdr.mx, shm, wal, db)
  <2>1. PICK r \in State : r = con[c]
    BY <1>0
  <2>2. /\ r.cache \in Image /\ r.job = {} /\ r.log = <<>> /\ shm.h0.mx <= r.hdr.mx
        /\ shm.h0.init
    BY <1>1, <1>3, <1>5, <1>7, <2>1
  <2>3. /\ \A p \in Page : r.cache[p] = IF p \in Changed(r, shm) THEN r.tid ELSE committed[p]
        /\ \A i \in shm.h0.mx + 1 .. r.hdr.mx : wal.frame[i].tid = r.tid
    BY <1>3, <1>4, <2>1
  <2>4. shm \in ShmType /\ db \in Image /\ committed \in Image
    BY <1>0
  <2>5. r.cache = Overlay(r.hdr.mx, shm, wal, db)
    BY <1>2, <2>2, <2>3, <2>4, PublishedImage
  <2> QED
    BY <2>1, <2>5
<1>9. con[c].cache = Overlay(con[c].hdr.mx, t, wal, db)
  BY <1>8 DEF Overlay
<1>10. HdrOf(con[c].hdr, t, wal)
  BY <1>4 DEF HdrOf, Indexed
<1>11. shm.backfill <= shm.h0.mx
  BY <1>1, CopiedNow
<1>12. ASSUME NEW i \in 1 .. t.backfill, IsLast(i, con[c].hdr.mx, t)
       PROVE  db[t.pg[i]] = wal.frame[i].tid
  <2>1. shm.backfill \in Nat
    BY <1>0, ShmTypes, Bounds
  <2>2. i \in 1 .. shm.backfill /\ i \in 1 .. shm.h0.mx
    BY <1>6, <1>11, <2>1
  <2>3. \A j \in i + 1 .. shm.h0.mx : j \in i + 1 .. con[c].hdr.mx
    BY <1>6, <1>7
  <2>4. IsLast(i, shm.h0.mx, shm)
    BY <1>12, <2>2, <2>3 DEF IsLast
  <2> QED
    BY <1>2, <2>2, <2>4 DEF IndexOK
<1>13. IndexOK(t, wal, db, con[c].cache)
  BY <1>3, <1>9, <1>10, <1>12 DEF IndexOK
<1> QED
  BY <1>3, <1>4, <1>5, <1>7, <1>11, <1>13

-----------------------------------------------------------------------------
(* The others after a commit: what they have loaded is older.              *)
LEMMA OlderKept ==
  ASSUME NEW r \in State, NEW s \in ShmType, NEW t \in ShmType, NEW w, NEW b,
         NEW im, NEW new, ConnOK(r, s, w, b, im), ~r.wl,
         s.h0.mx < t.h0.mx, t.h0.init, t.backfill = s.backfill, t.mark = s.mark, t.pg = s.pg,
         r.hdr.gen = t.h0.gen => t.h0.gen = s.h0.gen
  PROVE  ConnOK(r, t, w, b, new)
<1>1. /\ r.tid = 0 /\ r.goal # "write" /\ ~InRecovery(r)
      /\ r.at \notin AtReset \cup AtWrite /\ r.at # "cut"
  BY WriterAlone
<1>2. s.h0.mx \in Nat /\ t.h0.mx \in Nat /\ r.hdr.mx \in Nat
  BY ShmTypes, StateTypes, Bounds
<1>3. Describes(r) /\ r.hdr.gen = t.h0.gen => r.hdr.mx < t.h0.mx
  <2>1. Describes(r) /\ r.hdr.gen = s.h0.gen => r.hdr.mx <= s.h0.mx
    BY DEF ConnOK, HdrKnown
  <2> QED
    BY <1>2, <2>1
<1>4. RecoveryOK(r, t, w)
  BY <1>1 DEF RecoveryOK, InRecovery
<1>5. HdrKnown(r, t, new)
  <2>1. ~(r.hdr.mx = t.h0.mx) \/ ~(r.hdr.mx < t.h0.mx)
    BY <1>2
  <2>2. r.hdr.mx < t.h0.mx => r.hdr.mx <= t.h0.mx
    BY <1>2
  <2> QED
    BY <1>3, <2>1, <2>2 DEF HdrKnown, ConnOK
<1>6. SnapshotOK(r, t, w, b)
  <2>1. SnapshotOK(r, s, w, b) /\ InPlace(r) /\ Locked(r)
    BY DEF ConnOK
  <2>2. Seen(r, t, w, b) = Seen(r, s, w, b)
    BY DEF Seen
  <2>3. End(r, t) = End(r, s)
    BY DEF End
  <2>4. r.hdr.mx <= s.h0.mx => r.hdr.mx <= t.h0.mx
    BY <1>2
  <2>5. ~(r.rl = 0 /\ r.hdr = t.h0)
    <3>1. r.rl = 0 => r.at = "read"
      BY <1>1, <2>1 DEF Locked
    <3>2. r.at = "read" => Describes(r)
      BY <1>1, <2>1 DEF Describes, SnapshotOK, InPlace, Locked
    <3>3. r.hdr = t.h0 /\ Describes(r) => t.h0.mx < t.h0.mx
      BY <1>3
    <3>4. ~(t.h0.mx < t.h0.mx)
      BY <1>2
    <3> QED
      BY <3>1, <3>2, <3>3, <3>4
  <2> QED
    BY <2>1, <2>2, <2>3, <2>4, <2>5 DEF SnapshotOK
<1>7. ResetOK(r, t, new) /\ WriterOK(r, t, new) /\ WrittenOK(r, t, w)
  BY <1>1 DEF ResetOK, WriterOK, WrittenOK, AtReset, AtWrite
<1>8. CheckpointOK(r, t, w, b)
  <2>1. r.hdr.mx <= s.h0.mx => r.hdr.mx <= t.h0.mx
    BY <1>2
  <2> QED
    BY <2>1 DEF CheckpointOK, IsLast, ConnOK
<1> QED
  BY <1>4, <1>5, <1>6, <1>7, <1>8 DEF ConnOK

(* walIndexWriteHdr, the second copy of a commit: the frames of the        *)
(* writer become the committed image, all at once.                         *)
LEMMA PublishStep ==
  ASSUME Inv, NEW c \in Conn, Publish(c)
  PROVE  Inv'
<1>0. /\ con[c].at = "publish" /\ con[c] \in State /\ InPlace(con[c]) /\ Locked(con[c])
      /\ JobOK(con[c]) /\ SnapshotOK(con[c], shm, wal, db)
      /\ shm \in ShmType /\ wal \in LogType /\ db \in Image /\ FileTypes /\ ntxn \in 0 .. MaxTxn
  BY ConnNow DEF Publish
<1>1. PICK h \in Hdr : h = con[c].hdr
  BY <1>0, StateTypes
<1>2. PICK im \in Image : im = con[c].cache
  <2>1. con[c].cache # NoImage
    <3>1. con[c].tid # 0 /\ WriterOK(con[c], shm, committed)
      BY <1>0, ConnNow DEF Locked, AtWrite
    <3> QED
      BY <3>1 DEF WriterOK
  <2> QED
    BY <1>0, <2>1, Zenon DEF State
<1>3. PICK n : n = [con[c] EXCEPT !.at = "read", !.wl = FALSE, !.tid = 0]
  OBVIOUS
<1>4. con' = [con EXCEPT ![c] = n] /\ shm' = WithHdr(shm, h)
  BY <1>1, <1>3 DEF Publish, WithHdr
<1>5. n \in State
  <2>1. "read" \in AtAny /\ 0 \in 0 .. MaxTxn
    BY Nothing DEF AtAny
  <2> QED
    BY <1>0, <1>3, <2>1, Zenon DEF State
<1>6. /\ n.at = "read" /\ n.goal = con[c].goal /\ n.mode = con[c].mode /\ n.rl = con[c].rl
      /\ n.ex = con[c].ex /\ n.hdr = h /\ n.cache = im /\ n.tid = 0 /\ n.mi = con[c].mi
      /\ n.job = con[c].job /\ n.log = con[c].log
  BY <1>0, <1>1, <1>2, <1>3 DEF State
<1>7. ~n.wl /\ n.cl = con[c].cl /\ n.chg = con[c].chg
  BY <1>0, <1>3 DEF State
<1>8. /\ shm' \in ShmType /\ shm'.h0 = h /\ shm'.h1 = shm.h1 /\ shm'.backfill = shm.backfill
      /\ shm'.mark = shm.mark /\ shm'.pg = shm.pg
  BY <1>0, <1>4, HdrSet
<1>9. wal' = wal /\ db' = db /\ committed' = im /\ FileTypes' /\ ntxn' = ntxn
  BY <1>0, <1>2 DEF Publish, files, FileTypes
<1>10. /\ IndexOK(shm', wal, db, im) /\ h.init /\ shm.h0.init /\ shm.h0.mx < h.mx
       /\ shm.h1 = h /\ shm.backfill <= shm.h0.mx
  BY <1>0, <1>1, <1>2, <1>8, PublishedIndex
<1>11. shm.h0.mx \in Nat /\ h.mx \in Nat /\ shm.backfill \in Nat
  BY <1>0, <1>8, ShmTypes, Bounds
<1>12. /\ con[c].goal = "none" /\ con[c].wl /\ ~con[c].cl /\ ~con[c].chg /\ con[c].ex = {}
       /\ con[c].rl >= 1 /\ con[c].job = {} /\ con[c].log = <<>> /\ con[c].tid # 0
       /\ con[c].at \notin AtReset /\ con[c].at # "closed"
  BY <1>0 DEF InPlace, Locked, JobOK, AtWrite, AtReset, AtCkpt, InRecovery, Checkpointing
<1>13. ConnOK(n, shm', wal, db, im)
  <2>1. InPlace(n) /\ Locked(n) /\ JobOK(n)
    <3>1. InPlace(n)
      BY <1>6, <1>12 DEF InPlace, AtHdr, AtLock, AtReset, AtWrite, AtCkpt
    <3>2. Locked(n)
      <4>1. n.rl # -1
        BY <1>6, <1>12
      <4> QED
        BY <1>6, <1>7, <1>12, <4>1 DEF Locked, AtReset, AtWrite, AtCkpt, Checkpointing, InRecovery
    <3>3. JobOK(n)
      BY <1>6, <1>12 DEF JobOK
    <3> QED
      BY <3>1, <3>2, <3>3
  <2>2. HdrKnown(n, shm', im)
    <3>1. h.mx <= h.mx
      BY <1>11
    <3> QED
      BY <1>6, <1>8, <1>10, <1>12, <3>1 DEF HdrKnown
  <2>3. SnapshotOK(n, shm', wal, db)
    <3>1. /\ n.mi \in 1 .. shm'.backfill + 1 /\ shm.mark[n.rl] <= shm.h0.mx /\ n.rl >= 1
      BY <1>0, <1>6, <1>8, <1>12 DEF SnapshotOK, End
    <3>2. Seen(n, shm', wal, db) = im
      BY <1>0, <1>5, <1>6, <1>8, <1>10, <3>1, SeenAll
    <3>3. shm'.mark[n.rl] <= End(n, shm') /\ n.hdr.mx <= shm'.h0.mx /\ n.rl # 0
      <4>1. n.rl \in Slots
        <5>1. n.rl \in -1 .. NReader - 1
          BY <1>5, StateTypes
        <5> QED
          BY <3>1, <5>1, Bounds DEF Slots
      <4>2. shm.mark[n.rl] \in Nat
        BY <1>0, <4>1, Bounds, ShmTypes
      <4>3. shm.mark[n.rl] <= h.mx /\ h.mx <= h.mx /\ n.rl # 0
        BY <1>10, <1>11, <3>1, <4>2
      <4> QED
        BY <1>6, <1>7, <1>8, <4>3 DEF End
    <3>4. im # NoImage
      BY <1>2, MarkAssumption
    <3> QED
      BY <1>6, <1>10, <3>1, <3>2, <3>3, <3>4 DEF SnapshotOK
  <2>4. RecoveryOK(n, shm', wal) /\ ResetOK(n, shm', im) /\ WriterOK(n, shm', im)
    BY <1>6 DEF RecoveryOK, InRecovery, ResetOK, WriterOK, AtReset
  <2>5. WrittenOK(n, shm', wal) /\ CheckpointOK(n, shm', wal, db)
    <3>1. WrittenOK(n, shm', wal)
      BY <1>6 DEF WrittenOK
    <3>2. CheckpointOK(n, shm', wal, db)
      BY <1>6 DEF CheckpointOK, AtCkpt
    <3> QED
      BY <3>1, <3>2
  <2> QED
    BY <2>1, <2>2, <2>3, <2>4, <2>5 DEF ConnOK
<1>14. /\ con'[c] = n /\ \A d \in Conn \ {c} : con'[d] = con[d]
       /\ \A d \in Conn \ {c} : con[d] \in State /\ ConnOK(con[d], shm, wal, db, committed)
       /\ \A d, e \in Conn \ {c} : d # e => PairOK(con[d], con[e], shm)
  BY <1>4, OthersNow, Zenon
<1>15. ASSUME NEW d \in Conn \ {c}
       PROVE  /\ ~con[d].wl /\ con[d].tid = 0 /\ con[d].at \notin AtReset
              /\ con[d].hdr.gen = h.gen => h.gen = shm.h0.gen
              /\ PairOK(con[c], con[d], shm) /\ PairOK(con[d], con[c], shm)
  <2>1. PairOK(con[c], con[d], shm) /\ PairOK(con[d], con[c], shm)
    BY ConnNow
  <2>2. ~con[d].wl
    BY <1>12, <2>1 DEF PairOK, Apart
  <2>3. con[d].tid = 0 /\ con[d].at \notin AtReset
    BY <1>14, <2>2, WriterAlone
  <2>4. con[d].hdr.gen = h.gen => h.gen = shm.h0.gen
    BY <1>1, <1>12, <2>1 DEF PairOK, Fresh
  <2> QED
    BY <2>1, <2>2, <2>3, <2>4
<1>16. ASSUME NEW d \in Conn \ {c} PROVE ConnOK(con[d], shm', wal, db, im)
  <2>1. /\ con[d] \in State /\ ConnOK(con[d], shm, wal, db, committed) /\ ~con[d].wl
        /\ con[d].hdr.gen = h.gen => h.gen = shm.h0.gen
    BY <1>14, <1>15
  <2> QED
    BY <1>0, <1>8, <1>10, <2>1, OlderKept
<1>17. ASSUME NEW d \in Conn \ {c} PROVE PairOK(n, con[d], shm') /\ PairOK(con[d], n, shm')
  <2>1. NoMore(n, con[c])
    BY <1>6, <1>7, <1>12 DEF NoMore, InRecovery
  <2>2. Apart(n, con[d]) /\ Apart(con[d], n)
    BY <1>0, <1>5, <1>14, <1>15, <2>1, StaysApart DEF PairOK
  <2>3. Behind(n, con[d], shm')
    <3>1. End(con[c], shm) = shm.h0.mx /\ End(n, shm') = h.mx
      BY <1>6, <1>7, <1>12 DEF End
    <3>2. con[d].safe \in Nat /\ con[d].y \in Nat
      BY <1>14, StateTypes, Bounds
    <3>3. /\ con[d].safe <= shm.h0.mx => con[d].safe <= h.mx
          /\ con[d].y <= shm.h0.mx => con[d].y <= h.mx
      BY <1>10, <1>11, <3>2
    <3>4. Behind(con[c], con[d], shm)
      BY <1>15 DEF PairOK
    <3> QED
      BY <1>6, <3>1, <3>3, <3>4 DEF Behind
  <2>4. Behind(con[d], n, shm')
    BY <1>6 DEF Behind
  <2>5. Fresh(n, con[d], shm') /\ Fresh(con[d], n, shm')
    BY <1>6, <1>15 DEF Fresh, AtReset
  <2> QED
    BY <2>2, <2>3, <2>4, <2>5 DEF PairOK
<1>18. ASSUME NEW d \in Conn \ {c}, NEW e \in Conn \ {c}, d # e PROVE PairOK(con[d], con[e], shm')
  <2>1. PairOK(con[d], con[e], shm) /\ ~con[d].wl /\ con[e].tid = 0 /\ con[e].at \notin AtReset
    BY <1>14, <1>15, <1>18
  <2>2. Behind(con[d], con[e], shm')
    BY <2>1 DEF PairOK, Behind, End
  <2>3. Fresh(con[d], con[e], shm')
    BY <2>1 DEF Fresh, AtReset
  <2> QED
    BY <2>1, <2>2, <2>3 DEF PairOK
<1>19. ShmOK'
  <2>1. IndexOK(shm', wal', db', committed')
    BY <1>9, <1>10
  <2>2. \A d \in Conn : Half(con'[d], shm', wal')
    BY <1>8, <1>10 DEF Half
  <2>3. shm'.backfill <= shm'.h0.mx
    BY <1>8, <1>10, <1>11
  <2> QED
    BY <2>1, <2>2, <2>3 DEF ShmOK
<1>20. /\ ConnOK(n, shm', wal', db', committed') /\ committed' \in Image
       /\ \A d \in Conn \ {c} : ConnOK(con[d], shm', wal', db', committed')
  BY <1>9, <1>13, <1>16
<1> QED
  BY <1>0, <1>4, <1>5, <1>8, <1>9, <1>17, <1>18, <1>19, <1>20, LoudStep, Zenon

-----------------------------------------------------------------------------
(* Recovery: nobody else holds anything.                                   *)
LEMMA OtherSimple ==
  ASSUME NEW r \in State, NEW s, NEW w, NEW b, NEW im, ConnOK(r, s, w, b, im),
         ~r.wl, ~r.cl, r.rl = -1
  PROVE  Simple(r) /\ r.tid = 0 /\ r.ex = {} /\ r.at \notin AtReset /\ ~InRecovery(r)
<1>1. /\ r.tid = 0 /\ r.goal # "write" /\ ~InRecovery(r) /\ r.at # "locked"
      /\ r.at \notin AtReset \cup AtWrite /\ r.at # "cut"
  BY WriterAlone
<1>2. InPlace(r) /\ Locked(r) /\ JobOK(r) /\ SnapshotOK(r, s, w, b)
  BY DEF ConnOK
<1>3. r.at \notin AtCkpt /\ r.at # "read"
  <2>1. r.at \in AtCkpt => r.cl
    BY <1>2 DEF InPlace, Locked
  <2>2. r.at = "read" => r.rl # -1
    BY <1>2 DEF Locked
  <2> QED
    BY <2>1, <2>2
<1>4. r.at \in {"closed", "idle", "hdr", "badhdr", "locked", "choose", "marks", "lock"}
  BY <1>1, <1>3, StateTypes DEF AtAny, AtHdr, AtLock, AtReset, InRecovery
<1>5. r.job = {} /\ r.log = <<>> /\ (r.at = "lock" => r.y <= r.hdr.mx)
  BY <1>1, <1>2, <1>4 DEF JobOK, SnapshotOK
<1>6. r.ex = {}
  BY <1>1, <1>2, <1>4 DEF Locked, AtReset
<1> QED
  BY <1>1, <1>2, <1>4, <1>5, <1>6 DEF Simple

(* A step that leaves all others without a snapshot.                       *)
LEMMA AloneStep ==
  ASSUME Inv, NEW c \in Conn, NEW n \in State, con' = [con EXCEPT ![c] = n],
         FileTypes', shm' \in ShmType, committed' \in Image, ntxn' \in 0 .. MaxTxn, ShmOK',
         ConnOK(n, shm', wal', db', committed'), n.tid = 0, n.at # "reset2",
         \A d \in Conn \ {c} : /\ Simple(con[d]) /\ HdrKnown(con[d], shm', committed')
                               /\ Apart(n, con[d]) /\ Apart(con[d], n)
  PROVE  Inv'
<1>1. \A d \in Conn \ {c} : con[d] \in State
                            /\ \A e \in Conn \ {c} : d # e => PairOK(con[d], con[e], shm)
  BY OthersNow, Zenon
<1>2. ASSUME NEW d \in Conn \ {c}
      PROVE  /\ ConnOK(con[d], shm', wal', db', committed') /\ con[d].rl = -1
             /\ con[d].tid = 0 /\ con[d].at \notin Limited /\ con[d].at # "reset2"
  <2>1. con[d] \in State /\ Simple(con[d]) /\ HdrKnown(con[d], shm', committed')
    BY <1>1
  <2>2. ConnOK(con[d], shm', wal', db', committed') /\ con[d].rl = -1
    BY <2>1, SimpleOK
  <2> QED
    BY <2>1, <2>2 DEF Simple, Limited
<1>3. ASSUME NEW d \in Conn \ {c} PROVE PairOK(n, con[d], shm') /\ PairOK(con[d], n, shm')
  <2>1. Behind(n, con[d], shm') /\ Behind(con[d], n, shm')
    BY <1>2 DEF Behind, Limited
  <2>2. Fresh(n, con[d], shm') /\ Fresh(con[d], n, shm')
    BY <1>2 DEF Fresh
  <2> QED
    BY <2>1, <2>2 DEF PairOK
<1>4. ASSUME NEW d \in Conn \ {c}, NEW e \in Conn \ {c}, d # e PROVE PairOK(con[d], con[e], shm')
  <2>1. Apart(con[d], con[e])
    BY <1>1, <1>4 DEF PairOK
  <2>2. Behind(con[d], con[e], shm') /\ Fresh(con[d], con[e], shm')
    BY <1>2 DEF Behind, Fresh
  <2> QED
    BY <2>1, <2>2 DEF PairOK
<1> QED
  BY <1>2, <1>3, <1>4, LoudStep, Zenon

(* What is in the index of a log that is recovered.                        *)
RecoveredIndex ==
  [shm EXCEPT !.h1 = RecoveredHdr(wal),
              !.pg = IF wal.head = NoHead THEN @
                     ELSE [i \in Index |-> IF i \in Chain(wal) THEN wal.frame[i].pg ELSE 0]]

(* What recovery enters in the index agrees with what is committed, so     *)
(* nothing changes until the header is written.                            *)
LEMMA RecoveredIndexIs ==
  ASSUME Inv, NEW c \in Conn, con[c].at = "locked"
  PROVE  /\ RecoveredIndex \in ShmType /\ RecoveredIndex.h0 = shm.h0
         /\ RecoveredIndex.h1 = RecoveredHdr(wal) /\ RecoveredIndex.backfill = shm.backfill
         /\ Indexed(LastCommit(wal), RecoveredIndex, wal)
         /\ IndexOK(RecoveredIndex, wal, db, committed)
         /\ shm.h0.mx <= LastCommit(wal)
<1>0. shm \in ShmType /\ wal \in LogType /\ IndexOK(shm, wal, db, committed)
  BY ConnNow, IndexNow
<1>1. PICK h \in Hdr : h = RecoveredHdr(wal)
  BY <1>0, RecoveredHdrIs
<1>2. PICK pg : pg = IF wal.head = NoHead THEN shm.pg
                     ELSE [i \in Index |-> IF i \in Chain(wal) THEN wal.frame[i].pg ELSE 0]
  BY Zenon
<1>3. \A i \in Chain(wal) : i \in Index /\ wal.head # NoHead /\ wal.frame[i] # NoFrame
  <2>1. ASSUME NEW i \in Chain(wal) PROVE i \in Index /\ wal.head # NoHead /\ wal.frame[i] # NoFrame
    <3>1. wal.head # NoHead
      BY <2>1 DEF Chain
    <3>2. i \in Index /\ \A j \in 1 .. i : wal.frame[j] # NoFrame
      BY <2>1, <3>1 DEF Chain
    <3>3. i \in 1 .. i
      BY <3>2, Bounds DEF Index
    <3> QED
      BY <3>1, <3>2, <3>3
  <2> QED
    BY <2>1
<1>4. pg \in [Index -> 0 .. NPage]
  <2>1. shm.pg \in [Index -> 0 .. NPage] /\ 0 \in 0 .. NPage
    BY <1>0, ShmTypes, Bounds
  <2>2. \A i \in Chain(wal) : wal.frame[i].pg \in 0 .. NPage
    <3>1. \A p \in Page : p \in 0 .. NPage
      BY Bounds DEF Page
    <3> QED
      BY <1>0, <1>3, <3>1, LogTypes
  <2> QED
    BY <1>2, <2>1, <2>2
<1>5. RecoveredIndex = [shm EXCEPT !.h1 = h, !.pg = pg]
  BY <1>0, <1>1, <1>2 DEF RecoveredIndex, ShmType
<1>6. /\ RecoveredIndex \in ShmType /\ RecoveredIndex.h0 = shm.h0
      /\ RecoveredIndex.h1 = RecoveredHdr(wal) /\ RecoveredIndex.backfill = shm.backfill
      /\ RecoveredIndex.pg = pg
  BY <1>0, <1>1, <1>4, <1>5, Zenon DEF ShmType
<1>7. \A i \in Chain(wal) : pg[i] = wal.frame[i].pg
  BY <1>2, <1>3
<1>8. Indexed(LastCommit(wal), RecoveredIndex, wal)
  BY <1>0, <1>6, <1>7, LastCommitIs DEF Indexed
<1>9. shm.h0.init => \A i \in 1 .. shm.h0.mx : i \in Chain(wal) /\ pg[i] = shm.pg[i]
  <2>1. ASSUME shm.h0.init, NEW i \in 1 .. shm.h0.mx PROVE i \in Chain(wal) /\ pg[i] = shm.pg[i]
    <3>1. Chained(shm.h0.gen, shm.h0.mx, wal) /\ Indexed(shm.h0.mx, shm, wal)
      BY <1>0, <2>1 DEF IndexOK, HdrOf
    <3>2. shm.h0.mx \in 0 .. MaxFrame
      BY <1>0, ShmTypes
    <3>3. shm.h0.mx > 0 /\ i \in Index /\ \A j \in 1 .. i : j \in 1 .. shm.h0.mx
      BY <2>1, <3>2, Bounds DEF Index
    <3>4. wal.head # NoHead /\ wal.head.gen = shm.h0.gen
      BY <3>1, <3>3 DEF Chained
    <3>5. \A j \in 1 .. i : /\ wal.frame[j] # NoFrame /\ wal.frame[j].gen = wal.head.gen
                            /\ wal.frame[j].prev = IF j = 1 THEN 0 ELSE wal.frame[j - 1].tid
      BY <3>1, <3>3, <3>4 DEF Chained
    <3>6. i \in Chain(wal)
      BY <3>3, <3>4, <3>5 DEF Chain
    <3> QED
      BY <1>7, <2>1, <3>1, <3>6 DEF Indexed
  <2> QED
    BY <2>1
<1>10. IndexOK(RecoveredIndex, wal, db, committed)
  <2>1. CASE shm.h0.init
    BY <1>0, <1>6, <1>9, <2>1, IndexBeyond
  <2>2. CASE ~shm.h0.init
    <3>1. shm.backfill = 0 /\ shm.h0.mx = 0 /\ 1 .. 0 = {}
      BY <1>0, <2>2 DEF IndexOK
    <3> QED
      BY <1>6, <2>2, <3>1 DEF IndexOK
  <2> QED
    BY <2>1, <2>2
<1>11. shm.h0.mx <= LastCommit(wal)
  <2>0. shm.h0.mx \in 0 .. MaxFrame /\ LastCommit(wal) \in 0 .. MaxFrame /\ shm.h0.init \in BOOLEAN
    BY <1>0, ShmTypes, LastCommitIs
  <2>1. CASE shm.h0.mx = 0
    BY <2>0, <2>1, Bounds
  <2>2. CASE shm.h0.mx # 0
    <3>1. shm.h0.init
      BY <1>0, <2>2 DEF IndexOK
    <3>2. shm.h0.mx > 0 /\ shm.h0.mx \in Index
      BY <2>0, <2>2, Bounds DEF Index
    <3>3. /\ Chained(shm.h0.gen, shm.h0.mx, wal) /\ wal.frame[shm.h0.mx].com
          /\ wal.head.gen = shm.h0.gen
      BY <1>0, <3>1, <3>2 DEF IndexOK, HdrOf, Chained
    <3> QED
      BY <1>0, <3>2, <3>3, LastCommitIs
  <2> QED
    BY <2>1, <2>2
<1> QED
  BY <1>6, <1>8, <1>10, <1>11

-----------------------------------------------------------------------------
(* walIndexRecover reads the log.                                          *)
LEMMA RecoverStep ==
  ASSUME Inv, NEW c \in Conn, Recover(c)
  PROVE  Inv'
<1>0. /\ con[c].at = "locked" /\ con[c] \in State /\ InPlace(con[c]) /\ Locked(con[c])
      /\ JobOK(con[c]) /\ HdrKnown(con[c], shm, committed) /\ shm \in ShmType /\ wal \in LogType
      /\ FileTypes /\ committed \in Image /\ ntxn \in 0 .. MaxTxn
  BY ConnNow DEF Recover
<1>1. /\ con[c].wl /\ con[c].rl = -1 /\ con[c].tid = 0 /\ con[c].job = {} /\ con[c].log = <<>>
      /\ con[c].goal \in {"read", "ckpt", "close"} /\ (con[c].cl <=> Checkpointing(con[c]))
      /\ (Checkpointing(con[c]) => con[c].mode = "passive")
  <2>1. con[c].goal \in {"read", "ckpt", "close"}
    BY <1>0 DEF InPlace, AtHdr
  <2>2. con[c].job = {} /\ con[c].log = <<>>
    BY <1>0, <2>1 DEF JobOK
  <2> QED
    BY <1>0, <2>1, <2>2 DEF Locked, AtWrite, AtReset
<1>2. PICK h \in Hdr : h = RecoveredHdr(wal)
  BY <1>0, RecoveredHdrIs
<1>3. PICK k \in BOOLEAN : k = wal.head.nck
  BY <1>0 DEF LogType, HeadType
<1>4. PICK X \in SUBSET (0 .. NReader - 1) : X = {0} \cup Slots
  <2>1. {0} \cup Slots \subseteq 0 .. NReader - 1
    BY Bounds DEF Slots
  <2> QED
    BY <2>1, Zenon
<1>5. PICK n : n = [con[c] EXCEPT !.at = "recover2", !.ex = X, !.chg = TRUE, !.hdr = h, !.nck = k]
  OBVIOUS
<1>6. con' = [con EXCEPT ![c] = n] /\ shm' = RecoveredIndex /\ ~Readable
  BY <1>2, <1>3, <1>4, <1>5 DEF Recover, RecoveredIndex
<1>7. n \in State
  <2>1. "recover2" \in AtAny
    BY DEF AtAny, AtHdr
  <2> QED
    BY <1>0, <1>2, <1>3, <1>4, <1>5, <2>1, Zenon DEF State
<1>8. /\ n.at = "recover2" /\ n.goal = con[c].goal /\ n.mode = con[c].mode /\ n.rl = -1
      /\ n.ex = {0} \cup Slots /\ n.hdr = h /\ n.cache = con[c].cache /\ n.tid = 0
      /\ n.job = {} /\ n.log = <<>>
  BY <1>0, <1>1, <1>4, <1>5, <1>7 DEF State
<1>9. n.wl = con[c].wl /\ n.cl = con[c].cl /\ n.chg
  BY <1>0, <1>5, <1>7 DEF State
<1>10. /\ shm' \in ShmType /\ shm'.h0 = shm.h0 /\ shm'.h1 = h /\ shm'.backfill = shm.backfill
       /\ Indexed(h.mx, shm', wal) /\ IndexOK(shm', wal, db, committed)
       /\ shm.h0.mx <= h.mx
  <2>1. h.mx = LastCommit(wal)
    BY <1>0, <1>2, RecoveredHdrIs
  <2> QED
    BY <1>0, <1>2, <1>6, <2>1, RecoveredIndexIs
<1>11. /\ wal' = wal /\ db' = db /\ committed' = committed /\ FileTypes' /\ ntxn' = ntxn
  BY <1>0 DEF Recover, files, history, FileTypes
<1>12. ConnOK(n, shm', wal, db, committed)
  <2>1. InPlace(n)
    BY <1>1, <1>8 DEF InPlace, AtHdr, AtLock, AtReset, AtWrite, AtCkpt, Checkpointing
  <2>2. Locked(n)
    <3>1. Checkpointing(n) <=> Checkpointing(con[c])
      BY <1>8 DEF Checkpointing
    <3> QED
      BY <1>1, <1>8, <1>9, <3>1 DEF Locked, AtReset, AtWrite, AtCkpt, InRecovery
  <2>3. JobOK(n)
    BY <1>1, <1>8 DEF JobOK
  <2>4. RecoveryOK(n, shm', wal)
    BY <1>2, <1>8, <1>9, <1>10 DEF RecoveryOK
  <2>5. HdrKnown(n, shm', committed)
    BY <1>0, <1>8, <1>9, <1>10 DEF HdrKnown, Describes, AtHdr
  <2>6. SnapshotOK(n, shm', wal, db)
    BY <1>8 DEF SnapshotOK
  <2>7. ResetOK(n, shm', committed) /\ WriterOK(n, shm', committed)
    BY <1>8 DEF ResetOK, WriterOK, AtReset
  <2>8. WrittenOK(n, shm', wal) /\ CheckpointOK(n, shm', wal, db)
    <3>1. WrittenOK(n, shm', wal)
      BY <1>8 DEF WrittenOK
    <3>2. CheckpointOK(n, shm', wal, db)
      BY <1>8 DEF CheckpointOK, AtCkpt
    <3> QED
      BY <3>1, <3>2
  <2> QED
    BY <2>1, <2>2, <2>3, <2>4, <2>5, <2>6, <2>7, <2>8 DEF ConnOK
<1>13. /\ con'[c] = n /\ \A d \in Conn \ {c} : con'[d] = con[d]
       /\ \A d \in Conn \ {c} : con[d] \in State /\ ConnOK(con[d], shm, wal, db, committed)
  BY <1>6, OthersNow, Zenon
<1>14. ASSUME NEW d \in Conn \ {c}
       PROVE  /\ Simple(con[d]) /\ con[d].at \notin AtReset
              /\ HdrKnown(con[d], shm', committed)
              /\ Apart(n, con[d]) /\ Apart(con[d], n)
  <2>1. Apart(con[c], con[d]) /\ Apart(con[d], con[c])
    BY ConnNow DEF PairOK
  <2>2. ~con[d].wl /\ ~con[d].cl
    BY <1>1, <2>1 DEF Apart, Recover, CkptFree, Others
  <2>3. con[d].rl = -1
    <3>1. con[d].rl \notin {0} \cup Slots
      BY DEF Recover, AllFree, LockFree, Others
    <3>2. con[d].rl \in -1 .. NReader - 1
      BY <1>13, StateTypes
    <3> QED
      BY <3>1, <3>2, Bounds DEF Slots
  <2>4. Simple(con[d]) /\ con[d].ex = {} /\ con[d].at \notin AtReset /\ ~InRecovery(con[d])
    BY <1>13, <2>2, <2>3, OtherSimple
  <2>5. HdrKnown(con[d], shm', committed)
    BY <1>10, <1>13 DEF HdrKnown, ConnOK
  <2>6. /\ con[d].goal # "close" /\ (n.goal = "close" => con[d].at = "closed")
        /\ -1 \notin {0} \cup Slots
    <3>1. -1 \notin {0} \cup Slots
      BY Bounds DEF Slots
    <3> QED
      BY <1>0, <1>8, <2>1, <3>1 DEF Apart
  <2>7. Apart(n, con[d]) /\ Apart(con[d], n)
    BY <1>8, <2>2, <2>3, <2>4, <2>6 DEF Apart
  <2> QED
    BY <2>4, <2>5, <2>7
<1>15. ShmOK'
  <2>1. IndexOK(shm', wal', db', committed')
    BY <1>10, <1>11
  <2>2. shm'.backfill <= shm'.h0.mx
    BY <1>0, <1>1, <1>10, CopiedNow
  <2>3. ASSUME NEW d \in Conn PROVE Half(con'[d], shm', wal')
    <3>1. CASE d = c
      BY <1>9, <1>13, <3>1 DEF Half, Describes
    <3>2. CASE d # c
      <4>1. \A e \in Conn : con[e].at # "reset2"
        BY <1>0, <1>14 DEF AtReset
      <4>2. Half(con[d], shm, wal)
        BY <4>1 DEF Inv, ShmOK
      <4>3. shm.h0.init => shm.h0 # shm.h1
        BY <1>6 DEF Readable
      <4> QED
        BY <1>10, <1>11, <1>13, <3>2, <4>2, <4>3 DEF Half
    <3> QED
      BY <3>1, <3>2
  <2> QED
    BY <2>1, <2>2, <2>3 DEF ShmOK
<1>16. /\ ConnOK(n, shm', wal', db', committed') /\ committed' \in Image
       /\ \A d \in Conn \ {c} : HdrKnown(con[d], shm', committed')
  BY <1>0, <1>11, <1>12, <1>14
<1> QED
  BY <1>0, <1>6, <1>7, <1>8, <1>10, <1>11, <1>14, <1>15, <1>16, AloneStep, Zenon

-----------------------------------------------------------------------------
(* While a recovery is under way the others are waiting or idle.           *)
LEMMA DuringRecovery ==
  ASSUME Inv, NEW c \in Conn, InRecovery(con[c])
  PROVE  /\ con[c].wl /\ con[c].rl = -1 /\ con[c].tid = 0 /\ con[c].job = {} /\ con[c].log = <<>>
         /\ con[c].ex = {0} \cup Slots /\ con[c].chg /\ con[c].at # "closed"
         /\ con[c].goal \in {"read", "ckpt", "close"} /\ (con[c].cl <=> Checkpointing(con[c]))
         /\ Checkpointing(con[c]) => con[c].mode = "passive"
         /\ con[c].hdr = shm.h1 /\ con[c].hdr = RecoveredHdr(wal)
         /\ Indexed(con[c].hdr.mx, shm, wal)
         /\ \A d \in Conn \ {c} : /\ Simple(con[d]) /\ con[d].at \notin AtReset
                                  /\ Apart(con[c], con[d]) /\ Apart(con[d], con[c])
<1>0. /\ con[c] \in State /\ InPlace(con[c]) /\ Locked(con[c])
      /\ JobOK(con[c]) /\ RecoveryOK(con[c], shm, wal) /\ con[c].at \in {"recover2", "recover3"}
  BY ConnNow DEF InRecovery
<1>1. /\ con[c].goal \in {"read", "ckpt", "close"}
      /\ con[c].job = {} /\ con[c].log = <<>> /\ con[c].at # "closed"
  <2>1. con[c].goal \in {"read", "ckpt", "close"}
    BY <1>0 DEF InPlace, AtHdr
  <2> QED
    BY <1>0, <2>1 DEF JobOK
<1>2. /\ con[c].wl /\ con[c].rl = -1 /\ con[c].tid = 0 /\ con[c].ex = {0} \cup Slots
      /\ (con[c].cl <=> Checkpointing(con[c])) /\ (Checkpointing(con[c]) => con[c].mode = "passive")
  BY <1>0, <1>1 DEF Locked, AtWrite, AtReset
<1>3. ASSUME NEW d \in Conn \ {c}
      PROVE  /\ Simple(con[d]) /\ con[d].at \notin AtReset
             /\ Apart(con[c], con[d]) /\ Apart(con[d], con[c])
  <2>1. /\ Apart(con[c], con[d]) /\ Apart(con[d], con[c]) /\ con[d] \in State
        /\ ConnOK(con[d], shm, wal, db, committed)
    BY ConnNow DEF PairOK, Inv
  <2>2. ~con[d].wl /\ ~con[d].cl /\ con[d].rl \notin {0} \cup Slots
    BY <1>2, <2>1 DEF Apart
  <2>3. con[d].rl = -1
    <3>1. con[d].rl \in -1 .. NReader - 1
      BY <2>1, StateTypes
    <3> QED
      BY <2>2, <3>1, Bounds DEF Slots
  <2> QED
    BY <2>1, <2>2, <2>3, OtherSimple
<1> QED
  BY <1>0, <1>1, <1>2, <1>3 DEF RecoveryOK

(* The image that is recovered, as the new header tells it.                *)
LEMMA RecoveredImage ==
  ASSUME Inv, NEW c \in Conn, con[c].at = "recover2",
         NEW t \in ShmType, t.h0 = con[c].hdr, t.backfill = shm.backfill, t.pg = shm.pg
  PROVE  /\ IndexOK(t, wal, db, Recovered(wal)) /\ Recovered(wal) \in Image
         /\ Recovered(wal) = Overlay(con[c].hdr.mx, shm, wal, db)
         /\ con[c].hdr.init /\ con[c].hdr.gen = wal.head.gen
         /\ shm.h0.mx <= con[c].hdr.mx /\ shm.backfill <= shm.h0.mx
<1>0. /\ con[c] \in State /\ shm \in ShmType /\ wal \in LogType /\ RecoveryOK(con[c], shm, wal)
      /\ IndexOK(shm, wal, db, committed) /\ Types /\ InRecovery(con[c])
  BY ConnNow, IndexNow DEF Inv, InRecovery
<1>1. con[c].hdr = RecoveredHdr(wal) /\ Indexed(con[c].hdr.mx, shm, wal) /\ shm.h0.mx <= con[c].hdr.mx
  BY <1>0 DEF RecoveryOK
<1>2. con[c].hdr.mx = LastCommit(wal) /\ con[c].hdr.init /\ con[c].hdr.gen = wal.head.gen
  BY <1>0, <1>1, RecoveredHdrIs
<1>3. Recovered(wal) = Overlay(con[c].hdr.mx, shm, wal, db) /\ Recovered(wal) \in Image
  BY <1>0, <1>1, <1>2, RecoveredIs
<1>4. Recovered(wal) = Overlay(con[c].hdr.mx, t, wal, db)
  BY <1>3 DEF Overlay
<1>5. HdrOf(con[c].hdr, t, wal)
  <2>1. Indexed(LastCommit(wal), t, wal)
    BY <1>1, <1>2 DEF Indexed
  <2> QED
    BY <1>0, <1>1, <2>1, RecoveredHdrIs
<1>6. shm.backfill <= shm.h0.mx
  BY <1>0, CopiedNow, DuringRecovery
<1>7. shm.backfill \in Nat /\ shm.h0.mx \in Nat /\ con[c].hdr.mx \in Nat
  BY <1>0, ShmTypes, StateTypes, Bounds
<1>8. ASSUME NEW i \in 1 .. t.backfill, IsLast(i, con[c].hdr.mx, t)
      PROVE  db[t.pg[i]] = wal.frame[i].tid
  <2>1. i \in 1 .. shm.backfill /\ i \in 1 .. shm.h0.mx
    BY <1>6, <1>7
  <2>2. \A j \in i + 1 .. shm.h0.mx : j \in i + 1 .. con[c].hdr.mx
    BY <1>1, <1>7
  <2>3. IsLast(i, shm.h0.mx, shm)
    BY <1>8, <2>1, <2>2 DEF IsLast
  <2> QED
    BY <1>0, <2>1, <2>3 DEF IndexOK
<1>9. IndexOK(t, wal, db, Recovered(wal))
  BY <1>2, <1>4, <1>5, <1>8 DEF IndexOK
<1> QED
  BY <1>1, <1>2, <1>3, <1>6, <1>9

(* What was cached before the recovery is still known.                     *)
LEMMA KnownAfter ==
  ASSUME NEW r \in State, NEW s \in ShmType, NEW t \in ShmType, NEW w, NEW b, NEW im, NEW h \in Hdr,
         HdrKnown(r, s, im), Half(r, s, w), IndexOK(s, w, b, im),
         h.init, h.gen = w.head.gen, s.h1 = h, s.h0.mx <= h.mx, t.h0 = h
  PROVE  HdrKnown(r, t, Overlay(h.mx, s, w, b))
<1>1. r.hdr.mx \in Nat /\ s.h0.mx \in Nat /\ h.mx \in Nat
  BY ShmTypes, StateTypes, Bounds
<1>2. ASSUME Describes(r), r.hdr.gen = h.gen
      PROVE  r.hdr.mx <= h.mx /\ (r.hdr.mx = h.mx => r.cache = Overlay(h.mx, s, w, b))
  <2>1. s.h0.init
    BY <1>2 DEF HdrKnown, Describes
  <2>2. s.h0.gen = h.gen
    <3>1. CASE s.h0 = h
      BY <3>1
    <3>2. CASE s.h0 # h
      BY <1>2, <2>1, <3>2 DEF Half
    <3> QED
      BY <3>1, <3>2
  <2>3. r.hdr.mx <= s.h0.mx /\ (r.hdr.mx = s.h0.mx => r.cache = im)
    BY <1>2, <2>2 DEF HdrKnown
  <2>4. r.hdr.mx <= h.mx /\ (r.hdr.mx = h.mx => s.h0.mx = h.mx)
    BY <1>1, <2>3
  <2>5. im = Overlay(s.h0.mx, s, w, b)
    BY <2>1 DEF IndexOK
  <2> QED
    BY <2>3, <2>4, <2>5
<1> QED
  BY <1>2 DEF HdrKnown

(* walIndexRecover writes the header.                                      *)
LEMMA Recover2Step ==
  ASSUME Inv, NEW c \in Conn, Recover2(c)
  PROVE  Inv'
<1>0. /\ con[c].at = "recover2" /\ con[c] \in State /\ InPlace(con[c]) /\ Locked(con[c])
      /\ shm \in ShmType /\ wal \in LogType /\ FileTypes /\ ntxn \in 0 .. MaxTxn
      /\ IndexOK(shm, wal, db, committed) /\ InRecovery(con[c])
  BY ConnNow, IndexNow DEF Recover2, InRecovery
<1>1. PICK h \in Hdr : h = con[c].hdr
  BY <1>0, StateTypes
<1>2. PICK n : n = [con[c] EXCEPT !.at = "recover3"]
  BY Zenon
<1>3. con' = [con EXCEPT ![c] = n] /\ shm' = WithHdr(shm, h)
  BY <1>1, <1>2 DEF Recover2, WithHdr
<1>4. n \in State
  <2>1. "recover3" \in AtAny
    BY DEF AtAny, AtHdr
  <2> QED
    BY <1>0, <1>2, <2>1, Zenon DEF State
<1>5. /\ n.at = "recover3" /\ n.goal = con[c].goal /\ n.mode = con[c].mode /\ n.rl = con[c].rl
      /\ n.ex = con[c].ex /\ n.hdr = h /\ n.cache = con[c].cache /\ n.tid = con[c].tid
      /\ n.job = con[c].job /\ n.log = con[c].log
  BY <1>0, <1>1, <1>2 DEF State
<1>6. n.wl = con[c].wl /\ n.cl = con[c].cl /\ n.chg = con[c].chg
  BY <1>0, <1>2 DEF State
<1>7. /\ shm' \in ShmType /\ shm'.h0 = h /\ shm'.h1 = shm.h1 /\ shm'.backfill = shm.backfill
      /\ shm'.pg = shm.pg
  BY <1>0, <1>3, HdrSet
<1>8. PICK im \in Image : im = Recovered(wal)
  BY <1>0, <1>1, <1>7, RecoveredImage
<1>9. wal' = wal /\ db' = db /\ committed' = im /\ FileTypes' /\ ntxn' = ntxn
  BY <1>0, <1>8 DEF Recover2, files, FileTypes
<1>10. /\ IndexOK(shm', wal, db, im) /\ h.init /\ h.gen = wal.head.gen
       /\ shm.h0.mx <= h.mx /\ shm.backfill <= shm.h0.mx /\ im = Overlay(h.mx, shm, wal, db)
  BY <1>0, <1>1, <1>7, <1>8, RecoveredImage
<1>11. /\ con[c].chg /\ con[c].rl = -1 /\ con[c].tid = 0 /\ con[c].job = {} /\ con[c].log = <<>>
       /\ h = shm.h1 /\ h = RecoveredHdr(wal) /\ Indexed(h.mx, shm, wal)
       /\ con[c].goal \in {"read", "ckpt", "close"} /\ con[c].at # "closed"
       /\ con[c].wl /\ (con[c].cl <=> Checkpointing(con[c])) /\ con[c].ex = {0} \cup Slots
       /\ (Checkpointing(con[c]) => con[c].mode = "passive")
  BY <1>0, <1>1, DuringRecovery
<1>12. ConnOK(n, shm', wal, db, im)
  <2>1. InPlace(n)
    BY <1>5, <1>11 DEF InPlace, AtHdr, AtLock, AtReset, AtWrite, AtCkpt, Checkpointing
  <2>2. Locked(n)
    <3>1. Checkpointing(n) <=> Checkpointing(con[c])
      BY <1>5 DEF Checkpointing
    <3> QED
      BY <1>5, <1>6, <1>11, <3>1 DEF Locked, AtReset, AtWrite, AtCkpt, InRecovery
  <2>3. JobOK(n)
    BY <1>5, <1>11 DEF JobOK
  <2>4. RecoveryOK(n, shm', wal)
    BY <1>5, <1>6, <1>7, <1>11 DEF RecoveryOK, Indexed
  <2>5. HdrKnown(n, shm', im)
    BY <1>5, <1>6, <1>7, <1>10, <1>11 DEF HdrKnown, Describes, AtHdr
  <2>6. SnapshotOK(n, shm', wal, db)
    BY <1>5, <1>11 DEF SnapshotOK
  <2>7. ResetOK(n, shm', im) /\ WriterOK(n, shm', im)
    BY <1>5, <1>11 DEF ResetOK, WriterOK, AtReset
  <2>8. WrittenOK(n, shm', wal) /\ CheckpointOK(n, shm', wal, db)
    <3>1. WrittenOK(n, shm', wal)
      BY <1>5 DEF WrittenOK
    <3>2. CheckpointOK(n, shm', wal, db)
      BY <1>5 DEF CheckpointOK, AtCkpt
    <3> QED
      BY <3>1, <3>2
  <2> QED
    BY <2>1, <2>2, <2>3, <2>4, <2>5, <2>6, <2>7, <2>8 DEF ConnOK
<1>13. /\ con'[c] = n /\ \A d \in Conn \ {c} : con'[d] = con[d] /\ con[d] \in State
       /\ \A d \in Conn \ {c} : ConnOK(con[d], shm, wal, db, committed)
  BY <1>3, OthersNow, Zenon
<1>14. \A d \in Conn \ {c} : Half(con[d], shm, wal)
  <2>1. \A e \in Conn : con[e].at # "reset2"
    BY <1>0, DuringRecovery DEF AtReset
  <2> QED
    BY <2>1 DEF Inv, ShmOK
<1>15. ASSUME NEW d \in Conn \ {c}
       PROVE  /\ Simple(con[d]) /\ HdrKnown(con[d], shm', im)
              /\ Apart(n, con[d]) /\ Apart(con[d], n)
  <2>1. Simple(con[d]) /\ Apart(con[c], con[d]) /\ Apart(con[d], con[c])
    BY <1>0, DuringRecovery
  <2>2. HdrKnown(con[d], shm, committed) /\ con[d] \in State /\ Half(con[d], shm, wal)
    BY <1>13, <1>14 DEF ConnOK
  <2>3. HdrKnown(con[d], shm', im)
    BY <1>0, <1>7, <1>10, <1>11, <2>2, KnownAfter, Zenon
  <2>4. NoMore(n, con[c])
    BY <1>0, <1>5, <1>6, <1>11 DEF NoMore
  <2>5. Apart(n, con[d]) /\ Apart(con[d], n)
    BY <1>0, <1>4, <2>1, <2>2, <2>4, StaysApart
  <2> QED
    BY <2>1, <2>3, <2>5
<1>16. ShmOK'
  <2>1. IndexOK(shm', wal', db', committed')
    BY <1>9, <1>10
  <2>2. shm'.backfill <= shm'.h0.mx
    <3>1. shm.backfill \in Nat /\ shm.h0.mx \in Nat /\ h.mx \in Nat
      BY <1>0, <1>7, ShmTypes, Bounds
    <3> QED
      BY <1>7, <1>10, <3>1
  <2>3. \A d \in Conn : Half(con'[d], shm', wal')
    BY <1>7, <1>11 DEF Half
  <2> QED
    BY <2>1, <2>2, <2>3 DEF ShmOK
<1>17. /\ ConnOK(n, shm', wal', db', committed') /\ committed' \in Image
       /\ \A d \in Conn \ {c} : HdrKnown(con[d], shm', committed')
  BY <1>9, <1>12, <1>15
<1> QED
  BY <1>0, <1>3, <1>4, <1>5, <1>7, <1>9, <1>11, <1>15, <1>16, <1>17, AloneStep, Zenon

(* walIndexRecover sets nBackfill and the marks.                           *)
LEMMA Recover3Step ==
  ASSUME Inv, NEW c \in Conn, Recover3(c)
  PROVE  Inv'
<1>0. /\ con[c].at = "recover3" /\ con[c] \in State /\ InPlace(con[c]) /\ Locked(con[c])
      /\ RecoveryOK(con[c], shm, wal) /\ HdrKnown(con[c], shm, committed)
      /\ shm \in ShmType /\ FileTypes /\ committed \in Image /\ ntxn \in 0 .. MaxTxn
      /\ IndexOK(shm, wal, db, committed) /\ InRecovery(con[c])
  BY ConnNow, IndexNow DEF Recover3, InRecovery
<1>1. /\ con[c].chg /\ con[c].rl = -1 /\ con[c].tid = 0 /\ con[c].job = {} /\ con[c].log = <<>>
      /\ con[c].hdr = shm.h1 /\ con[c].hdr = shm.h0 /\ con[c].hdr = RecoveredHdr(wal)
      /\ con[c].goal \in {"read", "ckpt", "close"} /\ con[c].at # "closed"
      /\ con[c].wl /\ (con[c].cl <=> Checkpointing(con[c])) /\ con[c].ex = {0} \cup Slots
      /\ (Checkpointing(con[c]) => con[c].mode = "passive")
  BY <1>0, DuringRecovery DEF RecoveryOK
<1>2. shm.h0.init /\ shm.h0.mx \in 0 .. MaxFrame
  BY <1>0, <1>1, ConnNow, RecoveredHdrIs, ShmTypes, Zenon
<1>3. PICK at \in AtAny : at = IF con[c].goal = "read" THEN "choose" ELSE "ckpt"
  BY DEF AtAny, AtCkpt
<1>4. PICK x \in SUBSET (0 .. NReader - 1) : x = {}
  BY Zenon
<1>5. PICK m \in [Slots -> 0 .. NotUsed] :
        m = [i \in Slots |-> IF i = 1 /\ con[c].hdr.mx # 0 THEN con[c].hdr.mx ELSE NotUsed]
  <2>1. con[c].hdr.mx \in 0 .. NotUsed /\ NotUsed \in 0 .. NotUsed
    BY <1>1, <1>2, Bounds
  <2> QED
    BY <2>1, Zenon
<1>6. PICK h \in Hdr : h = shm.h0
  BY <1>0, ShmTypes
<1>7. PICK k \in BOOLEAN : k = (con[c].chg \/ con[c].hdr # shm.h0)
  BY Zenon
<1>8. PICK l : l = [con[c] EXCEPT !.hdr = h, !.chg = k, !.at = at]
  OBVIOUS
<1>9. PICK n : n = [l EXCEPT !.wl = FALSE, !.ex = x]
  OBVIOUS
<1>10. con' = [con EXCEPT ![c] = n] /\ shm' = [shm EXCEPT !.backfill = 0, !.mark = m]
  BY <1>3, <1>4, <1>5, <1>6, <1>7, <1>8, <1>9 DEF Recover3, Loaded
<1>11. l \in State
  BY <1>0, <1>8, Zenon DEF State
<1>12. n \in State
  BY <1>9, <1>11 DEF State
<1>13. /\ l.hdr = h /\ l.at = at /\ l.goal = con[c].goal /\ l.mode = con[c].mode
       /\ l.rl = con[c].rl /\ l.cache = con[c].cache
       /\ l.tid = con[c].tid /\ l.job = con[c].job /\ l.log = con[c].log
  BY <1>0, <1>8, <1>11 DEF State
<1>14. l.cl = con[c].cl /\ l.chg = k
  BY <1>0, <1>8, <1>11 DEF State
<1>15. /\ n.hdr = l.hdr /\ n.at = l.at /\ n.goal = l.goal /\ n.mode = l.mode
       /\ n.rl = l.rl /\ n.ex = {} /\ n.cache = l.cache
       /\ n.tid = l.tid /\ n.job = l.job /\ n.log = l.log
  BY <1>4, <1>9, <1>11, <1>12 DEF State
<1>16. ~n.wl /\ n.cl = l.cl /\ n.chg = l.chg
  BY <1>9, <1>11, <1>12 DEF State
<1>17. /\ n.at = IF con[c].goal = "read" THEN "choose" ELSE "ckpt"
       /\ n.hdr = shm.h0 /\ n.goal = con[c].goal /\ n.mode = con[c].mode /\ n.rl = -1
       /\ n.tid = 0 /\ n.job = {} /\ n.log = <<>> /\ n.cache = con[c].cache
       /\ n.chg /\ n.cl = con[c].cl
  BY <1>1, <1>3, <1>6, <1>7, <1>13, <1>14, <1>15, <1>16, Zenon
<1> HIDE <1>8, <1>9
<1>18. /\ shm' \in ShmType /\ shm'.h0 = shm.h0 /\ shm'.h1 = shm.h1 /\ shm'.backfill = 0
       /\ shm'.pg = shm.pg
  BY <1>0, <1>5, <1>10, Nothing, Zenon DEF ShmType
<1>19. wal' = wal /\ db' = db /\ committed' = committed /\ FileTypes' /\ ntxn' = ntxn
  BY <1>0 DEF Recover3, files, history, FileTypes
<1>20. HdrKnown(n, shm', committed)
  BY <1>0, <1>2, <1>17, <1>18 DEF HdrKnown, Describes
<1>21. InPlace(n)
  BY <1>1, <1>17 DEF InPlace, AtHdr, AtLock, AtReset, AtWrite, AtCkpt, Checkpointing
<1>22. Locked(n)
  <2>1. Checkpointing(n) <=> Checkpointing(con[c])
    BY <1>17 DEF Checkpointing
  <2>2. Checkpointing(con[c]) <=> con[c].goal # "read"
    BY <1>1 DEF Checkpointing
  <2> QED
    BY <1>1, <1>15, <1>16, <1>17, <2>1, <2>2 DEF Locked, AtReset, AtWrite, AtCkpt, InRecovery
<1>23. ConnOK(n, shm', wal, db, committed)
  <2>1. CASE con[c].goal = "read"
    <3>1. Simple(n)
      BY <1>17, <1>21, <1>22, <2>1 DEF Simple
    <3> QED
      BY <1>12, <1>20, <3>1, SimpleOK
  <2>2. CASE con[c].goal # "read"
    <3>1. n.at = "ckpt" /\ n.at \in AtCkpt
      BY <1>17, <2>2 DEF AtCkpt
    <3>2. shm.h0.mx <= shm.h0.mx
      BY <1>2, Bounds
    <3>3. CheckpointOK(n, shm', wal, db)
      BY <1>2, <1>16, <1>17, <1>18, <3>1, <3>2 DEF CheckpointOK
    <3> QED
      BY <1>12, <1>17, <1>20, <1>21, <1>22, <3>1, <3>3, CkptOK
  <2> QED
    BY <2>1, <2>2
<1>24. /\ con'[c] = n /\ \A d \in Conn \ {c} : con'[d] = con[d] /\ con[d] \in State
       /\ \A d \in Conn \ {c} : ConnOK(con[d], shm, wal, db, committed)
  BY <1>10, OthersNow, Zenon
<1>25. ASSUME NEW d \in Conn \ {c}
       PROVE  /\ Simple(con[d]) /\ HdrKnown(con[d], shm', committed)
              /\ Apart(n, con[d]) /\ Apart(con[d], n)
  <2>1. Simple(con[d]) /\ Apart(con[c], con[d]) /\ Apart(con[d], con[c])
    BY <1>0, DuringRecovery
  <2>2. HdrKnown(con[d], shm', committed)
    BY <1>18, <1>24 DEF HdrKnown, ConnOK
  <2>3. NoMore(n, con[c])
    BY <1>0, <1>1, <1>15, <1>16, <1>17 DEF NoMore, InRecovery
  <2>4. Apart(n, con[d]) /\ Apart(con[d], n)
    BY <1>0, <1>12, <1>24, <2>1, <2>3, StaysApart
  <2> QED
    BY <2>1, <2>2, <2>4
<1>26. ShmOK'
  <2>1. IndexOK(shm', wal, db, committed)
    <3>1. 1 .. 0 = {}
      OBVIOUS
    <3> QED
      BY <1>0, <1>2, <1>18, <3>1 DEF IndexOK, HdrOf, Indexed, Overlay
  <2>2. IndexOK(shm', wal', db', committed')
    BY <1>19, <2>1
  <2>3. shm'.backfill <= shm'.h0.mx
    BY <1>2, <1>18, Bounds
  <2>4. \A d \in Conn : Half(con'[d], shm', wal')
    BY <1>1, <1>18, Zenon DEF Half
  <2> QED
    BY <2>2, <2>3, <2>4 DEF ShmOK
<1>27. /\ ConnOK(n, shm', wal', db', committed') /\ committed' \in Image
       /\ \A d \in Conn \ {c} : HdrKnown(con[d], shm', committed')
  BY <1>0, <1>19, <1>23, <1>25
<1>28. n.at # "reset2" /\ n.tid = 0
  BY <1>17
<1> QED
  BY <1>0, <1>10, <1>12, <1>18, <1>19, <1>25, <1>26, <1>27, <1>28, AloneStep, Zenon

=============================================================================
