---------------------------- MODULE WalInvariant ----------------------------
(***************************************************************************)
(* Why readers of the write-ahead log keep their snapshots: the inductive  *)
(* invariant of Wal.  Locks say who is where in a call, the wal-index what *)
(* the log holds, read marks what a checkpoint may copy, and headers which *)
(* of the pages that connections have cached are still the committed ones. *)
(*                                                                         *)
(* The parts of it are operators on one connection r or two, r and q, the  *)
(* wal-index s, the log w, the database file b and the committed image im: *)
(* a step that leaves these alone leaves alone what is said of them.       *)
(***************************************************************************)
EXTENDS Wal

AtHdr   == {"hdr", "badhdr", "locked", "recover2", "recover3"}
AtLock  == {"marks", "lock"}
AtReset == {"reset2", "reset3"}
AtWrite == {"write", "restart", "header", "hdrsync", "frame", "index", "failed", "publish"}
AtCkpt  == {"ckpt", "mark", "marklock", "backfill", "copy", "done"}
AtAny   == {"closed", "idle", "choose", "read", "cut"}
           \cup AtHdr \cup AtLock \cup AtReset \cup AtWrite \cup AtCkpt

State ==
  [at : AtAny, goal : {"none", "read", "write", "ckpt", "close"},
   mode : {"passive", "full", "truncate"},
   rl : -1 .. NReader - 1, wl : BOOLEAN, cl : BOOLEAN, ex : SUBSET (0 .. NReader - 1),
   hdr : Hdr, nck : BOOLEAN, chg : BOOLEAN, mi : 0 .. MaxFrame + 1,
   cache : Image \cup {NoImage}, tid : 0 .. MaxTxn, job : SUBSET Page,
   log : Seq(Page), com : BOOLEAN,
   it : [Page -> 0 .. MaxFrame], i : Nat, y : 0 .. NotUsed,
   safe : 0 .. MaxFrame, bf : 0 .. MaxFrame]

HeadType == [gen : Salt \cup {0}, nck : BOOLEAN]
LogType  == [head : HeadType, frame : [Index -> Frame \cup {NoFrame}]]
ShmType  == [h0 : Hdr, h1 : Hdr, backfill : 0 .. MaxFrame,
             mark : [Slots -> 0 .. NotUsed], pg : [Index -> 0 .. NPage]]

FileTypes ==
  /\ db \in Image
  /\ dbOld \in [Page -> SUBSET (Pages \cup {Torn})]
  /\ wal \in LogType
  /\ walOld \in [Index -> SUBSET (Frame \cup {NoFrame})]
  /\ headOld \subseteq HeadType
  /\ cutOld \in LogType

Types ==
  /\ FileTypes
  /\ shm \in ShmType
  /\ con \in [Conn -> State]
  /\ committed \in Image
  /\ ntxn \in 0 .. MaxTxn

-----------------------------------------------------------------------------
(* The steps of a call come in the order of the code, with the locks that  *)
(* are held in each of them.                                               *)
Checkpointing(r) == r.goal \in {"ckpt", "close"}
InRecovery(r)    == r.at \in {"recover2", "recover3"}

InPlace(r) ==
  /\ r.at \in {"closed", "idle", "read", "write", "publish"} <=> r.goal = "none"
  /\ r.at \in {"choose"} => r.goal = "read"
  /\ r.at \in AtHdr => r.goal \in {"read", "ckpt", "close"}
  /\ r.at \in AtLock => r.goal \in {"read", "write"}
  /\ r.at \in AtReset => r.goal \in {"write", "ckpt"}
  /\ r.at \in AtWrite \ {"write", "publish"} => r.goal = "write"
  /\ r.at \in AtCkpt => Checkpointing(r)
  /\ r.at = "cut" => r.goal = "ckpt"
  /\ r.goal = "close" => r.mode = "passive"
  /\ r.at \in {"lock", "mark", "marklock"} => r.i \in Slots

Locked(r) ==
  /\ r.cl <=> Checkpointing(r)
  /\ r.rl # -1 <=> r.at \in AtWrite \cup {"read"} \/ (r.at \in AtReset /\ r.goal = "write")
  /\ r.at = "restart" \/ (r.at \in AtReset /\ r.goal = "write") => r.rl = 0
  /\ r.at \in AtWrite \ {"write", "restart"} => r.rl >= 1
  /\ r.ex = IF InRecovery(r) THEN {0} \cup Slots
            ELSE IF r.at \in AtReset \cup {"cut"} THEN Slots
            ELSE IF r.at = "copy" THEN {0} ELSE {}
  /\ r.tid # 0 <=> r.at \in AtWrite \/ r.goal = "write"
  /\ r.wl <=> \/ r.tid # 0
              \/ r.at \in {"locked", "recover2", "recover3"}
              \/ r.at \in {"hdr", "cut"} \cup AtCkpt \cup AtReset /\ r.mode # "passive"
                 /\ Checkpointing(r)
  /\ r.at \in {"badhdr", "locked", "recover2", "recover3"} /\ Checkpointing(r)
       => r.mode = "passive"
  /\ r.at \in AtReset \cup {"cut"} /\ Checkpointing(r) => r.mode = "truncate"
  /\ r.chg => r.goal \in {"read", "ckpt", "close"}
  /\ r.at = "closed" => r.cache = NoImage

(* What two connections hold, and that the one that closes is alone.       *)
Apart(r, q) ==
  /\ ~(r.wl /\ q.wl)
  /\ ~((r.cl \/ InRecovery(r)) /\ (q.cl \/ InRecovery(q)))
  /\ r.rl \notin q.ex
  /\ r.ex \cap q.ex = {}
  /\ q.goal = "close" => r.at = "closed"

-----------------------------------------------------------------------------
Alive == \E c \in Conn : con[c].at # "closed"

(* Frames 1 to n of the log are a chain of generation g.                   *)
Chained(g, n, w) ==
  /\ n > 0 => w.head # NoHead /\ w.head.gen = g
  /\ \A i \in 1 .. n :
       /\ w.frame[i] # NoFrame
       /\ w.frame[i].gen = g
       /\ w.frame[i].prev = IF i = 1 THEN 0 ELSE w.frame[i - 1].tid

(* The wal-index has their pages.                                          *)
Indexed(n, s, w) == \A i \in 1 .. n : s.pg[i] = w.frame[i].pg

(* h is the header of a log that ends with a commit.                       *)
HdrOf(h, s, w) ==
  /\ Chained(h.gen, h.mx, w) /\ Indexed(h.mx, s, w)
  /\ h.mx > 0 => w.frame[h.mx].com /\ w.frame[h.mx].tid = h.sum

(* Frame i is the last one of its page among the first n.                  *)
IsLast(i, n, s) == i \in 1 .. n /\ \A j \in i + 1 .. n : s.pg[j] # s.pg[i]

(* What the first n frames make of the database file.                      *)
Overlay(n, s, w, b) ==
  [p \in Page |->
    LET found == {i \in 1 .. n : s.pg[i] = p}
    IN  IF found = {} THEN b[p] ELSE w.frame[Max(found)].tid]

(* What the wal-index says of the log and of the database file.            *)
IndexOK(s, w, b, im) ==
  /\ s.h0.init => HdrOf(s.h0, s, w) /\ im = Overlay(s.h0.mx, s, w, b)
  /\ ~s.h0.init => s.h0.mx = 0 /\ s.backfill = 0
  /\ \A i \in 1 .. s.backfill : IsLast(i, s.h0.mx, s) => b[s.pg[i]] = w.frame[i].tid

(* The header of a connection says which image it has cached.              *)
Describes(r) == r.cache # NoImage /\ ~r.chg /\ r.tid = 0 /\ r.hdr.init

(* The copies of its header differ while a commit, a recovery or a reset   *)
(* writes them, and when whoever did that has died.  Then recovery may     *)
(* find a generation of the log that no cache is of.                       *)
Half(r, s, w) ==
  /\ s.h0.init /\ s.h0 # s.h1 /\ w.head.gen # s.h0.gen
  /\ Describes(r)
  => r.hdr.gen # w.head.gen

RecoveryOK(r, s, w) ==
  /\ InRecovery(r) =>
       r.chg /\ r.hdr = s.h1 /\ r.hdr = RecoveredHdr(w) /\ Indexed(r.hdr.mx, s, w)
  /\ r.at = "recover2" => s.h0.mx <= r.hdr.mx
  /\ r.at = "recover3" => s.h0 = r.hdr

-----------------------------------------------------------------------------
(* A header that has been loaded.  While it is the newest one, the cache   *)
(* that it describes is the committed database.                            *)
HdrKnown(r, s, im) ==
  /\ r.cache # NoImage => s.h0.init
  /\ r.goal = "read" /\ r.at \notin AtHdr => r.hdr.init /\ s.h0.init
  /\ Describes(r) /\ r.hdr.gen = s.h0.gen =>
       r.hdr.mx <= s.h0.mx /\ (r.hdr.mx = s.h0.mx => r.cache = im)

(* What a connection sees of the wal-index s, the log w and the file b.    *)
Seen(r, s, w, b) ==
  [p \in Page |->
    LET found == {i \in r.mi .. r.hdr.mx : s.pg[i] = p}
    IN  IF r.rl = 0 \/ r.hdr.mx = 0 \/ found = {} THEN b[p]
        ELSE IF w.frame[Max(found)] = NoFrame THEN Torn
        ELSE w.frame[Max(found)].tid]

(* A snapshot ends where it began even if its owner writes.                *)
End(r, s) == IF r.wl THEN s.h0.mx ELSE r.hdr.mx

SnapshotOK(r, s, w, b) ==
  /\ r.at = "read" => r.hdr.init /\ r.cache # NoImage /\ r.cache = Seen(r, s, w, b)
  /\ r.at = "lock" => r.y <= r.hdr.mx
  /\ r.rl >= 1 =>
       /\ r.mi \in 1 .. s.backfill + 1
       /\ s.mark[r.rl] <= End(r, s)
       /\ r.at = "read" => r.hdr.mx <= s.h0.mx
  /\ r.rl = 0 /\ r.at \notin AtReset /\ r.hdr = s.h0 => s.backfill = s.h0.mx

-----------------------------------------------------------------------------
(* A reset of the log.                                                     *)
ResetOK(r, s, im) ==
  /\ r.at \in AtReset \cup {"cut"} =>
       s.h0.init /\ r.hdr.init /\ r.hdr.mx = 0 /\ s.h1 = r.hdr
  /\ r.at = "reset2" =>
       /\ s.backfill = s.h0.mx
       /\ r.hdr.gen \notin {0, s.h0.gen}
       /\ r.tid = 0 /\ r.cache # NoImage /\ ~r.chg => r.cache = im
  /\ r.at \in {"reset3", "cut"} => s.h0 = r.hdr

(* The pages that a writer has changed: those it has yet to write, and     *)
(* those of its frames, which are behind those of the last commit.         *)
Changed(r, s) ==
  r.job \cup {r.log[j] : j \in 1 .. Len(r.log)}
  \cup {s.pg[i] : i \in s.h0.mx + 1 .. r.hdr.mx}

WriterOK(r, s, im) ==
  r.tid # 0 =>
    /\ s.h0.init /\ r.hdr.init /\ r.cache # NoImage
    /\ \A p \in Page : r.cache[p] = IF p \in Changed(r, s) THEN r.tid ELSE im[p]
    /\ r.at \in AtLock \cup {"restart", "header"} => r.hdr = s.h0
    /\ r.at = "write" /\ (r.rl = 0 \/ r.hdr.mx = s.h0.mx) => r.hdr = s.h0
    /\ r.at \in AtLock \cup {"restart"} => s.backfill = s.h0.mx
    /\ r.at \in {"header", "hdrsync"} => r.hdr.mx = 0
    /\ r.at # "reset2" => s.h0.mx <= r.hdr.mx
    /\ r.at \notin AtReset /\ r.hdr.gen # s.h0.gen => s.h0.mx = 0 /\ r.hdr.gen # 0

(* What it still has to write.                                             *)
JobOK(r) ==
  /\ r.goal # "write" \/ r.at = "index" => r.job = {}
  /\ r.goal = "write" /\ r.at \notin {"index", "failed"} => r.job # {}
  /\ r.at \notin {"frame", "index", "failed"} => r.log = <<>>
  /\ r.at = "index" => r.log # <<>>
  /\ r.at = "restart" => Cardinality(r.job) <= MaxFrame
  /\ r.goal = "write" /\ r.at \notin {"restart", "failed"} =>
       r.hdr.mx + Len(r.log) + Cardinality(r.job) <= MaxFrame

(* What it has written.                                                    *)
WrittenOK(r, s, w) ==
  LET n == r.hdr.mx + Len(r.log)
  IN  /\ r.at = "hdrsync" => w.head # NoHead /\ w.head.gen = r.hdr.gen /\ r.hdr.sum = 0
      /\ r.at \in {"write", "frame", "index", "failed", "publish"} =>
           /\ Chained(r.hdr.gen, r.hdr.mx, w) /\ Indexed(r.hdr.mx, s, w)
           /\ \A i \in s.h0.mx + 1 .. r.hdr.mx : w.frame[i].tid = r.tid
      /\ r.at \in {"frame", "index"} =>
           /\ w.head # NoHead /\ w.head.gen = r.hdr.gen /\ Chained(r.hdr.gen, n, w)
           /\ \A j \in 1 .. Len(r.log) :
                w.frame[r.hdr.mx + j].pg = r.log[j] /\ w.frame[r.hdr.mx + j].tid = r.tid
           /\ r.hdr.sum = IF n = 0 THEN 0 ELSE w.frame[n].tid
      /\ r.at \in {"write", "publish"} /\ r.hdr.mx > 0 => w.frame[r.hdr.mx].tid = r.hdr.sum
      /\ r.at = "index" /\ r.com => w.frame[n].com
      /\ r.at = "publish" => s.h1 = r.hdr /\ r.hdr.mx > s.h0.mx /\ w.frame[r.hdr.mx].com

-----------------------------------------------------------------------------
(* A checkpoint, which copies the last frame of each page.                 *)
CheckpointOK(r, s, w, b) ==
  /\ r.at \in AtCkpt => s.h0.init /\ r.hdr.mx <= s.h0.mx /\ r.hdr.init
  /\ r.at \in AtCkpt /\ r.wl => r.hdr = s.h0 /\ s.h0 = s.h1
  /\ r.at \in {"mark", "marklock", "backfill", "copy"} =>
       /\ r.safe <= r.hdr.mx
       /\ \A p \in Page :
            IF r.it[p] = 0 THEN \A i \in 1 .. r.hdr.mx : s.pg[i] # p
            ELSE IsLast(r.it[p], r.hdr.mx, s) /\ s.pg[r.it[p]] = p
  /\ r.at = "marklock" => r.y < r.safe
  /\ r.at = "backfill" => r.i = 0
  /\ r.at = "copy" =>
       /\ r.bf = s.backfill /\ r.bf < r.safe
       /\ \A p \in Page : p <= r.i /\ r.it[p] \in r.bf + 1 .. r.safe =>
            b[p] = w.frame[r.it[p]].tid

(* No reader r is behind the checkpoint q, but for those whose mark is yet *)
(* to be looked at.                                                        *)
Behind(r, q, s) ==
  r.rl >= 1 /\ q.at \in {"mark", "marklock", "backfill", "copy"} =>
    \/ q.safe <= End(r, s)
    \/ q.at = "mark" /\ r.rl >= q.i
    \/ q.at = "marklock" /\ r.rl > q.i
    \/ q.at = "marklock" /\ r.rl = q.i /\ q.y <= End(r, s)

(* Nobody has the header of a log that q has begun.                        *)
Fresh(r, q, s) ==
  /\ q.at = "reset2" => r.hdr.gen # q.hdr.gen /\ r.at \notin AtCkpt
  /\ q.tid # 0 /\ q.at \notin AtReset /\ q.hdr.gen # s.h0.gen => r.hdr.gen # q.hdr.gen

ConnOK(r, s, w, b, im) ==
  /\ InPlace(r) /\ Locked(r) /\ JobOK(r)
  /\ RecoveryOK(r, s, w) /\ HdrKnown(r, s, im) /\ SnapshotOK(r, s, w, b)
  /\ ResetOK(r, s, im) /\ WriterOK(r, s, im) /\ WrittenOK(r, s, w)
  /\ CheckpointOK(r, s, w, b)

PairOK(r, q, s) == Apart(r, q) /\ Behind(r, q, s) /\ Fresh(r, q, s)

ShmOK ==
  /\ Alive => IndexOK(shm, wal, db, committed)
  /\ (\A c \in Conn : con[c].at # "reset3") => shm.backfill <= shm.h0.mx
  /\ (\A c \in Conn : con[c].at # "reset2") => \A c \in Conn : Half(con[c], shm, wal)

Inv ==
  /\ Types
  /\ ShmOK
  /\ \A c \in Conn : ConnOK(con[c], shm, wal, db, committed)
  /\ \A c, d \in Conn : c # d => PairOK(con[c], con[d], shm)

=============================================================================
