----------------------------- MODULE WalDurable -----------------------------
(***************************************************************************)
(* Why nothing is lost of what a commit has returned: the part of the      *)
(* inductive invariant of Wal that says what the disk may have of the log  *)
(* and of the database file, and what recovery makes of that.              *)
(***************************************************************************)
EXTENDS WalInvariant

(* What the disk may have of frame i.                                      *)
Versions(i) == walOld[i] \cup {wal.frame[i]}

(* The salts of the wal-index.  Before the first frame is written a header *)
(* with these may replace the one of the log.                              *)
Again   == [gen |-> shm.h0.gen, nck |-> TRUE]
Empty   == Alive /\ shm.h0.init /\ shm.h0.mx = 0
With(h) == [wal EXCEPT !.head = h]

(* The logs that may be left, now or once that header is written.          *)
Heads == headOld \cup {wal.head} \cup (IF Empty THEN {Again} ELSE {})

Left ==
  {w \in [head : Heads, frame : [Index -> UNION {Versions(i) : i \in Index}]] :
     \A i \in Index : w.frame[i] \in Versions(i)}

(* Where a log may end: before its first frame, or with a commit.          *)
Ends(w) == {0} \cup {i \in Chain(w) : w.frame[i].com}

(* What the first n frames of w make of the file b.                        *)
Made(w, b, n) ==
  [p \in Page |->
    LET found == {i \in 1 .. n : w.frame[i].pg = p}
    IN  IF found = {} THEN b[p] ELSE w.frame[Max(found)].tid]

Outcomes == {committed} \cup doubt

Clean   == \A p \in Page : dbOld[p] = {}
Settled == headOld = {} /\ cutOld = NoWal

-----------------------------------------------------------------------------
(* The first n frames are on the disk.  A log that has them all ends, as   *)
(* far as it goes beyond, with the committed image or one in doubt, and so *)
(* does a log of another header.                                           *)
OnDisk(n) == \A i \in 1 .. n : walOld[i] = {}

Survives(n) ==
  \A w \in Left : \A j \in Ends(w) :
    j >= n \/ n \notin Ends(w) => Made(w, db, j) \in Outcomes

(* What is copied to the database file, or has been and is not on the disk *)
(* there, is among these frames.                                           *)
Covers(n) ==
  /\ \A p \in Page : dbOld[p] # {} =>
       Settled /\ n \in Ends(wal) /\ \E i \in 1 .. n : wal.frame[i].pg = p
  /\ \A c \in Conn : con[c].at = "copy" => Settled /\ n \in Ends(wal) /\ con[c].safe <= n

(* Whoever has frames of its own writes them behind these.                 *)
Appends(r) ==
  r.at \in {"frame", "index", "publish"} \/ (r.at = "write" /\ r.hdr.mx > shm.h0.mx)

Floor(n) ==
  /\ OnDisk(n) /\ Survives(n) /\ Covers(n)
  /\ n \in Ends(wal) \/ Ends(wal) = {0}
  /\ Empty => n \in Ends(With(Again)) \/ Ends(With(Again)) = {0}
  /\ Alive /\ shm.h0.init /\ shm.h0.mx > 0 => n <= shm.h0.mx
  /\ \A c \in Conn : Appends(con[c]) => n <= shm.h0.mx

CutOK == cutOld # NoWal => Made(cutOld, db, LastCommit(cutOld)) \in Outcomes

-----------------------------------------------------------------------------
(* A frame belongs to a generation of the log and to a transaction; those  *)
(* two say which one it is.                                                *)
FrameFits(f) == f = NoFrame \/ (f.gen # 0 /\ f.tid <= ntxn /\ f.prev <= ntxn)

FramesOK ==
  /\ \A i \in Index : FrameFits(cutOld.frame[i]) /\ \A f \in Versions(i) : FrameFits(f)
  /\ \A i \in Index : \A f, g \in Versions(i) :
       f # NoFrame /\ g # NoFrame /\ f.gen = g.gen /\ f.tid = g.tid => f = g
  /\ \A h \in headOld \cup {wal.head, cutOld.head} : h.gen = 0 => h = NoHead

NoneOf(g) == \A i \in Index : \A f \in Versions(i) : f = NoFrame \/ f.gen # g

(* Beyond the last commit that the wal-index knows there is at most one.   *)
TailOK ==
  Alive /\ shm.h0.init =>
    \A i \in Chain(With(Again)) : i > shm.h0.mx + 1 => ~wal.frame[i - 1].com

(* The frames of a writer are behind that commit too, and no others follow *)
(* them.  The last one ends its transaction.                               *)
Reach(r) == r.hdr.mx + Len(r.log)

WriterFits(r) ==
  /\ r.tid <= ntxn
  /\ r.tid # 0 => \A i \in Index : \A f \in Versions(i) :
       f = NoFrame \/ r.tid \notin {f.tid, f.prev} \/ i \in shm.h0.mx + 1 .. Reach(r)
  /\ r.at \in {"write", "frame", "index"} =>
       \A i \in shm.h0.mx + 1 .. Reach(r) :
          wal.frame[i].com => r.at = "index" /\ r.com /\ i = Reach(r)
  /\ r.at = "publish" /\ SyncFull => Settled /\ \A i \in Index : walOld[i] = {}
  /\ r.at = "reset2" \/ (r.at = "hdrsync" /\ r.hdr.gen # shm.h0.gen) => NoneOf(r.hdr.gen)

(* A writer that need not count a checkpoint keeps the salts it has.       *)
SaltsKept(r) ==
  r.nck => /\ r.at # "closed"
           /\ r.at = "recover2" => wal.head.nck
           /\ r.at \notin {"recover2", "reset2"} => shm.h0.init /\ shm.h0.gen # 0

HeadOK ==
  /\ Alive /\ shm.h0.init /\ wal.head = NoHead /\ (\A c \in Conn : con[c].at # "reset2")
     => shm.h0 = shm.h1
  /\ Alive /\ shm.h0.init /\ shm.backfill >= shm.h0.mx => Clean

(* The last connection to close has copied all of the log when it is done. *)
ClosingOK(r) ==
  r.goal = "close" =>
    /\ r.at \in AtCkpt => r.hdr.mx = shm.h0.mx
    /\ r.at \in AtCkpt \ {"ckpt", "done"} => r.safe = r.hdr.mx
    /\ r.at = "done" => shm.backfill >= r.hdr.mx

Durable ==
  /\ \E n \in 0 .. MaxFrame : Floor(n)
  /\ CutOK /\ FramesOK /\ TailOK /\ HeadOK
  /\ \A c \in Conn : WriterFits(con[c]) /\ SaltsKept(con[c]) /\ ClosingOK(con[c])

-----------------------------------------------------------------------------
(* Recovery finds what is committed, or what is in doubt.                  *)
Recovers == Recovered(wal) \in {committed} \cup doubt

(* From its last frame on, the image that a commit makes is in doubt.      *)
Owes(r)  == r.at = "publish" \/ (r.at = "index" /\ r.com)
Promised == \A c \in Conn : Owes(con[c]) => con[c].cache \in doubt
=============================================================================
