--------------------------- MODULE PagerInvariant ---------------------------
(***************************************************************************)
(* Why the pager keeps its promises: the inductive invariant of Pager, a   *)
(* clause for each thing the code relies on.  Locks say who may touch the  *)
(* database file, the journal what it takes to undo that, and the clauses  *)
(* of a connection what it knows of the file and of its own changes.       *)
(***************************************************************************)
EXTENDS Pager

(* The steps of a call come in the order of the code.                      *)
InPlace(c) ==
  LET at   == pager[c].at
      goal == pager[c].goal
      e    == pager[c].eState
  IN  /\ e = "READER" => at = "idle"
      /\ e = "WRITER_LOCKED" => at \in {"idle", "release"} /\ goal = "none"
      /\ at \in {"hotExists", "hotReserved", "hotOpen", "hotByte", "hotLock", "hotExclusive",
                "hotFailed", "recover", "validate"} => e = "OPEN" /\ goal = "none"
      /\ at = "idle" => goal = "none" /\ e # "WRITER_FINISHED"
      /\ at \in {"pending", "upgrade", "exclusive", "reread"} => e = "WRITER_CACHEMOD"
      /\ at \in {"header", "sync"} => e \in {"WRITER_CACHEMOD", "WRITER_DBMOD"}
      /\ at = "write" => e = "WRITER_DBMOD"
      /\ at \in {"pending", "upgrade", "exclusive", "reread", "header", "sync", "write"}
           => goal \in {"commit", "spill"}
      /\ at = "failed" =>
           e \in {"WRITER_CACHEMOD", "WRITER_DBMOD"} /\ goal = "commit"
      /\ at = "replay" =>
           \/ e = "OPEN" /\ goal = "hot"
           \/ e = "WRITER_DBMOD" /\ goal = "rollback"
      /\ at = "finalize" =>
           \/ e = "OPEN" /\ goal = "hot"
           \/ e \in {"WRITER_CACHEMOD", "WRITER_DBMOD"} /\ goal = "rollback"
           \/ e = "WRITER_FINISHED" /\ goal = "commit"
      /\ at \in {"downgrade", "regain", "release"} =>
           \/ e = "OPEN" /\ goal \in {"hot", "quiet"}
           \/ e \in {"WRITER_CACHEMOD", "WRITER_DBMOD"} /\ goal = "rollback"
           \/ e = "WRITER_LOCKED" /\ at = "release"
           \/ e = "WRITER_FINISHED" /\ goal = "commit"

(* Between giving up a read lock, or the whole range, and asking again.    *)
Gap == {"exclusive", "reread", "regain"}

(* A writer may have asked in vain: winLock has not given it its read lock *)
(* back.  RESERVED_LOCK keeps other writers away from it.                  *)
MayLose(c) == Vfs = "win" /\ pager[c].eState \in Modified

Outside(c) ==
  pager[c].eState = "OPEN" /\ pager[c].at \in {"idle", "hotExclusive", "hotFailed", "unlock"}

NeedsRange(c) ==
  \/ pager[c].at \in {"recover", "replay", "header", "sync", "write", "downgrade"}
  \/ pager[c].eState = "WRITER_DBMOD" /\ pager[c].at \in {"idle", "failed", "finalize"}
  \/ pager[c].eState \in {"OPEN", "WRITER_FINISHED"} /\ pager[c].at = "finalize"

Locked(c) ==
  /\ Outside(c) \/ c \in shared \/ excl = c \/ pager[c].at = "regain" \/ MayLose(c)
  /\ NeedsRange(c) => excl = c
  /\ reserved = c <=> pager[c].eState \in Writer
  /\ excl # NoConn =>
       c \notin shared /\ ~(pager[c].at = "regain" /\ pager[c].eState = "OPEN")
  /\ excl = c => \/ NeedsRange(c) \/ pager[c].at = "unlock"
                 \/ pager[c].eState \in Modified /\ pager[c].at \notin Gap \cup {"release"}
  /\ pager[c].at \in Gap \cup {"hotExclusive"} => Vfs = "win"

-----------------------------------------------------------------------------
Sized(f, n) == \A p \in Page : f[p] # Absent <=> p <= n

Clean == \A p \in Page : db[p] = committed[p] /\ dbOld[p] = {}

Kept(j, p) == j.rec[p] # Absent /\ p \in j.cnt /\ p \in j.dur

(* Rolling back j gives image, whatever the disk has kept.                 *)
Restores(j, image) ==
  /\ j.magic => j.orig # 0
  /\ j.orig # 0 => j.exists /\ Sized(image, j.orig)
  /\ \A p \in Page :
       /\ ~j.magic \/ (p <= j.orig /\ ~Kept(j, p)) => db[p] = image[p] /\ dbOld[p] = {}
       /\ j.orig # 0 /\ j.rec[p] # Absent => j.rec[p] = image[p]

UnderKey(k, f) == \A p \in Page : f[p] # Absent => f[p].key = k

FilesOK ==
  /\ \E n \in Page : Sized(committed, n)
  /\ Restores(jrnl, committed)
  /\ ~jrnl.firm => Clean
  /\ jrnlOld # NoneOld => ~jrnl.firm /\ Restores(jrnlOld.jrnl, jrnlOld.image)

(* All pages are under one key, and so were those of an old journal.       *)
KeysOK(k) ==
  /\ UnderKey(k, committed)
  /\ \E old \in Key : UnderKey(old, jrnlOld.image)

NeedsClean(c) ==
  \/ pager[c].eState \in {"READER", "WRITER_LOCKED"}
  \/ pager[c].eState = "WRITER_CACHEMOD" /\ pager[c].at # "unlock"
  \/ pager[c].at \in {"validate", "downgrade", "regain", "release"}
  \/ pager[c].at = "finalize" /\ pager[c].goal # "commit"
  \/ pager[c].eState \in Writer /\ excl # c

ReplayOK(c) ==
  pager[c].at = "replay" =>
    /\ pager[c].job \subseteq Records(jrnl)
    /\ \A p \in Page : p \notin pager[c].job => db[p] = committed[p]
    /\ ~jrnl.magic => pager[c].job = {}

-----------------------------------------------------------------------------
(* Page p in the cache of c is that of f, the committed one or the one in  *)
(* the file, and has been read with the right key.                         *)
Holds(c, p, f) ==
  /\ pager[c].cache[p] \in Content /\ f[p] \in Stored
  /\ pager[c].cache[p].tid = f[p].tid /\ pager[c].cache[p].ctr = f[p].ctr

(* Nothing is cached before page 1.  If that is legible, all pages are.    *)
FirstPageFirst(c) ==
  \A p \in Page : pager[c].cache[p] # Absent =>
    /\ pager[c].cache[1] # Absent
    /\ pager[c].cache[p] = Garbage => pager[c].cache[1] = Garbage

(* The key that a writer reads with is that of the database.               *)
KnowsKey(c) == rkey[c] = committed[1].key

Ended(c) == pager[c].at \in {"downgrade", "regain", "release"}

(* The header of a journal is written by one who has the whole range: it   *)
(* is not there before, and not any more when the range is given up.       *)
HeaderOK(c) ==
  pager[c].eState \in Modified /\ (excl # c \/ Ended(c)) => ~jrnl.magic

(* What a connection outside a transaction has kept in its cache.          *)
StaleOK(c) ==
  pager[c].eState = "OPEN" /\ pager[c].at # "unlock" =>
    /\ FirstPageFirst(c)
    /\ pager[c].cache[1] # Absent =>
         /\ pager[c].dbFileVers \in FileVers
         /\ pager[c].dbFileVers.ctr <= committed[1].ctr
         /\ pager[c].dbFileVers.ctr = committed[1].ctr =>
              \A p \in Page : pager[c].cache[p] \in {Absent, Garbage} \/ Holds(c, p, committed)

IsSettled(c) ==
  \/ pager[c].eState \in {"READER", "WRITER_LOCKED"}
  \/ pager[c].eState \in Modified /\ pager[c].at # "unlock"
     /\ (Ended(c) \/ pager[c].goal = "rollback")

(* A connection with a transaction that has nothing to write.              *)
SettledOK(c) ==
  IsSettled(c) =>
    /\ FirstPageFirst(c)
    /\ Sized(committed, pager[c].dbSize)
    /\ pager[c].cache[1] # Absent => pager[c].dbFileVers = Version(committed[1])
    /\ \A p \in Page : pager[c].cache[p] \in {Absent, Garbage} \/ Holds(c, p, committed)

(* Before its first write.                                                 *)
UnwrittenOK(c) ==
  /\ pager[c].eState \notin Modified \/ (pager[c].at # "unlock" /\ Ended(c)) =>
       pager[c].dirty = {} /\ pager[c].needSync = {} /\ pager[c].inJournal = {}
  /\ pager[c].eState = "WRITER_LOCKED" =>
       /\ pager[c].dbOrigSize = pager[c].dbSize
       /\ pager[c].cache[1] \notin {Absent, Garbage}
       /\ KnowsKey(c)

IsChanging(c) ==
  pager[c].eState \in Modified /\ pager[c].at # "unlock"
  /\ ~Ended(c) /\ pager[c].goal # "rollback"

(* It has its journal open, which keeps others on Windows from deleting it.*)
OpenOK(c) == IsChanging(c) => c \in jopen

(* The transaction in the journal.                                         *)
JournalledOK(c) ==
  IsChanging(c) =>
    /\ jrnl.orig = pager[c].dbOrigSize /\ pager[c].dbOrigSize # 0
    /\ pager[c].dbOrigSize <= pager[c].dbSize
    /\ \A p \in Page : jrnl.rec[p] # Absent <=> p \in pager[c].inJournal
    /\ pager[c].inJournal \subseteq 1 .. pager[c].dbOrigSize
    /\ pager[c].eState # "WRITER_CACHEMOD" =>
         /\ jrnl.firm /\ jrnl.magic
         /\ \A p \in pager[c].inJournal \ pager[c].needSync : Kept(jrnl, p)
    /\ pager[c].at = "sync" => jrnl.magic /\ jrnl.cnt = pager[c].inJournal
    /\ pager[c].at = "write" =>
         \A p \in pager[c].job : p <= pager[c].dbOrigSize => Kept(jrnl, p)

(* Its pages in the cache.                                                 *)
CachedOK(c) ==
  IsChanging(c) =>
    /\ KnowsKey(c)
    /\ pager[c].cache[1] \in Content
    /\ \A p \in Page :
         /\ pager[c].cache[p] # Absent =>
              /\ pager[c].cache[p] \in Content
              /\ p <= pager[c].dbSize
              /\ Holds(c, p, committed) \/ pager[c].cache[p].tid = pager[c].tid
              /\ p <= pager[c].dbOrigSize /\ p \notin pager[c].inJournal
                 => Holds(c, p, committed)
              /\ p \notin pager[c].dirty => Holds(c, p, db)
         /\ p \in pager[c].dirty =>
              /\ pager[c].cache[p] # Absent /\ pager[c].cache[p].tid = pager[c].tid
              /\ p <= pager[c].dbOrigSize => p \in pager[c].inJournal

(* Its pages in the database file.                                         *)
WrittenOK(c) ==
  IsChanging(c) =>
    /\ \A p \in Page :
         /\ p > pager[c].dbSize => db[p] = Absent
         /\ p > pager[c].dbOrigSize /\ p <= pager[c].dbSize =>
              p \in pager[c].dirty \/ db[p] # Absent
         /\ pager[c].at # "failed" =>
              \/ db[p] = committed[p]
              \/ db[p] \in Stored /\ db[p].key = wkey[c] /\ db[p].tid = pager[c].tid

(* A commit that changes the key has every page of the database to write   *)
(* or has written it.                                                      *)
Rewritten(c) ==
  \/ wkey[c] = rkey[c]
  \/ \A p \in Page : p <= pager[c].dbSize /\ p \notin pager[c].dirty =>
       db[p] \in Stored /\ db[p].key = wkey[c]

(* Its commit.                                                             *)
CommitOK(c) ==
  IsChanging(c) =>
    /\ \/ pager[c].goal = "commit" /\ pager[c].at \in {"write", "failed", "finalize"}
       \/ pager[c].dbFileVers = Version(committed[1])
    /\ pager[c].goal = "commit" =>
         /\ 1 \in pager[c].dirty /\ pager[c].cache[1].ctr = committed[1].ctr + 1
         /\ Rewritten(c)
    /\ pager[c].at = "write" => pager[c].job \subseteq pager[c].dirty
    /\ pager[c].goal = "spill" => pager[c].job \subseteq pager[c].dirty \ {1}
    /\ pager[c].at = "write" /\ pager[c].goal = "commit" =>
         /\ \A p \in pager[c].dirty \ pager[c].job : Holds(c, p, db) /\ db[p].key = wkey[c]
         /\ 1 \notin pager[c].job => pager[c].dbFileVers = Version(db[1])
    /\ pager[c].eState = "WRITER_FINISHED" =>
         /\ \A p \in Page : pager[c].cache[p] # Absent => Holds(c, p, db)
         /\ \A p \in Page : dbOld[p] = {}
         /\ Sized(db, pager[c].dbSize)
         /\ pager[c].dbFileVers = Version(db[1])
         /\ UnderKey(wkey[c], db)

ConnOK(c) ==
  /\ NeedsClean(c) => Clean
  /\ ReplayOK(c) /\ StaleOK(c) /\ SettledOK(c) /\ UnwrittenOK(c)
  /\ JournalledOK(c) /\ CachedOK(c) /\ WrittenOK(c) /\ CommitOK(c)

Control == \A c \in Conn : InPlace(c) /\ Locked(c)

InvUnder(k) ==
  /\ TypeOK /\ KeysOK(k) /\ Control /\ FilesOK
  /\ \A c \in Conn : ConnOK(c) /\ HeaderOK(c) /\ OpenOK(c)

(* A step of a connection.  When its process ends, so does its codec.      *)
Ends(c) ==
  /\ Die(c)
  /\ rkey' \in [Conn -> Key] /\ wkey' \in [Conn -> Key]
  /\ \A d \in Conn \ {c} : rkey'[d] = rkey[d] /\ wkey'[d] = wkey[d]

Acts(c) == Call(c) \/ Continue(c) \/ Ends(c)

(* What a step of c takes that depends on keys: a writer has read page 1   *)
(* with the right key, what it reads after that is legible, and it does    *)
(* not commit before all pages are under its new key.                      *)
KeysFit(c) ==
  /\ Begin(c) => KnowsKey(c)
  /\ \A p \in Page : Read(c, p) /\ p # 1 /\ pager[c].cache[1] # Garbage
                     => Decrypt(rkey[c], db[p]) # Garbage
  /\ Commit(c) => Rewritten(c)

(* Without rekeying all connections have the same key.                     *)
SameKeys(k) ==
  /\ UnderKey(k, jrnlOld.image)
  /\ \A c \in Conn :
       /\ rkey[c] = k /\ wkey[c] = k
       /\ pager[c].at # "unlock" => pager[c].cache[1] # Garbage

PagerInv == \E k \in Key : InvUnder(k) /\ SameKeys(k)

=============================================================================
