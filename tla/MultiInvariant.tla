--------------------------- MODULE MultiInvariant ---------------------------
(***************************************************************************)
(* Why a transaction over several files is atomic: the inductive invariant *)
(* of MultiCommit.  Locks say who may touch a file and its journal, the    *)
(* journal says what is to be undone, the master journal whether it is,    *)
(* and what the disk may still hold says no more than what is there.       *)
(***************************************************************************)
EXTENDS MultiCommit

Contents == SUBSET (0 .. MaxTxn)
Journal  == [orig : Contents, firm : BOOLEAN, master : 0 .. MaxTxn]
Level    == {"none", "shared", "reserved", "exclusive"}

Growing == {"idle", "lock", "master"}
Rolling == {"hot", "check", "restore", "sync", "finish", "delmaster"}
Filing  == {"name", "syncjournal", "write", "syncdb"}
Ending  == {"unlink", "syncdir", "phase2"}

State ==
  [at : Growing \cup Rolling \cup Filing \cup Ending, tid : 0 .. MaxTxn,
   files : SUBSET File, todo : SUBSET File, cur : 0 .. NFile,
   master : 0 .. MaxTxn, res : BOOLEAN, left : SUBSET File]

Types ==
  /\ db \in [File -> Contents]
  /\ dbOld \in [File -> SUBSET Contents]
  /\ jrnl \in [File -> Journal \cup {NoJournal}]
  /\ jrnlOld \in [File -> SUBSET (Journal \cup {NoJournal})]
  /\ mj \subseteq Txn
  /\ mjOld \subseteq [tid : Txn, by : SUBSET File]
  /\ named \in [Txn -> SUBSET File]
  /\ lock \in [Conn -> [File -> Level]]
  /\ con \in [Conn -> State]
  /\ returned \subseteq Txn
  /\ ntxn \in 0 .. MaxTxn

-----------------------------------------------------------------------------
(* The files that a connection has RESERVED_LOCK or more on.               *)
Own(c) ==
  {f \in File :
     \/ f \in con[c].files /\ con[c].at # "phase2"
     \/ f \in con[c].todo /\ con[c].at \in Rolling \cup {"phase2"}
     \/ f = con[c].cur /\ con[c].at \in Rolling \ {"delmaster"}}

LocksOK ==
  /\ \A c \in Conn, f \in File :
       lock[c][f] \in {"reserved", "exclusive"} <=> f \in Own(c)
  /\ \A c, d \in Conn, f \in File : c # d =>
       /\ lock[c][f] = "exclusive" => lock[d][f] = "none"
       /\ lock[c][f] = "reserved" => lock[d][f] \in {"none", "shared"}
  /\ \A c \in Conn :
       /\ con[c].at \in Filing \cup Ending \cup {"master"} =>
            \A f \in Own(c) : lock[c][f] = "exclusive"
       /\ con[c].at = "lock" =>
            \A f \in con[c].files \ con[c].todo : lock[c][f] = "exclusive"

(* The steps of a call come in the order of the code.                      *)
InPlace(c) ==
  LET r == con[c]
  IN  /\ r.tid = 0 <=> r.files = {}
      /\ r.tid <= ntxn
      /\ r.at = "idle" => r.todo = {}
      /\ r.at \in Filing \cup Ending \cup {"lock", "master"} =>
           r.files # {} /\ r.todo # {} /\ r.todo \subseteq r.files
      /\ r.at \in {"master", "unlink", "syncdir"} => Multi(c) /\ r.todo = r.files
      /\ r.at = "phase2" => Multi(c) \/ r.todo = r.files
      /\ r.at \in Rolling =>
           /\ r.cur \in File \ (r.files \cup r.todo)
           /\ r.files = {} \/ r.todo = {}
           /\ r.at = "hot" => r.todo = {}

-----------------------------------------------------------------------------
(* The journals of f that the disk may hold after a power failure.         *)
OnDisk(f) == ({jrnl[f]} \cup jrnlOld[f]) \ {NoJournal}

Firm(f) == jrnl[f] # NoJournal /\ jrnl[f].firm
Live(f) == Firm(f) /\ jrnl[f].master \in mj \cup {0}

(* a and b have the same transactions over several files, but for t.       *)
SameBut(f, a, b, t) == \A u \in Txn : f \in named[u] /\ u # t => (u \in a <=> u \in b)

FileOK(f) ==
  /\ Firm(f) => jrnlOld[f] = {}
  /\ ~Live(f) => 0 \notin db[f] /\ dbOld[f] = {}
  /\ \A j \in OnDisk(f) :
       /\ 0 \notin j.orig
       /\ j.master # 0 => f \in named[j.master] /\ j.master \notin j.orig
       /\ j.firm => (Live(f) /\ j = jrnl[f]) \/ SameBut(f, j.orig, db[f], j.master)

(* Who may read a file has nothing to roll back.                           *)
NothingHot ==
  \A c \in Conn, f \in File : lock[c][f] \in {"shared", "reserved"} => ~Firm(f)

-----------------------------------------------------------------------------
(* The files of a transaction on their way through a commit.               *)
MasterOf(c) == IF Multi(c) THEN con[c].tid ELSE 0

Journalled(f, firm, m) ==
  /\ jrnl[f] # NoJournal /\ jrnl[f].orig = db[f]
  /\ jrnl[f].firm = firm /\ jrnl[f].master = m

Written(c, f) ==
  /\ Firm(f) /\ jrnl[f].master = MasterOf(c)
  /\ db[f] = jrnl[f].orig \cup {con[c].tid}

Done(c, f) == Written(c, f) /\ dbOld[f] = {}

Staged(c) ==
  LET r == con[c]
  IN  /\ r.at \in Growing \cup Rolling => \A f \in r.files : Journalled(f, FALSE, 0)
      /\ r.at \in Filing =>
           /\ \A f \in r.files \ r.todo : Done(c, f)
           /\ \A f \in r.todo : r.at = "name" \/ f # This(c) => Journalled(f, FALSE, 0)
      /\ r.at = "syncjournal" => Journalled(This(c), FALSE, MasterOf(c))
      /\ r.at = "write" => Journalled(This(c), TRUE, MasterOf(c))
      /\ r.at = "syncdb" => Written(c, This(c))
      /\ r.at \in Ending => \A f \in r.todo : Done(c, f)

(* Its master journal.                                                     *)
Mastered(c) ==
  LET r == con[c]
  IN  /\ r.at \in Filing \cup Ending =>
           named[r.tid] = IF Multi(c) THEN r.files ELSE {}
      /\ r.at \in Filing \cup {"unlink"} => (r.tid \in mj <=> Multi(c))
      /\ r.at \in {"syncdir", "phase2"} => r.tid \notin mj
      /\ r.at \in Filing \cup {"unlink", "phase2"} => \A o \in mjOld : o.tid # r.tid
      /\ r.at = "phase2" => \A f \in named[r.tid] : r.tid \in Recovered(f)

(* A journal that is rolled back.                                          *)
Rolled(c) ==
  LET r == con[c]
      j == jrnl[r.cur]
  IN  /\ r.at \in Rolling \ {"delmaster"} => j # NoJournal
      /\ r.at \in Rolling => \A f \in r.todo : jrnl[f] # NoJournal
      /\ r.at \in {"restore", "sync", "finish"} =>
           r.master = j.master /\ (r.res <=> r.master \in mj \cup {0})
      /\ r.at = "restore" => r.res
      /\ r.at \in {"sync", "finish"} /\ r.res /\ j.firm => db[r.cur] = j.orig
      /\ r.at = "finish" => dbOld[r.cur] = {}
      /\ r.at = "delmaster" =>
           r.res /\ r.master # 0
           /\ \A f \in named[r.master] \ r.left : ~Names(f, r.master)
      /\ r.at \in {"restore", "sync", "finish", "delmaster"} /\ r.res /\ r.master # 0 =>
           \A d \in Conn : con[d].tid # r.master

-----------------------------------------------------------------------------
(* A transaction that has written nothing is nowhere.                      *)
Unused(t) ==
  /\ named[t] = {} /\ t \notin mj \cup returned
  /\ \A o \in mjOld : o.tid # t
  /\ \A f \in File :
       /\ t \notin db[f] /\ \A s \in dbOld[f] : t \notin s
       /\ \A j \in OnDisk(f) : t \notin j.orig /\ j.master # t
  /\ \A c \in Conn : con[c].master # t

Numbered ==
  /\ \A c, d \in Conn : con[c].tid = con[d].tid /\ con[c].tid # 0 => c = d
  /\ \A t \in Txn : \A c \in Conn :
       con[c].tid = t /\ con[c].at \in Growing \cup Rolling => Unused(t)
  /\ \A t \in Txn : t > ntxn => Unused(t)

(* As long as its master journal is there a transaction is rolled back     *)
(* everywhere, and a master journal that may return finds either all of    *)
(* its journals, or no trace of the transaction.                           *)
MastersOK ==
  /\ \A t \in mj : \A f \in named[t] : t \notin Recovered(f)
  /\ \A o \in mjOld :
       /\ o.by \in {named[o.tid], {}} /\ o.tid \notin mj
       /\ \A f \in o.by : \A j \in OnDisk(f) : j.master = o.tid => j.firm
       /\ o.by = {} => \A f \in named[o.tid] : o.tid \notin Recovered(f)
  /\ \A t \in returned : t \notin mj /\ \A o \in mjOld : o.tid # t

Inv ==
  /\ Types /\ LocksOK /\ NothingHot /\ Numbered /\ MastersOK
  /\ \A f \in File : FileOK(f)
  /\ \A c \in Conn : InPlace(c) /\ Staged(c) /\ Mastered(c) /\ Rolled(c)
  /\ AllOrNone /\ CommitStays

=============================================================================
