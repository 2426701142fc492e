-------------------------------- MODULE Rekey --------------------------------
(***************************************************************************)
(* Changing the key of a database: sqlite3_rekey_v2 of codecext.c, run     *)
(* over the pager.  The call changes the flags and keys of the codec, then *)
(* rewrites every page in one transaction, then brings the codec in line   *)
(* with the outcome.  Only the middle part runs under db->mutex.           *)
(*                                                                         *)
(* The pager sees of a codec what sqlite3Codec makes of its flags: the key *)
(* that pages are read with (and the journal is written with), and the key *)
(* that pages of the database file are written with.  NoKey is plain text. *)
(***************************************************************************)
EXTENDS Pager

CONSTANTS
  NoKey,       \* no encryption
  StartKey,    \* keys the database may have to begin with
  RekeyTo,     \* keys the application changes to; NoKey decrypts
  Rekeyers,    \* connections that call sqlite3_rekey
  Mistaken,    \* connections that may be opened with a wrong key
  Threaded,    \* whether other threads use the connection during the call
  InTransaction  \* whether it is called with a write transaction open

ASSUME RekeyAssumption ==
  /\ NoKey \in Key
  /\ RekeyTo \subseteq Key /\ StartKey \subseteq Key
  /\ Rekeyers \subseteq Conn /\ Mistaken \subseteq Conn
  /\ Threaded \in BOOLEAN /\ InTransaction \in BOOLEAN

VARIABLES
  codec,   \* the Codec of each connection's pager
  rekey    \* where each connection is in sqlite3_rekey_v2

rekeyVars == <<vars, codec, rekey>>

NoCodec ==
  [attached |-> FALSE, isEncrypted |-> FALSE, hasReadKey |-> FALSE,
   hasWriteKey |-> FALSE, readKey |-> NoKey, writeKey |-> NoKey]

Keyed(k) ==
  IF k = NoKey THEN NoCodec
  ELSE [attached |-> TRUE, isEncrypted |-> TRUE, hasReadKey |-> TRUE,
        hasWriteKey |-> TRUE, readKey |-> k, writeKey |-> k]

(* sqlite3Codec: modes 3 and 7 use the read key, mode 6 the write key.     *)
ReadKey(x)  == IF x.isEncrypted /\ x.hasReadKey THEN x.readKey ELSE NoKey
WriteKey(x) == IF x.isEncrypted /\ x.hasWriteKey THEN x.writeKey ELSE NoKey

SetCodec(c, x) ==
  /\ codec' = [codec EXCEPT ![c] = x]
  /\ rkey' = [rkey EXCEPT ![c] = ReadKey(x)]
  /\ wkey' = [wkey EXCEPT ![c] = WriteKey(x)]

RekeyAt == {"idle", "enter", "begin", "pages", "commit", "undo", "finish"}

RekeyTypeOK ==
  /\ TypeOK
  /\ codec \in [Conn -> [attached : BOOLEAN, isEncrypted : BOOLEAN,
                         hasReadKey : BOOLEAN, hasWriteKey : BOOLEAN,
                         readKey : Key, writeKey : Key]]
  /\ rekey \in [Conn -> [at : RekeyAt, page : 1 .. MaxPage + 1, ok : BOOLEAN]]
  /\ \A c \in Conn : rkey[c] = ReadKey(codec[c]) /\ wkey[c] = WriteKey(codec[c])

NotRekeying == [at |-> "idle", page |-> 1, ok |-> FALSE]

RekeyInit ==
  /\ Init
  /\ \A c \in Conn : rkey[c] \in StartKey
  /\ codec = [c \in Conn |-> Keyed(rkey[c])]
  /\ rekey = [c \in Conn |-> NotRekeying]

Stage(c, label) == rekey' = [rekey EXCEPT ![c].at = label]

PagerIdle(c) == pager[c].at = "idle"

InWriter(c) == pager[c].eState \in Writer

-----------------------------------------------------------------------------
(* sqlite3_key_v2, on a connection that has just been opened.              *)
Open(c, k) ==
  /\ rekey[c].at = "idle"
  /\ pager[c] = Fresh
  /\ c \in Mistaken \/ k = committed[1].key
  /\ SetCodec(c, Keyed(k))
  /\ UNCHANGED <<lockVars, files, jopen, pager, history, rekey>>

(* Mutant: the key schedule of the new key is not computed.                *)
PreparedNoKey(x, k) ==
  [x EXCEPT !.attached = TRUE, !.isEncrypted = TRUE, !.hasWriteKey = k # NoKey,
            !.writeKey = Absent]

(* Mutant: the new key becomes the read key at once.                       *)
PreparedReadKeyToo(x, k) ==
  [x EXCEPT !.attached = TRUE, !.isEncrypted = TRUE, !.hasWriteKey = k # NoKey,
            !.hasReadKey = k # NoKey, !.writeKey = k, !.readKey = k]

(* The codec is prepared before db->mutex is taken.  The three cases: an   *)
(* unencrypted database, no new key, and another key.                      *)
Prepared(x, k) ==
  IF ~x.attached \/ ~x.isEncrypted
  THEN [attached |-> TRUE, isEncrypted |-> TRUE, hasReadKey |-> FALSE,
        hasWriteKey |-> TRUE, readKey |-> x.readKey, writeKey |-> k]
  ELSE IF k = NoKey THEN [x EXCEPT !.hasWriteKey = FALSE]
  ELSE [x EXCEPT !.hasWriteKey = TRUE, !.writeKey = k]

RekeyStart(c, k) ==
  /\ rekey[c].at = "idle"
  /\ Threaded \/ PagerIdle(c)
  /\ InTransaction \/ ~InWriter(c)
  /\ ~(k = NoKey /\ ~codec[c].isEncrypted)
  /\ SetCodec(c, Prepared(codec[c], k))
  /\ Stage(c, "enter")
  /\ UNCHANGED <<lockVars, files, jopen, pager, history>>

(* sqlite3_mutex_enter waits until no other thread is in a call.           *)
RekeyEnter(c) ==
  /\ rekey[c].at = "enter" /\ PagerIdle(c)
  /\ Stage(c, "begin")
  /\ UNCHANGED <<vars, codec>>

(* sqlite3BtreeBeginTrans: a read transaction, page 1, the write lock.  A  *)
(* transaction of the application that is open is joined.                  *)
RekeyBegin(c) ==
  /\ rekey[c].at = "begin" /\ PagerIdle(c)
  /\ \/ SharedLock(c) /\ UNCHANGED rekey
     \/ Read(c, 1) /\ UNCHANGED rekey
     \/ Begin(c) /\ UNCHANGED rekey
     \/ InWriter(c) /\ Stage(c, "pages") /\ UNCHANGED vars
  /\ UNCHANGED codec

(* Pages are fetched and marked as written in the order of their numbers.  *)
RekeyPage(c) ==
  /\ rekey[c].at = "pages" /\ PagerIdle(c) /\ InWriter(c)
  /\ LET n    == rekey[c].page
         next == rekey' = [rekey EXCEPT ![c].page = n + 1]
     IN  /\ n <= pager[c].dbSize
         /\ \/ Read(c, n) /\ UNCHANGED rekey
            \/ Write(c, n) /\ next
            \/ n \in pager[c].dirty /\ next /\ UNCHANGED vars
  /\ UNCHANGED codec

(* Mutant: < for <= in the loop over the pages.                            *)
RekeyCommitOffByOne(c) ==
  /\ rekey[c].at = "pages" /\ PagerIdle(c)
  /\ rekey[c].page >= pager[c].dbSize
  /\ Commit(c)
  /\ Stage(c, "commit")
  /\ UNCHANGED codec

RekeyCommit(c) ==
  /\ rekey[c].at = "pages" /\ PagerIdle(c)
  /\ rekey[c].page > pager[c].dbSize
  /\ Commit(c)
  /\ Stage(c, "commit")
  /\ UNCHANGED codec

(* Any of the calls above returns an error: SQLITE_BUSY, SQLITE_NOTADB,    *)
(* SQLITE_NOMEM or an I/O error.                                           *)
RekeyFail(c) ==
  /\ rekey[c].at \in {"begin", "pages"} /\ PagerIdle(c)
  /\ Stage(c, "undo")
  /\ UNCHANGED <<vars, codec>>

(* sqlite3BtreeCommit returned.                                            *)
RekeyCommitted(c) ==
  /\ rekey[c].at = "commit" /\ PagerIdle(c)
  /\ rekey' = [rekey EXCEPT
       ![c].at = IF pager[c].eState = "READER" THEN "finish" ELSE "undo",
       ![c].ok = pager[c].eState = "READER"]
  /\ UNCHANGED <<vars, codec>>

(* sqlite3BtreeRollback, then sqlite3_mutex_leave.                         *)
RekeyUndo(c) ==
  /\ rekey[c].at = "undo" /\ PagerIdle(c)
  /\ \/ Rollback(c) /\ UNCHANGED rekey
     \/ ~InWriter(c) /\ Stage(c, "finish") /\ UNCHANGED vars
  /\ UNCHANGED codec

(* What the pager does on behalf of the call: the rest of a step that has  *)
(* begun, and spilling pages when the cache is full.                       *)
RekeyPager(c) ==
  /\ rekey[c].at \in {"begin", "pages", "commit", "undo"}
  /\ \/ Continue(c)
     \/ rekey[c].at = "pages" /\ \E p \in Page : Spill(c, p)
  /\ rekey' = IF rekey[c].at = "commit" /\ pager[c].at = "failed"
              THEN [rekey EXCEPT ![c].at = "undo"] ELSE rekey
  /\ UNCHANGED codec

(* Mutant: after a successful rekey the read key is the old one.           *)
SettledOldReadKey(x, ok) ==
  IF ok /\ x.hasWriteKey THEN x
  ELSE IF ~ok /\ x.hasReadKey THEN [x EXCEPT !.writeKey = x.readKey]
  ELSE NoCodec

(* Mutant: after a failed rekey the write key is the new one.              *)
SettledNewWriteKey(x, ok) ==
  IF ok /\ x.hasWriteKey THEN [x EXCEPT !.readKey = x.writeKey, !.hasReadKey = TRUE]
  ELSE IF ~ok /\ x.hasReadKey THEN x
  ELSE NoCodec

(* The mutex has been left, and the codec is made to agree with the file.  *)
Settled(x, ok) ==
  LET y == IF ok
           THEN IF x.hasWriteKey
                THEN [x EXCEPT !.readKey = x.writeKey, !.hasReadKey = TRUE]
                ELSE [x EXCEPT !.isEncrypted = FALSE]
           ELSE IF x.hasReadKey
                THEN [x EXCEPT !.writeKey = x.readKey]
                ELSE [x EXCEPT !.isEncrypted = FALSE]
  IN  IF y.isEncrypted THEN y ELSE NoCodec

RekeyFinish(c) ==
  /\ rekey[c].at = "finish"
  /\ Threaded \/ PagerIdle(c)
  /\ SetCodec(c, Settled(codec[c], rekey[c].ok))
  /\ rekey' = [rekey EXCEPT ![c] = NotRekeying]
  /\ UNCHANGED <<lockVars, files, jopen, pager, history>>

(* Ordinary use of a connection: any time but under the mutex of a rekey   *)
(* if several threads share it, between calls of sqlite3_rekey if not.     *)
Ordinary(c) ==
  /\ rekey[c].at \in {"idle"} \cup (IF Threaded THEN {"enter", "finish"} ELSE {})
  /\ Call(c) \/ Continue(c)
  /\ UNCHANGED <<codec, rekey>>

(* Codecs live in the memory of their process.                             *)
RekeyCrash(c) ==
  /\ Die(c)
  /\ SetCodec(c, NoCodec)
  /\ rekey' = [rekey EXCEPT ![c] = NotRekeying]

RekeyPowerLoss ==
  /\ LosePower
  /\ codec' = [c \in Conn |-> NoCodec]
  /\ rkey' = [c \in Conn |-> NoKey]
  /\ wkey' = [c \in Conn |-> NoKey]
  /\ rekey' = [c \in Conn |-> NotRekeying]

RekeyStep(c) ==
  \/ RekeyEnter(c) \/ RekeyBegin(c) \/ RekeyPage(c) \/ RekeyCommit(c)
  \/ RekeyFail(c) \/ RekeyCommitted(c) \/ RekeyUndo(c) \/ RekeyPager(c)
  \/ RekeyFinish(c)

RekeyNext ==
  \/ \E c \in Conn :
       \/ \E k \in Key : Open(c, k)
       \/ RekeyStep(c) \/ Ordinary(c) \/ RekeyCrash(c)
  \/ \E c \in Rekeyers, k \in RekeyTo : RekeyStart(c, k)
  \/ RekeyPowerLoss

RekeySpec == RekeyInit /\ [][RekeyNext]_rekeyVars

-----------------------------------------------------------------------------
(* Properties.                                                             *)

(* The whole database is under one key in every state, those after a crash *)
(* or a power failure in the middle of a rekey included: some key opens    *)
(* all of it.                                                              *)
OneKey ==
  \A p, q \in Page :
    Surviving[p] \notin {Absent, Torn} /\ Surviving[q] \notin {Absent, Torn}
    => Surviving[p].key = Surviving[q].key

(* A connection that has read the database keeps the key of the database:  *)
(* after a rekey of its own, whether it succeeds or fails, it can still    *)
(* read the pages that are not in its cache.                               *)
KeyFollowsFile ==
  \A c \in Conn :
    /\ rekey[c].at = "idle"
    /\ pager[c].eState \in {"READER"} \cup Writer /\ pager[c].at # "unlock"
    /\ pager[c].cache[1] \notin {Absent, Garbage}
    => rkey[c] = committed[1].key

(* "the readkey ... is guaranteed to be the same key that was used to read  *)
(* the original data": no page that a rekey rewrites was read with a key   *)
(* other than the one it was written with.                                 *)
NothingGarbled ==
  \A c \in Conn, p \in Page :
    rekey[c].at = "pages" => pager[c].cache[p] # Garbage

(* sqlite3_rekey_v2: "Restore write key if necessary".  When no rekey is   *)
(* under way, pages are written with the key that they are read with.      *)
WriteKeyRestored ==
  \A c \in Conn : rekey[c].at = "idle" => wkey[c] = rkey[c]

=============================================================================
