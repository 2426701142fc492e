--------------------------- MODULE RekeyInvariant ---------------------------
(***************************************************************************)
(* Why a rekey keeps the database under one key and every connection with  *)
(* the key that it needs: the inductive invariant of Rekey.  It adds to    *)
(* that of the pager what sqlite3_rekey_v2 knows at each of its stages.    *)
(***************************************************************************)
EXTENDS Rekey, PagerInvariant

(* The codec has one key, or the old one and the one being changed to.     *)
CodecOK(c) ==
  IF rekey[c].at = "idle"
  THEN wkey[c] = rkey[c] /\ codec[c] = Keyed(rkey[c])
  ELSE wkey[c] # NoKey /\ codec[c] = Prepared(Keyed(rkey[c]), wkey[c])

(* The call runs in the only thread that uses its connection, outside of a *)
(* transaction, and gives the database a key or another one.               *)
RekeyAlone == ~Threaded /\ ~InTransaction /\ NoKey \notin RekeyTo

(* What the pager is doing for the rekey at each of its stages.            *)
StageOK(c) ==
  LET at == pager[c].at
      e  == pager[c].eState
      g  == pager[c].goal
      r  == rekey[c]
  IN  /\ r.ok => r.at = "finish" /\ e = "READER"
      /\ r.at \in {"idle", "enter", "begin"} => r.page = 1
      /\ r.at \in {"enter", "finish"} => at = "idle" /\ e \notin Writer
      /\ r.at = "begin" =>
           /\ e \notin Modified
           /\ e = "WRITER_LOCKED" => at = "idle"
      /\ r.at = "pages" =>
           \/ e = "OPEN" /\ at = "idle"
           \/ e = "WRITER_LOCKED" /\ at = "idle" /\ r.page = 1
           \/ e \in Modified /\ (g = "spill" \/ at \in {"idle", "unlock"})
      /\ r.at = "commit" =>
           \/ e \in {"OPEN", "READER"} /\ at = "idle"
           \/ e \in Modified /\ g = "commit"
           \/ e \in Modified /\ g = "none" /\ at = "idle"
      /\ r.at = "undo" =>
           \/ e \in {"OPEN", "READER"} /\ at = "idle"
           \/ e = "WRITER_LOCKED"
           \/ e \in Modified /\ (g = "rollback" \/ at = "idle")

(* The key under which a connection has read the database, or has put it.  *)
Done(c) ==
  \/ rekey[c].at = "commit" /\ (pager[c].eState = "READER" \/ Ended(c))
  \/ rekey[c].at = "finish" /\ rekey[c].ok

KeyNow(c) == IF Done(c) THEN wkey[c] ELSE rkey[c]

KnownOK(c) ==
  pager[c].at # "unlock" /\ pager[c].cache[1] \notin {Absent, Garbage} =>
    IF pager[c].eState = "OPEN" THEN pager[c].dbFileVers.key = KeyNow(c)
                                ELSE committed[1].key = KeyNow(c)

(* While pages are rewritten all of the cache is legible, and the pages    *)
(* before the next one are under the new key, or will be.                  *)
ReadableOK(c) ==
  rekey[c].at = "pages" => \A p \in Page : pager[c].cache[p] # Garbage

PagesOK(c) ==
  rekey[c].at = "pages" /\ pager[c].eState \in Writer /\ pager[c].at # "unlock" =>
    \A p \in Page :
      IF p < rekey[c].page
      THEN p \in pager[c].dirty \/ (db[p] \in Stored /\ db[p].key = wkey[c])
      ELSE p \notin pager[c].dirty /\ db[p] = committed[p]

RekeyConnOK(c) ==
  CodecOK(c) /\ StageOK(c) /\ KnownOK(c) /\ ReadableOK(c) /\ PagesOK(c)

RekeyInv ==
  /\ RekeyTypeOK
  /\ \E k \in Key : InvUnder(k)
  /\ \A c \in Conn : RekeyConnOK(c)

=============================================================================
