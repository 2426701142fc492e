---------------------------- MODULE SnapshotStore ----------------------------
(***************************************************************************)
(* What the write-ahead log promises of a database, without frames, read   *)
(* marks and checkpoints: a reader keeps the image it started with for as  *)
(* long as it wants, while one writer at a time replaces the image that    *)
(* everybody who starts later sees.  A writer builds on the image that is  *)
(* current, never on an older one.  Nobody ever waits for a reader.  Wal   *)
(* is shown to implement this module.                                      *)
(***************************************************************************)
CONSTANTS
  Conn,     \* connections
  NoConn,   \* the writer when nobody writes, no member of Conn
  Image,    \* images of a database
  NoView,   \* what a connection sees outside a transaction, no image
  Durable   \* TRUE if a commit that has returned survives a power failure

VARIABLES
  image,    \* the committed database
  doubt,    \* images that a failure may leave instead of it
  view,     \* what each connection sees
  writer    \* the connection that has a write transaction

storeVars == <<image, doubt, view, writer>>

StoreInit ==
  /\ image \in Image
  /\ doubt = {}
  /\ view = [c \in Conn |-> NoView]
  /\ writer = NoConn

StartRead(c) ==
  /\ view[c] = NoView
  /\ view' = [view EXCEPT ![c] = image]
  /\ UNCHANGED <<image, doubt, writer>>

StartWrite(c) ==
  /\ view[c] = image
  /\ writer = NoConn
  /\ writer' = c
  /\ UNCHANGED <<image, doubt, view>>

(* A commit is under way: from here on a failure may complete it.          *)
Prepare(c) ==
  /\ writer = c
  /\ \E new \in Image : doubt' = doubt \cup {new}
  /\ UNCHANGED <<image, view, writer>>

(* It is done.  Other connections keep what they see.                      *)
Replace(c) ==
  /\ writer = c
  /\ image' \in doubt
  /\ doubt' \subseteq IF Durable THEN {} ELSE doubt \cup {image}
  /\ view' = [view EXCEPT ![c] = image']
  /\ writer' = NoConn

Abandon(c) ==
  /\ writer = c
  /\ writer' = NoConn
  /\ UNCHANGED <<image, doubt, view>>

(* What is in doubt becomes certain, one way or the other.                 *)
Settle ==
  /\ doubt' \in SUBSET doubt
  /\ UNCHANGED <<image, view, writer>>

(* The transactions of some connections end, all of them if the power      *)
(* fails.                                                                  *)
Stop(ended) ==
  /\ view' = [c \in Conn |-> IF c \in ended THEN NoView ELSE view[c]]
  /\ writer' = IF writer \in ended THEN NoConn ELSE writer
  /\ UNCHANGED <<image, doubt>>

(* After a failure, while nobody looks, the database turns out to be the   *)
(* committed one or one of those in doubt.                                 *)
Recover ==
  /\ \A c \in Conn : view[c] = NoView
  /\ image' \in {image} \cup doubt
  /\ doubt' \in SUBSET (doubt \cup {image})
  /\ UNCHANGED <<view, writer>>

StoreNext ==
  \/ \E c \in Conn :
       StartRead(c) \/ StartWrite(c) \/ Prepare(c) \/ Replace(c) \/ Abandon(c)
  \/ \E ended \in SUBSET Conn : Stop(ended)
  \/ Settle \/ Recover

StoreSpec == StoreInit /\ [][StoreNext]_storeVars

=============================================================================
