----------------------------- MODULE AtomicStore -----------------------------
(***************************************************************************)
(* What the pager promises of a database file, without locks, journals and *)
(* caches: the database is one image that a single writer replaces in one  *)
(* step, while nobody reads; a reader sees one image for the whole of its  *)
(* transaction; and what has been committed stays, whoever dies.  Pager is *)
(* shown to implement this module.                                         *)
(***************************************************************************)
CONSTANTS
  Conn,     \* connections
  NoConn,   \* the writer when nobody writes, no member of Conn
  Image,    \* images of a database
  NoView    \* what a connection sees outside a transaction, no image

VARIABLES
  image,    \* the committed database
  view,     \* what each connection sees
  writer    \* the connection that has a write transaction

storeVars == <<image, view, writer>>

StoreInit ==
  /\ image \in Image
  /\ view = [c \in Conn |-> NoView]
  /\ writer = NoConn

(* A read transaction starts with what is committed.                       *)
StartRead(c) ==
  /\ view[c] = NoView
  /\ view' = [view EXCEPT ![c] = image]
  /\ UNCHANGED <<image, writer>>

(* It becomes a write transaction.                                         *)
StartWrite(c) ==
  /\ view[c] = image
  /\ writer = NoConn
  /\ writer' = c
  /\ UNCHANGED <<image, view>>

(* The database changes, all of it at once.                                *)
Replace(c) ==
  /\ writer = c
  /\ \A d \in Conn \ {c} : view[d] = NoView
  /\ image' \in Image
  /\ view' = [view EXCEPT ![c] = image']
  /\ writer' = NoConn

Abandon(c) ==
  /\ writer = c
  /\ writer' = NoConn
  /\ UNCHANGED <<image, view>>

(* The transactions of some connections end, all of them if the power      *)
(* fails.                                                                  *)
Stop(ended) ==
  /\ view' = [c \in Conn |-> IF c \in ended THEN NoView ELSE view[c]]
  /\ writer' = IF writer \in ended THEN NoConn ELSE writer
  /\ UNCHANGED image

StoreNext ==
  \/ \E c \in Conn : StartRead(c) \/ StartWrite(c) \/ Replace(c) \/ Abandon(c)
  \/ \E ended \in SUBSET Conn : Stop(ended)

StoreSpec == StoreInit /\ [][StoreNext]_storeVars

=============================================================================
