--------------------------- MODULE UserAuthProofs ---------------------------
(***************************************************************************)
(* Proofs about UserAuth, for any number of connections, users and         *)
(* passwords, all at once and with any call failing or its process dying:  *)
(* a level that was found in the table stays true until another connection *)
(* writes the row, nobody with such a level changes their own privilege,   *)
(* and only a lapse that the model names leaves the table without admin.   *)
(***************************************************************************)
EXTENDS UserAuth, TLAPS

(* What a connection knows of the table, and what an add under way needs.  *)
Calls(c) ==
  /\ schema[c] = "table" => users # NoTable
  /\ at[c] \in {"insert", "login"} => users # NoTable /\ new[c] # NoArgs

Truth(c) ==
  founded[c] => /\ Known(user[c])
                /\ level[c] = IF users[user[c]].admin THEN "admin" ELSE "user"

UserInv ==
  /\ UserTypeOK /\ AlwaysAdmin
  /\ \A c \in Conn : Calls(c) /\ Truth(c)

-----------------------------------------------------------------------------
LEMMA Tables ==
  /\ NoUser \notin User /\ NoTable \notin Table
  /\ \A D \in SUBSET User : \A f \in [D -> Row] : f \in Table
  /\ \A f \in Table : DOMAIN f \in SUBSET User /\ f \in [DOMAIN f -> Row]
BY UserAssumption DEF Table, Row

LEMMA Args == \A u \in User : \A p \in Pw : \A b \in BOOLEAN :
  [user |-> u, pw |-> p, admin |-> b] # NoArgs
<1> SUFFICES ASSUME NEW u \in User, NEW p \in Pw, NEW b \in BOOLEAN,
                    [user |-> u, pw |-> p, admin |-> b] = NoArgs
             PROVE  FALSE
  OBVIOUS
<1>1. u = NoUser
  BY DEF NoArgs
<1> QED
  BY <1>1, Tables

Unmoved(d) ==
  /\ at'[d] = at[d] /\ schema'[d] = schema[d] /\ level'[d] = level[d]
  /\ user'[d] = user[d] /\ new'[d] = new[d]

(* A level that a login finds in the table is that of its row.             *)
LEMMA LevelsTrue ==
  ASSUME UserTypeOK, NEW c \in Conn, NEW u \in User \cup {NoUser}, NEW p,
         NEW l \in Levels(c, u, p), Sees(c), l \in {"user", "admin"}, Calls(c)
  PROVE  Known(u) /\ l = IF users[u].admin THEN "admin" ELSE "user"
<1>1. l = CheckLogin(c, u, p)
  BY DEF Levels
<1>2. Known(u)
  BY <1>1 DEF CheckLogin
<1> QED
  BY <1>1, <1>2 DEF CheckLogin

(* Types, and what a step does not touch.                                  *)
LEMMA StepTypes ==
  ASSUME UserTypeOK, NEW c \in Conn, Calls(c), Step(c)
  PROVE  UserTypeOK' /\ \A d \in Conn \ {c} : Unmoved(d)
<1> USE DEF login
<1>0. /\ users \in Table \cup {NoTable}
      /\ schema \in [Conn -> {"unread", "none", "table"}]
      /\ level \in [Conn -> {"unknown", "fail", "user", "admin"}]
      /\ user \in [Conn -> User \cup {NoUser}] /\ pw \in [Conn -> Pw \cup {NoUser}]
      /\ at \in [Conn -> {"closed", "idle", "insert", "login"}]
      /\ new \in [Conn -> [user : User, pw : Pw, admin : BOOLEAN] \cup {NoArgs}]
      /\ founded \in [Conn -> BOOLEAN] /\ lapse \in BOOLEAN
  BY DEF UserTypeOK
<1>l. \A u \in User \cup {NoUser} : \A p : Levels(c, u, p) \subseteq {"unknown", "fail", "user", "admin"}
  BY DEF Levels, CheckLogin
<1>f. Founded(c) => founded' \in [Conn -> BOOLEAN]
  BY <1>0 DEF Founded
<1>n. new' = [new EXCEPT ![c] = NoArgs] =>
        new' \in [Conn -> [user : User, pw : Pw, admin : BOOLEAN] \cup {NoArgs}]
  BY <1>0
<1>p. NotInserted(c) => lapse' \in BOOLEAN
  BY DEF NotInserted
<1>1. CASE Open(c)
  BY <1>0, <1>1 DEF Open, UserTypeOK, Unmoved
<1>2. ASSUME Stop(c), lapse' \in BOOLEAN
      PROVE  UserTypeOK' /\ \A d \in Conn \ {c} : Unmoved(d)
  BY <1>0, <1>n, <1>2 DEF Stop, UserTypeOK, Unmoved
<1>3. CASE Close(c) \/ Die(c)
  BY <1>0, <1>p, <1>2, <1>3 DEF Close, Die
<1>4. CASE Refresh(c)
  BY <1>0, <1>4 DEF Refresh, UserTypeOK, Unmoved
<1>5. CASE UserAuthInit(c)
  <2>1. /\ users' = users /\ user' = user /\ pw' = pw /\ at' = at /\ new' = new
        /\ lapse' = lapse /\ Look(c) /\ Founded(c)
        /\ \E l \in Levels(c, user[c], pw[c]) : level' = [level EXCEPT ![c] = l]
    BY <1>5 DEF UserAuthInit
  <2>2. /\ schema' \in [Conn -> {"unread", "none", "table"}]
        /\ \A d \in Conn \ {c} : schema'[d] = schema[d]
    BY <2>1, <1>0 DEF Look
  <2>3. Levels(c, user[c], pw[c]) \subseteq {"unknown", "fail", "user", "admin"}
    BY <1>0, <1>l
  <2>4. /\ level' \in [Conn -> {"unknown", "fail", "user", "admin"}]
        /\ \A d \in Conn \ {c} : level'[d] = level[d]
    BY <2>1, <2>3, <1>0
  <2> QED
    BY <2>1, <2>2, <2>4, <1>0, <1>f DEF UserTypeOK, Unmoved
<1>6. ASSUME NEW u \in User, NEW p \in Pw, LogIn(c, u, p)
      PROVE  /\ schema' \in [Conn -> {"unread", "none", "table"}]
             /\ level' \in [Conn -> {"unknown", "fail", "user", "admin"}]
             /\ user' \in [Conn -> User \cup {NoUser}] /\ pw' \in [Conn -> Pw \cup {NoUser}]
             /\ founded' \in [Conn -> BOOLEAN]
             /\ \A d \in Conn \ {c} :
                  schema'[d] = schema[d] /\ level'[d] = level[d] /\ user'[d] = user[d]
  BY <1>0, <1>l, <1>f, <1>6 DEF LogIn, Look
<1>7. CASE Authenticate(c)
  BY <1>0, <1>6, <1>7 DEF Authenticate, UserTypeOK, Unmoved
<1>8. CASE LogInFirst(c)
  <2>1. new[c] \in [user : User, pw : Pw, admin : BOOLEAN]
    BY <1>0, <1>8 DEF LogInFirst, Calls
  <2> QED
    BY <1>0, <1>n, <1>6, <1>8, <2>1 DEF LogInFirst, Return, UserTypeOK, Unmoved
<1>9. ASSUME NEW u \in User, NEW p \in Pw, NEW admin \in BOOLEAN, Add(c, u, p, admin)
      PROVE  UserTypeOK' /\ \A d \in Conn \ {c} : Unmoved(d)
  <2>1. users' \in Table \cup {NoTable}
    <3>1. [v \in {} |-> v] \in [{} -> Row] /\ {} \in SUBSET User
      OBVIOUS
    <3>2. [v \in {} |-> v] \in Table
      BY <3>1, Tables
    <3> QED
      BY <1>0, <1>9, <3>2 DEF Add
  <2>2. /\ schema' \in [Conn -> {"unread", "none", "table"}]
        /\ at' \in [Conn -> {"closed", "idle", "insert", "login"}]
        /\ new' \in [Conn -> [user : User, pw : Pw, admin : BOOLEAN] \cup {NoArgs}]
        /\ level' = level /\ user' = user /\ pw' = pw /\ founded' = founded /\ lapse' = lapse
        /\ \A d \in Conn \ {c} : schema'[d] = schema[d] /\ at'[d] = at[d] /\ new'[d] = new[d]
    BY <1>0, <1>9 DEF Add
  <2> QED
    BY <1>0, <2>1, <2>2 DEF UserTypeOK, Unmoved
<1>10. CASE Insert(c)
  <2>1. new[c] \in [user : User, pw : Pw, admin : BOOLEAN] /\ users \in Table
    BY <1>0, <1>10 DEF Insert, Calls
  <2>2. users' \in Table
    <3>1. CASE ~Known(new[c].user)
      <4> DEFINE f == [v \in DOMAIN users \cup {new[c].user} |->
                        IF v = new[c].user THEN [admin |-> new[c].admin, pw |-> new[c].pw]
                        ELSE users[v]]
      <4>1. users' = f
        BY <1>10, <3>1 DEF Insert
      <4>2. [admin |-> new[c].admin, pw |-> new[c].pw] \in Row
        BY <2>1 DEF Row
      <4>3. DOMAIN users \cup {new[c].user} \in SUBSET User /\ users \in [DOMAIN users -> Row]
        BY <2>1, Tables
      <4>4. f \in [DOMAIN users \cup {new[c].user} -> Row]
        BY <4>2, <4>3
      <4> QED
        BY <4>1, <4>3, <4>4, Tables
    <3>2. CASE Known(new[c].user)
      BY <1>10, <2>1, <3>2 DEF Insert
    <3> QED
      BY <3>1, <3>2
  <2>3. /\ at' \in [Conn -> {"closed", "idle", "insert", "login"}]
        /\ new' \in [Conn -> [user : User, pw : Pw, admin : BOOLEAN] \cup {NoArgs}]
        /\ \A d \in Conn \ {c} : at'[d] = at[d] /\ new'[d] = new[d]
        /\ schema' = schema /\ level' = level /\ user' = user /\ pw' = pw
        /\ founded' = founded /\ lapse' \in BOOLEAN
    <3>1. CASE at' = [at EXCEPT ![c] = "login"] /\ new' = new
      BY <1>0, <1>10, <1>p, <3>1 DEF Insert, Return
    <3>2. CASE Return(c)
      BY <1>0, <1>n, <1>10, <1>p, <3>2 DEF Insert, Return
    <3> QED
      BY <1>10, <3>1, <3>2 DEF Insert
  <2> QED
    BY <1>0, <2>2, <2>3 DEF UserTypeOK, Unmoved
<1>11. CASE InsertFails(c)
  BY <1>0, <1>n, <1>p, <1>11 DEF InsertFails, Return, UserTypeOK, Unmoved
<1>12. ASSUME NEW u \in User, NEW p \in Pw, NEW admin \in BOOLEAN, Change(c, u, p, admin)
       PROVE  UserTypeOK' /\ \A d \in Conn \ {c} : Unmoved(d)
  <2>1. users \in Table
    BY <1>0, <1>12 DEF Change, Known
  <2>2. [admin |-> admin, pw |-> p] \in Row
    BY DEF Row
  <2>3. DOMAIN users \in SUBSET User /\ users \in [DOMAIN users -> Row]
    BY <2>1, Tables
  <2>4. users' \in [DOMAIN users -> Row]
    BY <1>12, <2>2, <2>3 DEF Change
  <2>5. users' \in Table
    BY <2>3, <2>4, Tables
  <2>6. /\ schema' \in [Conn -> {"unread", "none", "table"}]
        /\ \A d \in Conn \ {c} : schema'[d] = schema[d]
        /\ at' = at /\ level' = level /\ user' = user /\ pw' = pw /\ new' = new
        /\ founded' \in [Conn -> BOOLEAN] /\ lapse' \in BOOLEAN
    BY <1>0, <1>12 DEF Change, Look, Written
  <2> QED
    BY <1>0, <2>5, <2>6 DEF UserTypeOK, Unmoved
<1>13. ASSUME NEW u \in User, Delete(c, u)
       PROVE  UserTypeOK' /\ \A d \in Conn \ {c} : Unmoved(d)
  <2>1. users \in Table
    BY <1>0, <1>13 DEF Delete, Known
  <2>2. DOMAIN users \in SUBSET User /\ users \in [DOMAIN users -> Row]
    BY <2>1, Tables
  <2>3. users' \in [DOMAIN users \ {u} -> Row] /\ DOMAIN users \ {u} \in SUBSET User
    BY <1>13, <2>2 DEF Delete
  <2>4. users' \in Table
    BY <2>3, Tables
  <2>5. /\ schema' \in [Conn -> {"unread", "none", "table"}]
        /\ \A d \in Conn \ {c} : schema'[d] = schema[d]
        /\ at' = at /\ level' = level /\ user' = user /\ pw' = pw /\ new' = new
        /\ founded' \in [Conn -> BOOLEAN] /\ lapse' \in BOOLEAN
    BY <1>0, <1>13 DEF Delete, Look, Written
  <2> QED
    BY <1>0, <2>4, <2>5 DEF UserTypeOK, Unmoved
<1> QED
  BY <1>1, <1>3, <1>4, <1>5, <1>7, <1>8, <1>9, <1>10, <1>11, <1>12, <1>13 DEF Step

(* A step that leaves the rows alone.                                      *)
LEMMA RowsKept ==
  ASSUME AlwaysAdmin, users' = users, lapse => lapse',
         \A d \in Conn : at[d] = "insert" /\ new[d].admin =>
           \/ at'[d] = "insert" /\ new'[d] = new[d]
           \/ lapse' \/ SomeAdmin
  PROVE  AlwaysAdmin'
BY DEF AlwaysAdmin, SomeAdmin

(* What is known of the other connections, when the table does not go and  *)
(* the rows of those whose level is founded stay.                          *)
LEMMA OthersKeep ==
  ASSUME NEW d \in Conn, Calls(d), Truth(d), Unmoved(d), users' # NoTable \/ users' = users,
         founded'[d] => /\ founded[d]
                        /\ users' = users \/ /\ user[d] \in DOMAIN users'
                                             /\ users'[user[d]] = users[user[d]]
  PROVE  Calls(d)' /\ Truth(d)'
<1>1. Calls(d)'
  BY DEF Calls, Unmoved
<1>2. Truth(d)'
  BY DEF Truth, Unmoved, Known
<1> QED
  BY <1>1, <1>2

(* An admin whose connection writes rows stays, or the step is a lapse.    *)
LEMMA WriterKeeps ==
  ASSUME UserInv, NEW c \in Conn, NEW u \in User, Written(c, u), at' = at, new' = new,
         users # NoTable, users' # NoTable,
         founded[c] => /\ user[c] \in DOMAIN users'
                       /\ users'[user[c]].admin = users[user[c]].admin,
         \A v \in DOMAIN users \ {u} : v \in DOMAIN users' /\ users'[v] = users[v],
         user[c] # u => level[c] = "admin"
  PROVE  AlwaysAdmin'
<1> SUFFICES ASSUME ~lapse' PROVE SomeAdmin' \/ \E d \in Conn : at'[d] = "insert" /\ new'[d].admin
  BY DEF AlwaysAdmin
<1>1. founded[c] /\ ~lapse
  BY DEF Written, UserInv, UserTypeOK
<1>2. Known(user[c]) /\ level[c] = IF users[user[c]].admin THEN "admin" ELSE "user"
  BY <1>1 DEF UserInv, Truth
<1>3. SomeAdmin \/ \E d \in Conn : at[d] = "insert" /\ new[d].admin
  BY <1>1 DEF UserInv, AlwaysAdmin
<1>4. CASE users[user[c]].admin
  BY <1>1, <1>4 DEF SomeAdmin
<1>5. CASE ~users[user[c]].admin
  <2>1. user[c] = u
    BY <1>2, <1>5
  <2>2. ASSUME NEW v \in DOMAIN users, users[v].admin PROVE SomeAdmin'
    BY <1>5, <2>1, <2>2 DEF SomeAdmin
  <2> QED
    BY <1>3, <2>2 DEF SomeAdmin
<1> QED
  BY <1>4, <1>5

(* One step.                                                               *)
LEMMA UserStep ==
  ASSUME UserInv, NEW c \in Conn, Step(c)
  PROVE  UserInv'
<1> USE DEF login
<1>0. /\ UserTypeOK /\ AlwaysAdmin /\ Calls(c) /\ Truth(c) /\ UserTypeOK'
      /\ \A d \in Conn \ {c} : Unmoved(d) /\ Calls(d) /\ Truth(d)
  BY StepTypes DEF UserInv
<1>t. /\ users \in Table \cup {NoTable}
      /\ schema \in [Conn -> {"unread", "none", "table"}]
      /\ level \in [Conn -> {"unknown", "fail", "user", "admin"}]
      /\ user \in [Conn -> User \cup {NoUser}] /\ pw \in [Conn -> Pw \cup {NoUser}]
      /\ at \in [Conn -> {"closed", "idle", "insert", "login"}]
      /\ new \in [Conn -> [user : User, pw : Pw, admin : BOOLEAN] \cup {NoArgs}]
      /\ founded \in [Conn -> BOOLEAN] /\ lapse \in BOOLEAN
  BY <1>0 DEF UserTypeOK
<1>b. Sees(c) => users # NoTable
  BY <1>0 DEF Calls, Sees
<1>c. users # NoTable =>
        /\ users \in [DOMAIN users -> Row] /\ DOMAIN users \in SUBSET User
        /\ \A u \in DOMAIN users : users[u].admin \in BOOLEAN
  BY <1>t, Tables DEF Row
<1>l. Look(c) => (schema'[c] = "table" => users # NoTable)
  BY <1>b, <1>t DEF Look
<1>o. ASSUME users' = users, \A d \in Conn \ {c} : founded'[d] = founded[d]
      PROVE  \A d \in Conn \ {c} : Calls(d)' /\ Truth(d)'
  BY <1>0, <1>o, OthersKeep
<1>q. ASSUME users' = users, \A d \in Conn \ {c} : founded'[d] = founded[d],
             Calls(c)', Truth(c)', AlwaysAdmin'
      PROVE  UserInv'
  BY <1>0, <1>o, <1>q DEF UserInv
<1>1. CASE Open(c)
  <2>1. /\ at[c] = "closed" /\ at'[c] = "idle" /\ schema'[c] = "unread"
        /\ users' = users /\ level' = level /\ user' = user /\ new' = new
        /\ founded' = founded /\ lapse' = lapse
    BY <1>1, <1>t DEF Open
  <2>2. Calls(c)' /\ Truth(c)'
    BY <2>1, <1>0 DEF Calls, Truth, Known
  <2>3. AlwaysAdmin'
    BY <2>1, <1>0, RowsKept DEF Unmoved
  <2> QED
    BY <2>1, <2>2, <2>3, <1>q
<1>2. ASSUME Stop(c), lapse => lapse',
             at[c] = "insert" /\ new[c].admin => lapse' \/ SomeAdmin
      PROVE  UserInv'
  <2>1. /\ at'[c] = "closed" /\ users' = users /\ schema' = schema
        /\ ~founded'[c] /\ \A d \in Conn \ {c} : founded'[d] = founded[d]
    BY <1>2, <1>t DEF Stop
  <2>2. Calls(c)' /\ Truth(c)'
    BY <2>1, <1>0 DEF Calls, Truth
  <2>3. AlwaysAdmin'
    BY <2>1, <1>0, <1>2, RowsKept DEF Unmoved
  <2> QED
    BY <2>1, <2>2, <2>3, <1>q
<1>n. ASSUME NotInserted(c)
      PROVE  /\ lapse => lapse'
             /\ at[c] = "insert" /\ new[c].admin => lapse' \/ SomeAdmin
  BY <1>n DEF NotInserted
<1>3. CASE Close(c) \/ Die(c)
  BY <1>2, <1>3, <1>n DEF Close, Die
<1>4. CASE Refresh(c)
  <2>1. /\ at[c] = "idle" /\ at' = at /\ users' = users /\ level' = level /\ user' = user
        /\ new' = new /\ founded' = founded /\ lapse' = lapse
        /\ schema'[c] = IF users = NoTable THEN "none" ELSE "table"
    BY <1>4, <1>t DEF Refresh
  <2>2. Calls(c)' /\ Truth(c)'
    BY <2>1, <1>0 DEF Calls, Truth, Known
  <2>3. AlwaysAdmin'
    BY <2>1, <1>0, RowsKept
  <2> QED
    BY <2>1, <2>2, <2>3, <1>q
<1>f. ASSUME NEW u \in User \cup {NoUser}, NEW p, NEW l \in Levels(c, u, p),
             level'[c] = l, user'[c] = u, Founded(c), users' = users
      PROVE  Truth(c)' /\ \A d \in Conn \ {c} : founded'[d] = founded[d]
  <2>1. /\ founded'[c] = (Sees(c) /\ l \in {"user", "admin"})
        /\ \A d \in Conn \ {c} : founded'[d] = founded[d]
    BY <1>f, <1>t DEF Founded
  <2>2. CASE Sees(c) /\ l \in {"user", "admin"}
    <3>1. Known(u) /\ l = IF users[u].admin THEN "admin" ELSE "user"
      BY <1>0, <1>f, <2>2, LevelsTrue
    <3> QED
      BY <1>f, <2>1, <3>1 DEF Truth, Known
  <2>3. CASE ~(Sees(c) /\ l \in {"user", "admin"})
    BY <2>1, <2>3 DEF Truth
  <2> QED
    BY <2>1, <2>2, <2>3
<1>5. CASE UserAuthInit(c)
  <2>1. /\ at' = at /\ users' = users /\ user' = user /\ new' = new /\ lapse' = lapse
        /\ Look(c) /\ Founded(c)
        /\ \E l \in Levels(c, user[c], pw[c]) : level' = [level EXCEPT ![c] = l]
    BY <1>5 DEF UserAuthInit
  <2>2. PICK l \in Levels(c, user[c], pw[c]) : level'[c] = l
    BY <2>1, <1>t
  <2>3. user[c] \in User \cup {NoUser} /\ user'[c] = user[c]
    BY <2>1, <1>t
  <2>4. Truth(c)' /\ \A d \in Conn \ {c} : founded'[d] = founded[d]
    BY <2>1, <2>2, <2>3, <1>f
  <2>5. Calls(c)'
    BY <2>1, <1>0, <1>l DEF Calls
  <2>6. AlwaysAdmin'
    BY <2>1, <1>0, RowsKept
  <2> QED
    BY <2>1, <2>4, <2>5, <2>6, <1>q
<1>6. ASSUME NEW u \in User, NEW p \in Pw, LogIn(c, u, p), users' = users, at'[c] = "idle"
      PROVE  Calls(c)' /\ Truth(c)' /\ \A d \in Conn \ {c} : founded'[d] = founded[d]
  <2>1. user'[c] = u /\ Look(c) /\ Founded(c) /\ \E l \in Levels(c, u, p) : level'[c] = l
    BY <1>6, <1>t DEF LogIn
  <2>2. PICK l \in Levels(c, u, p) : level'[c] = l
    BY <2>1
  <2>3. Truth(c)' /\ \A d \in Conn \ {c} : founded'[d] = founded[d]
    BY <2>1, <2>2, <1>6, <1>f
  <2>4. Calls(c)'
    BY <2>1, <1>6, <1>l DEF Calls
  <2> QED
    BY <2>3, <2>4
<1>7. CASE Authenticate(c)
  <2>1. /\ at[c] = "idle" /\ users' = users /\ at' = at /\ new' = new /\ lapse' = lapse
        /\ \E u \in User, p \in Pw : LogIn(c, u, p)
    BY <1>7 DEF Authenticate
  <2>2. Calls(c)' /\ Truth(c)' /\ \A d \in Conn \ {c} : founded'[d] = founded[d]
    BY <2>1, <1>6
  <2>3. AlwaysAdmin'
    BY <2>1, <1>0, RowsKept
  <2> QED
    BY <2>1, <2>2, <2>3, <1>q
<1>8. CASE LogInFirst(c)
  <2>1. /\ at[c] = "login" /\ at'[c] = "idle" /\ users' = users /\ lapse' = lapse
        /\ LogIn(c, new[c].user, new[c].pw)
    BY <1>8, <1>t DEF LogInFirst, Return
  <2>2. new[c].user \in User /\ new[c].pw \in Pw
    BY <2>1, <1>0, <1>t DEF Calls
  <2>3. Calls(c)' /\ Truth(c)' /\ \A d \in Conn \ {c} : founded'[d] = founded[d]
    BY <2>1, <2>2, <1>6
  <2>4. AlwaysAdmin'
    BY <2>1, <1>0, RowsKept DEF Unmoved
  <2> QED
    BY <2>1, <2>3, <2>4, <1>q
<1>9. ASSUME NEW u \in User, NEW p \in Pw, NEW admin \in BOOLEAN, Add(c, u, p, admin)
      PROVE  UserInv'
  <2>1. /\ at[c] = "idle" /\ (Sees(c) \/ admin)
        /\ users' = IF ~Sees(c) /\ users = NoTable THEN [v \in {} |-> v] ELSE users
        /\ schema'[c] = "table" /\ level' = level /\ user' = user
        /\ founded' = founded /\ lapse' = lapse
    BY <1>9, <1>t DEF Add
  <2>2. \/ at' = at /\ new' = new /\ users' = users /\ users # NoTable
        \/ at'[c] = "insert" /\ new'[c] = [user |-> u, pw |-> p, admin |-> admin]
    BY <1>9, <1>t DEF Add
  <2>3. users' # NoTable
    <3>1. [v \in {} |-> v] \in [{} -> Row] /\ {} \in SUBSET User
      OBVIOUS
    <3>2. [v \in {} |-> v] # NoTable
      BY <3>1, Tables
    <3> QED
      BY <2>1, <3>2, <1>b
  <2>4. users' = users \/ users = NoTable
    BY <2>1
  <2>5. \A d \in Conn : ~founded[d] \/ users' = users
    BY <2>4, <1>0 DEF Truth, Known
  <2>6. Calls(c)'
    <3>1. CASE at' = at /\ new' = new /\ users' = users
      BY <2>1, <2>3, <3>1 DEF Calls
    <3>2. CASE at'[c] = "insert" /\ new'[c] = [user |-> u, pw |-> p, admin |-> admin]
      BY <2>3, <3>2, Args DEF Calls
    <3> QED
      BY <2>2, <3>1, <3>2
  <2>7. Truth(c)'
    BY <2>1, <2>5, <1>0 DEF Truth, Known
  <2>8. \A d \in Conn \ {c} : Calls(d)' /\ Truth(d)'
    BY <2>1, <2>3, <2>5, <1>0, OthersKeep
  <2>9. AlwaysAdmin'
    <3>1. CASE users' = users
      BY <2>1, <3>1, <1>0, RowsKept DEF Unmoved
    <3>2. CASE users' # users
      <4>1. at'[c] = "insert" /\ new'[c].admin
        BY <2>1, <2>2, <3>2
      <4> QED
        BY <4>1 DEF AlwaysAdmin
    <3> QED
      BY <3>1, <3>2
  <2> QED
    BY <2>6, <2>7, <2>8, <2>9, <1>0 DEF UserInv
<1>r. Return(c) => at'[c] = "idle"
  BY <1>t DEF Return
<1>10. CASE Insert(c)
  <2>1. /\ at[c] = "insert" /\ users # NoTable
        /\ new[c] \in [user : User, pw : Pw, admin : BOOLEAN]
        /\ schema' = schema /\ level' = level /\ user' = user /\ founded' = founded
    BY <1>10, <1>0, <1>t DEF Insert, Calls
  <2>2. CASE Known(new[c].user)
    <3>1. users' = users /\ at'[c] = "idle" /\ NotInserted(c)
      BY <1>10, <2>2, <1>r DEF Insert
    <3>2. Calls(c)' /\ Truth(c)'
      BY <2>1, <3>1, <1>0 DEF Calls, Truth, Known
    <3>3. AlwaysAdmin'
      BY <3>1, <1>0, <1>n, RowsKept DEF Unmoved
    <3> QED
      BY <2>1, <3>1, <3>2, <3>3, <1>q
  <2>3. CASE ~Known(new[c].user)
    <3> DEFINE n == new[c]
    <3>1. /\ users' = [v \in DOMAIN users \cup {n.user} |->
                        IF v = n.user THEN [admin |-> n.admin, pw |-> n.pw] ELSE users[v]]
          /\ lapse' = lapse
      BY <1>10, <2>3 DEF Insert
    <3>a. \/ at'[c] = "login" /\ new' = new
          \/ at'[c] = "idle"
      BY <1>10, <2>3, <1>r, <1>t DEF Insert
    <3>2. n.user \in User /\ n.user \notin DOMAIN users
      BY <2>1, <2>3 DEF Known
    <3>3. /\ DOMAIN users' = DOMAIN users \cup {n.user} /\ users'[n.user].admin = n.admin
          /\ \A v \in DOMAIN users : v \in DOMAIN users' /\ users'[v] = users[v]
      BY <3>1, <3>2
    <3>4. users' # NoTable
      <4>1. users' \in [DOMAIN users \cup {n.user} -> Row]
        <5>1. [admin |-> n.admin, pw |-> n.pw] \in Row
          BY <2>1 DEF Row
        <5> QED
          BY <3>1, <5>1, <2>1, <1>c
      <4> QED
        BY <4>1, <3>2, <2>1, <1>c, Tables
    <3>5. \A d \in Conn : founded[d] => user[d] \in DOMAIN users
      BY <1>0 DEF Truth, Known
    <3>6. Calls(c)'
      BY <2>1, <3>a, <3>4, <1>0 DEF Calls
    <3>7. Truth(c)'
      BY <2>1, <3>3, <3>4, <3>5, <1>0 DEF Truth, Known
    <3>8. \A d \in Conn \ {c} : Calls(d)' /\ Truth(d)'
      BY <2>1, <3>3, <3>4, <3>5, <1>0, OthersKeep
    <3>9. AlwaysAdmin'
      <4> SUFFICES ASSUME ~lapse
                   PROVE  SomeAdmin' \/ \E d \in Conn : at'[d] = "insert" /\ new'[d].admin
        BY <3>1 DEF AlwaysAdmin
      <4>1. CASE SomeAdmin
        BY <4>1, <3>3 DEF SomeAdmin
      <4>2. CASE n.admin
        BY <4>2, <3>3 DEF SomeAdmin
      <4>3. CASE ~n.admin /\ ~SomeAdmin
        <5>1. PICK d \in Conn : at[d] = "insert" /\ new[d].admin
          BY <4>3, <2>1, <1>0 DEF AlwaysAdmin
        <5>2. d # c /\ at'[d] = at[d] /\ new'[d] = new[d]
          BY <4>3, <5>1, <1>0 DEF Unmoved
        <5> QED
          BY <5>1, <5>2
      <4> QED
        BY <4>1, <4>2, <4>3
    <3> QED
      BY <3>6, <3>7, <3>8, <3>9, <1>0 DEF UserInv
  <2> QED
    BY <2>2, <2>3
<1>11. CASE InsertFails(c)
  <2>1. /\ at[c] = "insert" /\ at'[c] = "idle" /\ users' = users /\ NotInserted(c)
        /\ schema' = schema /\ level' = level /\ user' = user /\ founded' = founded
    BY <1>11, <1>r DEF InsertFails
  <2>2. Calls(c)' /\ Truth(c)'
    BY <2>1, <1>0 DEF Calls, Truth, Known
  <2>3. AlwaysAdmin'
    BY <2>1, <1>0, <1>n, RowsKept DEF Unmoved
  <2> QED
    BY <2>1, <2>2, <2>3, <1>q
<1>w. ASSUME NEW u \in User, Written(c, u), users # NoTable, users' # NoTable,
             \A v \in DOMAIN users \ {u} : v \in DOMAIN users' /\ users'[v] = users[v],
             at' = at, level' = level, user' = user, new' = new, Look(c),
             user[c] # u => level[c] = "admin",
             founded[c] => /\ user[c] \in DOMAIN users'
                           /\ users'[user[c]].admin = users[user[c]].admin
      PROVE  UserInv'
  <2>1. \A d \in Conn : founded'[d] = (founded[d] /\ (d = c \/ user[d] # u))
    BY <1>w DEF Written
  <2>2. \A d \in Conn : founded[d] => user[d] \in DOMAIN users
    BY <1>0 DEF Truth, Known
  <2>3. \A d \in Conn \ {c} : Calls(d)' /\ Truth(d)'
    BY <1>w, <2>1, <2>2, <1>0, OthersKeep
  <2>4. Calls(c)'
    BY <1>w, <1>0, <1>l DEF Calls
  <2>5. Truth(c)'
    BY <1>w, <2>1, <1>0 DEF Truth, Known
  <2>6. AlwaysAdmin'
    BY <1>w, WriterKeeps
  <2> QED
    BY <2>3, <2>4, <2>5, <2>6, <1>0 DEF UserInv
<1>12. ASSUME NEW u \in User, NEW p \in Pw, NEW admin \in BOOLEAN, Change(c, u, p, admin)
       PROVE  UserInv'
  <2>1. /\ users # NoTable /\ u \in DOMAIN users /\ Look(c) /\ Written(c, u)
        /\ users' = [users EXCEPT ![u] = [admin |-> admin, pw |-> p]]
        /\ at' = at /\ level' = level /\ user' = user /\ new' = new
    BY <1>12 DEF Change, Known
  <2>2. /\ user[c] = u => admin = (level[c] = "admin")
        /\ user[c] # u => level[c] = "admin"
    BY <1>12 DEF Change
  <2>3. /\ DOMAIN users' = DOMAIN users /\ users'[u].admin = admin
        /\ \A v \in DOMAIN users \ {u} : v \in DOMAIN users' /\ users'[v] = users[v]
    BY <2>1, <1>c
  <2>4. users' # NoTable
    <3>1. [admin |-> admin, pw |-> p] \in Row
      BY DEF Row
    <3>2. users' \in [DOMAIN users -> Row]
      BY <3>1, <2>1, <1>c
    <3> QED
      BY <3>2, <2>1, <1>c, Tables
  <2>5. ASSUME founded[c]
        PROVE  user[c] \in DOMAIN users' /\ users'[user[c]].admin = users[user[c]].admin
    <3>1. user[c] \in DOMAIN users /\ level[c] = IF users[user[c]].admin THEN "admin" ELSE "user"
      BY <2>5, <1>0 DEF Truth, Known
    <3>2. users[user[c]].admin = (level[c] = "admin")
      BY <3>1, <2>1, <1>c
    <3> QED
      BY <3>1, <3>2, <2>2, <2>3
  <2> QED
    BY <2>1, <2>2, <2>3, <2>4, <2>5, <1>w
<1>13. ASSUME NEW u \in User, Delete(c, u) PROVE UserInv'
  <2>1. /\ level[c] = "admin" /\ user[c] # u
        /\ users # NoTable /\ u \in DOMAIN users /\ Look(c) /\ Written(c, u)
        /\ users' = [v \in DOMAIN users \ {u} |-> users[v]]
        /\ at' = at /\ level' = level /\ user' = user /\ new' = new
    BY <1>13 DEF Delete, Known
  <2>2. /\ DOMAIN users' = DOMAIN users \ {u}
        /\ \A v \in DOMAIN users \ {u} : v \in DOMAIN users' /\ users'[v] = users[v]
    BY <2>1
  <2>3. users' # NoTable
    <3>1. users' \in [DOMAIN users \ {u} -> Row]
      BY <2>1, <1>c
    <3> QED
      BY <3>1, <2>1, <1>c, Tables
  <2>4. founded[c] => user[c] \in DOMAIN users' /\ users'[user[c]].admin = users[user[c]].admin
    BY <2>1, <2>2, <1>0 DEF Truth, Known
  <2> QED
    BY <2>1, <2>2, <2>3, <2>4, <1>w
<1> QED
  BY <1>1, <1>3, <1>4, <1>5, <1>7, <1>8, <1>9, <1>10, <1>11, <1>12, <1>13 DEF Step

(* The row of a founded connection's user, under the steps of that         *)
(* connection.                                                             *)
LEMMA OwnRowKept ==
  ASSUME UserInv, NEW c \in Conn, Step(c), founded[c]
  PROVE  user[c] \in DOMAIN users' /\ users'[user[c]].admin = users[user[c]].admin
<1>0. /\ users # NoTable /\ user[c] \in DOMAIN users /\ users \in [DOMAIN users -> Row]
      /\ level[c] = IF users[user[c]].admin THEN "admin" ELSE "user"
      /\ users[user[c]].admin \in BOOLEAN
  <2>1. users \in Table /\ user[c] \in DOMAIN users
    BY DEF UserInv, UserTypeOK, Truth, Known
  <2>2. users \in [DOMAIN users -> Row]
    BY <2>1, Tables
  <2> QED
    BY <2>1, <2>2, Tables DEF UserInv, Truth, Row
<1>1. CASE \/ Open(c) \/ Close(c) \/ Refresh(c) \/ UserAuthInit(c) \/ Authenticate(c)
           \/ InsertFails(c) \/ Die(c) \/ LogInFirst(c)
  BY <1>0, <1>1 DEF Open, Close, Refresh, UserAuthInit, Authenticate, InsertFails, Die,
                    LogInFirst, Stop
<1>2. ASSUME NEW u \in User, NEW p \in Pw, NEW admin \in BOOLEAN, Add(c, u, p, admin)
      PROVE  users' = users
  BY <1>0, <1>2 DEF Add
<1>3. CASE Insert(c)
  <2>1. CASE Known(new[c].user)
    BY <1>0, <1>3, <2>1 DEF Insert
  <2>2. CASE ~Known(new[c].user)
    <3>1. user[c] # new[c].user
      BY <1>0, <2>2 DEF Known
    <3>2. users' = [v \in DOMAIN users \cup {new[c].user} |->
                     IF v = new[c].user THEN [admin |-> new[c].admin, pw |-> new[c].pw]
                     ELSE users[v]]
      BY <1>3, <2>2 DEF Insert
    <3> QED
      BY <1>0, <3>1, <3>2
  <2> QED
    BY <2>1, <2>2
<1>4. ASSUME NEW u \in User, NEW p \in Pw, NEW admin \in BOOLEAN, Change(c, u, p, admin)
      PROVE  user[c] \in DOMAIN users' /\ users'[user[c]].admin = users[user[c]].admin
  <2>1. /\ users' = [users EXCEPT ![u] = [admin |-> admin, pw |-> p]]
        /\ user[c] = u => admin = (level[c] = "admin")
    BY <1>4 DEF Change
  <2>2. users[user[c]].admin = (level[c] = "admin")
    BY <1>0
  <2> QED
    BY <1>0, <2>1, <2>2
<1>5. ASSUME NEW u \in User, Delete(c, u)
      PROVE  user[c] \in DOMAIN users' /\ users'[user[c]].admin = users[user[c]].admin
  BY <1>0, <1>5 DEF Delete
<1> QED
  BY <1>0, <1>1, <1>2, <1>3, <1>4, <1>5 DEF Step

-----------------------------------------------------------------------------
LEMMA UserInitially == Init => UserInv
<1> SUFFICES ASSUME Init PROVE UserInv
  OBVIOUS
<1> QED
  BY DEF Init, UserInv, UserTypeOK, AlwaysAdmin, Calls, Truth

(* What the table gave a connection is true until another writes the row,  *)
(* and a table without an admin has a cause that the model names.          *)
THEOREM UserInductive == Spec => []UserInv
<1>1. ASSUME UserInv, [Next]_vars PROVE UserInv'
  <2>1. CASE Next
    BY <1>1, <2>1, UserStep DEF Next
  <2>2. CASE UNCHANGED vars
    BY <1>1, <2>2 DEF vars, login, UserInv, UserTypeOK, AlwaysAdmin, SomeAdmin, Calls, Truth,
                      Known
  <2> QED
    BY <1>1, <2>1, <2>2
<1> QED
  BY <1>1, UserInitially, PTL DEF Spec

(* The types.                                                              *)
THEOREM UserTypes == Spec => []UserTypeOK
<1>1. UserInv => UserTypeOK
  BY DEF UserInv
<1> QED
  BY <1>1, UserInductive, PTL

(* Deleting and changing users leaves an admin, whatever other connections *)
(* do: the connection that does it is logged in as one, or as the user     *)
(* that is changed.                                                        *)
THEOREM AdminRemains == Spec => []AlwaysAdmin
<1>1. UserInv => AlwaysAdmin
  BY DEF UserInv
<1> QED
  BY <1>1, UserInductive, PTL

(* The level found at login stays that of the user until another           *)
(* connection writes the row.                                              *)
THEOREM LevelIsTrue == Spec => []LevelTrue
<1>1. UserInv => LevelTrue
  BY DEF UserInv, Truth, LevelTrue
<1> QED
  BY <1>1, UserInductive, PTL

(* No call changes the privilege of the user that makes it.                *)
THEOREM PrivilegeKept == Spec => OwnPrivilegeKept
<1> DEFINE Kept == \A c \in Conn : founded[c] /\ Step(c) =>
                     /\ user[c] \in DOMAIN users'
                     /\ users'[user[c]].admin = users[user[c]].admin
<1>1. UserInv => [Kept]_vars
  BY OwnRowKept
<1> QED
  BY <1>1, UserInductive, PTL DEF OwnPrivilegeKept

=============================================================================
