------------------------------ MODULE UserAuth ------------------------------
(***************************************************************************)
(* User authentication: the table sqlite_user of a database and what each  *)
(* connection takes from it.  A connection finds its level once, when it   *)
(* logs in or compiles its first statement, and whether the table exists   *)
(* from its copy of the schema, which other connections do not refresh.    *)
(* Calls that change users are made of SQL statements; each is a           *)
(* transaction of its own.                                                 *)
(***************************************************************************)

CONSTANTS
  Conn,          \* connections
  User, Pw,      \* user names and passwords
  NoUser,        \* zAuthUser = 0
  NoTable        \* no sqlite_user table

ASSUME UserAssumption ==
  /\ NoUser \notin User
  /\ \A D \in SUBSET User : NoTable \notin [D -> [admin : BOOLEAN, pw : Pw]]

VARIABLES
  users,     \* the rows of sqlite_user, a function of the name
  schema,    \* what each connection knows of the table
  level,     \* db->auth.authLevel
  user, pw,  \* db->auth.zAuthUser, zAuthPW
  at,        \* where a connection is in a call
  new,       \* arguments of a sqlite3_user_add under way
  founded,   \* history: the row of its user gave the connection its level,
             \* and no other connection has written that row since
  lapse      \* history: the INSERT of a first admin has failed, or a
             \* connection whose level is not founded has changed users

login == <<level, user, pw>>
vars  == <<users, schema, login, at, new, founded, lapse>>

Row    == [admin : BOOLEAN, pw : Pw]
Table  == UNION {[D -> Row] : D \in SUBSET User}
NoArgs == [user |-> NoUser]

Init ==
  /\ users = NoTable
  /\ schema = [c \in Conn |-> "unread"]
  /\ level = [c \in Conn |-> "unknown"]
  /\ user = [c \in Conn |-> NoUser]
  /\ pw = [c \in Conn |-> NoUser]
  /\ at = [c \in Conn |-> "closed"]
  /\ new = [c \in Conn |-> NoArgs]
  /\ founded = [c \in Conn |-> FALSE]
  /\ lapse = FALSE

(* userTableExists: from the schema the connection has, which it reads     *)
(* only if it has none.                                                    *)
Sees(c) == IF schema[c] = "unread" THEN users # NoTable ELSE schema[c] = "table"

Look(c) == schema' = [schema EXCEPT ![c] = IF Sees(c) THEN "table" ELSE "none"]

Known(u) == users # NoTable /\ u \in DOMAIN users

SomeAdmin == \E u \in DOMAIN users : users[u].admin

(* userAuthCheckLogin.                                                     *)
CheckLogin(c, u, p) ==
  IF ~Sees(c) THEN "admin"
  ELSE IF ~Known(u) THEN "fail"
  ELSE IF users[u].pw # p THEN "fail"
  ELSE IF users[u].admin THEN "admin" ELSE "user"

(* A SELECT that fails is a failed login, one that cannot be prepared      *)
(* leaves the level unknown.                                               *)
Levels(c, u, p) ==
  {CheckLogin(c, u, p)}
    \cup (IF Sees(c) /\ u # NoUser THEN {"fail", "unknown"} ELSE {})

(* The level of a connection is found anew.                                *)
Founded(c) ==
  founded' = [founded EXCEPT ![c] = Sees(c) /\ level'[c] \in {"user", "admin"}]

(* A connection writes the row of a user.                                  *)
Written(c, u) ==
  /\ founded' = [d \in Conn |-> founded[d] /\ (d = c \/ user[d] # u)]
  /\ lapse' = (lapse \/ ~founded[c])

(* The INSERT of an admin fails while there is none.                       *)
NotInserted(c) == lapse' = (lapse \/ (new[c].admin /\ ~SomeAdmin))

Open(c) ==
  /\ at[c] = "closed"
  /\ at' = [at EXCEPT ![c] = "idle"]
  /\ schema' = [schema EXCEPT ![c] = "unread"]
  /\ UNCHANGED <<users, login, new, founded, lapse>>

(* The connection is closed, or its process dies: also because             *)
(* sqlite3_user_change and sqlite3_user_delete compare a name with that of *)
(* a user who has not logged in, a null pointer.                           *)
Stop(c) ==
  /\ at' = [at EXCEPT ![c] = "closed"]
  /\ level' = [level EXCEPT ![c] = "unknown"]
  /\ user' = [user EXCEPT ![c] = NoUser]
  /\ pw' = [pw EXCEPT ![c] = NoUser]
  /\ new' = [new EXCEPT ![c] = NoArgs]
  /\ founded' = [founded EXCEPT ![c] = FALSE]
  /\ UNCHANGED <<users, schema>>

Close(c) == at[c] = "idle" /\ Stop(c) /\ UNCHANGED lapse

(* A statement of the application finds that the schema has changed.       *)
Refresh(c) ==
  /\ at[c] = "idle"
  /\ level[c] # "fail"
  /\ schema' = [schema EXCEPT ![c] = IF users = NoTable THEN "none" ELSE "table"]
  /\ UNCHANGED <<users, login, at, new, founded, lapse>>

(* sqlite3UserAuthInit, from the compiler of statements or at the start of *)
(* sqlite3_user_add.                                                       *)
UserAuthInit(c) ==
  /\ at[c] = "idle"
  /\ level[c] = "unknown"
  /\ Look(c)
  /\ \E l \in Levels(c, user[c], pw[c]) : level' = [level EXCEPT ![c] = l]
  /\ Founded(c)
  /\ UNCHANGED <<users, user, pw, at, new, lapse>>

(* sqlite3_user_authenticate.                                              *)
LogIn(c, u, p) ==
  /\ user' = [user EXCEPT ![c] = u]
  /\ pw' = [pw EXCEPT ![c] = p]
  /\ Look(c)
  /\ \E l \in Levels(c, u, p) : level' = [level EXCEPT ![c] = l]
  /\ Founded(c)

(* Mutant: a login that fails leaves the level of the one before.          *)
AuthenticateKeepsLevel(c) ==
  /\ at[c] = "idle"
  /\ \E u \in User, p \in Pw :
       /\ user' = [user EXCEPT ![c] = u]
       /\ pw' = [pw EXCEPT ![c] = p]
       /\ Look(c)
       /\ \E l \in Levels(c, u, p) :
            level' = [level EXCEPT ![c] = IF l = "fail" THEN @ ELSE l]
       /\ Founded(c)
  /\ UNCHANGED <<users, at, new, lapse>>

Authenticate(c) ==
  /\ at[c] = "idle"
  /\ \E u \in User, p \in Pw : LogIn(c, u, p)
  /\ UNCHANGED <<users, at, new, lapse>>

(* sqlite3_user_add: the table, which may have come meanwhile, ...         *)
Add(c, u, p, admin) ==
  /\ at[c] = "idle"
  /\ level[c] = "admin"
  /\ Sees(c) \/ admin
  /\ users' = IF ~Sees(c) /\ users = NoTable THEN [v \in {} |-> v] ELSE users
  /\ schema' = [schema EXCEPT ![c] = "table"]
  /\ IF ~Sees(c) /\ users # NoTable THEN UNCHANGED <<at, new>>
     ELSE /\ at' = [at EXCEPT ![c] = "insert"]
          /\ new' = [new EXCEPT ![c] = [user |-> u, pw |-> p, admin |-> admin]]
  /\ UNCHANGED <<login, founded, lapse>>

Return(c) ==
  /\ at' = [at EXCEPT ![c] = "idle"]
  /\ new' = [new EXCEPT ![c] = NoArgs]

(* ... the row, which must be new, ...                                     *)
Insert(c) ==
  /\ at[c] = "insert"
  /\ LET n == new[c]
     IN  IF Known(n.user)
         THEN Return(c) /\ NotInserted(c) /\ UNCHANGED users
         ELSE /\ users' = [v \in DOMAIN users \cup {n.user} |->
                            IF v = n.user THEN [admin |-> n.admin, pw |-> n.pw]
                            ELSE users[v]]
              /\ IF user[c] = NoUser
                 THEN at' = [at EXCEPT ![c] = "login"] /\ UNCHANGED new
                 ELSE Return(c)
              /\ UNCHANGED lapse
  /\ UNCHANGED <<schema, login, founded>>

(* ... which may also fail ...                                             *)
InsertFails(c) ==
  /\ at[c] = "insert"
  /\ Return(c)
  /\ NotInserted(c)
  /\ UNCHANGED <<users, schema, login, founded>>

(* ... or the process dies at either place.                                *)
Die(c) ==
  /\ at[c] \in {"insert", "login"}
  /\ NotInserted(c)
  /\ Stop(c)

(* Who has added the first user is logged in as that user.                 *)
LogInFirst(c) ==
  /\ at[c] = "login"
  /\ LogIn(c, new[c].user, new[c].pw)
  /\ Return(c)
  /\ UNCHANGED <<users, lapse>>

(* Mutant: anybody may change their own privilege.                         *)
ChangeUnchecked(c, u, p, admin) ==
  /\ at[c] = "idle"
  /\ level[c] \in {"user", "admin"} /\ user[c] # NoUser
  /\ user[c] = u \/ level[c] = "admin"
  /\ Look(c)
  /\ Sees(c) /\ Known(u)
  /\ users' = [users EXCEPT ![u] = [admin |-> admin, pw |-> p]]
  /\ Written(c, u)
  /\ UNCHANGED <<login, at, new>>

(* sqlite3_user_change: users may change their own password, admins all    *)
(* but their own privilege.  If there is no table, or not that user, the   *)
(* call does nothing; in the first case its result is not defined.         *)
Change(c, u, p, admin) ==
  /\ at[c] = "idle"
  /\ level[c] \in {"user", "admin"} /\ user[c] # NoUser
  /\ IF user[c] = u THEN admin = (level[c] = "admin") ELSE level[c] = "admin"
  /\ Look(c)
  /\ Sees(c) /\ Known(u)
  /\ users' = [users EXCEPT ![u] = [admin |-> admin, pw |-> p]]
  /\ Written(c, u)
  /\ UNCHANGED <<login, at, new>>

(* Mutant: the user who is logged in can be deleted.                       *)
DeleteSelf(c, u) ==
  /\ at[c] = "idle"
  /\ level[c] = "admin" /\ user[c] # NoUser
  /\ Look(c)
  /\ Sees(c) /\ Known(u)
  /\ users' = [v \in DOMAIN users \ {u} |-> users[v]]
  /\ Written(c, u)
  /\ UNCHANGED <<login, at, new>>

(* sqlite3_user_delete.                                                    *)
Delete(c, u) ==
  /\ at[c] = "idle"
  /\ level[c] = "admin" /\ user[c] # NoUser
  /\ user[c] # u
  /\ Look(c)
  /\ Sees(c) /\ Known(u)
  /\ users' = [v \in DOMAIN users \ {u} |-> users[v]]
  /\ Written(c, u)
  /\ UNCHANGED <<login, at, new>>

Step(c) ==
  \/ Open(c) \/ Close(c) \/ Refresh(c) \/ UserAuthInit(c) \/ Authenticate(c)
  \/ Insert(c) \/ InsertFails(c) \/ Die(c) \/ LogInFirst(c)
  \/ \E u \in User, p \in Pw, admin \in BOOLEAN :
       Add(c, u, p, admin) \/ Change(c, u, p, admin)
  \/ \E u \in User : Delete(c, u)

Next == \E c \in Conn : Step(c)

Spec == Init /\ [][Next]_vars

-----------------------------------------------------------------------------
(* The types.                                                              *)
UserTypeOK ==
  /\ users \in Table \cup {NoTable}
  /\ schema \in [Conn -> {"unread", "none", "table"}]
  /\ level \in [Conn -> {"unknown", "fail", "user", "admin"}]
  /\ user \in [Conn -> User \cup {NoUser}]
  /\ pw \in [Conn -> Pw \cup {NoUser}]
  /\ at \in [Conn -> {"closed", "idle", "insert", "login"}]
  /\ new \in [Conn -> [user : User, pw : Pw, admin : BOOLEAN] \cup {NoArgs}]
  /\ founded \in [Conn -> BOOLEAN]
  /\ lapse \in BOOLEAN

(* "The currently logged-in user cannot be deleted, which guarantees that  *)
(* there is always an admin user": it does as long as the first admin gets *)
(* inserted and users are changed only by connections whose level is that  *)
(* of their row in the table.                                              *)
AlwaysAdmin ==
  users # NoTable /\ ~lapse =>
    SomeAdmin \/ \E c \in Conn : at[c] = "insert" /\ new[c].admin

(* A level that was found in the table stays that of the user who has      *)
(* logged in, until another connection writes the row of that user.        *)
LevelTrue ==
  \A c \in Conn : founded[c] =>
    /\ Known(user[c])
    /\ level[c] = IF users[user[c]].admin THEN "admin" ELSE "user"

(* "No user may change their own admin privilege setting": no call of a    *)
(* connection changes that of the user it is logged in as, nor deletes it, *)
(* as long as its level is that of the row.                                *)
OwnPrivilegeKept ==
  [][\A c \in Conn : founded[c] /\ Step(c) =>
       /\ user[c] \in DOMAIN users'
       /\ users'[user[c]].admin = users[user[c]].admin]_vars

=============================================================================
