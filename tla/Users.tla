------------------------------- MODULE Users --------------------------------
(***************************************************************************)
(* The users of UserManagementService: create_user looks the email up,     *)
(* ignoring an error of the look-up, and inserts; verify_user sets a flag. *)
(***************************************************************************)
CONSTANTS Users,   \* the UUIDs Uuid::new_v4 may return
          Emails, Handlers, None

VARIABLES users,        \* the rows: each user's email, or None
          is_verified,  \* the users whose flag is set
          registering,  \* the email each create_user handler is inserting
          told          \* history: <<email, user>> answered with success

userVars == <<users, is_verified, registering, told>>

Init ==
  /\ users = [u \in Users |-> None]
  /\ is_verified = {}
  /\ registering = [h \in Handlers |-> None]
  /\ told = {}

-----------------------------------------------------------------------------
EmailTaken(e) == \E u \in Users : users[u] = e

(* get_user_by_email: "User already exists", unless the SELECT fails.      *)
LookUpEmail(h, e, fails) ==
  /\ registering[h] = None
  /\ fails \/ ~EmailTaken(e)
  /\ registering' = [registering EXCEPT ![h] = e]
  /\ UNCHANGED <<users, is_verified, told>>

(* INSERT, which the UNIQUE email may refuse; the user answered with is    *)
(* the handler's own, not the row's.  Mutant: ON CONFLICT DO NOTHING.      *)
InsertIfAbsent(h, u) ==
  /\ registering[h] # None /\ users[u] = None
  /\ users' = IF EmailTaken(registering[h]) THEN users
              ELSE [users EXCEPT ![u] = registering[h]]
  /\ told' = told \cup {<<registering[h], u>>}
  /\ registering' = [registering EXCEPT ![h] = None]
  /\ UNCHANGED is_verified

InsertUser(h, u) ==
  /\ registering[h] # None /\ users[u] = None
  /\ ~EmailTaken(registering[h])
  /\ users' = [users EXCEPT ![u] = registering[h]]
  /\ told' = told \cup {<<registering[h], u>>}
  /\ registering' = [registering EXCEPT ![h] = None]
  /\ UNCHANGED is_verified

(* The INSERT is refused or fails, or the handler is cut off, be it after  *)
(* the row is there and before the client is told.                         *)
Interrupt(h) ==
  /\ registering[h] # None
  /\ registering' = [registering EXCEPT ![h] = None]
  /\ \/ UNCHANGED users
     \/ /\ ~EmailTaken(registering[h])
        /\ \E u \in Users : users[u] = None /\ users' = [users EXCEPT ![u] = registering[h]]
  /\ UNCHANGED <<is_verified, told>>

(* UPDATE by id: of an unknown user no row changes, and the answer is      *)
(* success.                                                                *)
VerifyUser(u) ==
  /\ users[u] # None
  /\ is_verified' = is_verified \cup {u}
  /\ UNCHANGED <<users, registering, told>>

Next ==
  \/ \E h \in Handlers :
       \/ \E e \in Emails, fails \in BOOLEAN : LookUpEmail(h, e, fails)
       \/ \E u \in Users : InsertUser(h, u)
       \/ Interrupt(h)
  \/ \E u \in Users : VerifyUser(u)

Spec == Init /\ [][Next]_userVars

-----------------------------------------------------------------------------
(* However many requests look an email up before any of them inserts it,   *)
(* and whether or not the look-up works, an email has one user, and a      *)
(* client told of a user was told of the one that has the email.           *)
OneUserPerEmail ==
  /\ \A u, v \in Users : users[u] # None /\ users[u] = users[v] => u = v
  /\ \A t \in told : users[t[2]] = t[1]
=============================================================================
