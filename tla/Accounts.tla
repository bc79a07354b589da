------------------------------ MODULE Accounts ------------------------------
(***************************************************************************)
(* User accounts and their sessions, statement by statement.  No operation *)
(* here is a transaction: each statement commits by itself, and what one   *)
(* read may be old when the next one runs.  Names, e-mails and passwords   *)
(* are left out; of a password it matters that it was changed.             *)
(***************************************************************************)
EXTENDS Naturals, FiniteSets

CONSTANTS
  Users,   \* rows usuarios may get
  Tokens,  \* tokens sesiones may get: random, never given twice
  Slots,   \* requests served at the same time
  Asked,   \* requests clients send
  NoUser, NoSession, NoRequest, Deleted, Unset

ASSUME AccountsAssumption ==
  /\ Unset \notin {"ADMIN", "OPERADOR"}
  /\ Unset \notin BOOLEAN
  /\ NoSession # Deleted
  /\ {NoSession, Deleted} \cap [user : Users, live : BOOLEAN] = {}
  /\ NoUser \notin Users
  /\ NoUser \notin [role : {"ADMIN", "OPERADOR"}, active : BOOLEAN, initial : BOOLEAN]

VARIABLES
  user,     \* the rol, activo and es_usuario_inicial columns of usuarios
  session,  \* rows of sesiones
  pc,       \* the statement each slot is at
  req,      \* the request each slot serves
  read      \* what its statements returned

vars == <<user, session, pc, req, read>>

-----------------------------------------------------------------------------
Roles   == {"ADMIN", "OPERADOR"}
User    == [role : Roles, active : BOOLEAN, initial : BOOLEAN]
Session == [user : Users, live : BOOLEAN]

Request ==
  [op : {"setup"}]
  \cup [op : {"login"}, user : Users]
  \cup [op : {"logout"}, token : Tokens]
  \cup [op : {"create"}, token : Tokens, role : Roles]
  \cup [op : {"update"}, token : Tokens, user : Users, role : Roles \cup {Unset},
        active : BOOLEAN \cup {Unset}, password : BOOLEAN]

\* id is whom the session was of, then whom a session is made for; role and
\* active are the row an update has read.  Auxiliary: whom its COUNT(*) counted,
\* and the sessions its account had at the moment the row was changed.
Nothing == [id |-> NoUser, role |-> "OPERADOR", active |-> FALSE, counted |-> {}, ended |-> {}]
Read    == [id : Users \cup {NoUser}, role : Roles, active : BOOLEAN,
            counted : SUBSET Users, ended : SUBSET Tokens]

Statements == {"idle", "checkSetup", "insertInitial", "readCredential", "createSession",
               "deleteSession", "authenticate", "insertUser", "readUser", "countAdmins",
               "updateUser", "deleteSessions", "answer"}

First(op) ==
  CASE op = "setup"  -> "checkSetup"
    [] op = "login"  -> "readCredential"
    [] op = "logout" -> "deleteSession"
    [] OTHER         -> "authenticate"

Exists(u)      == user[u] # NoUser
IsAdmin(u)     == Exists(u) /\ user[u].role = "ADMIN" /\ user[u].active
Admins         == {u \in Users : IsAdmin(u)}
SessionsOf(u)  == {s \in Tokens : session[s] \in Session /\ session[s].user = u}

-----------------------------------------------------------------------------
Begin(r, q) ==
  /\ pc[r] = "idle" /\ q \in Asked
  /\ req' = [req EXCEPT ![r] = q]
  /\ pc' = [pc EXCEPT ![r] = First(q.op)]
  /\ UNCHANGED <<user, session, read>>

Goto(r, next, found) ==
  /\ pc' = [pc EXCEPT ![r] = next]
  /\ read' = [read EXCEPT ![r] = found]
  /\ UNCHANGED req

End(r) ==
  /\ pc' = [pc EXCEPT ![r] = "idle"]
  /\ req' = [req EXCEPT ![r] = NoRequest]
  /\ read' = [read EXCEPT ![r] = Nothing]

Refuse(r) == End(r) /\ UNCHANGED <<user, session>>

-----------------------------------------------------------------------------
\* INSERT ... SELECT ... WHERE NOT EXISTS: the subquery sees the snapshot of
\* the statement, the row comes later.
CheckSetup(r) ==
  /\ pc[r] = "checkSetup"
  /\ IF \E u \in Users : Exists(u) THEN Refuse(r)
     ELSE Goto(r, "insertInitial", read[r]) /\ UNCHANGED <<user, session>>

Insert(r, row, next) ==
  \E u \in Users :
    /\ ~Exists(u)
    /\ user' = [user EXCEPT ![u] = row]
    /\ IF next = "idle" THEN End(r) ELSE Goto(r, next, [read[r] EXCEPT !.id = u])
    /\ UNCHANGED session

InitialRow == [role |-> "ADMIN", active |-> TRUE, initial |-> TRUE]

\* Variant: no unique index.
InsertInitialUnchecked(r) ==
  /\ pc[r] = "insertInitial"
  /\ Insert(r, InitialRow, "createSession")

\* uq_usuarios_inicial refuses a second row.
InsertInitial(r) ==
  /\ pc[r] = "insertInitial"
  /\ IF \E u \in Users : Exists(u) /\ user[u].initial THEN Refuse(r)
     ELSE Insert(r, InitialRow, "createSession")

\* SecurityService.Login.  A wrong password is a refusal.
ReadCredential(r) ==
  /\ pc[r] = "readCredential"
  /\ LET u == req[r].user IN
     IF Exists(u) /\ user[u].active
     THEN Goto(r, "createSession", [read[r] EXCEPT !.id = u]) /\ UNCHANGED <<user, session>>
     ELSE Refuse(r)

\* SecurityService.newSession
CreateSession(r) ==
  /\ pc[r] = "createSession"
  /\ \E s \in Tokens :
       /\ session[s] = NoSession
       /\ session' = [session EXCEPT ![s] = [user |-> read[r].id, live |-> TRUE]]
  /\ End(r)
  /\ UNCHANGED user

DeleteSession(r) ==
  /\ pc[r] = "deleteSession"
  /\ session' = [session EXCEPT ![req[r].token] = IF @ = NoSession THEN @ ELSE Deleted]
  /\ End(r)
  /\ UNCHANGED user

\* authenticationMiddleware and requireAdminMiddleware
Authenticate(r) ==
  /\ pc[r] = "authenticate"
  /\ LET s == session[req[r].token] IN
     IF s \in Session /\ s.live /\ IsAdmin(s.user)
     THEN /\ Goto(r, IF req[r].op = "create" THEN "insertUser" ELSE "readUser",
                  [read[r] EXCEPT !.id = s.user])
          /\ UNCHANGED <<user, session>>
     ELSE Refuse(r)

InsertUser(r) ==
  /\ pc[r] = "insertUser"
  /\ Insert(r, [role |-> req[r].role, active |-> TRUE, initial |-> FALSE], "idle")

-----------------------------------------------------------------------------
(***************************************************************************)
(* SecurityService.UpdateUser: the row is read, changed in memory and      *)
(* written back whole.                                                     *)
(***************************************************************************)

Merge(old, q) ==
  [role   |-> IF q.role = Unset THEN old.role ELSE q.role,
   active |-> IF q.active = Unset THEN old.active ELSE q.active]

Powerful(row) == row.role = "ADMIN" /\ row.active

ReadUser(r) ==
  /\ pc[r] = "readUser"
  /\ LET u == req[r].user IN
     IF ~Exists(u) THEN Refuse(r)
     ELSE LET new == Merge(user[u], req[r]) IN
          IF u = read[r].id /\ ~Powerful(new) THEN Refuse(r)
          ELSE /\ Goto(r, IF Powerful(user[u]) /\ ~Powerful(new) THEN "countAdmins"
                          ELSE "updateUser",
                       [read[r] EXCEPT !.role = user[u].role, !.active = user[u].active])
               /\ UNCHANGED <<user, session>>

\* Variant: the last administrator counts as one too many.
CountsOneTooMany(r) ==
  /\ pc[r] = "countAdmins"
  /\ IF Cardinality(Admins) < 1 THEN Refuse(r)
     ELSE Goto(r, "updateUser", [read[r] EXCEPT !.counted = Admins]) /\ UNCHANGED <<user, session>>

CountAdmins(r) ==
  /\ pc[r] = "countAdmins"
  /\ IF Cardinality(Admins) <= 1 THEN Refuse(r)
     ELSE Goto(r, "updateUser", [read[r] EXCEPT !.counted = Admins]) /\ UNCHANGED <<user, session>>

\* Variant: a change of role does not end the sessions.
EndsSessionsButForRole(q, old, new) == q.password \/ ~new.active

EndsSessions(q, old, new) == q.password \/ ~new.active \/ new.role # old.role

\* The row an update writes: what it read, with what it was asked laid over it.
Written(r) == Merge(read[r], req[r])

UpdateUser(r) ==
  /\ pc[r] = "updateUser"
  /\ LET u == req[r].user IN
     /\ user' = [user EXCEPT ![u].role = Written(r).role, ![u].active = Written(r).active]
     /\ Goto(r, IF EndsSessions(req[r], read[r], Written(r)) THEN "deleteSessions" ELSE "answer",
             [read[r] EXCEPT !.ended = SessionsOf(u)])
  /\ UNCHANGED session

DeleteUserSessions(r) ==
  /\ pc[r] = "deleteSessions"
  /\ session' = [s \in Tokens |-> IF s \in SessionsOf(req[r].user) THEN Deleted ELSE session[s]]
  /\ Goto(r, "answer", read[r])
  /\ UNCHANGED user

Respond(r) == pc[r] = "answer" /\ Refuse(r)

\* The client goes away or a statement fails: what was committed stays.
Cancel(r) == pc[r] # "idle" /\ Refuse(r)

\* fecha_expiracion passes; the row stays.
Expire(s) ==
  /\ session[s] \in Session /\ session[s].live
  /\ session' = [session EXCEPT ![s].live = FALSE]
  /\ UNCHANGED <<user, pc, req, read>>

-----------------------------------------------------------------------------
Init ==
  /\ user = [u \in Users |-> NoUser]
  /\ session = [s \in Tokens |-> NoSession]
  /\ pc = [r \in Slots |-> "idle"]
  /\ req = [r \in Slots |-> NoRequest]
  /\ read = [r \in Slots |-> Nothing]

Step(r) ==
  \/ \E q \in Request : Begin(r, q)
  \/ CheckSetup(r)
  \/ InsertInitial(r)
  \/ ReadCredential(r)
  \/ CreateSession(r)
  \/ DeleteSession(r)
  \/ Authenticate(r)
  \/ InsertUser(r)
  \/ ReadUser(r)
  \/ CountAdmins(r)
  \/ UpdateUser(r)
  \/ DeleteUserSessions(r)
  \/ Respond(r)
  \/ Cancel(r)

Next == (\E r \in Slots : Step(r)) \/ (\E s \in Tokens : Expire(s))

Spec == Init /\ [][Next]_vars

-----------------------------------------------------------------------------
(***************************************************************************)
(* Properties.                                                             *)
(***************************************************************************)

\* Rows and what requests hold are of their domains.
TypeOK ==
  /\ user \in [Users -> User \cup {NoUser}]
  /\ session \in [Tokens -> Session \cup {NoSession, Deleted}]
  /\ pc \in [Slots -> Statements]
  /\ req \in [Slots -> Request \cup {NoRequest}]
  /\ read \in [Slots -> Read]

\* README: the setup code stops working as soon as an account exists.  The
\* accounts hold exactly one made with it, however many setups race.
OneInitial ==
  (\E u \in Users : Exists(u)) =>
    \E u \in Users :
      /\ Exists(u) /\ user[u].initial
      /\ \A v \in Users : Exists(v) /\ user[v].initial => v = u

\* An account that was made can always be managed: an active administrator
\* remains (the message of UpdateUser at service/security.go:219).
AdminRemains == (\E u \in Users : Exists(u)) => \E u \in Users : IsAdmin(u)

\* Another update was written between the reads of this one and its write: the
\* row is not the one it read, or one of the administrators it counted is none.
Overtaken(r) ==
  LET row == user[req[r].user] IN
  \/ row.role # read[r].role \/ row.active # read[r].active
  \/ \E v \in read[r].counted : ~IsAdmin(v)

\* The accounts lose their last active administrator by a race of updates and in
\* no other way: set-ups, creations, updates that name another column, an actor
\* who lost the role after it was authenticated, and cancellations at any statement
\* included, the update that takes the last one away was overtaken by another.
LastAdminIsLostByARace ==
  [][AdminRemains /\ ~AdminRemains' =>
       \E r \in Slots : pc[r] = "updateUser" /\ Overtaken(r)]_vars

\* When an update answers that it changed the password, gave the account another
\* role than it had read, or made it inactive, no session is left of those the
\* account had at the moment of the change, whatever was updated, logged in or
\* logged out meanwhile.
UpdateEndsSessions ==
  \A r \in Slots :
    /\ pc[r] = "answer"
    /\ req[r].password \/ ~Written(r).active \/ Written(r).role # read[r].role
    => \A s \in read[r].ended : session[s] = Deleted
=============================================================================
