-------------------------- MODULE Accounts_proofs --------------------------
(***************************************************************************)
(* What Accounts promises, for any number of accounts, tokens and          *)
(* requests.  OneInitial alone is not inductive: that an account is made   *)
(* by an administrator, hence after the initial one, and that an update    *)
(* writes a row which exists and keeps its es_usuario_inicial, follow from *)
(* the statement a request is at.  The log in limiter, which extends       *)
(* Accounts, has its theorems at the end.                                  *)
(***************************************************************************)
EXTENDS LoginLimiter, FiniteSetTheorems, TLAPS

LoginRequest  == [op : {"login"}, user : Users]
LogoutRequest == [op : {"logout"}, token : Tokens]
CreateRequest == [op : {"create"}, token : Tokens, role : Roles]
UpdateRequest == [op : {"update"}, token : Tokens, user : Users, role : Roles \cup {Unset},
                  active : BOOLEAN \cup {Unset}, password : BOOLEAN]

\* What a slot holds at each statement.
ServingAt(r) ==
  /\ pc[r] = "readCredential" => req[r] \in LoginRequest
  /\ pc[r] = "deleteSession" => req[r] \in LogoutRequest
  /\ pc[r] = "authenticate" => req[r] \in CreateRequest \cup UpdateRequest
  /\ pc[r] = "createSession" => read[r].id \in Users
  /\ pc[r] = "insertUser" => req[r] \in CreateRequest /\ \E u \in Users : Exists(u)
  /\ pc[r] \in {"readUser", "countAdmins", "updateUser", "deleteSessions", "answer"} =>
       req[r] \in UpdateRequest
  /\ pc[r] \in {"countAdmins", "updateUser", "deleteSessions", "answer"} =>
       Exists(req[r].user)

Serving == \A r \in Slots : ServingAt(r)

AccountsInv == TypeOK /\ OneInitial /\ Serving

LEMMA InitAccountsInv == Init => AccountsInv
  BY DEF Init, AccountsInv, TypeOK, OneInitial, Serving, ServingAt, Exists, Statements, Nothing,
         Read, Roles

\* A step of a slot leaves what the others hold, and accounts are never lost.
LEMMA OthersKeepServing ==
  ASSUME Serving, NEW r \in Slots, ServingAt(r)',
         \A t \in Slots \ {r} : pc'[t] = pc[t] /\ req'[t] = req[t] /\ read'[t] = read[t],
         \A u \in Users : Exists(u) => Exists(u)'
  PROVE  Serving'
<1>. SUFFICES ASSUME NEW t \in Slots, t # r PROVE ServingAt(t)'
  BY DEF Serving
<1>1. ServingAt(t) /\ pc'[t] = pc[t] /\ req'[t] = req[t] /\ read'[t] = read[t]
  BY DEF Serving
<1>2. req[t] \in UpdateRequest => req[t].user \in Users
  BY DEF UpdateRequest
<1>. QED
  BY <1>1, <1>2 DEF ServingAt

\* A request that ends leaves its slot idle.
LEMMA EndLeavesIdle ==
  ASSUME TypeOK, NEW r \in Slots, End(r)
  PROVE  /\ ServingAt(r)'
         /\ pc' \in [Slots -> Statements] /\ req' \in [Slots -> Request \cup {NoRequest}]
         /\ read' \in [Slots -> Read]
         /\ \A t \in Slots \ {r} : pc'[t] = pc[t] /\ req'[t] = req[t] /\ read'[t] = read[t]
<1>1. "idle" \in Statements /\ Nothing \in Read
  BY DEF Statements, Nothing, Read, Roles
<1>. QED
  BY <1>1 DEF TypeOK, End, ServingAt

\* So does the move to another statement, but for the slot that moves.
LEMMA GotoMoves ==
  ASSUME TypeOK, NEW r \in Slots, NEW next \in Statements, NEW found \in Read, Goto(r, next, found)
  PROVE  /\ pc'[r] = next /\ read'[r] = found /\ req'[r] = req[r]
         /\ pc' \in [Slots -> Statements] /\ req' \in [Slots -> Request \cup {NoRequest}]
         /\ read' \in [Slots -> Read]
         /\ \A t \in Slots \ {r} : pc'[t] = pc[t] /\ req'[t] = req[t] /\ read'[t] = read[t]
  BY DEF TypeOK, Goto

\* What a step must do to a slot when it leaves the accounts alone.
LEMMA SameAccounts ==
  ASSUME AccountsInv, NEW r \in Slots, UNCHANGED user, ServingAt(r)',
         session' \in [Tokens -> Session \cup {NoSession, Deleted}],
         pc' \in [Slots -> Statements], req' \in [Slots -> Request \cup {NoRequest}],
         read' \in [Slots -> Read],
         \A t \in Slots \ {r} : pc'[t] = pc[t] /\ req'[t] = req[t] /\ read'[t] = read[t]
  PROVE  AccountsInv'
<1>1. TypeOK'
  BY DEF AccountsInv, TypeOK
<1>2. OneInitial'
  BY DEF AccountsInv, OneInitial, Exists
<1>3. \A u \in Users : Exists(u) => Exists(u)'
  BY DEF Exists
<1>4. Serving'
  BY <1>3, OthersKeepServing DEF AccountsInv
<1>. QED
  BY <1>1, <1>2, <1>4 DEF AccountsInv

LEMMA RefuseKeeps ==
  ASSUME AccountsInv, NEW r \in Slots, Refuse(r)
  PROVE  AccountsInv'
<1>1. session' \in [Tokens -> Session \cup {NoSession, Deleted}] /\ UNCHANGED user /\ TypeOK
  BY DEF Refuse, AccountsInv, TypeOK
<1>2. End(r)
  BY DEF Refuse
<1>. QED
  BY <1>1, <1>2, EndLeavesIdle, SameAccounts

\* A statement that only reads.
LEMMA ReadKeeps ==
  ASSUME AccountsInv, NEW r \in Slots, NEW next \in Statements, NEW found \in Read,
         Goto(r, next, found), UNCHANGED <<user, session>>, ServingAt(r)'
  PROVE  AccountsInv'
<1>1. session' \in [Tokens -> Session \cup {NoSession, Deleted}] /\ UNCHANGED user /\ TypeOK
  BY DEF AccountsInv, TypeOK
<1>. QED
  BY <1>1, GotoMoves, SameAccounts

\* A statement that writes a row of the sessions and ends.
LEMMA WriteSessionEnds ==
  ASSUME AccountsInv, NEW r \in Slots, End(r), UNCHANGED user,
         session' \in [Tokens -> Session \cup {NoSession, Deleted}]
  PROVE  AccountsInv'
<1>1. TypeOK
  BY DEF AccountsInv
<1>. QED
  BY <1>1, EndLeavesIdle, SameAccounts

\* What a new account must be for OneInitial to survive it.
LEMMA InsertKeeps ==
  ASSUME AccountsInv, NEW r \in Slots, NEW row \in User, NEW next \in {"idle", "createSession"},
         Insert(r, row, next),
         IF row.initial THEN \A u \in Users : Exists(u) => ~user[u].initial
                        ELSE \E u \in Users : Exists(u)
  PROVE  AccountsInv'
<1>. USE DEF AccountsInv
<1>1. PICK u \in Users :
        /\ ~Exists(u)
        /\ user' = [user EXCEPT ![u] = row]
        /\ IF next = "idle" THEN End(r) ELSE Goto(r, next, [read[r] EXCEPT !.id = u])
        /\ UNCHANGED session
  BY DEF Insert
<1>2. user' \in [Users -> User \cup {NoUser}] /\ user'[u] = row
      /\ \A v \in Users \ {u} : user'[v] = user[v]
  BY <1>1 DEF TypeOK
<1>3. \A v \in Users : Exists(v) => Exists(v)'
  BY <1>1, <1>2 DEF Exists
<1>4. /\ ServingAt(r)'
      /\ pc' \in [Slots -> Statements] /\ req' \in [Slots -> Request \cup {NoRequest}]
      /\ read' \in [Slots -> Read]
      /\ \A t \in Slots \ {r} : pc'[t] = pc[t] /\ req'[t] = req[t] /\ read'[t] = read[t]
  <2>1. CASE next = "idle"
    BY <1>1, <2>1, EndLeavesIdle
  <2>2. CASE next = "createSession"
    <3>1. [read[r] EXCEPT !.id = u] \in Read /\ "createSession" \in Statements
      BY DEF TypeOK, Read, Statements
    <3>2. Goto(r, "createSession", [read[r] EXCEPT !.id = u])
      BY <1>1, <2>2
    <3>3. [read[r] EXCEPT !.id = u].id = u
      BY DEF TypeOK, Read
    <3>4. /\ pc'[r] = "createSession" /\ read'[r] = [read[r] EXCEPT !.id = u]
          /\ pc' \in [Slots -> Statements] /\ req' \in [Slots -> Request \cup {NoRequest}]
          /\ read' \in [Slots -> Read]
          /\ \A t \in Slots \ {r} : pc'[t] = pc[t] /\ req'[t] = req[t] /\ read'[t] = read[t]
      BY <3>1, <3>2, GotoMoves
    <3>5. ServingAt(r)'
      BY <3>3, <3>4 DEF ServingAt
    <3>. QED
      BY <3>4, <3>5
  <2>. QED
    BY <2>1, <2>2
<1>5. TypeOK'
  BY <1>1, <1>2, <1>4 DEF TypeOK
<1>6. Serving'
  BY <1>3, <1>4, OthersKeepServing
<1>7. row # NoUser
  BY AccountsAssumption DEF AccountsAssumption, User, Roles
<1>8. OneInitial'
  <2>1. CASE row.initial
    BY <1>2, <1>7, <2>1 DEF OneInitial, Exists
  <2>2. CASE ~row.initial
    <3>1. PICK a \in Users : /\ Exists(a) /\ user[a].initial
                             /\ \A v \in Users : Exists(v) /\ user[v].initial => v = a
      BY <2>2 DEF OneInitial
    <3>2. a # u
      BY <1>1, <3>1
    <3>3. Exists(a)' /\ user'[a].initial
      BY <1>2, <3>1, <3>2 DEF Exists
    <3>4. \A v \in Users : Exists(v)' /\ user'[v].initial => v = a
      BY <1>2, <2>2, <3>1 DEF Exists
    <3>. QED
      BY <3>3, <3>4 DEF OneInitial
  <2>. QED
    BY <2>1, <2>2
<1>. QED
  BY <1>5, <1>6, <1>8

LEMMA BeginKeeps ==
  ASSUME AccountsInv, NEW r \in Slots, NEW q \in Request, Begin(r, q)
  PROVE  AccountsInv'
<1>. USE DEF AccountsInv
<1>1. /\ First(q.op) \in Statements
      /\ First(q.op) = "readCredential" => q \in LoginRequest
      /\ First(q.op) = "deleteSession" => q \in LogoutRequest
      /\ First(q.op) = "authenticate" => q \in CreateRequest \cup UpdateRequest
      /\ First(q.op) \in {"checkSetup", "readCredential", "deleteSession", "authenticate"}
  BY DEF First, Request, Statements, LoginRequest, LogoutRequest, CreateRequest, UpdateRequest
<1>2. /\ pc'[r] = First(q.op) /\ req'[r] = q
      /\ pc' \in [Slots -> Statements] /\ req' \in [Slots -> Request \cup {NoRequest}]
      /\ \A t \in Slots \ {r} : pc'[t] = pc[t] /\ req'[t] = req[t] /\ read'[t] = read[t]
      /\ UNCHANGED <<user, session, read>>
  BY <1>1 DEF Begin, TypeOK
<1>3. ServingAt(r)'
  BY <1>1, <1>2 DEF ServingAt
<1>4. session' \in [Tokens -> Session \cup {NoSession, Deleted}] /\ read' \in [Slots -> Read]
  BY <1>2 DEF TypeOK
<1>. QED
  BY <1>2, <1>3, <1>4, SameAccounts

LEMMA CheckSetupKeeps ==
  ASSUME AccountsInv, NEW r \in Slots, CheckSetup(r)
  PROVE  AccountsInv'
<1>1. CASE Refuse(r)
  BY <1>1, RefuseKeeps
<1>2. CASE Goto(r, "insertInitial", read[r]) /\ UNCHANGED <<user, session>>
  <2>1. TypeOK /\ read[r] \in Read /\ "insertInitial" \in Statements
    BY DEF AccountsInv, TypeOK, Statements
  <2>2. pc'[r] = "insertInitial"
    BY <1>2, <2>1, GotoMoves
  <2>3. ServingAt(r)'
    BY <2>2 DEF ServingAt
  <2>. QED
    BY <1>2, <2>1, <2>3, ReadKeeps
<1>. QED
  BY <1>1, <1>2 DEF CheckSetup

\* The unique index keeps the initial account unique, whatever was seen.
LEMMA InsertInitialKeeps ==
  ASSUME AccountsInv, NEW r \in Slots, InsertInitial(r)
  PROVE  AccountsInv'
<1>1. CASE Refuse(r)
  BY <1>1, RefuseKeeps
<1>2. CASE /\ \A u \in Users : Exists(u) => ~user[u].initial
           /\ Insert(r, InitialRow, "createSession")
  <2>1. InitialRow \in User /\ InitialRow.initial
    BY DEF InitialRow, User, Roles
  <2>. QED
    BY <1>2, <2>1, InsertKeeps
<1>. QED
  BY <1>1, <1>2 DEF InsertInitial

LEMMA ReadCredentialKeeps ==
  ASSUME AccountsInv, NEW r \in Slots, ReadCredential(r)
  PROVE  AccountsInv'
<1>. DEFINE found == [read[r] EXCEPT !.id = req[r].user]
<1>1. CASE Refuse(r)
  BY <1>1, RefuseKeeps
<1>2. CASE Goto(r, "createSession", found) /\ UNCHANGED <<user, session>>
  <2>1. TypeOK /\ read[r] \in Read /\ "createSession" \in Statements
    BY DEF AccountsInv, TypeOK, Statements
  <2>2. req[r].user \in Users
    BY DEF AccountsInv, Serving, ServingAt, ReadCredential, LoginRequest
  <2>3. found \in Read /\ found.id \in Users
    BY <2>1, <2>2 DEF Read
  <2>. HIDE DEF found
  <2>4. pc'[r] = "createSession" /\ read'[r] = found
    BY <1>2, <2>1, <2>3, GotoMoves
  <2>5. ServingAt(r)'
    BY <2>3, <2>4 DEF ServingAt
  <2>. QED
    BY <1>2, <2>1, <2>3, <2>5, ReadKeeps
<1>. QED
  BY <1>1, <1>2 DEF ReadCredential

LEMMA CreateSessionKeeps ==
  ASSUME AccountsInv, NEW r \in Slots, CreateSession(r)
  PROVE  AccountsInv'
<1>1. read[r].id \in Users
  BY DEF AccountsInv, Serving, ServingAt, CreateSession
<1>2. [user |-> read[r].id, live |-> TRUE] \in Session
  BY <1>1 DEF Session
<1>3. session' \in [Tokens -> Session \cup {NoSession, Deleted}]
  BY <1>2 DEF CreateSession, AccountsInv, TypeOK
<1>4. End(r) /\ UNCHANGED user
  BY DEF CreateSession
<1>. QED
  BY <1>3, <1>4, WriteSessionEnds

LEMMA DeleteSessionKeeps ==
  ASSUME AccountsInv, NEW r \in Slots, DeleteSession(r)
  PROVE  AccountsInv'
<1>1. session' \in [Tokens -> Session \cup {NoSession, Deleted}]
  BY DEF DeleteSession, AccountsInv, TypeOK
<1>2. End(r) /\ UNCHANGED user
  BY DEF DeleteSession
<1>. QED
  BY <1>1, <1>2, WriteSessionEnds

LEMMA AuthenticateKeeps ==
  ASSUME AccountsInv, NEW r \in Slots, Authenticate(r)
  PROVE  AccountsInv'
<1>. DEFINE next == IF req[r].op = "create" THEN "insertUser" ELSE "readUser"
            u == session[req[r].token].user
            found == [read[r] EXCEPT !.id = u]
<1>1. CASE Refuse(r)
  BY <1>1, RefuseKeeps
<1>2. CASE /\ session[req[r].token] \in Session /\ IsAdmin(u)
           /\ Goto(r, next, found) /\ UNCHANGED <<user, session>>
  <2>1. TypeOK /\ read[r] \in Read /\ next \in Statements
    BY DEF AccountsInv, TypeOK, Statements
  <2>2. req[r] \in CreateRequest \cup UpdateRequest
    BY DEF AccountsInv, Serving, ServingAt, Authenticate
  <2>3. u \in Users /\ Exists(u)
    BY <1>2 DEF Session, IsAdmin
  <2>4. found \in Read
    BY <2>1, <2>3 DEF Read
  <2>5. /\ next = "insertUser" => req[r] \in CreateRequest
        /\ next = "readUser" => req[r] \in UpdateRequest
        /\ next \in {"insertUser", "readUser"}
    BY <2>2 DEF CreateRequest, UpdateRequest
  <2>. HIDE DEF found, next, u
  <2>6. pc'[r] = next /\ req'[r] = req[r] /\ user' = user
    BY <1>2, <2>1, <2>4, GotoMoves
  <2>7. \E v \in Users : Exists(v)'
    BY <2>3, <2>6 DEF Exists
  <2>8. ServingAt(r)'
    BY <2>5, <2>6, <2>7 DEF ServingAt
  <2>. QED
    BY <1>2, <2>1, <2>4, <2>8, ReadKeeps
<1>. QED
  BY <1>1, <1>2 DEF Authenticate

LEMMA InsertUserKeeps ==
  ASSUME AccountsInv, NEW r \in Slots, InsertUser(r)
  PROVE  AccountsInv'
<1>. DEFINE row == [role |-> req[r].role, active |-> TRUE, initial |-> FALSE]
<1>1. req[r] \in CreateRequest /\ \E u \in Users : Exists(u)
  BY DEF AccountsInv, Serving, ServingAt, InsertUser
<1>2. row \in User /\ ~row.initial
  BY <1>1 DEF CreateRequest, User
<1>3. Insert(r, row, "idle")
  BY DEF InsertUser
<1>. HIDE DEF row
<1>. QED
  BY <1>1, <1>2, <1>3, InsertKeeps

LEMMA ReadUserKeeps ==
  ASSUME AccountsInv, NEW r \in Slots, ReadUser(r)
  PROVE  AccountsInv'
<1>. DEFINE u == req[r].user
            new == Merge(user[u], req[r])
            next == IF Powerful(user[u]) /\ ~Powerful(new) THEN "countAdmins" ELSE "updateUser"
            found == [read[r] EXCEPT !.role = user[u].role, !.active = user[u].active]
<1>1. CASE Refuse(r)
  BY <1>1, RefuseKeeps
<1>2. CASE Exists(u) /\ Goto(r, next, found) /\ UNCHANGED <<user, session>>
  <2>1. TypeOK /\ read[r] \in Read /\ next \in Statements /\ next \in {"countAdmins", "updateUser"}
    BY DEF AccountsInv, TypeOK, Statements
  <2>2. req[r] \in UpdateRequest
    BY DEF AccountsInv, Serving, ServingAt, ReadUser
  <2>3. u \in Users
    BY <2>2 DEF UpdateRequest
  <2>4. user[u] \in User
    BY <1>2, <2>1, <2>3 DEF TypeOK, Exists
  <2>5. found \in Read
    BY <2>1, <2>4 DEF Read, User
  <2>. HIDE DEF found, next
  <2>6. pc'[r] = next /\ req'[r] = req[r] /\ user' = user
    BY <1>2, <2>1, <2>5, GotoMoves
  <2>7. ServingAt(r)'
    BY <1>2, <2>1, <2>2, <2>6 DEF ServingAt, Exists
  <2>. QED
    BY <1>2, <2>1, <2>5, <2>7, ReadKeeps
<1>. QED
  BY <1>1, <1>2 DEF ReadUser

LEMMA CountAdminsKeeps ==
  ASSUME AccountsInv, NEW r \in Slots, CountAdmins(r)
  PROVE  AccountsInv'
<1>. DEFINE found == [read[r] EXCEPT !.counted = Admins]
<1>1. CASE Refuse(r)
  BY <1>1, RefuseKeeps
<1>2. CASE Goto(r, "updateUser", found) /\ UNCHANGED <<user, session>>
  <2>1. TypeOK /\ found \in Read /\ "updateUser" \in Statements
    BY DEF AccountsInv, TypeOK, Statements, Read, Admins
  <2>. HIDE DEF found
  <2>2. req[r] \in UpdateRequest /\ Exists(req[r].user)
    BY DEF AccountsInv, Serving, ServingAt, CountAdmins
  <2>3. pc'[r] = "updateUser" /\ req'[r] = req[r] /\ user' = user
    BY <1>2, <2>1, GotoMoves
  <2>4. ServingAt(r)'
    BY <2>2, <2>3 DEF ServingAt, Exists
  <2>. QED
    BY <1>2, <2>1, <2>4, ReadKeeps
<1>. QED
  BY <1>1, <1>2 DEF CountAdmins

\* The row that is written exists and stays what it was initially.
LEMMA UpdateUserKeeps ==
  ASSUME AccountsInv, NEW r \in Slots, UpdateUser(r)
  PROVE  AccountsInv'
<1>. USE DEF AccountsInv
<1>. DEFINE u == req[r].user
            new == Written(r)
            next == IF EndsSessions(req[r], read[r], new) THEN "deleteSessions" ELSE "answer"
            found == [read[r] EXCEPT !.ended = SessionsOf(u)]
<1>1. req[r] \in UpdateRequest /\ Exists(u)
  BY DEF Serving, ServingAt, UpdateUser
<1>2. u \in Users
  BY <1>1 DEF UpdateRequest
<1>3. user[u] \in User /\ read[r] \in Read
  BY <1>1, <1>2 DEF TypeOK, Exists
<1>4. new.role \in Roles /\ new.active \in BOOLEAN
  BY <1>1, <1>3 DEF Written, Merge, UpdateRequest, Read
<1>5. found \in Read
  <2>1. SessionsOf(u) \in SUBSET Tokens
    BY DEF SessionsOf
  <2>. QED
    BY <1>3, <2>1 DEF Read, User
<1>6. next \in Statements /\ next \in {"deleteSessions", "answer"}
  BY DEF Statements
<1>7. /\ user' = [user EXCEPT ![u].role = new.role, ![u].active = new.active]
      /\ Goto(r, next, found) /\ UNCHANGED session
  BY DEF UpdateUser
<1>. HIDE DEF found, next, new
<1>8. /\ user'[u] \in User /\ user'[u].initial = user[u].initial
      /\ \A v \in Users \ {u} : user'[v] = user[v]
      /\ user' \in [Users -> User \cup {NoUser}]
  <2>1. user' = [user EXCEPT ![u] = [[user[u] EXCEPT !.role = new.role] EXCEPT !.active = new.active]]
    BY <1>2, <1>7 DEF TypeOK
  <2>2. /\ [[user[u] EXCEPT !.role = new.role] EXCEPT !.active = new.active] \in User
        /\ [[user[u] EXCEPT !.role = new.role] EXCEPT !.active = new.active].initial = user[u].initial
    BY <1>3, <1>4 DEF User
  <2>. QED
    BY <1>2, <2>1, <2>2 DEF TypeOK
<1>9. \A v \in Users : Exists(v)' <=> Exists(v)
  <2>1. user'[u] # NoUser
    BY <1>8, AccountsAssumption DEF AccountsAssumption, User, Roles
  <2>. QED
    BY <1>1, <1>8, <2>1 DEF Exists
<1>10. /\ pc'[r] = next /\ req'[r] = req[r]
       /\ pc' \in [Slots -> Statements] /\ req' \in [Slots -> Request \cup {NoRequest}]
       /\ read' \in [Slots -> Read]
       /\ \A t \in Slots \ {r} : pc'[t] = pc[t] /\ req'[t] = req[t] /\ read'[t] = read[t]
  BY <1>5, <1>6, <1>7, GotoMoves
<1>11. TypeOK'
  BY <1>7, <1>8, <1>10 DEF TypeOK
<1>12. ServingAt(r)'
  BY <1>1, <1>2, <1>6, <1>9, <1>10 DEF ServingAt
<1>13. Serving'
  BY <1>9, <1>10, <1>12, OthersKeepServing
<1>14. \A v \in Users : (Exists(v) /\ user[v].initial)' <=> Exists(v) /\ user[v].initial
  BY <1>8, <1>9 DEF Exists
<1>15. OneInitial'
  BY <1>9, <1>14 DEF OneInitial
<1>. QED
  BY <1>11, <1>13, <1>15

LEMMA DeleteUserSessionsKeeps ==
  ASSUME AccountsInv, NEW r \in Slots, DeleteUserSessions(r)
  PROVE  AccountsInv'
<1>1. TypeOK /\ read[r] \in Read /\ "answer" \in Statements
  BY DEF AccountsInv, TypeOK, Statements
<1>2. Goto(r, "answer", read[r]) /\ UNCHANGED user
  BY DEF DeleteUserSessions
<1>3. session' \in [Tokens -> Session \cup {NoSession, Deleted}]
  BY <1>1 DEF DeleteUserSessions, TypeOK
<1>4. req[r] \in UpdateRequest /\ Exists(req[r].user)
  BY DEF AccountsInv, Serving, ServingAt, DeleteUserSessions
<1>5. /\ pc'[r] = "answer" /\ req'[r] = req[r]
      /\ pc' \in [Slots -> Statements] /\ req' \in [Slots -> Request \cup {NoRequest}]
      /\ read' \in [Slots -> Read]
      /\ \A t \in Slots \ {r} : pc'[t] = pc[t] /\ req'[t] = req[t] /\ read'[t] = read[t]
  BY <1>1, <1>2, GotoMoves
<1>6. ServingAt(r)'
  BY <1>2, <1>4, <1>5 DEF ServingAt, Exists
<1>. QED
  BY <1>2, <1>3, <1>5, <1>6, SameAccounts

LEMMA ExpireKeeps ==
  ASSUME AccountsInv, NEW s \in Tokens, Expire(s)
  PROVE  AccountsInv'
<1>1. session[s] \in Session /\ session' = [session EXCEPT ![s].live = FALSE]
      /\ UNCHANGED <<user, pc, req, read>>
  BY DEF Expire
<1>2. [session[s] EXCEPT !.live = FALSE] \in Session
  BY <1>1 DEF Session
<1>3. session' \in [Tokens -> Session \cup {NoSession, Deleted}]
  BY <1>1, <1>2 DEF AccountsInv, TypeOK
<1>. QED
  BY <1>1, <1>3 DEF AccountsInv, TypeOK, OneInitial, Serving, ServingAt, Exists

LEMMA NextKeepsAccounts == AccountsInv /\ [Next]_vars => AccountsInv'
<1>. SUFFICES ASSUME AccountsInv, [Next]_vars PROVE AccountsInv'
  OBVIOUS
<1>1. ASSUME NEW r \in Slots, Step(r) PROVE AccountsInv'
  <2>1. CASE Respond(r) \/ Cancel(r)
    BY <2>1, RefuseKeeps DEF Respond, Cancel
  <2>2. CASE \E q \in Request : Begin(r, q)
    BY <2>2, BeginKeeps
  <2>. QED
    BY <1>1, <2>1, <2>2, CheckSetupKeeps, InsertInitialKeeps, ReadCredentialKeeps,
       CreateSessionKeeps, DeleteSessionKeeps, AuthenticateKeeps, InsertUserKeeps, ReadUserKeeps,
       CountAdminsKeeps, UpdateUserKeeps, DeleteUserSessionsKeeps DEF Step
<1>2. CASE UNCHANGED vars
  BY <1>2 DEF vars, AccountsInv, TypeOK, OneInitial, Serving, ServingAt, Exists
<1>. QED
  BY <1>1, <1>2, ExpireKeeps DEF Next

\* The invariant of accounts holds in every reachable state.
THEOREM AccountsIsInvariant == Spec => []AccountsInv
  BY InitAccountsInv, NextKeepsAccounts, PTL DEF Spec

\* Every row and everything a request holds is in its domain.
THEOREM AccountsTypeCorrect == Spec => []TypeOK
<1>1. AccountsInv => TypeOK
  BY DEF AccountsInv
<1>. QED
  BY <1>1, AccountsIsInvariant, PTL

\* There is exactly one initial account as soon as there is any.
THEOREM SetupIsOnce == Spec => []OneInitial
<1>1. AccountsInv => OneInitial
  BY DEF AccountsInv
<1>. QED
  BY <1>1, AccountsIsInvariant, PTL

-----------------------------------------------------------------------------
(***************************************************************************)
(* Updates, however many run at once.  An update that takes away the power *)
(* to administer has counted another administrator, and the sessions it    *)
(* must end can only end earlier.                                          *)
(***************************************************************************)
CountedAnother(r) ==
  Powerful(read[r]) /\ ~Powerful(Written(r)) =>
    \E v \in read[r].counted : v # req[r].user

SaysEnded(r) ==
  req[r].password \/ ~Written(r).active \/ Written(r).role # read[r].role =>
    \A s \in read[r].ended : session[s] = Deleted

UpdatingAt(r) ==
  /\ pc[r] = "updateUser" => CountedAnother(r)
  /\ pc[r] = "deleteSessions" =>
       \A s \in read[r].ended : s \in SessionsOf(req[r].user) \/ session[s] = Deleted
  /\ pc[r] = "answer" => SaysEnded(r)

UpdateInv == AccountsInv /\ \A r \in Slots : UpdatingAt(r)

\* What a step leaves of what a slot that does not take it relies on.
OthersStay(r) ==
  \A t \in Slots \ {r} : pc'[t] = pc[t] /\ req'[t] = req[t] /\ read'[t] = read[t]
SessionsEnd ==
  \A s \in Tokens :
    /\ session[s] = Deleted => session'[s] = Deleted
    /\ session[s] \in Session =>
         \/ session'[s] = Deleted
         \/ session'[s] \in Session /\ session'[s].user = session[s].user

\* Who administers, stays so.
AdminsStay == AdminRemains => AdminRemains'

LEMMA GotoOthers ==
  ASSUME TypeOK, NEW r \in Slots, NEW next, NEW found, Goto(r, next, found)
  PROVE  OthersStay(r) /\ pc'[r] = next /\ read'[r] = found /\ req'[r] = req[r]
  BY DEF TypeOK, Goto, OthersStay

LEMMA EndOthers ==
  ASSUME TypeOK, NEW r \in Slots, End(r)
  PROVE  OthersStay(r) /\ pc'[r] = "idle"
  BY DEF TypeOK, End, OthersStay

LEMMA SameSessions ==
  ASSUME session' = session PROVE SessionsEnd
  BY DEF SessionsEnd

LEMMA SameUsers ==
  ASSUME user' = user PROVE AdminsStay
  BY DEF AdminsStay, AdminRemains, IsAdmin, Exists

LEMMA RefuseMoves ==
  ASSUME TypeOK, NEW r \in Slots, Refuse(r)
  PROVE  OthersStay(r) /\ SessionsEnd /\ UpdatingAt(r)' /\ AdminsStay
<1>1. OthersStay(r) /\ pc'[r] = "idle" /\ user' = user /\ session' = session
  BY EndOthers DEF Refuse
<1>2. QED
  BY <1>1, SameSessions, SameUsers DEF UpdatingAt

\* A new account takes no power from the others.
LEMMA InsertMoves ==
  ASSUME TypeOK, NEW r \in Slots, NEW row, NEW next \in {"idle", "createSession"},
         Insert(r, row, next)
  PROVE  /\ OthersStay(r) /\ SessionsEnd /\ UpdatingAt(r)'
         /\ \A u \in Users : IsAdmin(u) => IsAdmin(u)'
         /\ \E u \in Users : user'[u] = row
<1>1. PICK u \in Users :
        /\ ~Exists(u)
        /\ user' = [user EXCEPT ![u] = row]
        /\ IF next = "idle" THEN End(r) ELSE Goto(r, next, [read[r] EXCEPT !.id = u])
        /\ UNCHANGED session
  BY DEF Insert
<1>2. OthersStay(r) /\ pc'[r] = next
  BY <1>1, EndOthers, GotoOthers
<1>3. user'[u] = row /\ \A v \in Users : IsAdmin(v) => IsAdmin(v)'
  BY <1>1 DEF TypeOK, IsAdmin, Exists
<1>4. UpdatingAt(r)'
  BY <1>2 DEF UpdatingAt
<1>5. QED
  BY <1>1, <1>2, <1>3, <1>4, SameSessions

\* A slot that takes no step keeps what it relies on.
LEMMA UpdatingStays ==
  ASSUME AccountsInv, NEW t \in Slots, UpdatingAt(t), SessionsEnd,
         pc'[t] = pc[t], req'[t] = req[t], read'[t] = read[t]
  PROVE  UpdatingAt(t)'
<1>1. read[t].ended \subseteq Tokens
  BY DEF AccountsInv, TypeOK, Read
<1>2. Written(t)' = Written(t)
  BY DEF Written, Merge
<1>3. pc[t] = "updateUser" => CountedAnother(t)'
  BY <1>2 DEF UpdatingAt, CountedAnother, Powerful
<1>4. ASSUME pc[t] = "deleteSessions", NEW s \in read[t].ended
      PROVE  s \in SessionsOf(req[t].user)' \/ session'[s] = Deleted
  <2>1. s \in Tokens /\ (s \in SessionsOf(req[t].user) \/ session[s] = Deleted)
    BY <1>1, <1>4 DEF UpdatingAt
  <2>2. QED
    BY <2>1 DEF SessionsEnd, SessionsOf
<1>5. pc[t] = "answer" => SaysEnded(t)'
  BY <1>1, <1>2 DEF UpdatingAt, SaysEnded, SessionsEnd
<1>6. QED
  BY <1>3, <1>4, <1>5 DEF UpdatingAt

-----------------------------------------------------------------------------
\* The statements of an update that read.
LEMMA BeginMoves ==
  ASSUME TypeOK, NEW r \in Slots, NEW q \in Request, Begin(r, q)
  PROVE  OthersStay(r) /\ SessionsEnd /\ UpdatingAt(r)' /\ AdminsStay
<1>1. OthersStay(r) /\ pc'[r] = First(q.op) /\ user' = user /\ session' = session
  BY DEF Begin, OthersStay, TypeOK
<1>2. First(q.op) \in {"checkSetup", "readCredential", "deleteSession", "authenticate"}
  BY DEF First
<1>3. UpdatingAt(r)'
  BY <1>1, <1>2 DEF UpdatingAt
<1>4. QED
  BY <1>1, <1>3, SameUsers, SameSessions

LEMMA AuthenticateMoves ==
  ASSUME AccountsInv, NEW r \in Slots, Authenticate(r)
  PROVE  OthersStay(r) /\ SessionsEnd /\ UpdatingAt(r)' /\ AdminsStay
<1>1. CASE Refuse(r)
  BY <1>1, RefuseMoves DEF AccountsInv
<1>2. CASE /\ Goto(r, IF req[r].op = "create" THEN "insertUser" ELSE "readUser",
                   [read[r] EXCEPT !.id = session[req[r].token].user])
           /\ UNCHANGED <<user, session>>
  <2>1. OthersStay(r) /\ pc'[r] \in {"insertUser", "readUser"}
    BY <1>2, GotoOthers DEF AccountsInv
  <2>2. UpdatingAt(r)'
    BY <2>1 DEF UpdatingAt
  <2>3. QED
    BY <1>2, <2>1, <2>2, SameUsers, SameSessions
<1>3. QED
  BY <1>1, <1>2 DEF Authenticate

LEMMA ReadUserMoves ==
  ASSUME AccountsInv, NEW r \in Slots, ReadUser(r)
  PROVE  OthersStay(r) /\ SessionsEnd /\ UpdatingAt(r)' /\ AdminsStay
<1> DEFINE u == req[r].user
           new == Merge(user[u], req[r])
           next == IF Powerful(user[u]) /\ ~Powerful(new) THEN "countAdmins" ELSE "updateUser"
           found == [read[r] EXCEPT !.role = user[u].role, !.active = user[u].active]
<1>1. CASE Refuse(r)
  BY <1>1, RefuseMoves DEF AccountsInv
<1>2. CASE Goto(r, next, found) /\ UNCHANGED <<user, session>>
  <2>1. found.role = user[u].role /\ found.active = user[u].active
    BY DEF AccountsInv, TypeOK, Read
  <2>2. (Powerful(found) <=> Powerful(user[u])) /\ Merge(found, req[r]) = new
    BY <2>1 DEF Powerful, Merge
  <2>3. next \in {"countAdmins", "updateUser"}
    OBVIOUS
  <2> HIDE DEF found, next
  <2>4. OthersStay(r) /\ pc'[r] = next /\ read'[r] = found /\ req'[r] = req[r]
    BY <1>2, GotoOthers DEF AccountsInv
  <2>5. Written(r)' = new /\ (Powerful(read[r])' <=> Powerful(user[u]))
    BY <2>2, <2>4 DEF Written, Powerful, Merge
  <2>6. next = "updateUser" => CountedAnother(r)'
    BY <2>5 DEF next, CountedAnother, Powerful
  <2>7. UpdatingAt(r)'
    BY <2>3, <2>4, <2>6 DEF UpdatingAt
  <2>8. QED
    BY <1>2, <2>4, <2>7, SameUsers, SameSessions
<1>3. QED
  BY <1>1, <1>2 DEF ReadUser

\* More than one administrator is another than the one to be demoted.
LEMMA CountAdminsMoves ==
  ASSUME AccountsInv, NEW r \in Slots, CountAdmins(r)
  PROVE  OthersStay(r) /\ SessionsEnd /\ UpdatingAt(r)' /\ AdminsStay
<1> DEFINE u == req[r].user
           found == [read[r] EXCEPT !.counted = Admins]
<1>1. CASE Refuse(r)
  BY <1>1, RefuseMoves DEF AccountsInv
<1>2. CASE ~(Cardinality(Admins) <= 1) /\ Goto(r, "updateUser", found) /\ UNCHANGED <<user, session>>
  <2>1. found.counted = Admins
    BY DEF AccountsInv, TypeOK, Read
  <2> HIDE DEF found
  <2>2. OthersStay(r) /\ pc'[r] = "updateUser" /\ read'[r] = found /\ req'[r] = req[r]
    BY <1>2, GotoOthers DEF AccountsInv
  <2>3. Admins # {} /\ Admins # {u}
    <3>1. Cardinality({}) = 0 /\ Cardinality({u}) = 1
      BY FS_EmptySet, FS_Singleton
    <3>2. QED
      BY <1>2, <3>1
  <2>4. PICK v \in Admins : v # u
    BY <2>3
  <2>5. CountedAnother(r)'
    BY <2>1, <2>2, <2>4 DEF CountedAnother
  <2>6. UpdatingAt(r)'
    BY <2>2, <2>5 DEF UpdatingAt
  <2>7. QED
    BY <1>2, <2>2, <2>6, SameUsers, SameSessions
<1>3. QED
  BY <1>1, <1>2 DEF CountAdmins

-----------------------------------------------------------------------------
\* The statements that write sessions.
LEMMA DeletedOrSame ==
  ASSUME \A s \in Tokens : session'[s] = session[s] \/ session'[s] = Deleted
  PROVE  SessionsEnd
<1> SUFFICES ASSUME NEW s \in Tokens
             PROVE  /\ session[s] = Deleted => session'[s] = Deleted
                    /\ session[s] \in Session =>
                         \/ session'[s] = Deleted
                         \/ session'[s] \in Session /\ session'[s].user = session[s].user
  BY DEF SessionsEnd
<1>1. CASE session'[s] = session[s]
  BY <1>1
<1>2. CASE session'[s] = Deleted
  BY <1>2
<1>3. QED
  BY <1>1, <1>2

LEMMA CreateSessionMoves ==
  ASSUME AccountsInv, NEW r \in Slots, CreateSession(r)
  PROVE  OthersStay(r) /\ SessionsEnd /\ UpdatingAt(r)' /\ AdminsStay
<1>1. OthersStay(r) /\ pc'[r] = "idle" /\ user' = user
  BY EndOthers DEF CreateSession, AccountsInv
<1>2. PICK s \in Tokens :
        /\ session[s] = NoSession
        /\ session' = [session EXCEPT ![s] = [user |-> read[r].id, live |-> TRUE]]
  BY DEF CreateSession
<1>3. \A t \in Tokens : t # s => session'[t] = session[t]
  BY <1>2 DEF AccountsInv, TypeOK
<1>4. session[s] # Deleted /\ session[s] \notin Session
  BY <1>2, AccountsAssumption DEF AccountsAssumption, Session
<1>5. SessionsEnd
  BY <1>3, <1>4 DEF SessionsEnd
<1>6. UpdatingAt(r)'
  BY <1>1 DEF UpdatingAt
<1>7. QED
  BY <1>1, <1>5, <1>6, SameUsers

LEMMA DeleteSessionMoves ==
  ASSUME AccountsInv, NEW r \in Slots, DeleteSession(r)
  PROVE  OthersStay(r) /\ SessionsEnd /\ UpdatingAt(r)' /\ AdminsStay
<1>1. OthersStay(r) /\ pc'[r] = "idle" /\ user' = user
  BY EndOthers DEF DeleteSession, AccountsInv
<1>2. \A t \in Tokens : session'[t] = session[t] \/ session'[t] = Deleted
  BY DEF DeleteSession, AccountsInv, TypeOK
<1>3. SessionsEnd
  BY <1>2, DeletedOrSame
<1>4. UpdatingAt(r)'
  BY <1>1 DEF UpdatingAt
<1>5. QED
  BY <1>1, <1>3, <1>4, SameUsers

LEMMA DeleteUserSessionsMoves ==
  ASSUME AccountsInv, NEW r \in Slots, UpdatingAt(r), DeleteUserSessions(r)
  PROVE  OthersStay(r) /\ SessionsEnd /\ UpdatingAt(r)' /\ AdminsStay
<1>1. OthersStay(r) /\ pc'[r] = "answer" /\ read'[r] = read[r] /\ req'[r] = req[r] /\ user' = user
  BY GotoOthers DEF DeleteUserSessions, AccountsInv
<1>2. \A t \in Tokens :
        session'[t] = IF t \in SessionsOf(req[r].user) THEN Deleted ELSE session[t]
  BY DEF DeleteUserSessions
<1>3. SessionsEnd
  BY <1>2, DeletedOrSame
<1>4. \A s \in read[r].ended : session'[s] = Deleted
  BY <1>2 DEF UpdatingAt, DeleteUserSessions, AccountsInv, TypeOK, Read
<1>5. SaysEnded(r)'
  BY <1>1, <1>4 DEF SaysEnded
<1>6. UpdatingAt(r)'
  BY <1>1, <1>5 DEF UpdatingAt
<1>7. QED
  BY <1>1, <1>3, <1>6, SameUsers

LEMMA ExpireMoves ==
  ASSUME AccountsInv, NEW s \in Tokens, Expire(s)
  PROVE  SessionsEnd
<1>1. /\ \A t \in Tokens : t # s => session'[t] = session[t]
      /\ session[s] \in Session /\ session'[s] = [session[s] EXCEPT !.live = FALSE]
  BY DEF Expire, AccountsInv, TypeOK
<1>2. session'[s] \in Session /\ session'[s].user = session[s].user /\ session[s] # Deleted
  BY <1>1, AccountsAssumption DEF AccountsAssumption, Session
<1>3. QED
  BY <1>1, <1>2 DEF SessionsEnd

\* Every statement but the one that writes the row.
LEMMA StepMoves ==
  ASSUME UpdateInv, NEW r \in Slots, Step(r), ~UpdateUser(r)
  PROVE  OthersStay(r) /\ SessionsEnd /\ UpdatingAt(r)' /\ AdminsStay
<1> USE DEF UpdateInv
<1>0. TypeOK
  BY DEF AccountsInv
<1>1. CASE Refuse(r)
  BY <1>0, <1>1, RefuseMoves
<1>2. CASE \E q \in Request : Begin(r, q)
  BY <1>0, <1>2, BeginMoves
<1>3. CASE CheckSetup(r)
  <2>1. CASE Goto(r, "insertInitial", read[r]) /\ UNCHANGED <<user, session>>
    <3>1. OthersStay(r) /\ pc'[r] = "insertInitial"
      BY <1>0, <2>1, GotoOthers
    <3>2. UpdatingAt(r)'
      BY <3>1 DEF UpdatingAt
    <3>3. QED
      BY <2>1, <3>1, <3>2, SameUsers, SameSessions
  <2>2. QED
    BY <1>1, <1>3, <2>1 DEF CheckSetup
<1>4. CASE InsertInitial(r)
  <2>1. CASE Insert(r, InitialRow, "createSession")
    <3>1. PICK u \in Users : user'[u] = InitialRow
      BY <1>0, <2>1, InsertMoves
    <3>2. InitialRow # NoUser
      <4>1. InitialRow \in User
        BY DEF InitialRow, User, Roles
      <4>2. QED
        BY <4>1, AccountsAssumption DEF AccountsAssumption, User, Roles
    <3>3. IsAdmin(u)'
      BY <3>1, <3>2 DEF IsAdmin, Exists, InitialRow
    <3>4. AdminsStay
      BY <3>3 DEF AdminsStay, AdminRemains
    <3>5. QED
      BY <1>0, <2>1, <3>4, InsertMoves
  <2>2. QED
    BY <1>1, <1>4, <2>1 DEF InsertInitial
<1>5. CASE InsertUser(r)
  <2> DEFINE row == [role |-> req[r].role, active |-> TRUE, initial |-> FALSE]
  <2>1. Insert(r, row, "idle")
    BY <1>5 DEF InsertUser
  <2> HIDE DEF row
  <2>2. \E u \in Users : Exists(u)
    BY <1>5 DEF InsertUser, AccountsInv, Serving, ServingAt
  <2>3. AdminsStay
    BY <1>0, <2>1, <2>2, InsertMoves DEF AdminsStay, AdminRemains
  <2>4. QED
    BY <1>0, <2>1, <2>3, InsertMoves
<1>6. CASE ReadCredential(r)
  <2>1. CASE /\ Goto(r, "createSession", [read[r] EXCEPT !.id = req[r].user])
             /\ UNCHANGED <<user, session>>
    <3>1. OthersStay(r) /\ pc'[r] = "createSession"
      BY <1>0, <2>1, GotoOthers
    <3>2. UpdatingAt(r)'
      BY <3>1 DEF UpdatingAt
    <3>3. QED
      BY <2>1, <3>1, <3>2, SameUsers, SameSessions
  <2>2. QED
    BY <1>1, <1>6, <2>1 DEF ReadCredential
<1>7. QED
  BY <1>1, <1>2, <1>3, <1>4, <1>5, <1>6, CreateSessionMoves, DeleteSessionMoves,
     AuthenticateMoves, ReadUserMoves, CountAdminsMoves, DeleteUserSessionsMoves
     DEF Step, Respond, Cancel

-----------------------------------------------------------------------------
\* The row that is written, and that the others are left alone.
LEMMA UpdateUserWrites ==
  ASSUME AccountsInv, NEW r \in Slots, UpdateUser(r)
  PROVE  LET u == req[r].user IN
         /\ u \in Users /\ Exists(u) /\ user'[u] # NoUser
         /\ user'[u].role = Written(r).role /\ user'[u].active = Written(r).active
         /\ \A v \in Users \ {u} : user'[v] = user[v]
<1> DEFINE u == req[r].user
           new == Written(r)
<1>1. req[r] \in UpdateRequest /\ Exists(u)
  BY DEF AccountsInv, Serving, ServingAt, UpdateUser
<1>2. u \in Users
  BY <1>1 DEF UpdateRequest
<1>3. user[u] \in User /\ read[r] \in Read
  BY <1>1, <1>2 DEF AccountsInv, TypeOK, Exists
<1>4. new.role \in Roles /\ new.active \in BOOLEAN
  BY <1>1, <1>3 DEF Written, Merge, UpdateRequest, Read
<1>5. user' = [user EXCEPT ![u].role = new.role, ![u].active = new.active]
  BY DEF UpdateUser
<1> HIDE DEF new
<1>6. user' = [user EXCEPT ![u] = [[user[u] EXCEPT !.role = new.role] EXCEPT !.active = new.active]]
  BY <1>2, <1>5 DEF AccountsInv, TypeOK
<1> DEFINE row == [[user[u] EXCEPT !.role = new.role] EXCEPT !.active = new.active]
<1>7. row \in User /\ row.role = new.role /\ row.active = new.active
  BY <1>3, <1>4 DEF User
<1> HIDE DEF row
<1>8. user'[u] = row /\ \A v \in Users \ {u} : user'[v] = user[v]
  BY <1>2, <1>6 DEF AccountsInv, TypeOK, row
<1>9. row # NoUser
  BY <1>7, AccountsAssumption DEF AccountsAssumption, User, Roles
<1>10. user'[u] # NoUser
  BY <1>8, <1>9
<1>11. user'[u].role = new.role /\ user'[u].active = new.active
  BY <1>7, <1>8
<1>12. QED
  BY <1>1, <1>2, <1>8, <1>10, <1>11, Zenon DEF new

LEMMA UpdateUserMoves ==
  ASSUME UpdateInv, NEW r \in Slots, UpdateUser(r)
  PROVE  OthersStay(r) /\ SessionsEnd /\ UpdatingAt(r)'
<1> USE DEF UpdateInv
<1> DEFINE u == req[r].user
           next == IF EndsSessions(req[r], read[r], Written(r)) THEN "deleteSessions" ELSE "answer"
           found == [read[r] EXCEPT !.ended = SessionsOf(u)]
<1>1. Goto(r, next, found) /\ session' = session
  BY DEF UpdateUser
<1>2. /\ found.role = read[r].role /\ found.active = read[r].active
      /\ found.ended = SessionsOf(u)
  BY DEF AccountsInv, TypeOK, Read
<1>3. next \in {"deleteSessions", "answer"}
  OBVIOUS
<1>4. next = "answer" =>
        ~req[r].password /\ Written(r).active /\ Written(r).role = read[r].role
  BY DEF EndsSessions
<1> HIDE DEF found, next
<1>5. OthersStay(r) /\ pc'[r] = next /\ read'[r] = found /\ req'[r] = req[r]
  BY <1>1, GotoOthers DEF AccountsInv
<1>6. Written(r)' = Written(r)
  BY <1>2, <1>5 DEF Written, Merge
<1>7. next = "answer" => SaysEnded(r)'
  BY <1>2, <1>4, <1>5, <1>6 DEF SaysEnded
<1>8. SessionsOf(u)' = SessionsOf(u) /\ u' = u
  BY <1>1, <1>5 DEF SessionsOf
<1>9. UpdatingAt(r)'
  BY <1>2, <1>3, <1>5, <1>7, <1>8 DEF UpdatingAt
<1>10. QED
  BY <1>1, <1>5, <1>9, SameSessions

LEMMA UpdateInvIsInductive ==
  ASSUME UpdateInv, [Next]_vars
  PROVE  UpdateInv'
<1>1. AccountsInv'
  BY NextKeepsAccounts DEF UpdateInv
<1>2. ASSUME NEW r \in Slots, Step(r)
      PROVE  \A t \in Slots : UpdatingAt(t)'
  <2>1. OthersStay(r) /\ SessionsEnd /\ UpdatingAt(r)'
    BY <1>2, StepMoves, UpdateUserMoves
  <2>2. ASSUME NEW t \in Slots, t # r PROVE UpdatingAt(t)'
    <3>1. AccountsInv /\ UpdatingAt(t) /\ pc'[t] = pc[t] /\ req'[t] = req[t] /\ read'[t] = read[t]
      BY <2>1, <2>2 DEF UpdateInv, OthersStay
    <3>2. QED
      BY <2>1, <3>1, UpdatingStays
  <2>3. QED
    BY <2>1, <2>2
<1>3. ASSUME pc' = pc, req' = req, read' = read, SessionsEnd
      PROVE  \A t \in Slots : UpdatingAt(t)'
  BY <1>3, UpdatingStays DEF UpdateInv
<1>4. ASSUME NEW s \in Tokens, Expire(s)
      PROVE  \A t \in Slots : UpdatingAt(t)'
  BY <1>3, <1>4, ExpireMoves DEF Expire, UpdateInv
<1>5. CASE UNCHANGED vars
  BY <1>1, <1>3, <1>5, SameSessions DEF vars, UpdateInv
<1>6. QED
  BY <1>1, <1>2, <1>4, <1>5 DEF Next, UpdateInv

\* What is proved of updates holds in every reachable state.
THEOREM UpdateIsInvariant == Spec => []UpdateInv
<1>1. Init => UpdateInv
  BY InitAccountsInv DEF UpdateInv, Init, UpdatingAt
<1>2. UpdateInv /\ [Next]_vars => UpdateInv'
  BY UpdateInvIsInductive
<1>3. QED
  BY <1>1, <1>2, PTL DEF Spec

\* However many updates run at once, one that answers has ended the sessions it
\* said it would.
THEOREM UpdatesEndSessions == Spec => []UpdateEndsSessions
<1>1. UpdateInv => UpdateEndsSessions
  BY DEF UpdateInv, UpdatingAt, SaysEnded, UpdateEndsSessions
<1>2. QED
  BY <1>1, UpdateIsInvariant, PTL

\* An update that nothing overtook leaves an administrator.
LEMMA UpdateLeavesAnAdmin ==
  ASSUME UpdateInv, NEW r \in Slots, UpdateUser(r), ~Overtaken(r), AdminRemains
  PROVE  AdminRemains'
<1> USE DEF UpdateInv
<1> DEFINE u == req[r].user
<1>1. /\ u \in Users /\ Exists(u) /\ user'[u] # NoUser
      /\ user'[u].role = Written(r).role /\ user'[u].active = Written(r).active
      /\ \A v \in Users \ {u} : user'[v] = user[v]
  BY UpdateUserWrites
<1>2. user[u].role = read[r].role /\ user[u].active = read[r].active
      /\ \A v \in read[r].counted : IsAdmin(v)
  BY DEF Overtaken
<1>3. ASSUME NEW v \in Users \ {u}, IsAdmin(v) PROVE AdminRemains'
  <2>1. IsAdmin(v)'
    BY <1>1, <1>3 DEF IsAdmin, Exists
  <2>2. QED
    BY <2>1 DEF AdminRemains
<1>4. PICK v \in Users : IsAdmin(v)
  BY <1>1 DEF AdminRemains
<1>5. CASE v # u
  BY <1>3, <1>4, <1>5
<1>6. CASE v = u /\ Powerful(Written(r))
  <2>1. IsAdmin(v)'
    BY <1>1, <1>6 DEF IsAdmin, Exists, Powerful
  <2>2. QED
    BY <2>1 DEF AdminRemains
<1>7. CASE v = u /\ ~Powerful(Written(r))
  <2>1. Powerful(read[r])
    BY <1>2, <1>4, <1>7 DEF IsAdmin, Powerful
  <2>2. PICK x \in read[r].counted : x # u
    BY <1>7, <2>1 DEF UpdatingAt, CountedAnother, UpdateUser
  <2>3. x \in Users \ {u} /\ IsAdmin(x)
    BY <1>2, <2>2 DEF AccountsInv, TypeOK, Read
  <2>4. QED
    BY <1>3, <2>3
<1>8. QED
  BY <1>4, <1>5, <1>6, <1>7

\* For any number of updates at once, of whatever columns: the last active
\* administrator is lost only by an update that another one has overtaken
\* (SecurityService.UpdateUser reads, counts and writes in three statements).
THEOREM OnlyARaceLosesTheLastAdmin == Spec => LastAdminIsLostByARace
<1>1. ASSUME UpdateInv, Next, AdminRemains, ~AdminRemains'
      PROVE  \E r \in Slots : pc[r] = "updateUser" /\ Overtaken(r)
  <2>1. user' # user
    BY <1>1, SameUsers DEF AdminsStay
  <2>2. PICK r \in Slots : Step(r)
    BY <1>1, <2>1 DEF Next, Expire
  <2>3. UpdateUser(r)
    BY <1>1, <2>2, StepMoves DEF AdminsStay
  <2>4. Overtaken(r) /\ pc[r] = "updateUser"
    BY <1>1, <2>3, UpdateLeavesAnAdmin DEF UpdateUser
  <2>5. QED
    BY <2>4
<1>2. UpdateInv /\ [Next]_vars =>
        [AdminRemains /\ ~AdminRemains' =>
           \E r \in Slots : pc[r] = "updateUser" /\ Overtaken(r)]_vars
  BY <1>1
<1>3. QED
  BY <1>2, UpdateIsInvariant, PTL DEF Spec, LastAdminIsLostByARace

-----------------------------------------------------------------------------
(***************************************************************************)
(* What holds of LoginLimiter, for any number of keys and requests.  A key *)
(* may get past Maximum because requests that passed Allow have not failed *)
(* yet: the invariant counts them with the failures.                       *)
(***************************************************************************)
\* A handler that Allow has let through for k and that may still report a failure of k.
Holds(h, k) ==
  \/ h.at = "allow" /\ \E i \in 1..(h.next - 1) : k = KeysOf(h)[i]
  \/ h.at = "serve" /\ \E i \in 1..Calls(h) : k = KeysOf(h)[i]
  \/ h.at = "fail" /\ \E i \in h.next..Calls(h) : k = KeysOf(h)[i]

Holders(k) == {r \in Slots : Holds(handler[r], k)}

HandlerOK(h) == h = Away \/ (h \in Handler /\ h.next <= Calls(h))

MapOK ==
  /\ now \in 0..Horizon
  /\ DOMAIN attempts \subseteq Keys
  /\ \A k \in DOMAIN attempts : attempts[k] \in Entry

HandlersOK == DOMAIN handler = Slots /\ \A r \in Slots : HandlerOK(handler[r])

Counted(k) == attempts[k].failures + Cardinality(Holders(k)) < Maximum + Cardinality(Slots)

LimiterInv == MapOK /\ HandlersOK /\ \A k \in DOMAIN attempts : Counted(k)

-----------------------------------------------------------------------------
(* Keys of a handler.                                                         *)

LEMMA KeysAreKeys ==
  ASSUME NEW h \in Handler
  PROVE  /\ Calls(h) \in {1, 2}
         /\ \A i \in 1..Calls(h) : KeysOf(h)[i] \in Keys
         /\ Calls(h) = 2 => KeysOf(h)[1] # KeysOf(h)[2]
<1>1. h.req.op = "setup" \/ (h.req.op = "login" /\ h.req.user \in Users)
  BY DEF Handler, Limited, Request
<1>2. h.address \in Addresses
  BY DEF Handler
<1>3. CASE h.req.op = "setup"
  <2>1. KeysOf(h) = << <<"setup", h.address>> >>
    BY <1>3 DEF KeysOf
  <2>. QED
    BY <1>2, <2>1 DEF Keys, Calls
<1>4. CASE h.req.op # "setup"
  <2>1. KeysOf(h) = << <<"ip", h.address>>, <<"account", h.req.user>> >>
    BY <1>4 DEF KeysOf
  <2>2. h.req.user \in Users
    BY <1>1, <1>4
  <2>. QED
    BY <1>2, <2>1, <2>2 DEF Keys, Calls
<1>. QED
  BY <1>3, <1>4

\* The same handler, about to make another call.
Moved(g, h, at, n) ==
  g \in Handler /\ g.at = at /\ g.next = n /\ g.req = h.req /\ g.address = h.address

LEMMA SameKeys ==
  ASSUME NEW g, NEW h, NEW at, NEW n, Moved(g, h, at, n)
  PROVE  KeysOf(g) = KeysOf(h) /\ Calls(g) = Calls(h)
<1>1. KeysOf(g) = KeysOf(h)
  BY DEF KeysOf, Moved
<1>. QED
  BY <1>1 DEF Calls

LEMMA HandlerMoved ==
  ASSUME NEW h \in Handler, NEW at \in {"allow", "serve", "fail", "reset"}, NEW n \in {1, 2}
  PROVE  Moved([h EXCEPT !.at = at, !.next = n], h, at, n)
  BY DEF Handler, Moved

LEMMA NextMoved ==
  ASSUME NEW h \in Handler, h.next = 1
  PROVE  Moved([h EXCEPT !.next = @ + 1], h, h.at, 2)
  BY DEF Handler, Moved

-----------------------------------------------------------------------------
(* Holders, when the handler of one slot moves.                               *)

LEMMA HoldersAreFew ==
  ASSUME NEW k
  PROVE  IsFiniteSet(Holders(k)) /\ Cardinality(Holders(k)) \in Nat
         /\ Cardinality(Slots) \in Nat /\ Cardinality(Holders(k)) <= Cardinality(Slots)
<1>1. Holders(k) \in SUBSET Slots /\ IsFiniteSet(Slots)
  BY LimiterAssumption DEF Holders
<1>. QED
  BY <1>1, FS_Subset, FS_CardinalityType

\* No more hold k if the one that moves does not begin to.
LEMMA HoldersShrink ==
  ASSUME HandlersOK, NEW r \in Slots, NEW h, Proceed(r, h), NEW k,
         Holds(h, k) => Holds(handler[r], k)
  PROVE  Cardinality(Holders(k)') \in Nat /\ Cardinality(Holders(k)') <= Cardinality(Holders(k))
<1>1. Holders(k)' \in SUBSET Holders(k)
  <2>. SUFFICES ASSUME NEW t \in Slots, Holds(handler'[t], k) PROVE Holds(handler[t], k)
    BY DEF Holders
  <2>1. handler'[t] = IF t = r THEN h ELSE handler[t]
    BY DEF Proceed, HandlersOK
  <2>. QED
    BY <2>1
<1>. QED
  BY <1>1, HoldersAreFew, FS_Subset, FS_CardinalityType

\* One less if it stops to.
LEMMA HolderLeaves ==
  ASSUME HandlersOK, NEW r \in Slots, NEW h, Proceed(r, h), NEW k,
         Holds(handler[r], k), ~Holds(h, k)
  PROVE  Cardinality(Holders(k)') \in Nat /\ Cardinality(Holders(k)') = Cardinality(Holders(k)) - 1
<1>1. Holders(k)' = Holders(k) \ {r}
  <2>. SUFFICES ASSUME NEW t \in Slots
                PROVE  Holds(handler'[t], k) <=> Holds(handler[t], k) /\ t # r
    BY DEF Holders
  <2>1. handler'[t] = IF t = r THEN h ELSE handler[t]
    BY DEF Proceed, HandlersOK
  <2>. QED
    BY <2>1
<1>2. r \in Holders(k)
  BY DEF Holders
<1>3. IsFiniteSet(Holders(k))
  BY HoldersAreFew
<1>. QED
  BY <1>1, <1>2, <1>3, FS_RemoveElement, FS_CardinalityType

LEMMA HandlerMoves ==
  ASSUME HandlersOK, NEW r \in Slots, NEW h, HandlerOK(h), Proceed(r, h)
  PROVE  HandlersOK'
  BY DEF HandlersOK, Proceed, HandlerOK

LEMMA AwayHoldsNothing == ASSUME NEW k PROVE ~Holds(Away, k)
  BY DEF Holds, Away

-----------------------------------------------------------------------------
(* What a handler holds after its next call.                                  *)

LEMMA FirstOfTwo ==
  ASSUME NEW h \in Handler, HandlerOK(h), ~Last(h)
  PROVE  /\ Calls(h) = 2 /\ h.next = 1 /\ KeysOf(h)[1] # KeysOf(h)[2]
         /\ h.at \in {"allow", "serve", "fail", "reset"}
<1>1. h.next \in {1, 2} /\ h.at \in {"allow", "serve", "fail", "reset"}
  BY DEF Handler
<1>2. h.next <= Calls(h)
  BY <1>1 DEF HandlerOK, Away
<1>3. h.next # Calls(h) /\ Calls(h) \in {1, 2}
  BY KeysAreKeys DEF Last
<1>4. Calls(h) = 2 /\ h.next = 1
  BY <1>1, <1>2, <1>3
<1>. QED
  BY <1>1, <1>4, KeysAreKeys

LEMMA NextKeyHolds ==
  ASSUME NEW h \in Handler, HandlerOK(h), ~Last(h), NEW g, Moved(g, h, h.at, 2)
  PROVE  /\ HandlerOK(g)
         /\ h.at = "allow" => \A k : Holds(g, k) => Holds(h, k) \/ k = Key(h)
         /\ h.at = "fail" => \A k : Holds(g, k) <=> Holds(h, k) /\ k # Key(h)
         /\ h.at = "reset" => \A k : ~Holds(g, k)
<1>1. /\ Calls(h) = 2 /\ h.next = 1 /\ KeysOf(h)[1] # KeysOf(h)[2]
      /\ h.at \in {"allow", "serve", "fail", "reset"}
  BY FirstOfTwo
<1>2. g \in Handler /\ g.at = h.at /\ g.next = 2
  BY DEF Moved
<1>3. KeysOf(g) = KeysOf(h) /\ Calls(g) = Calls(h)
  BY SameKeys
<1>4. HandlerOK(g)
  <2>1. g.next <= Calls(g)
    BY <1>1, <1>2, <1>3
  <2>. QED
    BY <1>2, <2>1 DEF HandlerOK
<1>5. ASSUME NEW k, h.at = "allow", Holds(g, k) PROVE k = Key(h)
  BY <1>1, <1>2, <1>3, <1>5 DEF Holds, Key
<1>6. ASSUME NEW k, h.at = "fail" PROVE Holds(g, k) <=> Holds(h, k) /\ k # Key(h)
  <2>1. g.next..Calls(g) = {2} /\ h.next..Calls(h) = {1, 2}
    BY <1>1, <1>2, <1>3
  <2>2. Holds(g, k) <=> k = KeysOf(h)[2]
    BY <1>2, <1>3, <1>6, <2>1 DEF Holds
  <2>3. Holds(h, k) <=> k = KeysOf(h)[1] \/ k = KeysOf(h)[2]
    BY <1>6, <2>1 DEF Holds
  <2>. QED
    BY <1>1, <2>2, <2>3 DEF Key
<1>7. ASSUME NEW k, h.at = "reset" PROVE ~Holds(g, k)
  BY <1>2, <1>7 DEF Holds
<1>. QED
  BY <1>4, <1>5, <1>6, <1>7

LEMMA CallHolds ==
  ASSUME NEW h \in Handler, HandlerOK(h), NEW at \in {"serve", "fail", "reset"},
         NEW g, Moved(g, h, at, 1)
  PROVE  /\ HandlerOK(g)
         /\ at = "serve" /\ h.at = "allow" /\ Last(h) =>
              \A k : Holds(g, k) => Holds(h, k) \/ k = Key(h)
         /\ at = "fail" /\ h.at = "serve" => \A k : Holds(g, k) => Holds(h, k)
         /\ at = "reset" => \A k : ~Holds(g, k)
<1>1. g \in Handler /\ g.at = at /\ g.next = 1 /\ KeysOf(g) = KeysOf(h) /\ Calls(g) = Calls(h)
  BY SameKeys DEF Moved
<1>2. Calls(h) \in {1, 2}
  BY KeysAreKeys
<1>3. HandlerOK(g)
  BY <1>1, <1>2 DEF HandlerOK
<1>4. ASSUME NEW k, at = "serve", h.at = "allow", Last(h), Holds(g, k)
      PROVE  Holds(h, k) \/ k = Key(h)
  <2>1. PICK i \in 1..Calls(h) : k = KeysOf(h)[i]
    BY <1>1, <1>4 DEF Holds
  <2>2. i = h.next \/ i \in 1..(h.next - 1)
    BY <1>2, <1>4 DEF Last
  <2>. QED
    BY <1>4, <2>1, <2>2 DEF Holds, Key
<1>5. ASSUME NEW k, at = "fail", h.at = "serve", Holds(g, k) PROVE Holds(h, k)
  BY <1>1, <1>5 DEF Holds
<1>6. ASSUME NEW k, at = "reset" PROVE ~Holds(g, k)
  BY <1>1, <1>6 DEF Holds
<1>. QED
  BY <1>3, <1>4, <1>5, <1>6

-----------------------------------------------------------------------------
(* The actions.                                                               *)

\* Nothing is added to the map, and a handler that begins to hold a key was let
\* through for it just now.
LEMMA NothingCounted ==
  ASSUME LimiterInv, now' = now, NEW r \in Slots, NEW h, HandlerOK(h), Proceed(r, h),
         DOMAIN attempts' \subseteq DOMAIN attempts,
         \A k \in DOMAIN attempts' :
           /\ attempts'[k] = attempts[k]
           /\ Holds(h, k) => Holds(handler[r], k) \/ attempts[k].failures < Maximum
  PROVE  LimiterInv'
<1>1. MapOK'
  BY DEF LimiterInv, MapOK
<1>2. HandlersOK'
  BY HandlerMoves DEF LimiterInv
<1>3. ASSUME NEW k \in DOMAIN attempts' PROVE Counted(k)'
  <2>1. /\ Counted(k) /\ attempts'[k] = attempts[k]
        /\ attempts[k].failures \in Nat /\ HandlersOK
    BY <1>3 DEF LimiterInv, MapOK, Entry
  <2>2. CASE Holds(h, k) => Holds(handler[r], k)
    <3>1. Cardinality(Holders(k)') \in Nat /\ Cardinality(Holders(k)') <= Cardinality(Holders(k))
      BY <2>1, <2>2, HoldersShrink
    <3>. QED
      BY <2>1, <3>1, HoldersAreFew, LimiterAssumption DEF Counted
  <2>3. CASE attempts[k].failures < Maximum
    <3>1. /\ Cardinality(Holders(k)') \in Nat /\ Cardinality(Slots) \in Nat
          /\ Cardinality(Holders(k)') <= Cardinality(Slots)
      <4>1. Holders(k)' \in SUBSET Slots /\ IsFiniteSet(Slots)
        BY LimiterAssumption DEF Holders
      <4>. QED
        BY <4>1, FS_Subset, FS_CardinalityType
    <3>. QED
      BY <2>1, <2>3, <3>1, LimiterAssumption DEF Counted
  <2>. QED
    BY <1>3, <2>2, <2>3
<1>. QED
  BY <1>1, <1>2, <1>3 DEF LimiterInv

LEMMA NobodyMoves ==
  ASSUME LimiterInv, now' \in 0..Horizon, UNCHANGED handler,
         DOMAIN attempts' \subseteq DOMAIN attempts,
         \A k \in DOMAIN attempts' : attempts'[k] = attempts[k]
  PROVE  LimiterInv'
<1>1. MapOK' /\ HandlersOK'
  BY DEF LimiterInv, MapOK, HandlersOK
<1>2. \A k : Holders(k)' = Holders(k)
  BY DEF Holders
<1>. QED
  BY <1>1, <1>2 DEF LimiterInv, Counted

LEMMA ArriveKeeps ==
  ASSUME LimiterInv, NEW r \in Slots, NEW q \in Request, NEW a \in Addresses, Arrive(r, q, a)
  PROVE  LimiterInv'
<1>. DEFINE h == [at |-> "allow", req |-> q, address |-> a, next |-> 1]
<1>1. h \in Handler
  BY DEF Arrive, Handler
<1>2. HandlerOK(h)
  BY <1>1, KeysAreKeys DEF HandlerOK
<1>3. \A k : ~Holds(h, k)
  BY DEF Holds
<1>4. Proceed(r, h) /\ now' = now /\ attempts' = attempts
  BY DEF Arrive
<1>. QED
  BY <1>2, <1>3, <1>4, NothingCounted

\* A handler that is not Away is a Handler.
LEMMA AtWork ==
  ASSUME LimiterInv, NEW r \in Slots, handler[r].at # "away"
  PROVE  handler[r] \in Handler /\ HandlerOK(handler[r])
  BY DEF LimiterInv, HandlersOK, HandlerOK, Away

LEMMA AllowKeeps ==
  ASSUME LimiterInv, NEW r \in Slots, Allow(r)
  PROVE  LimiterInv'
<1>. DEFINE h == handler[r]
<1>1. h \in Handler /\ HandlerOK(h) /\ h.at = "allow"
  BY AtWork DEF Allow
<1>2. now' = now /\ DOMAIN attempts' \subseteq DOMAIN attempts
  BY DEF Allow, Without, Restrict
<1>3. \A k \in DOMAIN attempts' : attempts'[k] = attempts[k]
  BY DEF Allow, Without, Restrict
<1>4. ASSUME Allows(Key(h)), Key(h) \in DOMAIN attempts'
      PROVE  attempts[Key(h)].failures < Maximum
  <2>1. Key(h) \in DOMAIN attempts /\ Key(h) \notin Dropped(Key(h))
    BY <1>4 DEF Allow, Without, Restrict
  <2>. QED
    BY <1>4, <2>1 DEF Dropped, Allows
<1>5. CASE Answer(r)
  BY <1>2, <1>3, <1>5, AwayHoldsNothing, NothingCounted DEF Answer, HandlerOK
<1>6. CASE Allows(Key(h)) /\ ~Last(h) /\ NextKey(r)
  <2>. DEFINE g == [h EXCEPT !.next = @ + 1]
  <2>2. Proceed(r, g)
    BY <1>6 DEF NextKey
  <2>3. Moved(g, h, h.at, 2)
    BY <1>1, <1>6, FirstOfTwo, NextMoved
  <2>. HIDE DEF g
  <2>1. HandlerOK(g) /\ \A k : Holds(g, k) => Holds(h, k) \/ k = Key(h)
    BY <1>1, <1>6, <2>3, NextKeyHolds
  <2>. QED
    BY <1>2, <1>3, <1>4, <1>6, <2>1, <2>2, NothingCounted
<1>7. CASE Allows(Key(h)) /\ Last(h) /\ Call(r, "serve")
  <2>. DEFINE g == [h EXCEPT !.at = "serve", !.next = 1]
  <2>2. Proceed(r, g)
    BY <1>7 DEF Call
  <2>3. Moved(g, h, "serve", 1)
    BY <1>1, HandlerMoved
  <2>. HIDE DEF g
  <2>1. HandlerOK(g) /\ \A k : Holds(g, k) => Holds(h, k) \/ k = Key(h)
    BY <1>1, <1>7, <2>3, CallHolds
  <2>. QED
    BY <1>2, <1>3, <1>4, <1>7, <2>1, <2>2, NothingCounted
<1>. QED
  BY <1>5, <1>6, <1>7 DEF Allow

LEMMA ServeKeeps ==
  ASSUME LimiterInv, NEW r \in Slots, Serve(r)
  PROVE  LimiterInv'
<1>. DEFINE h == handler[r]
<1>1. h \in Handler /\ HandlerOK(h) /\ h.at = "serve"
  BY AtWork DEF Serve
<1>2. now' = now /\ attempts' = attempts
  BY DEF Serve
<1>3. ASSUME NEW at \in {"fail", "reset"}, Call(r, at) PROVE LimiterInv'
  <2>. DEFINE g == [h EXCEPT !.at = at, !.next = 1]
  <2>1. Proceed(r, g)
    BY <1>3 DEF Call
  <2>2. Moved(g, h, at, 1)
    BY <1>1, HandlerMoved
  <2>. HIDE DEF g
  <2>3. HandlerOK(g) /\ \A k : Holds(g, k) => Holds(h, k)
    BY <1>1, <2>2, CallHolds
  <2>. QED
    BY <1>2, <2>1, <2>3, NothingCounted
<1>4. CASE Answer(r)
  BY <1>2, <1>4, AwayHoldsNothing, NothingCounted DEF Answer, HandlerOK
<1>5. CASE UNCHANGED handler
  BY <1>2, <1>5, NobodyMoves DEF LimiterInv, MapOK
<1>. QED
  BY <1>3, <1>4, <1>5 DEF Serve

\* Where a handler goes after it has reported to the limiter.
LEMMA Reported ==
  ASSUME LimiterInv, NEW r \in Slots, handler[r].at \in {"fail", "reset"},
         IF Last(handler[r]) THEN Answer(r) ELSE NextKey(r)
  PROVE  \E g : /\ Proceed(r, g) /\ HandlerOK(g)
                /\ \A k : Holds(g, k) => Holds(handler[r], k) /\ k # Key(handler[r])
<1>. DEFINE h == handler[r]
<1>1. h \in Handler /\ HandlerOK(h)
  BY AtWork
<1>2. CASE Last(h)
  BY <1>2, AwayHoldsNothing DEF Answer, HandlerOK
<1>3. CASE ~Last(h)
  <2>. DEFINE g == [h EXCEPT !.next = @ + 1]
  <2>1. Proceed(r, g)
    BY <1>3 DEF NextKey
  <2>2. Moved(g, h, h.at, 2)
    BY <1>1, <1>3, FirstOfTwo, NextMoved
  <2>. HIDE DEF g
  <2>3. HandlerOK(g) /\ \A k : Holds(g, k) => Holds(h, k) /\ k # Key(h)
    BY <1>1, <1>3, <2>2, NextKeyHolds
  <2>. QED
    BY <2>1, <2>3
<1>. QED
  BY <1>2, <1>3

LEMMA FailureKeeps ==
  ASSUME LimiterInv, NEW r \in Slots, Failure(r)
  PROVE  LimiterInv'
<1>. DEFINE h == handler[r]
<1>0. PICK k : k = Key(h)
  OBVIOUS
<1>1. h \in Handler /\ HandlerOK(h) /\ h.at = "fail"
  BY AtWork DEF Failure
<1>2. /\ now' = now
      /\ attempts' = [j \in DOMAIN attempts \cup {k} |-> IF j = k THEN Failed(k) ELSE attempts[j]]
  BY <1>0 DEF Failure
<1>3. PICK g : /\ Proceed(r, g) /\ HandlerOK(g)
               /\ \A j : Holds(g, j) => Holds(h, j) /\ j # k
  BY <1>0, <1>1, Reported DEF Failure
<1>4. Holds(h, k) /\ k \in Keys
  <2>1. h.next \in h.next..Calls(h) /\ h.next \in 1..Calls(h)
    <3>1. h.next \in {1, 2} /\ Calls(h) \in {1, 2}
      BY <1>1, KeysAreKeys DEF Handler
    <3>2. h.next <= Calls(h)
      BY <1>1 DEF HandlerOK, Away
    <3>. QED
      BY <3>1, <3>2
  <2>. QED
    BY <1>0, <1>1, <2>1, KeysAreKeys DEF Holds, Key
<1>5. MapOK /\ HandlersOK
  BY DEF LimiterInv
<1>6. /\ Failed(k) \in Entry
      /\ \/ Failed(k).failures = 1
         \/ k \in DOMAIN attempts /\ Failed(k).failures = attempts[k].failures + 1
  BY <1>5, LimiterAssumption DEF MapOK, Failed, Entry
<1>7. MapOK'
  BY <1>2, <1>4, <1>5, <1>6 DEF MapOK
<1>8. HandlersOK'
  BY <1>3, <1>5, HandlerMoves
<1>9. Counted(k)'
  <2>1. /\ Cardinality(Holders(k)') \in Nat
        /\ Cardinality(Holders(k)') = Cardinality(Holders(k)) - 1
    BY <1>3, <1>4, <1>5, HolderLeaves
  <2>2. attempts'[k] = Failed(k)
    BY <1>2
  <2>3. CASE Failed(k).failures = 1
    BY <2>1, <2>2, <2>3, HoldersAreFew, LimiterAssumption DEF Counted
  <2>4. CASE k \in DOMAIN attempts /\ Failed(k).failures = attempts[k].failures + 1
    <3>1. Counted(k) /\ attempts[k].failures \in Nat
      BY <1>5, <2>4 DEF LimiterInv, MapOK, Entry
    <3>. QED
      BY <2>1, <2>2, <2>4, <3>1, HoldersAreFew, LimiterAssumption DEF Counted
  <2>. QED
    BY <1>6, <2>3, <2>4
<1>10. ASSUME NEW j \in DOMAIN attempts, j # k PROVE Counted(j)'
  <2>1. Counted(j) /\ attempts'[j] = attempts[j] /\ attempts[j].failures \in Nat
    BY <1>2, <1>5, <1>10 DEF LimiterInv, MapOK, Entry
  <2>2. /\ Cardinality(Holders(j)') \in Nat
        /\ Cardinality(Holders(j)') <= Cardinality(Holders(j))
    BY <1>3, <1>5, HoldersShrink
  <2>. QED
    BY <2>1, <2>2, HoldersAreFew, LimiterAssumption DEF Counted
<1>. QED
  BY <1>2, <1>7, <1>8, <1>9, <1>10 DEF LimiterInv

LEMMA ResetKeeps ==
  ASSUME LimiterInv, NEW r \in Slots, Reset(r)
  PROVE  LimiterInv'
<1>1. PICK g : /\ Proceed(r, g) /\ HandlerOK(g)
               /\ \A k : Holds(g, k) => Holds(handler[r], k)
  BY Reported DEF Reset
<1>2. now' = now /\ DOMAIN attempts' \subseteq DOMAIN attempts
  BY DEF Reset, Without, Restrict
<1>3. \A k \in DOMAIN attempts' : attempts'[k] = attempts[k]
  BY DEF Reset, Without, Restrict
<1>. QED
  BY <1>1, <1>2, <1>3, NothingCounted

LEMMA InitLimiterInv == LimiterInit => LimiterInv
<1>. SUFFICES ASSUME LimiterInit PROVE LimiterInv
  OBVIOUS
<1>1. DOMAIN attempts = {}
  BY DEF LimiterInit
<1>. QED
  BY <1>1, LimiterAssumption DEF LimiterInit, LimiterInv, MapOK, HandlersOK, HandlerOK

LEMMA NextKeepsLimiter == LimiterInv /\ [LimiterNext]_limiterVars => LimiterInv'
<1>. SUFFICES ASSUME LimiterInv, [LimiterNext]_limiterVars PROVE LimiterInv'
  OBVIOUS
<1>1. ASSUME NEW r \in Slots, Handle(r) PROVE LimiterInv'
  <2>1. CASE Other(r)
    BY <2>1, NobodyMoves DEF Other, LimiterInv, MapOK
  <2>. QED
    BY <1>1, <2>1, ArriveKeeps, AllowKeeps, ServeKeeps, FailureKeeps, ResetKeeps DEF Handle
<1>2. CASE Tick
  <2>1. now' \in 0..Horizon
    BY <1>2, LimiterAssumption DEF Tick, LimiterInv, MapOK
  <2>. QED
    BY <1>2, <2>1, NobodyMoves DEF Tick
<1>3. CASE Restart
  <2>1. DOMAIN attempts' = {}
    BY <1>3 DEF Restart
  <2>. QED
    BY <1>3, <2>1, NobodyMoves DEF Restart, LimiterInv, MapOK
<1>4. CASE (\E s \in Tokens : Expire(s)) /\ UNCHANGED <<now, attempts, handler>>
  BY <1>4, NobodyMoves DEF LimiterInv, MapOK
<1>5. CASE UNCHANGED limiterVars
  BY <1>5, NobodyMoves DEF limiterVars, LimiterInv, MapOK
<1>. QED
  BY <1>1, <1>2, <1>3, <1>4, <1>5 DEF LimiterNext

-----------------------------------------------------------------------------
(* The limiter only restrains the service: what Accounts promises still holds. *)

LEMMA StepIsOfAccounts == LimiterInv /\ [LimiterNext]_limiterVars => [Next]_vars
<1>. SUFFICES ASSUME LimiterInv, [LimiterNext]_limiterVars PROVE [Next]_vars
  OBVIOUS
<1>1. ASSUME NEW r \in Slots, Allow(r) PROVE [Next]_vars
  <2>1. handler[r].req \in Request
    BY <1>1, AtWork DEF Allow, Handler
  <2>. QED
    BY <1>1, <2>1 DEF Allow, Next, Step
<1>2. ASSUME NEW r \in Slots, Serve(r) PROVE [Next]_vars
  <2>1. WrongPassword(r) => Cancel(r)
    BY DEF WrongPassword, Cancel
  <2>. QED
    BY <1>2, <2>1 DEF Serve, Next, Step
<1>3. ASSUME NEW r \in Slots, Other(r) PROVE [Next]_vars
  BY <1>3 DEF Other, Next
<1>4. ASSUME NEW r \in Slots,
             \/ \E q \in Request, a \in Addresses : Arrive(r, q, a)
             \/ Failure(r)
             \/ Reset(r)
      PROVE  [Next]_vars
  BY <1>4 DEF Arrive, Failure, Reset
<1>. QED
  BY <1>1, <1>2, <1>3, <1>4 DEF LimiterNext, Handle, Tick, Restart, Next, limiterVars, vars

\* No key collects more failures than the maximum and one for each other request.
THEOREM LimitIsKept == LimiterSpec => []LimitHolds
<1>1. LimiterInv => LimitHolds
  <2>. SUFFICES ASSUME LimiterInv, NEW k \in DOMAIN attempts
                PROVE  attempts[k].failures < Maximum + Cardinality(Slots)
    BY DEF LimitHolds
  <2>1. Counted(k) /\ attempts[k].failures \in Nat
    BY DEF LimiterInv, MapOK, Entry
  <2>. QED
    BY <2>1, HoldersAreFew, LimiterAssumption DEF Counted
<1>. QED
  BY <1>1, InitLimiterInv, NextKeepsLimiter, PTL DEF LimiterSpec

\* Every behaviour of the handlers is one of Accounts, with the limiter hidden.
THEOREM LimiterImplementsAccounts == LimiterSpec => Spec
<1>1. LimiterInit => Init
  BY DEF LimiterInit
<1>. QED
  BY <1>1, InitLimiterInv, NextKeepsLimiter, StepIsOfAccounts, PTL DEF LimiterSpec, Spec

\* The map, the handlers and the accounts are of their domains.
THEOREM LimiterTypeCorrect == LimiterSpec => []LimiterTypeOK
<1>1. LimiterInv /\ TypeOK => LimiterTypeOK
  BY DEF LimiterInv, MapOK, HandlersOK, HandlerOK, LimiterTypeOK
<1>. QED
  BY <1>1, InitLimiterInv, NextKeepsLimiter, LimiterImplementsAccounts, AccountsTypeCorrect, PTL
     DEF LimiterSpec

\* There is one initial account, whatever the limiter lets through.
THEOREM SetupIsOnceBehindTheLimiter == LimiterSpec => []OneInitial
  BY LimiterImplementsAccounts, SetupIsOnce, PTL
=============================================================================
