------------------------------- MODULE Server -------------------------------
(***************************************************************************)
(* The process: main serves until Serve fails or a signal comes, waits for *)
(* the requests in service up to a limit, closes the pool and exits.  Each *)
(* request needs a connection of the pool for the check of its session,    *)
(* for the handler's statements and for the INSERT into auditoria: the     *)
(* middleware's, once it has been answered with success, or recordAccess', *)
(* just before a set-up or a log in is answered with success.              *)
(***************************************************************************)
EXTENDS Naturals, FiniteSets

CONSTANTS
  Requests,  \* requests that may arrive, each once
  PoolSize   \* connections of the pool

ASSUME ServerAssumption == PoolSize \in Nat \ {0}

VARIABLES
  phase,      \* where main is
  serve,      \* the goroutine that runs server.Serve
  signalled,  \* SIGINT or SIGTERM has come
  exit,       \* what run returns
  pool,       \* the pool gives connections, or is closed
  conns,      \* clients' connections may bring requests, or are closed
  cut,        \* requests whose connection server.Close broke
  pc,         \* where each request is
  kind,       \* what each request asks for
  unread,     \* requests of whose body something is still to be read
  held,       \* requests that hold a connection of the pool
  committed,  \* requests whose change is in the database
  status,     \* the answer of each request
  audit,      \* what became of its row of auditoria
  turnedAway  \* requests the closed pool refused

mainVars    == <<phase, serve, signalled, exit, pool, conns>>
requestVars == <<pc, kind, unread, held, committed, status, audit, turnedAway>>
vars        == <<mainVars, cut, requestVars>>

-----------------------------------------------------------------------------
Phases   == {"serving", "draining", "stopping", "closing", "exited"}
Kinds    == {"read", "access", "logout", "calculate", "change", "changeAndRead"}
Stages   == {"authenticate", "handle", "reread", "record", "answer", "audit"}
Outcomes == {"none", "written", "failed", "refused"}

\* Neither a GET nor a log out has an entry; a set-up or a log in ("access") has
\* one of recordAccess; a calculation or a PDF is a POST that writes nothing else.
Audited(k) == k \notin {"read", "logout"}
Changes(k) == k \notin {"read", "calculate"}

\* Set-up, log in, log out and some GETs (health, status) need no session.
First(k) ==
  CASE k \in {"access", "logout"} -> {"handle"}
    [] k = "read"                 -> {"authenticate", "handle"}
    [] OTHER                      -> {"authenticate"}

\* Variant: the audit entry is written by a goroutine of its own, and the
\* request counts as served once it is answered.
InServiceToAnswer(r) == pc[r] \in Stages \ {"audit"}

InService(r) == pc[r] \in Stages

-----------------------------------------------------------------------------
(***************************************************************************)
(* A request.                                                              *)
(***************************************************************************)
\* Also on a connection kept alive after Serve has failed, and on one that had
\* sent nothing yet when the shutdown began.
Accept(r, k) ==
  /\ phase # "exited" /\ conns = "open"
  /\ pc[r] = "outside"
  /\ \E stage \in First(k) : pc' = [pc EXCEPT ![r] = stage]
  /\ kind' = [kind EXCEPT ![r] = k]
  /\ unread' \in {unread, unread \cup {r}}
  /\ UNCHANGED <<mainVars, cut, held, committed, status, audit, turnedAway>>

NeedsConnection(r) == pc[r] \in Stages \ {"answer"}

\* pool.Acquire, for one statement or for a transaction.
Acquire(r) ==
  /\ phase # "exited"
  /\ NeedsConnection(r) /\ r \notin held
  /\ pool = "open" /\ Cardinality(held) < PoolSize
  /\ held' = held \cup {r}
  /\ UNCHANGED <<mainVars, cut, pc, kind, unread, committed, status, audit, turnedAway>>

\* Variant: the connection is not given back.
GotoHolding(r, next) ==
  /\ pc' = [pc EXCEPT ![r] = next]
  /\ UNCHANGED <<mainVars, cut, kind, held>>

\* The request goes on with "next" and gives its connection back.
Goto(r, next) ==
  /\ pc' = [pc EXCEPT ![r] = next]
  /\ held' = held \ {r}
  /\ UNCHANGED <<mainVars, cut, kind>>

\* The handler has answered "code".
Answer(r, code, next) ==
  /\ Goto(r, next)
  /\ status' = [status EXCEPT ![r] = code]
  /\ UNCHANGED turnedAway

Holding(r, stage) == phase # "exited" /\ pc[r] = stage /\ r \in held

\* The handler that follows reads the body to its end, or takes none and leaves
\* what the client has sent.
Authenticate(r) ==
  /\ Holding(r, "authenticate")
  /\ Goto(r, "handle")
  /\ unread' \in {unread, unread \ {r}}
  /\ UNCHANGED <<committed, status, audit, turnedAway>>

\* Variant: the status is not looked at.
AuditsWhatFailed(r, code) == IF Audited(kind[r]) THEN "audit" ELSE "done"

\* auditMiddleware, once the handler has returned.
AfterAnswer(r, code) ==
  IF Audited(kind[r]) /\ kind[r] # "access" /\ code = "ok" THEN "audit" ELSE "done"

\* A statement of the handler that writes nothing: others follow.
Read(r) ==
  /\ Holding(r, "handle")
  /\ Goto(r, "handle")
  /\ UNCHANGED <<unread, committed, status, audit, turnedAway>>

\* GET /api/auth/me, or a log out without a token: no statement.
AnswerAtOnce(r) ==
  /\ phase # "exited"
  /\ pc[r] = "handle" /\ kind[r] \in {"read", "logout"}
  /\ Answer(r, "ok", "done")
  /\ UNCHANGED <<unread, committed, audit>>

\* The handler's last statement or transaction commits, and the handler answers,
\* or reads back what it wrote first, or records the access.
Handle(r) ==
  /\ Holding(r, "handle")
  /\ committed' = IF Changes(kind[r]) THEN committed \cup {r} ELSE committed
  /\ CASE kind[r] = "changeAndRead" -> Goto(r, "reread") /\ UNCHANGED <<status, turnedAway>>
       [] kind[r] = "access"        -> Goto(r, "record") /\ UNCHANGED <<status, turnedAway>>
       [] OTHER                     -> Answer(r, "ok", AfterAnswer(r, "ok"))
  /\ UNCHANGED <<unread, audit>>

Reread(r) ==
  /\ Holding(r, "reread")
  /\ Answer(r, "ok", AfterAnswer(r, "ok"))
  /\ UNCHANGED <<unread, committed, audit>>

\* The service refuses the request, a statement fails, the body cannot be read,
\* or the context is cancelled: the client went away, or server.Close.
Fail(r) ==
  /\ phase # "exited"
  /\ pc[r] \in {"authenticate", "handle", "reread"}
  /\ Answer(r, "error", IF pc[r] = "authenticate" THEN "done" ELSE AfterAnswer(r, "error"))
  /\ UNCHANGED <<unread, committed, audit>>

\* The connection breaks after the server has committed, or, in a set-up, the
\* session fails after the account.
FailCommitted(r) ==
  /\ Holding(r, "handle")
  /\ Changes(kind[r])
  /\ committed' = committed \cup {r}
  /\ Answer(r, "error", AfterAnswer(r, "error"))
  /\ UNCHANGED <<unread, audit>>

-----------------------------------------------------------------------------
(***************************************************************************)
(* The audit entry, in a context of its own of two seconds that the end of *)
(* the request does not cancel; whatever becomes of it, the request goes   *)
(* on, to be answered if it is an access.                                  *)
(***************************************************************************)
Recording(r) == phase # "exited" /\ pc[r] \in {"record", "audit"}

Recorded(r, outcome) ==
  /\ Goto(r, IF pc[r] = "record" THEN "answer" ELSE "done")
  /\ audit' = [audit EXCEPT ![r] = outcome]
  /\ UNCHANGED <<unread, committed, status>>

RecordAudit(r) ==
  /\ Recording(r) /\ r \in held
  /\ Recorded(r, "written")
  /\ UNCHANGED turnedAway

\* Variant: the INSERT has no limit of time, so only the wait for the
\* connection ends by itself.
AuditNeverTimesOut(r) ==
  /\ Recording(r) /\ r \notin held
  /\ Recorded(r, "failed")
  /\ UNCHANGED turnedAway

\* Two seconds pass, or the INSERT fails: the error is ignored.
AuditFails(r) ==
  /\ Recording(r)
  /\ Recorded(r, "failed")
  /\ UNCHANGED turnedAway

\* The handler of set-up or log in answers after its entry.
AnswerAccess(r) ==
  /\ phase # "exited"
  /\ pc[r] = "answer"
  /\ Answer(r, "ok", "done")
  /\ UNCHANGED <<unread, committed, audit>>

\* pool.Acquire of a closed pool is an error at once.
TurnAway(r) ==
  /\ phase # "exited"
  /\ NeedsConnection(r) /\ r \notin held /\ pool = "closed"
  /\ IF pc[r] \in {"record", "audit"} THEN Recorded(r, "refused")
     ELSE /\ Goto(r, "done")
          /\ status' = [status EXCEPT ![r] = "error"]
          /\ UNCHANGED <<unread, committed, audit>>
  /\ turnedAway' = turnedAway \cup {r}

-----------------------------------------------------------------------------
(***************************************************************************)
(* main.                                                                   *)
(***************************************************************************)
Signal ==
  /\ phase # "exited" /\ ~signalled
  /\ signalled' = TRUE
  /\ UNCHANGED <<phase, serve, exit, pool, conns, cut, requestVars>>

\* Accept of the listener fails for good; the error waits in serveErrors.
ServeFails ==
  /\ phase = "serving" /\ serve = "running"
  /\ serve' = "failed"
  /\ UNCHANGED <<phase, signalled, exit, pool, conns, cut, requestVars>>

TakeServeError ==
  /\ phase = "serving" /\ serve = "failed"
  /\ phase' = "stopping"
  /\ exit' = "error"
  /\ UNCHANGED <<serve, signalled, pool, conns, cut, requestVars>>

\* server.Shutdown closes the listener, and Serve returns.
Shutdown ==
  /\ phase = "serving" /\ signalled
  /\ phase' = "draining"
  /\ serve' = IF serve = "failed" THEN "failed" ELSE "closed"
  /\ UNCHANGED <<signalled, exit, pool, conns, cut, requestVars>>

\* Variant: Shutdown is not waited for.
ShutdownAtOnce ==
  /\ phase = "draining"
  /\ phase' = "stopping"
  /\ exit' = IF serve = "closed" THEN "clean" ELSE "error"
  /\ conns' = "closed"
  /\ UNCHANGED <<serve, signalled, pool, cut, requestVars>>

\* No connection is busy any more.
ShutdownReturns ==
  /\ phase = "draining"
  /\ \A r \in Requests : ~InService(r)
  /\ phase' = "stopping"
  /\ exit' = IF serve = "closed" THEN "clean" ELSE "error"
  /\ conns' = "closed"
  /\ UNCHANGED <<serve, signalled, pool, cut, requestVars>>

\* SHUTDOWN_TIMEOUT passes and server.Close breaks what is left.
LimitPasses ==
  /\ phase = "draining"
  /\ phase' = "stopping"
  /\ exit' = "error"
  /\ conns' = "closed"
  /\ cut' = {r \in Requests : InService(r)}
  /\ UNCHANGED <<serve, signalled, pool, requestVars>>

\* The deferred pool.Close refuses new acquisitions...
ClosePool ==
  /\ phase = "stopping"
  /\ phase' = "closing"
  /\ pool' = "closed"
  /\ UNCHANGED <<serve, signalled, exit, conns, cut, requestVars>>

\* ...and returns when every connection has been given back.
Exit ==
  /\ phase = "closing"
  /\ held = {}
  /\ phase' = "exited"
  /\ UNCHANGED <<serve, signalled, exit, pool, conns, cut, requestVars>>

-----------------------------------------------------------------------------
Init ==
  /\ phase = "serving" /\ serve = "running" /\ signalled = FALSE
  /\ exit = "none" /\ pool = "open" /\ conns = "open" /\ cut = {}
  /\ pc = [r \in Requests |-> "outside"]
  /\ kind = [r \in Requests |-> "read"]
  /\ unread = {} /\ held = {} /\ committed = {} /\ turnedAway = {}
  /\ status = [r \in Requests |-> "none"]
  /\ audit = [r \in Requests |-> "none"]

Main == TakeServeError \/ Shutdown \/ ShutdownReturns \/ LimitPasses \/ ClosePool \/ Exit

Request(r) ==
  \/ \E k \in Kinds : Accept(r, k)
  \/ Acquire(r) \/ Authenticate(r) \/ Read(r) \/ AnswerAtOnce(r) \/ Handle(r) \/ Reread(r)
  \/ RecordAudit(r) \/ AuditFails(r) \/ AnswerAccess(r)
  \/ Fail(r) \/ FailCommitted(r) \/ TurnAway(r)

Next == Signal \/ ServeFails \/ Main \/ \E r \in Requests : Request(r)

\* main runs on; a request whose connection is broken notices if its body has
\* been read to the end (net/http watches the connection from then on); the INSERT
\* of the audit has its two seconds, an access is answered after it, and a closed
\* pool answers at once.  Nothing is assumed of the database: a statement may never
\* return by itself.
Fairness ==
  /\ WF_vars(Main)
  /\ \A r \in Requests :
       /\ WF_vars(r \in cut \ unread /\ Fail(r))
       /\ WF_vars(AuditFails(r))
       /\ WF_vars(AnswerAccess(r))
       /\ WF_vars(TurnAway(r))

Spec == Init /\ [][Next]_vars /\ Fairness

\* The database answers the statements that nothing cancels: those of a request
\* whose body has not been read (the check of the session comes before the handler).
UncancelledReturn ==
  \A r \in Requests : WF_vars(r \in unread /\ (Authenticate(r) \/ Handle(r) \/ Reread(r)))

\* The database answers, pgxpool gives connections to its waiters in turn, and a
\* handler runs a finite number of statements.
Answering ==
  \A r \in Requests :
    /\ SF_vars(Acquire(r))
    /\ SF_vars(Handle(r))
    /\ WF_vars(Authenticate(r) \/ Reread(r) \/ RecordAudit(r))

-----------------------------------------------------------------------------
(***************************************************************************)
(* Properties.                                                             *)
(***************************************************************************)

\* Variables are of their domains, and connections are within the pool.
TypeOK ==
  /\ phase \in Phases /\ serve \in {"running", "failed", "closed"}
  /\ signalled \in BOOLEAN /\ exit \in {"none", "clean", "error"}
  /\ pool \in {"open", "closed"} /\ conns \in {"open", "closed"} /\ cut \subseteq Requests
  /\ pc \in [Requests -> Stages \cup {"outside", "done"}]
  /\ kind \in [Requests -> Kinds]
  /\ held \subseteq {r \in Requests : pc[r] \in Stages}
  /\ Cardinality(held) <= PoolSize
  /\ unread \subseteq Requests /\ committed \subseteq Requests /\ turnedAway \subseteq Requests
  /\ status \in [Requests -> {"none", "ok", "error"}]
  /\ audit \in [Requests -> Outcomes]

\* A clean exit leaves nothing in the air: each request that was accepted has
\* its answer, and a change that is in the database, the session of a set-up or a
\* log in included, has its audit entry, or the INSERT failed by itself, or its
\* client was answered with an error.
CleanExitKeepsTheTrail ==
  phase = "exited" /\ exit = "clean" =>
    /\ \A r \in Requests : pc[r] # "outside" => status[r] # "none"
    /\ \A r \in committed : Audited(kind[r]) =>
         audit[r] \in {"written", "failed"} \/ status[r] = "error"

\* No request meets a closed pool unless the limit passed or Serve failed: the
\* deferred pool.Close of main comes after the drain.
PoolOutlivesRequests == turnedAway # {} => exit = "error"

\* An audit entry is of a request whose change, if it asked for one, is in the
\* database, and that was answered with success; only an access, whose entry is
\* written first, may still be about to be, and it never is answered otherwise.
AuditIsTrue ==
  \A r \in Requests : audit[r] = "written" =>
    /\ Audited(kind[r]) /\ (Changes(kind[r]) => r \in committed)
    /\ status[r] = "ok" \/ (kind[r] = "access" /\ pc[r] = "answer" /\ status[r] = "none")

\* A shutdown ends the process, provided that the statements nothing cancels
\* return: whatever the others do, what is still in service after the limit is
\* cancelled, or ends by a limit of its own, and gives back the connection
\* pool.Close waits for.
ShutdownEnds == UncancelledReturn => (phase = "draining" ~> phase = "exited")

\* While the database answers, requests do not wait on each other for ever at
\* the limit of the pool: each ends, unless the process does, as it gives its
\* connection back before it asks for the next one (an order is read back after
\* the commit, and its attempts after the rows of its works are closed).
RequestsAreServed ==
  Answering => \A r \in Requests : InService(r) ~> pc[r] = "done" \/ phase = "exited"
=============================================================================
