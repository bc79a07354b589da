--------------------------- MODULE Server_proofs ---------------------------
(***************************************************************************)
(* The safety of the shutdown and of the audit trail, for any number of    *)
(* requests and any size of the pool.                                      *)
(***************************************************************************)
EXTENDS Server, FiniteSetTheorems, TLAPS

(***************************************************************************)
(* main's variables go together, and a clean exit is decided when nothing  *)
(* is in service any more and no connection can bring another request.     *)
(***************************************************************************)
MainInv ==
  /\ pool = "closed" <=> phase \in {"closing", "exited"}
  /\ exit # "none" <=> phase \notin {"serving", "draining"}
  /\ exit = "clean" => conns = "closed" /\ \A r \in Requests : ~InService(r)
  /\ turnedAway # {} => exit = "error"

(***************************************************************************)
(* What a request has done by where it is.                                 *)
(***************************************************************************)
Fresh(r) == r \notin committed /\ status[r] = "none" /\ audit[r] = "none"

Done(r) == /\ Audited(kind[r])
           /\ Changes(kind[r]) => r \in committed

Earned(r) == status[r] = "ok" /\ Done(r)

Access(r) == r \in committed /\ kind[r] = "access" /\ status[r] = "none"

RequestInv(r) ==
  /\ pc[r] \in {"outside", "authenticate", "handle"} => Fresh(r)
  /\ pc[r] = "reread" => /\ r \in committed /\ kind[r] = "changeAndRead"
                         /\ status[r] = "none" /\ audit[r] = "none"
  /\ pc[r] = "record" => Access(r) /\ audit[r] = "none"
  /\ pc[r] = "answer" => Access(r) /\ audit[r] # "none"
  /\ pc[r] = "audit" => Earned(r) /\ audit[r] = "none"
  /\ pc[r] = "done" => status[r] # "none"
  /\ pc[r] = "done" /\ r \in committed /\ Audited(kind[r]) =>
       status[r] = "error" \/ audit[r] # "none"
  /\ audit[r] = "written" => /\ Done(r)
                             /\ (pc[r] = "done" /\ status[r] = "ok") \/ pc[r] = "answer"
  /\ audit[r] = "refused" => r \in turnedAway

RequestsInv == \A r \in Requests : RequestInv(r)

IInv == TypeOK /\ IsFiniteSet(held) /\ MainInv /\ RequestsInv

-----------------------------------------------------------------------------
LEMMA InitIInv == Init => IInv
<1>. SUFFICES ASSUME Init PROVE IInv
  OBVIOUS
<1>1. IsFiniteSet(held) /\ Cardinality(held) = 0
  BY FS_EmptySet DEF Init
<1>2. TypeOK
  <2>1. held \subseteq {r \in Requests : pc[r] \in Stages}
    BY DEF Init
  <2>2. Cardinality(held) <= PoolSize
    BY <1>1, ServerAssumption
  <2>. QED
    BY <2>1, <2>2 DEF Init, TypeOK, Phases, Kinds, Outcomes
<1>3. MainInv
  BY DEF Init, MainInv
<1>4. RequestsInv
  BY DEF Init, RequestsInv, RequestInv, Fresh
<1>. QED
  BY <1>1, <1>2, <1>3, <1>4 DEF IInv

(***************************************************************************)
(* A connection that is given back keeps the pool within its size.         *)
(***************************************************************************)
LEMMA GivenBack ==
  ASSUME IsFiniteSet(held), Cardinality(held) <= PoolSize, NEW r
  PROVE  IsFiniteSet(held \ {r}) /\ Cardinality(held \ {r}) <= PoolSize
<1>1. IsFiniteSet(held \ {r}) /\ Cardinality(held \ {r}) <= Cardinality(held)
  BY FS_Subset, held \ {r} \subseteq held
<1>2. Cardinality(held) \in Nat /\ Cardinality(held \ {r}) \in Nat
  BY <1>1, FS_CardinalityType
<1>. QED
  BY <1>1, <1>2, ServerAssumption

LEMMA AcquireTakesOne ==
  ASSUME IInv, NEW r \in Requests, Acquire(r)
  PROVE  IInv'
<1>. USE DEF IInv
<1>1. IsFiniteSet(held') /\ Cardinality(held') = Cardinality(held) + 1
  BY FS_AddElement DEF Acquire
<1>2. Cardinality(held) \in Nat
  BY FS_CardinalityType
<1>3. Cardinality(held') <= PoolSize
  BY <1>1, <1>2, ServerAssumption DEF Acquire
<1>4. TypeOK'
  BY <1>3 DEF Acquire, NeedsConnection, TypeOK, mainVars
<1>5. MainInv'
  BY DEF Acquire, MainInv, mainVars, InService
<1>6. RequestsInv'
  BY DEF Acquire, RequestsInv, RequestInv, Fresh, Done, Earned, Access
<1>. QED
  BY <1>1, <1>4, <1>5, <1>6

(***************************************************************************)
(* main touches no request.                                                *)
(***************************************************************************)
LEMMA MainKeepsIInv ==
  ASSUME IInv, Signal \/ ServeFails \/ Main
  PROVE  IInv'
<1>. USE DEF IInv
<1>1. UNCHANGED requestVars
  BY DEF Signal, ServeFails, Main, TakeServeError, Shutdown, ShutdownReturns,
         LimitPasses, ClosePool, Exit
<1>2. TypeOK'
  BY <1>1 DEF TypeOK, Phases, requestVars, Signal, ServeFails, Main, TakeServeError,
              Shutdown, ShutdownReturns, LimitPasses, ClosePool, Exit
<1>3. MainInv'
  <2>1. CASE Signal \/ ServeFails \/ TakeServeError \/ Shutdown
    BY <1>1, <2>1 DEF MainInv, requestVars, InService, Signal, ServeFails, TakeServeError, Shutdown
  <2>2. CASE ShutdownReturns
    BY <1>1, <2>2 DEF MainInv, requestVars, InService, ShutdownReturns
  <2>3. CASE LimitPasses \/ ClosePool \/ Exit
    BY <1>1, <2>3 DEF MainInv, requestVars, InService, LimitPasses, ClosePool, Exit
  <2>. QED
    BY <2>1, <2>2, <2>3 DEF Main
<1>4. RequestsInv' /\ IsFiniteSet(held)'
  BY <1>1 DEF RequestsInv, RequestInv, Fresh, Done, Earned, Access, requestVars
<1>. QED
  BY <1>2, <1>3, <1>4

LEMMA AcceptKeepsIInv ==
  ASSUME IInv, NEW r \in Requests, NEW k \in Kinds, Accept(r, k)
  PROVE  IInv'
<1>. USE DEF IInv
<1>1. TypeOK'
  BY DEF Accept, First, TypeOK, Stages, mainVars
<1>2. MainInv'
  BY DEF Accept, MainInv, InService, mainVars
<1>3. RequestsInv'
  BY DEF Accept, First, TypeOK, RequestsInv, RequestInv, Fresh, Done, Earned, Access
<1>. QED
  BY <1>1, <1>2, <1>3 DEF Accept

(***************************************************************************)
(* The other steps of a request are taken in a stage, give the connection  *)
(* back, and leave the request in service or done.                         *)
(***************************************************************************)
Step(r) ==
  \/ Authenticate(r) \/ Read(r) \/ AnswerAtOnce(r) \/ Handle(r) \/ Reread(r)
  \/ RecordAudit(r) \/ AuditFails(r) \/ AnswerAccess(r)
  \/ Fail(r) \/ FailCommitted(r) \/ TurnAway(r)

LEMMA StepKeepsTypes ==
  ASSUME IInv, NEW r \in Requests, Step(r)
  PROVE  /\ TypeOK' /\ IsFiniteSet(held')
         /\ UNCHANGED mainVars
         /\ pc[r] \in Stages /\ pc' = [pc EXCEPT ![r] = pc'[r]]
         /\ kind' = kind
<1>. USE DEF IInv
<1>1. \E next \in Stages \cup {"done"} : Goto(r, next)
  BY DEF Step, Authenticate, Read, AnswerAtOnce, Handle, Reread, Recorded, Recording,
         RecordAudit, AnswerAccess, Fail, FailCommitted,
         AuditFails, TurnAway, Answer, AfterAnswer, Stages
<1>2. PICK next \in Stages \cup {"done"} : Goto(r, next)
  BY <1>1
<1>3. UNCHANGED mainVars /\ kind' = kind /\ cut' = cut /\ held' = held \ {r}
      /\ pc' = [pc EXCEPT ![r] = next]
  BY <1>2 DEF Goto
<1>4. IsFiniteSet(held') /\ Cardinality(held') <= PoolSize
  BY <1>3, GivenBack DEF TypeOK
<1>5. pc[r] \in Stages
  BY DEF Step, Authenticate, Read, AnswerAtOnce, Handle, Reread, Recorded, Recording,
         RecordAudit, AnswerAccess, Fail, FailCommitted,
         AuditFails, TurnAway, Holding, NeedsConnection, Stages
<1>6. /\ status' \in [Requests -> {"none", "ok", "error"}]
      /\ audit' \in [Requests -> Outcomes]
      /\ unread' \subseteq Requests /\ committed' \subseteq Requests /\ turnedAway' \subseteq Requests
  BY DEF Step, Authenticate, Read, AnswerAtOnce, Handle, Reread, Recorded, Recording,
         RecordAudit, AnswerAccess, Fail, FailCommitted,
         AuditFails, TurnAway, Answer, TypeOK, Outcomes
<1>7. pc' \in [Requests -> Stages \cup {"outside", "done"}] /\ pc'[r] = next
  BY <1>3 DEF TypeOK
<1>8. held' \subseteq {q \in Requests : pc'[q] \in Stages}
  BY <1>3 DEF TypeOK
<1>9. TypeOK'
  BY <1>3, <1>4, <1>6, <1>7, <1>8 DEF TypeOK, mainVars
<1>. QED
  BY <1>3, <1>4, <1>5, <1>7, <1>9

LEMMA StepKeepsMainInv ==
  ASSUME IInv, NEW r \in Requests, Step(r)
  PROVE  MainInv'
<1>. USE DEF IInv
<1>1. UNCHANGED mainVars /\ pc[r] \in Stages
  BY StepKeepsTypes
<1>2. exit # "clean"
  BY <1>1 DEF MainInv, InService
<1>3. turnedAway' # {} => exit = "error"
  <2>1. CASE TurnAway(r)
    <3>1. phase = "closing"
      BY <2>1 DEF TurnAway, MainInv
    <3>. QED
      BY <1>2, <3>1 DEF MainInv, TypeOK
  <2>2. CASE ~TurnAway(r)
    <3>1. turnedAway' = turnedAway
      BY <2>2 DEF Step, Authenticate, Read, AnswerAtOnce, Handle, Reread, Recorded, Recording,
         RecordAudit, AnswerAccess, Fail, FailCommitted,
                  AuditFails, Answer
    <3>. QED
      BY <3>1 DEF MainInv
  <2>. QED
    BY <2>1, <2>2
<1>. QED
  BY <1>1, <1>2, <1>3 DEF MainInv, mainVars

LEMMA StepKeepsRequestsInv ==
  ASSUME IInv, NEW r \in Requests, Step(r)
  PROVE  RequestsInv'
<1>. USE DEF IInv
<1>1. /\ pc[r] \in Stages /\ pc' = [pc EXCEPT ![r] = pc'[r]]
      /\ kind' = kind
  BY StepKeepsTypes
<1>2. ASSUME NEW q \in Requests, q # r
      PROVE  RequestInv(q)'
  <2>1. /\ pc'[q] = pc[q] /\ status'[q] = status[q] /\ audit'[q] = audit[q]
        /\ q \in committed' <=> q \in committed
        /\ q \in turnedAway => q \in turnedAway'
    BY <1>1, <1>2 DEF TypeOK, Step, Authenticate, Read, AnswerAtOnce, Handle, Reread, Recorded,
                      RecordAudit, AnswerAccess, Fail,
                      FailCommitted, AuditFails, TurnAway, Answer
  <2>. QED
    BY <1>1, <2>1 DEF RequestsInv, RequestInv, Fresh, Done, Earned, Access
<1>3. RequestInv(r)'
  <2>1. RequestInv(r)
    BY DEF RequestsInv
  <2>. USE <1>1, <2>1 DEF TypeOK, RequestInv, Fresh, Done, Earned, Access, Goto
  <2>2. CASE Authenticate(r) \/ Read(r)
    BY <2>2 DEF Authenticate, Read, Holding
  <2>3. CASE Handle(r)
    BY <2>3 DEF Kinds, Handle, Holding, Answer, AfterAnswer, Audited, Changes
  <2>4. CASE Reread(r)
    BY <2>4 DEF Reread, Holding, Answer, AfterAnswer, Audited, Changes
  <2>5. CASE RecordAudit(r) \/ AuditFails(r)
    <3>1. \E outcome \in {"written", "failed"} :
            /\ audit' = [audit EXCEPT ![r] = outcome]
            /\ UNCHANGED <<unread, committed, status, turnedAway>>
      BY <2>5 DEF RecordAudit, AuditFails, Recorded
    <3>2. CASE pc[r] = "record"
      <4>1. pc' = [pc EXCEPT ![r] = "answer"]
        BY <2>5, <3>2 DEF RecordAudit, AuditFails, Recorded
      <4>. QED
        BY <3>1, <3>2, <4>1 DEF Audited
    <3>3. CASE pc[r] = "audit"
      <4>1. pc' = [pc EXCEPT ![r] = "done"]
        BY <2>5, <3>3 DEF RecordAudit, AuditFails, Recorded
      <4>. QED
        BY <3>1, <3>3, <4>1
    <3>. QED
      BY <2>5, <3>2, <3>3 DEF RecordAudit, AuditFails, Recording
  <2>6. CASE Fail(r) \/ FailCommitted(r)
    BY <2>6 DEF Fail, FailCommitted, Holding, Answer, AfterAnswer
  <2>7. CASE TurnAway(r)
    BY <2>7 DEF TurnAway, NeedsConnection, Recorded, Stages
  <2>8. CASE AnswerAtOnce(r)
    BY <2>8 DEF AnswerAtOnce, Answer, Audited
  <2>9. CASE AnswerAccess(r)
    BY <2>9 DEF AnswerAccess, Answer
  <2>. QED
    BY <2>2, <2>3, <2>4, <2>5, <2>6, <2>7, <2>8, <2>9 DEF Step
<1>. QED
  BY <1>2, <1>3 DEF RequestsInv

LEMMA NextKeepsIInv == IInv /\ [Next]_vars => IInv'
<1>. SUFFICES ASSUME IInv, [Next]_vars PROVE IInv'
  OBVIOUS
<1>1. CASE Signal \/ ServeFails \/ Main
  BY <1>1, MainKeepsIInv
<1>2. ASSUME NEW r \in Requests, Request(r) PROVE IInv'
  <2>1. CASE \E k \in Kinds : Accept(r, k)
    BY <2>1, AcceptKeepsIInv
  <2>2. CASE Acquire(r)
    BY <2>2, AcquireTakesOne
  <2>3. CASE Step(r)
    BY <2>3, StepKeepsTypes, StepKeepsMainInv, StepKeepsRequestsInv DEF IInv
  <2>. QED
    BY <1>2, <2>1, <2>2, <2>3 DEF Request, Step
<1>3. CASE UNCHANGED vars
  BY <1>3 DEF vars, mainVars, requestVars, IInv, TypeOK, MainInv, RequestsInv, RequestInv,
              Fresh, Done, Earned, Access, InService
<1>. QED
  BY <1>1, <1>2, <1>3 DEF Next

(***************************************************************************)
(* The invariant is inductive.                                             *)
(***************************************************************************)
THEOREM ServerInvariant == Spec => []IInv
  BY InitIInv, NextKeepsIInv, PTL DEF Spec

(***************************************************************************)
(* Variables keep their domains and connections stay within the pool, for  *)
(* any size of it: no path of a request forgets to give its own back.      *)
(***************************************************************************)
THEOREM ServerTypeCorrect == Spec => []TypeOK
<1>1. IInv => TypeOK
  BY DEF IInv
<1>. QED
  BY <1>1, ServerInvariant, PTL

(***************************************************************************)
(* A clean exit leaves every accepted request answered and every change    *)
(* audited, but for what failed and was told or tried: auditMiddleware and *)
(* recordAccess run inside what Shutdown waits for.                        *)
(***************************************************************************)
THEOREM TrailIsKept == Spec => []CleanExitKeepsTheTrail
<1>1. IInv => CleanExitKeepsTheTrail
  <2>. SUFFICES ASSUME IInv, exit = "clean", NEW r \in Requests
                PROVE  /\ pc[r] # "outside" => status[r] # "none"
                       /\ r \in committed /\ Audited(kind[r]) =>
                            audit[r] \in {"written", "failed"} \/ status[r] = "error"
    BY DEF CleanExitKeepsTheTrail, IInv, TypeOK
  <2>1. pc[r] \in {"outside", "done"}
    BY DEF IInv, TypeOK, MainInv, InService
  <2>2. audit[r] \in Outcomes /\ audit[r] # "refused"
    BY DEF IInv, TypeOK, MainInv, RequestsInv, RequestInv
  <2>. QED
    BY <2>1, <2>2 DEF IInv, RequestsInv, RequestInv, Fresh, Outcomes
<1>. QED
  BY <1>1, ServerInvariant, PTL

(***************************************************************************)
(* No request meets a closed pool before a limit passed or Serve failed.   *)
(***************************************************************************)
THEOREM PoolIsClosedLast == Spec => []PoolOutlivesRequests
<1>1. IInv => PoolOutlivesRequests
  BY DEF IInv, MainInv, PoolOutlivesRequests
<1>. QED
  BY <1>1, ServerInvariant, PTL

(***************************************************************************)
(* What the trail says happened: auditMiddleware writes after an answer of *)
(* success, recordAccess before one that nothing can prevent any more.     *)
(***************************************************************************)
THEOREM AuditTellsTheTruth == Spec => []AuditIsTrue
<1>1. IInv => AuditIsTrue
  BY DEF IInv, RequestsInv, RequestInv, Done, Access, AuditIsTrue
<1>. QED
  BY <1>1, ServerInvariant, PTL
=============================================================================
