---------------------------- MODULE LoginLimiter ----------------------------
(***************************************************************************)
(* The handlers of log in and set-up around Accounts: both ask the limiter *)
(* before they call the service, and report to it how the call ended.  The *)
(* limiter is a map in the memory of the process; each of its methods is   *)
(* one critical section, and the service's statements run between them.    *)
(***************************************************************************)
EXTENDS Accounts, Sequences, Functions

CONSTANTS
  Addresses,  \* what ClientIP finds
  Maximum,    \* failures a key may have (5 in the code)
  Window,     \* how long they count (10 minutes)
  SweepAbove, \* entries above which Allow drops those that are over (1000)
  Horizon     \* bound of the clock

ASSUME LimiterAssumption ==
  /\ Maximum \in Nat \ {0}
  /\ Window \in Nat \ {0}
  /\ SweepAbove \in Nat
  /\ Horizon \in Nat
  /\ IsFiniteSet(Slots)

VARIABLES
  now,       \* the clock
  attempts,  \* loginLimiter.attempts
  handler    \* what the handler of each slot is about to do

limiterVars == <<vars, now, attempts, handler>>

-----------------------------------------------------------------------------
Keys == ({"ip", "setup"} \X Addresses) \cup ({"account"} \X Users)

Entry == [failures : Nat \ {0}, resetAt : Nat]

Limited == {"setup", "login"}

\* Where a handler is: the call to make, and for which key if it is the limiter's.
Handler ==
  [at : {"allow", "serve", "fail", "reset"}, req : {q \in Request : q.op \in Limited},
   address : Addresses, next : {1, 2}]

Away == [at |-> "away"]

KeysOf(h) ==
  IF h.req.op = "setup" THEN << <<"setup", h.address>> >>
                        ELSE << <<"ip", h.address>>, <<"account", h.req.user>> >>

Calls(h) == Len(KeysOf(h))

Key(h)  == KeysOf(h)[h.next]
Last(h) == h.next = Calls(h)

Proceed(r, h) == handler' = [handler EXCEPT ![r] = h]

Call(r, at) == Proceed(r, [handler[r] EXCEPT !.at = at, !.next = 1])

NextKey(r) == Proceed(r, [handler[r] EXCEPT !.next = @ + 1])

Answer(r) == Proceed(r, Away)

-----------------------------------------------------------------------------
Over(k) == now > attempts[k].resetAt

Without(keys) == Restrict(attempts, DOMAIN attempts \ keys)

Swept ==
  IF Cardinality(DOMAIN attempts) > SweepAbove THEN {k \in DOMAIN attempts : Over(k)} ELSE {}

\* Variant: one failure too many is let through.
AllowsAtMaximum(k) ==
  k \in DOMAIN attempts => Over(k) \/ attempts[k].failures <= Maximum

Allows(k) == k \in DOMAIN attempts => Over(k) \/ attempts[k].failures < Maximum

Dropped(k) == Swept \cup {j \in {k} \cap DOMAIN attempts : Over(j)}

Failed(k) ==
  IF k \notin DOMAIN attempts \/ Over(k)
  THEN [failures |-> 1, resetAt |-> now + Window]
  ELSE [attempts[k] EXCEPT !.failures = @ + 1]

-----------------------------------------------------------------------------
Arrive(r, q, a) ==
  /\ handler[r] = Away /\ pc[r] = "idle"
  /\ q.op \in Limited
  /\ Proceed(r, [at |-> "allow", req |-> q, address |-> a, next |-> 1])
  /\ UNCHANGED <<vars, now, attempts>>

\* loginLimiter.Allow of the next key; after the last one the service is called,
\* unless the body of a set-up, read after Allow, is no JSON.
Allow(r) ==
  LET h == handler[r] IN
  /\ h.at = "allow"
  /\ attempts' = Without(Dropped(Key(h)))
  /\ \/ (~Allows(Key(h)) \/ h.req.op = "setup") /\ Answer(r) /\ UNCHANGED vars
     \/ Allows(Key(h)) /\ ~Last(h) /\ NextKey(r) /\ UNCHANGED vars
     \/ Allows(Key(h)) /\ Last(h) /\ Call(r, "serve") /\ Begin(r, h.req)
  /\ UNCHANGED now

\* The account is there and active, but the password is another.
WrongPassword(r) == pc[r] = "readCredential" /\ Refuse(r)

\* An error of the set-up is a failure whatever it is, one of log in only if it is
\* ErrUnauthorized.
Serve(r) ==
  /\ handler[r].at = "serve"
  /\ \/ /\ CheckSetup(r) \/ InsertInitial(r) \/ ReadCredential(r)
        /\ IF pc'[r] = "idle" THEN Call(r, "fail") ELSE UNCHANGED handler
     \/ WrongPassword(r) /\ Call(r, "fail")
     \/ CreateSession(r) /\ Call(r, "reset")
     \/ Cancel(r) /\ IF handler[r].req.op = "setup" THEN Call(r, "fail") ELSE Answer(r)
  /\ UNCHANGED <<now, attempts>>

\* loginLimiter.Failure
Failure(r) ==
  LET h == handler[r] k == Key(h) IN
  /\ h.at = "fail"
  /\ attempts' = [j \in DOMAIN attempts \cup {k} |-> IF j = k THEN Failed(k) ELSE attempts[j]]
  /\ IF Last(h) THEN Answer(r) ELSE NextKey(r)
  /\ UNCHANGED <<vars, now>>

\* loginLimiter.Reset
Reset(r) ==
  LET h == handler[r] IN
  /\ h.at = "reset"
  /\ attempts' = Without({Key(h)})
  /\ IF Last(h) THEN Answer(r) ELSE NextKey(r)
  /\ UNCHANGED <<vars, now>>

\* Requests that the limiter has no part in.
Other(r) ==
  /\ handler[r] = Away
  /\ Step(r)
  /\ req'[r] # NoRequest => req'[r].op \notin Limited
  /\ UNCHANGED <<now, attempts, handler>>

Tick == now < Horizon /\ now' = now + 1 /\ UNCHANGED <<vars, attempts, handler>>

\* A new process: what was in service has been cut off before, the map is empty.
Restart ==
  /\ \A r \in Slots : pc[r] = "idle" /\ handler[r] = Away
  /\ attempts' = <<>>
  /\ UNCHANGED <<vars, now, handler>>

-----------------------------------------------------------------------------
LimiterInit ==
  /\ Init
  /\ now = 0
  /\ attempts = <<>>
  /\ handler = [r \in Slots |-> Away]

Handle(r) ==
  \/ \E q \in Request, a \in Addresses : Arrive(r, q, a)
  \/ Allow(r)
  \/ Serve(r)
  \/ Failure(r)
  \/ Reset(r)
  \/ Other(r)

LimiterNext ==
  \/ \E r \in Slots : Handle(r)
  \/ Tick
  \/ Restart
  \/ (\E s \in Tokens : Expire(s)) /\ UNCHANGED <<now, attempts, handler>>

LimiterSpec == LimiterInit /\ [][LimiterNext]_limiterVars

-----------------------------------------------------------------------------
(***************************************************************************)
(* Properties.                                                             *)
(***************************************************************************)
\* The map and the handlers are of their domains, and Accounts' variables too.
LimiterTypeOK ==
  /\ TypeOK
  /\ now \in 0..Horizon
  /\ DOMAIN attempts \subseteq Keys
  /\ \A k \in DOMAIN attempts : attempts[k] \in Entry
  /\ DOMAIN handler = Slots
  /\ \A r \in Slots :
       \/ handler[r] = Away
       \/ handler[r] \in Handler /\ handler[r].next <= Calls(handler[r])

\* However many requests pass Allow before the first of them has failed, a key never
\* collects more failures in its window than the maximum and one for each other
\* request in service (handlers/security.go:93-140, 315-342).
LimitHolds ==
  \A k \in DOMAIN attempts : attempts[k].failures < Maximum + Cardinality(Slots)
=============================================================================
