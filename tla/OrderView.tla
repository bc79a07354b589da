----------------------------- MODULE OrderView -----------------------------
(***************************************************************************)
(* GET /pedidos/{id}, and the work every operation of production answers   *)
(* with: several statements outside a transaction, each with a snapshot of *)
(* its own, while the floor goes on.                                       *)
(***************************************************************************)
EXTENDS Floor

CONSTANT NoView

VARIABLES
  at,   \* the next statement of the reader
  view  \* what it has read, as it will be shown

viewVars == <<at, view>>

-----------------------------------------------------------------------------
WorksOf(o) == {w \in Works : OrderOf[w] = o}
CompleteOf(o) == {w \in WorksOf(o) : work[w].status = "COMPLETADO"}

\* of are the works that were asked for, left those whose attempts are still to
\* be read; order and completed are of an order only.
Empty(o, ws) ==
  [id |-> o, order |-> "PENDIENTE", completed |-> 0, of |-> ws,
   works |-> [w \in ws |-> "PENDIENTE"], attempts |-> {}, left |-> ws]

Goto(next, seen) ==
  /\ at' = next
  /\ view' = seen
  /\ UNCHANGED vars

\* Variants: the order is read after its works, or the works after their attempts.
AfterWorksFirst(s) ==
  CASE s = "asked" -> "works" [] s = "works" -> "order" [] s = "order" -> "attempts"
    [] s = "attempts" -> "shown"
AfterAttemptsFirst(s) ==
  CASE s = "asked" -> "order" [] s = "order" -> "attempts" [] s = "attempts" -> "works"
    [] s = "works" -> "shown"

After(s) ==
  CASE s = "asked" -> "order" [] s = "order" -> "works" [] s = "works" -> "attempts"
    [] s = "attempts" -> "shown"

\* The works of an order are made with it, so they are those at any time.
GetOrder(o) ==
  /\ at = "idle"
  /\ Goto(After("asked"), Empty(o, WorksOf(o)))

GetWork(w) ==
  /\ at = "idle"
  /\ Goto(After("order"), Empty(OrderOf[w], {w}))

ReadOrder ==
  /\ at = "order"
  /\ Goto(After("order"),
          [view EXCEPT !.order = order[view.id],
                       !.completed = Cardinality(CompleteOf(view.id))])

ReadWorks ==
  /\ at = "works"
  /\ Goto(After("works"), [view EXCEPT !.works = [w \in view.of |-> work[w].status]])

\* The attempts of one work.
ReadAttempts(w) ==
  /\ at = "attempts"
  /\ w \in view.left
  /\ Goto(IF view.left = {w} THEN After("attempts") ELSE "attempts",
          [view EXCEPT !.attempts = @ \cup AttemptsOf(w), !.left = @ \ {w}])

\* The answer is sent, the client goes away or a statement fails.
Leave ==
  /\ at # "idle"
  /\ Goto("idle", NoView)

-----------------------------------------------------------------------------
ViewInit == Init /\ at = "idle" /\ view = NoView

Reader ==
  \/ \E o \in Orders : WorksOf(o) # {} /\ GetOrder(o)
  \/ \E w \in Works : GetWork(w) \/ ReadAttempts(w)
  \/ ReadOrder
  \/ ReadWorks
  \/ Leave

ViewNext == (Next /\ UNCHANGED viewVars) \/ Reader

ViewSpec == ViewInit /\ [][ViewNext]_<<vars, viewVars>>

-----------------------------------------------------------------------------
(***************************************************************************)
(* Properties.                                                             *)
(***************************************************************************)
ShownComplete == {w \in view.of : view.works[w] = "COMPLETADO"}

\* What is shown of an order is not ahead of the works shown with it: an order
\* shown COMPLETADO has no other work, and it counts no completed work that is
\* not shown as one, whatever was finished between the statements.
OrderAgrees ==
  at = "shown" =>
    /\ view.order = "COMPLETADO" => ShownComplete = view.of
    /\ view.completed <= Cardinality(ShownComplete)

\* What is shown of a work is not ahead of its attempts: one shown COMPLETADO
\* comes with the attempt that succeeded, and no other attempt follows it or is
\* open; one shown EN_PROCESO comes with an attempt.
WorkAgrees ==
  at = "shown" =>
    \A w \in view.of :
      LET shown == {a \in view.attempts : a.work = w} IN
      /\ view.works[w] = "COMPLETADO" =>
           \E a \in shown : /\ a.result = "EXITOSO"
                            /\ \A b \in shown : b.end # Open /\ b.number <= a.number
      /\ view.works[w] = "EN_PROCESO" => shown # {}
=============================================================================
