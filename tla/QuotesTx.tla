------------------------------ MODULE QuotesTx ------------------------------
(***************************************************************************)
(* Requests about quotes and orders, statement by statement, on PostgreSQL *)
(* at READ COMMITTED.  A slot is a request being served: what a statement  *)
(* of it read is kept in Go variables, and may be old when the next one    *)
(* runs.  Only the conversion of a quote is a transaction that holds a row *)
(* lock between statements; a creation writes rows nobody sees before its  *)
(* commit, and a change of status is one statement.                        *)
(***************************************************************************)
EXTENDS Quotes

CONSTANTS
  Slots,     \* requests served at the same time
  Ops,       \* the kinds of request that are sent
  NoRequest  \* an idle slot serves this

ASSUME QuotesTxAssumption == Ops \subseteq {"quote", "status", "order", "direct"}

VARIABLES
  pc,      \* the statement each slot is at
  req,     \* the request each slot serves
  read,    \* what its statements returned
  answers  \* every "conflict" and "not found" given, with what it was about

allVars == <<customer, machine, quote, order, pc, req, read, answers>>

Request ==
  [op : {"quote"}, customer : Customers, machines : UNION {[1..n -> Machines] : n \in 1..MaxLines}]
  \cup [op : {"status"}, quote : QuoteIds, target : Statuses]
  \cup [op : {"order"}, quote : QuoteIds]
  \cup [op : {"direct"}, customer : Customers, platform : BOOLEAN, items : ItemLists]

Nothing ==
  [status |-> "BORRADOR", type |-> "PERSONA", lines |-> <<>>, total |-> 0, checked |-> 0,
   works |-> {}]

First(op) ==
  CASE op = "quote"  -> "readCustomer"
    [] op = "status" -> "readStatus"
    [] op = "order"  -> "readQuote"
    [] op = "direct" -> "readCustomer"

-----------------------------------------------------------------------------
Begin(r, q) ==
  /\ pc[r] = "idle"
  /\ req' = [req EXCEPT ![r] = q]
  /\ pc' = [pc EXCEPT ![r] = First(q.op)]
  /\ UNCHANGED <<vars, read, answers>>

Goto(r, next, found) ==
  /\ pc' = [pc EXCEPT ![r] = next]
  /\ read' = [read EXCEPT ![r] = found]
  /\ UNCHANGED <<vars, req, answers>>

End(r) ==
  /\ pc' = [pc EXCEPT ![r] = "idle"]
  /\ req' = [req EXCEPT ![r] = NoRequest]
  /\ read' = [read EXCEPT ![r] = Nothing]

\* A refusal changes nothing; so do a cancelled request and a lost connection.
Refuse(r) == End(r) /\ UNCHANGED <<vars, answers>>

Answer(r, outcome) ==
  /\ End(r)
  /\ answers' = answers \cup {[outcome |-> outcome, op |-> req[r].op, quote |-> req[r].quote,
                               status |-> read[r].status,
                               exists |-> quote[req[r].quote] # NoQuote]}
  /\ UNCHANGED vars

\* FOR UPDATE of the quote, held until the order is committed.
HoldsQuote(r, q) ==
  pc[r] \in {"insertOrder", "insertWorks", "commitOrder"} /\ req[r].quote = q
Locked(r) == \E s \in Slots \ {r} : HoldsQuote(s, req[r].quote)

-----------------------------------------------------------------------------
(***************************************************************************)
(* QuoteService.Create and ProductionService.CreateDirectOrder.            *)
(***************************************************************************)
ReadCustomer(r) ==
  /\ pc[r] = "readCustomer"
  /\ LET c == customer[req[r].customer] IN
     IF ~c.active THEN Refuse(r)
     ELSE Goto(r, IF req[r].op = "quote" THEN "calculate" ELSE "references",
               [read[r] EXCEPT !.type = c.type])

\* Variant: the total is computed again, when all concepts are priced.
CalculateWithLatest(r) ==
  /\ pc[r] = "calculate"
  /\ LET i == Len(read[r].lines) + 1
         m == req[r].machines[i]
         next == IF i = Len(req[r].machines) THEN "insertQuote" ELSE "calculate" IN
     IF ~machine[m].active THEN Refuse(r)
     ELSE Goto(r, next, [read[r] EXCEPT
            !.lines = Append(@, [machine |-> m, price |-> machine[m].rate]),
            !.total = i * machine[m].rate])

\* One concept is priced with the rates of the moment.
Calculate(r) ==
  /\ pc[r] = "calculate"
  /\ LET i == Len(read[r].lines) + 1
         m == req[r].machines[i]
         next == IF i = Len(req[r].machines) THEN "insertQuote" ELSE "calculate" IN
     IF ~machine[m].active THEN Refuse(r)
     ELSE Goto(r, next, [read[r] EXCEPT
            !.lines = Append(@, [machine |-> m, price |-> machine[m].rate]),
            !.total = @ + machine[m].rate])

\* One transaction; a total the column cannot hold fails it.
InsertQuote(r) ==
  /\ pc[r] = "insertQuote"
  /\ IF read[r].total > MaxTotal THEN Refuse(r)
     ELSE /\ CreateQuote(req[r].customer, read[r].lines, read[r].total)
          /\ End(r)
          /\ UNCHANGED answers

\* The references of one work: a machine, if named, is active and of the type.
References(r) ==
  /\ pc[r] = "references"
  /\ LET i == read[r].checked + 1
         item == req[r].items[i]
         next == IF i = Len(req[r].items) THEN "insertDirect" ELSE "references" IN
     IF item.machine # NoMachine /\ ~(machine[item.machine].active
                                      /\ machine[item.machine].type = item.type)
     THEN Refuse(r)
     ELSE Goto(r, next, [read[r] EXCEPT !.checked = i])

InsertDirect(r) ==
  /\ pc[r] = "insertDirect"
  /\ CreateDirectOrder(req[r].customer, read[r].type, req[r].platform, req[r].items)
  /\ End(r)
  /\ UNCHANGED answers

-----------------------------------------------------------------------------
(***************************************************************************)
(* QuoteService.ChangeStatus.                                              *)
(***************************************************************************)
ReadStatus(r) ==
  /\ pc[r] = "readStatus"
  /\ LET q == quote[req[r].quote] IN
     IF q = NoQuote THEN Answer(r, "not found")
     ELSE IF ~Allowed(q.status, req[r].target) THEN Refuse(r)
     ELSE Goto(r, "updateStatus", [read[r] EXCEPT !.status = q.status])

\* Variant: UPDATE ... WHERE id = q, without the status that was read.
UpdateAnyStatus(r) ==
  /\ pc[r] = "updateStatus"
  /\ ~Locked(r)
  /\ quote' = [quote EXCEPT ![req[r].quote].status = req[r].target]
  /\ End(r)
  /\ UNCHANGED <<customer, machine, order, answers>>

\* UPDATE ... WHERE id = q AND estado_cotizacion_id = what was read.
UpdateStatus(r) ==
  /\ pc[r] = "updateStatus"
  /\ ~Locked(r)
  /\ IF quote[req[r].quote].status = read[r].status
     THEN /\ MoveQuote(req[r].quote, read[r].status, req[r].target)
          /\ End(r)
          /\ UNCHANGED answers
     ELSE Answer(r, "conflict")

-----------------------------------------------------------------------------
(***************************************************************************)
(* ProductionRepository.CreateOrder.                                       *)
(***************************************************************************)

\* The snapshot of SELECT ... FOR UPDATE OF q: the quote, its status through a
\* join and the type of its customer through another.
ReadQuote(r) ==
  /\ pc[r] = "readQuote"
  /\ LET q == quote[req[r].quote] IN
     IF q = NoQuote THEN Answer(r, "not found")
     ELSE Goto(r, "lockQuote",
            [read[r] EXCEPT !.status = q.status, !.type = customer[q.customer].type])

\* Variant: the status is not looked at again under the lock.
LockQuoteAsRead(r) ==
  /\ pc[r] = "lockQuote"
  /\ ~Locked(r)
  /\ Goto(r, "insertOrder", read[r])

\* The row is locked.  If its status changed since the snapshot, the join with
\* the old row of estados_cotizacion no longer holds and there is no row.
LockQuote(r) ==
  /\ pc[r] = "lockQuote"
  /\ ~Locked(r)
  /\ IF quote[req[r].quote].status # read[r].status THEN Answer(r, "not found")
     ELSE IF read[r].status # "ACEPTADA" THEN Refuse(r)
     ELSE Goto(r, "insertOrder", read[r])

\* Variant: cotizacion_id is not UNIQUE.
InsertOrderAgain(r) == pc[r] = "insertOrder" /\ Goto(r, "insertWorks", read[r])

\* INSERT INTO pedidos: UNIQUE (cotizacion_id).
InsertOrder(r) ==
  /\ pc[r] = "insertOrder"
  /\ IF Ordered(req[r].quote) THEN Answer(r, "conflict")
     ELSE Goto(r, "insertWorks", read[r])

\* INSERT INTO trabajos ... SELECT, with the types the machines have now.
InsertWorks(r) ==
  /\ pc[r] = "insertWorks"
  /\ LET lines == quote[req[r].quote].lines
         works == WorksOf(lines, [i \in DOMAIN lines |-> machine[lines[i].machine].type]) IN
     IF works = {} THEN Refuse(r)
     ELSE Goto(r, "commitOrder", [read[r] EXCEPT !.works = works])

CommitOrder(r) ==
  /\ pc[r] = "commitOrder"
  /\ AddOrder([quote |-> req[r].quote, customer |-> quote[req[r].quote].customer,
               origin |-> Origin(read[r].type), works |-> read[r].works])
  /\ End(r)
  /\ UNCHANGED answers

-----------------------------------------------------------------------------
Cancel(r) == pc[r] # "idle" /\ Refuse(r)

\* The rows other handlers write meanwhile.
Elsewhere ==
  /\ \/ \E c \in Customers, row \in CustomerRow : UpdateCustomer(c, row)
     \/ \E m \in Machines, row \in MachineRow : UpdateMachine(m, row)
  /\ UNCHANGED <<pc, req, read, answers>>

TxInit ==
  /\ Init
  /\ pc = [r \in Slots |-> "idle"]
  /\ req = [r \in Slots |-> NoRequest]
  /\ read = [r \in Slots |-> Nothing]
  /\ answers = {}

Step(r) ==
  \/ ReadCustomer(r) \/ Calculate(r) \/ InsertQuote(r) \/ References(r) \/ InsertDirect(r)
  \/ ReadStatus(r) \/ UpdateStatus(r)
  \/ ReadQuote(r) \/ LockQuote(r) \/ InsertOrder(r) \/ InsertWorks(r) \/ CommitOrder(r)

TxNext ==
  \/ Elsewhere
  \/ \E r \in Slots : Step(r) \/ Cancel(r) \/ \E q \in Request : q.op \in Ops /\ Begin(r, q)

TxSpec == TxInit /\ [][TxNext]_allVars

-----------------------------------------------------------------------------
(***************************************************************************)
(* Properties.                                                             *)
(***************************************************************************)

\* The requests implement the atomic operations of Quotes.
ImplementsQuotes == Spec

\* An answer of "conflict" is true when it is given and stays true: no table
\* of states leads back, so the quote never again has the status the request
\* had read; and the quote of a refused conversion has its order.  A 404 is of a
\* quote that does not exist, but for a conversion whose quote changed status
\* while it waited for the row: that one is told that nothing is there.
RefusalsAreTrue ==
  \A a \in answers :
    /\ a.outcome = "conflict" =>
         IF a.op = "order" THEN Ordered(a.quote) ELSE quote[a.quote].status # a.status
    /\ a.outcome = "not found" /\ a.exists =>
         a.op = "order" /\ quote[a.quote].status # a.status

\* While a conversion holds its quote, the quote stays accepted and no other
\* conversion of it gets as far.
ConversionIsAlone ==
  \A r \in Slots, q \in QuoteIds : HoldsQuote(r, q) =>
    /\ quote[q].status = "ACEPTADA"
    /\ pc[r] # "insertOrder" => ~Ordered(q)
    /\ \A s \in Slots \ {r} : ~HoldsQuote(s, q)

=============================================================================
