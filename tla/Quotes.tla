------------------------------- MODULE Quotes -------------------------------
(***************************************************************************)
(* Quotes and the orders made from them, one committed statement or        *)
(* transaction at a time.  A quote keeps the prices its concepts had when  *)
(* it was calculated and moves along a fixed table of states; an accepted  *)
(* one becomes an order with a work for each concept.  An order may also   *)
(* be entered directly.                                                    *)
(*                                                                         *)
(* QuotesTx shows that the requests, statement by statement, do no more.   *)
(***************************************************************************)
EXTENDS Naturals, Sequences

CONSTANTS
  QuoteIds,   \* rows cotizaciones may get
  OrderIds,   \* rows pedidos may get
  Customers,  \* rows of clientes
  Machines,   \* rows of maquinas
  Types,      \* rows of tipos_maquina
  Rates,      \* what a concept on a machine may cost, all its rates together
  MaxLines,   \* 50 in the code: concepts of a quote, works of a direct order
  MaxTotal,   \* what NUMERIC(14, 2) holds, in cents
  NoQuote, NoOrder, NoMachine, NoConcept  \* no row and NULL

ASSUME QuotesAssumption ==
  /\ MaxLines \in Nat \ {0}
  /\ MaxTotal \in Nat
  /\ Rates \subseteq Nat
  /\ NoConcept \notin 1..MaxLines
  /\ NoMachine \notin Machines
  /\ NoQuote \notin QuoteIds

VARIABLES
  customer,  \* the activo and tipo columns of clientes
  machine,   \* the activa and tipo_maquina_id columns of maquinas, and its rate
  quote,     \* rows of cotizaciones with their conceptos_cotizacion
  order      \* rows of pedidos with their trabajos

vars == <<customer, machine, quote, order>>

-----------------------------------------------------------------------------
\* service.quoteTransitions
Targets ==
  [BORRADOR |-> {"ENVIADA", "CANCELADA"},
   ENVIADA  |-> {"ACEPTADA", "RECHAZADA", "VENCIDA", "CANCELADA"}]

\* knownQuoteStatus: the sources of the table and whatever they lead to.
Statuses == DOMAIN Targets \cup UNION {Targets[s] : s \in DOMAIN Targets}

\* Variant: a quote that was sent can be taken back.
AllowedOrReopened(s, t) ==
  (s \in DOMAIN Targets /\ t \in Targets[s]) \/ (s = "ENVIADA" /\ t = "BORRADOR")

Allowed(s, t) == s \in DOMAIN Targets /\ t \in Targets[s]

CustomerRow == [active : BOOLEAN, type : {"PERSONA", "EMPRESA"}]
MachineRow  == [active : BOOLEAN, type : Types, rate : Rates]
Line        == [machine : Machines, price : Rates]
Lines       == UNION {[1..n -> Line] : n \in 1..MaxLines}
Quote       == [status : Statuses, customer : Customers, lines : Lines,
                total : 0..MaxTotal]

\* concept numbers the line of the quote a work comes from; item tells the
\* works of an order apart.
Work  == [item : 1..MaxLines, concept : 1..MaxLines \cup {NoConcept},
          type : Types, machine : Machines \cup {NoMachine}]
Order == [quote : QuoteIds \cup {NoQuote}, customer : Customers,
          origin : {"CLIENTE", "EMPRESA", "PLATAFORMA"}, works : SUBSET Work]

\* No row is not a row.
ASSUME NoQuoteAssumption == NoQuote \notin Quote

\* What a client enters for a work of a direct order.
Item      == [type : Types, machine : Machines \cup {NoMachine}]
ItemLists == UNION {[1..n -> Item] : n \in 1..MaxLines}

DirectWork(item, i) ==
  [item |-> i, concept |-> NoConcept, type |-> item.type, machine |-> item.machine]

Sum(lines) ==
  LET upTo[n \in 0..Len(lines)] ==
        IF n = 0 THEN 0 ELSE upTo[n - 1] + lines[n].price
  IN upTo[Len(lines)]

Ordered(q) == \E o \in OrderIds : order[o] # NoOrder /\ order[o].quote = q

Origin(type) == IF type = "EMPRESA" THEN "EMPRESA" ELSE "CLIENTE"

\* INSERT INTO trabajos ... SELECT: one row for each concept.
WorksOf(lines, types) ==
  {[item |-> i, concept |-> i, type |-> types[i], machine |-> lines[i].machine] :
     i \in DOMAIN lines}

-----------------------------------------------------------------------------
CreateQuote(c, lines, total) ==
  /\ total \in 0..MaxTotal
  /\ \E q \in QuoteIds :
       /\ quote[q] = NoQuote
       /\ quote' = [quote EXCEPT ![q] =
            [status |-> "BORRADOR", customer |-> c, lines |-> lines, total |-> total]]
  /\ UNCHANGED <<customer, machine, order>>

MoveQuote(q, s, t) ==
  /\ quote[q] # NoQuote
  /\ quote[q].status = s
  /\ Allowed(s, t)
  /\ quote' = [quote EXCEPT ![q].status = t]
  /\ UNCHANGED <<customer, machine, order>>

AddOrder(row) ==
  /\ \E o \in OrderIds :
       /\ order[o] = NoOrder
       /\ order' = [order EXCEPT ![o] = row]
  /\ UNCHANGED <<customer, machine, quote>>

\* The types of the customer and of the machines are those of statements
\* before the commit: they may have changed since.
CreateOrder(q, type, types) ==
  /\ quote[q] # NoQuote
  /\ quote[q].status = "ACEPTADA"
  /\ ~Ordered(q)
  /\ AddOrder([quote |-> q, customer |-> quote[q].customer, origin |-> Origin(type),
               works |-> WorksOf(quote[q].lines, types)])

CreateDirectOrder(c, type, platform, items) ==
  AddOrder([quote |-> NoQuote, customer |-> c,
            origin |-> IF platform THEN "PLATAFORMA" ELSE Origin(type),
            works |-> {DirectWork(items[i], i) : i \in DOMAIN items}])

\* PATCH and PUT of the rows the others read.
UpdateCustomer(c, row) ==
  /\ customer' = [customer EXCEPT ![c] = row]
  /\ UNCHANGED <<machine, quote, order>>

UpdateMachine(m, row) ==
  /\ machine' = [machine EXCEPT ![m] = row]
  /\ UNCHANGED <<customer, quote, order>>

-----------------------------------------------------------------------------
Init ==
  /\ customer \in [Customers -> CustomerRow]
  /\ machine \in [Machines -> MachineRow]
  /\ quote = [q \in QuoteIds |-> NoQuote]
  /\ order = [o \in OrderIds |-> NoOrder]

Next ==
  \/ \E c \in Customers, lines \in Lines : CreateQuote(c, lines, Sum(lines))
  \/ \E q \in QuoteIds, s, t \in Statuses : MoveQuote(q, s, t)
  \/ \E q \in QuoteIds, type \in {"PERSONA", "EMPRESA"}, types \in [1..MaxLines -> Types] :
       CreateOrder(q, type, types)
  \/ \E c \in Customers, type \in {"PERSONA", "EMPRESA"}, platform \in BOOLEAN, items \in ItemLists :
       CreateDirectOrder(c, type, platform, items)
  \/ \E c \in Customers, row \in CustomerRow : UpdateCustomer(c, row)
  \/ \E m \in Machines, row \in MachineRow : UpdateMachine(m, row)

Spec == Init /\ [][Next]_vars

-----------------------------------------------------------------------------
(***************************************************************************)
(* Properties.                                                             *)
(***************************************************************************)

\* The columns hold values of their domains.
TypeOK ==
  /\ customer \in [Customers -> CustomerRow]
  /\ machine \in [Machines -> MachineRow]
  /\ quote \in [QuoteIds -> Quote \cup {NoQuote}]
  /\ order \in [OrderIds -> Order \cup {NoOrder}]

\* An order made from a quote stands on an accepted quote, now and later:
\* nothing withdraws the acceptance once production can begin.
OrderedIsAccepted ==
  \A q \in QuoteIds : Ordered(q) => quote[q] # NoQuote /\ quote[q].status = "ACEPTADA"

\* README: each concept of a quote generates a work.  A quote has at most one
\* order, and the works of that order are its concepts, none missing or twice,
\* on the machines and for the customer that were quoted.
WorksAreConcepts ==
  \A o \in OrderIds : order[o] # NoOrder /\ order[o].quote # NoQuote =>
    LET q == order[o].quote IN
    /\ quote[q] # NoQuote
    /\ order[o].customer = quote[q].customer
    /\ {w.concept : w \in order[o].works} = DOMAIN quote[q].lines
    /\ \A v, w \in order[o].works :
         v.machine = quote[q].lines[v.concept].machine /\ (v.concept = w.concept => v = w)
    /\ \A p \in OrderIds : order[p] # NoOrder /\ order[p].quote = q => p = o

\* The total of a quote is the sum of its concepts as stored, although each
\* was priced by a statement of its own while rates were changing.
TotalsAddUp ==
  \A q \in QuoteIds : quote[q] # NoQuote => quote[q].total = Sum(quote[q].lines)

\* README: the states follow the table, final ones admit no transition, and
\* later changes do not alter what was quoted.
Lifecycle ==
  [][\A q \in QuoteIds : quote[q] # NoQuote =>
       \/ quote'[q] = quote[q]
       \/ \E t \in Statuses :
            /\ \/ quote[q].status = "BORRADOR" /\ t \in {"ENVIADA", "CANCELADA"}
               \/ quote[q].status = "ENVIADA"
                  /\ t \in {"ACEPTADA", "RECHAZADA", "VENCIDA", "CANCELADA"}
            /\ quote'[q] = [quote[q] EXCEPT !.status = t]]_vars
=============================================================================
