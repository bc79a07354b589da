--------------------------- MODULE Quotes_proofs ---------------------------
(***************************************************************************)
(* What Quotes promises, for any number of quotes, orders and concepts,    *)
(* and that the requests of QuotesTx, statement by statement, keep it.     *)
(*                                                                         *)
(* The invariant needs no strengthening beyond its own parts: an order is  *)
(* made only from an accepted quote and acceptance is final, so the quote  *)
(* under an order never moves; identifiers are given once, so the rows     *)
(* others rest on are never replaced.                                      *)
(***************************************************************************)
EXTENDS QuotesTx, WellFoundedInduction, TLAPS

QuotesInv == TypeOK /\ OrderedIsAccepted /\ WorksAreConcepts

\* Nothing is quoted or ordered at first.
LEMMA InitQuotesInv == Init => QuotesInv
  BY DEF Init, QuotesInv, TypeOK, OrderedIsAccepted, WorksAreConcepts, Ordered

\* The works made from the concepts of a quote are works.
LEMMA WorksOfType ==
  ASSUME NEW lines \in Lines, NEW types \in [1..MaxLines -> Types]
  PROVE  WorksOf(lines, types) \in SUBSET Work
<1>1. PICK n \in 1..MaxLines : lines \in [1..n -> Line]
  BY DEF Lines
<1>2. DOMAIN lines \subseteq 1..MaxLines
  BY <1>1, QuotesAssumption DEF QuotesAssumption
<1>3. \A i \in DOMAIN lines : lines[i].machine \in Machines
  BY <1>1 DEF Line
<1>. QED
  BY <1>2, <1>3 DEF WorksOf, Work

\* There is one for each concept, on the machine of the concept.
LEMMA WorksOfConcepts ==
  ASSUME NEW lines, NEW types, NEW works, works = WorksOf(lines, types)
  PROVE  /\ \A w \in works : w.concept \in DOMAIN lines
         /\ \A i \in DOMAIN lines : \E w \in works : w.concept = i
         /\ \A v, w \in works :
              v.machine = lines[v.concept].machine /\ (v.concept = w.concept => v = w)
<1>. DEFINE made(i) == [item |-> i, concept |-> i, type |-> types[i],
                        machine |-> lines[i].machine]
<1>1. works = {made(i) : i \in DOMAIN lines}
  BY DEF WorksOf
<1>2. \A i \in DOMAIN lines : made(i).concept = i /\ made(i).machine = lines[i].machine
  OBVIOUS
<1>. HIDE DEF made
<1>3. \A w \in works :
        \E i \in DOMAIN lines : w.concept = i /\ w.machine = lines[i].machine /\ w = made(i)
  BY <1>1, <1>2
<1>4. \A i \in DOMAIN lines : \E w \in works : w.concept = i
  BY <1>1, <1>2
<1>5. ASSUME NEW v \in works, NEW w \in works
      PROVE  v.machine = lines[v.concept].machine /\ (v.concept = w.concept => v = w)
  BY <1>3
<1>. QED
  BY <1>3, <1>4, <1>5

\* The works a client enters are works too.
LEMMA DirectWorkType ==
  ASSUME NEW items \in ItemLists
  PROVE  {DirectWork(items[i], i) : i \in DOMAIN items} \in SUBSET Work
<1>1. PICK n \in 1..MaxLines : items \in [1..n -> Item]
  BY DEF ItemLists
<1>2. DOMAIN items \subseteq 1..MaxLines
  BY <1>1, QuotesAssumption DEF QuotesAssumption
<1>3. \A i \in DOMAIN items : items[i].type \in Types /\ items[i].machine \in Machines \cup {NoMachine}
  BY <1>1 DEF Item
<1>. QED
  BY <1>2, <1>3 DEF DirectWork, Work

\* An accepted quote moves no more.
LEMMA AcceptedIsFinal ==
  ASSUME NEW t, Allowed("ACEPTADA", t)
  PROVE  FALSE
  BY DEF Allowed, Targets

\* A new quote takes a free identifier, which no order is made from.
LEMMA CreateQuoteKeeps ==
  ASSUME QuotesInv, NEW c \in Customers, NEW lines \in Lines, NEW total,
         CreateQuote(c, lines, total)
  PROVE  QuotesInv'
<1>. USE DEF QuotesInv
<1>1. PICK q \in QuoteIds :
        /\ quote[q] = NoQuote
        /\ quote' = [quote EXCEPT ![q] =
             [status |-> "BORRADOR", customer |-> c, lines |-> lines, total |-> total]]
  BY DEF CreateQuote
<1>2. total \in 0..MaxTotal /\ UNCHANGED <<customer, machine, order>>
  BY DEF CreateQuote
<1>3. TypeOK'
  <2>1. "BORRADOR" \in Statuses
    BY DEF Statuses, Targets
  <2>2. [status |-> "BORRADOR", customer |-> c, lines |-> lines, total |-> total] \in Quote
    BY <1>2, <2>1 DEF Quote
  <2>. QED
    BY <1>1, <1>2, <2>2 DEF TypeOK
<1>4. \A p \in QuoteIds : quote[p] # NoQuote => quote'[p] = quote[p]
  BY <1>1 DEF TypeOK
<1>5. OrderedIsAccepted'
  BY <1>2, <1>4 DEF OrderedIsAccepted, Ordered
<1>6. WorksAreConcepts'
  <2>. SUFFICES ASSUME NEW o \in OrderIds, order[o] # NoOrder, order[o].quote # NoQuote
                PROVE  quote'[order[o].quote] = quote[order[o].quote]
    BY <1>2 DEF WorksAreConcepts
  <2>1. order[o].quote \in QuoteIds
    BY DEF TypeOK, Order
  <2>2. quote[order[o].quote] # NoQuote
    BY DEF WorksAreConcepts
  <2>. QED
    BY <1>4, <2>1, <2>2
<1>. QED
  BY <1>3, <1>5, <1>6

\* A quote that moves has no order yet.
LEMMA MoveQuoteKeeps ==
  ASSUME QuotesInv, NEW q \in QuoteIds, NEW s \in Statuses, NEW t \in Statuses, MoveQuote(q, s, t)
  PROVE  QuotesInv'
<1>. USE DEF QuotesInv
<1>1. /\ quote[q] # NoQuote /\ quote[q].status = s /\ Allowed(s, t)
      /\ quote' = [quote EXCEPT ![q].status = t]
      /\ UNCHANGED <<customer, machine, order>>
  BY DEF MoveQuote
<1>2. ~Ordered(q)
  BY <1>1, AcceptedIsFinal DEF OrderedIsAccepted
<1>3. TypeOK'
  <2>1. quote[q] \in Quote
    BY <1>1 DEF TypeOK
  <2>2. [quote[q] EXCEPT !.status = t] \in Quote
    BY <2>1 DEF Quote
  <2>. QED
    BY <1>1, <2>2 DEF TypeOK
<1>4. \A p \in QuoteIds \ {q} : quote'[p] = quote[p]
  BY <1>1 DEF TypeOK
<1>5. OrderedIsAccepted'
  BY <1>1, <1>2, <1>4 DEF OrderedIsAccepted, Ordered
<1>6. WorksAreConcepts'
  <2>. SUFFICES ASSUME NEW o \in OrderIds, order[o] # NoOrder, order[o].quote # NoQuote
                PROVE  quote'[order[o].quote] = quote[order[o].quote]
    BY <1>1 DEF WorksAreConcepts
  <2>1. order[o].quote \in QuoteIds
    BY DEF TypeOK, Order
  <2>2. order[o].quote # q
    BY <1>2 DEF Ordered
  <2>. QED
    BY <1>4, <2>1, <2>2
<1>. QED
  BY <1>3, <1>5, <1>6

\* What a new order must be for the invariant to survive it.
LEMMA AddOrderKeeps ==
  ASSUME QuotesInv, NEW row \in Order, AddOrder(row),
         row.quote # NoQuote =>
           LET q == row.quote IN
           /\ quote[q] # NoQuote /\ quote[q].status = "ACEPTADA" /\ ~Ordered(q)
           /\ row.customer = quote[q].customer
           /\ {w.concept : w \in row.works} = DOMAIN quote[q].lines
           /\ \A v, w \in row.works :
                v.machine = quote[q].lines[v.concept].machine /\ (v.concept = w.concept => v = w)
  PROVE  QuotesInv'
<1>. USE DEF QuotesInv
<1>1. PICK o \in OrderIds : order[o] = NoOrder /\ order' = [order EXCEPT ![o] = row]
  BY DEF AddOrder
<1>2. UNCHANGED <<customer, machine, quote>>
  BY DEF AddOrder
<1>3. TypeOK'
  BY <1>1, <1>2 DEF TypeOK
<1>4. order'[o] = row /\ \A p \in OrderIds \ {o} : order'[p] = order[p]
  BY <1>1 DEF TypeOK
<1>5. OrderedIsAccepted'
  <2>. SUFFICES ASSUME NEW q \in QuoteIds, NEW p \in OrderIds, order'[p] # NoOrder, order'[p].quote = q,
                       q # NoQuote
                PROVE  quote[q] # NoQuote /\ quote[q].status = "ACEPTADA"
    BY <1>2, QuotesAssumption DEF OrderedIsAccepted, Ordered, QuotesAssumption
  <2>1. CASE p = o
    BY <1>4, <2>1
  <2>2. CASE p # o
    BY <1>4, <2>2 DEF OrderedIsAccepted, Ordered
  <2>. QED
    BY <2>1, <2>2
<1>6. WorksAreConcepts'
  <2>. SUFFICES ASSUME NEW p \in OrderIds, order'[p] # NoOrder, order'[p].quote # NoQuote
                PROVE  LET q == order'[p].quote IN
                  /\ quote[q] # NoQuote
                  /\ order'[p].customer = quote[q].customer
                  /\ {w.concept : w \in order'[p].works} = DOMAIN quote[q].lines
                  /\ \A v, w \in order'[p].works :
                       v.machine = quote[q].lines[v.concept].machine
                       /\ (v.concept = w.concept => v = w)
                  /\ \A u \in OrderIds : order'[u] # NoOrder /\ order'[u].quote = q => u = p
    BY <1>2 DEF WorksAreConcepts
  <2>1. CASE p = o
    <3>1. \A u \in OrderIds \ {o} : order'[u] # NoOrder => order'[u].quote # row.quote
      BY <1>4, <2>1 DEF Ordered
    <3>. QED
      BY <1>4, <2>1, <3>1
  <2>2. CASE p # o
    <3>1. order'[p] = order[p] /\ order[p] # NoOrder /\ order[p].quote # NoQuote
      BY <1>4, <2>2
    <3>2. row.quote # order[p].quote
      BY <3>1 DEF Ordered
    <3>. QED
      BY <1>4, <2>2, <3>1, <3>2 DEF WorksAreConcepts
  <2>. QED
    BY <2>1, <2>2
<1>. QED
  BY <1>3, <1>5, <1>6

\* A conversion makes one work of each concept.
LEMMA CreateOrderKeeps ==
  ASSUME QuotesInv, NEW q \in QuoteIds, NEW type \in {"PERSONA", "EMPRESA"},
         NEW types \in [1..MaxLines -> Types], CreateOrder(q, type, types)
  PROVE  QuotesInv'
<1>. DEFINE works == WorksOf(quote[q].lines, types)
            row == [quote |-> q, customer |-> quote[q].customer, origin |-> Origin(type),
                    works |-> works]
<1>1. /\ quote[q] # NoQuote /\ quote[q].status = "ACEPTADA" /\ ~Ordered(q)
      /\ AddOrder(row)
  BY DEF CreateOrder
<1>2. quote[q] \in Quote
  BY <1>1 DEF QuotesInv, TypeOK
<1>3. quote[q].lines \in Lines /\ quote[q].customer \in Customers
  BY <1>2 DEF Quote
<1>4. works \in SUBSET Work
  BY <1>3, WorksOfType
<1>5. row \in Order
  BY <1>3, <1>4 DEF Order, Origin
<1>6. /\ {w.concept : w \in works} = DOMAIN quote[q].lines
      /\ \A v, w \in works :
           v.machine = quote[q].lines[v.concept].machine /\ (v.concept = w.concept => v = w)
  <2>. DEFINE lines == quote[q].lines
  <2>1. works = WorksOf(lines, types)
    OBVIOUS
  <2>. HIDE DEF works, lines
  <2>2. \A w \in works : w.concept \in DOMAIN lines
    BY <2>1, WorksOfConcepts
  <2>3. \A i \in DOMAIN lines : \E w \in works : w.concept = i
    BY <2>1, WorksOfConcepts
  <2>4. {w.concept : w \in works} = DOMAIN lines
    BY <2>2, <2>3
  <2>5. \A v, w \in works :
          v.machine = lines[v.concept].machine /\ (v.concept = w.concept => v = w)
    BY <2>1, WorksOfConcepts
  <2>. QED
    BY <2>4, <2>5 DEF lines
<1>. HIDE DEF works
<1>7. row.quote = q /\ row.customer = quote[q].customer /\ row.works = works
  OBVIOUS
<1>. HIDE DEF row
<1>8. row.quote # NoQuote =>
        LET p == row.quote IN
        /\ quote[p] # NoQuote /\ quote[p].status = "ACEPTADA" /\ ~Ordered(p)
        /\ row.customer = quote[p].customer
        /\ {w.concept : w \in row.works} = DOMAIN quote[p].lines
        /\ \A v, w \in row.works :
             v.machine = quote[p].lines[v.concept].machine /\ (v.concept = w.concept => v = w)
  BY <1>1, <1>6, <1>7, Zenon
<1>. QED
  BY <1>1, <1>5, <1>8, AddOrderKeeps, Zenon

\* A direct order rests on no quote.
LEMMA CreateDirectOrderKeeps ==
  ASSUME QuotesInv, NEW c \in Customers, NEW type \in {"PERSONA", "EMPRESA"},
         NEW platform \in BOOLEAN, NEW items \in ItemLists,
         CreateDirectOrder(c, type, platform, items)
  PROVE  QuotesInv'
<1>. DEFINE works == {DirectWork(items[i], i) : i \in DOMAIN items}
            row == [quote |-> NoQuote, customer |-> c,
                    origin |-> IF platform THEN "PLATAFORMA" ELSE Origin(type),
                    works |-> works]
<1>1. works \in SUBSET Work
  BY DirectWorkType
<1>. HIDE DEF works
<1>2. row \in Order
  BY <1>1 DEF Order, Origin
<1>3. AddOrder(row)
  BY DEF CreateDirectOrder, works
<1>. QED
  BY <1>2, <1>3, AddOrderKeeps

LEMMA NextKeepsQuotes == QuotesInv /\ [Next]_vars => QuotesInv'
<1>. SUFFICES ASSUME QuotesInv, [Next]_vars PROVE QuotesInv'
  OBVIOUS
<1>1. CASE \E c \in Customers, lines \in Lines : CreateQuote(c, lines, Sum(lines))
  BY <1>1, CreateQuoteKeeps
<1>2. CASE \E q \in QuoteIds, s, t \in Statuses : MoveQuote(q, s, t)
  BY <1>2, MoveQuoteKeeps
<1>3. CASE \E q \in QuoteIds, type \in {"PERSONA", "EMPRESA"}, types \in [1..MaxLines -> Types] :
             CreateOrder(q, type, types)
  BY <1>3, CreateOrderKeeps
<1>4. CASE \E c \in Customers, type \in {"PERSONA", "EMPRESA"}, platform \in BOOLEAN,
              items \in ItemLists : CreateDirectOrder(c, type, platform, items)
  BY <1>4, CreateDirectOrderKeeps
<1>5. CASE \/ \E c \in Customers, row \in CustomerRow : UpdateCustomer(c, row)
           \/ \E m \in Machines, row \in MachineRow : UpdateMachine(m, row)
           \/ UNCHANGED vars
  <2>. USE DEF QuotesInv
  <2>1. UNCHANGED <<quote, order>>
    BY <1>5 DEF UpdateCustomer, UpdateMachine, vars
  <2>2. customer' \in [Customers -> CustomerRow]
    BY <1>5 DEF UpdateCustomer, UpdateMachine, vars, TypeOK
  <2>3. machine' \in [Machines -> MachineRow]
    BY <1>5 DEF UpdateCustomer, UpdateMachine, vars, TypeOK
  <2>4. TypeOK'
    BY <2>1, <2>2, <2>3 DEF TypeOK
  <2>5. OrderedIsAccepted'
    BY <2>1 DEF OrderedIsAccepted, Ordered
  <2>6. WorksAreConcepts'
    BY <2>1 DEF WorksAreConcepts
  <2>. QED
    BY <2>4, <2>5, <2>6
<1>. QED
  BY <1>1, <1>2, <1>3, <1>4, <1>5 DEF Next

\* The invariant of quotes and orders holds in every reachable state.
THEOREM QuotesIsInvariant == Spec => []QuotesInv
  BY InitQuotesInv, NextKeepsQuotes, PTL DEF Spec

\* Every reachable row is in its domain.
THEOREM QuotesTypeCorrect == Spec => []TypeOK
<1>1. QuotesInv => TypeOK
  BY DEF QuotesInv
<1>. QED
  BY <1>1, QuotesIsInvariant, PTL

\* An order made from a quote stands on an accepted quote.
THEOREM OrdersStandOnAccepted == Spec => []OrderedIsAccepted
<1>1. QuotesInv => OrderedIsAccepted
  BY DEF QuotesInv
<1>. QED
  BY <1>1, QuotesIsInvariant, PTL

\* The works of the one order of a quote are its concepts.
THEOREM ConceptsBecomeWorks == Spec => []WorksAreConcepts
<1>1. QuotesInv => WorksAreConcepts
  BY DEF QuotesInv
<1>. QED
  BY <1>1, QuotesIsInvariant, PTL

\* What a step may do to a quote.
LEMMA StepFollowsTable ==
  ASSUME TypeOK, [Next]_vars, NEW q \in QuoteIds, quote[q] # NoQuote, quote'[q] # quote[q]
  PROVE  \E t \in Statuses :
            /\ \/ quote[q].status = "BORRADOR" /\ t \in {"ENVIADA", "CANCELADA"}
               \/ quote[q].status = "ENVIADA"
                  /\ t \in {"ACEPTADA", "RECHAZADA", "VENCIDA", "CANCELADA"}
            /\ quote'[q] = [quote[q] EXCEPT !.status = t]
<1>1. quote' # quote
  OBVIOUS
<1>2. ASSUME NEW c, NEW lines, NEW total, CreateQuote(c, lines, total)
      PROVE  quote'[q] = quote[q]
  BY <1>2 DEF CreateQuote, TypeOK
<1>3. PICK p \in QuoteIds, s \in Statuses, t \in Statuses : MoveQuote(p, s, t)
  BY <1>1, <1>2 DEF Next, vars, CreateOrder, CreateDirectOrder, AddOrder, UpdateCustomer,
                    UpdateMachine
<1>4. p = q
  BY <1>3 DEF MoveQuote, TypeOK
<1>5. quote[q].status = s /\ quote'[q] = [quote[q] EXCEPT !.status = t] /\ Allowed(s, t)
  BY <1>3, <1>4 DEF MoveQuote, TypeOK
<1>6. \/ s = "BORRADOR" /\ t \in {"ENVIADA", "CANCELADA"}
      \/ s = "ENVIADA" /\ t \in {"ACEPTADA", "RECHAZADA", "VENCIDA", "CANCELADA"}
  BY <1>5 DEF Allowed, Targets
<1>. QED
  BY <1>5, <1>6

\* Quotes follow the table of states and nothing else of them changes.
THEOREM QuotesFollowTable == Spec => Lifecycle
<1>1. TypeOK /\ [Next]_vars =>
        [\A q \in QuoteIds : quote[q] # NoQuote =>
           \/ quote'[q] = quote[q]
           \/ \E t \in Statuses :
                /\ \/ quote[q].status = "BORRADOR" /\ t \in {"ENVIADA", "CANCELADA"}
                   \/ quote[q].status = "ENVIADA"
                      /\ t \in {"ACEPTADA", "RECHAZADA", "VENCIDA", "CANCELADA"}
                /\ quote'[q] = [quote[q] EXCEPT !.status = t]]_vars
  BY StepFollowsTable
<1>. QED
  BY <1>1, QuotesTypeCorrect, PTL DEF Spec, Lifecycle

-----------------------------------------------------------------------------
(***************************************************************************)
(* The sum of the prices of a quote.                                       *)
(***************************************************************************)

\* Numbers have a least one: what stands in for induction below.
LEMMA Least ==
  ASSUME NEW T \in SUBSET Nat, T # {}
  PROVE  \E x \in T : \A y \in T : x <= y
<1> DEFINE R == OpToRel(<, Nat)
<1>1. IsWellFoundedOn(R, Nat)
  BY NatLessThanWellFounded
<1>2. \A i, j \in Nat : i < j => <<i, j>> \in R
  BY DEF OpToRel
<1>. HIDE DEF R
<1>3. PICK x \in T : \A y \in T : ~ (<<y, x>> \in R)
  BY <1>1, WFMin
<1>4. \A y \in T : y \in Nat /\ x \in Nat /\ ~(y < x)
  BY <1>2, <1>3
<1>. QED
  BY <1>4

\* f[n] is the sum of the first n prices.
AddsUp(f, lines, k) ==
  f = [n \in 0..k |-> IF n = 0 THEN 0 ELSE f[n - 1] + lines[n].price]

LEMMA SumsExist ==
  ASSUME NEW lines \in Seq(Line)
  PROVE  \A k \in 0..Len(lines) : \E f \in [0..k -> Nat] : AddsUp(f, lines, k)
<1>. DEFINE Some(k) == \E f \in [0..k -> Nat] : AddsUp(f, lines, k)
            T == {k \in 0..Len(lines) : ~Some(k)}
<1>. SUFFICES ASSUME T # {}
              PROVE  FALSE
  OBVIOUS
<1>1. Len(lines) \in Nat /\ T \in SUBSET Nat
  OBVIOUS
<1>2. PICK k \in T : \A j \in T : k <= j
  <2>. HIDE DEF T
  <2>. QED
    BY <1>1, Least
<1>3. k \in 0..Len(lines) /\ ~Some(k)
  OBVIOUS
<1>4. k # 0
  <2>1. AddsUp([n \in 0..0 |-> 0], lines, 0) /\ [n \in 0..0 |-> 0] \in [0..0 -> Nat]
    BY DEF AddsUp
  <2>. QED
    BY <1>3, <2>1
<1>5. k - 1 \in 0..Len(lines) /\ Some(k - 1)
  <2>. HIDE DEF Some
  <2>. QED
    BY <1>1, <1>2, <1>3, <1>4
<1>6. PICK f \in [0..(k-1) -> Nat] : AddsUp(f, lines, k - 1)
  BY <1>5
<1>7. lines[k].price \in Nat /\ k \in Nat
  <2>. HIDE DEF Some
  <2>1. k \in 1..Len(lines)
    BY <1>1, <1>3, <1>4
  <2>2. lines[k] \in Line
    BY <2>1
  <2>. QED
    BY <1>1, <2>1, <2>2, QuotesAssumption DEF Line, QuotesAssumption
<1>. DEFINE g == [n \in 0..k |-> IF n = k THEN f[k - 1] + lines[k].price ELSE f[n]]
<1>8. g \in [0..k -> Nat]
  BY <1>4, <1>7
<1>9. AddsUp(g, lines, k)
  <2>1. \A n \in 0..k : g[n] = IF n = 0 THEN 0 ELSE g[n - 1] + lines[n].price
    <3>. TAKE n \in 0..k
    <3>1. CASE n = k
      BY <3>1, <1>4, <1>7
    <3>2. CASE n # k
      <4>1. n \in 0..(k-1) /\ g[n] = f[n]
        BY <3>2, <1>7
      <4>2. f[n] = IF n = 0 THEN 0 ELSE f[n - 1] + lines[n].price
        BY <1>6, <4>1 DEF AddsUp
      <4>3. n # 0 => g[n - 1] = f[n - 1]
        BY <4>1, <1>7
      <4>. QED
        BY <4>1, <4>2, <4>3
    <3>. QED
      BY <3>1, <3>2
  <2>2. g = [n \in 0..k |-> g[n]]
    OBVIOUS
  <2>. HIDE DEF g
  <2>. QED
    BY <2>1, <2>2 DEF AddsUp
<1>. QED
  BY <1>3, <1>8, <1>9

LEMMA SumsAgree ==
  ASSUME NEW k \in Nat, NEW lines, NEW f, NEW g, AddsUp(f, lines, k), AddsUp(g, lines, k)
  PROVE  f = g
<1>. DEFINE T == {n \in 0..k : f[n] # g[n]}
<1>1. T = {}
  <2>. SUFFICES ASSUME T # {}
                PROVE  FALSE
    OBVIOUS
  <2>1. T \in SUBSET Nat
    OBVIOUS
  <2>2. PICK n \in T : \A j \in T : n <= j
    <3>. HIDE DEF T
    <3>. QED
      BY <2>1, Least
  <2>3. /\ f[n] = IF n = 0 THEN 0 ELSE f[n - 1] + lines[n].price
        /\ g[n] = IF n = 0 THEN 0 ELSE g[n - 1] + lines[n].price
    BY DEF AddsUp
  <2>4. n # 0 => n - 1 \in 0..k /\ n - 1 \notin T
    BY <2>1, <2>2
  <2>. QED
    BY <2>3, <2>4
<1>2. f = [n \in 0..k |-> f[n]] /\ g = [n \in 0..k |-> g[n]]
  BY DEF AddsUp
<1>. QED
  BY <1>1, <1>2

LEMMA SumIsLast ==
  ASSUME NEW lines \in Seq(Line)
  PROVE  \E f \in [0..Len(lines) -> Nat] :
           AddsUp(f, lines, Len(lines)) /\ Sum(lines) = f[Len(lines)]
<1>. DEFINE k == Len(lines)
            f == CHOOSE h : h = [n \in 0..k |-> IF n = 0 THEN 0 ELSE h[n - 1] + lines[n].price]
<1>1. PICK g \in [0..k -> Nat] : AddsUp(g, lines, k)
  BY SumsExist
<1>2. AddsUp(f, lines, k)
  BY <1>1 DEF AddsUp
<1>3. Sum(lines) = f[k]
  BY DEF Sum
<1>. HIDE DEF f
<1>4. f = g
  BY <1>1, <1>2, SumsAgree
<1>. QED
  BY <1>1, <1>3, <1>4

\* A concept more adds its price.
LEMMA SumAppend ==
  ASSUME NEW lines \in Seq(Line), NEW line \in Line
  PROVE  Sum(Append(lines, line)) = Sum(lines) + line.price /\ Sum(lines) \in Nat
<1>. DEFINE more == Append(lines, line)
            k == Len(lines)
<1>1. /\ more \in Seq(Line) /\ Len(more) = k + 1 /\ k \in Nat
      /\ more[k + 1] = line /\ \A n \in 1..k : lines[n] = more[n]
  OBVIOUS
<1>. HIDE DEF more
<1>2. PICK f \in [0..k -> Nat] : AddsUp(f, lines, k) /\ Sum(lines) = f[k]
  BY SumIsLast
<1>3. PICK g \in [0..Len(more) -> Nat] : AddsUp(g, more, Len(more)) /\ Sum(more) = g[Len(more)]
  BY <1>1, SumIsLast
<1>4. f[k] = g[k]
  <2>. DEFINE h == [n \in 0..k |-> g[n]]
  <2>1. \A n \in 0..k : h[n] = IF n = 0 THEN 0 ELSE h[n - 1] + lines[n].price
    <3>. TAKE n \in 0..k
    <3>1. n \in 0..Len(more) /\ n \in Nat
      BY <1>1
    <3>2. g[n] = IF n = 0 THEN 0 ELSE g[n - 1] + more[n].price
      BY <1>3, <3>1 DEF AddsUp
    <3>3. n # 0 => n - 1 \in 0..k /\ n \in 1..k /\ more[n] = lines[n]
      BY <1>1, <3>1
    <3>. QED
      BY <3>1, <3>2, <3>3
  <2>2. h = [n \in 0..k |-> h[n]]
    OBVIOUS
  <2>3. h[k] = g[k]
    BY <1>1
  <2>. HIDE DEF h
  <2>4. AddsUp(h, lines, k)
    BY <2>1, <2>2 DEF AddsUp
  <2>5. h = f
    BY <1>1, <1>2, <2>4, SumsAgree
  <2>. QED
    BY <2>3, <2>5
<1>5. g[k + 1] = g[k] + more[k + 1].price
  BY <1>1, <1>3 DEF AddsUp
<1>. QED
  BY <1>1, <1>2, <1>3, <1>4, <1>5 DEF more

LEMMA SumOfNone == Sum(<<>>) = 0
<1>1. <<>> \in Seq(Line) /\ Len(<<>>) = 0
  OBVIOUS
<1>2. PICK f \in [0..0 -> Nat] : AddsUp(f, <<>>, 0) /\ Sum(<<>>) = f[0]
  BY <1>1, SumIsLast
<1>. QED
  BY <1>2 DEF AddsUp

\* The total stored with a quote is the sum of its concepts.
LEMMA NextKeepsTotals ==
  ASSUME TypeOK, TotalsAddUp, [Next]_vars
  PROVE  TotalsAddUp'
<1>1. ASSUME NEW q \in QuoteIds, quote'[q] # NoQuote
      PROVE  quote'[q].total = Sum(quote'[q].lines)
  <2>1. CASE quote'[q] = quote[q]
    BY <1>1, <2>1 DEF TotalsAddUp
  <2>2. CASE quote'[q] # quote[q] /\ quote[q] # NoQuote
    <3>1. PICK t \in Statuses : quote'[q] = [quote[q] EXCEPT !.status = t]
      BY <2>2, StepFollowsTable
    <3>2. quote[q] \in Quote
      BY <2>2 DEF TypeOK
    <3>3. quote'[q].total = quote[q].total /\ quote'[q].lines = quote[q].lines
      BY <3>1, <3>2 DEF Quote
    <3>. QED
      BY <2>2, <3>3 DEF TotalsAddUp
  <2>3. CASE quote'[q] # quote[q] /\ quote[q] = NoQuote
    <3>1. quote' # quote
      BY <2>3
    <3>2. ASSUME NEW p \in QuoteIds, NEW s, NEW t, MoveQuote(p, s, t)
          PROVE  FALSE
      BY <2>3, <3>2 DEF MoveQuote, TypeOK
    <3>3. PICK c \in Customers, lines \in Lines : CreateQuote(c, lines, Sum(lines))
      BY <3>1, <3>2 DEF Next, vars, CreateOrder, CreateDirectOrder, AddOrder, UpdateCustomer,
                        UpdateMachine
    <3>4. quote'[q] = [status |-> "BORRADOR", customer |-> c, lines |-> lines, total |-> Sum(lines)]
      BY <2>3, <3>3 DEF CreateQuote, TypeOK
    <3>. QED
      BY <3>4
  <2>. QED
    BY <2>1, <2>2, <2>3
<1>. QED
  BY <1>1 DEF TotalsAddUp

\* The total of a quote is the sum of its concepts, now and later.
THEOREM TotalsAreSums == Spec => []TotalsAddUp
<1>1. Init => TotalsAddUp
  BY DEF Init, TotalsAddUp
<1>2. TypeOK /\ TotalsAddUp /\ [Next]_vars => TotalsAddUp'
  BY NextKeepsTotals
<1>. QED
  BY <1>1, <1>2, QuotesTypeCorrect, PTL DEF Spec

-----------------------------------------------------------------------------
(***************************************************************************)
(* The requests, statement by statement.                                   *)
(***************************************************************************)
Reading == [status : Statuses, type : {"PERSONA", "EMPRESA"}, lines : Seq(Line), total : Nat,
            checked : Nat, works : SUBSET Work]

Statements ==
  {"idle", "readCustomer", "calculate", "insertQuote", "references", "insertDirect",
   "readStatus", "updateStatus", "readQuote", "lockQuote", "insertOrder", "insertWorks",
   "commitOrder"}
Holding == {"insertOrder", "insertWorks", "commitOrder"}

TxTypes ==
  /\ pc \in [Slots -> Statements]
  /\ req \in [Slots -> Request \cup {NoRequest}]
  /\ read \in [Slots -> Reading]
  /\ \A r \in Slots : IF pc[r] = "idle" THEN read[r] = Nothing ELSE req[r] \in Request

\* The states of a quote come in this order: what has been read stays true or
\* is past for good.
Rank(status) == IF status = "BORRADOR" THEN 0 ELSE IF status = "ENVIADA" THEN 1 ELSE 2
Past(status, q) == Rank(status) < Rank(quote[q].status)

\* What a request knows at each statement.
QuoteKnows(r) ==
  LET n == Len(read[r].lines) IN
  /\ pc[r] \in {"readCustomer", "calculate", "insertQuote"}
  /\ read[r].total = Sum(read[r].lines)
  /\ pc[r] = "insertQuote" => n = Len(req[r].machines)
  /\ pc[r] # "insertQuote" => n < Len(req[r].machines)

StatusKnows(r) ==
  LET q == req[r].quote IN
  /\ pc[r] \in {"readStatus", "updateStatus"}
  /\ pc[r] = "updateStatus" =>
       /\ quote[q] # NoQuote
       /\ Allowed(read[r].status, req[r].target)
       /\ quote[q].status = read[r].status \/ Past(read[r].status, q)

OrderKnows(r) ==
  LET q == req[r].quote IN
  /\ pc[r] \in {"readQuote", "lockQuote"} \cup Holding
  /\ pc[r] # "readQuote" => quote[q] # NoQuote
  /\ pc[r] = "lockQuote" => quote[q].status = read[r].status \/ Past(read[r].status, q)
  /\ pc[r] \in Holding => quote[q].status = "ACEPTADA"
  /\ pc[r] \in {"insertWorks", "commitOrder"} => ~Ordered(q)
  /\ pc[r] = "commitOrder" =>
       \E types \in [1..MaxLines -> Types] : read[r].works = WorksOf(quote[q].lines, types)

Knows(r) ==
  pc[r] # "idle" =>
    /\ req[r].op = "quote" => QuoteKnows(r)
    /\ req[r].op = "status" => StatusKnows(r)
    /\ req[r].op = "order" => OrderKnows(r)
    /\ req[r].op = "direct" => pc[r] \in {"readCustomer", "references", "insertDirect"}

Alone == \A r, s \in Slots, q \in QuoteIds : HoldsQuote(r, q) /\ HoldsQuote(s, q) => r = s

\* What was answered, and why it stays true.
AnswersHold ==
  \A a \in answers :
    /\ a.quote \in QuoteIds
    /\ a.outcome = "conflict" /\ a.op = "order" => Ordered(a.quote)
    /\ \/ a.outcome = "conflict" /\ a.op # "order"
       \/ a.outcome = "not found" /\ a.exists
       => quote[a.quote] # NoQuote /\ Past(a.status, a.quote)
    /\ a.outcome = "not found" /\ a.exists => a.op = "order"

TxInv ==
  /\ QuotesInv
  /\ TotalsAddUp
  /\ TxTypes
  /\ Alone
  /\ AnswersHold
  /\ \A r \in Slots : Knows(r)

\* The fields a request of each kind has.
LEMMA Fields ==
  ASSUME TxTypes, NEW r \in Slots, pc[r] # "idle"
  PROVE  /\ req[r].op \in {"quote", "status", "order", "direct"}
         /\ req[r].op = "quote" => /\ req[r].customer \in Customers
                                   /\ \E n \in 1..MaxLines : req[r].machines \in [1..n -> Machines]
         /\ req[r].op = "status" => req[r].quote \in QuoteIds /\ req[r].target \in Statuses
         /\ req[r].op = "order" => req[r].quote \in QuoteIds
         /\ req[r].op = "direct" => /\ req[r].customer \in Customers /\ req[r].platform \in BOOLEAN
                                    /\ req[r].items \in ItemLists
<1>1. req[r] \in Request
  BY DEF TxTypes
<1>2. CASE req[r] \in [op : {"quote"}, customer : Customers,
                       machines : UNION {[1..n -> Machines] : n \in 1..MaxLines}]
  BY <1>2
<1>3. CASE req[r] \in [op : {"status"}, quote : QuoteIds, target : Statuses]
  BY <1>3
<1>4. CASE req[r] \in [op : {"order"}, quote : QuoteIds]
  BY <1>4
<1>5. CASE req[r] \in [op : {"direct"}, customer : Customers, platform : BOOLEAN, items : ItemLists]
  BY <1>5
<1>. QED
  BY <1>1, <1>2, <1>3, <1>4, <1>5 DEF Request

\* The kind of request at each statement.
LEMMA OpAt ==
  ASSUME TxInv, NEW r \in Slots
  PROVE  /\ pc[r] \in {"calculate", "insertQuote"} => req[r].op = "quote" /\ QuoteKnows(r)
         /\ pc[r] = "readCustomer" => \/ req[r].op = "quote" /\ QuoteKnows(r)
                                      \/ req[r].op = "direct"
         /\ pc[r] \in {"references", "insertDirect"} => req[r].op = "direct"
         /\ pc[r] \in {"readStatus", "updateStatus"} => req[r].op = "status" /\ StatusKnows(r)
         /\ pc[r] \in {"readQuote", "lockQuote"} \cup Holding => req[r].op = "order" /\ OrderKnows(r)
<1>1. Knows(r)
  BY DEF TxInv
<1>2. pc[r] # "idle" => req[r].op \in {"quote", "status", "order", "direct"}
  BY Fields DEF TxInv
<1>. QED
  BY <1>1, <1>2 DEF Knows, QuoteKnows, StatusKnows, OrderKnows, Holding

-----------------------------------------------------------------------------
(***************************************************************************)
(* What lasts while others make steps of Quotes.                           *)
(***************************************************************************)
Grows ==
  /\ \A q \in QuoteIds : quote[q] # NoQuote =>
       /\ quote'[q] # NoQuote /\ quote'[q].lines = quote[q].lines
       /\ quote'[q].status = quote[q].status \/ Rank(quote[q].status) < Rank(quote'[q].status)
  /\ \A q : Ordered(q) => Ordered(q)'

LEMMA StepGrows ==
  ASSUME QuotesInv, [Next]_vars
  PROVE  Grows
<1>1. TypeOK /\ TypeOK'
  BY NextKeepsQuotes DEF QuotesInv
<1>2. ASSUME NEW q \in QuoteIds, quote[q] # NoQuote
      PROVE  /\ quote'[q] # NoQuote /\ quote'[q].lines = quote[q].lines
             /\ quote'[q].status = quote[q].status \/ Rank(quote[q].status) < Rank(quote'[q].status)
  <2>1. CASE quote'[q] = quote[q]
    BY <1>2, <2>1
  <2>2. CASE quote'[q] # quote[q]
    <3>1. PICK t \in Statuses :
            /\ \/ quote[q].status = "BORRADOR" /\ t \in {"ENVIADA", "CANCELADA"}
               \/ quote[q].status = "ENVIADA"
                  /\ t \in {"ACEPTADA", "RECHAZADA", "VENCIDA", "CANCELADA"}
            /\ quote'[q] = [quote[q] EXCEPT !.status = t]
      BY <1>1, <1>2, <2>2, StepFollowsTable
    <3>2. quote[q] \in Quote
      BY <1>1, <1>2 DEF TypeOK
    <3>3. quote'[q] \in Quote /\ quote'[q].lines = quote[q].lines /\ quote'[q].status = t
      BY <3>1, <3>2 DEF Quote
    <3>4. Rank(quote[q].status) < Rank(t)
      BY <3>1 DEF Rank
    <3>. QED
      BY <3>3, <3>4, NoQuoteAssumption DEF NoQuoteAssumption
  <2>. QED
    BY <2>1, <2>2
<1>3. \A o \in OrderIds : order[o] # NoOrder => order'[o] = order[o]
  <2>1. CASE order' = order
    BY <2>1
  <2>2. CASE order' # order
    <3>1. PICK row : AddOrder(row)
      BY <2>2 DEF Next, vars, CreateQuote, MoveQuote, CreateOrder, CreateDirectOrder,
                  UpdateCustomer, UpdateMachine
    <3>. QED
      BY <1>1, <3>1 DEF AddOrder, TypeOK
  <2>. QED
    BY <2>1, <2>2
<1>4. \A q : Ordered(q) => Ordered(q)'
  BY <1>3 DEF Ordered
<1>. QED
  BY <1>2, <1>4 DEF Grows

\* What the others find as they left it: the quotes they hold.
HeldStays(r) ==
  \A s \in Slots \ {r}, q \in QuoteIds : HoldsQuote(s, q) =>
    quote'[q] = quote[q] /\ (~Ordered(q) => ~Ordered(q)')

\* Only slot r moves.
Moves(r) ==
  \A s \in Slots \ {r} : pc'[s] = pc[s] /\ req'[s] = req[s] /\ read'[s] = read[s]

LEMMA PastStays ==
  ASSUME Grows, TypeOK, NEW q \in QuoteIds, quote[q] # NoQuote, NEW s
  PROVE  /\ quote'[q] # NoQuote
         /\ Past(s, q) => Past(s, q)'
         /\ quote[q].status = s \/ Past(s, q) => quote'[q].status = s \/ Past(s, q)'
<1>1. \A t : Rank(t) \in 0..2
  BY DEF Rank
<1>2. /\ quote'[q] # NoQuote
      /\ quote'[q].status = quote[q].status \/ Rank(quote[q].status) < Rank(quote'[q].status)
  BY DEF Grows
<1>. QED
  BY <1>1, <1>2 DEF Past

LEMMA OthersKnow ==
  ASSUME TxInv, Grows, NEW r, Moves(r), HeldStays(r), NEW s \in Slots \ {r}
  PROVE  Knows(s)'
<1>1. pc'[s] = pc[s] /\ req'[s] = req[s] /\ read'[s] = read[s] /\ Knows(s)
  BY DEF Moves, TxInv
<1>. SUFFICES ASSUME pc[s] # "idle"
              PROVE  Knows(s)'
  BY <1>1 DEF Knows
<1>. DEFINE q == req[s].quote
<1>2. CASE req[s].op = "quote"
  BY <1>1, <1>2 DEF Knows, QuoteKnows
<1>3. CASE req[s].op = "direct"
  BY <1>1, <1>3 DEF Knows
<1>4. CASE req[s].op = "status"
  <2>1. StatusKnows(s) /\ q \in QuoteIds
    BY <1>1, <1>4, Fields DEF Knows, TxInv
  <2>2. pc[s] = "updateStatus" =>
          /\ quote'[q] # NoQuote
          /\ \/ quote'[q].status = read[s].status
             \/ Rank(read[s].status) < Rank(quote'[q].status)
    BY <2>1, PastStays DEF StatusKnows, TxInv, QuotesInv, Past
  <2>3. StatusKnows(s)'
    BY <1>1, <2>1, <2>2 DEF StatusKnows, Past
  <2>. QED
    BY <1>1, <1>4, <2>3 DEF Knows
<1>5. CASE req[s].op = "order"
  <2>1. OrderKnows(s) /\ q \in QuoteIds
    BY <1>1, <1>5, Fields DEF Knows, TxInv
  <2>2. pc[s] # "readQuote" =>
          /\ quote'[q] # NoQuote
          /\ pc[s] = "lockQuote" => \/ quote'[q].status = read[s].status
                                    \/ Rank(read[s].status) < Rank(quote'[q].status)
    BY <2>1, PastStays DEF OrderKnows, TxInv, QuotesInv, Past
  <2>5. PICK p \in QuoteIds : p = q
    BY <2>1
  <2>3. pc[s] \in Holding => quote'[p] = quote[p] /\ (~Ordered(p) => ~Ordered(p)')
    BY <2>5 DEF HeldStays, HoldsQuote, Holding
  <2>4. OrderKnows(s)'
    <3>1. /\ pc[s] \in {"readQuote", "lockQuote"} \cup Holding
          /\ pc[s] # "readQuote" => quote'[q] # NoQuote
          /\ pc[s] = "lockQuote" => \/ quote'[q].status = read[s].status
                                    \/ Rank(read[s].status) < Rank(quote'[q].status)
          /\ pc[s] \in Holding => quote'[q].status = "ACEPTADA"
      BY <2>5, <2>1, <2>2, <2>3 DEF OrderKnows
    <3>2. pc[s] \in {"insertWorks", "commitOrder"} => ~Ordered(p)'
      BY <2>5, <2>1, <2>3 DEF OrderKnows, Holding
    <3>3. pc[s] = "commitOrder" =>
            \E types \in [1..MaxLines -> Types] : read[s].works = WorksOf(quote'[q].lines, types)
      BY <2>5, <2>1, <2>3 DEF OrderKnows, Holding
    <3>. QED
      BY <1>1, <2>5, <3>1, <3>2, <3>3 DEF OrderKnows, Past, Ordered
  <2>. QED
    BY <1>1, <1>5, <2>4 DEF Knows
<1>. QED
  BY <1>2, <1>3, <1>4, <1>5, Fields DEF TxInv

LEMMA AnswersStay ==
  ASSUME TxInv, Grows, NEW a \in answers
  PROVE  /\ a.quote \in QuoteIds
         /\ a.outcome = "conflict" /\ a.op = "order" => Ordered(a.quote)'
         /\ \/ a.outcome = "conflict" /\ a.op # "order"
            \/ a.outcome = "not found" /\ a.exists
            => quote'[a.quote] # NoQuote /\ Past(a.status, a.quote)'
         /\ a.outcome = "not found" /\ a.exists => a.op = "order"
<1>1. TypeOK
  BY DEF TxInv, QuotesInv
<1>. QED
  BY <1>1, PastStays DEF AnswersHold, TxInv, Grows

-----------------------------------------------------------------------------
(***************************************************************************)
(* How a slot may move.                                                    *)
(***************************************************************************)
LEMMA NothingRead == Nothing \in Reading
<1>1. <<>> \in Seq(Line) /\ {} \in SUBSET Work
  OBVIOUS
<1>2. "BORRADOR" \in Statuses
  BY DEF Statuses, Targets
<1>. QED
  BY <1>1, <1>2 DEF Nothing, Reading

LEMMA AnswersAlone ==
  ASSUME TxInv, Grows, answers' = answers
  PROVE  AnswersHold'
<1>1. \A a \in answers : /\ a.quote \in QuoteIds
                         /\ a.outcome = "conflict" /\ a.op = "order" => Ordered(a.quote)'
                         /\ \/ a.outcome = "conflict" /\ a.op # "order"
                            \/ a.outcome = "not found" /\ a.exists
                            => quote'[a.quote] # NoQuote /\ Past(a.status, a.quote)'
                         /\ a.outcome = "not found" /\ a.exists => a.op = "order"
  BY AnswersStay
<1>. QED
  BY <1>1 DEF AnswersHold, Past, Ordered

LEMMA UnchangedGrows == TxInv /\ UNCHANGED vars => Grows
  BY StepGrows DEF TxInv

\* A slot that ends, after whatever step of Quotes it made.
LEMMA EndKeeps ==
  ASSUME TxInv, [Next]_vars, NEW r \in Slots, End(r), HeldStays(r), AnswersHold'
  PROVE  TxInv'
<1>1. Grows
  BY StepGrows DEF TxInv
<1>2. Moves(r)
  BY DEF End, Moves, TxInv, TxTypes
<1>3. pc'[r] = "idle" /\ read'[r] = Nothing
  BY DEF End, TxInv, TxTypes
<1>4. TxTypes'
  BY <1>3, NothingRead DEF End, TxInv, TxTypes, Statements
<1>5. Alone'
  BY <1>2, <1>3 DEF Moves, Alone, HoldsQuote, TxInv
<1>6. \A s \in Slots : Knows(s)'
  BY <1>1, <1>2, <1>3, OthersKnow DEF Knows
<1>7. QuotesInv' /\ TotalsAddUp'
  BY NextKeepsQuotes, NextKeepsTotals DEF TxInv, QuotesInv
<1>. QED
  BY <1>4, <1>5, <1>6, <1>7 DEF TxInv

LEMMA RefuseKeeps ==
  ASSUME TxInv, NEW r \in Slots, Refuse(r)
  PROVE  TxInv'
<1>1. UNCHANGED vars /\ End(r) /\ answers' = answers
  BY DEF Refuse
<1>2. HeldStays(r)
  BY <1>1 DEF HeldStays, Ordered, vars
<1>3. AnswersHold'
  BY <1>1, UnchangedGrows, AnswersAlone
<1>. QED
  BY <1>1, <1>2, <1>3, EndKeeps

\* A slot that answers says what stays true.
LEMMA AnswerKeeps ==
  ASSUME TxInv, NEW r \in Slots, NEW outcome, Answer(r, outcome),
         req[r].quote \in QuoteIds,
         outcome = "conflict" /\ req[r].op = "order" => Ordered(req[r].quote),
         \/ outcome = "conflict" /\ req[r].op # "order"
         \/ outcome = "not found" /\ quote[req[r].quote] # NoQuote
         => quote[req[r].quote] # NoQuote /\ Past(read[r].status, req[r].quote),
         outcome = "not found" /\ quote[req[r].quote] # NoQuote => req[r].op = "order"
  PROVE  TxInv'
<1>1. UNCHANGED vars /\ End(r)
  BY DEF Answer
<1>2. HeldStays(r)
  BY <1>1 DEF HeldStays, Ordered, vars
<1>3. AnswersHold'
  <2>. DEFINE new == [outcome |-> outcome, op |-> req[r].op, quote |-> req[r].quote,
                      status |-> read[r].status, exists |-> quote[req[r].quote] # NoQuote]
  <2>1. answers' = answers \cup {new}
    BY DEF Answer
  <2>2. quote' = quote /\ order' = order
    BY <1>1 DEF vars
  <2>3. \A a \in answers \cup {new} :
          /\ a.quote \in QuoteIds
          /\ a.outcome = "conflict" /\ a.op = "order" => Ordered(a.quote)
          /\ \/ a.outcome = "conflict" /\ a.op # "order"
             \/ a.outcome = "not found" /\ a.exists
             => quote[a.quote] # NoQuote /\ Past(a.status, a.quote)
          /\ a.outcome = "not found" /\ a.exists => a.op = "order"
    <3>. DEFINE found == quote[req[r].quote] # NoQuote
    <3>1. /\ new.outcome = outcome /\ new.op = req[r].op /\ new.quote = req[r].quote
          /\ new.status = read[r].status /\ new.exists = found
      OBVIOUS
    <3>2. new.exists <=> quote[new.quote] # NoQuote
      BY <3>1
    <3>. HIDE DEF new, found
    <3>3. /\ new.quote \in QuoteIds
          /\ new.outcome = "conflict" /\ new.op = "order" => Ordered(new.quote)
          /\ \/ new.outcome = "conflict" /\ new.op # "order"
             \/ new.outcome = "not found" /\ new.exists
             => quote[new.quote] # NoQuote /\ Past(new.status, new.quote)
          /\ new.outcome = "not found" /\ new.exists => new.op = "order"
      BY <3>1, <3>2
    <3>. QED
      BY <3>3 DEF TxInv, AnswersHold
  <2>. HIDE DEF new
  <2>. QED
    BY <2>1, <2>2, <2>3 DEF AnswersHold, Past, Ordered
<1>. QED
  BY <1>1, <1>2, <1>3, EndKeeps

\* A slot that goes on to its next statement.
LEMMA GotoKeeps ==
  ASSUME TxInv, NEW r \in Slots, NEW next \in Statements \ {"idle"}, NEW found \in Reading,
         pc[r] # "idle", Goto(r, next, found), Knows(r)',
         next \in Holding => pc[r] \in Holding \/ ~Locked(r)
  PROVE  TxInv'
<1>1. UNCHANGED vars /\ answers' = answers /\ req' = req
  BY DEF Goto
<1>2. Grows
  BY <1>1, UnchangedGrows
<1>3. Moves(r) /\ pc'[r] = next /\ read'[r] = found
  BY <1>1 DEF Goto, Moves, TxInv, TxTypes
<1>4. HeldStays(r)
  BY <1>1 DEF HeldStays, Ordered, vars
<1>5. TxTypes'
  BY <1>1, <1>3 DEF Goto, TxInv, TxTypes
<1>6. Alone'
  <2>1. ASSUME NEW s \in Slots, NEW q \in QuoteIds, HoldsQuote(r, q)', HoldsQuote(s, q)', s # r
        PROVE  FALSE
    <3>1. next \in Holding /\ req[r].quote = q /\ HoldsQuote(s, q)
      BY <1>1, <1>3, <2>1 DEF HoldsQuote, Moves, Holding
    <3>2. CASE pc[r] \in Holding
      BY <2>1, <3>1, <3>2 DEF HoldsQuote, Holding, TxInv, Alone
    <3>3. CASE ~Locked(r)
      BY <2>1, <3>1, <3>3 DEF Locked
    <3>. QED
      BY <3>1, <3>2, <3>3
  <2>. QED
    BY <1>3, <2>1 DEF Moves, Alone, HoldsQuote, TxInv
<1>7. \A s \in Slots : Knows(s)'
  BY <1>2, <1>3, <1>4, OthersKnow
<1>8. QuotesInv' /\ TotalsAddUp'
  BY <1>1, NextKeepsQuotes, NextKeepsTotals DEF TxInv, QuotesInv
<1>. QED
  BY <1>1, <1>2, <1>5, <1>6, <1>7, <1>8, AnswersAlone DEF TxInv

LEMMA BeginKeeps ==
  ASSUME TxInv, NEW r \in Slots, NEW q \in Request, Begin(r, q)
  PROVE  TxInv'
<1>1. /\ UNCHANGED vars /\ answers' = answers /\ read' = read
      /\ pc[r] = "idle" /\ read[r] = Nothing
  BY DEF Begin, TxInv, TxTypes
<1>2. Grows
  BY <1>1, UnchangedGrows
<1>3. Moves(r) /\ pc'[r] = First(q.op) /\ req'[r] = q
  BY <1>1 DEF Begin, Moves, TxInv, TxTypes
<1>4. HeldStays(r)
  BY <1>1 DEF HeldStays, Ordered, vars
<1>5. q.op \in {"quote", "status", "order", "direct"}
  BY DEF Request
<1>6. /\ First(q.op) \in Statements \ ({"idle"} \cup Holding)
      /\ q.op \in {"quote", "direct"} => First(q.op) = "readCustomer"
      /\ q.op = "status" => First(q.op) = "readStatus"
      /\ q.op = "order" => First(q.op) = "readQuote"
  BY <1>5 DEF First, Statements, Holding
<1>7. TxTypes'
  BY <1>1, <1>3, <1>6 DEF Begin, TxInv, TxTypes
<1>8. Alone'
  BY <1>3, <1>6 DEF Moves, Alone, HoldsQuote, Holding, TxInv
<1>9. Knows(r)'
  <2>1. CASE q.op = "quote"
    <3>1. PICK n \in 1..MaxLines : q.machines \in [1..n -> Machines]
      BY <2>1, QuotesAssumption DEF Request
    <3>2. Len(q.machines) = n /\ n > 0
      BY <3>1, QuotesAssumption DEF QuotesAssumption
    <3>3. Nothing.total = Sum(Nothing.lines) /\ Len(Nothing.lines) = 0
      BY SumOfNone DEF Nothing
    <3>. QED
      BY <1>1, <1>3, <1>6, <2>1, <3>2, <3>3 DEF Knows, QuoteKnows
  <2>2. CASE q.op # "quote"
    BY <1>3, <1>5, <1>6, <2>2 DEF Knows, StatusKnows, OrderKnows, Holding
  <2>. QED
    BY <2>1, <2>2
<1>10. \A s \in Slots : Knows(s)'
  BY <1>2, <1>3, <1>4, <1>9, OthersKnow
<1>11. QuotesInv' /\ TotalsAddUp'
  BY <1>1, NextKeepsQuotes, NextKeepsTotals DEF TxInv, QuotesInv
<1>. QED
  BY <1>1, <1>2, <1>7, <1>8, <1>10, <1>11, AnswersAlone DEF TxInv

-----------------------------------------------------------------------------
(***************************************************************************)
(* Each statement is a step of Quotes or none, and keeps the invariant.    *)
(***************************************************************************)
LEMMA HeldIsAccepted ==
  ASSUME TxInv, NEW r \in Slots, NEW q \in QuoteIds, HoldsQuote(r, q)
  PROVE  /\ quote[q] # NoQuote /\ quote[q].status = "ACEPTADA"
         /\ pc[r] # "insertOrder" => ~Ordered(q)
BY OpAt DEF HoldsQuote, OrderKnows, Holding

LEMMA OthersOrders ==
  ASSUME TypeOK, NEW row, AddOrder(row), NEW q, row.quote # q, ~Ordered(q)
  PROVE  ~Ordered(q)'
<1>1. PICK o \in OrderIds : order[o] = NoOrder /\ order' = [order EXCEPT ![o] = row]
  BY DEF AddOrder
<1>. QED
  BY <1>1 DEF Ordered, TypeOK

Kept == [Next]_vars /\ TxInv'

LEMMA SameKept == TxInv' /\ UNCHANGED vars => Kept
  BY DEF Kept

LEMMA ReadCustomerKept ==
  ASSUME TxInv, NEW r \in Slots, ReadCustomer(r)
  PROVE  Kept
<1>. DEFINE c == customer[req[r].customer]
            next == IF req[r].op = "quote" THEN "calculate" ELSE "references"
            found == [read[r] EXCEPT !.type = c.type]
<1>1. /\ pc[r] = "readCustomer" /\ read[r] \in Reading
      /\ \/ req[r].op = "quote" /\ QuoteKnows(r)
         \/ req[r].op = "direct"
  BY OpAt DEF ReadCustomer, TxInv, TxTypes
<1>2. CASE Refuse(r)
  BY <1>2, RefuseKeeps, SameKept DEF Refuse
<1>3. CASE Goto(r, next, found)
  <2>1. c \in CustomerRow
    BY <1>1, Fields DEF TxInv, QuotesInv, TypeOK
  <2>2. found \in Reading /\ found.lines = read[r].lines /\ found.total = read[r].total
    BY <1>1, <2>1 DEF Reading, CustomerRow
  <2>3. pc'[r] = next /\ read'[r] = found /\ req' = req
    BY <1>3 DEF Goto, TxInv, TxTypes
  <2>4. Knows(r)'
    BY <1>1, <2>2, <2>3 DEF Knows, QuoteKnows
  <2>5. next \in Statements \ {"idle"} /\ next \notin Holding
    BY DEF Statements, Holding
  <2>. HIDE DEF next, found
  <2>6. TxInv'
    BY <1>1, <1>3, <2>2, <2>4, <2>5, GotoKeeps
  <2>. QED
    BY <1>3, <2>6, SameKept DEF Goto
<1>. QED
  BY <1>2, <1>3 DEF ReadCustomer

LEMMA CalculateKept ==
  ASSUME TxInv, NEW r \in Slots, Calculate(r)
  PROVE  Kept
<1>. DEFINE i == Len(read[r].lines) + 1
            m == req[r].machines[i]
            next == IF i = Len(req[r].machines) THEN "insertQuote" ELSE "calculate"
            line == [machine |-> m, price |-> machine[m].rate]
            found == [read[r] EXCEPT !.lines = Append(@, line), !.total = @ + machine[m].rate]
<1>1. /\ pc[r] = "calculate" /\ read[r] \in Reading
      /\ req[r].op = "quote" /\ QuoteKnows(r)
  BY OpAt DEF Calculate, TxInv, TxTypes
<1>2. CASE Refuse(r)
  BY <1>2, RefuseKeeps, SameKept DEF Refuse
<1>3. CASE Goto(r, next, found)
  <2>1. PICK n \in 1..MaxLines : req[r].machines \in [1..n -> Machines]
    BY <1>1, Fields DEF TxInv
  <2>2. n \in Nat /\ Len(req[r].machines) = n
    BY <2>1, QuotesAssumption DEF QuotesAssumption
  <2>3. Len(read[r].lines) \in Nat /\ Len(read[r].lines) < n
    BY <1>1, <2>2 DEF QuoteKnows, Reading
  <2>4. m \in Machines /\ machine[m].rate \in Rates /\ line \in Line
    BY <2>1, <2>2, <2>3 DEF TxInv, QuotesInv, TypeOK, MachineRow, Line
  <2>5. line.price = machine[m].rate /\ machine[m].rate \in Nat
    BY <2>4, QuotesAssumption DEF QuotesAssumption
  <2>6. read[r].lines \in Seq(Line) /\ read[r].total \in Nat /\ read[r].total = Sum(read[r].lines)
    BY <1>1 DEF Reading, QuoteKnows
  <2>7. Sum(Append(read[r].lines, line)) = Sum(read[r].lines) + line.price
    BY <2>4, <2>6, SumAppend
  <2>. HIDE DEF line, m
  <2>8. /\ found \in Reading
        /\ found.lines = Append(read[r].lines, line)
        /\ found.total = read[r].total + machine[m].rate
    <3>. DEFINE more == Append(read[r].lines, line)
                total == read[r].total + machine[m].rate
    <3>1. more \in Seq(Line) /\ total \in Nat
      BY <2>4, <2>5, <2>6
    <3>2. found = [read[r] EXCEPT !.lines = more, !.total = total]
      BY <1>1 DEF Reading
    <3>. HIDE DEF more, total, found
    <3>3. found \in Reading /\ found.lines = more /\ found.total = total
      BY <1>1, <3>1, <3>2 DEF Reading
    <3>. QED
      BY <3>3 DEF more, total
  <2>9. Len(found.lines) = i /\ found.total = Sum(found.lines)
    BY <2>4, <2>5, <2>6, <2>7, <2>8
  <2>10. pc'[r] = next /\ read'[r] = found /\ req' = req
    BY <1>3 DEF Goto, TxInv, TxTypes
  <2>11. Knows(r)'
    BY <1>1, <2>2, <2>3, <2>9, <2>10 DEF Knows, QuoteKnows
  <2>12. next \in Statements \ {"idle"} /\ next \notin Holding
    BY DEF Statements, Holding
  <2>. HIDE DEF next, found
  <2>13. TxInv'
    BY <1>1, <1>3, <2>8, <2>11, <2>12, GotoKeeps
  <2>. QED
    BY <1>3, <2>13, SameKept DEF Goto
<1>. QED
  BY <1>2, <1>3 DEF Calculate

LEMMA InsertQuoteKept ==
  ASSUME TxInv, NEW r \in Slots, InsertQuote(r)
  PROVE  Kept
<1>1. /\ pc[r] = "insertQuote" /\ read[r] \in Reading
      /\ req[r].op = "quote" /\ QuoteKnows(r)
  BY OpAt DEF InsertQuote, TxInv, TxTypes
<1>2. CASE Refuse(r)
  BY <1>2, RefuseKeeps, SameKept DEF Refuse
<1>3. CASE CreateQuote(req[r].customer, read[r].lines, read[r].total) /\ End(r) /\ answers' = answers
  <2>1. PICK n \in 1..MaxLines : req[r].machines \in [1..n -> Machines]
    BY <1>1, Fields DEF TxInv
  <2>2. n \in Nat /\ Len(req[r].machines) = n
    BY <2>1, QuotesAssumption DEF QuotesAssumption
  <2>3. read[r].lines \in Seq(Line) /\ Len(read[r].lines) = n
    BY <1>1, <2>2 DEF Reading, QuoteKnows
  <2>4. read[r].lines \in Lines
    BY <2>3 DEF Lines
  <2>5. req[r].customer \in Customers /\ read[r].total = Sum(read[r].lines)
    BY <1>1, Fields DEF TxInv, QuoteKnows
  <2>6. [Next]_vars
    BY <1>3, <2>4, <2>5 DEF Next
  <2>7. HeldStays(r)
    BY <1>3, HeldIsAccepted DEF CreateQuote, HeldStays, Ordered, TxInv, QuotesInv, TypeOK
  <2>8. AnswersHold'
    BY <1>3, <2>6, StepGrows, AnswersAlone DEF TxInv
  <2>. QED
    BY <1>3, <2>6, <2>7, <2>8, EndKeeps DEF Kept
<1>. QED
  BY <1>2, <1>3 DEF InsertQuote

LEMMA ReferencesKept ==
  ASSUME TxInv, NEW r \in Slots, References(r)
  PROVE  Kept
<1>. DEFINE i == read[r].checked + 1
            next == IF i = Len(req[r].items) THEN "insertDirect" ELSE "references"
            found == [read[r] EXCEPT !.checked = i]
<1>1. pc[r] = "references" /\ read[r] \in Reading /\ req[r].op = "direct"
  BY OpAt DEF References, TxInv, TxTypes
<1>2. CASE Refuse(r)
  BY <1>2, RefuseKeeps, SameKept DEF Refuse
<1>3. CASE Goto(r, next, found)
  <2>1. found \in Reading
    BY <1>1 DEF Reading
  <2>2. pc'[r] = next /\ req' = req
    BY <1>3 DEF Goto, TxInv, TxTypes
  <2>3. Knows(r)'
    BY <1>1, <2>2 DEF Knows
  <2>4. next \in Statements \ {"idle"} /\ next \notin Holding
    BY DEF Statements, Holding
  <2>. HIDE DEF next, found
  <2>5. TxInv'
    BY <1>1, <1>3, <2>1, <2>3, <2>4, GotoKeeps
  <2>. QED
    BY <1>3, <2>5, SameKept DEF Goto
<1>. QED
  BY <1>2, <1>3 DEF References

LEMMA InsertDirectKept ==
  ASSUME TxInv, NEW r \in Slots, InsertDirect(r)
  PROVE  Kept
<1>1. /\ pc[r] = "insertDirect" /\ read[r] \in Reading /\ req[r].op = "direct"
      /\ CreateDirectOrder(req[r].customer, read[r].type, req[r].platform, req[r].items)
      /\ End(r) /\ answers' = answers
  BY OpAt DEF InsertDirect, TxInv, TxTypes
<1>2. /\ req[r].customer \in Customers /\ read[r].type \in {"PERSONA", "EMPRESA"}
      /\ req[r].platform \in BOOLEAN /\ req[r].items \in ItemLists
  BY <1>1, Fields DEF TxInv, Reading
<1>3. [Next]_vars
  BY <1>1, <1>2 DEF Next
<1>4. HeldStays(r)
  <2>1. PICK row : AddOrder(row) /\ row.quote = NoQuote
    BY <1>1 DEF CreateDirectOrder
  <2>2. quote' = quote
    BY <2>1 DEF AddOrder
  <2>3. \A q \in QuoteIds : ~Ordered(q) => ~Ordered(q)'
    BY <2>1, OthersOrders, QuotesAssumption DEF QuotesAssumption, TxInv, QuotesInv
  <2>. QED
    BY <2>2, <2>3 DEF HeldStays
<1>5. AnswersHold'
  BY <1>1, <1>3, StepGrows, AnswersAlone DEF TxInv
<1>. QED
  BY <1>1, <1>3, <1>4, <1>5, EndKeeps DEF Kept

LEMMA ReadStatusKept ==
  ASSUME TxInv, NEW r \in Slots, ReadStatus(r)
  PROVE  Kept
<1>. DEFINE q == req[r].quote
            found == [read[r] EXCEPT !.status = quote[q].status]
<1>1. /\ pc[r] = "readStatus" /\ read[r] \in Reading /\ req[r].op = "status"
      /\ q \in QuoteIds /\ req[r].target \in Statuses
  BY OpAt, Fields DEF ReadStatus, TxInv, TxTypes
<1>2. CASE quote[q] = NoQuote /\ Answer(r, "not found")
  <2>1. TxInv'
    BY <1>1, <1>2, AnswerKeeps
  <2>. QED
    BY <1>2, <2>1, SameKept DEF Answer
<1>3. CASE Refuse(r)
  BY <1>3, RefuseKeeps, SameKept DEF Refuse
<1>4. CASE /\ quote[q] # NoQuote /\ Allowed(quote[q].status, req[r].target)
           /\ Goto(r, "updateStatus", found)
  <2>1. quote[q].status \in Statuses
    BY <1>1, <1>4 DEF TxInv, QuotesInv, TypeOK, Quote
  <2>2. found \in Reading /\ found.status = quote[q].status
    BY <1>1, <2>1 DEF Reading
  <2>3. pc'[r] = "updateStatus" /\ read'[r] = found /\ req' = req /\ quote' = quote
    BY <1>4 DEF Goto, TxInv, TxTypes, vars
  <2>4. Knows(r)'
    BY <1>1, <1>4, <2>2, <2>3 DEF Knows, StatusKnows
  <2>5. "updateStatus" \in Statements \ {"idle"} /\ "updateStatus" \notin Holding
    BY DEF Statements, Holding
  <2>. HIDE DEF found
  <2>6. TxInv'
    BY <1>1, <1>4, <2>2, <2>4, <2>5, GotoKeeps
  <2>. QED
    BY <1>4, <2>6, SameKept DEF Goto
<1>. QED
  BY <1>2, <1>3, <1>4 DEF ReadStatus

LEMMA UpdateStatusKept ==
  ASSUME TxInv, NEW r \in Slots, UpdateStatus(r)
  PROVE  Kept
<1>. DEFINE q == req[r].quote
<1>1. /\ pc[r] = "updateStatus" /\ read[r] \in Reading /\ req[r].op = "status"
      /\ q \in QuoteIds /\ req[r].target \in Statuses /\ StatusKnows(r) /\ ~Locked(r)
  BY OpAt, Fields DEF UpdateStatus, TxInv, TxTypes
<1>2. CASE quote[q].status # read[r].status /\ Answer(r, "conflict")
  <2>1. quote[q] # NoQuote /\ Past(read[r].status, q)
    BY <1>1, <1>2 DEF StatusKnows
  <2>2. TxInv'
    BY <1>1, <1>2, <2>1, AnswerKeeps
  <2>. QED
    BY <1>2, <2>2, SameKept DEF Answer
<1>3. CASE MoveQuote(q, read[r].status, req[r].target) /\ End(r) /\ answers' = answers
  <2>1. read[r].status \in Statuses
    BY <1>1 DEF Reading
  <2>2. [Next]_vars
    BY <1>1, <1>3, <2>1 DEF Next
  <2>3. HeldStays(r)
    BY <1>1, <1>3 DEF MoveQuote, HeldStays, Locked, Ordered, TxInv, QuotesInv, TypeOK
  <2>4. AnswersHold'
    BY <1>3, <2>2, StepGrows, AnswersAlone DEF TxInv
  <2>. QED
    BY <1>3, <2>2, <2>3, <2>4, EndKeeps DEF Kept
<1>. QED
  BY <1>2, <1>3 DEF UpdateStatus

LEMMA ReadQuoteKept ==
  ASSUME TxInv, NEW r \in Slots, ReadQuote(r)
  PROVE  Kept
<1>. DEFINE q == req[r].quote
            found == [read[r] EXCEPT !.status = quote[q].status,
                                     !.type = customer[quote[q].customer].type]
<1>1. pc[r] = "readQuote" /\ read[r] \in Reading /\ req[r].op = "order" /\ q \in QuoteIds
  BY OpAt, Fields DEF ReadQuote, TxInv, TxTypes, Holding
<1>2. CASE quote[q] = NoQuote /\ Answer(r, "not found")
  <2>1. TxInv'
    BY <1>1, <1>2, AnswerKeeps
  <2>. QED
    BY <1>2, <2>1, SameKept DEF Answer
<1>3. CASE quote[q] # NoQuote /\ Goto(r, "lockQuote", found)
  <2>1. quote[q].status \in Statuses /\ quote[q].customer \in Customers
    BY <1>1, <1>3 DEF TxInv, QuotesInv, TypeOK, Quote
  <2>2. customer[quote[q].customer] \in CustomerRow
    BY <2>1 DEF TxInv, QuotesInv, TypeOK
  <2>3. found \in Reading /\ found.status = quote[q].status
    BY <1>1, <2>1, <2>2 DEF Reading, CustomerRow
  <2>4. pc'[r] = "lockQuote" /\ read'[r] = found /\ req' = req /\ quote' = quote
    BY <1>3 DEF Goto, TxInv, TxTypes, vars
  <2>5. Knows(r)'
    BY <1>1, <1>3, <2>3, <2>4 DEF Knows, OrderKnows, Holding
  <2>6. "lockQuote" \in Statements \ {"idle"} /\ "lockQuote" \notin Holding
    BY DEF Statements, Holding
  <2>. HIDE DEF found
  <2>7. TxInv'
    BY <1>1, <1>3, <2>3, <2>5, <2>6, GotoKeeps
  <2>. QED
    BY <1>3, <2>7, SameKept DEF Goto
<1>. QED
  BY <1>2, <1>3 DEF ReadQuote

LEMMA LockQuoteKept ==
  ASSUME TxInv, NEW r \in Slots, LockQuote(r)
  PROVE  Kept
<1>. DEFINE q == req[r].quote
<1>1. /\ pc[r] = "lockQuote" /\ read[r] \in Reading /\ req[r].op = "order" /\ q \in QuoteIds
      /\ OrderKnows(r) /\ ~Locked(r)
  BY OpAt, Fields DEF LockQuote, TxInv, TxTypes, Holding
<1>2. CASE quote[q].status # read[r].status /\ Answer(r, "not found")
  <2>1. quote[q] # NoQuote /\ Past(read[r].status, q)
    BY <1>1, <1>2 DEF OrderKnows
  <2>2. TxInv'
    BY <1>1, <1>2, <2>1, AnswerKeeps
  <2>. QED
    BY <1>2, <2>2, SameKept DEF Answer
<1>3. CASE Refuse(r)
  BY <1>3, RefuseKeeps, SameKept DEF Refuse
<1>4. CASE /\ quote[q].status = read[r].status /\ read[r].status = "ACEPTADA"
           /\ Goto(r, "insertOrder", read[r])
  <2>1. pc'[r] = "insertOrder" /\ read' = read /\ req' = req /\ quote' = quote
    BY <1>4 DEF Goto, TxInv, TxTypes, vars
  <2>2. Knows(r)'
    BY <1>1, <1>4, <2>1 DEF Knows, OrderKnows, Holding
  <2>3. "insertOrder" \in Statements \ {"idle"}
    BY DEF Statements
  <2>4. TxInv'
    BY <1>1, <1>4, <2>2, <2>3, GotoKeeps
  <2>. QED
    BY <1>4, <2>4, SameKept DEF Goto
<1>. QED
  BY <1>2, <1>3, <1>4 DEF LockQuote

LEMMA InsertOrderKept ==
  ASSUME TxInv, NEW r \in Slots, InsertOrder(r)
  PROVE  Kept
<1>. DEFINE q == req[r].quote
<1>1. /\ pc[r] = "insertOrder" /\ pc[r] \in Holding /\ read[r] \in Reading
      /\ req[r].op = "order" /\ q \in QuoteIds /\ OrderKnows(r)
  BY OpAt, Fields DEF InsertOrder, TxInv, TxTypes, Holding
<1>2. CASE Ordered(q) /\ Answer(r, "conflict")
  <2>1. TxInv'
    BY <1>1, <1>2, AnswerKeeps
  <2>. QED
    BY <1>2, <2>1, SameKept DEF Answer
<1>3. CASE ~Ordered(q) /\ Goto(r, "insertWorks", read[r])
  <2>1. pc'[r] = "insertWorks" /\ read' = read /\ req' = req /\ quote' = quote /\ order' = order
    BY <1>3 DEF Goto, TxInv, TxTypes, vars
  <2>2. Knows(r)'
    BY <1>1, <1>3, <2>1 DEF Knows, OrderKnows, Holding, Ordered
  <2>3. "insertWorks" \in Statements \ {"idle"}
    BY DEF Statements
  <2>4. TxInv'
    BY <1>1, <1>3, <2>2, <2>3, GotoKeeps
  <2>. QED
    BY <1>3, <2>4, SameKept DEF Goto
<1>. QED
  BY <1>2, <1>3 DEF InsertOrder

LEMMA InsertWorksKept ==
  ASSUME TxInv, NEW r \in Slots, InsertWorks(r)
  PROVE  Kept
<1>. DEFINE q == req[r].quote
            lines == quote[q].lines
            now == [i \in DOMAIN lines |-> machine[lines[i].machine].type]
            found == [read[r] EXCEPT !.works = WorksOf(lines, now)]
<1>1. /\ pc[r] = "insertWorks" /\ pc[r] \in Holding /\ read[r] \in Reading
      /\ req[r].op = "order" /\ q \in QuoteIds /\ OrderKnows(r)
  BY OpAt, Fields DEF InsertWorks, TxInv, TxTypes, Holding
<1>2. CASE Refuse(r)
  BY <1>2, RefuseKeeps, SameKept DEF Refuse
<1>3. CASE Goto(r, "commitOrder", found)
  <2>1. lines \in Lines
    BY <1>1 DEF OrderKnows, Holding, TxInv, QuotesInv, TypeOK, Quote
  <2>2. PICK n \in 1..MaxLines : lines \in [1..n -> Line]
    BY <2>1 DEF Lines
  <2>3. n \in Nat /\ 1 \in 1..n /\ 1..n \subseteq 1..MaxLines
    BY QuotesAssumption DEF QuotesAssumption
  <2>4. \A i \in 1..n : machine[lines[i].machine].type \in Types
    BY <2>2 DEF Line, TxInv, QuotesInv, TypeOK, MachineRow
  <2>. DEFINE types == [i \in 1..MaxLines |-> IF i \in 1..n THEN now[i] ELSE now[1]]
  <2>5. types \in [1..MaxLines -> Types] /\ \A i \in DOMAIN lines : types[i] = now[i]
    BY <2>2, <2>3, <2>4
  <2>6. WorksOf(lines, now) = WorksOf(lines, types)
    <3>. HIDE DEF types, now, lines
    <3>. QED
      BY <2>5 DEF WorksOf
  <2>7. WorksOf(lines, types) \subseteq Work
    <3>. HIDE DEF types, lines
    <3>. QED
      BY <2>1, <2>5, WorksOfType
  <2>8. found \in Reading /\ found.works = WorksOf(lines, types)
    <3>. HIDE DEF types, now, lines
    <3>. QED
      BY <1>1, <2>6, <2>7 DEF Reading
  <2>9. pc'[r] = "commitOrder" /\ read'[r] = found /\ req' = req /\ quote' = quote /\ order' = order
    BY <1>3 DEF Goto, TxInv, TxTypes, vars
  <2>. HIDE DEF found, types, now
  <2>10. OrderKnows(r)'
    <3>1. /\ quote[q] # NoQuote /\ quote[q].status = "ACEPTADA" /\ ~Ordered(q)
          /\ read'[r].works = WorksOf(quote[q].lines, types)
      BY <1>1, <2>8, <2>9 DEF OrderKnows
    <3>. QED
      BY <2>5, <2>9, <3>1 DEF OrderKnows, Holding, Ordered
  <2>11. Knows(r)'
    BY <1>1, <2>9, <2>10 DEF Knows
  <2>12. "commitOrder" \in Statements \ {"idle"}
    BY DEF Statements
  <2>13. TxInv'
    BY <1>1, <1>3, <2>8, <2>11, <2>12, GotoKeeps
  <2>. QED
    BY <1>3, <2>13, SameKept DEF Goto
<1>. QED
  BY <1>2, <1>3 DEF InsertWorks

LEMMA CommitOrderKept ==
  ASSUME TxInv, NEW r \in Slots, CommitOrder(r)
  PROVE  Kept
<1>1. PICK q \in QuoteIds : q = req[r].quote /\ HoldsQuote(r, q)
  BY OpAt, Fields DEF CommitOrder, TxInv, TxTypes, Holding, HoldsQuote
<1>2. /\ pc[r] = "commitOrder" /\ read[r] \in Reading /\ req[r].op = "order" /\ OrderKnows(r)
      /\ End(r) /\ answers' = answers
  BY OpAt DEF CommitOrder, TxInv, TxTypes, Holding
<1>. DEFINE row == [quote |-> q, customer |-> quote[q].customer,
                    origin |-> Origin(read[r].type), works |-> read[r].works]
<1>3. AddOrder(row)
  BY <1>1 DEF CommitOrder
<1>4. /\ quote[q] # NoQuote /\ quote[q].status = "ACEPTADA" /\ ~Ordered(q)
      /\ read[r].type \in {"PERSONA", "EMPRESA"}
  BY <1>1, <1>2 DEF OrderKnows, Holding, Reading
<1>5. PICK types \in [1..MaxLines -> Types] : read[r].works = WorksOf(quote[q].lines, types)
  BY <1>1, <1>2 DEF OrderKnows
<1>6. [Next]_vars
  <2>1. CreateOrder(q, read[r].type, types)
    BY <1>3, <1>4, <1>5 DEF CreateOrder
  <2>. QED
    BY <1>4, <2>1 DEF Next
<1>7. HeldStays(r)
  <2>1. row.quote = q
    OBVIOUS
  <2>. HIDE DEF row
  <2>2. quote' = quote
    BY <1>3 DEF AddOrder
  <2>3. ASSUME NEW s \in Slots \ {r}, NEW p \in QuoteIds, HoldsQuote(s, p)
        PROVE  p # q
    BY <1>1, <2>3 DEF TxInv, Alone
  <2>4. \A p \in QuoteIds : p # q /\ ~Ordered(p) => ~Ordered(p)'
    BY <1>3, <2>1, OthersOrders DEF TxInv, QuotesInv
  <2>. QED
    BY <2>2, <2>3, <2>4 DEF HeldStays
<1>8. AnswersHold'
  BY <1>2, <1>6, StepGrows, AnswersAlone DEF TxInv
<1>. QED
  BY <1>2, <1>6, <1>7, <1>8, EndKeeps DEF Kept

LEMMA ElsewhereKept == TxInv /\ Elsewhere => Kept
<1>. SUFFICES ASSUME TxInv, Elsewhere
              PROVE  Kept
  OBVIOUS
<1>1. [Next]_vars
  BY DEF Elsewhere, Next
<1>2. quote' = quote /\ order' = order /\ UNCHANGED <<pc, req, read, answers>>
  BY DEF Elsewhere, UpdateCustomer, UpdateMachine
<1>3. QuotesInv' /\ TotalsAddUp'
  BY <1>1, NextKeepsQuotes, NextKeepsTotals DEF TxInv, QuotesInv
<1>4. TxTypes' /\ Alone' /\ AnswersHold'
  BY <1>2 DEF TxInv, TxTypes, Alone, AnswersHold, HoldsQuote, Past, Ordered
<1>5. \A r \in Slots : Knows(r)'
  BY <1>2 DEF TxInv, Knows, QuoteKnows, StatusKnows, OrderKnows, Past, Ordered
<1>. QED
  BY <1>1, <1>3, <1>4, <1>5 DEF TxInv, Kept

LEMMA TxStepKept ==
  ASSUME TxInv, TxNext
  PROVE  Kept
<1>1. CASE Elsewhere
  BY <1>1, ElsewhereKept
<1>2. ASSUME NEW r \in Slots, Step(r)
      PROVE  Kept
  BY <1>2, ReadCustomerKept, CalculateKept, InsertQuoteKept, ReferencesKept, InsertDirectKept,
     ReadStatusKept, UpdateStatusKept, ReadQuoteKept, LockQuoteKept, InsertOrderKept,
     InsertWorksKept, CommitOrderKept DEF Step
<1>3. ASSUME NEW r \in Slots, Cancel(r)
      PROVE  Kept
  BY <1>3, RefuseKeeps, SameKept DEF Cancel, Refuse
<1>4. ASSUME NEW r \in Slots, NEW q \in Request, Begin(r, q)
      PROVE  Kept
  BY <1>4, BeginKeeps, SameKept DEF Begin
<1>. QED
  BY <1>1, <1>2, <1>3, <1>4 DEF TxNext

LEMMA InitTxInv == TxInit => TxInv
<1>. SUFFICES ASSUME TxInit
              PROVE  TxInv
  OBVIOUS
<1>1. QuotesInv /\ TotalsAddUp
  BY InitQuotesInv DEF TxInit, Init, TotalsAddUp
<1>2. \A r \in Slots : pc[r] = "idle" /\ req[r] = NoRequest /\ read[r] = Nothing
  BY DEF TxInit
<1>3. TxTypes
  BY <1>2, NothingRead DEF TxInit, TxTypes, Statements
<1>4. Alone /\ AnswersHold /\ \A r \in Slots : Knows(r)
  BY <1>2 DEF TxInit, Alone, HoldsQuote, AnswersHold, Knows
<1>. QED
  BY <1>1, <1>3, <1>4 DEF TxInv

LEMMA StutterKeeps == TxInv /\ UNCHANGED allVars => TxInv'
<1>. SUFFICES ASSUME TxInv, UNCHANGED allVars
              PROVE  TxInv'
  OBVIOUS
<1>1. quote' = quote /\ order' = order /\ UNCHANGED <<pc, req, read, answers>> /\ [Next]_vars
  BY DEF allVars, vars
<1>2. QuotesInv' /\ TotalsAddUp'
  BY <1>1, NextKeepsQuotes, NextKeepsTotals DEF TxInv, QuotesInv
<1>3. TxTypes' /\ Alone' /\ AnswersHold'
  BY <1>1 DEF TxInv, TxTypes, Alone, AnswersHold, HoldsQuote, Past, Ordered
<1>4. \A r \in Slots : Knows(r)'
  BY <1>1 DEF TxInv, Knows, QuoteKnows, StatusKnows, OrderKnows, Past, Ordered
<1>. QED
  BY <1>2, <1>3, <1>4 DEF TxInv

\* What the requests have read stays true, or is past for good, until they
\* write, in every interleaving of their statements.
THEOREM RequestsKeepInv == TxSpec => []TxInv
<1>1. TxInv /\ [TxNext]_allVars => TxInv'
  BY TxStepKept, StutterKeeps DEF Kept
<1>. QED
  BY <1>1, InitTxInv, PTL DEF TxSpec

\* The requests, statement by statement, implement the atomic operations.
THEOREM RequestsImplementQuotes == TxSpec => ImplementsQuotes
<1>1. TxInv /\ [TxNext]_allVars => [Next]_vars
  BY TxStepKept DEF Kept, allVars, vars
<1>2. TxInit => Init
  BY DEF TxInit
<1>. QED
  BY <1>1, <1>2, RequestsKeepInv, PTL DEF TxSpec, ImplementsQuotes, Spec

\* A conflict that was answered stays a conflict, and a 404 of a quote that
\* exists is only of a conversion whose quote moved on.
THEOREM RefusalsStayTrue == TxSpec => []RefusalsAreTrue
<1>1. ASSUME TxInv
      PROVE  RefusalsAreTrue
  <2>1. \A status, q : Past(status, q) => quote[q].status # status
    <3>1. \A s : Rank(s) \in 0..2
      BY DEF Rank
    <3>. QED
      BY <3>1 DEF Past
  <2>. QED
    BY <1>1, <2>1 DEF TxInv, AnswersHold, RefusalsAreTrue
<1>. QED
  BY <1>1, RequestsKeepInv, PTL

\* A conversion that holds its quote is alone with it.
THEOREM ConversionsAreAlone == TxSpec => []ConversionIsAlone
<1>1. ASSUME TxInv
      PROVE  ConversionIsAlone
  BY <1>1, HeldIsAccepted DEF TxInv, Alone, ConversionIsAlone
<1>. QED
  BY <1>1, RequestsKeepInv, PTL

\* What is proved of Quotes holds while the requests interleave: an order
\* stands on an accepted quote, its works are the concepts, and the total of a
\* quote is their sum.
THEOREM QuotesHoldUnderRequests ==
  TxSpec => [](OrderedIsAccepted /\ WorksAreConcepts /\ TotalsAddUp)
<1>1. TxInv => OrderedIsAccepted /\ WorksAreConcepts /\ TotalsAddUp
  BY DEF TxInv, QuotesInv
<1>. QED
  BY <1>1, RequestsKeepInv, PTL

=============================================================================
