-------------------------- MODULE Registry_proofs ---------------------------
(***************************************************************************)
(* What Registry promises, for any of its tables, columns and identifiers  *)
(* and any number of requests.  It all rests on rows never going away:     *)
(* what a request has found is still there when it writes.                 *)
(***************************************************************************)
EXTENDS Registry, TLAPS

\* What Overlay, and the body of a POST or a PUT, may leave to be written.
Drafted(t, row) ==
  /\ DOMAIN row = Named[t]
  /\ \A c \in Named[t] : row[c] \in Stored(KindOf(t, c)) \cup {Unstorable}

TableOK == DOMAIN table = Tables /\ \A t \in Tables : table[t] \in [Ids[t] -> Rows(t) \cup {NoRow}]

GoVariables == {"old", "new", "named", "known", "outcome"}

SlotsOK ==
  /\ DOMAIN pc = Slots /\ DOMAIN req = Slots /\ DOMAIN read = Slots
  /\ \A r \in Slots : /\ DOMAIN read[r] = GoVariables
                      /\ IF pc[r] = "idle" THEN read[r] = Nothing ELSE req[r] \in Request

\* The kinds of request that come to each statement.
OpsAt(s) ==
  CASE s \in {"clean", "insert"}   -> {"create"}
    [] s \in {"readRow", "update"} -> {"update"}
    [] s \in {"location", "type"}  -> {"create", "update"}
    [] s \in {"owner"}             -> {"put", "get"}
    [] s = "upsert"                -> {"put"}
    [] s = "readRate"              -> {"get"}
    [] OTHER                       -> {"create", "update", "put", "get"}

Writing == {"location", "type", "insert", "update", "upsert"}

\* What request q knows at statement p, with x in its variables.
KnowsAt(p, q, x) ==
  /\ q.op \in OpsAt(p)
  /\ x.known \subseteq Tables /\ \A t \in x.known : Exists(t, q.id)
  /\ p \in Writing => Drafted(q.table, x.new)
  /\ p \in {"location", "type"} => q.table = "maquinas"
  /\ p = "type" /\ "locacion_id" \in Named[q.table] => Exists("locaciones", x.new["locacion_id"])
  /\ p \in {"insert", "update", "upsert"} => Refers(q.table, x.new)
  /\ p \in Writing /\ q.op = "update" =>
       \A c \in Named[q.table] \ x.named : x.new[c] = x.old[c]
  /\ p \in {"upsert", "readRate"} => Exists(Owner(q.table), q.id)
  /\ p = "answer" /\ x.outcome = "missing" => Addressed(q.table) \notin x.known
  /\ p = "answer" /\ x.outcome = "null" =>
       q.op = "get" /\ q.table \notin x.known /\ Exists(Owner(q.table), q.id)

Knows(r) == pc[r] # "idle" => KnowsAt(pc[r], req[r], read[r])

RegistryInv == TableOK /\ SlotsOK /\ \A r \in Slots : Knows(r)

-----------------------------------------------------------------------------
(***************************************************************************)
(* Tables and columns.                                                     *)
(***************************************************************************)
LEMMA ReferenceColumns ==
  ASSUME NEW t \in DOMAIN Kind, NEW c \in DOMAIN Kind[t]
  PROVE  /\ KindOf(t, c) = "location" => t = "maquinas" /\ c = "locacion_id"
         /\ KindOf(t, c) = "type" => t = "maquinas" /\ c = "tipo_maquina_id"
<1>1. CASE t = "locaciones"
  BY <1>1 DEF KindOf, Kind, locaciones
<1>2. CASE t = "tipos_maquina"
  BY <1>2 DEF KindOf, Kind, tipos_maquina
<1>3. CASE t = "maquinas"
  BY <1>3 DEF KindOf, Kind, maquinas
<1>4. CASE t = "materiales"
  BY <1>4 DEF KindOf, Kind, materiales
<1>5. CASE t = "clientes"
  BY <1>5 DEF KindOf, Kind, clientes
<1>6. CASE t = "tarifas_maquina"
  BY <1>6 DEF KindOf, Kind, tarifas_maquina
<1>7. CASE t = "tarifas_energia"
  BY <1>7 DEF KindOf, Kind, tarifas_energia
<1>8. t \in {"locaciones", "tipos_maquina", "maquinas", "materiales", "clientes",
             "tarifas_maquina", "tarifas_energia"}
  BY DEF Kind
<1>. QED
  BY <1>1, <1>2, <1>3, <1>4, <1>5, <1>6, <1>7, <1>8

\* What a request is about.
LEMMA Fields ==
  ASSUME NEW q \in Request
  PROVE  /\ q.op \in {"create", "update", "put", "get"}
         /\ q.table \in Tables /\ Named[q.table] \subseteq DOMAIN Kind[q.table]
         /\ q.table \in DOMAIN Kind
         /\ q.op \in {"create", "update"} => q.table \in Plain
         /\ q.op \in {"put", "get"} => q.table \in Tables \cap Rates
         /\ q.op # "create" => q.id \in Ids[q.table]
<1>1. ASSUME q \in [op : {"create"}, table : Plain]
      PROVE  q.op = "create" /\ q.table \in Plain
  BY <1>1
<1>2. ASSUME NEW t \in Plain, q \in [op : {"update"}, table : {t}, id : Ids[t]]
      PROVE  q.op = "update" /\ q.table \in Plain /\ q.id \in Ids[q.table]
  BY <1>2
<1>3. ASSUME NEW t \in Tables \cap Rates, q \in [op : {"put", "get"}, table : {t}, id : Ids[t]]
      PROVE  q.op \in {"put", "get"} /\ q.table \in Tables \cap Rates /\ q.id \in Ids[q.table]
  BY <1>3
<1>4. \/ q \in [op : {"create"}, table : Plain]
      \/ \E t \in Plain : q \in [op : {"update"}, table : {t}, id : Ids[t]]
      \/ \E t \in Tables \cap Rates : q \in [op : {"put", "get"}, table : {t}, id : Ids[t]]
  BY DEF Request
<1>5. \/ q.op = "create" /\ q.table \in Plain
      \/ q.op = "update" /\ q.table \in Plain /\ q.id \in Ids[q.table]
      \/ q.op \in {"put", "get"} /\ q.table \in Tables \cap Rates /\ q.id \in Ids[q.table]
  <2>1. CASE q \in [op : {"create"}, table : Plain]
    BY <1>1, <2>1
  <2>2. CASE \E t \in Plain : q \in [op : {"update"}, table : {t}, id : Ids[t]]
    BY <1>2, <2>2
  <2>3. CASE \E t \in Tables \cap Rates : q \in [op : {"put", "get"}, table : {t}, id : Ids[t]]
    BY <1>3, <2>3
  <2>. QED
    BY <1>4, <2>1, <2>2, <2>3
<1>. QED
  BY <1>5, RegistryAssumption DEF RegistryAssumption, Plain

\* A draft of a table other than machines refers to nothing.
LEMMA RefersToNothing ==
  ASSUME NEW q \in Request, NEW row, Drafted(q.table, row), q.table # "maquinas"
  PROVE  Refers(q.table, row)
BY Fields, ReferenceColumns DEF Refers, Drafted

LEMMA DraftIsDrafted ==
  ASSUME NEW t, NEW row \in Drafts(t, Named[t]), Valid(row)
  PROVE  Drafted(t, row)
BY DEF Drafts, Drafted, Valid, Asked

\* What a PATCH leaves to be written.
LEMMA OverlayIsDrafted ==
  ASSUME NEW t \in Tables, NEW old \in Rows(t), NEW columns \in SUBSET Named[t],
         NEW values \in Drafts(t, columns), Valid(Overlay(old, values))
  PROVE  /\ Drafted(t, Overlay(old, values))
         /\ \A c \in Named[t] \ columns : Overlay(old, values)[c] = old[c]
<1>1. DOMAIN old = Named[t] /\ \A c \in Named[t] : old[c] \in Stored(KindOf(t, c))
  BY DEF Rows
<1>2. DOMAIN values = columns /\ \A c \in columns : values[c] \in Asked(KindOf(t, c))
  BY DEF Drafts
<1>. QED
  BY <1>1, <1>2 DEF Overlay, Drafted, Valid, Asked

-----------------------------------------------------------------------------
(***************************************************************************)
(* Rows stay, and a slot moves alone.                                      *)
(***************************************************************************)
Grows == \A t \in Tables : \A i : Exists(t, i) => Exists(t, i)'

Moves(r) ==
  /\ DOMAIN pc' = Slots /\ DOMAIN req' = Slots /\ DOMAIN read' = Slots
  /\ \A s \in Slots \ {r} : pc'[s] = pc[s] /\ req'[s] = req[s] /\ read'[s] = read[s]

\* A row is written in its table.
Stores(t, i) ==
  /\ t \in Tables /\ i \in Ids[t]
  /\ \E row \in Rows(t) : table' = [table EXCEPT ![t][i] = row]

LEMMA StoreGrows ==
  ASSUME TableOK, NEW t, NEW i, Stores(t, i)
  PROVE  /\ TableOK' /\ Grows /\ Exists(t, i)'
         /\ \A u \in Tables : \A j : u # t \/ j # i => (Exists(u, j)' <=> Exists(u, j))
<1>1. PICK row \in Rows(t) : table' = [table EXCEPT ![t][i] = row]
  BY DEF Stores
<1>2. t \in Tables /\ i \in Ids[t] /\ row # NoRow
  BY NoRowAssumption DEF Stores, NoRowAssumption
<1>3. table'[t][i] = row
  BY <1>1, <1>2 DEF TableOK
<1>4. \A u \in Tables : \A j \in Ids[u] : u # t \/ j # i => table'[u][j] = table[u][j]
  BY <1>1, <1>2 DEF TableOK
<1>5. TableOK'
  BY <1>1, <1>2 DEF TableOK
<1>6. \A u \in Tables : \A j : u # t \/ j # i => (Exists(u, j)' <=> Exists(u, j))
  BY <1>4 DEF Exists
<1>. QED
  BY <1>2, <1>3, <1>5, <1>6 DEF Exists, Grows

LEMMA RefersStays ==
  ASSUME NEW q \in Request, NEW row, Drafted(q.table, row), Refers(q.table, row), Grows
  PROVE  Refers(q.table, row)'
<1>1. q.table \in Tables /\ DOMAIN row \subseteq DOMAIN Kind[q.table] /\ q.table \in DOMAIN Kind
  BY Fields DEF Drafted
<1>2. CASE q.table = "maquinas"
  <2>1. {"locaciones", "tipos_maquina"} \subseteq Tables
    BY <1>1, <1>2, RegistryAssumption DEF RegistryAssumption
  <2>. QED
    BY <2>1 DEF Refers, Grows
<1>3. CASE q.table # "maquinas"
  BY <1>1, <1>3, ReferenceColumns DEF Refers
<1>. QED
  BY <1>2, <1>3

\* What a request knows stays true, whatever others write.
LEMMA KnowsStays ==
  ASSUME NEW p, NEW q \in Request, NEW x, KnowsAt(p, q, x), Grows
  PROVE  KnowsAt(p, q, x)'
<1>1. q.table \in Tables
  BY Fields
<1>2. p = "type" => "locaciones" \in Tables
  BY <1>1, RegistryAssumption DEF KnowsAt, RegistryAssumption
<1>3. p \in {"insert", "update", "upsert"} => Refers(q.table, x.new)'
  BY RefersStays DEF KnowsAt, Writing
<1>4. q.op \in {"put", "get"} => Owner(q.table) \in Tables
  BY Fields, RegistryAssumption DEF RegistryAssumption
<1>5. /\ p \in {"upsert", "readRate"} => Exists(Owner(q.table), q.id)'
      /\ p = "answer" /\ x.outcome = "null" => Exists(Owner(q.table), q.id)'
  BY <1>4 DEF KnowsAt, OpsAt, Grows
<1>6. \A t \in x.known : Exists(t, q.id)'
  BY DEF KnowsAt, Grows
<1>7. p = "type" /\ "locacion_id" \in Named[q.table] => Exists("locaciones", x.new["locacion_id"])'
  BY <1>2 DEF KnowsAt, Grows
<1>. QED
  BY <1>3, <1>5, <1>6, <1>7 DEF KnowsAt

\* A slot goes on with what it knows; the rows others look for stay.
LEMMA SlotGoesOn ==
  ASSUME RegistryInv, TableOK', Grows, NEW r \in Slots,
         NEW p, p # "idle", NEW x, pc[r] # "idle", Goto(r, p, x), KnowsAt(p, req[r], x)',
         DOMAIN x = GoVariables
  PROVE  RegistryInv'
<1>1. Moves(r) /\ pc'[r] = p /\ req' = req /\ read'[r] = x
  BY DEF Goto, Moves, RegistryInv, SlotsOK
<1>2. SlotsOK'
  BY <1>1 DEF Moves, RegistryInv, SlotsOK
<1>3. Knows(r)'
  BY <1>1 DEF Knows
<1>4. ASSUME NEW s \in Slots \ {r}
      PROVE  Knows(s)'
  <2>1. CASE pc[s] = "idle"
    BY <1>1, <2>1 DEF Knows, Moves
  <2>2. CASE pc[s] # "idle"
    <3>1. PICK q, y, at : q = req[s] /\ y = read[s] /\ at = pc[s]
      OBVIOUS
    <3>2. q \in Request /\ KnowsAt(at, q, y)
      BY <2>2, <3>1 DEF RegistryInv, SlotsOK, Knows
    <3>3. KnowsAt(at, q, y)'
      BY <3>2, KnowsStays
    <3>. QED
      BY <1>1, <3>1, <3>3 DEF Knows, Moves
  <2>. QED
    BY <2>1, <2>2
<1>. QED
  BY <1>2, <1>3, <1>4 DEF RegistryInv

LEMMA TableStays ==
  ASSUME RegistryInv, UNCHANGED table
  PROVE  TableOK' /\ Grows
BY DEF RegistryInv, TableOK, Grows, Exists

LEMMA GotoKeeps ==
  ASSUME RegistryInv, UNCHANGED table, NEW r \in Slots, NEW p, p # "idle", NEW x, pc[r] # "idle",
         Goto(r, p, x), NEW q \in Request, q = req[r], KnowsAt(p, q, x),
         DOMAIN x = GoVariables
  PROVE  RegistryInv'
<1>1. KnowsAt(p, q, x)'
  BY TableStays, KnowsStays
<1>2. q = req'[r]
  BY DEF Goto
<1>3. KnowsAt(p, req[r], x)'
  BY <1>1, <1>2
<1>. QED
  BY <1>3, TableStays, SlotGoesOn

LEMMA AnswerKeeps ==
  ASSUME RegistryInv, NEW r \in Slots, pc[r] # "idle", NEW outcome, Answer(r, outcome),
         outcome = "missing" => Addressed(req[r].table) \notin read[r].known,
         outcome = "null" => /\ req[r].op = "get" /\ req[r].table \notin read[r].known
                             /\ Exists(Owner(req[r].table), req[r].id)
  PROVE  RegistryInv'
<1>1. PICK q, known : q = req[r] /\ known = read[r].known
  OBVIOUS
<1>. DEFINE x == [Nothing EXCEPT !.known = known, !.outcome = outcome]
<1>2. DOMAIN x = GoVariables /\ x.known = known /\ x.outcome = outcome
  BY DEF Nothing, GoVariables
<1>3. Goto(r, "answer", x) /\ UNCHANGED table
  BY <1>1 DEF Answer, Outcome
<1>4. q \in Request /\ KnowsAt(pc[r], q, read[r])
  BY <1>1 DEF RegistryInv, SlotsOK, Knows
<1>. HIDE DEF x
<1>5. KnowsAt("answer", q, x)
  <2>1. q.op \in OpsAt("answer")
    BY <1>4, Fields DEF OpsAt
  <2>2. x.known \subseteq Tables /\ \A t \in x.known : Exists(t, q.id)
    BY <1>1, <1>2, <1>4 DEF KnowsAt
  <2>. QED
    BY <1>1, <1>2, <2>1, <2>2 DEF KnowsAt, Writing
<1>. QED
  BY <1>1, <1>2, <1>3, <1>4, <1>5, GotoKeeps

LEMMA EndKeeps ==
  ASSUME RegistryInv, NEW r \in Slots, End(r)
  PROVE  RegistryInv'
<1>1. Moves(r) /\ pc'[r] = "idle" /\ read'[r] = Nothing /\ table' = table
  BY DEF End, Moves, RegistryInv, SlotsOK
<1>2. SlotsOK'
  BY <1>1 DEF Moves, RegistryInv, SlotsOK, Nothing, GoVariables
<1>3. \A s \in Slots : Knows(s)'
  BY <1>1 DEF Moves, RegistryInv, Knows, KnowsAt, Exists, Refers
<1>. QED
  BY <1>1, <1>2, <1>3, TableStays DEF RegistryInv

LEMMA BeginKeeps ==
  ASSUME RegistryInv, NEW r \in Slots, NEW q \in Request, Begin(r, q)
  PROVE  RegistryInv'
<1>. DEFINE known == Known(q)
            p == CASE q.op = "create" -> "clean"
                   [] q.op = "update" -> "readRow"
                   [] OTHER           -> "owner"
<1>1. /\ Moves(r) /\ pc'[r] = p /\ req'[r] = q /\ table' = table /\ read[r] = Nothing
      /\ read'[r] = [read[r] EXCEPT !.known = known]
  BY DEF Begin, Moves, RegistryInv, SlotsOK
<1>2. DOMAIN read'[r] = GoVariables /\ read'[r].known = known
  BY <1>1 DEF Nothing, GoVariables
<1>3. p # "idle"
  OBVIOUS
<1>4. SlotsOK'
  BY <1>1, <1>2, <1>3 DEF Moves, RegistryInv, SlotsOK
<1>5. Knows(r)'
  <2>1. q.op \in {"create", "update", "put", "get"}
    BY Fields
  <2>2. q.op \in OpsAt(p) /\ p \in {"clean", "readRow", "owner"}
    BY <2>1 DEF OpsAt
  <2>3. known \subseteq Tables /\ \A t \in known : Exists(t, q.id)
    BY Fields, RegistryAssumption DEF Known, Addressed, RegistryAssumption
  <2>. HIDE DEF p, known
  <2>4. KnowsAt(pc[r], req[r], read[r])'
    BY <1>1, <1>2, <2>2, <2>3 DEF KnowsAt, Writing, Exists
  <2>. QED
    BY <2>4 DEF Knows
<1>6. \A s \in Slots \ {r} : Knows(s)'
  BY <1>1 DEF Moves, RegistryInv, Knows, KnowsAt, Exists, Refers
<1>. QED
  BY <1>1, <1>4, <1>5, <1>6, TableStays DEF RegistryInv

-----------------------------------------------------------------------------
(***************************************************************************)
(* Each statement.                                                         *)
(***************************************************************************)
\* What is changed without being named was changed since it was read.
UndoIsRace ==
  \A t \in Plain : \A i \in Ids[t] : \A c \in Named[t] :
    Exists(t, i) /\ table'[t][i][c] # table[t][i][c] =>
      \E r \in Slots :
        /\ pc[r] = "update" /\ req[r].table = t /\ req[r].id = i
        /\ c \in read[r].named \/ read[r].old # table[t][i]

Kept == RegistryInv' /\ UndoIsRace

LEMMA SameKept == RegistryInv' /\ UNCHANGED table => Kept
  BY DEF Kept, UndoIsRace

\* A draft goes to be written, or to have its references looked up first.
LEMMA ThenKnows ==
  ASSUME NEW q \in Request, NEW x, NEW s \in {"insert", "update"}, q.op \in OpsAt(s),
         x.known \subseteq Tables, \A t \in x.known : Exists(t, q.id), Drafted(q.table, x.new),
         q.op = "update" => \A c \in Named[q.table] \ x.named : x.new[c] = x.old[c]
  PROVE  KnowsAt(IF q.table = "maquinas" THEN "location" ELSE s, q, x)
BY RefersToNothing DEF KnowsAt, OpsAt, Writing

LEMMA CleanKept ==
  ASSUME RegistryInv, NEW r \in Slots, Clean(r)
  PROVE  Kept
<1>1. PICK q, x : q = req[r] /\ x = read[r]
  OBVIOUS
<1>2. /\ pc[r] = "clean" /\ q \in Request /\ KnowsAt("clean", q, x) /\ DOMAIN x = GoVariables
      /\ q.op = "create"
  BY <1>1 DEF Clean, RegistryInv, SlotsOK, Knows, KnowsAt, OpsAt
<1>3. PICK row \in Drafts(q.table, Named[q.table]) :
        IF Valid(row)
        THEN Goto(r, Then(r, "insert"), [x EXCEPT !.new = row]) /\ UNCHANGED table
        ELSE Answer(r, "invalid")
  BY <1>1 DEF Clean
<1>4. CASE Valid(row)
  <2>. DEFINE y == [x EXCEPT !.new = row]
  <2>1. DOMAIN y = GoVariables /\ y.new = row /\ y.known = x.known
    BY <1>2 DEF GoVariables
  <2>2. Drafted(q.table, row)
    BY <1>4, DraftIsDrafted
  <2>. HIDE DEF y
  <2>3. KnowsAt(Then(r, "insert"), q, y)
    BY <1>1, <1>2, <2>1, <2>2, ThenKnows DEF OpsAt, Then, KnowsAt
  <2>4. Then(r, "insert") # "idle"
    BY DEF Then
  <2>5. Goto(r, Then(r, "insert"), y) /\ UNCHANGED table
    BY <1>3, <1>4 DEF y
  <2>6. RegistryInv'
    BY <1>1, <1>2, <2>1, <2>3, <2>4, <2>5, GotoKeeps
  <2>. QED
    BY <2>5, <2>6, SameKept
<1>5. CASE Answer(r, "invalid")
  BY <1>2, <1>5, AnswerKeeps, SameKept DEF Answer
<1>. QED
  BY <1>3, <1>4, <1>5

LEMMA ReadRowKept ==
  ASSUME RegistryInv, NEW r \in Slots, ReadRow(r)
  PROVE  Kept
<1>1. PICK q, x : q = req[r] /\ x = read[r]
  OBVIOUS
<1>2. /\ pc[r] = "readRow" /\ q \in Request /\ KnowsAt("readRow", q, x) /\ DOMAIN x = GoVariables
      /\ q.op = "update" /\ q.table \in Tables
  BY <1>1, Fields DEF ReadRow, RegistryInv, SlotsOK, Knows, KnowsAt, OpsAt
<1>3. CASE ~Exists(q.table, q.id)
  <2>1. Answer(r, "missing") /\ Addressed(q.table) \notin x.known
    BY <1>1, <1>2, <1>3, Fields DEF ReadRow, KnowsAt, Addressed, Plain
  <2>2. RegistryInv'
    BY <1>1, <1>2, <2>1, AnswerKeeps
  <2>. QED
    BY <2>1, <2>2, SameKept DEF Answer
<1>4. CASE Exists(q.table, q.id)
  <2>1. PICK old \in Rows(q.table) : old = table[q.table][q.id]
    BY <1>2, <1>4 DEF Exists, RegistryInv, TableOK
  <2>2. PICK columns \in SUBSET Named[q.table] : \E values \in Drafts(q.table, columns) :
          IF Valid(Overlay(old, values))
          THEN /\ Goto(r, Then(r, "update"), [x EXCEPT !.old = old, !.new = Overlay(old, values),
                                                       !.named = columns])
               /\ UNCHANGED table
          ELSE Answer(r, "invalid")
    BY <1>1, <1>4, <2>1 DEF ReadRow
  <2>3. PICK values \in Drafts(q.table, columns) :
          IF Valid(Overlay(old, values))
          THEN /\ Goto(r, Then(r, "update"), [x EXCEPT !.old = old, !.new = Overlay(old, values),
                                                       !.named = columns])
               /\ UNCHANGED table
          ELSE Answer(r, "invalid")
    BY <2>2
  <2>4. CASE Valid(Overlay(old, values))
    <3>. DEFINE new == Overlay(old, values)
                y == [x EXCEPT !.old = old, !.new = new, !.named = columns]
    <3>1. /\ DOMAIN y = GoVariables /\ y.new = new /\ y.known = x.known
          /\ y.old = old /\ y.named = columns
      BY <1>2 DEF GoVariables
    <3>2. Drafted(q.table, new) /\ \A c \in Named[q.table] \ columns : new[c] = old[c]
      BY <1>2, <2>4, OverlayIsDrafted
    <3>3. Goto(r, Then(r, "update"), y) /\ UNCHANGED table
      BY <2>3, <2>4
    <3>. HIDE DEF y, new
    <3>4. KnowsAt(Then(r, "update"), q, y)
      <4>1. y.known \subseteq Tables /\ \A t \in y.known : Exists(t, q.id)
        BY <1>2, <3>1 DEF KnowsAt
      <4>2. KnowsAt(IF q.table = "maquinas" THEN "location" ELSE "update", q, y)
        BY <1>2, <3>1, <3>2, <4>1, ThenKnows DEF OpsAt
      <4>. QED
        BY <1>1, <4>2 DEF Then
    <3>5. Then(r, "update") # "idle"
      BY DEF Then
    <3>6. RegistryInv'
      BY <1>1, <1>2, <3>1, <3>3, <3>4, <3>5, GotoKeeps
    <3>. QED
      BY <3>3, <3>6, SameKept
  <2>5. CASE Answer(r, "invalid")
    BY <1>2, <2>5, AnswerKeeps, SameKept DEF Answer
  <2>. QED
    BY <2>3, <2>4, <2>5
<1>. QED
  BY <1>3, <1>4

LEMMA LocationExistsKept ==
  ASSUME RegistryInv, NEW r \in Slots, LocationExists(r)
  PROVE  Kept
<1>1. PICK q, x : q = req[r] /\ x = read[r]
  OBVIOUS
<1>2. /\ pc[r] = "location" /\ q \in Request /\ KnowsAt("location", q, x)
      /\ DOMAIN x = GoVariables /\ q.table = "maquinas"
  BY <1>1 DEF LocationExists, RegistryInv, SlotsOK, Knows, KnowsAt
<1>3. CASE Answer(r, "invalid")
  BY <1>2, <1>3, AnswerKeeps, SameKept DEF Answer
<1>4. CASE /\ "locacion_id" \in Named["maquinas"] => Exists("locaciones", x.new.locacion_id)
           /\ Goto(r, "type", x) /\ UNCHANGED table
  <2>1. KnowsAt("type", q, x)
    BY <1>2, <1>4 DEF KnowsAt, OpsAt, Writing
  <2>2. RegistryInv'
    BY <1>1, <1>2, <1>4, <2>1, GotoKeeps
  <2>. QED
    BY <1>4, <2>2, SameKept
<1>. QED
  BY <1>1, <1>3, <1>4 DEF LocationExists

LEMMA MachineTypeExistsKept ==
  ASSUME RegistryInv, NEW r \in Slots, MachineTypeExists(r)
  PROVE  Kept
<1>1. PICK q, x : q = req[r] /\ x = read[r]
  OBVIOUS
<1>2. /\ pc[r] = "type" /\ q \in Request /\ KnowsAt("type", q, x)
      /\ DOMAIN x = GoVariables /\ q.table = "maquinas" /\ q.op \in {"create", "update"}
  BY <1>1 DEF MachineTypeExists, RegistryInv, SlotsOK, Knows, KnowsAt, OpsAt
<1>3. CASE Answer(r, "invalid")
  BY <1>2, <1>3, AnswerKeeps, SameKept DEF Answer
<1>4. CASE /\ "tipo_maquina_id" \in Named["maquinas"] =>
                Exists("tipos_maquina", x.new.tipo_maquina_id)
           /\ Goto(r, Write(r), x) /\ UNCHANGED table
  <2>1. Drafted(q.table, x.new)
    BY <1>2 DEF KnowsAt, Writing
  <2>2. Refers(q.table, x.new)
    BY <1>2, <1>4, <2>1, Fields, ReferenceColumns DEF Refers, Drafted, KnowsAt
  <2>3. Write(r) \in {"insert", "update"} /\ q.op \in OpsAt(Write(r))
    BY <1>1, <1>2 DEF Write, OpsAt
  <2>4. KnowsAt(Write(r), q, x)
    BY <1>2, <2>1, <2>2, <2>3 DEF KnowsAt, Writing
  <2>5. RegistryInv'
    BY <1>1, <1>2, <1>4, <2>3, <2>4, GotoKeeps
  <2>. QED
    BY <1>4, <2>5, SameKept
<1>. QED
  BY <1>1, <1>3, <1>4 DEF MachineTypeExists

\* A statement that writes, or is refused by what the table says.
LEMMA StoreKept ==
  ASSUME RegistryInv, NEW r \in Slots, pc[r] \in {"insert", "update", "upsert"},
         NEW t, t = req[r].table, NEW i \in Ids[t], Store(r, t, i),
         t \in Plain => ~Exists(t, i) \/ (pc[r] = "update" /\ req[r].id = i)
  PROVE  Kept
<1>1. PICK q, x, p : q = req[r] /\ x = read[r] /\ p = pc[r]
  OBVIOUS
<1>2. q \in Request /\ KnowsAt(p, q, x) /\ DOMAIN x = GoVariables /\ t \in Tables
  BY <1>1, Fields DEF RegistryInv, SlotsOK, Knows
<1>3. ASSUME NEW o \in {"internal", "conflict", "reference"}, Answer(r, o)
      PROVE  Kept
  BY <1>3, AnswerKeeps, SameKept DEF Answer
<1>4. CASE Fits(t, x.new) /\ table' = [table EXCEPT ![t][i] = x.new] /\ Outcome(r, "stored")
  <2>1. Stores(t, i)
    BY <1>2, <1>4 DEF Fits, Stores
  <2>2. TableOK' /\ Grows /\ \A u \in Tables : \A j : u # t \/ j # i => (Exists(u, j)' <=> Exists(u, j))
    BY <2>1, StoreGrows DEF RegistryInv
  <2>. DEFINE y == [Nothing EXCEPT !.known = x.known, !.outcome = "stored"]
  <2>4. Goto(r, "answer", y)
    BY <1>1, <1>4 DEF Outcome
  <2>5. DOMAIN y = GoVariables /\ y.known = x.known /\ y.outcome = "stored"
    BY DEF Nothing, GoVariables
  <2>. HIDE DEF y
  <2>6. KnowsAt("answer", q, y)
    BY <1>2, <2>5, Fields DEF KnowsAt, OpsAt, Writing
  <2>7. KnowsAt("answer", q, y)' /\ q = req[r]
    BY <1>1, <1>2, <2>2, <2>6, KnowsStays
  <2>8. RegistryInv'
    <3>1. KnowsAt("answer", req[r], y)'
      BY <1>4, <2>7 DEF Outcome, Goto
    <3>. QED
      BY <2>2, <2>4, <2>5, <3>1, SlotGoesOn
  <2>9. UndoIsRace
    <3>1. ASSUME NEW u \in Plain, NEW j \in Ids[u], NEW c \in Named[u],
                 Exists(u, j), table'[u][j][c] # table[u][j][c]
          PROVE  /\ pc[r] = "update" /\ req[r].table = u /\ req[r].id = j
                 /\ c \in read[r].named \/ read[r].old # table[u][j]
      <4>1. u \in Tables
        BY DEF Plain
      <4>2. u = t /\ j = i /\ table'[u][j] = x.new
        BY <1>2, <1>4, <3>1, <4>1 DEF RegistryInv, TableOK
      <4>3. p = "update" /\ req[r].id = i
        BY <1>1, <3>1, <4>2
      <4>4. q.op = "update" /\ c \notin x.named => x.new[c] = x.old[c]
        BY <1>1, <1>2, <4>2, <4>3 DEF KnowsAt, Writing
      <4>5. q.op = "update"
        BY <1>2, <4>3 DEF KnowsAt, OpsAt
      <4>. QED
        BY <1>1, <3>1, <4>2, <4>3, <4>4, <4>5
    <3>. QED
      BY <3>1 DEF UndoIsRace
  <2>. QED
    BY <2>8, <2>9 DEF Kept
<1>. QED
  BY <1>1, <1>3, <1>4 DEF Store

LEMMA InsertKept ==
  ASSUME RegistryInv, NEW r \in Slots, Insert(r)
  PROVE  Kept
<1>1. PICK i \in Ids[req[r].table] : ~Exists(req[r].table, i) /\ Store(r, req[r].table, i)
  BY DEF Insert
<1>2. pc[r] = "insert" /\ req[r] \in Request /\ req[r].op = "create"
  BY DEF Insert, RegistryInv, SlotsOK, Knows, KnowsAt, OpsAt
<1>3. req[r].table \notin Rates
  BY <1>2, Fields DEF Plain
<1>. QED
  BY <1>1, <1>2, <1>3, StoreKept

LEMMA UpdateKept ==
  ASSUME RegistryInv, NEW r \in Slots, Update(r)
  PROVE  Kept
<1>1. /\ pc[r] = "update" /\ req[r] \in Request /\ req[r].op = "update"
      /\ Store(r, req[r].table, req[r].id)
  BY DEF Update, RegistryInv, SlotsOK, Knows, KnowsAt, OpsAt
<1>2. req[r].table \notin Rates /\ req[r].id \in Ids[req[r].table]
  BY <1>1, Fields DEF Plain
<1>. QED
  BY <1>1, <1>2, StoreKept

LEMMA UpsertKept ==
  ASSUME RegistryInv, NEW r \in Slots, Upsert(r)
  PROVE  Kept
<1>1. /\ pc[r] = "upsert" /\ req[r] \in Request /\ req[r].op = "put"
      /\ Store(r, req[r].table, req[r].id) /\ Exists(Owner(req[r].table), req[r].id)
  BY DEF Upsert, RegistryInv, SlotsOK, Knows, KnowsAt, OpsAt
<1>2. req[r].table \notin Plain /\ req[r].id \in Ids[req[r].table]
  BY <1>1, Fields DEF Plain
<1>. QED
  BY <1>1, <1>2, StoreKept

LEMMA OwnerExistsKept ==
  ASSUME RegistryInv, NEW r \in Slots, OwnerExists(r)
  PROVE  Kept
<1>1. PICK q, x : q = req[r] /\ x = read[r]
  OBVIOUS
<1>2. /\ pc[r] = "owner" /\ q \in Request /\ KnowsAt("owner", q, x) /\ DOMAIN x = GoVariables
      /\ q.op \in {"put", "get"} /\ q.table \in Tables \cap Rates /\ q.id \in Ids[q.table]
  BY <1>1, Fields DEF OwnerExists, RegistryInv, SlotsOK, Knows, KnowsAt, OpsAt
<1>3. CASE ~Exists(Owner(q.table), q.id)
  <2>1. Answer(r, "missing")
    BY <1>1, <1>3 DEF OwnerExists
  <2>2. Addressed(q.table) \notin x.known
    BY <1>2, <1>3 DEF KnowsAt, Addressed
  <2>3. RegistryInv'
    BY <1>1, <1>2, <2>1, <2>2, AnswerKeeps
  <2>. QED
    BY <2>1, <2>3, SameKept DEF Answer
<1>4. ASSUME Exists(Owner(q.table), q.id), q.op = "put",
             NEW row \in Drafts(q.table, Named[q.table]), Valid(row),
             Goto(r, "upsert", [x EXCEPT !.new = row]), UNCHANGED table
      PROVE  Kept
  <2>. DEFINE y == [x EXCEPT !.new = row]
  <2>1. DOMAIN y = GoVariables /\ y.new = row /\ y.known = x.known
    BY <1>2 DEF GoVariables
  <2>2. Drafted(q.table, row)
    BY <1>4, DraftIsDrafted
  <2>3. Refers(q.table, row)
    BY <1>2, <2>2, RefersToNothing DEF Rates
  <2>. HIDE DEF y
  <2>4. KnowsAt("upsert", q, y)
    BY <1>2, <1>4, <2>1, <2>2, <2>3 DEF KnowsAt, OpsAt, Writing
  <2>5. Goto(r, "upsert", y)
    BY <1>4 DEF y
  <2>6. RegistryInv'
    BY <1>1, <1>2, <1>4, <2>1, <2>4, <2>5, GotoKeeps
  <2>. QED
    BY <1>4, <2>6, SameKept
<1>5. CASE Exists(Owner(q.table), q.id) /\ q.op = "get" /\ Goto(r, "readRate", x) /\ UNCHANGED table
  <2>1. KnowsAt("readRate", q, x)
    BY <1>2, <1>5 DEF KnowsAt, OpsAt, Writing
  <2>2. RegistryInv'
    BY <1>1, <1>2, <1>5, <2>1, GotoKeeps
  <2>. QED
    BY <1>5, <2>2, SameKept
<1>. QED
  BY <1>1, <1>3, <1>4, <1>5 DEF OwnerExists

LEMMA ReadRateKept ==
  ASSUME RegistryInv, NEW r \in Slots, ReadRate(r)
  PROVE  Kept
<1>. DEFINE outcome == IF Exists(req[r].table, req[r].id) THEN "found" ELSE "null"
<1>1. /\ pc[r] = "readRate" /\ req[r] \in Request /\ KnowsAt("readRate", req[r], read[r])
      /\ Answer(r, outcome)
  BY DEF ReadRate, RegistryInv, SlotsOK, Knows
<1>2. /\ outcome # "missing"
      /\ outcome = "null" => /\ req[r].op = "get" /\ req[r].table \notin read[r].known
                             /\ Exists(Owner(req[r].table), req[r].id)
  BY <1>1 DEF KnowsAt, OpsAt
<1>. HIDE DEF outcome
<1>3. RegistryInv'
  BY <1>1, <1>2, AnswerKeeps
<1>. QED
  BY <1>1, <1>3, SameKept DEF Answer

LEMMA NextKept ==
  ASSUME RegistryInv, Next
  PROVE  Kept
<1>1. ASSUME NEW r \in Slots, NEW q \in Request, Begin(r, q)
      PROVE  Kept
  BY <1>1, BeginKeeps, SameKept DEF Begin
<1>2. ASSUME NEW r \in Slots, Respond(r) \/ Cancel(r)
      PROVE  Kept
  BY <1>2, EndKeeps, SameKept DEF Respond, Cancel, End
<1>. QED
  BY <1>1, <1>2, CleanKept, ReadRowKept, LocationExistsKept, MachineTypeExistsKept, InsertKept,
     UpdateKept, UpsertKept, OwnerExistsKept, ReadRateKept DEF Next, Step

LEMMA StutterKept == RegistryInv /\ UNCHANGED vars => Kept
  BY DEF Kept, RegistryInv, TableOK, SlotsOK, Knows, KnowsAt, Refers, Exists,
         UndoIsRace, vars

LEMMA InitRegistryInv == Init => RegistryInv
<1>. SUFFICES ASSUME Init
              PROVE  RegistryInv
  OBVIOUS
<1>1. TableOK
  BY DEF Init, TableOK, Exists
<1>2. SlotsOK /\ \A r \in Slots : Knows(r)
  BY DEF Init, SlotsOK, Knows, Nothing, GoVariables
<1>. QED
  BY <1>1, <1>2 DEF RegistryInv

\* What a request has validated and looked up is so until it writes.
THEOREM RegistryIsInvariant == Spec => []RegistryInv
<1>1. RegistryInv /\ [Next]_vars => RegistryInv'
  BY NextKept, StutterKept DEF Kept
<1>. QED
  BY <1>1, InitRegistryInv, PTL DEF Spec

\* What the service lets through the table takes, but for UNIQUE, the
\* year zero and a NUL.
THEOREM ServiceKeepsTheTable == Spec => []ServiceIsAsStrict
<1>1. RegistryInv => ServiceIsAsStrict
  BY DEF RegistryInv, ServiceIsAsStrict, Knows, KnowsAt, Drafted, Writing
<1>. QED
  BY <1>1, RegistryIsInvariant, PTL

\* A 404 is of a machine, a location or another row that was not there when the
\* request came, and never of a rate; a null is of one that is there and had no rate.
THEOREM RefusalsOfListsAreTrue == Spec => []RefusalsAreTrue
<1>1. RegistryInv => RefusalsAreTrue
  BY DEF RegistryInv, RefusalsAreTrue, Knows, KnowsAt
<1>. QED
  BY <1>1, RegistryIsInvariant, PTL

\* A PATCH changes what it does not name only when the row was written after it
\* had read it.
THEOREM UndoingIsARace == Spec => OnlyRacesUndo
<1>1. RegistryInv /\ [Next]_vars => [UndoIsRace]_vars
  BY NextKept DEF Kept
<1>. QED
  BY <1>1, RegistryIsInvariant, PTL DEF Spec, OnlyRacesUndo, UndoIsRace

=============================================================================
