------------------------------ MODULE Registry ------------------------------
(***************************************************************************)
(* What the shop keeps lists of: locations, types of machine, machines,    *)
(* materials, customers and rates.  A row is created with one INSERT, a    *)
(* PATCH reads the row, lays the columns it names over it and writes the   *)
(* whole row back, a rate is put with one INSERT ... ON CONFLICT.  No      *)
(* request is a transaction, and no row is ever deleted.                   *)
(***************************************************************************)
CONSTANTS
  Ids,        \* Ids[t]: the identifiers table t may give
  Named,      \* Named[t]: the columns of t that requests tell apart
  Slots,      \* requests served at the same time
  Null,       \* NULL in a column
  Invalid,    \* what a validation refuses, and null where it is not allowed
  Unstorable, \* what passes it and PostgreSQL refuses: 0000-01-01, a text with a NUL
  NoRow, NoRequest

VARIABLES
  table,  \* table[t][i]: the row with identifier i, or NoRow
  pc,     \* the statement each slot is at
  req,    \* the request each slot serves
  read    \* its Go variables

vars == <<table, pc, req, read>>

-----------------------------------------------------------------------------
(***************************************************************************)
(* Columns, by what a request may put in them: "required" is a text with   *)
(* no default and no NULL; "defaulted" has a value when a POST leaves it   *)
(* out; "text" may be NULL, and so may "checked", whose form is validated; *)
(* "flag" is set by a POST and changed by a PATCH only.                    *)
(***************************************************************************)
locaciones ==
  [codigo |-> "required", nombre |-> "required", zona_horaria |-> "defaulted",
   direccion |-> "text", ciudad |-> "text", estado |-> "text", activa |-> "flag"]

tipos_maquina == [nombre |-> "required", descripcion |-> "text"]

maquinas ==
  [locacion_id |-> "location", tipo_maquina_id |-> "type", codigo |-> "required",
   nombre |-> "required", marca |-> "text", modelo |-> "text",
   numero_serie |-> "text", potencia_watts |-> "checked", fecha_compra |-> "date",
   activa |-> "flag"]

materiales ==
  [nombre |-> "required", tipo |-> "required", marca |-> "text", color |-> "text",
   costo_por_kg |-> "defaulted", stock_kg |-> "defaulted", activo |-> "flag"]

clientes ==
  [tipo |-> "defaulted", nombre |-> "required", correo |-> "checked",
   telefono |-> "text", notas |-> "text", activo |-> "flag"]

tarifas_maquina ==
  [costo_interno_hora |-> "defaulted", precio_venta_hora |-> "defaulted",
   costo_preparacion |-> "defaulted"]

tarifas_energia == [costo_por_kwh |-> "defaulted"]

Kind ==
  [locaciones |-> locaciones, tipos_maquina |-> tipos_maquina, maquinas |-> maquinas,
   materiales |-> materiales, clientes |-> clientes,
   tarifas_maquina |-> tarifas_maquina, tarifas_energia |-> tarifas_energia]

Tables == DOMAIN Ids
Rates  == {"tarifas_maquina", "tarifas_energia"}

\* The identifiers of a rate are those of the row it is of.
Owner(t) == IF t = "tarifas_maquina" THEN "maquinas" ELSE "locaciones"

\* The UNIQUE columns.
Unique(t) ==
  CASE t \in {"locaciones", "maquinas"} -> {"codigo"}
    [] t = "tipos_maquina"              -> {"nombre"}
    [] OTHER                            -> {}

ASSUME RegistryAssumption ==
  /\ Tables \subseteq DOMAIN Kind
  /\ \A t \in Tables : Named[t] \subseteq DOMAIN Kind[t]
  /\ \A t \in Tables \cap Rates : Owner(t) \in Tables /\ Ids[t] = Ids[Owner(t)]
  /\ "maquinas" \in Tables => {"locaciones", "tipos_maquina"} \subseteq Tables

\* What a column can hold.  Texts, amounts and types are two values.
Stored(kind) ==
  CASE kind \in {"required", "defaulted"}   -> {"a", "b"}
    [] kind \in {"text", "checked", "date"} -> {"a", Null}
    [] kind = "flag"                        -> {"yes", "no"}
    [] kind = "location"                    -> Ids["locaciones"]
    [] kind = "type"                        -> Ids["tipos_maquina"]

\* What a body can ask for.  The service takes any date that time.Parse takes and
\* any text that is not empty and not too long.
Asked(kind) ==
  Stored(kind) \cup {Invalid}
  \cup (IF kind \in {"required", "text", "date"} THEN {Unstorable} ELSE {})

KindOf(t, c) == Kind[t][c]
Rows(t) == {row \in [Named[t] -> UNION {Stored(KindOf(t, c)) : c \in Named[t]}] :
              \A c \in Named[t] : row[c] \in Stored(KindOf(t, c))}
Drafts(t, columns) ==
  {row \in [columns -> UNION {Asked(KindOf(t, c)) : c \in columns}] :
     \A c \in columns : row[c] \in Asked(KindOf(t, c))}

ASSUME NoRowAssumption == \A t \in Tables : NoRow \notin Rows(t)

Exists(t, i) == i \in Ids[t] /\ table[t][i] # NoRow

-----------------------------------------------------------------------------
(***************************************************************************)
(* Requests.                                                               *)
(***************************************************************************)
Plain == Tables \ Rates

Request ==
  [op : {"create"}, table : Plain]
  \cup (UNION {[op : {"update"}, table : {t}, id : Ids[t]] : t \in Plain})
  \cup (UNION {[op : {"put", "get"}, table : {t}, id : Ids[t]] : t \in Tables \cap Rates})

\* old is the row that was read, new what is to be written, named the columns
\* the body names; known are the tables, of those the request is about, that had
\* a row with its identifier when it came (what refusals are compared with).
Nothing == [old |-> NoRow, new |-> NoRow, named |-> {}, known |-> {}, outcome |-> "none"]

\* The table of the row that the URL names.
Addressed(t) == IF t \in Rates THEN Owner(t) ELSE t

Known(q) ==
  IF q.op = "create" THEN {} ELSE {t \in {q.table, Addressed(q.table)} : Exists(t, q.id)}

Goto(r, next, found) ==
  /\ pc' = [pc EXCEPT ![r] = next]
  /\ read' = [read EXCEPT ![r] = found]
  /\ UNCHANGED req

Outcome(r, outcome) ==
  Goto(r, "answer", [Nothing EXCEPT !.known = read[r].known, !.outcome = outcome])

Answer(r, outcome) == Outcome(r, outcome) /\ UNCHANGED table

End(r) ==
  /\ pc' = [pc EXCEPT ![r] = "idle"]
  /\ req' = [req EXCEPT ![r] = NoRequest]
  /\ read' = [read EXCEPT ![r] = Nothing]
  /\ UNCHANGED table

\* Machines have their references looked up before they are written.
Then(r, statement) == IF req[r].table = "maquinas" THEN "location" ELSE statement

Valid(row) == \A c \in DOMAIN row : row[c] # Invalid

Begin(r, q) ==
  /\ pc[r] = "idle"
  /\ req' = [req EXCEPT ![r] = q]
  /\ read' = [read EXCEPT ![r].known = Known(q)]
  /\ pc' = [pc EXCEPT ![r] = CASE q.op = "create" -> "clean"
                               [] q.op = "update" -> "readRow"
                               [] OTHER           -> "owner"]
  /\ UNCHANGED table

\* The body of a POST, with what it leaves out filled in.
Clean(r) ==
  /\ pc[r] = "clean"
  /\ \E row \in Drafts(req[r].table, Named[req[r].table]) :
       /\ \A c \in DOMAIN row : KindOf(req[r].table, c) = "flag" => row[c] = "yes"
       /\ IF Valid(row)
          THEN Goto(r, Then(r, "insert"), [read[r] EXCEPT !.new = row]) /\ UNCHANGED table
          ELSE Answer(r, "invalid")

\* Variant: a date that is not named is not taken from the row.
OverlayUndated(old, values) ==
  [c \in DOMAIN old |-> IF c \in DOMAIN values THEN values[c]
                        ELSE IF c = "fecha_compra" THEN Null ELSE old[c]]

Overlay(old, values) ==
  [c \in DOMAIN old |-> IF c \in DOMAIN values THEN values[c] ELSE old[c]]

\* The row of a PATCH is read and what its body names is laid over it.
ReadRow(r) ==
  /\ pc[r] = "readRow"
  /\ LET t == req[r].table IN
     IF ~Exists(t, req[r].id) THEN Answer(r, "missing")
     ELSE \E columns \in (SUBSET Named[t]) \ {{}} : \E values \in Drafts(t, columns) :
            LET old == table[t][req[r].id]
                new == Overlay(old, values) IN
            IF Valid(new)
            THEN /\ Goto(r, Then(r, "update"),
                         [read[r] EXCEPT !.old = old, !.new = new, !.named = columns])
                 /\ UNCHANGED table
            ELSE Answer(r, "invalid")

\* MachineService.validateReferences, one statement after the other.
Write(r) == IF req[r].op = "create" THEN "insert" ELSE "update"

\* Variant: the location is not looked up for a PATCH.
LocationExistsOnCreate(r) ==
  /\ pc[r] = "location"
  /\ IF /\ req[r].op = "create" /\ "locacion_id" \in Named["maquinas"]
        /\ ~Exists("locaciones", read[r].new.locacion_id)
     THEN Answer(r, "invalid")
     ELSE Goto(r, "type", read[r]) /\ UNCHANGED table

LocationExists(r) ==
  /\ pc[r] = "location"
  /\ IF "locacion_id" \in Named["maquinas"] /\ ~Exists("locaciones", read[r].new.locacion_id)
     THEN Answer(r, "invalid")
     ELSE Goto(r, "type", read[r]) /\ UNCHANGED table

MachineTypeExists(r) ==
  /\ pc[r] = "type"
  /\ IF /\ "tipo_maquina_id" \in Named["maquinas"]
        /\ ~Exists("tipos_maquina", read[r].new.tipo_maquina_id)
     THEN Answer(r, "invalid")
     ELSE Goto(r, Write(r), read[r]) /\ UNCHANGED table

-----------------------------------------------------------------------------
(***************************************************************************)
(* The statements that write, and what the table says of the row.          *)
(***************************************************************************)
Fits(t, row) == row \in Rows(t)

Refers(t, row) ==
  \A c \in DOMAIN row :
    /\ KindOf(t, c) = "location" => Exists("locaciones", row[c])
    /\ KindOf(t, c) = "type" => Exists("tipos_maquina", row[c])

Taken(t, i, row) ==
  \E j \in Ids[t] \ {i}, c \in Unique(t) \cap Named[t] :
    Exists(t, j) /\ table[t][j][c] = row[c]

\* PostgreSQL writes the row, or the statement fails: 22008 of a date or 22021 of a
\* text (which the service passes on as an internal error), 23505, 23503.
Store(r, t, i) ==
  LET row == read[r].new IN
  IF ~Fits(t, row) THEN Answer(r, "internal")
  ELSE IF Taken(t, i, row) THEN Answer(r, "conflict")
  ELSE IF ~Refers(t, row) THEN Answer(r, "reference")
  ELSE table' = [table EXCEPT ![t][i] = row] /\ Outcome(r, "stored")

Insert(r) ==
  /\ pc[r] = "insert"
  /\ \E i \in Ids[req[r].table] :
       /\ ~Exists(req[r].table, i)
       /\ Store(r, req[r].table, i)

Update(r) ==
  /\ pc[r] = "update"
  /\ Store(r, req[r].table, req[r].id)

-----------------------------------------------------------------------------
(***************************************************************************)
(* Rates: PUT and GET look for the machine or the location first.          *)
(***************************************************************************)
\* An invalid PUT has been refused before.
OwnerExists(r) ==
  /\ pc[r] = "owner"
  /\ LET t == req[r].table IN
     IF ~Exists(Owner(t), req[r].id) THEN Answer(r, "missing")
     ELSE \/ /\ req[r].op = "put"
             /\ \E row \in Drafts(t, Named[t]) :
                  /\ Valid(row)
                  /\ Goto(r, "upsert", [read[r] EXCEPT !.new = row]) /\ UNCHANGED table
          \/ req[r].op = "get" /\ Goto(r, "readRate", read[r]) /\ UNCHANGED table

Upsert(r) ==
  /\ pc[r] = "upsert"
  /\ Store(r, req[r].table, req[r].id)

\* Variant: ErrNotFound of the rate is passed on.
ReadRateOrMissing(r) ==
  /\ pc[r] = "readRate"
  /\ Answer(r, IF Exists(req[r].table, req[r].id) THEN "found" ELSE "missing")

ReadRate(r) ==
  /\ pc[r] = "readRate"
  /\ Answer(r, IF Exists(req[r].table, req[r].id) THEN "found" ELSE "null")

Respond(r) == pc[r] = "answer" /\ End(r)

\* The client goes away or a statement fails.
Cancel(r) == pc[r] \notin {"idle", "answer"} /\ End(r)

-----------------------------------------------------------------------------
Init ==
  /\ table = [t \in Tables |-> [i \in Ids[t] |-> NoRow]]
  /\ pc = [r \in Slots |-> "idle"]
  /\ req = [r \in Slots |-> NoRequest]
  /\ read = [r \in Slots |-> Nothing]

Step(r) ==
  \/ Clean(r) \/ ReadRow(r) \/ LocationExists(r) \/ MachineTypeExists(r)
  \/ Insert(r) \/ Update(r)
  \/ OwnerExists(r) \/ Upsert(r) \/ ReadRate(r)
  \/ Respond(r) \/ Cancel(r)

Next ==
  \E r \in Slots :
    \/ \E q \in Request : Begin(r, q)
    \/ Step(r)

Spec == Init /\ [][Next]_vars

-----------------------------------------------------------------------------
(***************************************************************************)
(* Properties.                                                             *)
(***************************************************************************)

\* What a statement is about to write is what the table takes, whatever other
\* requests have done since it was validated: the references that were found are
\* there, and no column holds what its type cannot.  So nothing is refused but by
\* UNIQUE, and invalid references or data are answered with 422, as the README of
\* phase 3 says; but for the year zero, which Go's dates have and DATE has not, and
\* for a NUL in a text, which are answered with 500.
ServiceIsAsStrict ==
  \A r \in Slots : pc[r] \in {"insert", "update", "upsert"} =>
    LET t == req[r].table
        row == read[r].new IN
    /\ Refers(t, row)
    /\ \A c \in DOMAIN row : row[c] \in Stored(KindOf(t, c)) \cup {Unstorable}

\* README: machines are deactivated with PATCH.  A PATCH changes the columns it
\* names; another one changes with it (a deactivation that is undone, say) only
\* when the row was written after this request had read it.
OnlyRacesUndo ==
  [][\A t \in Plain : \A i \in Ids[t] : \A c \in Named[t] :
       Exists(t, i) /\ table'[t][i][c] # table[t][i][c] =>
         \E r \in Slots :
           /\ pc[r] = "update" /\ req[r].table = t /\ req[r].id = i
           /\ c \in read[r].named \/ read[r].old # table[t][i]]_vars

\* README: a GET of a rate answers null when the machine or the location exists
\* and has no rate yet, and 404 when it does not exist.  A null is given when there
\* was no rate as the request came, and its owner exists; a 404, of a PATCH, a PUT
\* or a GET, when the row that the URL names, and not a rate of it, was not there.
RefusalsAreTrue ==
  \A r \in Slots : pc[r] = "answer" =>
    LET t == req[r].table IN
    /\ read[r].outcome = "null" => t \notin read[r].known /\ Exists(Owner(t), req[r].id)
    /\ read[r].outcome = "missing" => Addressed(t) \notin read[r].known
=============================================================================
