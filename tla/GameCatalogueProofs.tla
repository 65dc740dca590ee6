-------------------------- MODULE GameCatalogueProofs --------------------------
(***************************************************************************)
(* Orders of game top-ups that are complete and keep one offer, archived     *)
(* games that take no order, and forms that stay valid while nobody edits:   *)
(* for every number of games, packages, fields, customers and administrators *)
(* and every sequence of edits under the orders.                             *)
(*                                                                         *)
(* The argument: an order is written from what its request carries, and that *)
(* was read with one query (Carries): an offer that was sold, and required   *)
(* fields that are among the active ones.  What an edit carries leaves every *)
(* row it may meet well-typed, whatever has become of the row meanwhile      *)
(* (Fits).  With one request at a time, the catalogue is still as the form   *)
(* and the order have read it (Alone).                                       *)
(***************************************************************************)
EXTENDS GameCatalogue, FiniteSetTheorems, TLAPS

\* Data that can be written to any row of a table.
Fits(data, S) == \A row \in S : Merged(row, data) \in S

Shaped(form) == form \in Form /\ form.required \subseteq form.fields

\* What a request carries from its queries.
Carries(j) ==
  /\ j.step \in {"idle", "write", "form", "health"} /\ j.form \in Form
  /\ j.step = "write" =>
       /\ j.table = "game" => j.id \in Games /\ Fits(j.value, Game)
       /\ j.table = "package" => j.id \in Packages /\ Fits(j.value, Package)
       /\ j.table = "field" => j.id \in Fields /\ Fits(j.value, Field)
  /\ j.step = "health" =>
       /\ j.package \in Packages /\ j.offer \in Offers /\ j.details \in [Fields -> Entered]
       /\ Shaped(j.seen) /\ j.answer = "none"

\* What it has read, as long as nothing is edited.
Current(j) ==
  /\ j.step \in {"form", "health"} => j.form = ActiveFields(j.form.game)
  /\ j.step = "health" => j.seen = ActiveFields(GameOf[j.package])

Alone ==
  ~scenario.overlap =>
    /\ \A q, r \in Requests : ~At(q, "idle") /\ ~At(r, "idle") => q = r
    /\ \A r \in Requests : Current(job[r])

Tables ==
  /\ games \in [Games -> Game] /\ packages \in [Packages -> Package] /\ fields \in [Fields -> Field]
  /\ scenario \in Scenarios

Orders ==
  /\ IsFiniteSet(orders)
  /\ \A o \in orders : o.order \in Order /\ o.number \in 1..MaxOrders
  /\ RequiredIsFilled

Jobs == job = [r \in Requests |-> job[r]] /\ \A r \in Requests : Carries(job[r])

IInv == Tables /\ Orders /\ Jobs /\ Alone

------------------------------------------------------------------------------
(* Rows *)

LEMMA ScenarioFacts ==
  ASSUME Tables
  PROVE  /\ scenario.games \subseteq Games /\ scenario.packages \subseteq Packages
         /\ scenario.fields \subseteq Fields /\ scenario.offers \subseteq Offers
         /\ scenario.values \subseteq Entered
<1>1. scenario \in Scenario
  BY GameCatalogueConstants DEF Tables
<1> QED
  BY <1>1 DEF Scenario

\* What administrators write of a game.
LEMMA GameData ==
  /\ \A s \in Statuses : Fits([status |-> s], Game)
  /\ Fits([status |-> "ARCHIVED", deleted |-> TRUE], Game)
<1>1. ASSUME NEW s \in Statuses, NEW b \in BOOLEAN, NEW row \in Game
      PROVE  Merged(row, [status |-> s]) \in Game /\ Merged(row, [status |-> s, deleted |-> b]) \in Game
  <2>1. DOMAIN row = {"made", "status", "deleted"} /\ row.made \in BOOLEAN /\ row.deleted \in BOOLEAN
    BY DEF Game
  <2>2. Merged(row, [status |-> s]) = [made |-> row.made, status |-> s, deleted |-> row.deleted]
    BY <2>1 DEF Merged
  <2>3. Merged(row, [status |-> s, deleted |-> b]) = [made |-> row.made, status |-> s, deleted |-> b]
    BY <2>1 DEF Merged
  <2>4. \A x, y \in BOOLEAN : [made |-> x, status |-> s, deleted |-> y] \in Game
    BY DEF Game
  <2> QED
    BY <2>1, <2>2, <2>3, <2>4, Zenon
<1>2. TRUE \in BOOLEAN /\ "ARCHIVED" \in Statuses
  BY DEF Statuses
<1> QED
  BY <1>1, <1>2, Zenon DEF Fits

\* What administrators write of a package.
LEMMA PackageData ==
  \A b \in BOOLEAN, o \in Offers :
    /\ Fits([active |-> b], Package) /\ Fits([stocked |-> b], Package) /\ Fits([offer |-> o], Package)
    /\ Fits([made |-> TRUE, active |-> TRUE, stocked |-> b, offer |-> o], Package)
<1>1. ASSUME NEW row \in Package, NEW b \in BOOLEAN, NEW o \in Offers, NEW x \in BOOLEAN
      PROVE  /\ Merged(row, [active |-> b]) \in Package /\ Merged(row, [stocked |-> b]) \in Package
             /\ Merged(row, [offer |-> o]) \in Package
             /\ Merged(row, [made |-> x, active |-> x, stocked |-> b, offer |-> o]) \in Package
  <2>1. /\ DOMAIN row = {"made", "active", "stocked", "offer"}
        /\ row.made \in BOOLEAN /\ row.active \in BOOLEAN /\ row.stocked \in BOOLEAN /\ row.offer \in Offers
    BY DEF Package
  <2>2. Merged(row, [active |-> b]) =
          [made |-> row.made, active |-> b, stocked |-> row.stocked, offer |-> row.offer]
    BY <2>1 DEF Merged
  <2>3. Merged(row, [stocked |-> b]) =
          [made |-> row.made, active |-> row.active, stocked |-> b, offer |-> row.offer]
    BY <2>1 DEF Merged
  <2>4. Merged(row, [offer |-> o]) =
          [made |-> row.made, active |-> row.active, stocked |-> row.stocked, offer |-> o]
    BY <2>1 DEF Merged
  <2>5. Merged(row, [made |-> x, active |-> x, stocked |-> b, offer |-> o]) =
          [made |-> x, active |-> x, stocked |-> b, offer |-> o]
    BY <2>1 DEF Merged
  <2>6. \A m, a, n \in BOOLEAN, p \in Offers :
          [made |-> m, active |-> a, stocked |-> n, offer |-> p] \in Package
    BY DEF Package
  <2>7. Merged(row, [active |-> b]) \in Package
    BY <2>1, <2>2, <2>6, Zenon
  <2>10. Merged(row, [stocked |-> b]) \in Package
    BY <2>1, <2>3, <2>6, Zenon
  <2>8. Merged(row, [offer |-> o]) \in Package
    BY <2>1, <2>4, <2>6, Zenon
  <2>9. Merged(row, [made |-> x, active |-> x, stocked |-> b, offer |-> o]) \in Package
    BY <2>5, <2>6, Zenon
  <2> QED
    BY <2>7, <2>8, <2>9, <2>10
<1>2. TRUE \in BOOLEAN
  OBVIOUS
<1> QED
  BY <1>1, <1>2, Zenon DEF Fits

\* What administrators write of an account field.
LEMMA FieldData ==
  \A b \in BOOLEAN :
    /\ Fits([active |-> b], Field) /\ Fits([required |-> b], Field)
    /\ Fits([made |-> TRUE, active |-> TRUE, required |-> b], Field)
<1>1. ASSUME NEW row \in Field, NEW b \in BOOLEAN, NEW x \in BOOLEAN
      PROVE  /\ Merged(row, [active |-> b]) \in Field /\ Merged(row, [required |-> b]) \in Field
             /\ Merged(row, [made |-> x, active |-> x, required |-> b]) \in Field
  <2>1. /\ DOMAIN row = {"made", "active", "required"}
        /\ row.made \in BOOLEAN /\ row.active \in BOOLEAN /\ row.required \in BOOLEAN
    BY DEF Field
  <2>2. Merged(row, [active |-> b]) = [made |-> row.made, active |-> b, required |-> row.required]
    BY <2>1 DEF Merged
  <2>3. Merged(row, [required |-> b]) = [made |-> row.made, active |-> row.active, required |-> b]
    BY <2>1 DEF Merged
  <2>4. Merged(row, [made |-> x, active |-> x, required |-> b]) =
          [made |-> x, active |-> x, required |-> b]
    BY <2>1 DEF Merged
  <2>5. \A m, a, n \in BOOLEAN : [made |-> m, active |-> a, required |-> n] \in Field
    BY DEF Field
  <2> QED
    BY <2>1, <2>2, <2>3, <2>4, <2>5, Zenon
<1>2. TRUE \in BOOLEAN
  OBVIOUS
<1> QED
  BY <1>1, <1>2, Zenon DEF Fits

\* The form is built from the fields of one query.
LEMMA FormsAreShaped ==
  ASSUME NEW g \in Games
  PROVE  Shaped(ActiveFields(g)) /\ ActiveFields(g).game = g
BY DEF Shaped, ActiveFields, Form

LEMMA IdleFacts == Carries(Idle) /\ Current(Idle) /\ Idle.step = "idle"
<1>1. EmptyForm \in Form
  BY DEF EmptyForm, Form
<1>2. Idle.step = "idle" /\ Idle.form = EmptyForm
  BY DEF Idle
<1> QED
  BY <1>1, <1>2 DEF Carries, Current

------------------------------------------------------------------------------
(* Requests *)

\* With one request at a time, the others are idle while one runs and while one begins.
LEMMA OthersAreIdle ==
  ASSUME IInv, ~scenario.overlap, NEW r \in Requests, job[r].step # "idle" \/ Busy(Requests) = {}
  PROVE  \A q \in Requests \ {r} : job[q].step = "idle"
BY DEF IInv, Alone, Busy, At

\* The job of one request changes.
LEMMA JobMoves ==
  ASSUME IInv, NEW r \in Requests, NEW j, job' = [job EXCEPT ![r] = j], scenario' = scenario,
         Carries(j), job[r].step # "idle" \/ MayStart(r),
         \/ j.step \in {"idle", "write"}
         \/ fields' = fields /\ (~scenario.overlap => Current(j))
  PROVE  Jobs' /\ Alone'
<1>1. /\ job' = [q \in Requests |-> job'[q]] /\ job'[r] = j
      /\ \A q \in Requests : q # r => job'[q] = job[q]
  BY DEF IInv, Jobs
<1>2. Jobs'
  <2>1. \A q \in Requests : Carries(job'[q])
    BY <1>1 DEF IInv, Jobs
  <2> QED
    BY <1>1, <2>1 DEF Jobs, Carries
<1>3. ASSUME ~scenario.overlap PROVE \A q \in Requests \ {r} : job[q].step = "idle"
  BY <1>3, OthersAreIdle DEF MayStart
<1>4. ASSUME ~scenario.overlap, NEW q \in Requests PROVE Current(job[q])'
  <2>1. CASE job'[q].step \in {"idle", "write"}
    BY <2>1 DEF Current
  <2>2. CASE q = r /\ fields' = fields /\ Current(j)
    BY <1>1, <2>2 DEF Current, ActiveFields
  <2> QED
    BY <1>1, <1>3, <1>4, <2>1, <2>2
<1>5. Alone'
  <2>1. ASSUME ~scenario.overlap, NEW q \in Requests PROVE Current(job[q])'
    BY <1>4, <2>1
  <2>2. ASSUME ~scenario.overlap, NEW q \in Requests, NEW x \in Requests,
               job'[q].step # "idle", job'[x].step # "idle"
        PROVE  q = x
    BY <1>1, <1>3, <2>2
  <2> QED
    BY <2>1, <2>2 DEF Alone, At
<1> QED
  BY <1>2, <1>5

\* No request moves.
LEMMA JobsStay ==
  ASSUME IInv, job' = job, scenario' = scenario,
         fields' = fields \/ (~scenario.overlap => \A q \in Requests : job[q].step = "idle")
  PROVE  Jobs' /\ Alone'
<1>1. Jobs'
  BY DEF IInv, Jobs, Carries
<1>2. ASSUME ~scenario.overlap, NEW q \in Requests PROVE Current(job[q])'
  <2>1. CASE fields' = fields
    <3>1. Current(job[q])
      BY <1>2 DEF IInv, Alone
    <3> QED
      BY <2>1, <3>1 DEF Current, ActiveFields
  <2>2. CASE job[q].step = "idle"
    BY <2>2 DEF Current
  <2> QED
    BY <1>2, <2>1, <2>2
<1>3. Alone'
  BY <1>2 DEF IInv, Alone, At
<1> QED
  BY <1>1, <1>3

LEMMA TablesKeep ==
  ASSUME IInv, UNCHANGED <<catalogueVars, orders, scenario>>, Jobs', Alone'
  PROVE  IInv'
BY DEF IInv, catalogueVars, Tables, Orders, RequiredIsFilled

\* A request goes on with what it has read, and writes nothing.
LEMMA ReadsKeep ==
  ASSUME IInv, NEW r \in Requests, NEW j, job' = [job EXCEPT ![r] = j],
         UNCHANGED <<catalogueVars, orders, scenario>>, Carries(j), job[r].step # "idle" \/ MayStart(r),
         ~scenario.overlap => Current(j)
  PROVE  IInv'
<1>1. scenario' = scenario /\ fields' = fields
  BY DEF catalogueVars
<1>2. Jobs' /\ Alone'
  BY <1>1, JobMoves
<1> QED
  BY <1>2, TablesKeep

LEMMA DoneKeeps ==
  ASSUME IInv, NEW r \in Requests, job[r].step # "idle", Done(r),
         UNCHANGED <<catalogueVars, orders, scenario>>
  PROVE  IInv'
BY IdleFacts, ReadsKeep DEF Done

------------------------------------------------------------------------------
(* Administration *)

\* createGame writes a game with its packages and fields in one transaction.
LEMMA CreateGameKeeps ==
  ASSUME IInv, NEW a \in Requests, NEW g \in Games, NEW ps, NEW fs, CreateGame(a, g, ps, fs)
  PROVE  IInv'
<1>1. PICK s \in {"ACTIVE", "INACTIVE"}, required \in SUBSET fs, o \in scenario.offers :
        /\ games' = [games EXCEPT ![g] = [made |-> TRUE, status |-> s, deleted |-> FALSE]]
        /\ packages' = [p \in Packages |->
             IF p \in ps THEN [made |-> TRUE, active |-> TRUE, stocked |-> TRUE, offer |-> o]
             ELSE packages[p]]
        /\ fields' = [f \in Fields |->
             IF f \in fs THEN [made |-> TRUE, active |-> TRUE, required |-> f \in required]
             ELSE fields[f]]
  BY DEF CreateGame
<1>2. MayStart(a) /\ orders' = orders /\ job' = job /\ scenario' = scenario
  BY DEF CreateGame
<1>3. o \in Offers
  BY ScenarioFacts DEF IInv
<1>4. games' \in [Games -> Game]
  <2>1. [made |-> TRUE, status |-> s, deleted |-> FALSE] \in Game
    BY DEF Game, Statuses
  <2> QED
    BY <1>1, <2>1 DEF IInv, Tables
<1>5. packages' \in [Packages -> Package]
  <2>1. [made |-> TRUE, active |-> TRUE, stocked |-> TRUE, offer |-> o] \in Package
    BY <1>3 DEF Package
  <2> QED
    BY <1>1, <2>1 DEF IInv, Tables
<1>6. fields' \in [Fields -> Field]
  <2>1. \A b \in BOOLEAN : [made |-> TRUE, active |-> TRUE, required |-> b] \in Field
    BY DEF Field
  <2>2. ASSUME NEW f \in Fields
        PROVE  [made |-> TRUE, active |-> TRUE, required |-> f \in required] \in Field
    <3>1. (f \in required) \in BOOLEAN
      OBVIOUS
    <3> QED
      BY <2>1, <3>1, Zenon
  <2> QED
    BY <1>1, <2>2 DEF IInv, Tables
<1>7. ~scenario.overlap => \A q \in Requests : job[q].step = "idle"
  BY <1>2 DEF MayStart, Busy, At
<1>8. Jobs' /\ Alone'
  BY <1>2, <1>7, JobsStay
<1>9. Tables' /\ Orders'
  BY <1>2, <1>4, <1>5, <1>6 DEF IInv, Tables, Orders, RequiredIsFilled
<1> QED
  BY <1>8, <1>9 DEF IInv

\* An edit begins, with data that every row of its table can take.
LEMMA EditKeeps ==
  ASSUME IInv, NEW a \in Requests, NEW table, NEW id, NEW value, Edit(a, table, id, value),
         table = "game" => id \in Games /\ Fits(value, Game),
         table = "package" => id \in Packages /\ Fits(value, Package),
         table = "field" => id \in Fields /\ Fits(value, Field)
  PROVE  IInv'
<1> DEFINE j == [step |-> "write", answer |-> "none", form |-> EmptyForm,
                 table |-> table, id |-> id, value |-> value]
<1>1. /\ MayStart(a) /\ job' = [job EXCEPT ![a] = j] /\ UNCHANGED <<catalogueVars, orders, scenario>>
  BY DEF Edit
<1>2. /\ j.step = "write" /\ j.form = EmptyForm /\ j.table = table /\ j.id = id /\ j.value = value
  OBVIOUS
<1> HIDE DEF j
<1>3. EmptyForm \in Form
  BY DEF EmptyForm, Form
<1>4. Carries(j) /\ Current(j)
  BY <1>2, <1>3 DEF Carries, Current
<1> QED
  BY <1>1, <1>4, ReadsKeep

LEMMA GameEditsKeep ==
  ASSUME IInv, NEW a \in Requests, NEW g \in Games, UpdateGame(a, g) \/ ArchiveGame(a, g)
  PROVE  IInv'
<1>1. ASSUME NEW s \in {"ACTIVE", "INACTIVE"}, Edit(a, "game", g, [status |-> s]) PROVE IInv'
  <2>1. Fits([status |-> s], Game)
    BY GameData DEF Statuses
  <2> QED
    BY <1>1, <2>1, EditKeeps
<1>2. CASE Edit(a, "game", g, [status |-> "ARCHIVED", deleted |-> TRUE])
  BY <1>2, GameData, EditKeeps
<1> QED
  BY <1>1, <1>2 DEF UpdateGame, ArchiveGame

LEMMA PackageEditsKeep ==
  ASSUME IInv, NEW a \in Requests, NEW p \in Packages,
         CreatePackage(a, p) \/ UpdatePackage(a, p) \/ DeactivatePackage(a, p)
  PROVE  IInv'
<1>1. scenario.offers \subseteq Offers
  BY ScenarioFacts DEF IInv
<1>2. PICK any \in Offers : TRUE
  BY GameCatalogueConstants
<1>3. ASSUME NEW o \in scenario.offers, NEW n \in BOOLEAN,
             Edit(a, "package", p, [made |-> TRUE, active |-> TRUE, stocked |-> n, offer |-> o])
      PROVE  IInv'
  BY <1>1, <1>3, PackageData, EditKeeps
<1>4. ASSUME NEW b \in BOOLEAN, \/ Edit(a, "package", p, [active |-> b])
                                \/ Edit(a, "package", p, [stocked |-> b])
      PROVE  IInv'
  BY <1>2, <1>4, PackageData, EditKeeps
<1>5. ASSUME NEW o \in scenario.offers, Edit(a, "package", p, [offer |-> o]) PROVE IInv'
  <2>1. Fits([offer |-> o], Package)
    BY <1>1, PackageData
  <2> QED
    BY <1>5, <2>1, EditKeeps
<1>6. ASSUME CreatePackage(a, p) PROVE IInv'
  BY <1>3, <1>6 DEF CreatePackage
<1>7. ASSUME UpdatePackage(a, p) PROVE IInv'
  BY <1>4, <1>5, <1>7 DEF UpdatePackage
<1>8. ASSUME DeactivatePackage(a, p) PROVE IInv'
  <2>1. FALSE \in BOOLEAN /\ Edit(a, "package", p, [active |-> FALSE])
    BY <1>8 DEF DeactivatePackage
  <2> QED
    BY <1>4, <2>1, Zenon
<1> QED
  BY <1>6, <1>7, <1>8

LEMMA FieldEditsKeep ==
  ASSUME IInv, NEW a \in Requests, NEW f \in Fields,
         CreateAccountField(a, f) \/ UpdateAccountField(a, f) \/ DeactivateAccountField(a, f)
  PROVE  IInv'
<1>1. ASSUME NEW b \in BOOLEAN, Edit(a, "field", f, [made |-> TRUE, active |-> TRUE, required |-> b])
      PROVE  IInv'
  BY <1>1, FieldData, EditKeeps
<1>2. ASSUME NEW b \in BOOLEAN, \/ Edit(a, "field", f, [active |-> b])
                                \/ Edit(a, "field", f, [required |-> b])
      PROVE  IInv'
  BY <1>2, FieldData, EditKeeps
<1>3. ASSUME CreateAccountField(a, f) PROVE IInv'
  BY <1>1, <1>3 DEF CreateAccountField
<1>4. ASSUME UpdateAccountField(a, f) PROVE IInv'
  BY <1>2, <1>4 DEF UpdateAccountField
<1>5. ASSUME DeactivateAccountField(a, f) PROVE IInv'
  <2>1. FALSE \in BOOLEAN /\ Edit(a, "field", f, [active |-> FALSE])
    BY <1>5 DEF DeactivateAccountField
  <2> QED
    BY <1>2, <2>1, Zenon
<1> QED
  BY <1>3, <1>4, <1>5

\* An edit writes what it checked before, to whatever the row has become.
LEMMA WriteKeeps ==
  ASSUME IInv, NEW a \in Requests, Write(a)
  PROVE  IInv'
<1> DEFINE j == job[a]
<1>1. /\ j.step = "write" /\ Carries(j) /\ Done(a) /\ orders' = orders /\ scenario' = scenario
      /\ games' = Apply(games, "game", a) /\ packages' = Apply(packages, "package", a)
      /\ fields' = Apply(fields, "field", a)
      /\ games \in [Games -> Game] /\ packages \in [Packages -> Package] /\ fields \in [Fields -> Field]
  BY DEF Write, At, IInv, Jobs, Tables
<1> HIDE DEF j
<1>2. games' \in [Games -> Game]
  <2>1. games' = IF j.table = "game" THEN [games EXCEPT ![j.id] = Merged(games[j.id], j.value)] ELSE games
    BY <1>1 DEF Apply, j
  <2>2. j.table = "game" => j.id \in Games /\ Merged(games[j.id], j.value) \in Game
    BY <1>1 DEF Carries, Fits
  <2> QED
    BY <1>1, <2>1, <2>2
<1>3. packages' \in [Packages -> Package]
  <2>1. packages' = IF j.table = "package" THEN [packages EXCEPT ![j.id] = Merged(packages[j.id], j.value)]
                    ELSE packages
    BY <1>1 DEF Apply, j
  <2>2. j.table = "package" => j.id \in Packages /\ Merged(packages[j.id], j.value) \in Package
    BY <1>1 DEF Carries, Fits
  <2> QED
    BY <1>1, <2>1, <2>2
<1>4. fields' \in [Fields -> Field]
  <2>1. fields' = IF j.table = "field" THEN [fields EXCEPT ![j.id] = Merged(fields[j.id], j.value)] ELSE fields
    BY <1>1 DEF Apply, j
  <2>2. j.table = "field" => j.id \in Fields /\ Merged(fields[j.id], j.value) \in Field
    BY <1>1 DEF Carries, Fits
  <2> QED
    BY <1>1, <2>1, <2>2
<1>5. Jobs' /\ Alone'
  BY <1>1, IdleFacts, JobMoves DEF Done, j
<1>6. Tables' /\ Orders'
  BY <1>1, <1>2, <1>3, <1>4 DEF IInv, Tables, Orders, RequiredIsFilled
<1> QED
  BY <1>5, <1>6 DEF IInv

------------------------------------------------------------------------------
(* Orders *)

LEMMA ReadFormKeeps ==
  ASSUME IInv, NEW c \in Requests, NEW g \in Games, ReadForm(c, g)
  PROVE  IInv'
<1> DEFINE form == ActiveFields(g)
           j == [Idle EXCEPT !.step = "form", !.form = form]
<1>1. MayStart(c) /\ job' = [job EXCEPT ![c] = j] /\ UNCHANGED <<catalogueVars, orders, scenario>>
  BY DEF ReadForm
<1>2. form \in Form /\ form.game = g
  BY FormsAreShaped DEF Shaped
<1> HIDE DEF form
<1>3. j.step = "form" /\ j.form = form
  BY DEF Idle
<1> HIDE DEF j
<1>4. Carries(j) /\ Current(j)
  BY <1>2, <1>3 DEF Carries, Current, form
<1> QED
  BY <1>1, <1>4, ReadsKeep

LEMMA DetailsAreEntered ==
  ASSUME IInv, NEW v \in [scenario.fields -> scenario.values]
  PROVE  Details(v) \in [Fields -> Entered]
BY ScenarioFacts DEF IInv, Details, Entered

\* createOrder carries on with what one query has read.
LEMMA CheckPackageKeeps ==
  ASSUME IInv, NEW c \in Requests, NEW p \in Packages, NEW gameId, NEW details \in [Fields -> Entered],
         CheckPackage(c, p, gameId, details)
  PROVE  IInv'
<1>1. job[c].step = "form" /\ UNCHANGED <<catalogueVars, orders, scenario>>
  BY DEF CheckPackage, At
<1>2. CASE Done(c)
  BY <1>1, <1>2, DoneKeeps
<1> DEFINE form == job[c].form
           offer == packages[p].offer
           seen == ActiveFields(GameOf[p])
           j == [step |-> "health", answer |-> "none", form |-> form, package |-> p,
                 details |-> details, offer |-> offer, seen |-> seen]
<1>3. CASE job' = [job EXCEPT ![c] = j]
  <2>1. GameOf[p] \in Games /\ offer \in Offers /\ form \in Form
    BY GameCatalogueConstants DEF IInv, Tables, Package, Jobs, Carries
  <2>2. Shaped(seen)
    BY <2>1, FormsAreShaped
  <2>3. ~scenario.overlap => form = ActiveFields(form.game)
    BY <1>1 DEF IInv, Alone, Current
  <2> HIDE DEF form, offer, seen
  <2>4. /\ j.step = "health" /\ j.answer = "none" /\ j.form = form /\ j.package = p
        /\ j.details = details /\ j.offer = offer /\ j.seen = seen
    OBVIOUS
  <2>5. job' = [job EXCEPT ![c] = j]
    BY <1>3 DEF form, offer, seen
  <2> HIDE DEF j
  <2>6. Carries(j)
    BY <2>1, <2>2, <2>4 DEF Carries
  <2>7. ~scenario.overlap => Current(j)
    BY <2>3, <2>4 DEF Current, seen
  <2> QED
    BY <1>1, <2>5, <2>6, <2>7, ReadsKeep
<1> QED
  BY <1>2, <1>3 DEF CheckPackage

\* Details that are valid fill what was required of them.
LEMMA ValidIsFilled ==
  ASSUME NEW seen, Shaped(seen), NEW details, ValidDetails(seen, details), NEW f \in seen.required
  PROVE  details[f] = "fits"
<1>1. f \in seen.fields
  BY DEF Shaped
<1> QED
  BY <1>1 DEF ValidDetails, FieldsValid, ValidValue

LEMMA PlaceOrderKeeps ==
  ASSUME IInv, NEW c \in Requests, PlaceOrder(c)
  PROVE  IInv'
<1> DEFINE j == job[c]
           order == [package |-> j.package, offer |-> j.offer, required |-> j.seen.required,
                     details |-> j.details]
           n == Cardinality(orders)
           row == [number |-> n + 1, order |-> order]
<1>1. /\ j.step = "health" /\ ValidDetails(j.seen, j.details) /\ n < MaxOrders
      /\ orders' = orders \cup {row} /\ Done(c) /\ UNCHANGED <<catalogueVars, scenario>>
      /\ fields' = fields /\ scenario' = scenario
  BY DEF PlaceOrder, Snapshot, At, catalogueVars
<1>2. /\ j.package \in Packages /\ j.offer \in Offers /\ j.details \in [Fields -> Entered]
      /\ Shaped(j.seen)
  BY <1>1 DEF IInv, Jobs, Carries
<1>3. IsFiniteSet(orders) /\ n \in Nat /\ MaxOrders \in Nat
  BY GameCatalogueConstants, FS_CardinalityType DEF IInv, Orders
<1>4. order \in Order
  <2>1. j.seen.required \in SUBSET Fields
    BY <1>2 DEF Shaped, Form
  <2> QED
    BY <1>2, <2>1 DEF Order
<1>5. \A f \in order.required : order.details[f] = "fits"
  BY <1>1, <1>2, ValidIsFilled
<1> HIDE DEF order, n, j
<1>6. row.order = order /\ row.number \in 1..MaxOrders
  BY <1>1, <1>3
<1>7. IsFiniteSet(orders')
  BY <1>1, <1>3, FS_AddElement
<1> HIDE DEF row
<1>8. Orders'
  BY <1>1, <1>4, <1>5, <1>6, <1>7 DEF IInv, Orders, RequiredIsFilled
<1>9. Tables'
  BY <1>1 DEF IInv, Tables, catalogueVars
<1>10. Jobs' /\ Alone'
  BY <1>1, IdleFacts, JobMoves DEF Done, j
<1> QED
  BY <1>8, <1>9, <1>10 DEF IInv

LEMMA DetailsRefusedKeeps ==
  ASSUME IInv, NEW c \in Requests, DetailsRefused(c)
  PROVE  IInv'
<1> DEFINE j == [Idle EXCEPT !.answer = "INVALID_ACCOUNT_DETAILS"]
<1>1. job[c].step = "health" /\ job' = [job EXCEPT ![c] = j] /\ UNCHANGED <<catalogueVars, orders, scenario>>
  BY DEF DetailsRefused, At
<1>2. j.step = "idle" /\ j.form = EmptyForm /\ EmptyForm \in Form
  BY DEF Idle, EmptyForm, Form
<1> HIDE DEF j
<1>3. Carries(j) /\ Current(j)
  BY <1>2 DEF Carries, Current
<1> QED
  BY <1>1, <1>3, ReadsKeep

------------------------------------------------------------------------------
(* The theorems *)

LEMMA InitEstablishes == Init => IInv
<1> SUFFICES ASSUME Init PROVE IInv
  OBVIOUS
<1>1. Tables
  <2>1. AnyOffer \in Offers
    BY GameCatalogueConstants DEF AnyOffer
  <2>2. [made |-> FALSE, status |-> "INACTIVE", deleted |-> FALSE] \in Game
    BY DEF Game, Statuses
  <2>3. [made |-> FALSE, active |-> FALSE, stocked |-> FALSE, offer |-> AnyOffer] \in Package
    BY <2>1 DEF Package
  <2>4. [made |-> FALSE, active |-> FALSE, required |-> FALSE] \in Field
    BY DEF Field
  <2> QED
    BY <2>2, <2>3, <2>4 DEF Init, Tables
<1>2. Orders
  BY FS_EmptySet DEF Init, Orders, RequiredIsFilled
<1>3. Jobs /\ Alone
  BY IdleFacts DEF Init, Jobs, Alone, At
<1> QED
  BY <1>1, <1>2, <1>3 DEF IInv

LEMMA NextKeeps == IInv /\ [Next]_vars => IInv'
<1> SUFFICES ASSUME IInv, [Next]_vars PROVE IInv'
  OBVIOUS
<1>1. CASE UNCHANGED vars
  <2>1. UNCHANGED <<catalogueVars, orders, scenario>> /\ job' = job /\ scenario' = scenario /\ fields' = fields
    BY <1>1 DEF vars, catalogueVars
  <2>2. Jobs' /\ Alone'
    BY <2>1, JobsStay
  <2> QED
    BY <2>1, <2>2, TablesKeep
<1>2. scenario.games \subseteq Games /\ scenario.packages \subseteq Packages /\ scenario.fields \subseteq Fields
  BY ScenarioFacts DEF IInv
<1>3. ASSUME NEW c \in Customers, OrderStep(c) PROVE IInv'
  <2>0. c \in Requests
    BY DEF Requests
  <2>1. ASSUME NEW g \in scenario.games, ReadForm(c, g) PROVE IInv'
    BY <1>2, <2>0, <2>1, ReadFormKeeps
  <2>2. ASSUME NEW p \in scenario.packages, NEW g, NEW v \in [scenario.fields -> scenario.values],
               CheckPackage(c, p, g, Details(v))
        PROVE  IInv'
    BY <1>2, <2>0, <2>2, DetailsAreEntered, CheckPackageKeeps
  <2>3. CASE PlaceOrder(c)
    BY <2>0, <2>3, PlaceOrderKeeps
  <2>4. CASE DetailsRefused(c)
    BY <2>0, <2>4, DetailsRefusedKeeps
  <2>5. CASE Leave(c)
    BY <2>0, <2>5, DoneKeeps DEF Leave
  <2> QED
    BY <1>3, <2>1, <2>2, <2>3, <2>4, <2>5, Zenon DEF OrderStep
<1>4. ASSUME NEW a \in Admins, Administer(a) PROVE IInv'
  <2>0. a \in Requests
    BY DEF Requests
  <2>1. ASSUME NEW g \in scenario.games, NEW ps, NEW fs, CreateGame(a, g, ps, fs) PROVE IInv'
    BY <1>2, <2>0, <2>1, CreateGameKeeps
  <2>2. ASSUME NEW g \in scenario.games, UpdateGame(a, g) \/ ArchiveGame(a, g) PROVE IInv'
    BY <1>2, <2>0, <2>2, GameEditsKeep
  <2>3. ASSUME NEW p \in scenario.packages,
               CreatePackage(a, p) \/ UpdatePackage(a, p) \/ DeactivatePackage(a, p)
        PROVE  IInv'
    BY <1>2, <2>0, <2>3, PackageEditsKeep
  <2>4. ASSUME NEW f \in scenario.fields,
               CreateAccountField(a, f) \/ UpdateAccountField(a, f) \/ DeactivateAccountField(a, f)
        PROVE  IInv'
    BY <1>2, <2>0, <2>4, FieldEditsKeep
  <2>5. CASE Write(a)
    BY <2>0, <2>5, WriteKeeps
  <2> QED
    BY <1>4, <2>1, <2>2, <2>3, <2>4, <2>5, Zenon DEF Administer
<1> QED
  BY <1>1, <1>3, <1>4, Zenon DEF Next

LEMMA IInvHolds == Spec => []IInv
BY InitEstablishes, NextKeeps, PTL DEF Spec

\* However administrators edit the catalogue under an order (createOrder reads package, game
\* and fields, asks the provider and then writes), the order is well-typed, has a valid value
\* for every field that was required of it, and pairs an amount with the price it was sold at.
THEOREM OrdersStaySound == Spec => []OrdersAreSound
<1>1. IInv => OrdersAreSound
  <2> SUFFICES ASSUME IInv PROVE OrdersAreSound
    OBVIOUS
  <2>1. TypeOK
    BY DEF IInv, Tables, Orders, Jobs, Carries, TypeOK
  <2>2. OrderKeepsOneOffer
    BY DEF IInv, Orders, Order, OrderKeepsOneOffer
  <2> QED
    BY <2>1, <2>2 DEF IInv, Orders, OrdersAreSound
<1> QED
  BY <1>1, IInvHolds, PTL

\* A step that leads to the provider's check is CheckPackage.
LEMMA OnlyCheckPackage ==
  ASSUME IInv, Next, NEW c \in Customers, ~At(c, "health"), job'[c].step = "health"
  PROVE  \E p \in Packages : OnSale(GameOf[p]) /\ job'[c].package = p
<1>1. c \in Requests /\ job = [r \in Requests |-> job[r]] /\ job[c].step # "health"
  BY DEF IInv, Jobs, Requests, At
<1>2. Idle.step = "idle"
  BY DEF Idle
<1>3. ASSUME NEW r \in Requests, NEW j, job' = [job EXCEPT ![r] = j] PROVE r = c /\ j.step = "health"
  BY <1>1, <1>3
<1>4. ASSUME NEW r \in Requests, Done(r) PROVE FALSE
  BY <1>2, <1>3, <1>4 DEF Done
<1>5. scenario.packages \subseteq Packages
  BY ScenarioFacts DEF IInv
<1>6. ASSUME NEW a \in Requests, NEW table, NEW id, NEW value, Edit(a, table, id, value) PROVE FALSE
  <2>1. [step |-> "write", answer |-> "none", form |-> EmptyForm,
         table |-> table, id |-> id, value |-> value].step = "health"
    BY <1>3, <1>6 DEF Edit
  <2> QED
    BY <2>1
<1>7. ASSUME NEW a \in Admins, Administer(a) PROVE FALSE
  <2>0. a \in Requests
    BY DEF Requests
  <2>1. ASSUME NEW g \in scenario.games, NEW ps, NEW fs, CreateGame(a, g, ps, fs) PROVE FALSE
    BY <1>1, <2>1 DEF CreateGame
  <2>2. ASSUME NEW g \in scenario.games, UpdateGame(a, g) \/ ArchiveGame(a, g) PROVE FALSE
    BY <1>6, <2>0, <2>2 DEF UpdateGame, ArchiveGame
  <2>3. ASSUME NEW p \in scenario.packages,
               CreatePackage(a, p) \/ UpdatePackage(a, p) \/ DeactivatePackage(a, p)
        PROVE  FALSE
    BY <1>6, <2>0, <2>3 DEF CreatePackage, UpdatePackage, DeactivatePackage
  <2>4. ASSUME NEW f \in scenario.fields,
               CreateAccountField(a, f) \/ UpdateAccountField(a, f) \/ DeactivateAccountField(a, f)
        PROVE  FALSE
    BY <1>6, <2>0, <2>4 DEF CreateAccountField, UpdateAccountField, DeactivateAccountField
  <2>5. CASE Write(a)
    BY <1>4, <2>0, <2>5 DEF Write
  <2> QED
    BY <1>7, <2>1, <2>2, <2>3, <2>4, <2>5, Zenon DEF Administer
<1>8. ASSUME NEW d \in Customers, OrderStep(d)
      PROVE  \E p \in Packages : OnSale(GameOf[p]) /\ job'[c].package = p
  <2>0. d \in Requests
    BY DEF Requests
  <2>1. ASSUME NEW g \in scenario.games, ReadForm(d, g) PROVE FALSE
    <3>1. [Idle EXCEPT !.step = "form", !.form = ActiveFields(g)].step = "health"
      BY <1>3, <2>0, <2>1 DEF ReadForm
    <3> QED
      BY <3>1 DEF Idle
  <2>2. ASSUME NEW p \in scenario.packages, NEW g, NEW v \in [scenario.fields -> scenario.values],
               CheckPackage(d, p, g, Details(v))
        PROVE  OnSale(GameOf[p]) /\ job'[c].package = p
    <3> DEFINE j == [step |-> "health", answer |-> "none", form |-> job[d].form, package |-> p,
                     details |-> Details(v), offer |-> packages[p].offer,
                     seen |-> ActiveFields(GameOf[p])]
    <3>1. OnSale(GameOf[p]) /\ job' = [job EXCEPT ![d] = j]
      BY <1>4, <2>0, <2>2 DEF CheckPackage
    <3>2. j.package = p
      OBVIOUS
    <3> HIDE DEF j
    <3>3. d = c
      BY <1>3, <2>0, <3>1
    <3> QED
      BY <1>1, <3>1, <3>2, <3>3
  <2>3. ASSUME PlaceOrder(d) PROVE FALSE
    BY <1>4, <2>0, <2>3 DEF PlaceOrder
  <2>4. ASSUME DetailsRefused(d) PROVE FALSE
    <3>1. [Idle EXCEPT !.answer = "INVALID_ACCOUNT_DETAILS"].step = "health"
      BY <1>3, <2>0, <2>4 DEF DetailsRefused
    <3> QED
      BY <3>1 DEF Idle
  <2>5. ASSUME Leave(d) PROVE FALSE
    BY <1>4, <2>0, <2>5 DEF Leave
  <2>6. PICK p \in scenario.packages : OnSale(GameOf[p]) /\ job'[c].package = p
    BY <1>8, <2>1, <2>2, <2>3, <2>4, <2>5, Zenon DEF OrderStep
  <2> QED
    BY <1>5, <2>6
<1> QED
  BY <1>7, <1>8, Zenon DEF Next

\* An order goes on to the provider's check only with a package of a game that is not
\* archived, even when an edit that began before sets its status to ACTIVE afterwards.
THEOREM ArchivedGamesAreGone == Spec => ArchivedIsGone
<1> DEFINE Step == \A c \in Customers : ~At(c, "health") /\ job'[c].step = "health" =>
             ~games[GameOf[job'[c].package]].deleted
<1>1. IInv /\ [Next]_vars => [Step]_vars
  <2> SUFFICES ASSUME IInv, Next, NEW c \in Customers, ~At(c, "health"), job'[c].step = "health"
               PROVE  ~games[GameOf[job'[c].package]].deleted
    OBVIOUS
  <2> QED
    BY OnlyCheckPackage DEF OnSale, NotDeleted
<1> QED
  BY <1>1, IInvHolds, PTL DEF Spec, ArchivedIsGone

\* A form that is filled from the fields it was built from is valid, unless it sends a
\* field whose key contains "token".
LEMMA FilledIsValid ==
  ASSUME NEW form, NEW details \in [Fields -> Entered], FilledIn(form, details),
         \A f \in TokenNamed : details[f] = "absent"
  PROVE  ValidDetails(form, details)
<1>1. \A f \in Fields : details[f] # "absent" => f \in form.fields /\ f \notin TokenNamed
  BY DEF FilledIn
<1>2. \A f \in form.fields : details[f] \in {"absent", "empty"} => f \notin form.required
  BY DEF FilledIn
<1>3. \A f \in form.fields : details[f] \notin {"absent", "empty"} => details[f] = "fits"
  BY DEF FilledIn
<1> QED
  BY <1>1, <1>2, <1>3 DEF ValidDetails, FieldsValid, ValidValue

\* A request that is answered INVALID_ACCOUNT_DETAILS was refused by validateAccountDetails.
LEMMA OnlyDetailsRefused ==
  ASSUME IInv, Next, NEW c \in Customers, At(c, "health"),
         job'[c].answer = "INVALID_ACCOUNT_DETAILS"
  PROVE  ~ValidDetails(job[c].seen, job[c].details)
<1>1. /\ c \in Requests /\ job = [r \in Requests |-> job[r]] /\ job[c].step = "health"
      /\ job[c].answer = "none"
  BY DEF IInv, Jobs, Requests, At, Carries
<1>2. Idle.answer = "none" /\ Idle.step = "idle"
  BY DEF Idle
<1>3. ASSUME NEW r \in Requests, NEW j, job' = [job EXCEPT ![r] = j]
      PROVE  r = c /\ j.answer = "INVALID_ACCOUNT_DETAILS"
  BY <1>1, <1>3
<1>4. ASSUME NEW r \in Requests, Done(r) PROVE FALSE
  BY <1>2, <1>3, <1>4 DEF Done
<1>5. ASSUME NEW r \in Requests, MayStart(r) \/ At(r, "form") PROVE r # c
  BY <1>1, <1>5 DEF MayStart, At
<1>6. ASSUME NEW a \in Requests, NEW table, NEW id, NEW value, Edit(a, table, id, value) PROVE FALSE
  BY <1>3, <1>5, <1>6 DEF Edit
<1>7. ASSUME NEW a \in Admins, Administer(a) PROVE FALSE
  <2>0. a \in Requests
    BY DEF Requests
  <2>1. ASSUME NEW g \in scenario.games, NEW ps, NEW fs, CreateGame(a, g, ps, fs) PROVE FALSE
    BY <1>1, <2>1 DEF CreateGame
  <2>2. ASSUME NEW g \in scenario.games, UpdateGame(a, g) \/ ArchiveGame(a, g) PROVE FALSE
    BY <1>6, <2>0, <2>2 DEF UpdateGame, ArchiveGame
  <2>3. ASSUME NEW p \in scenario.packages,
               CreatePackage(a, p) \/ UpdatePackage(a, p) \/ DeactivatePackage(a, p)
        PROVE  FALSE
    BY <1>6, <2>0, <2>3 DEF CreatePackage, UpdatePackage, DeactivatePackage
  <2>4. ASSUME NEW f \in scenario.fields,
               CreateAccountField(a, f) \/ UpdateAccountField(a, f) \/ DeactivateAccountField(a, f)
        PROVE  FALSE
    BY <1>6, <2>0, <2>4 DEF CreateAccountField, UpdateAccountField, DeactivateAccountField
  <2>5. CASE Write(a)
    BY <1>4, <2>0, <2>5 DEF Write
  <2> QED
    BY <1>7, <2>1, <2>2, <2>3, <2>4, <2>5, Zenon DEF Administer
<1>8. ASSUME NEW d \in Customers, OrderStep(d)
      PROVE  ~ValidDetails(job[c].seen, job[c].details)
  <2>0. d \in Requests
    BY DEF Requests
  <2>1. ASSUME NEW g \in scenario.games, ReadForm(d, g) PROVE FALSE
    BY <1>3, <1>5, <2>0, <2>1 DEF ReadForm
  <2>2. ASSUME NEW p \in scenario.packages, NEW g, NEW v \in [scenario.fields -> scenario.values],
               CheckPackage(d, p, g, Details(v))
        PROVE  FALSE
    <3>1. d # c
      BY <1>5, <2>0, <2>2 DEF CheckPackage
    <3> QED
      BY <1>3, <1>4, <2>0, <2>2, <3>1 DEF CheckPackage
  <2>3. ASSUME PlaceOrder(d) PROVE FALSE
    BY <1>4, <2>0, <2>3 DEF PlaceOrder
  <2>4. ASSUME DetailsRefused(d) PROVE d = c
    BY <1>3, <2>0, <2>4 DEF DetailsRefused
  <2>5. ASSUME Leave(d) PROVE FALSE
    BY <1>4, <2>0, <2>5 DEF Leave
  <2>6. DetailsRefused(d)
    BY <1>8, <2>1, <2>2, <2>3, <2>5, Zenon DEF OrderStep
  <2> QED
    BY <2>4, <2>6 DEF DetailsRefused
<1> QED
  BY <1>7, <1>8, Zenon DEF Next

\* With one request at a time, a form that is built from the public fields of the game
\* (listPublicAccountFields) and filled is not refused by validateAccountDetails, unless it
\* sends a field whose key contains "token".
THEOREM FilledFormsAreAccepted == Spec => FilledFormIsAccepted
<1> DEFINE Step == \A c \in Customers :
             ~scenario.overlap /\ At(c, "health") /\ job'[c].answer = "INVALID_ACCOUNT_DETAILS" =>
               \/ job[c].form.game # GameOf[job[c].package]
               \/ ~FilledIn(job[c].form, job[c].details)
               \/ \E f \in TokenNamed : job[c].details[f] # "absent"
<1>1. IInv /\ [Next]_vars => [Step]_vars
  <2> SUFFICES ASSUME IInv, Next, NEW c \in Customers, ~scenario.overlap, At(c, "health"),
                      job'[c].answer = "INVALID_ACCOUNT_DETAILS",
                      job[c].form.game = GameOf[job[c].package],
                      FilledIn(job[c].form, job[c].details),
                      \A f \in TokenNamed : job[c].details[f] = "absent"
               PROVE  FALSE
    OBVIOUS
  <2>1. c \in Requests /\ job[c].step = "health"
    BY DEF Requests, At
  <2>2. job[c].details \in [Fields -> Entered] /\ Current(job[c])
    BY <2>1 DEF IInv, Jobs, Carries, Alone
  <2>3. job[c].seen = job[c].form
    BY <2>1, <2>2 DEF Current
  <2>4. ValidDetails(job[c].seen, job[c].details)
    BY <2>2, <2>3, FilledIsValid
  <2> QED
    BY <2>4, OnlyDetailsRefused
<1> QED
  BY <1>1, IInvHolds, PTL DEF Spec, FilledFormIsAccepted
==============================================================================
