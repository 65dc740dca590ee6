------------------------------ MODULE GameCatalogue ------------------------------
(***************************************************************************)
(* The top-up catalogue and the orders placed from it: administrators       *)
(* create, edit, deactivate and archive games, packages and account fields,  *)
(* customers read the public catalogue, fill the form built from it and      *)
(* order.                                                                   *)
(*                                                                         *)
(* An edit asserts that the row is there and writes by id with the next     *)
(* query; an order reads package, game and active fields with one query,     *)
(* asks the provider for its health and writes from what it read.  What      *)
(* happens to the order afterwards is in GameTopUp.                         *)
(***************************************************************************)
EXTENDS FiniteSets, Naturals

CONSTANTS
  Games, Packages, Fields,
  GameOf,        \* [Packages \cup Fields -> Games]
  Strict,        \* fields whose type, rules or options an empty string fails
  TokenNamed,    \* fields whose key contains "token"
  Offers,        \* pairs of a price and an amount that administrators sell
  Customers, Admins,
  NoGame,
  MaxOrders,     \* bound: orders ever placed
  Scenarios      \* the values of scenario

\* What an account detail can be: no such key, "", only spaces, a string that
\* satisfies the field's type and rules, one that does not, something else.
Entered == {"absent", "empty", "blank", "fits", "misfit", "notString"}

\* What happens in a behaviour: the games, packages and fields there will be, the
\* offers administrators enter and the values customers enter, how many
\* administrators edit at once, and whether requests overlap at all.
Scenario ==
  [games : SUBSET Games, packages : SUBSET Packages, fields : SUBSET Fields,
   offers : SUBSET Offers, values : SUBSET Entered, admins : Nat, overlap : BOOLEAN]

ASSUME GameCatalogueConstants ==
  /\ GameOf \in [Packages \cup Fields -> Games]
  /\ Strict \subseteq Fields /\ TokenNamed \subseteq Fields
  /\ Scenarios \subseteq Scenario /\ MaxOrders \in Nat
  /\ NoGame \notin Games /\ Offers # {}

VARIABLES
  games,      \* game_top_up_products: status and whether deletedAt is set
  packages,   \* game_top_up_packages: isActive, stockQuantity is not 0, offer
  fields,     \* game_top_up_input_fields: isActive, isRequired
  orders,     \* the orders placed
  scenario,   \* fixed by the initial state
  job         \* what each request is doing

catalogueVars == <<games, packages, fields>>
vars == <<catalogueVars, orders, scenario, job>>

Requests == Customers \cup Admins
Statuses == {"ACTIVE", "INACTIVE", "ARCHIVED"}
Game == [made : BOOLEAN, status : Statuses, deleted : BOOLEAN]
Package == [made : BOOLEAN, active : BOOLEAN, stocked : BOOLEAN, offer : Offers]
Field == [made : BOOLEAN, active : BOOLEAN, required : BOOLEAN]
Form == [game : Games \cup {NoGame}, fields : SUBSET Fields, required : SUBSET Fields]

EmptyForm == [game |-> NoGame, fields |-> {}, required |-> {}]
Idle == [step |-> "idle", answer |-> "none", form |-> EmptyForm]

Order == [package : Packages, offer : Offers, required : SUBSET Fields, details : [Fields -> Entered]]

TypeOK ==
  /\ games \in [Games -> Game] /\ packages \in [Packages -> Package] /\ fields \in [Fields -> Field]
  /\ \A o \in orders : o.order \in Order /\ o.number \in 1..MaxOrders
  /\ scenario \in Scenarios
  /\ \A r \in Requests : job[r].step \in {"idle", "write", "form", "health"} /\ job[r].form \in Form

AnyOffer == CHOOSE o \in Offers : TRUE
Init ==
  /\ scenario \in Scenarios
  /\ games = [g \in Games |-> [made |-> FALSE, status |-> "INACTIVE", deleted |-> FALSE]]
  /\ packages = [p \in Packages |->
       [made |-> FALSE, active |-> FALSE, stocked |-> FALSE, offer |-> AnyOffer]]
  /\ fields = [f \in Fields |-> [made |-> FALSE, active |-> FALSE, required |-> FALSE]]
  /\ orders = {} /\ job = [r \in Requests |-> Idle]

At(r, step) == job[r].step = step
Busy(S) == {q \in S : ~At(q, "idle")}
MayStart(r) ==
  /\ At(r, "idle")
  /\ scenario.overlap \/ Busy(Requests) = {}
  /\ r \in Admins => Cardinality(Busy(Admins)) < scenario.admins
Done(r) == job' = [job EXCEPT ![r] = Idle]

\* Mistake: an archived game is recognised by its status alone.
ByStatus(g) == games[g].status # "ARCHIVED"
NotDeleted(g) == ~games[g].deleted

\* assertGame, assertPackage and assertField.
AssertGame(g) == games[g].made /\ NotDeleted(g)
AssertPackage(p) == packages[p].made /\ NotDeleted(GameOf[p])
AssertField(f) == fields[f].made /\ NotDeleted(GameOf[f])

------------------------------------------------------------------------------
(* Administration *)

\* createGame, and createTopUp's transaction with packages and fields.
CreateGame(a, g, ps, fs) ==
  /\ MayStart(a) /\ ~games[g].made
  /\ \A x \in ps \cup fs : GameOf[x] = g
  /\ \E s \in {"ACTIVE", "INACTIVE"}, required \in SUBSET fs, o \in scenario.offers :
       /\ games' = [games EXCEPT ![g] = [made |-> TRUE, status |-> s, deleted |-> FALSE]]
       /\ packages' = [p \in Packages |->
            IF p \in ps THEN [made |-> TRUE, active |-> TRUE, stocked |-> TRUE, offer |-> o]
            ELSE packages[p]]
       /\ fields' = [f \in Fields |->
            IF f \in fs THEN [made |-> TRUE, active |-> TRUE, required |-> f \in required]
            ELSE fields[f]]
  /\ UNCHANGED <<orders, job, scenario>>

\* The first query of an edit: the row is there, the write comes next.
Edit(a, table, id, value) ==
  /\ MayStart(a)
  /\ job' = [job EXCEPT ![a] = [step |-> "write", answer |-> "none", form |-> EmptyForm,
                                table |-> table, id |-> id, value |-> value]]
  /\ UNCHANGED <<catalogueVars, orders, scenario>>

\* updateGame, also through updateTopUp, which drops a payload's status.
UpdateGame(a, g) ==
  /\ AssertGame(g)
  /\ \E s \in {"ACTIVE", "INACTIVE"} : Edit(a, "game", g, [status |-> s])
ArchiveGame(a, g) ==
  AssertGame(g) /\ Edit(a, "game", g, [status |-> "ARCHIVED", deleted |-> TRUE])

CreatePackage(a, p) ==
  /\ AssertGame(GameOf[p]) /\ ~packages[p].made
  /\ \E o \in scenario.offers, n \in BOOLEAN :
       Edit(a, "package", p, [made |-> TRUE, active |-> TRUE, stocked |-> n, offer |-> o])
UpdatePackage(a, p) ==
  /\ AssertPackage(p)
  /\ \/ \E b \in BOOLEAN : Edit(a, "package", p, [active |-> b])
     \/ \E o \in scenario.offers : Edit(a, "package", p, [offer |-> o])
     \/ \E n \in BOOLEAN : Edit(a, "package", p, [stocked |-> n])
DeactivatePackage(a, p) == AssertPackage(p) /\ Edit(a, "package", p, [active |-> FALSE])

CreateAccountField(a, f) ==
  /\ AssertGame(GameOf[f]) /\ ~fields[f].made
  /\ \E b \in BOOLEAN : Edit(a, "field", f, [made |-> TRUE, active |-> TRUE, required |-> b])
UpdateAccountField(a, f) ==
  /\ AssertField(f)
  /\ \E b \in BOOLEAN : Edit(a, "field", f, [active |-> b]) \/ Edit(a, "field", f, [required |-> b])
DeactivateAccountField(a, f) == AssertField(f) /\ Edit(a, "field", f, [active |-> FALSE])

\* The columns the data names are written, whatever the row has become.
Merged(row, data) == [c \in DOMAIN row |-> IF c \in DOMAIN data THEN data[c] ELSE row[c]]
Apply(rows, table, a) ==
  IF job[a].table = table THEN [rows EXCEPT ![job[a].id] = Merged(@, job[a].value)] ELSE rows

Write(a) ==
  /\ At(a, "write")
  /\ games' = Apply(games, "game", a)
  /\ packages' = Apply(packages, "package", a)
  /\ fields' = Apply(fields, "field", a)
  /\ Done(a) /\ UNCHANGED <<orders, scenario>>

------------------------------------------------------------------------------
(* The public catalogue and orders *)

OnSale(g) == games[g].made /\ games[g].status = "ACTIVE" /\ NotDeleted(g)

ActiveFields(g) ==
  LET fs == {f \in Fields : GameOf[f] = g /\ fields[f].made /\ fields[f].active}
  IN  [game |-> g, fields |-> fs, required |-> {f \in fs : fields[f].required}]

\* getPublicGame and listPublicAccountFields.
ReadForm(c, g) ==
  /\ MayStart(c) /\ OnSale(g)
  /\ job' = [job EXCEPT ![c] = [Idle EXCEPT !.step = "form", !.form = ActiveFields(g)]]
  /\ UNCHANGED <<catalogueVars, orders, scenario>>

Sellable(p) == packages[p].active /\ packages[p].stocked

\* createOrder reads and checks package and game; gameId is sent or left out.
CheckPackage(c, p, gameId, details) ==
  /\ At(c, "form") /\ packages[p].made
  /\ IF gameId \in {NoGame, GameOf[p]} /\ Sellable(p) /\ OnSale(GameOf[p])
     THEN job' = [job EXCEPT ![c] =
            [step |-> "health", answer |-> "none", form |-> job[c].form, package |-> p,
             details |-> details, offer |-> packages[p].offer, seen |-> ActiveFields(GameOf[p])]]
     ELSE Done(c)
  /\ UNCHANGED <<catalogueVars, orders, scenario>>

\* validateValue.
ValidValue(f, v, required) == v = "fits" \/ (v = "blank" /\ ~required /\ f \notin Strict)

\* Mistake: an optional field must be filled too.
AllFilled(seen, details) == \A f \in seen.fields : ValidValue(f, details[f], f \in seen.required)
FieldsValid(seen, details) ==
  \A f \in seen.fields :
    IF details[f] \in {"absent", "empty"} THEN f \notin seen.required
    ELSE ValidValue(f, details[f], f \in seen.required)

\* validateAccountDetails.
ValidDetails(seen, details) ==
  /\ \A f \in Fields : details[f] # "absent" => f \in seen.fields /\ f \notin TokenNamed
  /\ FieldsValid(seen, details)

\* Mistake: the price is read again when the order is written.
PriceOfTheMoment(p, offer) == <<packages[p].offer[1], offer[2]>>
Snapshot(p, offer) == offer

\* createOrder after the provider has answered that it can serve the order.
PlaceOrder(c) ==
  LET j == job[c]
  IN  /\ At(c, "health") /\ ValidDetails(j.seen, j.details)
      /\ Cardinality(orders) < MaxOrders
      /\ orders' = orders \cup
           {[number |-> Cardinality(orders) + 1,
             order |-> [package |-> j.package, offer |-> Snapshot(j.package, j.offer),
                        required |-> j.seen.required, details |-> j.details]]}
      /\ Done(c) /\ UNCHANGED <<catalogueVars, scenario>>

DetailsRefused(c) ==
  /\ At(c, "health") /\ ~ValidDetails(job[c].seen, job[c].details)
  /\ job' = [job EXCEPT ![c] = [Idle EXCEPT !.answer = "INVALID_ACCOUNT_DETAILS"]]
  /\ UNCHANGED <<catalogueVars, orders, scenario>>

\* The provider is down or its balance is short, or the customer goes away.
Leave(c) ==
  /\ job[c].step \in {"form", "health"}
  /\ Done(c) /\ UNCHANGED <<catalogueVars, orders, scenario>>

------------------------------------------------------------------------------

\* The details a customer sends; nothing is sent for the fields left out.
Details(v) == [f \in Fields |-> IF f \in DOMAIN v THEN v[f] ELSE "absent"]

OrderStep(c) ==
  \/ \E g \in scenario.games : ReadForm(c, g)
  \/ \E p \in scenario.packages, g \in scenario.games \cup {NoGame}, v \in [scenario.fields -> scenario.values] : CheckPackage(c, p, g, Details(v))
  \/ PlaceOrder(c) \/ DetailsRefused(c) \/ Leave(c)

Administer(a) ==
  \/ \E g \in scenario.games, ps \in SUBSET scenario.packages, fs \in SUBSET scenario.fields : CreateGame(a, g, ps, fs)
  \/ \E g \in scenario.games : UpdateGame(a, g) \/ ArchiveGame(a, g)
  \/ \E p \in scenario.packages : CreatePackage(a, p) \/ UpdatePackage(a, p) \/ DeactivatePackage(a, p)
  \/ \E f \in scenario.fields :
       CreateAccountField(a, f) \/ UpdateAccountField(a, f) \/ DeactivateAccountField(a, f)
  \/ Write(a)

Next == (\E c \in Customers : OrderStep(c)) \/ (\E a \in Admins : Administer(a))

Spec == Init /\ [][Next]_vars

------------------------------------------------------------------------------

\* An archived game takes no order, even when an edit that began before sets its
\* status to ACTIVE afterwards.
ArchivedIsGone ==
  [][\A c \in Customers : ~At(c, "health") /\ job'[c].step = "health" =>
       ~games[GameOf[job'[c].package]].deleted]_vars

\* However the catalogue is edited meanwhile, an order has a filled value for
\* every field that was required when it read the catalogue.
RequiredIsFilled == \A o \in orders : \A f \in o.order.required : o.order.details[f] = "fits"

\* The amount an order promises was sold at the price the order charges.
OrderKeepsOneOffer == \A o \in orders : o.order.offer \in Offers

\* However the catalogue changes under them, orders are well-typed, complete and
\* consistent.
OrdersAreSound == TypeOK /\ RequiredIsFilled /\ OrderKeepsOneOffer

\* The form was built from the public fields and is complete.
FilledIn(form, details) ==
  /\ \A f \in form.required : details[f] = "fits"
  /\ \A f \in form.fields : details[f] \in {"fits", "absent", "empty"}
  /\ \A f \in Fields \ form.fields : details[f] = "absent"

\* With one request at a time, a form that is built from the public fields of the
\* game and filled is refused only if it sends a field whose key contains "token",
\* which administrators can create and customers cannot fill.
FilledFormIsAccepted ==
  [][\A c \in Customers :
       ~scenario.overlap /\ At(c, "health") /\ job'[c].answer = "INVALID_ACCOUNT_DETAILS" =>
         \/ job[c].form.game # GameOf[job[c].package]
         \/ ~FilledIn(job[c].form, job[c].details)
         \/ \E f \in TokenNamed : job[c].details[f] # "absent"]_vars
==============================================================================
