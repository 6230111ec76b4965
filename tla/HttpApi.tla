-------------------------------- MODULE HttpApi --------------------------------
(***************************************************************************)
(* One HTTP request on its way through the service: body parser, router,   *)
(* JwtAuthGuard, RolesGuard, pipes, handler, exception filters.  Requests  *)
(* share nothing but the collections, so that one is enough; what handlers *)
(* do to each other is in Inventory and Executions.  The order of the      *)
(* stages is NestJS's, the body parser is Express's (external).            *)
(* A value in a body is abstracted to what becomes of it:                  *)
(*   "ok", "absent", "null"; "wrong" for what its decorators refuse; and   *)
(*   "unfit" for what they let through and the code behind them may not    *)
(*   like: a blank text, a price above MAX_CENTS, a pattern MongoDB cannot *)
(*   compile.                                                              *)
(***************************************************************************)
EXTENDS Naturals, Sequences, FiniteSets, SequencesExt

VARIABLES
    req,      \* the request
    world,    \* what its id stands for: nothing, or a document's status
    stage,    \* the stage it has come to
    route,    \* the number of the route that took it, or 0
    user,     \* request.user: the role in the verified token
    acted,    \* what was done, in order: "write", "publish"
    target,   \* whose id the use case was given: the path's, the body's, or none
    thrown,   \* the exception that ended the handler, or "none"
    response  \* status, and the fields of documents the body shows

vars == <<req, world, stage, route, user, acted, target, thrown, response>>

-----------------------------------------------------------------------------
(* DTOs: the fields, and which of them are optional. *)

Dto(required, optional) == [required |-> required, optional |-> optional]

NoBody           == Dto({}, {})
CreatePartDto    == Dto({"name", "priceCents", "initialQuantity"}, {"description"})
RestockPartDto   == Dto({"quantity"}, {})
AddDiagnosticDto == Dto({"description"}, {"details"})
ListPartsQuery   == Dto({}, {"page", "perPage", "search"})
ListExecutionsQuery == Dto({}, {"page", "perPage", "status"})

\* PartialType(OmitType(CreatePartDto, ['initialQuantity'])).
UpdatePartDto == Dto({}, {"name", "priceCents", "description"})

Fields(dto) == dto.required \cup dto.optional

\* Nothing in a query string is null.
Values(field) ==
    {"ok", "absent", "wrong"}
        \cup (IF field \in {"page", "perPage", "search", "status"} THEN {} ELSE {"null"})
        \cup (IF field \in {"name", "description", "priceCents", "search"} THEN {"unfit"} ELSE {})

-----------------------------------------------------------------------------
(* Routes, in the order in which they are registered. *)

Get(path, dto, public, does) ==
    [method |-> "GET", path |-> path, dto |-> dto, public |-> public, does |-> does]

Change(method, path, dto, does) ==
    [method |-> method, path |-> path, dto |-> dto, public |-> FALSE, does |-> does]

PartsRoutes ==
    << Change("POST", <<"parts">>, CreatePartDto, "CreatePart"),
       Get(<<"parts", "prices">>, NoBody, TRUE, "GetPartPrices"),
       Get(<<"parts">>, ListPartsQuery, FALSE, "ListParts"),
       Get(<<"parts", ":id">>, NoBody, FALSE, "GetPart"),
       Change("PATCH", <<"parts", ":id">>, UpdatePartDto, "UpdatePart"),
       Change("POST", <<"parts", ":id", "restock">>, RestockPartDto, "RestockPart"),
       Change("DELETE", <<"parts", ":id">>, NoBody, "DeletePart") >>

ExecutionsRoutes ==
    << Get(<<"executions">>, ListExecutionsQuery, FALSE, "ListExecutions"),
       Get(<<"executions", ":id">>, NoBody, FALSE, "GetExecution"),
       Change("POST", <<"executions", ":id", "diagnostics">>, AddDiagnosticDto, "AddDiagnostic"),
       Change("POST", <<"executions", ":id", "start-repair">>, NoBody, "StartRepair"),
       Change("POST", <<"executions", ":id", "complete">>, NoBody, "CompleteExecution"),
       Change("POST", <<"executions", ":id", "fail">>, NoBody, "FailExecution") >>

HealthRoutes == << Get(<<"health">>, NoBody, TRUE, "Health") >>

\* Plausible slip: ':id' declared before 'prices'.
Routes_IdFirst ==
    LET p == PartsRoutes IN <<p[1], p[4], p[2], p[3]>> \o SubSeq(p, 5, 7)
                            \o ExecutionsRoutes \o HealthRoutes

Routes == PartsRoutes \o ExecutionsRoutes \o HealthRoutes

Fits(path, pattern) ==
    /\ Len(path) = Len(pattern)
    /\ \A i \in DOMAIN path : pattern[i] \in {":id", path[i]}

\* The first route that fits, or 0.
RouteFor(method, path) ==
    SelectInSeq(Routes, LAMBDA r : r.method = method /\ Fits(path, r.path))

-----------------------------------------------------------------------------
(* Requests. *)

\* No Authorization header; another scheme; a token that is forged or expired;
\* tokens of auth-service, and one that says nothing of a role.
Tokens == {"none", "basic", "invalid", "admin", "customer", "roleless"}

Verified(token) == token \in {"admin", "customer", "roleless"}

Paths ==
    LET one   == {<<c>> : c \in {"parts", "executions", "health"}}
        two   == {Append(p, s) : p \in one, s \in {"uuid", "text", "prices"}}
        three == {Append(p, s) : p \in two,
                      s \in {"restock", "diagnostics", "start-repair", "complete", "fail"}}
    IN  one \cup two \cup three

DtoFor(method, path) ==
    LET n == RouteFor(method, path) IN IF n = 0 THEN NoBody ELSE Routes[n].dto

Bodies(dto) == {b \in [Fields(dto) -> UNION {Values(f) : f \in Fields(dto)}] :
                   \A f \in Fields(dto) : b[f] \in Values(f)}

\* sent: whether the body, if any, is JSON; extra: whether it names an id of its own.
RequestsOn(method, path) ==
    [method: {method}, path: {path}, token: Tokens, json: BOOLEAN, extra: BOOLEAN,
     body: Bodies(DtoFor(method, path))]

Requests == UNION {RequestsOn(m, p) : m \in {"GET", "POST", "PATCH", "DELETE"}, p \in Paths}

Active   == {"QUEUED", "IN_DIAGNOSIS", "IN_REPAIR"}
Terminal == {"COMPLETED", "FAILED"}

\* A deleted part is found by nobody.
Worlds(path) == {"absent"} \cup (IF path[1] = "executions" THEN Active \cup Terminal ELSE {"live"})

-----------------------------------------------------------------------------
(* Use cases: what they refuse, do and show. *)

NameRefusal(body) ==
    CASE body.name = "null"  -> "TypeError"   \* name.trim() of null
      [] body.name = "unfit" -> "InvalidPartError"
      [] OTHER               -> "none"

\* What Part.create and Part.update throw; a description is made to fit.
PartRefusal(body) ==
    IF NameRefusal(body) # "none" THEN NameRefusal(body)
    ELSE IF body.priceCents \in {"null", "unfit"} THEN "InvalidPriceError" ELSE "none"

\* What Execution throws.
ExecutionRefusal(does, body) ==
    CASE does = "AddDiagnostic" /\ world \in Terminal -> "InvalidExecutionTransitionError"
      [] does = "AddDiagnostic" /\ body.description = "unfit" -> "InvalidExecutionError"
      [] does = "StartRepair" /\ world \notin {"QUEUED", "IN_DIAGNOSIS"} ->
            "InvalidExecutionTransitionError"
      [] does = "CompleteExecution" /\ world \notin {"IN_DIAGNOSIS", "IN_REPAIR"} ->
            "InvalidExecutionTransitionError"
      [] does = "FailExecution" /\ world \in Terminal -> "InvalidExecutionTransitionError"
      [] OTHER -> "none"

OnPart      == {"GetPart", "UpdatePart", "RestockPart", "DeletePart"}
OnExecution == {"GetExecution", "AddDiagnostic", "StartRepair",
                "CompleteExecution", "FailExecution"}

Refusal(does, body) ==
    CASE does \in OnPart /\ world = "absent"      -> "PartNotFoundError"
      [] does \in OnExecution /\ world = "absent" -> "ExecutionNotFoundError"
      [] does \in {"CreatePart", "UpdatePart"}    -> PartRefusal(body)
      [] does = "ListParts" /\ body.search = "unfit" -> "MongoServerError"
      [] OTHER -> ExecutionRefusal(does, body)

\* What is done if nothing is refused, in order.
Acts(does) ==
    CASE does \in {"CreatePart", "UpdatePart", "RestockPart", "DeletePart",
                   "AddDiagnostic", "StartRepair"} -> <<"write">>
      [] does \in {"CompleteExecution", "FailExecution"} -> <<"write", "publish">>
      [] OTHER -> <<>>

PartOutput      == {"id", "name", "description", "priceCents", "availableQuantity",
                    "reservedQuantity", "createdAt", "updatedAt"}
PartPriceOutput == {"partId", "description", "unitPriceCents"}
ExecutionOutput == {"workOrderId", "status", "diagnostics", "createdAt", "updatedAt"}

ShowPart      == {"CreatePart", "ListParts", "GetPart", "UpdatePart", "RestockPart"}
ShowExecution == {"ListExecutions"} \cup OnExecution

\* Plausible slip: the snapshot made with toPartOutput.
Output_Whole(does) ==
    CASE does \in ShowPart \cup {"GetPartPrices"} -> PartOutput
      [] does \in ShowExecution -> ExecutionOutput
      [] OTHER -> {}

Output(does) ==
    CASE does \in ShowPart -> PartOutput
      [] does \in ShowExecution -> ExecutionOutput
      [] does = "GetPartPrices" -> PartPriceOutput
      [] OTHER -> {}

SuccessStatus(r) ==
    CASE r.method = "POST"   -> 201
      [] r.method = "DELETE" -> 204
      [] OTHER               -> 200

\* Plausible slip: ExecutionNotFoundError not among those the filter catches.
ErrorStatus_Uncaught(error) ==
    CASE error = "PartNotFoundError" -> 404
      [] error = "InsufficientStockError" -> 409
      [] error \in {"InvalidPartError", "InvalidPriceError", "InvalidExecutionError",
                    "InvalidExecutionTransitionError"} -> 400
      [] OTHER -> 500

\* The filters of the controllers; anything else is NestJS's 500.  (No route reserves
\* parts, so that InsufficientStockError comes over the bus only.)
ErrorStatus(error) ==
    CASE error \in {"PartNotFoundError", "ExecutionNotFoundError"} -> 404
      [] error = "InsufficientStockError" -> 409
      [] error \in {"InvalidPartError", "InvalidPriceError", "InvalidExecutionError",
                    "InvalidExecutionTransitionError"} -> 400
      [] OTHER -> 500

-----------------------------------------------------------------------------
(* The stages. *)

R == Routes[route]

Answer(status, shown) ==
    /\ stage' = "done"
    /\ response' = [status |-> status, shows |-> shown]

Untouched == UNCHANGED <<req, world, acted, target, thrown>>

\* Malformed JSON is answered before there is a route, let alone a guard.
Parse ==
    /\ stage = "parse"
    /\ IF req.json THEN stage' = "route" /\ UNCHANGED response ELSE Answer(400, {})
    /\ Untouched /\ UNCHANGED <<route, user>>

Route ==
    /\ stage = "route"
    /\ route' = RouteFor(req.method, req.path)
    /\ IF route' = 0 THEN Answer(404, {}) ELSE stage' = "auth" /\ UNCHANGED response
    /\ Untouched /\ UNCHANGED user

JwtAuthGuard ==
    /\ stage = "auth"
    /\ \/ /\ R.public
          /\ stage' = "roles" /\ UNCHANGED <<user, response>>
       \/ /\ ~R.public /\ Verified(req.token)
          /\ user' = req.token
          /\ stage' = "roles" /\ UNCHANGED response
       \/ /\ ~R.public /\ ~Verified(req.token)
          /\ Answer(401, {}) /\ UNCHANGED user
    /\ Untouched /\ UNCHANGED route

\* Plausible slip: anybody with a role will do.
HasRole_Any == user \in {"admin", "customer"}

\* @Roles(UserRole.ADMIN) on both controllers.
HasRole == user = "admin"

RolesGuard ==
    /\ stage = "roles"
    /\ IF R.public \/ HasRole THEN stage' = "pipes" /\ UNCHANGED response ELSE Answer(403, {})
    /\ Untouched /\ UNCHANGED <<route, user>>

ParseUUID == \A i \in DOMAIN req.path : R.path[i] = ":id" => req.path[i] = "uuid"

\* Each field against its decorators.  @IsOptional lets null through.
FieldsValid ==
    /\ \A f \in R.dto.required : req.body[f] \in {"ok", "unfit"}
    /\ \A f \in R.dto.optional : req.body[f] # "wrong"

\* Plausible slip: a ValidationPipe that lets other fields through.
Valid_Extra == FieldsValid

\* whitelist and forbidNonWhitelisted: no fields but those of the DTO.
Valid == FieldsValid /\ (R.dto # NoBody => ~req.extra)

Pipes ==
    /\ stage = "pipes"
    /\ IF ParseUUID /\ Valid THEN stage' = "handle" /\ UNCHANGED response ELSE Answer(400, {})
    /\ Untouched /\ UNCHANGED <<route, user>>

\* { id, ...dto }: a field id of the body goes before the path's.
Target ==
    IF R.does \in {"UpdatePart", "AddDiagnostic"} /\ req.extra THEN "body"
    ELSE IF R.does \in OnPart \cup OnExecution THEN "path" ELSE "none"

\* Plausible slip: update before the entity has checked the transition.
Handle_WritesFirst ==
    /\ stage = "handle"
    /\ target' = Target
    /\ thrown' = Refusal(R.does, req.body)
    /\ acted' = Acts(R.does)
    /\ IF thrown' = "none" THEN Answer(SuccessStatus(R), Output(R.does))
       ELSE Answer(ErrorStatus(thrown'), {})
    /\ UNCHANGED <<req, world, route, user>>

\* The handler and its use case: refused before anything is written, or done.
Handle ==
    /\ stage = "handle"
    /\ target' = Target
    /\ thrown' = Refusal(R.does, req.body)
    /\ IF thrown' = "none"
       THEN acted' = Acts(R.does) /\ Answer(SuccessStatus(R), Output(R.does))
       ELSE UNCHANGED acted /\ Answer(ErrorStatus(thrown'), {})
    /\ UNCHANGED <<req, world, route, user>>

\* One of its calls, to the database or the bus, fails instead.
Fault ==
    /\ stage = "handle"
    /\ R.does # "Health"
    /\ target' = Target
    /\ thrown' = "fault"
    /\ acted' \in IF Refusal(R.does, req.body) = "none" THEN Prefixes(Acts(R.does)) ELSE {<<>>}
    /\ Answer(ErrorStatus(thrown'), {})
    /\ UNCHANGED <<req, world, route, user>>

Init ==
    /\ req \in Requests
    /\ world \in Worlds(req.path)
    /\ stage = "parse" /\ route = 0 /\ user = "nobody"
    /\ acted = <<>> /\ target = "none" /\ thrown = "none"
    /\ response = [status |-> 0, shows |-> {}]

Next == Parse \/ Route \/ JwtAuthGuard \/ RolesGuard \/ Pipes \/ Handle \/ Fault

Spec == Init /\ [][Next]_vars

-----------------------------------------------------------------------------
(* Properties. *)

\* Shapes; and a use case is only ever given the id of the path, for a field id in
\* the body, which is spread over it, never gets so far.
TypeOK ==
    /\ stage \in {"parse", "route", "auth", "roles", "pipes", "handle", "done"}
    /\ route \in 0..Len(Routes)
    /\ user \in {"nobody", "admin", "customer", "roleless"}
    /\ acted \in {<<>>, <<"write">>, <<"write", "publish">>}
    /\ target \in {"none", "path"}
    /\ response.status \in {0, 200, 201, 204, 400, 401, 403, 404, 409, 500}
    /\ response.shows \subseteq PartOutput \cup PartPriceOutput \cup ExecutionOutput

\* The README's table of routes and roles.
Public    == req.method = "GET" /\ req.path \in {<<"parts", "prices">>, <<"health">>}
Protected == req.path[1] \in {"parts", "executions"} /\ ~Public

Done == stage = "done" /\ req.json

\* Without the role the table asks for, a request learns nothing but that: no
\* handler runs, and neither its body nor its id is validated first.
ProtectedNeedsAdmin ==
    (Done /\ Protected /\ req.token # "admin") =>
        /\ response.status \in {404, IF Verified(req.token) THEN 403 ELSE 401}
        /\ target = "none" /\ acted = <<>> /\ response.shows = {}

\* The public routes answer with whatever token, or none.
PublicIsOpen == (Done /\ Public /\ thrown # "fault") => response.status = 200

\* Who is no administrator sees prices: no stock, no reservations, no executions.
OnlyPricesShown ==
    (Done /\ req.token # "admin") =>
        response.shows \subseteq {"partId", "description", "unitPriceCents"}

\* A request that is refused has written and published nothing.
RefusalChangesNothing ==
    (stage = "done" /\ response.status \in 400..499) => acted = <<>> /\ response.shows = {}

\* No rule of the domain ends in a 500; a null name in a PATCH does, and a search
\* that is no regular expression.
ErrorsAreKnown ==
    (stage = "done" /\ response.status = 500) =>
        \/ thrown = "fault"
        \/ R.does = "UpdatePart" /\ req.body.name = "null"
        \/ R.does = "ListParts" /\ req.body.search = "unfit"

-----------------------------------------------------------------------------
(* The inductive invariant: what is known of a request at each stage.        *)

\* Nothing happened yet.
Untried ==
    /\ acted = <<>> /\ target = "none" /\ thrown = "none"
    /\ response = [status |-> 0, shows |-> {}]

\* The route that took the request fits it, and is public where the table says so.
Taken ==
    /\ route \in 1..Len(Routes)
    /\ R.method = req.method
    /\ Fits(req.path, R.path)
    /\ Public => R.public

PassedSoFar ==
    /\ stage # "done" => Untried
    /\ stage \in {"auth", "roles", "pipes", "handle"} => Taken
    /\ stage = "roles" => R.public \/ (Verified(req.token) /\ user = req.token)
    /\ stage \in {"pipes", "handle"} => R.public \/ req.token = "admin"
    /\ stage = "handle" => Valid

PipelineInv ==
    /\ TypeOK
    /\ req \in Requests
    /\ PassedSoFar
    /\ ProtectedNeedsAdmin
    /\ PublicIsOpen
    /\ OnlyPricesShown
    /\ RefusalChangesNothing
    /\ ErrorsAreKnown
=============================================================================
