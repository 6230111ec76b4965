------------------------------- MODULE HttpProofs -------------------------------
(***************************************************************************)
(* Theorems about HttpApi: who gets through to which handler, and what an  *)
(* answer shows.                                                           *)
(***************************************************************************)
EXTENDS HttpApi, TLAPS

-----------------------------------------------------------------------------
(* The table of routes. *)

LEMMA PartsTable ==
    /\ Len(PartsRoutes) = 7
    /\ PartsRoutes[1] = Change("POST", <<"parts">>, CreatePartDto, "CreatePart")
    /\ PartsRoutes[2] = Get(<<"parts", "prices">>, NoBody, TRUE, "GetPartPrices")
    /\ PartsRoutes[3] = Get(<<"parts">>, ListPartsQuery, FALSE, "ListParts")
    /\ PartsRoutes[4] = Get(<<"parts", ":id">>, NoBody, FALSE, "GetPart")
    /\ PartsRoutes[5] = Change("PATCH", <<"parts", ":id">>, UpdatePartDto, "UpdatePart")
    /\ PartsRoutes[6] =
          Change("POST", <<"parts", ":id", "restock">>, RestockPartDto, "RestockPart")
    /\ PartsRoutes[7] = Change("DELETE", <<"parts", ":id">>, NoBody, "DeletePart")
  BY DEF PartsRoutes

LEMMA ExecutionsTable ==
    /\ Len(ExecutionsRoutes) = 6
    /\ ExecutionsRoutes[1] = Get(<<"executions">>, ListExecutionsQuery, FALSE, "ListExecutions")
    /\ ExecutionsRoutes[2] = Get(<<"executions", ":id">>, NoBody, FALSE, "GetExecution")
    /\ ExecutionsRoutes[3] =
          Change("POST", <<"executions", ":id", "diagnostics">>, AddDiagnosticDto, "AddDiagnostic")
    /\ ExecutionsRoutes[4] =
          Change("POST", <<"executions", ":id", "start-repair">>, NoBody, "StartRepair")
    /\ ExecutionsRoutes[5] =
          Change("POST", <<"executions", ":id", "complete">>, NoBody, "CompleteExecution")
    /\ ExecutionsRoutes[6] =
          Change("POST", <<"executions", ":id", "fail">>, NoBody, "FailExecution")
  BY DEF ExecutionsRoutes

LEMMA SevenRows ==
    ASSUME NEW a, NEW b, NEW c, NEW d, NEW e, NEW f, NEW g
    PROVE  <<a, b, c, d, e, f, g>> \in Seq({a, b, c, d, e, f, g})
  OBVIOUS

LEMMA SixRows ==
    ASSUME NEW a, NEW b, NEW c, NEW d, NEW e, NEW f
    PROVE  <<a, b, c, d, e, f>> \in Seq({a, b, c, d, e, f})
  OBVIOUS

LEMMA ConcatRows ==
    ASSUME NEW A, NEW B, NEW s \in Seq(A), NEW t \in Seq(B), NEW h,
           NEW r, r = s \o t \o <<h>>
    PROVE  /\ Len(r) = Len(s) + Len(t) + 1
           /\ \A n \in 1..Len(s) : r[n] = s[n]
           /\ \A n \in (Len(s) + 1)..(Len(s) + Len(t)) : r[n] = t[n - Len(s)]
           /\ r[Len(s) + Len(t) + 1] = h
  OBVIOUS

LEMMA TableInParts ==
    /\ Len(Routes) = 14
    /\ \A n \in 1..7 : Routes[n] = PartsRoutes[n]
    /\ \A n \in 8..13 : Routes[n] = ExecutionsRoutes[n - 7]
    /\ Routes[14] = Get(<<"health">>, NoBody, TRUE, "Health")
<1> DEFINE h == Get(<<"health">>, NoBody, TRUE, "Health")
<1>1. PICK A : PartsRoutes \in Seq(A)
  BY SevenRows, Zenon DEF PartsRoutes
<1>2. PICK B : ExecutionsRoutes \in Seq(B)
  BY SixRows, Zenon DEF ExecutionsRoutes
<1>3. Len(PartsRoutes) = 7 /\ Len(ExecutionsRoutes) = 6
  BY PartsTable, ExecutionsTable
<1>4. Routes = PartsRoutes \o ExecutionsRoutes \o <<h>>
  BY DEF Routes, HealthRoutes
<1> HIDE DEF h
<1>5. /\ Len(Routes) = Len(PartsRoutes) + Len(ExecutionsRoutes) + 1
      /\ \A n \in 1..Len(PartsRoutes) : Routes[n] = PartsRoutes[n]
      /\ \A n \in (Len(PartsRoutes) + 1)..(Len(PartsRoutes) + Len(ExecutionsRoutes)) :
            Routes[n] = ExecutionsRoutes[n - Len(PartsRoutes)]
      /\ Routes[Len(PartsRoutes) + Len(ExecutionsRoutes) + 1] = h
  BY <1>1, <1>2, <1>4, ConcatRows, SMTT(20)
<1>6. Len(PartsRoutes) + Len(ExecutionsRoutes) = 13 /\ 13 + 1 = 14 /\ 7 + 1 = 8
  BY <1>3
<1>7. /\ Len(Routes) = 13 + 1
      /\ \A n \in 1..7 : Routes[n] = PartsRoutes[n]
      /\ \A n \in (7 + 1)..13 : Routes[n] = ExecutionsRoutes[n - 7]
      /\ Routes[13 + 1] = h
  BY <1>3, <1>5, <1>6, Zenon
<1> QED
  BY <1>6, <1>7, Zenon DEF h

\* Every route, in order.
Row(n) ==
    \/ n = 1 /\ Routes[n] = Change("POST", <<"parts">>, CreatePartDto, "CreatePart")
    \/ n = 2 /\ Routes[n] = Get(<<"parts", "prices">>, NoBody, TRUE, "GetPartPrices")
    \/ n = 3 /\ Routes[n] = Get(<<"parts">>, ListPartsQuery, FALSE, "ListParts")
    \/ n = 4 /\ Routes[n] = Get(<<"parts", ":id">>, NoBody, FALSE, "GetPart")
    \/ n = 5 /\ Routes[n] = Change("PATCH", <<"parts", ":id">>, UpdatePartDto, "UpdatePart")
    \/ n = 6 /\ Routes[n] =
          Change("POST", <<"parts", ":id", "restock">>, RestockPartDto, "RestockPart")
    \/ n = 7 /\ Routes[n] = Change("DELETE", <<"parts", ":id">>, NoBody, "DeletePart")
    \/ n = 8 /\ Routes[n] =
          Get(<<"executions">>, ListExecutionsQuery, FALSE, "ListExecutions")
    \/ n = 9 /\ Routes[n] = Get(<<"executions", ":id">>, NoBody, FALSE, "GetExecution")
    \/ n = 10 /\ Routes[n] =
          Change("POST", <<"executions", ":id", "diagnostics">>, AddDiagnosticDto,
                 "AddDiagnostic")
    \/ n = 11 /\ Routes[n] =
          Change("POST", <<"executions", ":id", "start-repair">>, NoBody, "StartRepair")
    \/ n = 12 /\ Routes[n] =
          Change("POST", <<"executions", ":id", "complete">>, NoBody, "CompleteExecution")
    \/ n = 13 /\ Routes[n] =
          Change("POST", <<"executions", ":id", "fail">>, NoBody, "FailExecution")
    \/ n = 14 /\ Routes[n] = Get(<<"health">>, NoBody, TRUE, "Health")

LEMMA Table == \A n \in 1..Len(Routes) : Row(n)
<1>1. \A n \in 1..Len(Routes) :
          \/ n \in {1, 2, 3, 4, 5, 6, 7}
          \/ n \in {8, 9, 10, 11, 12, 13}
          \/ n = 14
  BY TableInParts
<1>2. \A n \in {1, 2, 3, 4, 5, 6, 7} : Routes[n] = PartsRoutes[n]
  BY TableInParts
<1>3. /\ Routes[8] = ExecutionsRoutes[1] /\ Routes[9] = ExecutionsRoutes[2]
      /\ Routes[10] = ExecutionsRoutes[3] /\ Routes[11] = ExecutionsRoutes[4]
      /\ Routes[12] = ExecutionsRoutes[5] /\ Routes[13] = ExecutionsRoutes[6]
  BY TableInParts
<1> SUFFICES ASSUME NEW n, n \in {1, 2, 3, 4, 5, 6, 7} \/ n \in {8, 9, 10, 11, 12, 13} \/ n = 14
             PROVE  Row(n)
  BY <1>1, Zenon DEF Row
<1>4. CASE n \in {1, 2, 3, 4, 5, 6, 7}
  BY <1>2, <1>4, PartsTable, Zenon DEF Row
<1>5. CASE n \in {8, 9, 10, 11, 12, 13}
  BY <1>3, <1>5, ExecutionsTable, Zenon DEF Row
<1>6. CASE n = 14
  BY <1>6, TableInParts, Zenon DEF Row
<1> QED
  BY <1>4, <1>5, <1>6

LEMMA PublicRoutes ==
    ASSUME NEW n \in 1..Len(Routes), Routes[n].public
    PROVE  /\ Routes[n].method = "GET" /\ Routes[n].dto = NoBody
           /\ \/ Routes[n].path = <<"parts", "prices">> /\ Routes[n].does = "GetPartPrices"
              \/ Routes[n].path = <<"health">> /\ Routes[n].does = "Health"
  BY Table DEF Row, Get, Change

LEMMA RoutePaths ==
    \A n \in 1..Len(Routes) :
        /\ Len(Routes[n].path) >= 1
        /\ n # 14 => Routes[n].path[1] \in {"parts", "executions"}
        /\ Routes[n].method \in {"GET", "POST", "PATCH", "DELETE"}
  BY Table, SMTT(30) DEF Row, Get, Change

\* What the handlers get was checked against a DTO, where they read the body.
LEMMA CheckedBodies ==
    ASSUME NEW n \in 1..Len(Routes)
    PROVE  /\ Routes[n].does \in {"UpdatePart", "AddDiagnostic"} => Routes[n].dto # NoBody
           /\ Routes[n].does = "CreatePart" => "name" \in Routes[n].dto.required
<1>1. Routes[n].does \in {"UpdatePart", "AddDiagnostic"} =>
          Routes[n].dto \in {UpdatePartDto, AddDiagnosticDto}
  BY Table DEF Row, Get, Change
<1>2. Routes[n].does = "CreatePart" => Routes[n].dto = CreatePartDto
  BY Table DEF Row, Get, Change
<1>3. UpdatePartDto # NoBody /\ AddDiagnosticDto # NoBody
  BY DEF UpdatePartDto, AddDiagnosticDto, NoBody, Dto
<1>4. "name" \in CreatePartDto.required
  BY DEF CreatePartDto, Dto
<1> QED
  BY <1>1, <1>2, <1>3, <1>4, Zenon

-----------------------------------------------------------------------------
(* The router. *)

LEMMA LeastIndex ==
    ASSUME NEW I \in SUBSET (1..14), I # {}
    PROVE  \E n \in I : \A m \in I : n <= m
<1> DEFINE From(k) == \A m \in I : k <= m
<1> SUFFICES ASSUME \A n \in I : ~From(n) PROVE FALSE
  OBVIOUS
<1>1. ASSUME NEW k \in 1..14, From(k) PROVE From(k + 1)
  <2>1. k \notin I
    BY <1>1
  <2> QED
    BY <1>1, <2>1
<1>2. From(1)
  OBVIOUS
<1>3. ~From(15)
  <2>1. PICK m \in I : m \in 1..14
    OBVIOUS
  <2> QED
    BY <2>1
<1> HIDE DEF From
<1>4. From(2) /\ From(3) /\ From(4) /\ From(5) /\ From(6) /\ From(7) /\ From(8)
  BY <1>1, <1>2
<1>5. From(9) /\ From(10) /\ From(11) /\ From(12) /\ From(13) /\ From(14) /\ From(15)
  BY <1>1, <1>4
<1> QED
  BY <1>3, <1>5

LEMMA FirstRoute ==
    ASSUME NEW m, NEW path, NEW n, n = RouteFor(m, path)
    PROVE  /\ n \in 0..Len(Routes)
           /\ n # 0 => Routes[n].method = m /\ Fits(path, Routes[n].path)
           /\ \A k \in 1..Len(Routes) :
                 Routes[k].method = m /\ Fits(path, Routes[k].path) => n # 0 /\ n <= k
<1> DEFINE I == {i \in 1..Len(Routes) : Routes[i].method = m /\ Fits(path, Routes[i].path)}
<1>1. n = IF I # {} THEN Min(I) ELSE 0
  BY Zenon DEF RouteFor, SelectInSeq
<1>2. I \in SUBSET (1..14) /\ Len(Routes) = 14
  BY TableInParts
<1>3. CASE I # {}
  <2>1. PICK j \in I : \A i \in I : j <= i
    BY <1>2, <1>3, LeastIndex
  <2>2. n \in I /\ \A i \in I : n =< i
    BY <1>1, <1>3, <2>1 DEF Min
  <2> QED
    BY <1>2, <2>2
<1>4. CASE I = {}
  BY <1>1, <1>2, <1>4
<1> QED
  BY <1>3, <1>4

LEMMA OneWord == ASSUME NEW W, NEW c \in W PROVE <<c>> \in Seq(W)
  OBVIOUS

LEMMA OneMore == ASSUME NEW W, NEW q \in Seq(W), NEW c \in W PROVE Append(q, c) \in Seq(W)
  OBVIOUS

Words == {"parts", "executions", "health", "uuid", "text", "prices",
          "restock", "diagnostics", "start-repair", "complete", "fail"}

LEMMA PathType == \A p \in Paths : p \in Seq(Words)
<1> DEFINE one   == {<<c>> : c \in {"parts", "executions", "health"}}
           two   == {Append(q, s) : q \in one, s \in {"uuid", "text", "prices"}}
           three == {Append(q, s) : q \in two,
                         s \in {"restock", "diagnostics", "start-repair", "complete", "fail"}}
<1>1. Paths = one \cup two \cup three
  BY SMT DEF Paths
<1>2. ASSUME NEW q \in one PROVE q \in Seq(Words)
  <2>1. PICK c \in {"parts", "executions", "health"} : q = <<c>>
    OBVIOUS
  <2>2. c \in Words
    BY DEF Words
  <2> QED
    BY <2>1, <2>2, OneWord, Zenon
<1>3. ASSUME NEW q \in two PROVE q \in Seq(Words)
  <2>1. PICK r \in one, c \in {"uuid", "text", "prices"} : q = Append(r, c)
    <3> HIDE DEF one
    <3> QED
      OBVIOUS
  <2>2. c \in Words
    BY DEF Words
  <2> HIDE DEF one, two
  <2> QED
    BY <1>2, <2>1, <2>2, OneMore, Zenon
<1>4. ASSUME NEW q \in three PROVE q \in Seq(Words)
  <2> HIDE DEF two
  <2>1. PICK r \in two,
             c \in {"restock", "diagnostics", "start-repair", "complete", "fail"} :
                q = Append(r, c)
    OBVIOUS
  <2>2. c \in Words
    BY DEF Words
  <2> HIDE DEF three
  <2> QED
    BY <1>3, <2>1, <2>2, OneMore, Zenon
<1> HIDE DEF one, two, three
<1> QED
  BY <1>1, <1>2, <1>3, <1>4

\* What is known of a request's path and token.
LEMMA RequestType ==
    ASSUME NEW r \in Requests
    PROVE  r.path \in Seq(Words) /\ r.token \in Tokens
<1>1. PICK m \in {"GET", "POST", "PATCH", "DELETE"}, p \in Paths : r \in RequestsOn(m, p)
  BY SMT DEF Requests
<1>2. r.path = p /\ r.token \in Tokens
  BY <1>1 DEF RequestsOn
<1>3. p \in Seq(Words)
  BY PathType
<1> QED
  BY <1>2, <1>3

\* The public routes are those of the README's table, and no other.
LEMMA PublicIsRouted ==
    ASSUME Public, NEW n, n = RouteFor(req.method, req.path)
    PROVE  n \in 1..Len(Routes) /\ Routes[n].public
<1>1. /\ n \in 0..Len(Routes)
      /\ n # 0 => Routes[n].method = req.method /\ Fits(req.path, Routes[n].path)
      /\ \A k \in 1..Len(Routes) :
            Routes[k].method = req.method /\ Fits(req.path, Routes[k].path) => n # 0 /\ n <= k
  BY FirstRoute
<1>2. Len(Routes) = 14 /\ req.method = "GET"
  BY TableInParts DEF Public
<1>3. CASE req.path = <<"parts", "prices">>
  <2>1. /\ Routes[2].method = "GET" /\ Routes[2].path = <<"parts", "prices">>
        /\ Routes[2].public /\ Routes[1].method = "POST"
    BY <1>2, Table DEF Row, Get, Change
  <2>2. Fits(req.path, Routes[2].path)
    BY <1>3, <2>1 DEF Fits
  <2>3. n # 0 /\ n <= 2
    BY <1>1, <1>2, <2>1, <2>2
  <2>4. n # 1
    BY <1>1, <1>2, <2>1
  <2> QED
    BY <1>1, <1>2, <2>1, <2>3, <2>4
<1>4. CASE req.path = <<"health">>
  <2>1. /\ Routes[14].method = "GET" /\ Routes[14].path = <<"health">> /\ Routes[14].public
    BY <1>2, Table DEF Row, Get, Change
  <2>2. Fits(req.path, Routes[14].path)
    BY <1>4, <2>1 DEF Fits
  <2>3. n \in 1..14
    BY <1>1, <1>2, <2>1, <2>2
  <2>4. Routes[n].path[1] \in {":id", "health"}
    BY <1>1, <1>4, <2>3 DEF Fits
  <2>5. n = 14
    BY <1>2, <2>3, <2>4, RoutePaths
  <2> QED
    BY <1>2, <2>1, <2>5
<1> QED
  BY <1>3, <1>4 DEF Public

LEMMA OnlyPublicRoutes ==
    ASSUME req \in Requests, NEW n \in 1..Len(Routes), Routes[n].public,
           Routes[n].method = req.method, Fits(req.path, Routes[n].path)
    PROVE  Public
<1>1. PICK p \in Seq(Words) : p = req.path
  BY RequestType
<1>2. req.method = "GET"
  BY PublicRoutes
<1>3. Fits(p, Routes[n].path)
  BY <1>1
<1>4. CASE Routes[n].path = <<"parts", "prices">>
  <2>1. Len(p) = 2 /\ p[1] = "parts" /\ p[2] = "prices"
    BY <1>3, <1>4 DEF Fits
  <2>2. p = <<"parts", "prices">>
    BY <2>1
  <2> QED
    BY <1>1, <1>2, <2>2 DEF Public
<1>5. CASE Routes[n].path = <<"health">>
  <2>1. Len(p) = 1 /\ p[1] = "health"
    BY <1>3, <1>5 DEF Fits
  <2>2. p = <<"health">>
    BY <2>1
  <2> QED
    BY <1>1, <1>2, <2>2 DEF Public
<1> QED
  BY <1>4, <1>5, PublicRoutes

-----------------------------------------------------------------------------
(* The handlers: what they do, throw and show.                             *)

Written == {<<>>, <<"write">>, <<"write", "publish">>}

LEMMA ActsType == \A does : Acts(does) \in Written
  BY Zenon DEF Acts, Written

\* What a handler that is cut short has done.
LEMMA ShortSequences ==
    ASSUME NEW a, NEW b
    PROVE  /\ <<>> \in Seq({a, b}) /\ Len(<<>>) = 0
           /\ <<a>> \in Seq({a, b}) /\ Len(<<a>>) = 1
           /\ <<a, b>> \in Seq({a, b}) /\ Len(<<a, b>>) = 2
  OBVIOUS

LEMMA CutShort == \A s \in Written : Prefixes(s) \subseteq Written
<1> SUFFICES ASSUME NEW s \in Written, NEW t \in Prefixes(s) PROVE t \in Written
  OBVIOUS
<1>1. PICK n \in 0..Len(s) : t = SubSeq(s, 1, n)
  BY DEF Prefixes
<1>2. \/ s = <<>> /\ Len(s) = 0
      \/ s = <<"write">> /\ Len(s) = 1
      \/ s = <<"write", "publish">> /\ Len(s) = 2
  BY ShortSequences, Zenon DEF Written
<1>3. s \in Seq({"write", "publish"})
  BY ShortSequences, Zenon DEF Written
<1>4. Len(s) \in {0, 1, 2}
  BY <1>2, Zenon
<1>5. t \in Seq({"write", "publish"}) /\ Len(t) = n /\ \A i \in 1..n : t[i] = s[i]
  BY <1>1, <1>3
<1>6. CASE n = 0
  <2>1. t = <<>>
    BY <1>5, <1>6
  <2> QED
    BY <2>1 DEF Written
<1>7. CASE n = 1
  <2>1. s[1] = "write"
    BY <1>7 DEF Written
  <2>2. t = <<"write">>
    BY <1>5, <1>7, <2>1
  <2> QED
    BY <2>2 DEF Written
<1>8. CASE n = 2
  <2>1. s = <<"write", "publish">>
    BY <1>2, <1>8
  <2>2. t = <<"write", "publish">>
    BY <1>5, <1>8, <2>1
  <2> QED
    BY <2>2 DEF Written
<1>9. \A k \in {0, 1, 2} : \A i \in 0..k : i = 0 \/ i = 1 \/ i = 2
  OBVIOUS
<1> QED
  BY <1>4, <1>6, <1>7, <1>8, <1>9, Zenon

LEMMA RefusalKinds ==
    ASSUME NEW does, NEW body, NEW e, e = Refusal(does, body), e # "none"
    PROVE  \/ ErrorStatus(e) \in {400, 404}
           \/ e = "TypeError" /\ does \in {"CreatePart", "UpdatePart"} /\ body.name = "null"
           \/ e = "MongoServerError" /\ does = "ListParts" /\ body.search = "unfit"
<1>1. \/ NameRefusal(body) \in {"none", "InvalidPartError"}
      \/ NameRefusal(body) = "TypeError" /\ body.name = "null"
  BY Zenon DEF NameRefusal
<1>2. \/ PartRefusal(body) \in {"none", "InvalidPartError", "InvalidPriceError"}
      \/ PartRefusal(body) = "TypeError" /\ body.name = "null"
  BY <1>1, Zenon DEF PartRefusal
<1>3. ExecutionRefusal(does, body) \in
          {"none", "InvalidExecutionError", "InvalidExecutionTransitionError"}
  BY Zenon DEF ExecutionRefusal
<1>4. \/ e \in {"PartNotFoundError", "ExecutionNotFoundError"}
      \/ e = PartRefusal(body) /\ does \in {"CreatePart", "UpdatePart"}
      \/ e = "MongoServerError" /\ does = "ListParts" /\ body.search = "unfit"
      \/ e = ExecutionRefusal(does, body)
  BY DEF Refusal
<1> QED
  BY <1>2, <1>3, <1>4 DEF ErrorStatus

LEMMA ErrorStatuses == \A e : ErrorStatus(e) \in {400, 404, 409, 500}
  BY DEF ErrorStatus

LEMMA OutputType ==
    \A does : Output(does) \subseteq PartOutput \cup PartPriceOutput \cup ExecutionOutput
<1>1. \A does : Output(does) \in {PartOutput, PartPriceOutput, ExecutionOutput, {}}
  BY Zenon DEF Output
<1> QED
  BY <1>1

\* The handlers of the public routes refuse nothing, write nothing and show prices.
LEMMA PublicHandlers ==
    ASSUME NEW does \in {"GetPartPrices", "Health"}, NEW body
    PROVE  /\ Refusal(does, body) = "none"
           /\ Acts(does) = <<>>
           /\ Output(does) \subseteq PartPriceOutput
<1>1. does \notin OnPart /\ does \notin OnExecution
  BY DEF OnPart, OnExecution
<1>2. does \notin {"CreatePart", "UpdatePart"} /\ does # "ListParts"
  OBVIOUS
<1>3. ExecutionRefusal(does, body) = "none"
  BY DEF ExecutionRefusal
<1>4. Refusal(does, body) = "none"
  BY <1>1, <1>2, <1>3, Zenon DEF Refusal
<1>5. Acts(does) = <<>>
  BY DEF Acts
<1>6. Output(does) \in {{}, PartPriceOutput}
  BY <1>1 DEF Output, ShowPart, ShowExecution
<1> QED
  BY <1>4, <1>5, <1>6

-----------------------------------------------------------------------------
(* The stages. *)

\* What the properties say of an answer.
Answered ==
    /\ ProtectedNeedsAdmin /\ PublicIsOpen /\ OnlyPricesShown
    /\ RefusalChangesNothing /\ ErrorsAreKnown

\* A request of no administrator that has got past the guards is public.
LEMMA PastTheGuards ==
    ASSUME PipelineInv, stage \in {"pipes", "handle"}
    PROVE  /\ Taken /\ route \in 1..Len(Routes)
           /\ R.public <=> Public
           /\ Public \/ req.token = "admin"
<1>1. Taken /\ (R.public \/ req.token = "admin") /\ req \in Requests
  BY DEF PipelineInv, PassedSoFar
<1>2. R.public => Public
  BY <1>1, OnlyPublicRoutes DEF Taken, R
<1> QED
  BY <1>1, <1>2 DEF Taken

\* An answer that ends a request before its handler keeps every promise, if it
\* is no 404 of the router's to a public request, and tells who is no
\* administrator of a route that is not public just that.
LEMMA Rejected ==
    ASSUME PipelineInv, stage # "done", NEW status \in {400, 401, 403, 404},
           Answer(status, {}), Untouched,
           route' \in 0..Len(Routes), user' \in {"nobody", "admin", "customer", "roleless"},
           req.json => ~Public,
           (req.json /\ Protected /\ req.token # "admin") =>
               status \in {404, IF Verified(req.token) THEN 403 ELSE 401}
    PROVE  PipelineInv'
<1>1. TypeOK /\ req \in Requests /\ Untried
  BY DEF PipelineInv, PassedSoFar
<1>2. /\ stage' = "done" /\ response'.status = status /\ response'.shows = {}
      /\ req' = req /\ acted' = <<>> /\ target' = "none" /\ thrown' = "none"
  BY <1>1 DEF Answer, Untouched, Untried
<1>3. TypeOK'
  BY <1>2 DEF TypeOK
<1>4. PassedSoFar'
  BY <1>2 DEF PassedSoFar
<1>5. /\ Done' <=> req.json
      /\ Public' <=> Public
      /\ Protected' <=> Protected
  BY <1>2 DEF Done, Public, Protected
<1>6. ProtectedNeedsAdmin'
  BY <1>2, <1>5 DEF ProtectedNeedsAdmin
<1>7. PublicIsOpen'
  BY <1>5 DEF PublicIsOpen
<1>8. OnlyPricesShown' /\ RefusalChangesNothing'
  BY <1>2 DEF OnlyPricesShown, RefusalChangesNothing
<1>9. ErrorsAreKnown'
  BY <1>2 DEF ErrorsAreKnown
<1> QED
  BY <1>1, <1>2, <1>3, <1>4, <1>6, <1>7, <1>8, <1>9 DEF PipelineInv

\* A step to the next stage.
LEMMA Advances ==
    ASSUME PipelineInv, stage # "done", stage' \in {"route", "auth", "roles", "pipes", "handle"},
           Untouched, UNCHANGED response,
           route' \in 0..Len(Routes), user' \in {"nobody", "admin", "customer", "roleless"},
           stage' \in {"auth", "roles", "pipes", "handle"} => Taken',
           stage' = "roles" => R.public' \/ (Verified(req.token) /\ user' = req.token),
           stage' \in {"pipes", "handle"} => R.public' \/ req.token = "admin",
           stage' = "handle" => Valid'
    PROVE  PipelineInv'
<1>1. TypeOK /\ req \in Requests /\ Untried
  BY DEF PipelineInv, PassedSoFar
<1>2. /\ stage' # "done" /\ req' = req
      /\ response' = response /\ acted' = acted /\ target' = target /\ thrown' = thrown
  BY DEF Untouched
<1>3. Untried'
  BY <1>1, <1>2 DEF Untried
<1>4. TypeOK'
  BY <1>1, <1>2 DEF TypeOK
<1>5. PassedSoFar'
  BY <1>2, <1>3 DEF PassedSoFar
<1>6. Answered'
  BY <1>2 DEF Answered, ProtectedNeedsAdmin, PublicIsOpen, OnlyPricesShown,
              RefusalChangesNothing, ErrorsAreKnown, Done
<1> QED
  BY <1>1, <1>2, <1>4, <1>5, <1>6 DEF PipelineInv, Answered

LEMMA StepType ==
    PipelineInv =>
        /\ route \in 0..Len(Routes) /\ user \in {"nobody", "admin", "customer", "roleless"}
        /\ Len(Routes) = 14 /\ req \in Requests /\ req.token \in Tokens
  BY TableInParts, RequestType DEF PipelineInv, TypeOK

LEMMA ParseStep == PipelineInv /\ Parse => PipelineInv'
<1> SUFFICES ASSUME PipelineInv, Parse PROVE PipelineInv'
  OBVIOUS
<1>1. /\ route' \in 0..Len(Routes) /\ user' \in {"nobody", "admin", "customer", "roleless"}
      /\ stage = "parse" /\ Untouched
  BY StepType DEF Parse
<1>2. CASE req.json
  <2>1. stage' = "route" /\ UNCHANGED response
    BY <1>2 DEF Parse
  <2> QED
    BY <1>1, <2>1, Advances
<1>3. CASE ~req.json
  <2>1. Answer(400, {})
    BY <1>3 DEF Parse
  <2> QED
    BY <1>1, <1>3, <2>1, Rejected
<1> QED
  BY <1>2, <1>3

LEMMA RouteStep == PipelineInv /\ Route => PipelineInv'
<1> SUFFICES ASSUME PipelineInv, Route PROVE PipelineInv'
  OBVIOUS
<1> DEFINE n == RouteFor(req.method, req.path)
<1>1. /\ user' \in {"nobody", "admin", "customer", "roleless"}
      /\ stage = "route" /\ Untouched /\ req' = req /\ route' = n
  BY StepType DEF Route, Untouched
<1>2. /\ n \in 0..Len(Routes)
      /\ n # 0 => Routes[n].method = req.method /\ Fits(req.path, Routes[n].path)
  BY FirstRoute
<1>3. Public => n \in 1..Len(Routes) /\ Routes[n].public
  BY PublicIsRouted
<1>4. CASE n = 0
  <2>1. Answer(404, {})
    BY <1>1, <1>4 DEF Route
  <2>2. ~Public
    BY <1>2, <1>3, <1>4, StepType
  <2> QED
    BY <1>1, <1>2, <2>1, <2>2, Rejected
<1>5. CASE n # 0
  <2>1. stage' = "auth" /\ UNCHANGED response
    BY <1>1, <1>5 DEF Route
  <2>2. n \in 1..Len(Routes)
    BY <1>2, <1>5, StepType
  <2>3. Taken'
    BY <1>1, <1>2, <1>3, <1>5, <2>2 DEF Taken, R, Public
  <2> QED
    BY <1>1, <1>2, <2>1, <2>3, Advances
<1> QED
  BY <1>4, <1>5

LEMMA AuthStep == PipelineInv /\ JwtAuthGuard => PipelineInv'
<1> SUFFICES ASSUME PipelineInv, JwtAuthGuard PROVE PipelineInv'
  OBVIOUS
<1>1. /\ stage = "auth" /\ Taken /\ Untouched /\ UNCHANGED <<req, route>>
      /\ route' \in 0..Len(Routes)
  BY StepType DEF JwtAuthGuard, Untouched, PipelineInv, PassedSoFar
<1>2. Taken' /\ (R.public' <=> R.public)
  BY <1>1 DEF Taken, R, Public
<1>3. CASE R.public
  <2>1. stage' = "roles" /\ UNCHANGED <<user, response>>
    BY <1>3 DEF JwtAuthGuard
  <2> QED
    BY <1>1, <1>2, <1>3, <2>1, StepType, Advances
<1>4. CASE ~R.public /\ Verified(req.token)
  <2>1. stage' = "roles" /\ user' = req.token /\ UNCHANGED response
    BY <1>4 DEF JwtAuthGuard
  <2>2. user' \in {"nobody", "admin", "customer", "roleless"}
    BY <1>4, <2>1 DEF Verified
  <2> QED
    BY <1>1, <1>2, <1>4, <2>1, <2>2, Advances
<1>5. CASE ~R.public /\ ~Verified(req.token)
  <2>1. Answer(401, {}) /\ UNCHANGED user
    BY <1>5 DEF JwtAuthGuard
  <2>2. ~Public
    BY <1>1, <1>5 DEF Taken
  <2> QED
    BY <1>1, <1>5, <2>1, <2>2, StepType, Rejected
<1> QED
  BY <1>3, <1>4, <1>5

LEMMA RolesStep == PipelineInv /\ RolesGuard => PipelineInv'
<1> SUFFICES ASSUME PipelineInv, RolesGuard PROVE PipelineInv'
  OBVIOUS
<1>1. /\ stage = "roles" /\ Taken /\ Untouched /\ UNCHANGED <<req, route, user>>
      /\ R.public \/ (Verified(req.token) /\ user = req.token)
      /\ route' \in 0..Len(Routes) /\ user' \in {"nobody", "admin", "customer", "roleless"}
  BY StepType DEF RolesGuard, Untouched, PipelineInv, PassedSoFar
<1>2. Taken' /\ (R.public' <=> R.public)
  BY <1>1 DEF Taken, R, Public
<1>3. CASE R.public \/ HasRole
  <2>1. stage' = "pipes" /\ UNCHANGED response
    BY <1>3 DEF RolesGuard
  <2>2. R.public' \/ req.token = "admin"
    BY <1>1, <1>2, <1>3 DEF HasRole
  <2> QED
    BY <1>1, <1>2, <2>1, <2>2, Advances
<1>4. CASE ~(R.public \/ HasRole)
  <2>1. Answer(403, {})
    BY <1>4 DEF RolesGuard
  <2>2. ~Public /\ Verified(req.token)
    BY <1>1, <1>4 DEF Taken
  <2> QED
    BY <1>1, <2>1, <2>2, Rejected
<1> QED
  BY <1>3, <1>4

\* Nothing in the path of a public route, or in its body, can be refused.
LEMMA PublicPasses ==
    ASSUME Taken, req \in Requests, R.public
    PROVE  ParseUUID /\ Valid
<1>1. R.dto = NoBody /\ R.path \in {<<"parts", "prices">>, <<"health">>}
  BY PublicRoutes DEF R, Taken
<1>2. Valid
  BY <1>1 DEF Valid, FieldsValid, NoBody, Dto
<1>3. ParseUUID
  <2>1. req.path \in Seq(Words) /\ Len(req.path) = Len(R.path)
    BY RequestType DEF Taken, Fits
  <2>2. ASSUME NEW i \in DOMAIN req.path PROVE R.path[i] # ":id"
    <3>1. i \in 1..Len(R.path)
      BY <2>1
    <3> QED
      BY <1>1, <3>1
  <2> QED
    BY <2>2 DEF ParseUUID
<1> QED
  BY <1>2, <1>3

LEMMA PipesStep == PipelineInv /\ Pipes => PipelineInv'
<1> SUFFICES ASSUME PipelineInv, Pipes PROVE PipelineInv'
  OBVIOUS
<1>1. /\ stage = "pipes" /\ Untouched /\ UNCHANGED <<req, route, user>>
      /\ R.public \/ req.token = "admin"
      /\ route' \in 0..Len(Routes) /\ user' \in {"nobody", "admin", "customer", "roleless"}
  BY StepType DEF Pipes, Untouched, PipelineInv, PassedSoFar
<1>2. /\ Taken /\ route \in 1..Len(Routes) /\ (R.public <=> Public)
      /\ Public \/ req.token = "admin"
  BY <1>1, PastTheGuards
<1>3. Taken' /\ (R.public' <=> R.public)
  BY <1>1, <1>2 DEF Taken, R, Public
<1>4. CASE ParseUUID /\ Valid
  <2>1. stage' = "handle" /\ UNCHANGED response
    BY <1>4 DEF Pipes
  <2>2. Valid'
    BY <1>1, <1>4 DEF Valid, FieldsValid, R
  <2> QED
    BY <1>1, <1>3, <2>1, <2>2, Advances
<1>5. CASE ~(ParseUUID /\ Valid)
  <2>1. Answer(400, {})
    BY <1>5 DEF Pipes
  <2>2. ~Public
    BY <1>2, <1>5, StepType, PublicPasses
  <2> QED
    BY <1>1, <1>2, <2>1, <2>2, Rejected
<1> QED
  BY <1>4, <1>5


\* What a handler answers, or its failure.
LEMMA HandleStep == PipelineInv /\ (Handle \/ Fault) => PipelineInv'
<1> SUFFICES ASSUME PipelineInv, Handle \/ Fault PROVE PipelineInv'
  OBVIOUS
<1> DEFINE e == Refusal(R.does, req.body)
<1>1. /\ stage = "handle" /\ UNCHANGED <<req, world, route, user>>
      /\ Valid /\ TypeOK /\ req \in Requests /\ acted = <<>>
      /\ target' = Target /\ stage' = "done" /\ thrown' \in {e, "fault"}
  BY DEF Handle, Fault, Answer, PipelineInv, PassedSoFar, Untried
<1>2. /\ Taken /\ route \in 1..Len(Routes) /\ (R.public <=> Public)
      /\ Public \/ req.token = "admin"
  BY <1>1, PastTheGuards
<1>3. /\ req' = req /\ R' = R /\ (Public' <=> Public) /\ (Protected' <=> Protected)
      /\ Done' <=> req.json
  BY <1>1 DEF R, Public, Protected, Done
<1> HIDE DEF e
<1>4. /\ response'.status = IF thrown' = "none" THEN SuccessStatus(R) ELSE ErrorStatus(thrown')
      /\ response'.shows = IF thrown' = "none" THEN Output(R.does) ELSE {}
      /\ thrown' \notin {"none", "fault"} => acted' = <<>>
      /\ thrown' = "fault" /\ e # "none" => acted' = <<>>
      /\ acted' \in Written
  <2>1. Acts(R.does) \in Written /\ Prefixes(Acts(R.does)) \subseteq Written /\ <<>> \in Written
    BY ActsType, CutShort, Zenon DEF Written
  <2>2. CASE Handle
    <3>1. /\ thrown' = e
          /\ thrown' = "none" => /\ acted' = Acts(R.does)
                                /\ response' = [status |-> SuccessStatus(R),
                                                shows |-> Output(R.does)]
          /\ thrown' # "none" => /\ acted' = acted
                                /\ response' = [status |-> ErrorStatus(thrown'), shows |-> {}]
      BY <2>2, Zenon DEF Handle, Answer, e
    <3>2. CASE thrown' = "none"
      BY <2>1, <3>1, <3>2
    <3>3. CASE thrown' # "none"
      BY <1>1, <2>1, <3>1, <3>3
    <3> QED
      BY <3>2, <3>3
  <2>3. CASE Fault
    BY <1>1, <2>1, <2>3 DEF Fault, Answer, e
  <2> QED
    BY <2>2, <2>3
<1>5. target' \in {"none", "path"}
  <2>1. R.does \in {"UpdatePart", "AddDiagnostic"} => ~req.extra
    BY <1>1, <1>2, CheckedBodies DEF R, Valid
  <2> QED
    BY <1>1, <2>1 DEF Target
<1>6. SuccessStatus(R) \in {200, 201, 204} /\ ErrorStatus(thrown') \in {400, 404, 409, 500}
  <2>1. SuccessStatus(R) \in {200, 201, 204}
    BY DEF SuccessStatus
  <2>2. ErrorStatus(thrown') \in {400, 404, 409, 500}
    BY ErrorStatuses
  <2> QED
    BY <2>1, <2>2
<1>7. TypeOK'
  <2>1. response'.status \in {200, 201, 204, 400, 404, 409, 500}
    BY <1>4, <1>6
  <2>2. response'.shows \subseteq PartOutput \cup PartPriceOutput \cup ExecutionOutput
    BY <1>4, OutputType
  <2> QED
    BY <1>1, <1>4, <1>5, <2>1, <2>2 DEF TypeOK, Written
<1>8. PassedSoFar'
  BY <1>1 DEF PassedSoFar
<1>9. Public => /\ thrown' \in {"none", "fault"} /\ response'.shows \subseteq PartPriceOutput
                /\ thrown' = "none" => response'.status = 200
  <2> SUFFICES ASSUME Public PROVE /\ thrown' \in {"none", "fault"}
                                   /\ response'.shows \subseteq PartPriceOutput
                                   /\ thrown' = "none" => response'.status = 200
    OBVIOUS
  <2>1. R.method = "GET" /\ R.does \in {"GetPartPrices", "Health"}
    BY <1>2, PublicRoutes DEF R
  <2>2. e = "none" /\ Output(R.does) \subseteq PartPriceOutput
    BY <2>1, PublicHandlers DEF e
  <2>3. SuccessStatus(R) = 200
    BY <2>1 DEF SuccessStatus
  <2> QED
    BY <1>1, <1>4, <2>2, <2>3
<1>10. ProtectedNeedsAdmin'
  <2>1. ~(Protected /\ req.token # "admin")
    BY <1>2 DEF Protected
  <2> QED
    BY <1>3, <2>1 DEF ProtectedNeedsAdmin
<1>11. PublicIsOpen'
  BY <1>3, <1>9 DEF PublicIsOpen
<1>12. OnlyPricesShown'
  BY <1>2, <1>3, <1>9 DEF OnlyPricesShown, PartPriceOutput
<1>13. RefusalChangesNothing'
  <2> SUFFICES ASSUME response'.status \in 400..499
               PROVE  acted' = <<>> /\ response'.shows = {}
    BY DEF RefusalChangesNothing
  <2>1. thrown' # "none"
    <3>1. SUFFICES ASSUME thrown' = "none" PROVE FALSE
      OBVIOUS
    <3>2. response'.status = SuccessStatus(R)
      BY <1>4, <3>1
    <3> QED
      BY <1>6, <3>2
  <2>2. thrown' # "fault"
    BY <1>4, <2>1 DEF ErrorStatus
  <2> QED
    BY <1>4, <2>1, <2>2
<1>14. ErrorsAreKnown'
  <2> SUFFICES ASSUME response'.status = 500, thrown' # "fault"
               PROVE  \/ R.does = "UpdatePart" /\ req.body.name = "null"
                      \/ R.does = "ListParts" /\ req.body.search = "unfit"
    BY <1>3 DEF ErrorsAreKnown
  <2>1. thrown' = e /\ e # "none" /\ ErrorStatus(e) = 500
    BY <1>1, <1>4, <1>6
  <2>2. \/ e = "TypeError" /\ R.does \in {"CreatePart", "UpdatePart"} /\ req.body.name = "null"
        \/ R.does = "ListParts" /\ req.body.search = "unfit"
    BY <2>1, RefusalKinds DEF e
  <2>3. R.does = "CreatePart" => req.body["name"] \in {"ok", "unfit"}
    BY <1>1, <1>2, CheckedBodies DEF Valid, FieldsValid, R
  <2> QED
    BY <2>2, <2>3
<1> QED
  BY <1>1, <1>3, <1>7, <1>8, <1>10, <1>11, <1>12, <1>13, <1>14 DEF PipelineInv

-----------------------------------------------------------------------------
(* The theorems. *)

LEMMA InitPipelineInv == Init => PipelineInv
  BY DEF Init, PipelineInv, TypeOK, PassedSoFar, Untried, ProtectedNeedsAdmin, PublicIsOpen,
         OnlyPricesShown, RefusalChangesNothing, ErrorsAreKnown, Done

LEMMA StutterPipelineInv == PipelineInv /\ UNCHANGED vars => PipelineInv'
<1> SUFFICES ASSUME PipelineInv, UNCHANGED vars PROVE PipelineInv'
  OBVIOUS
<1>1. TypeOK' /\ req' \in Requests
  BY DEF PipelineInv, TypeOK, vars
<1>2. PassedSoFar'
  BY DEF PipelineInv, PassedSoFar, Untried, Taken, R, Public, Valid, FieldsValid, vars
<1>3. ProtectedNeedsAdmin' /\ PublicIsOpen'
  BY DEF PipelineInv, ProtectedNeedsAdmin, PublicIsOpen, Done, Public, Protected, vars
<1>4. OnlyPricesShown' /\ RefusalChangesNothing' /\ ErrorsAreKnown'
  BY DEF PipelineInv, OnlyPricesShown, RefusalChangesNothing, ErrorsAreKnown, Done, R, vars
<1> QED
  BY <1>1, <1>2, <1>3, <1>4 DEF PipelineInv

\* What is known of a request at each stage, for every request on every path of
\* the controllers and beside them: Nest's pipeline over parts.controller.ts,
\* executions.controller.ts and health.controller.ts.
THEOREM InductiveInvariant == Spec => []PipelineInv
<1>1. PipelineInv /\ [Next]_vars => PipelineInv'
  BY ParseStep, RouteStep, AuthStep, RolesStep, PipesStep, HandleStep, StutterPipelineInv DEF Next
<1> QED
  BY InitPipelineInv, <1>1, PTL DEF Spec

\* The guards come before everything else: without the role that the table asks
\* for a request gets 401, 403 or 404, and nothing of it is looked at.
THEOREM GuardsComeFirst == Spec => []ProtectedNeedsAdmin
<1>1. PipelineInv => ProtectedNeedsAdmin
  BY DEF PipelineInv
<1> QED
  BY <1>1, InductiveInvariant, PTL

\* The routes marked @Public() answer whoever asks, and with 200.
THEOREM PublicRoutesAnswer == Spec => []PublicIsOpen
<1>1. PipelineInv => PublicIsOpen
  BY DEF PipelineInv
<1> QED
  BY <1>1, InductiveInvariant, PTL

\* No answer to anybody but an administrator shows more of a part than the price
\* snapshot does.
THEOREM StockIsPrivate == Spec => []OnlyPricesShown
<1>1. PipelineInv => OnlyPricesShown
  BY DEF PipelineInv
<1> QED
  BY <1>1, InductiveInvariant, PTL

\* An answer from 400 to 499 means that nothing was written and nothing published.
THEOREM RefusedIsUndone == Spec => []RefusalChangesNothing
<1>1. PipelineInv => RefusalChangesNothing
  BY DEF PipelineInv
<1> QED
  BY <1>1, InductiveInvariant, PTL

\* A 500 has one of three causes: a failing call, a null name, a search that is
\* no pattern.  The exception filters catch every other refusal.
THEOREM FiveHundredsAreKnown == Spec => []ErrorsAreKnown
<1>1. PipelineInv => ErrorsAreKnown
  BY DEF PipelineInv
<1> QED
  BY <1>1, InductiveInvariant, PTL

================================================================================
