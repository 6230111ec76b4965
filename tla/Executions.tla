------------------------------ MODULE Executions ------------------------------
(***************************************************************************)
(* The execution queue of execution-service (src/modules/executions):      *)
(* the executions collection, the execution.start message and the HTTP     *)
(* calls a mechanic drives an execution with.  Every use case reads the    *)
(* document, changes it in memory and writes it back whole; completing and *)
(* failing go on to consume the parts and to publish the outcome.  One     *)
(* action is one awaited call with the synchronous code that follows it.   *)
(* ConsumePartsUseCase is one call here; Inventory has its steps.          *)
(***************************************************************************)
EXTENDS Naturals, Sequences, FiniteSets

CONSTANTS
    WorkOrders,  \* ids of work orders
    Ops,         \* slots for requests in flight at the same time
    Notes,       \* descriptions of diagnostics
    BlankNotes,  \* those that trim to nothing
    MaxCalls,    \* MaxCalls[r]: how often request r may be delivered
    MaxCrashes,  \* how often the process may die
    MaxFaults    \* how many awaited calls may fail

Requests ==
         [kind: {"start", "repair", "complete", "fail"}, order: WorkOrders]
    \cup [kind: {"diagnose"}, order: WorkOrders, note: Notes]

NoRequest == [kind |-> "none"]

ASSUME NotesType == BlankNotes \subseteq Notes

\* A process has only so many requests in flight.
ASSUME OpsFinite == IsFiniteSet(Ops)

ASSUME BudgetType ==
    /\ MaxCalls \in [Requests -> Nat]
    /\ MaxCrashes \in Nat
    /\ MaxFaults \in Nat

-----------------------------------------------------------------------------
(* The stored documents. *)

Active   == {"QUEUED", "IN_DIAGNOSIS", "IN_REPAIR"}
Terminal == {"COMPLETED", "FAILED"}

\* A document; its status is an ExecutionStatus.
ExecutionDoc == [status: Active \cup Terminal, diagnostics: Seq(Notes \ BlankNotes)]

\* No document.
Missing == [status |-> "NONE", diagnostics |-> <<>>]

\* Execution.start.
Queued == [status |-> "QUEUED", diagnostics |-> <<>>]

VARIABLES
    executions,  \* the executions collection
    told,        \* told[w]: the execution.completed / execution.failed published
    calls,       \* how often each request was delivered
    crashes,
    faults,
    op,          \* the handlers in flight
    \* History, read by properties only:
    recorded,    \* recorded[w]: the diagnostics written, in that order
    consumed,    \* consumed[w]: how often ConsumePartsUseCase returned
    clobbered    \* orders whose document was written from an overtaken read

budget  == <<calls, crashes, faults>>
history == <<recorded, consumed, clobbered>>
vars    == <<executions, told, budget, op, history>>

Pcs == {"idle", "find", "create", "update", "consume", "publish"}

Handler ==
    [pc: Pcs,
     req: Requests \cup {NoRequest},
     copy: ExecutionDoc \cup {Missing},   \* the entity it has in memory
     stale: BOOLEAN]                     \* whether another handler overtook it

\* A handler of r at pc that has no entity in memory.
Blank(pc, r) == [pc |-> pc, req |-> r, copy |-> Missing, stale |-> FALSE]

Idle == Blank("idle", NoRequest)

Init ==
    /\ executions = [w \in WorkOrders |-> Missing]
    /\ told = [w \in WorkOrders |-> [s \in Terminal |-> 0]]
    /\ calls = [r \in Requests |-> 0]
    /\ crashes = 0
    /\ faults = 0
    /\ op = [o \in Ops |-> Idle]
    /\ recorded = [w \in WorkOrders |-> <<>>]
    /\ consumed = [w \in WorkOrders |-> 0]
    /\ clobbered = {}

-----------------------------------------------------------------------------
(* Steps of handlers in general. *)

Continue(o, h) == op' = [op EXCEPT ![o] = h]

\* Handler o goes on at pc without its entity.
Goto(o, pc) == Continue(o, Blank(pc, op[o].req))

\* The request is answered: with a result, or by ExecutionExceptionFilter.
End(o) == Continue(o, Idle)

Call(o, r) ==
    /\ op[o].pc = "idle"
    /\ calls[r] < MaxCalls[r]
    /\ calls' = [calls EXCEPT ![r] = @ + 1]
    /\ Continue(o, Blank("find", r))
    /\ UNCHANGED <<executions, told, crashes, faults, history>>

-----------------------------------------------------------------------------
(* execution.start: ExecutionsSagaSubscriber and StartExecutionUseCase. *)

StartFind(o) ==
    LET h == op[o]
    IN  /\ h.pc = "find"
        /\ h.req.kind = "start"
        /\ IF executions[h.req.order].status = "NONE" THEN Goto(o, "create") ELSE End(o)
        /\ UNCHANGED <<executions, told, budget, history>>

\* Plausible slip: the insert is an upsert.
Create_Upserts(o) ==
    LET w == op[o].req.order
    IN  /\ op[o].pc = "create"
        /\ executions' = [executions EXCEPT ![w] = Queued]
        /\ End(o)
        /\ UNCHANGED <<told, budget, history>>

\* Plausible slip: the entity is built and not saved.
Create_NotSaved(o) ==
    /\ op[o].pc = "create"
    /\ End(o)
    /\ UNCHANGED <<executions, told, budget, history>>

\* executions.create: a second insert with one _id is refused (E11000), which
\* the bus logs and acknowledges.
Create(o) ==
    LET w == op[o].req.order
    IN  /\ op[o].pc = "create"
        /\ executions' = IF executions[w].status = "NONE"
                         THEN [executions EXCEPT ![w] = Queued]
                         ELSE executions
        /\ End(o)
        /\ UNCHANGED <<told, budget, history>>

-----------------------------------------------------------------------------
(* The mechanic's calls. *)

\* Plausible slip: complete accepts every active status.
Completable_Queued == Active

\* Plausible slip: a failed execution may still be completed.
Completable_Failed == {"IN_DIAGNOSIS", "IN_REPAIR", "FAILED"}

\* The statuses complete and fail accept.
Completable == {"IN_DIAGNOSIS", "IN_REPAIR"}

\* Plausible slip: fail refuses an execution that failed, and no other.
Failable_Completed == Active \cup {"COMPLETED"}

Failable == Active

\* addDiagnostic trims the description and refuses an empty one.
Describes(note) == note \notin BlankNotes

\* What addDiagnostic, startRepair, complete and fail do not refuse: they throw
\* InvalidExecutionTransitionError, InvalidExecutionError or, where there is no
\* document, ExecutionNotFoundError.
Accepts(doc, r) ==
    CASE r.kind = "diagnose" -> doc.status \in Active /\ Describes(r.note)
      [] r.kind = "repair"   -> doc.status \in {"QUEUED", "IN_DIAGNOSIS"}
      [] r.kind = "complete" -> doc.status \in Completable
      [] r.kind = "fail"     -> doc.status \in Failable

\* Plausible slip: starting the repair builds a fresh document.
Repaired_Fresh(doc) == [status |-> "IN_REPAIR", diagnostics |-> <<>>]

Repaired(doc) == [doc EXCEPT !.status = "IN_REPAIR"]

Diagnosed(doc, note) ==
    [status |-> IF doc.status = "QUEUED" THEN "IN_DIAGNOSIS" ELSE doc.status,
     diagnostics |-> Append(doc.diagnostics, note)]

\* What they make of the document.
Applied(doc, r) ==
    CASE r.kind = "diagnose" -> Diagnosed(doc, r.note)
      [] r.kind = "repair"   -> Repaired(doc)
      [] r.kind = "complete" -> [doc EXCEPT !.status = "COMPLETED"]
      [] r.kind = "fail"     -> [doc EXCEPT !.status = "FAILED"]

Mechanics == {"diagnose", "repair", "complete", "fail"}

\* What the mechanic's use cases have in common: findByWorkOrderId, the checks,
\* and the change in memory.
Find(o) ==
    LET h   == op[o]
        doc == executions[h.req.order]
    IN  /\ h.pc = "find"
        /\ h.req.kind \in Mechanics
        /\ IF Accepts(doc, h.req)
           THEN Continue(o, [h EXCEPT !.pc = "update", !.copy = Applied(doc, h.req)])
           ELSE End(o)
        /\ UNCHANGED <<executions, told, budget, history>>

AddDiagnostic(o)     == op[o].req.kind = "diagnose" /\ Find(o)
StartRepair(o)       == op[o].req.kind = "repair" /\ Find(o)
CompleteExecution(o) == op[o].req.kind = "complete" /\ Find(o)
FailExecution(o)     == op[o].req.kind = "fail" /\ Find(o)

\* Plausible slip: fail forgets to notify the saga.
AfterUpdate_FailSilent(r) ==
    IF r.kind = "complete" THEN Blank("consume", r) ELSE Idle

\* Plausible slip: complete notifies the saga before it consumes the parts.
AfterUpdate_TellsFirst(r) ==
    IF r.kind \in {"complete", "fail"} THEN Blank("publish", r) ELSE Idle

\* What is left to do once the document is written.
AfterUpdate(r) ==
    CASE r.kind = "complete" -> Blank("consume", r)
      [] r.kind = "fail"     -> Blank("publish", r)
      [] OTHER               -> Idle

\* Whoever else has w's execution in memory has an outdated copy from now on.
Overtake(h, w) ==
    IF h.pc = "update" /\ h.req.order = w THEN [h EXCEPT !.stale = TRUE] ELSE h

\* MongoExecutionRepository.update: the entity replaces the document, whatever
\* the document has become since the handler read it.
Update(o) ==
    LET h == op[o]
        w == h.req.order
    IN  /\ h.pc = "update"
        /\ executions' = [executions EXCEPT ![w] = h.copy]
        /\ op' = [x \in Ops |-> IF x = o THEN AfterUpdate(h.req) ELSE Overtake(op[x], w)]
        /\ recorded' = IF h.req.kind = "diagnose"
                       THEN [recorded EXCEPT ![w] = Append(@, h.req.note)]
                       ELSE recorded
        /\ clobbered' = clobbered \cup (IF h.stale THEN {w} ELSE {})
        /\ UNCHANGED <<told, budget, consumed>>

\* ConsumePartsUseCase, which answers nothing.
Consume(o) ==
    /\ op[o].pc = "consume"
    /\ consumed' = [consumed EXCEPT ![op[o].req.order] = @ + 1]
    /\ Goto(o, "publish")
    /\ UNCHANGED <<executions, told, budget, recorded, clobbered>>

Outcome(kind) == IF kind = "complete" THEN "COMPLETED" ELSE "FAILED"

\* The controller publishes execution.completed or execution.failed.
Publish(o) ==
    LET r == op[o].req
    IN  /\ op[o].pc = "publish"
        /\ told' = [told EXCEPT ![r.order][Outcome(r.kind)] = @ + 1]
        /\ End(o)
        /\ UNCHANGED <<executions, budget, history>>

-----------------------------------------------------------------------------
(* Failures. *)

\* The process dies: memory is gone, the collection stays.  Redelivered
\* messages and repeated HTTP calls are further calls, within MaxCalls.
Crash ==
    /\ crashes < MaxCrashes
    /\ crashes' = crashes + 1
    /\ op' = [o \in Ops |-> Idle]
    /\ UNCHANGED <<executions, told, calls, faults, history>>

\* The call o awaits throws: nothing of the use case or the controller catches
\* it.  A write applied although its answer was lost is the step itself, and
\* the next step's fault.
Fault(o) ==
    /\ op[o].pc # "idle"
    /\ faults < MaxFaults
    /\ faults' = faults + 1
    /\ End(o)
    /\ UNCHANGED <<executions, told, calls, crashes, history>>

-----------------------------------------------------------------------------
\* The next step of the handler in slot o.
Step(o) ==
    \/ StartFind(o) \/ Create(o)
    \/ AddDiagnostic(o) \/ StartRepair(o) \/ CompleteExecution(o) \/ FailExecution(o)
    \/ Update(o) \/ Consume(o) \/ Publish(o)

Next ==
    \/ \E o \in Ops, r \in Requests : Call(o, r)
    \/ \E o \in Ops : Step(o)
    \/ Crash
    \/ \E o \in Ops : Fault(o)

Spec == Init /\ [][Next]_vars

\* Every awaited call returns or throws, and the event loop resumes the handler.
FairSpec == Spec /\ \A o \in Ops : WF_vars(Step(o))

-----------------------------------------------------------------------------
(* Properties. *)

\* Every document, handler and counter has the shape the code gives it; no
\* diagnostic without a description is ever stored.
TypeOK ==
    /\ executions \in [WorkOrders -> ExecutionDoc \cup {Missing}]
    /\ told \in [WorkOrders -> [Terminal -> Nat]]
    /\ calls \in [Requests -> Nat]
    /\ crashes \in Nat
    /\ faults \in Nat
    /\ op \in [Ops -> Handler]
    /\ recorded \in [WorkOrders -> Seq(Notes \ BlankNotes)]
    /\ consumed \in [WorkOrders -> Nat]
    /\ clobbered \in SUBSET WorkOrders

\* Every diagnostic that was accepted is in the document, in the order of
\* acceptance, whatever else was done to the execution meanwhile; unless a
\* document was written from an overtaken read.
DiagnosticsKept ==
    \A w \in WorkOrders \ clobbered : executions[w].diagnostics = recorded[w]

\* The saga is told one outcome of an execution, once, and it is the outcome on
\* record: the orchestrator never hears both execution.completed and
\* execution.failed, nor either of them twice, unless two calls raced.
OneOutcomeTold ==
    \A w \in WorkOrders \ clobbered :
        /\ told[w]["COMPLETED"] + told[w]["FAILED"] <= 1
        /\ \A s \in Terminal : told[w][s] > 0 => executions[w].status = s

\* The saga hears of a completion only after the parts were consumed, however
\* calls race, fail or are cut off.
ConsumedBeforeTold ==
    \A w \in WorkOrders : told[w]["COMPLETED"] <= consumed[w]

\* A redelivered execution.start never puts an execution back into the queue,
\* also when two deliveries are handled at the same time.
NeverRequeued ==
    [][\A w \in WorkOrders :
          executions[w].status # "NONE" /\ executions'[w].status = "QUEUED" =>
              executions'[w] = executions[w]]_vars

StartCommand(w) == [kind |-> "start", order |-> w]

\* Every execution.start ends in an execution on record, if nothing fails.
StartIsQueued ==
    \A w \in WorkOrders :
        calls[StartCommand(w)] > 0 ~>
            executions[w].status # "NONE" \/ crashes + faults > 0

-----------------------------------------------------------------------------
(* The inductive invariant. *)

\* What a handler's place in the code says about its request and its memory: a
\* copy that nobody overtook is what the request makes of the document.
HandlerOK(h) ==
    LET w == h.req.order
    IN  /\ h.pc # "idle" => h.req \in Requests
        /\ h.pc = "create" => h.req.kind = "start"
        /\ h.pc = "update" => /\ h.req.kind \in Mechanics
                              /\ h.req.kind = "diagnose" => Describes(h.req.note)
                              /\ h.copy \in ExecutionDoc /\ h.copy.status # "QUEUED"
                              /\ executions[w].status # "NONE"
                              /\ h.stale \/ /\ Accepts(executions[w], h.req)
                                            /\ h.copy = Applied(executions[w], h.req)
        /\ h.pc = "consume" => h.req.kind = "complete"
        /\ h.pc = "publish" => h.req.kind \in {"complete", "fail"}

\* Handler h has put the outcome of w on record and will tell the saga.
WillTell(h, w) == h.pc \in {"consume", "publish"} /\ h.req.order = w

\* At most one handler will tell the outcome on record, and nobody has.
OutcomePending ==
    \A w \in WorkOrders \ clobbered, o \in Ops : WillTell(op[o], w) =>
        /\ executions[w].status = Outcome(op[o].req.kind)
        /\ told[w]["COMPLETED"] + told[w]["FAILED"] = 0
        /\ \A x \in Ops : WillTell(op[x], w) => x = o

\* The handlers that consumed w's parts and have yet to tell.
Telling(w) ==
    {o \in Ops : /\ op[o].pc = "publish"
                 /\ op[o].req.kind = "complete"
                 /\ op[o].req.order = w}

ConsumptionsCover ==
    \A w \in WorkOrders : told[w]["COMPLETED"] + Cardinality(Telling(w)) <= consumed[w]

\* The inductive invariant: besides the type invariant, who will still tell an
\* outcome, and what those who are about to write have in memory.
IInv ==
    /\ TypeOK
    /\ DiagnosticsKept
    /\ OneOutcomeTold
    /\ OutcomePending
    /\ ConsumptionsCover
    /\ \A o \in Ops : HandlerOK(op[o])

-----------------------------------------------------------------------------
(* What the documentation and the tests say, and the runs refute. *)

\* tests/modules/executions/domain/execution.entity.spec.ts:65 "fails from an
\* active state but not from a terminal one", and so for every transition.
TerminalIsFinal ==
    [][\A w \in WorkOrders :
          executions[w].status \in Terminal =>
              executions'[w].status = executions[w].status]_vars

\* README.md:57 "Consume the reserved parts and publish execution.completed ->
\* COMPLETED": when nobody works on a completed execution, both were done.
CompletedIsSettled ==
    \A w \in WorkOrders :
        executions[w].status = "COMPLETED" /\ (\A o \in Ops : op[o].pc = "idle") =>
            consumed[w] > 0 /\ told[w]["COMPLETED"] > 0
=============================================================================
