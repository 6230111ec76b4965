--------------------------- MODULE ExecutionService ---------------------------
(***************************************************************************)
(* The whole service: Inventory and Executions in one Node process, driven *)
(* by the orchestrator of work-order-service, by mechanics and by          *)
(* administrators.  Completing an execution runs the steps of              *)
(* ConsumePartsUseCase inside its own handler; the process dies with all   *)
(* handlers of both components.  The orchestrator is modelled from the     *)
(* README: it sends commands in the order of the saga, and the broker may  *)
(* deliver any of them again, at any time.                                 *)
(***************************************************************************)
EXTENDS Integers, Sequences, FiniteSets

CONSTANTS
    WorkOrders, Ops,                      \* as in both components
    Parts, Demand, MaxQuantity, Opening,  \* as in Inventory
    Stocked, RestockQuantities, Prices, MaxCents,
    Notes, BlankNotes,                    \* as in Executions
    MaxInventoryCalls, MaxExecutionCalls, MaxCrashes, MaxFaults,
    MaxFailures                           \* crashes and faults together

VARIABLES
    \* of Inventory
    parts, reservations, replies, inventoryCalls, inventoryFaults, inventoryOps,
    ledger, held, clobbered, disturbed,
    \* of Executions
    executions, told, executionCalls, executionFaults, executionOps,
    recorded, consumed, overwritten,
    \* of the process
    crashes

Inv == INSTANCE Inventory WITH
    MaxCalls <- MaxInventoryCalls,
    calls <- inventoryCalls, faults <- inventoryFaults, op <- inventoryOps

Exe == INSTANCE Executions WITH
    MaxCalls <- MaxExecutionCalls,
    calls <- executionCalls, faults <- executionFaults, op <- executionOps,
    clobbered <- overwritten

vars == <<Inv!vars, Exe!vars>>

ConsumeCommand(w) == [kind |-> "consume", order |-> w]

Failures == crashes + inventoryFaults + executionFaults

ASSUME FailuresType == MaxFailures \in Nat

ASSUME InventoryAssumptions ==
    /\ Inv!DemandType /\ Inv!CatalogType /\ Inv!InputType
    /\ Inv!OpsFinite /\ Inv!BudgetType

ASSUME OrdersFinite == IsFiniteSet(WorkOrders)

ASSUME ExecutionsAssumptions == Exe!NotesType /\ Exe!OpsFinite /\ Exe!BudgetType

-----------------------------------------------------------------------------
(* Who runs in a slot, and what the two components share. *)

Free(o) == inventoryOps[o].pc = "idle" /\ executionOps[o].pc = "idle"

\* The handler in o is inside ConsumePartsUseCase.
Consuming(o) == executionOps[o].pc = "consume"

\* What one component does leaves the other alone, but for the process.
OnlyInventory ==
    UNCHANGED <<executions, told, executionCalls, executionFaults, executionOps,
                recorded, consumed, overwritten>>

OnlyExecutions ==
    UNCHANGED <<parts, reservations, replies, inventoryCalls, inventoryFaults,
                inventoryOps, ledger, held, clobbered, disturbed>>

Init == Inv!Init /\ Exe!Init

-----------------------------------------------------------------------------
(* The orchestrator's commands. *)

ReserveCommand(w) == [kind |-> "reserve", order |-> w]
ReleaseCommand(w) == [kind |-> "release", order |-> w]
StartCommand(w)   == [kind |-> "start", order |-> w]

Started(w)     == executionCalls[StartCommand(w)] > 0
Compensated(w) == inventoryCalls[ReleaseCommand(w)] > 0

\* Work starts once the parts are reserved, on an order that was not called off.
MayStart(w) == Started(w) \/ (replies[w].reserved > 0 /\ ~Compensated(w))

\* The saga compensates when the execution failed, and an order that has not
\* been started may be called off once its reservation was answered.
MayRelease(w) ==
    \/ Compensated(w)
    \/ told[w]["FAILED"] > 0
    \/ ~Started(w) /\ replies[w].reserved + replies[w].failed > 0

MaySend(r) ==
    CASE r.kind = "start"   -> MayStart(r.order)
      [] r.kind = "release" -> MayRelease(r.order)
      [] OTHER              -> TRUE

\* A command, or an administrator's call, reaches Inventory.  Nobody but a
\* completion asks for a consumption.
CallInventory(o, r) ==
    /\ Free(o)
    /\ r.kind # "consume" /\ MaySend(r)
    /\ Inv!Call(o, r)
    /\ OnlyInventory

\* A command, or a mechanic's call, reaches Executions.
CallExecutions(o, r) ==
    /\ Free(o)
    /\ MaySend(r)
    /\ Exe!Call(o, r)
    /\ OnlyExecutions

-----------------------------------------------------------------------------
(* Steps of handlers. *)

InventoryStep(o) == ~Consuming(o) /\ Inv!Step(o) /\ OnlyInventory

\* Completing writes the document and goes on in ConsumePartsUseCase.
ExecutionsStep(o) ==
    /\ ~Consuming(o)
    /\ Exe!Step(o)
    /\ IF Consuming(o)' THEN \E w \in WorkOrders :
                               /\ w = executionOps[o].req.order
                               /\ Inv!Call(o, ConsumeCommand(w))
                        ELSE OnlyExecutions

\* Plausible slip: the call of ConsumePartsUseCase is not awaited.
ConsumeStep_NotAwaited(o) == Consuming(o) /\ Exe!Consume(o) /\ OnlyExecutions

\* CompleteExecutionUseCase awaits the steps of ConsumePartsUseCase and goes on
\* when the last of them has returned.
ConsumeStep(o) ==
    /\ Consuming(o)
    /\ Inv!Step(o)
    /\ IF inventoryOps'[o].pc = "idle" THEN Exe!Consume(o) ELSE OnlyInventory

CreatePart(p) == Inv!CreatePart(p) /\ OnlyInventory

\* A call throws; an exception inside ConsumePartsUseCase ends the completion.
Fault(o) ==
    /\ Failures < MaxFailures
    /\ \/ ~Consuming(o) /\ Inv!Fault(o) /\ OnlyInventory
       \/ ~Consuming(o) /\ Exe!Fault(o) /\ OnlyExecutions
       \/ Consuming(o) /\ Inv!Fault(o) /\ Exe!Fault(o)

Crash ==
    /\ Failures < MaxFailures
    /\ Inv!Crash
    /\ Exe!Crash

Step(o) == InventoryStep(o) \/ ExecutionsStep(o) \/ ConsumeStep(o)

Next ==
    \/ \E o \in Ops, r \in Inv!Requests : CallInventory(o, r)
    \/ \E o \in Ops, r \in Exe!Requests : CallExecutions(o, r)
    \/ \E o \in Ops : Step(o)
    \/ \E p \in Parts : CreatePart(p)
    \/ \E o \in Ops : Fault(o)
    \/ Crash

Spec == Init /\ [][Next]_vars

\* Every awaited call returns or throws, and the event loop resumes the handler.
FairSpec == Spec /\ \A o \in Ops : WF_vars(Step(o))

-----------------------------------------------------------------------------
(* Properties. *)

\* When the saga is told execution.completed, the reserved parts are consumed:
\* no duplicate, refusal, compensation or failure puts the message ahead of the
\* stock, unless two calls raced for the execution.
CompletionConsumed ==
    \A w \in WorkOrders \ overwritten :
        told[w]["COMPLETED"] > 0 /\ Demand[w] # <<>> => reservations[w] = "CONSUMED"

\* Only a completion takes parts out of stock (README.md:83): a reservation is
\* consumed only when its execution is completed, unless two calls raced.
OnlyCompletionConsumes ==
    \A w \in WorkOrders \ overwritten :
        reservations[w] = "CONSUMED" => executions[w].status = "COMPLETED"

\* An order that was called off, or whose execution failed, has no reservation in
\* force once its parts.release is handled, if parts.reserve was delivered once
\* only and nothing failed; and it holds no parts, if no order was disturbed (one
\* that was takes units of the others with it).
CompensatedHoldsNothing ==
    Failures = 0 =>
        \A w \in WorkOrders :
            Compensated(w) /\ ~Inv!InFlight(w) /\ inventoryCalls[ReserveCommand(w)] = 1 =>
                /\ reservations[w] # "RESERVED"
                /\ disturbed = {} =>
                      \A p \in Parts \ clobbered :
                          parts[p].state # "deleted" => held[w][p] = 0

\* A completed execution has its parts consumed and the saga told in the end,
\* if nothing fails and no other call raced.
CompletionSettles ==
    \A w \in WorkOrders :
        executions[w].status = "COMPLETED" ~>
            \/ /\ told[w]["COMPLETED"] > 0
               /\ Demand[w] = <<>> \/ reservations[w] = "CONSUMED"
            \/ Failures > 0
            \/ w \in overwritten

\* A failed execution is told to the saga in the end, with the same exceptions.
FailureIsTold ==
    \A w \in WorkOrders :
        executions[w].status = "FAILED" ~> told[w]["FAILED"] > 0 \/ Failures > 0

\* The components' handlers make progress also while they share the process.
EveryReserveAnswered    == Inv!EveryReserveAnswered
FoundReservationSettled == Inv!FoundReservationSettled
StartIsQueued           == Exe!StartIsQueued
-----------------------------------------------------------------------------
(* The inductive invariant of the composition: what relates one component's  *)
(* handlers and documents to the other's.                                    *)

\* The consumption a completion waits for runs in the same slot, for the same
\* order, and nobody else consumes.
Linked ==
    \A o \in Ops :
        /\ Consuming(o) => /\ inventoryOps[o].pc # "idle"
                           /\ inventoryOps[o].req = ConsumeCommand(executionOps[o].req.order)
        /\ inventoryOps[o].pc # "idle" /\ inventoryOps[o].req.kind = "consume" => Consuming(o)

\* A handler in flight was called.
Called ==
    \A o \in Ops :
        /\ inventoryOps[o].pc # "idle" => inventoryCalls[inventoryOps[o].req] > 0
        /\ executionOps[o].pc # "idle" => executionCalls[executionOps[o].req] > 0

\* The documents have gone no further than the saga.
NotAhead ==
    \A w \in WorkOrders :
        /\ executions[w].status # "NONE" => Started(w)
        /\ reservations[w] = "RELEASED" => Compensated(w)
        /\ Started(w) /\ Demand[w] # <<>> => reservations[w] # "NONE"

\* An order whose work was started is called off only once it has failed.
CalledOffFailed ==
    \A w \in WorkOrders \ overwritten :
        Started(w) /\ Compensated(w) => told[w]["FAILED"] > 0

\* A completion that is about to be told has consumed the parts.
ReadyToTell ==
    \A w \in WorkOrders \ overwritten : \A o \in Ops :
        /\ executionOps[o].pc = "publish"
        /\ executionOps[o].req.kind = "complete" /\ executionOps[o].req.order = w
        /\ Demand[w] # <<>>
        => reservations[w] = "CONSUMED"

Together ==
    /\ Linked
    /\ Called
    /\ NotAhead
    /\ CalledOffFailed
    /\ ReadyToTell
    /\ CompletionConsumed
    /\ OnlyCompletionConsumes

\* The saga is ahead of the components only by what it was told: it starts and
\* calls off what was answered, and whoever tells of an order had it started.
Answered ==
    /\ \A w \in WorkOrders :
          /\ told[w]["FAILED"] > 0 => Started(w)
          /\ Started(w) => replies[w].reserved > 0
          /\ Compensated(w) => replies[w].reserved + replies[w].failed > 0
    /\ \A o \in Ops :
          executionOps[o].pc \in {"consume", "publish"} => Started(executionOps[o].req.order)

\* An order called off that still has its reservation has a parts.release in
\* flight, with the exceptions of CompensatedHoldsNothing.
ReleaseComing ==
    Failures = 0 =>
        \A w \in WorkOrders :
            /\ Compensated(w) /\ inventoryCalls[ReserveCommand(w)] = 1
            /\ reservations[w] = "RESERVED"
            => \E o \in Ops : inventoryOps[o].pc # "idle" /\ inventoryOps[o].req = ReleaseCommand(w)

ServiceInv == Together /\ Answered /\ ReleaseComing

=============================================================================
