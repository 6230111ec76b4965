---------------------------- MODULE ServiceProofs ----------------------------
(***************************************************************************)
(* The two components inside the service, for any parts, work orders,      *)
(* payloads, budgets and number of handlers in flight.                     *)
(***************************************************************************)
EXTENDS ExecutionService, TLAPS

-----------------------------------------------------------------------------
(* Each component behaves as its own module says. *)

LEMMA OnlyInventoryStutters ==
    ASSUME OnlyInventory, crashes' = crashes
    PROVE  UNCHANGED Exe!vars
BY DEF OnlyInventory, Exe!vars, Exe!budget, Exe!history

LEMMA OnlyExecutionsStutters ==
    ASSUME OnlyExecutions, crashes' = crashes
    PROVE  UNCHANGED Inv!vars
BY DEF OnlyExecutions, Inv!vars, Inv!store, Inv!budget, Inv!history

\* A call that is awaited does not throw in the same step.
LEMMA InventoryWorks ==
    ASSUME NEW o \in Ops,
           \/ \E r \in Inv!Requests : Inv!Call(o, r)
           \/ Inv!Step(o)
    PROVE  UNCHANGED <<crashes, inventoryFaults>>
<1>1. CASE \E r \in Inv!Requests : Inv!Call(o, r)
  BY <1>1 DEF Inv!Call
<1>2. CASE Inv!Step(o)
  <2>1. CASE Inv!ReserveFind(o) \/ Inv!ReserveCheck(o) \/ Inv!ReserveWrite(o)
    BY <2>1, Zenon DEF Inv!ReserveFind, Inv!ReserveCheck, Inv!ReserveWrite, Inv!budget
  <2>2. CASE Inv!ReserveRecord(o) \/ Inv!PublishReserved(o) \/ Inv!PublishFailed(o)
    BY <2>2 DEF Inv!ReserveRecord, Inv!PublishReserved, Inv!PublishFailed, Inv!budget
  <2>3. CASE Inv!SettleFind(o) \/ Inv!SettleLoad(o)
    BY <2>3, Zenon DEF Inv!SettleFind, Inv!SettleLoad, Inv!budget
  <2>4. CASE Inv!SettleWrite(o) \/ Inv!SettleClose(o)
    BY <2>4, Zenon DEF Inv!SettleWrite, Inv!SettleClose, Inv!budget
  <2>5. CASE Inv!UpdatePart(o) \/ Inv!RestockPart(o) \/ Inv!DeletePart(o) \/ Inv!AdminSave(o)
    BY <2>5 DEF Inv!UpdatePart, Inv!RestockPart, Inv!DeletePart, Inv!AdminEdit,
                Inv!AdminSave, Inv!budget
  <2> QED
    BY <1>2, <2>1, <2>2, <2>3, <2>4, <2>5 DEF Inv!Step
<1> QED
  BY <1>1, <1>2

LEMMA ExecutionsWork ==
    ASSUME NEW o \in Ops,
           \/ \E r \in Exe!Requests : Exe!Call(o, r)
           \/ Exe!Step(o)
    PROVE  UNCHANGED <<crashes, executionFaults>>
<1>1. CASE \E r \in Exe!Requests : Exe!Call(o, r)
  BY <1>1 DEF Exe!Call
<1>2. CASE Exe!Step(o)
  <2>1. CASE Exe!StartFind(o) \/ Exe!Create(o)
    BY <2>1 DEF Exe!StartFind, Exe!Create, Exe!budget
  <2>2. CASE Exe!AddDiagnostic(o) \/ Exe!StartRepair(o)
             \/ Exe!CompleteExecution(o) \/ Exe!FailExecution(o)
    BY <2>2 DEF Exe!AddDiagnostic, Exe!StartRepair, Exe!CompleteExecution,
                Exe!FailExecution, Exe!Find, Exe!budget
  <2>3. CASE Exe!Update(o) \/ Exe!Consume(o) \/ Exe!Publish(o)
    BY <2>3 DEF Exe!Update, Exe!Consume, Exe!Publish, Exe!budget
  <2> QED
    BY <1>2, <2>1, <2>2, <2>3 DEF Exe!Step
<1> QED
  BY <1>1, <1>2

\* Only Crash counts a crash.
LEMMA InventoryStaysUp ==
    ASSUME NEW o \in Ops,
           \/ \E r \in Inv!Requests : Inv!Call(o, r)
           \/ Inv!Step(o)
           \/ Inv!Fault(o)
           \/ \E p \in Parts : Inv!CreatePart(p)
    PROVE  crashes' = crashes
BY InventoryWorks DEF Inv!Fault, Inv!CreatePart, Inv!budget

LEMMA ExecutionsStayUp ==
    ASSUME NEW o \in Ops,
           \/ \E r \in Exe!Requests : Exe!Call(o, r)
           \/ Exe!Step(o)
           \/ Exe!Fault(o)
    PROVE  crashes' = crashes
BY ExecutionsWork DEF Exe!Fault

LEMMA NextInside == [Next]_vars => [Inv!Next]_(Inv!vars) /\ [Exe!Next]_(Exe!vars)
<1> USE DEF Inv!Next, Exe!Next
<1> SUFFICES ASSUME Next \/ UNCHANGED vars
             PROVE  [Inv!Next]_(Inv!vars) /\ [Exe!Next]_(Exe!vars)
  OBVIOUS
<1>1. ASSUME NEW o \in Ops, NEW r \in Inv!Requests, CallInventory(o, r)
      PROVE  [Inv!Next]_(Inv!vars) /\ [Exe!Next]_(Exe!vars)
  BY <1>1, InventoryStaysUp, OnlyInventoryStutters DEF CallInventory
<1>2. ASSUME NEW o \in Ops, NEW r \in Exe!Requests, CallExecutions(o, r)
      PROVE  [Inv!Next]_(Inv!vars) /\ [Exe!Next]_(Exe!vars)
  BY <1>2, ExecutionsStayUp, OnlyExecutionsStutters DEF CallExecutions
<1>3. ASSUME NEW o \in Ops, Step(o)
      PROVE  [Inv!Next]_(Inv!vars) /\ [Exe!Next]_(Exe!vars)
  <2>1. CASE InventoryStep(o)
    BY <2>1, InventoryStaysUp, OnlyInventoryStutters DEF InventoryStep
  <2>2. CASE ExecutionsStep(o)
    <3>1. Exe!Step(o) /\ crashes' = crashes
      BY <2>2, ExecutionsStayUp DEF ExecutionsStep
    <3>2. CASE OnlyExecutions
      BY <3>1, <3>2, OnlyExecutionsStutters
    <3>3. ASSUME NEW w \in WorkOrders, Inv!Call(o, ConsumeCommand(w))
          PROVE  [Inv!Next]_(Inv!vars) /\ [Exe!Next]_(Exe!vars)
      <4>1. ConsumeCommand(w) \in Inv!Requests
        BY DEF ConsumeCommand, Inv!Requests, Inv!SagaCommands
      <4> QED
        BY <3>1, <3>3, <4>1
    <3> QED
      BY <2>2, <3>2, <3>3 DEF ExecutionsStep
  <2>3. CASE ConsumeStep(o)
    <3>1. Inv!Step(o) /\ crashes' = crashes
      BY <2>3, InventoryStaysUp DEF ConsumeStep
    <3>2. CASE Exe!Consume(o)
      BY <3>1, <3>2 DEF Exe!Step
    <3>3. CASE OnlyInventory
      BY <3>1, <3>3, OnlyInventoryStutters
    <3> QED
      BY <2>3, <3>2, <3>3 DEF ConsumeStep
  <2> QED
    BY <1>3, <2>1, <2>2, <2>3 DEF Step
<1>4. ASSUME NEW p \in Parts, CreatePart(p)
      PROVE  [Inv!Next]_(Inv!vars) /\ [Exe!Next]_(Exe!vars)
  <2>1. crashes' = crashes
    BY <1>4 DEF CreatePart, Inv!CreatePart, Inv!budget
  <2> QED
    BY <1>4, <2>1, OnlyInventoryStutters DEF CreatePart
<1>5. ASSUME NEW o \in Ops, Fault(o)
      PROVE  [Inv!Next]_(Inv!vars) /\ [Exe!Next]_(Exe!vars)
  <2>1. CASE Inv!Fault(o) /\ OnlyInventory
    BY <2>1, InventoryStaysUp, OnlyInventoryStutters
  <2>2. CASE Exe!Fault(o) /\ OnlyExecutions
    BY <2>2, ExecutionsStayUp, OnlyExecutionsStutters
  <2>3. CASE Inv!Fault(o) /\ Exe!Fault(o)
    BY <2>3
  <2> QED
    BY <1>5, <2>1, <2>2, <2>3 DEF Fault
<1>6. CASE Crash
  BY <1>6 DEF Crash
<1>7. CASE UNCHANGED vars
  BY <1>7 DEF vars
<1> QED
  BY <1>1, <1>2, <1>3, <1>4, <1>5, <1>6, <1>7 DEF Next

\* The service is its two components: whatever the orchestrator, mechanics and
\* administrators do, and whichever handlers share the process or die with it,
\* each component takes the steps of its own module only.  What is shown of
\* Inventory and of Executions therefore holds of them in the service.
THEOREM ComponentsInside == Spec => Inv!Spec /\ Exe!Spec
<1>1. Init => Inv!Init /\ Exe!Init
  BY DEF Init
<1> QED
  BY <1>1, NextInside, PTL DEF Spec, Inv!Spec, Exe!Spec

-----------------------------------------------------------------------------
(* What is proved of the components holds inside the service. *)

InvP == INSTANCE OrderProofs WITH
    MaxCalls <- MaxInventoryCalls,
    calls <- inventoryCalls, faults <- inventoryFaults, op <- inventoryOps

ExeP == INSTANCE ExecutionsProofs WITH
    MaxCalls <- MaxExecutionCalls,
    calls <- executionCalls, faults <- executionFaults, op <- executionOps,
    clobbered <- overwritten

\* The proof modules extend the modules they are about.
LEMMA SameInventory == Inv!Spec => InvP!Spec
<1>1. Inv!Init => InvP!Init
  BY DEF
         Inv!Init, Inv!FreshPart, Inv!Absent, Inv!Requests, Inv!Idle,
         Inv!Total, Inv!SagaCommands, Inv!AdminCalls, Inv!Blank,
         Inv!NoRequest, InvP!Init, InvP!FreshPart, InvP!Absent, InvP!Requests,
         InvP!Idle, InvP!Total, InvP!SagaCommands, InvP!AdminCalls,
         InvP!Blank, InvP!NoRequest
<1>2. Inv!Next => InvP!Next
  BY Zenon DEF
         Inv!Cardinality, Inv!Next, Inv!Requests, Inv!Call, Inv!Step,
         Inv!CreatePart, Inv!Crash, Inv!Fault, Inv!SagaCommands,
         Inv!AdminCalls, Inv!Continue, Inv!Blank, Inv!FirstPc, Inv!store,
         Inv!history, Inv!ReserveFind, Inv!ReserveCheck, Inv!ReserveWrite,
         Inv!ReserveRecord, Inv!PublishReserved, Inv!PublishFailed,
         Inv!SettleFind, Inv!SettleLoad, Inv!SettleWrite, Inv!SettleClose,
         Inv!UpdatePart, Inv!RestockPart, Inv!DeletePart, Inv!AdminSave,
         Inv!FreshPart, Inv!budget, Inv!Idle, Inv!HalfDone, Inv!AfterThrow,
         Inv!Absent, Inv!AlreadyServed, Inv!Goto, Inv!StartWork,
         Inv!CanReserve, Inv!ReservedCopies, Inv!Requested, Inv!Asked,
         Inv!Refuse, Inv!SavePart, Inv!End, Inv!IsActive, Inv!Capped,
         Inv!ReleaseUnits, Inv!ConsumeUnits, Inv!NextItem,
         Inv!SaveReservation, Inv!ClosedAs, Inv!AdminEdit, Inv!NoRequest,
         Inv!Working, Inv!ValidItems, Inv!ReserveUnits, Inv!Overtake,
         Inv!Booked, Inv!ValidEdit, Inv!Edited, Inv!SettlePcs, Inv!Change,
         Inv!Deleted, InvP!Cardinality, InvP!Next, InvP!Requests, InvP!Call,
         InvP!Step, InvP!CreatePart, InvP!Crash, InvP!Fault,
         InvP!SagaCommands, InvP!AdminCalls, InvP!Continue, InvP!Blank,
         InvP!FirstPc, InvP!store, InvP!history, InvP!ReserveFind,
         InvP!ReserveCheck, InvP!ReserveWrite, InvP!ReserveRecord,
         InvP!PublishReserved, InvP!PublishFailed, InvP!SettleFind,
         InvP!SettleLoad, InvP!SettleWrite, InvP!SettleClose, InvP!UpdatePart,
         InvP!RestockPart, InvP!DeletePart, InvP!AdminSave, InvP!FreshPart,
         InvP!budget, InvP!Idle, InvP!HalfDone, InvP!AfterThrow, InvP!Absent,
         InvP!AlreadyServed, InvP!Goto, InvP!StartWork, InvP!CanReserve,
         InvP!ReservedCopies, InvP!Requested, InvP!Asked, InvP!Refuse,
         InvP!SavePart, InvP!End, InvP!IsActive, InvP!Capped,
         InvP!ReleaseUnits, InvP!ConsumeUnits, InvP!NextItem,
         InvP!SaveReservation, InvP!ClosedAs, InvP!AdminEdit, InvP!NoRequest,
         InvP!Working, InvP!ValidItems, InvP!ReserveUnits, InvP!Overtake,
         InvP!Booked, InvP!ValidEdit, InvP!Edited, InvP!SettlePcs,
         InvP!Change, InvP!Deleted
<1>3. UNCHANGED Inv!vars => UNCHANGED InvP!vars
  BY DEF Inv!vars, Inv!store, Inv!budget, Inv!history,
         InvP!vars, InvP!store, InvP!budget, InvP!history
<1> QED
  BY <1>1, <1>2, <1>3, PTL DEF Inv!Spec, InvP!Spec

LEMMA SameExecutions == Exe!Spec => ExeP!Spec
<1>1. Exe!Init => ExeP!Init
  BY DEF
         Exe!Init, Exe!Missing, Exe!Terminal, Exe!Requests, Exe!Idle,
         Exe!Blank, Exe!NoRequest, ExeP!Init, ExeP!Missing, ExeP!Terminal,
         ExeP!Requests, ExeP!Idle, ExeP!Blank, ExeP!NoRequest
<1>2. Exe!Next => ExeP!Next
  BY Zenon DEF
         Exe!Next, Exe!Requests, Exe!Call, Exe!Step, Exe!Crash, Exe!Fault,
         Exe!Continue, Exe!Blank, Exe!history, Exe!StartFind, Exe!Create,
         Exe!AddDiagnostic, Exe!StartRepair, Exe!CompleteExecution,
         Exe!FailExecution, Exe!Update, Exe!Consume, Exe!Publish, Exe!Idle,
         Exe!End, Exe!Missing, Exe!Goto, Exe!budget, Exe!Queued, Exe!Find,
         Exe!AfterUpdate, Exe!Overtake, Exe!Outcome, Exe!NoRequest,
         Exe!Mechanics, Exe!Accepts, Exe!Applied, Exe!Active, Exe!Describes,
         Exe!Completable, Exe!Failable, Exe!Diagnosed, Exe!Repaired,
         ExeP!Next, ExeP!Requests, ExeP!Call, ExeP!Step, ExeP!Crash,
         ExeP!Fault, ExeP!Continue, ExeP!Blank, ExeP!history, ExeP!StartFind,
         ExeP!Create, ExeP!AddDiagnostic, ExeP!StartRepair,
         ExeP!CompleteExecution, ExeP!FailExecution, ExeP!Update,
         ExeP!Consume, ExeP!Publish, ExeP!Idle, ExeP!End, ExeP!Missing,
         ExeP!Goto, ExeP!budget, ExeP!Queued, ExeP!Find, ExeP!AfterUpdate,
         ExeP!Overtake, ExeP!Outcome, ExeP!NoRequest, ExeP!Mechanics,
         ExeP!Accepts, ExeP!Applied, ExeP!Active, ExeP!Describes,
         ExeP!Completable, ExeP!Failable, ExeP!Diagnosed, ExeP!Repaired
<1>3. UNCHANGED Exe!vars => UNCHANGED ExeP!vars
  BY DEF Exe!vars, Exe!budget, Exe!history, ExeP!vars, ExeP!budget, ExeP!history
<1> QED
  BY <1>1, <1>2, <1>3, PTL DEF Exe!Spec, ExeP!Spec

\* The service's assumptions are those of its inventory.
LEMMA InventoryAssumed ==
    /\ InvP!DemandType /\ InvP!CatalogType /\ InvP!InputType /\ InvP!BudgetType
    /\ InvP!OpsFinite /\ InvP!OrdersFinite
<1>1. InvP!DemandType /\ InvP!CatalogType /\ InvP!InputType /\ InvP!BudgetType
  BY InventoryAssumptions
     DEF Inv!DemandType, Inv!CatalogType, Inv!InputType, Inv!BudgetType,
         InvP!DemandType, InvP!CatalogType, InvP!InputType, InvP!BudgetType,
         Inv!Requests, InvP!Requests, Inv!SagaCommands, InvP!SagaCommands,
         Inv!AdminCalls, InvP!AdminCalls
<1>2. InvP!OpsFinite
  BY InventoryAssumptions DEF Inv!OpsFinite, InvP!OpsFinite, Inv!IsFiniteSet, InvP!IsFiniteSet
<1>3. InvP!OrdersFinite
  BY OrdersFinite DEF InvP!OrdersFinite, IsFiniteSet, InvP!IsFiniteSet
<1> QED
  BY <1>1, <1>2, <1>3

\* And those of its executions.
LEMMA ExecutionsAssumed == ExeP!NotesType /\ ExeP!OpsFinite /\ ExeP!BudgetType
BY ExecutionsAssumptions
   DEF Exe!NotesType, Exe!OpsFinite, Exe!BudgetType,
       ExeP!NotesType, ExeP!OpsFinite, ExeP!BudgetType,
       Exe!Requests, ExeP!Requests, Exe!IsFiniteSet, ExeP!IsFiniteSet

\* Each component keeps its inductive invariant, whatever the other does, and
\* what follows from it.
LEMMA InvariantsInside ==
    Spec => [](/\ InvP!IInv /\ ExeP!IInv
               /\ InvP!OneReplyPerCommand /\ InvP!HeldMatchesReservation)
<1>1. InvP!Spec => []InvP!IInv
  BY InventoryAssumed, InvP!InductiveInvariant
<1>2. InvP!Spec => []InvP!OneReplyPerCommand
  BY InventoryAssumed, InvP!RepliesAreCounted
<1>3. InvP!Spec => []InvP!HeldMatchesReservation
  BY InventoryAssumed, InvP!HoldingsMatch
<1>4. ExeP!Spec => []ExeP!IInv
  BY ExecutionsAssumed, ExeP!InductiveInvariant
<1> QED
  BY <1>1, <1>2, <1>3, <1>4, SameInventory, SameExecutions, ComponentsInside, PTL

\* What the inventory promises holds inside the service, where a consumption runs
\* inside a completion and ends with it: the ledger balances, edits survive, what
\* is answered and what is on record agree, and every operation takes effect at
\* once (the handlers of src/modules/inventory).
THEOREM InventoryInside ==
    Spec => /\ [](/\ InvP!StockConserved /\ InvP!EditsSurvive /\ InvP!ReservedReplyBacked
                  /\ InvP!OneReplyPerCommand /\ InvP!ReservedMatchesHeld
                  /\ InvP!HeldMatchesReservation /\ InvP!RefusalLeavesNothing)
            /\ InvP!ClosedStaysClosed
            /\ InvP!KeepsAccount
<1>1. InvP!Spec => [](InvP!StockConserved /\ InvP!EditsSurvive /\ InvP!ReservedReplyBacked)
  <2>1. InvP!Spec => []InvP!StockConserved
    BY InventoryAssumed, InvP!StockIsConserved
  <2>2. InvP!Spec => []InvP!EditsSurvive
    BY InventoryAssumed, InvP!EditsAreKept
  <2>3. InvP!Spec => []InvP!ReservedReplyBacked
    BY InventoryAssumed, InvP!RepliesAreBacked
  <2> QED
    BY <2>1, <2>2, <2>3, PTL
<1>2. InvP!Spec => [](/\ InvP!OneReplyPerCommand /\ InvP!ReservedMatchesHeld
                      /\ InvP!HeldMatchesReservation /\ InvP!RefusalLeavesNothing)
  <2>1. InvP!Spec => []InvP!OneReplyPerCommand
    BY InventoryAssumed, InvP!RepliesAreCounted
  <2>2. InvP!Spec => []InvP!ReservedMatchesHeld
    BY InventoryAssumed, InvP!BooksBalance
  <2>3. InvP!Spec => []InvP!HeldMatchesReservation
    BY InventoryAssumed, InvP!HoldingsMatch
  <2>4. InvP!Spec => []InvP!RefusalLeavesNothing
    BY InventoryAssumed, InvP!RefusalIsClean
  <2> QED
    BY <2>1, <2>2, <2>3, <2>4, PTL
<1>3. InvP!Spec => InvP!ClosedStaysClosed
  BY InventoryAssumed, InvP!ClosedIsFinal
<1>4. InvP!Spec => InvP!KeepsAccount
  BY InventoryAssumed, InvP!ImplementsAccount
<1>5. Spec => InvP!Spec
  BY SameInventory, ComponentsInside, PTL
<1> QED
  BY <1>1, <1>2, <1>3, <1>4, <1>5, PTL

\* And so does what the executions promise the saga: one outcome, after the parts
\* were consumed, no diagnostic lost, nothing queued again, and each step a step
\* of the lifecycle (the handlers of src/modules/executions).
THEOREM ExecutionsInside ==
    Spec => /\ [](ExeP!OneOutcomeTold /\ ExeP!ConsumedBeforeTold /\ ExeP!DiagnosticsKept)
            /\ ExeP!NeverRequeued
            /\ ExeP!FollowsLifecycle
<1>1. ExeP!Spec => [](ExeP!OneOutcomeTold /\ ExeP!ConsumedBeforeTold /\ ExeP!DiagnosticsKept)
  <2>1. ExeP!Spec => []ExeP!OneOutcomeTold
    BY ExecutionsAssumed, ExeP!OneOutcome
  <2>2. ExeP!Spec => []ExeP!ConsumedBeforeTold
    BY ExecutionsAssumed, ExeP!ConsumedFirst
  <2>3. ExeP!Spec => []ExeP!DiagnosticsKept
    BY ExecutionsAssumed, ExeP!DiagnosticsAreKept
  <2> QED
    BY <2>1, <2>2, <2>3, PTL
<1>2. ExeP!Spec => ExeP!NeverRequeued
  BY ExecutionsAssumed, ExeP!NothingIsRequeued
<1>3. ExeP!Spec => ExeP!FollowsLifecycle
  BY ExecutionsAssumed, ExeP!ImplementsLifecycle
<1>4. Spec => ExeP!Spec
  BY SameExecutions, ComponentsInside, PTL
<1> QED
  BY <1>1, <1>2, <1>3, <1>4, PTL

-----------------------------------------------------------------------------
(* What a step of a component does to its handlers and documents, as far as  *)
(* the other component's depend on it.                                       *)

\* A step of Inventory moves one handler along, and changes a reservation only
\* by recording it or by closing it.
LEMMA InventoryMoves ==
    ASSUME InvP!IInv, NEW o \in Ops, Inv!Step(o)
    PROVE  /\ inventoryOps[o].pc # "idle"
           /\ UNCHANGED inventoryCalls
           /\ \A x \in Ops :
                 \/ inventoryOps'[x].pc = "idle" /\ x = o
                 \/ /\ inventoryOps'[x].pc # "idle" <=> inventoryOps[x].pc # "idle"
                    /\ inventoryOps'[x].req = inventoryOps[x].req
           /\ \A w \in WorkOrders :
                 \/ reservations'[w] = reservations[w]
                 \/ reservations[w] = "NONE" /\ reservations'[w] = "RESERVED"
                 \/ /\ inventoryOps[o].req \in {ReleaseCommand(w), ConsumeCommand(w)}
                    /\ reservations'[w] = IF inventoryOps[o].req = ReleaseCommand(w)
                                          THEN "RELEASED" ELSE "CONSUMED"
           /\ \A w \in WorkOrders :
                 inventoryOps[o].req = ConsumeCommand(w) /\ inventoryOps'[o].pc = "idle" =>
                    \/ reservations'[w] = "CONSUMED"
                    \/ reservations'[w] = reservations[w] /\ reservations[w] # "RESERVED"
<1> DEFINE h == inventoryOps[o]
<1>1. /\ inventoryOps \in [Ops -> InvP!Handler]
      /\ reservations \in [WorkOrders -> InvP!ReservationStates]
      /\ InvP!HandlerOK(h)
  BY DEF InvP!IInv, InvP!TypeOK
<1>2. h \in InvP!Handler /\ \A x \in Ops : inventoryOps[x] \in InvP!Handler
  BY <1>1
<1>3. CASE Inv!ReserveFind(o) \/ Inv!ReserveCheck(o)
  <2>1. /\ h.pc \in {"find", "check"} /\ h.req.kind = "reserve"
        /\ UNCHANGED <<reservations, inventoryCalls>>
    BY <1>1, <1>3, Zenon
       DEF Inv!ReserveFind, Inv!ReserveCheck, Inv!store, Inv!budget, Inv!history,
           InvP!HandlerOK, InvP!ReservePcs
  <2>2. /\ \A x \in Ops \ {o} : inventoryOps'[x] = inventoryOps[x]
        /\ inventoryOps'[o].pc # "idle" /\ inventoryOps'[o].req = h.req
    <3>1. CASE Inv!ReserveFind(o)
      BY <1>1, <3>1 DEF Inv!ReserveFind, Inv!StartWork, Inv!Goto, Inv!Continue, Inv!Blank
    <3>2. CASE Inv!ReserveCheck(o)
      <4> DEFINE w       == h.req.order
                 copies  == Inv!ReservedCopies(w)
                 units   == [p \in Parts |-> IF p \in Inv!Requested(w) THEN Inv!Asked(w, p)
                                                                      ELSE 0]
                 full    == [h EXCEPT !.pc = "write", !.copy = copies, !.moved = units]
                 refused == Inv!Blank("replyFailed", h.req)
      <4>1. inventoryOps' =
               [inventoryOps EXCEPT ![o] = IF Inv!CanReserve(w) THEN full ELSE refused]
        BY <3>2 DEF Inv!ReserveCheck, Inv!Refuse, Inv!Goto, Inv!Continue
      <4>2. full.pc # "idle" /\ full.req = h.req
        <5> HIDE DEF copies, units
        <5> QED
          BY <1>2 DEF InvP!Handler
      <4>3. refused.pc # "idle" /\ refused.req = h.req
        BY DEF Inv!Blank
      <4> HIDE DEF full, refused
      <4> QED
        BY <1>1, <4>1, <4>2, <4>3
    <3> QED
      BY <1>3, <3>1, <3>2
  <2> QED
    BY <1>1, <2>1, <2>2 DEF ConsumeCommand
<1>4. CASE Inv!ReserveWrite(o)
  BY <1>1, <1>2, <1>4, Zenon
     DEF Inv!ReserveWrite, Inv!SavePart, Inv!Overtake, Inv!budget, InvP!Handler
<1>5. CASE Inv!ReserveRecord(o)
  BY <1>1, <1>2, <1>5
     DEF Inv!ReserveRecord, Inv!Refuse, Inv!Goto, Inv!Continue, Inv!Blank, Inv!budget, InvP!Handler
<1>6. CASE Inv!PublishReserved(o) \/ Inv!PublishFailed(o)
  <2>1. h.req.kind = "reserve"
    BY <1>1, <1>6, Zenon DEF Inv!PublishReserved, Inv!PublishFailed, InvP!HandlerOK, InvP!ReservePcs
  <2> QED
    BY <1>1, <1>2, <1>6, <2>1
       DEF Inv!PublishReserved, Inv!PublishFailed, Inv!End, Inv!Continue, Inv!Idle,
           Inv!Blank, Inv!store, Inv!budget, InvP!Handler, ConsumeCommand
<1>7. CASE Inv!SettleFind(o)
  <2>1. /\ h.pc = "find" /\ UNCHANGED <<reservations, inventoryCalls>>
    BY <1>7 DEF Inv!SettleFind, Inv!store, Inv!budget
  <2>2. /\ \A x \in Ops \ {o} : inventoryOps'[x] = inventoryOps[x]
        /\ \/ inventoryOps'[o].pc # "idle" /\ inventoryOps'[o].req = h.req
           \/ inventoryOps'[o].pc = "idle" /\ reservations[h.req.order] # "RESERVED"
    BY <1>1, <1>7 DEF Inv!SettleFind, Inv!StartWork, Inv!IsActive, Inv!Goto, Inv!End,
                Inv!Continue, Inv!Idle, Inv!Blank
  <2> QED
    BY <1>1, <2>1, <2>2 DEF ConsumeCommand
<1>8. CASE Inv!SettleLoad(o)
  <2>1. /\ h.pc = "load" /\ UNCHANGED <<reservations, inventoryCalls>>
    BY <1>8, Zenon DEF Inv!SettleLoad, Inv!store, Inv!budget
  <2>2. /\ \A x \in Ops \ {o} : inventoryOps'[x] = inventoryOps[x]
        /\ inventoryOps'[o].pc # "idle" /\ inventoryOps'[o].req = h.req
    <3> DEFINE item == Demand[h.req.order][h.idx]
               doc  == parts[item.part]
               n    == Inv!Capped(doc, item.quantity)
               new  == IF h.req.kind = "release" THEN Inv!ReleaseUnits(doc, n)
                                                 ELSE Inv!ConsumeUnits(doc, n)
               full == [h EXCEPT !.pc = "settle", !.copy[item.part] = new,
                                 !.moved[item.part] = n]
               skip == Inv!NextItem(h)
    <3>1. inventoryOps' = [inventoryOps EXCEPT ![o] = IF doc.state = "live" THEN full ELSE skip]
      BY <1>8, Zenon DEF Inv!SettleLoad, Inv!Continue
    <3>2. full.pc # "idle" /\ full.req = h.req
      <4> HIDE DEF item, n, new
      <4> QED
        BY <1>2 DEF InvP!Handler
    <3>3. skip.pc # "idle" /\ skip.req = h.req
      BY <1>2 DEF InvP!Handler, Inv!NextItem
    <3> HIDE DEF full, skip
    <3> QED
      BY <1>1, <3>1, <3>2, <3>3, ZenonT(30)
  <2> QED
    BY <1>1, <2>1, <2>2
<1>9. CASE Inv!SettleWrite(o)
  BY <1>1, <1>2, <1>9, Zenon
     DEF Inv!SettleWrite, Inv!SavePart, Inv!NextItem, Inv!Overtake, Inv!budget, InvP!Handler
<1>10. CASE Inv!SettleClose(o)
  <2>1. /\ h.req \in InvP!SagaCommands
        /\ h.req.kind \in {"release", "consume"}
    BY <1>1, <1>10 DEF Inv!SettleClose, InvP!HandlerOK, InvP!SettlePcs
  <2>2. h.req \in {ReleaseCommand(h.req.order), ConsumeCommand(h.req.order)}
    BY <2>1 DEF InvP!SagaCommands, ReleaseCommand, ConsumeCommand
  <2> QED
    BY <1>1, <1>2, <1>10, <2>1, <2>2
       DEF Inv!SettleClose, Inv!SaveReservation, Inv!ClosedAs, Inv!End, Inv!Continue,
           Inv!Idle, Inv!Blank, Inv!budget, InvP!SagaCommands, ReleaseCommand, ConsumeCommand
<1>11. CASE Inv!UpdatePart(o) \/ Inv!RestockPart(o) \/ Inv!DeletePart(o)
  <2>1. /\ h.pc = "edit" /\ h.req.kind # "consume"
        /\ UNCHANGED <<reservations, inventoryCalls>>
    BY <1>11 DEF Inv!UpdatePart, Inv!RestockPart, Inv!DeletePart, Inv!AdminEdit,
                 Inv!store, Inv!budget
  <2>2. /\ \A x \in Ops \ {o} : inventoryOps'[x] = inventoryOps[x]
        /\ \/ inventoryOps'[o].pc = "idle"
           \/ inventoryOps'[o].pc # "idle" /\ inventoryOps'[o].req = h.req
    <3> DEFINE p     == h.req.part
               new   == Inv!Edited(parts[p], h.req)
               units == IF h.req.kind = "restock" THEN h.req.amount ELSE 0
               full  == [h EXCEPT !.pc = "save", !.copy[p] = new, !.moved[p] = units]
    <3>1. inventoryOps' = [inventoryOps EXCEPT
             ![o] = IF parts[p].state = "live" /\ Inv!ValidEdit(h.req) THEN full ELSE Inv!Idle]
      BY <1>11 DEF Inv!UpdatePart, Inv!RestockPart, Inv!DeletePart, Inv!AdminEdit,
                   Inv!End, Inv!Continue
    <3>2. full.pc # "idle" /\ full.req = h.req
      <4> HIDE DEF p, new, units
      <4> QED
        BY <1>2 DEF InvP!Handler
    <3>3. Inv!Idle.pc = "idle"
      BY DEF Inv!Idle, Inv!Blank
    <3> HIDE DEF full
    <3> QED
      BY <1>1, <3>1, <3>2, <3>3
  <2> QED
    BY <1>1, <2>1, <2>2 DEF ConsumeCommand
<1>12. CASE Inv!AdminSave(o)
  <2>1. h.req.kind # "consume"
    BY <1>1, <1>12 DEF Inv!AdminSave, InvP!HandlerOK, InvP!AdminPcs, InvP!AdminCalls
  <2> QED
    BY <1>1, <1>2, <1>12, <2>1
       DEF Inv!AdminSave, Inv!SavePart, Inv!Overtake, Inv!Idle, Inv!Blank, Inv!budget,
           InvP!Handler, ConsumeCommand
<1> QED
  BY <1>3, <1>4, <1>5, <1>6, <1>7, <1>8, <1>9, <1>10, <1>11, <1>12 DEF Inv!Step

\* Inside ConsumePartsUseCase a completion waits; when that returns, it goes on
\* to tell the saga.
LEMMA ConsumeMoves ==
    ASSUME ExeP!IInv, NEW o \in Ops, Exe!Consume(o)
    PROVE  /\ UNCHANGED <<executions, told, executionCalls, overwritten>>
           /\ \A x \in Ops \ {o} : executionOps'[x] = executionOps[x]
           /\ executionOps'[o].pc = "publish"
           /\ executionOps'[o].req = executionOps[o].req
BY DEF ExeP!IInv, ExeP!TypeOK, Exe!Consume, Exe!Goto, Exe!Continue, Exe!Blank, Exe!budget

\* Any other step of Executions moves one handler along; it reopens a completed
\* execution only by overwriting it, and tells of a completion what Consume left.
LEMMA ExecutionMoves ==
    ASSUME ExeP!IInv, NEW o \in Ops, Exe!Step(o), ~Consuming(o)
    PROVE  /\ executionOps[o].pc # "idle"
           /\ UNCHANGED executionCalls
           /\ overwritten \subseteq overwritten'
           /\ \A x \in Ops \ {o} :
                 /\ executionOps'[x].pc = executionOps[x].pc
                 /\ executionOps'[x].req = executionOps[x].req
           /\ executionOps'[o].pc # "idle" => executionOps'[o].req = executionOps[o].req
           /\ executionOps'[o].pc = "publish" => executionOps'[o].req.kind # "complete"
           /\ \A w \in WorkOrders :
                 /\ executions'[w].status # "NONE" =>
                       executions[w].status # "NONE" \/ executionOps[o].req = StartCommand(w)
                 /\ told[w]["FAILED"] > 0 => told'[w]["FAILED"] > 0
                 /\ told'[w]["COMPLETED"] > 0 =>
                       \/ told[w]["COMPLETED"] > 0
                       \/ /\ executionOps[o].pc = "publish"
                          /\ executionOps[o].req.kind = "complete"
                          /\ executionOps[o].req.order = w
           /\ \A w \in WorkOrders \ overwritten' :
                 executions[w].status = "COMPLETED" => executions'[w].status = "COMPLETED"
<1> DEFINE h == executionOps[o]
<1>1. /\ executionOps \in [Ops -> ExeP!Handler]
      /\ executions \in [WorkOrders -> ExeP!ExecutionDoc \cup {ExeP!Missing}]
      /\ told \in [WorkOrders -> [ExeP!Terminal -> Nat]]
      /\ ExeP!HandlerOK(h)
  BY DEF ExeP!IInv, ExeP!TypeOK
<1>2. \A x \in Ops : executionOps[x] \in ExeP!Handler
  BY <1>1
<1>3. CASE Exe!StartFind(o)
  BY <1>1, <1>2, <1>3
     DEF Exe!StartFind, Exe!Goto, Exe!End, Exe!Continue, Exe!Idle, Exe!Blank, Exe!budget,
         Exe!history, ExeP!Handler
<1>4. CASE Exe!Create(o)
  <2>1. h.req = StartCommand(h.req.order) /\ h.req.order \in WorkOrders
    BY <1>1, <1>4 DEF Exe!Create, ExeP!HandlerOK, ExeP!Requests, StartCommand
  <2> QED
    BY <1>1, <1>2, <1>4, <2>1
       DEF Exe!Create, Exe!Queued, Exe!End, Exe!Continue, Exe!Idle, Exe!Blank, Exe!budget,
           Exe!history, ExeP!Handler
<1>5. CASE \/ Exe!AddDiagnostic(o) \/ Exe!StartRepair(o)
           \/ Exe!CompleteExecution(o) \/ Exe!FailExecution(o)
  <2>1. Exe!Find(o)
    BY <1>5 DEF Exe!AddDiagnostic, Exe!StartRepair, Exe!CompleteExecution, Exe!FailExecution
  <2>2. /\ h.pc = "find"
        /\ UNCHANGED <<executions, told, executionCalls, overwritten>>
    BY <2>1 DEF Exe!Find, Exe!budget, Exe!history
  <2>3. /\ \A x \in Ops \ {o} : executionOps'[x] = executionOps[x]
        /\ \/ executionOps'[o].pc = "idle"
           \/ executionOps'[o].pc = "update" /\ executionOps'[o].req = h.req
    <3> DEFINE w    == h.req.order
               new  == Exe!Applied(executions[w], h.req)
               full == [h EXCEPT !.pc = "update", !.copy = new]
    <3>1. executionOps' = [executionOps EXCEPT
             ![o] = IF Exe!Accepts(executions[w], h.req) THEN full ELSE Exe!Idle]
      BY <2>1 DEF Exe!Find, Exe!End, Exe!Continue
    <3>2. full.pc = "update" /\ full.req = h.req
      <4> HIDE DEF new
      <4> QED
        BY <1>2 DEF ExeP!Handler
    <3>3. Exe!Idle.pc = "idle"
      BY DEF Exe!Idle, Exe!Blank
    <3> HIDE DEF full
    <3> QED
      BY <1>1, <3>1, <3>2, <3>3
  <2> QED
    BY <1>1, <2>2, <2>3
<1>6. CASE Exe!Update(o)
  <2>1. h.req \in ExeP!Requests /\ h.req.order \in WorkOrders
    BY <1>1, <1>6 DEF Exe!Update, ExeP!HandlerOK, ExeP!Requests
  <2>2. executions[h.req.order].status # "NONE"
    BY <1>1, <1>6 DEF Exe!Update, ExeP!HandlerOK
  <2>3. executions[h.req.order].status = "COMPLETED" => h.stale
    BY <1>1, <1>6
       DEF Exe!Update, ExeP!HandlerOK, ExeP!Accepts, ExeP!Mechanics, ExeP!Active,
           ExeP!Completable, ExeP!Failable
  <2> QED
    BY <1>1, <1>2, <1>6, <2>1, <2>2, <2>3
       DEF Exe!Update, Exe!AfterUpdate, Exe!Overtake, Exe!Idle, Exe!Blank, Exe!budget,
           ExeP!Handler
<1>7. CASE Exe!Publish(o)
  <2>1. h.req.kind \in {"complete", "fail"} /\ h.req.order \in WorkOrders
    BY <1>1, <1>7 DEF Exe!Publish, ExeP!HandlerOK, ExeP!Requests
  <2> QED
    BY <1>1, <1>2, <1>7, <2>1
       DEF Exe!Publish, Exe!Outcome, Exe!End, Exe!Continue, Exe!Idle, Exe!Blank, Exe!budget,
           Exe!history, ExeP!Handler, ExeP!Terminal
<1>8. ~Exe!Consume(o)
  BY DEF Exe!Consume, Consuming
<1> QED
  BY <1>3, <1>4, <1>5, <1>6, <1>7, <1>8 DEF Exe!Step

-----------------------------------------------------------------------------
(* The invariant of the composition. *)

\* What the components' invariants say that the composition needs.
LEMMA Facts ==
    ASSUME InvP!IInv, ExeP!IInv
    PROVE  /\ inventoryOps \in [Ops -> InvP!Handler]
           /\ inventoryCalls \in [InvP!Requests -> Nat]
           /\ reservations \in [WorkOrders -> InvP!ReservationStates]
           /\ executionOps \in [Ops -> ExeP!Handler]
           /\ executionCalls \in [ExeP!Requests -> Nat]
           /\ told \in [WorkOrders -> [{"COMPLETED", "FAILED"} -> Nat]]
           /\ \A w \in WorkOrders :
                 replies[w].reserved > 0 /\ Demand[w] # <<>> => reservations[w] # "NONE"
BY DEF InvP!IInv, InvP!TypeOK, InvP!ReservedReplyBacked, ExeP!IInv, ExeP!TypeOK, ExeP!Terminal

LEMMA Commands ==
    ASSUME NEW w \in WorkOrders
    PROVE  /\ ReleaseCommand(w) \in InvP!Requests
           /\ ConsumeCommand(w) \in InvP!Requests
           /\ StartCommand(w) \in ExeP!Requests
BY DEF ReleaseCommand, ConsumeCommand, StartCommand, InvP!Requests, InvP!SagaCommands,
       ExeP!Requests

\* The handler in o has completed w and will tell the saga.
Completing(o, w) ==
    /\ executionOps[o].pc \in {"consume", "publish"}
    /\ executionOps[o].req.kind = "complete"
    /\ executionOps[o].req.order = w

\* An execution about to be told as completed, or told so, is on record as
\* completed, and its order has not been called off.
LEMMA CompletedGoesOn ==
    ASSUME InvP!IInv, ExeP!IInv, Together, NEW w \in WorkOrders \ overwritten,
           \/ told[w]["COMPLETED"] > 0
           \/ \E o \in Ops : Completing(o, w)
    PROVE  executions[w].status = "COMPLETED" /\ ~Compensated(w) /\ Started(w)
<1>1. executions[w].status = "COMPLETED" /\ told[w]["FAILED"] = 0
  <2>1. told[w]["COMPLETED"] \in Nat /\ told[w]["FAILED"] \in Nat
    BY Facts
  <2>2. CASE told[w]["COMPLETED"] > 0
    BY <2>1, <2>2 DEF ExeP!IInv, ExeP!OneOutcomeTold, ExeP!Terminal
  <2>3. ASSUME NEW o \in Ops, Completing(o, w)
        PROVE  executions[w].status = "COMPLETED" /\ told[w]["FAILED"] = 0
    BY <2>1, <2>3 DEF Completing, ExeP!IInv, ExeP!OutcomePending, ExeP!WillTell, ExeP!Outcome
  <2> QED
    BY <2>2, <2>3
<1> QED
  BY <1>1 DEF Together, NotAhead, CalledOffFailed

\* A consumption in flight belongs to a completion of the same order.
LEMMA ConsumptionCompletes ==
    ASSUME ExeP!IInv, Together, NEW o \in Ops, NEW w \in WorkOrders,
           inventoryOps[o].pc # "idle", inventoryOps[o].req = ConsumeCommand(w)
    PROVE  Consuming(o) /\ Completing(o, w)
<1>1. Consuming(o) /\ ConsumeCommand(w) = ConsumeCommand(executionOps[o].req.order)
  BY DEF Together, Linked, ConsumeCommand
<1>2. executionOps[o].req.kind = "complete"
  BY <1>1 DEF Consuming, ExeP!IInv, ExeP!HandlerOK
<1> QED
  BY <1>1, <1>2 DEF Consuming, Completing, ConsumeCommand

\* What a step of Inventory may do to the reservations.
LEMMA ReservationsKept ==
    ASSUME InvP!IInv, ExeP!IInv, Together, NEW o \in Ops, Inv!Step(o), NEW w \in WorkOrders
    PROVE  /\ reservations'[w] = "RELEASED" => Compensated(w)
           /\ reservations[w] # "NONE" => reservations'[w] # "NONE"
           /\ w \notin overwritten =>
                /\ reservations'[w] = "CONSUMED" => executions[w].status = "COMPLETED"
                /\ /\ reservations[w] = "CONSUMED"
                   /\ told[w]["COMPLETED"] > 0 \/ \E x \in Ops : Completing(x, w)
                   => reservations'[w] = "CONSUMED"
<1>1. inventoryOps[o].pc # "idle"
  BY InventoryMoves
<1>2. inventoryOps[o].req = ReleaseCommand(w) => Compensated(w)
  BY <1>1 DEF Together, Called, Compensated
<1>3. inventoryOps[o].req = ConsumeCommand(w) /\ w \notin overwritten =>
         executions[w].status = "COMPLETED"
  BY <1>1, ConsumptionCompletes, CompletedGoesOn
<1>4. ConsumeCommand(w) # ReleaseCommand(w)
  BY DEF ConsumeCommand, ReleaseCommand
<1>5. /\ reservations[w] = "RELEASED" => Compensated(w)
      /\ w \notin overwritten /\ reservations[w] = "CONSUMED" => executions[w].status = "COMPLETED"
  BY DEF Together, NotAhead, OnlyCompletionConsumes
<1>6. w \notin overwritten /\ (told[w]["COMPLETED"] > 0 \/ (\E x \in Ops : Completing(x, w))) =>
         ~Compensated(w)
  BY CompletedGoesOn
<1>7. \/ reservations'[w] = reservations[w]
      \/ reservations[w] = "NONE" /\ reservations'[w] = "RESERVED"
      \/ /\ inventoryOps[o].req \in {ReleaseCommand(w), ConsumeCommand(w)}
         /\ reservations'[w] = IF inventoryOps[o].req = ReleaseCommand(w)
                               THEN "RELEASED" ELSE "CONSUMED"
  BY InventoryMoves
<1> QED
  BY <1>2, <1>3, <1>4, <1>5, <1>6, <1>7

LEMMA InitTogether == Init => Together
<1> SUFFICES ASSUME Init PROVE Together
  OBVIOUS
<1>1. /\ \A o \in Ops : inventoryOps[o].pc = "idle" /\ executionOps[o].pc = "idle"
      /\ \A w \in WorkOrders : /\ executions[w].status = "NONE" /\ reservations[w] = "NONE"
                               /\ told[w]["COMPLETED"] = 0
  BY DEF Init, Inv!Init, Exe!Init, Inv!Idle, Inv!Blank, Exe!Idle, Exe!Blank, Exe!Missing,
         Exe!Terminal
<1>2. \A w \in WorkOrders : ~Started(w)
  BY Commands
     DEF Init, Exe!Init, Started, Exe!Requests, ExeP!Requests
<1> QED
  BY <1>1, <1>2 DEF Together, Linked, Called, NotAhead, CalledOffFailed, ReadyToTell,
                    Consuming, CompletionConsumed, OnlyCompletionConsumes

\* The orchestrator, or an administrator, calls Inventory.
LEMMA CallInventoryKeeps ==
    ASSUME InvP!IInv, ExeP!IInv, Together,
           NEW o \in Ops, NEW r \in Inv!Requests, CallInventory(o, r)
    PROVE  Together'
<1>1. /\ r \in InvP!Requests /\ r.kind # "consume"
      /\ inventoryOps[o].pc = "idle" /\ executionOps[o].pc = "idle"
      /\ inventoryCalls' = [inventoryCalls EXCEPT ![r] = @ + 1]
      /\ UNCHANGED <<reservations, executions, told, executionCalls, executionOps, overwritten>>
  BY DEF CallInventory, Free, Inv!Call, Inv!store, OnlyInventory, Inv!Requests, InvP!Requests,
         Inv!SagaCommands, InvP!SagaCommands, Inv!AdminCalls, InvP!AdminCalls
<1>2. /\ \A x \in Ops \ {o} : inventoryOps'[x] = inventoryOps[x]
      /\ inventoryOps'[o].pc # "idle" /\ inventoryOps'[o].req = r
  BY Facts DEF CallInventory, Inv!Call, Inv!Continue, Inv!Blank, Inv!FirstPc
<1>3. \A q \in InvP!Requests : inventoryCalls'[q] = inventoryCalls[q] + (IF q = r THEN 1 ELSE 0)
  BY <1>1, Facts
<1>4. \A x \in Ops : inventoryOps[x].pc # "idle" => inventoryOps[x].req \in InvP!Requests
  BY Facts, Zenon DEF InvP!IInv, InvP!HandlerOK, InvP!Handler, InvP!Pcs, InvP!ReservePcs,
               InvP!SettlePcs, InvP!AdminPcs, InvP!Requests
<1>5. Linked'
  BY <1>1, <1>2 DEF Together, Linked, Consuming
<1>6. Called'
  BY <1>1, <1>2, <1>3, <1>4, Facts DEF Together, Called
<1>7. \A w \in WorkOrders : Compensated(w) => Compensated(w)'
  <2> SUFFICES ASSUME NEW w \in WorkOrders, Compensated(w) PROVE Compensated(w)'
    OBVIOUS
  <2>1. inventoryCalls[ReleaseCommand(w)] \in Nat
    BY Commands, Facts
  <2> QED
    BY <1>3, <2>1, Commands DEF Compensated
<1>8. NotAhead'
  <2>1. \A w \in WorkOrders : Started(w)' = Started(w)
    BY <1>1 DEF Started
  <2> QED
    BY <1>1, <1>7, <2>1 DEF Together, NotAhead
<1>9. CalledOffFailed'
  <2> SUFFICES ASSUME NEW w \in WorkOrders \ overwritten, Started(w), Compensated(w)'
               PROVE  told[w]["FAILED"] > 0
    BY <1>1 DEF CalledOffFailed, Started
  <2>1. CASE r = ReleaseCommand(w)
    BY <2>1 DEF CallInventory, MaySend, MayRelease, ReleaseCommand, Together, CalledOffFailed
  <2>2. CASE r # ReleaseCommand(w)
    <3>1. Compensated(w)
      BY <1>3, <2>2, Commands, Facts DEF Compensated
    <3> QED
      BY <3>1 DEF Together, CalledOffFailed
  <2> QED
    BY <2>1, <2>2
<1> QED
  BY <1>1, <1>5, <1>6, <1>8, <1>9
     DEF Together, ReadyToTell, CompletionConsumed, OnlyCompletionConsumes

\* The orchestrator, or a mechanic, calls Executions: work starts only on an
\* order whose reservation is on record.
LEMMA CallExecutionsKeeps ==
    ASSUME InvP!IInv, ExeP!IInv, Together,
           NEW o \in Ops, NEW r \in Exe!Requests, CallExecutions(o, r)
    PROVE  Together'
<1>1. /\ r \in ExeP!Requests
      /\ inventoryOps[o].pc = "idle" /\ executionOps[o].pc = "idle"
      /\ executionCalls' = [executionCalls EXCEPT ![r] = @ + 1]
      /\ UNCHANGED <<reservations, inventoryCalls, inventoryOps, executions, told, overwritten>>
  BY DEF CallExecutions, Free, Exe!Call, Exe!history, OnlyExecutions, Exe!Requests,
         ExeP!Requests
<1>2. /\ \A x \in Ops \ {o} : executionOps'[x] = executionOps[x]
      /\ executionOps'[o].pc = "find" /\ executionOps'[o].req = r
  BY Facts DEF CallExecutions, Exe!Call, Exe!Continue, Exe!Blank
<1>3. \A q \in ExeP!Requests : executionCalls'[q] = executionCalls[q] + (IF q = r THEN 1 ELSE 0)
  BY <1>1, Facts
<1>4. \A x \in Ops : executionOps[x].pc # "idle" => executionOps[x].req \in ExeP!Requests
  BY DEF ExeP!IInv, ExeP!HandlerOK
<1>5. Linked'
  BY <1>1, <1>2 DEF Together, Linked, Consuming
<1>6. Called'
  BY <1>1, <1>2, <1>3, <1>4, Facts DEF Together, Called
<1>7. ASSUME NEW w \in WorkOrders, Started(w)', ~Started(w)
      PROVE  ~Compensated(w) /\ (Demand[w] # <<>> => reservations[w] # "NONE")
  <2>1. r = StartCommand(w)
    BY <1>3, <1>7, Commands, Facts DEF Started
  <2>2. MayStart(w)
    BY <2>1 DEF CallExecutions, MaySend, StartCommand
  <2> QED
    BY <1>7, <2>2, Facts DEF MayStart
<1>8. \A w \in WorkOrders : Started(w) => Started(w)'
  <2> SUFFICES ASSUME NEW w \in WorkOrders, Started(w) PROVE Started(w)'
    OBVIOUS
  <2>1. executionCalls[StartCommand(w)] \in Nat
    BY Commands, Facts
  <2> QED
    BY <1>3, <2>1, Commands DEF Started
<1>9. NotAhead' /\ CalledOffFailed'
  <2>1. \A w \in WorkOrders : Compensated(w)' = Compensated(w)
    BY <1>1 DEF Compensated
  <2> QED
    BY <1>1, <1>7, <1>8, <2>1 DEF Together, NotAhead, CalledOffFailed
<1>10. ReadyToTell'
  BY <1>1, <1>2 DEF Together, ReadyToTell
<1> QED
  BY <1>1, <1>5, <1>6, <1>9, <1>10 DEF Together, CompletionConsumed, OnlyCompletionConsumes

\* A step of Inventory that Executions does not see.
LEMMA InventoryAloneKeeps ==
    ASSUME InvP!IInv, ExeP!IInv, Together, NEW o \in Ops, Inv!Step(o), OnlyInventory,
           Consuming(o) => inventoryOps'[o].pc # "idle"
    PROVE  Together'
<1>1. UNCHANGED <<executions, told, executionCalls, executionOps, overwritten>>
  BY DEF OnlyInventory
<1>2. UNCHANGED inventoryCalls
  BY InventoryMoves
<1>3. \A x \in Ops : \/ inventoryOps'[x].pc = "idle" /\ ~Consuming(x)
                     \/ /\ inventoryOps'[x].pc # "idle" <=> inventoryOps[x].pc # "idle"
                        /\ inventoryOps'[x].req = inventoryOps[x].req
  BY InventoryMoves
<1>4. Linked'
  BY <1>1, <1>3 DEF Together, Linked, Consuming
<1>5. Called'
  BY <1>1, <1>2, <1>3 DEF Together, Called
<1>6. NotAhead'
  BY <1>1, <1>2, ReservationsKept DEF Together, NotAhead, Started, Compensated
<1>7. CalledOffFailed'
  BY <1>1, <1>2 DEF Together, CalledOffFailed, Started, Compensated
<1>8. ReadyToTell' /\ CompletionConsumed' /\ OnlyCompletionConsumes'
  BY <1>1, ReservationsKept
     DEF Together, ReadyToTell, CompletionConsumed, OnlyCompletionConsumes, Completing
<1> QED
  BY <1>4, <1>5, <1>6, <1>7, <1>8 DEF Together

\* ConsumePartsUseCase returns to the completion that awaits it: the parts are
\* consumed, whether by it or before.
LEMMA ConsumptionReturnsKeeps ==
    ASSUME InvP!IInv, ExeP!IInv, Together, NEW o \in Ops, Inv!Step(o), Consuming(o),
           inventoryOps'[o].pc = "idle", Exe!Consume(o)
    PROVE  Together'
<1> DEFINE w == executionOps[o].req.order
<1>1. /\ UNCHANGED <<executions, told, executionCalls, overwritten, inventoryCalls>>
      /\ \A x \in Ops \ {o} : executionOps'[x] = executionOps[x]
      /\ executionOps'[o].pc = "publish" /\ executionOps'[o].req = executionOps[o].req
  BY InventoryMoves, ConsumeMoves
<1>2. \A x \in Ops \ {o} : /\ inventoryOps'[x].pc # "idle" <=> inventoryOps[x].pc # "idle"
                           /\ inventoryOps'[x].req = inventoryOps[x].req
  BY InventoryMoves
<1>3. inventoryOps[o].pc # "idle" /\ inventoryOps[o].req = ConsumeCommand(w)
  BY DEF Together, Linked
<1>4. w \in WorkOrders
  BY DEF Consuming, ExeP!IInv, ExeP!HandlerOK, ExeP!Requests
<1>5. Completing(o, w)
  BY <1>3, <1>4, ConsumptionCompletes
<1>6. w \notin overwritten /\ Demand[w] # <<>> => reservations'[w] = "CONSUMED"
  <2> SUFFICES ASSUME w \notin overwritten, Demand[w] # <<>>, reservations'[w] # "CONSUMED"
               PROVE  FALSE
    OBVIOUS
  <2>1. ~Compensated(w) /\ Started(w)
    BY <1>4, <1>5, CompletedGoesOn
  <2>2. reservations[w] # "RESERVED" /\ reservations'[w] = reservations[w]
    BY <1>3, <1>4, InventoryMoves
  <2>3. reservations[w] \notin {"NONE", "RELEASED"}
    BY <1>4, <2>1 DEF Together, NotAhead
  <2> QED
    BY <1>4, <2>2, <2>3, Facts DEF InvP!ReservationStates
<1>7. Linked'
  BY <1>1, <1>2 DEF Together, Linked, Consuming
<1>8. Called'
  BY <1>1, <1>2 DEF Together, Called, Consuming
<1>9. NotAhead'
  BY <1>1, ReservationsKept DEF Together, NotAhead, Started, Compensated
<1>10. CalledOffFailed'
  BY <1>1 DEF Together, CalledOffFailed, Started, Compensated
<1>11. ReadyToTell'
  <2> SUFFICES ASSUME NEW v \in WorkOrders \ overwritten, NEW x \in Ops,
                      executionOps'[x].pc = "publish", executionOps'[x].req.kind = "complete",
                      executionOps'[x].req.order = v, Demand[v] # <<>>
               PROVE  reservations'[v] = "CONSUMED"
    BY <1>1 DEF ReadyToTell
  <2>1. CASE x = o
    BY <1>1, <1>6, <2>1
  <2>2. CASE x # o
    BY <1>1, <2>2, ReservationsKept DEF Together, ReadyToTell, Completing
  <2> QED
    BY <2>1, <2>2
<1>12. CompletionConsumed' /\ OnlyCompletionConsumes'
  BY <1>1, ReservationsKept DEF Together, CompletionConsumed, OnlyCompletionConsumes
<1> QED
  BY <1>7, <1>8, <1>9, <1>10, <1>11, <1>12 DEF Together

\* A step of Executions outside ConsumePartsUseCase; completing an execution
\* calls Inventory.
LEMMA ExecutionsStepKeeps ==
    ASSUME InvP!IInv, ExeP!IInv, Together, NEW o \in Ops, ExecutionsStep(o)
    PROVE  Together'
<1> DEFINE w == executionOps[o].req.order
<1>1. Exe!Step(o) /\ ~Consuming(o)
  BY DEF ExecutionsStep
<1>2. /\ executionOps[o].pc # "idle"
      /\ UNCHANGED executionCalls
      /\ overwritten \subseteq overwritten'
      /\ \A x \in Ops \ {o} : /\ executionOps'[x].pc = executionOps[x].pc
                              /\ executionOps'[x].req = executionOps[x].req
      /\ executionOps'[o].pc # "idle" => executionOps'[o].req = executionOps[o].req
  BY <1>1, ExecutionMoves
<1>3. UNCHANGED reservations
  BY DEF ExecutionsStep, OnlyExecutions, Inv!Call, Inv!store
<1>4. /\ Consuming(o)' => /\ inventoryOps[o].pc = "idle"
                          /\ \A x \in Ops \ {o} : inventoryOps'[x] = inventoryOps[x]
                          /\ inventoryOps'[o].pc # "idle"
                          /\ inventoryOps'[o].req = ConsumeCommand(w)
                          /\ inventoryCalls' =
                                [inventoryCalls EXCEPT ![ConsumeCommand(w)] = @ + 1]
                          /\ w \in WorkOrders
      /\ ~Consuming(o)' => UNCHANGED <<inventoryOps, inventoryCalls>>
  <2>1. CASE Consuming(o)'
    <3>1. w \in WorkOrders /\ Inv!Call(o, ConsumeCommand(w))
      BY <2>1 DEF ExecutionsStep
    <3> QED
      BY <2>1, <3>1, Facts DEF Inv!Call, Inv!Continue, Inv!Blank, Inv!FirstPc
  <2>2. CASE ~Consuming(o)'
    BY <2>2 DEF ExecutionsStep, OnlyExecutions
  <2> QED
    BY <2>1, <2>2
<1>5. \A v \in WorkOrders : Compensated(v)' = Compensated(v)
  <2> SUFFICES ASSUME NEW v \in WorkOrders
               PROVE  inventoryCalls'[ReleaseCommand(v)] = inventoryCalls[ReleaseCommand(v)]
    BY DEF Compensated
  <2>1. ReleaseCommand(v) # ConsumeCommand(w)
    BY DEF ReleaseCommand, ConsumeCommand
  <2> QED
    BY <1>4, <2>1, Commands, Facts
<1>6. \A v \in WorkOrders : Started(v)' = Started(v)
  BY <1>2 DEF Started
<1>7. Linked'
  <2>1. CASE Consuming(o)'
    BY <1>1, <1>2, <1>4, <2>1 DEF Together, Linked, Consuming, ConsumeCommand
  <2>2. CASE ~Consuming(o)'
    BY <1>1, <1>2, <1>4, <2>2 DEF Together, Linked, Consuming
  <2> QED
    BY <2>1, <2>2
<1>8. Called'
  <2> SUFFICES ASSUME NEW x \in Ops
               PROVE  /\ inventoryOps'[x].pc # "idle" => inventoryCalls'[inventoryOps'[x].req] > 0
                      /\ executionOps'[x].pc # "idle" =>
                            executionCalls'[executionOps'[x].req] > 0
    BY DEF Called
  <2>1. executionOps'[x].pc # "idle" => executionCalls'[executionOps'[x].req] > 0
    BY <1>2 DEF Together, Called
  <2>2. CASE ~Consuming(o)'
    BY <1>4, <2>1, <2>2 DEF Together, Called
  <2>3. CASE Consuming(o)'
    <3>1. \A q \in InvP!Requests :
             inventoryCalls[q] \in Nat
             /\ inventoryCalls'[q] = inventoryCalls[q] + (IF q = ConsumeCommand(w) THEN 1 ELSE 0)
      BY <1>4, <2>3, Facts
    <3>2. inventoryOps[x].pc # "idle" => inventoryOps[x].req \in InvP!Requests
      BY Facts, Zenon DEF InvP!IInv, InvP!HandlerOK, InvP!Handler, InvP!Pcs, InvP!ReservePcs,
                   InvP!SettlePcs, InvP!AdminPcs, InvP!Requests
    <3> QED
      BY <1>4, <2>1, <2>3, <3>1, <3>2, Commands DEF Together, Called
  <2> QED
    BY <2>2, <2>3
<1>9. \A v \in WorkOrders : executions'[v].status # "NONE" => Started(v)
  <2> SUFFICES ASSUME NEW v \in WorkOrders, executions'[v].status # "NONE" PROVE Started(v)
    OBVIOUS
  <2>1. executions[v].status # "NONE" \/ executionOps[o].req = StartCommand(v)
    BY <1>1, ExecutionMoves
  <2> QED
    BY <1>2, <2>1 DEF Together, Called, NotAhead, Started
<1>10. NotAhead'
  BY <1>3, <1>5, <1>6, <1>9 DEF Together, NotAhead
<1>11. CalledOffFailed'
  BY <1>1, <1>2, <1>5, <1>6, ExecutionMoves DEF Together, CalledOffFailed
<1>12. ReadyToTell'
  BY <1>1, <1>2, <1>3, ExecutionMoves DEF Together, ReadyToTell
<1>13. CompletionConsumed'
  <2> SUFFICES ASSUME NEW v \in WorkOrders \ overwritten', told'[v]["COMPLETED"] > 0,
                      Demand[v] # <<>>
               PROVE  reservations[v] = "CONSUMED"
    BY <1>3 DEF CompletionConsumed
  <2>1. \/ told[v]["COMPLETED"] > 0
        \/ /\ executionOps[o].pc = "publish"
           /\ executionOps[o].req.kind = "complete" /\ executionOps[o].req.order = v
    BY <1>1, ExecutionMoves
  <2> QED
    BY <1>2, <2>1 DEF Together, CompletionConsumed, ReadyToTell
<1>14. OnlyCompletionConsumes'
  BY <1>1, <1>2, <1>3, ExecutionMoves DEF Together, OnlyCompletionConsumes
<1> QED
  BY <1>7, <1>8, <1>10, <1>11, <1>12, <1>13, <1>14 DEF Together

\* Handlers that end, in Executions together with the consumption they await,
\* or stay as they were.
LEMMA EndingKeeps ==
    ASSUME InvP!IInv, ExeP!IInv, Together,
           UNCHANGED <<reservations, executions, told, inventoryCalls, executionCalls,
                       overwritten>>,
           \A x \in Ops :
              /\ inventoryOps'[x].pc # "idle" => /\ inventoryOps[x].pc # "idle"
                                                 /\ inventoryOps'[x].req = inventoryOps[x].req
              /\ executionOps'[x].pc # "idle" => executionOps'[x] = executionOps[x]
              /\ inventoryOps'[x].pc = "idle" => ~Consuming(x)'
              /\ Consuming(x) => \/ Consuming(x)'
                                 \/ inventoryOps'[x].pc = "idle"
    PROVE  Together'
<1>1. Linked'
  BY DEF Together, Linked, Consuming
<1>2. Called'
  BY DEF Together, Called
<1>3. NotAhead'
  BY DEF Together, NotAhead, Started, Compensated
<1>4. CalledOffFailed' /\ ReadyToTell' /\ CompletionConsumed' /\ OnlyCompletionConsumes'
  BY DEF Together, CalledOffFailed, ReadyToTell, CompletionConsumed, OnlyCompletionConsumes,
         Started, Compensated
<1> QED
  BY <1>1, <1>2, <1>3, <1>4 DEF Together

LEMMA FaultKeeps ==
    ASSUME InvP!IInv, ExeP!IInv, Together, NEW o \in Ops, Fault(o)
    PROVE  Together'
<1>1. UNCHANGED <<reservations, executions, told, inventoryCalls, executionCalls, overwritten>>
  BY DEF Fault, Inv!Fault, Exe!Fault, Inv!store, Exe!history, OnlyInventory, OnlyExecutions
<1> DEFINE thrown == Inv!AfterThrow(inventoryOps[o])
<1>2. thrown.pc # "idle" => thrown.req = inventoryOps[o].req
  BY DEF Inv!AfterThrow, Inv!Idle, Inv!Blank
<1>3. inventoryOps[o].req.kind = "consume" => thrown.pc = "idle"
  BY DEF Inv!AfterThrow, Inv!Idle, Inv!Blank
<1> HIDE DEF thrown
<1>4. CASE ~Consuming(o) /\ Inv!Fault(o) /\ OnlyInventory
  <2>1. inventoryOps[o].pc # "idle" /\ inventoryOps' = [inventoryOps EXCEPT ![o] = thrown]
    BY <1>4 DEF Inv!Fault, Inv!Continue, thrown
  <2> QED
    BY <1>1, <1>2, <1>4, <2>1, Facts, EndingKeeps DEF OnlyInventory, Consuming, Together, Linked
<1>5. CASE ~Consuming(o) /\ Exe!Fault(o) /\ OnlyExecutions
  <2>1. executionOps' = [executionOps EXCEPT ![o] = Exe!Idle] /\ UNCHANGED inventoryOps
    BY <1>5 DEF Exe!Fault, Exe!End, Exe!Continue, OnlyExecutions
  <2>2. Exe!Idle.pc = "idle"
    BY DEF Exe!Idle, Exe!Blank
  <2> QED
    BY <1>1, <1>5, <2>1, <2>2, Facts, EndingKeeps DEF Consuming, Together, Linked
<1>6. CASE Consuming(o) /\ Inv!Fault(o) /\ Exe!Fault(o)
  <2>1. /\ inventoryOps' = [inventoryOps EXCEPT ![o] = thrown]
        /\ executionOps' = [executionOps EXCEPT ![o] = Exe!Idle]
    BY <1>6 DEF Inv!Fault, Inv!Continue, thrown, Exe!Fault, Exe!End, Exe!Continue
  <2>2. Exe!Idle.pc = "idle"
    BY DEF Exe!Idle, Exe!Blank
  <2>3. thrown.pc = "idle"
    <3>1. inventoryOps[o].req = ConsumeCommand(executionOps[o].req.order)
      BY <1>6 DEF Together, Linked
    <3> QED
      BY <1>3, <3>1 DEF ConsumeCommand
  <2> QED
    <3>1. /\ inventoryOps'[o].pc = "idle" /\ executionOps'[o].pc = "idle"
          /\ \A x \in Ops \ {o} : /\ inventoryOps'[x] = inventoryOps[x]
                                  /\ executionOps'[x] = executionOps[x]
      BY <2>1, <2>2, <2>3, Facts
    <3>2. \A x \in Ops : /\ inventoryOps'[x].pc = "idle" => ~Consuming(x)'
                         /\ Consuming(x) => Consuming(x)' \/ inventoryOps'[x].pc = "idle"
      BY <3>1 DEF Consuming, Together, Linked
    <3> QED
      BY <1>1, <3>1, <3>2, EndingKeeps
<1> QED
  BY <1>4, <1>5, <1>6 DEF Fault

LEMMA NextTogether ==
    ASSUME InvP!IInv, ExeP!IInv, Together, [Next]_vars
    PROVE  Together'
<1>1. ASSUME NEW o \in Ops, NEW r \in Inv!Requests, CallInventory(o, r)
      PROVE  Together'
  BY <1>1, CallInventoryKeeps
<1>2. ASSUME NEW o \in Ops, NEW r \in Exe!Requests, CallExecutions(o, r)
      PROVE  Together'
  BY <1>2, CallExecutionsKeeps
<1>3. ASSUME NEW o \in Ops, Step(o)
      PROVE  Together'
  <2>1. CASE InventoryStep(o)
    BY <2>1, InventoryAloneKeeps DEF InventoryStep
  <2>2. CASE ExecutionsStep(o)
    BY <2>2, ExecutionsStepKeeps
  <2>3. CASE ConsumeStep(o)
    BY <2>3, InventoryAloneKeeps, ConsumptionReturnsKeeps DEF ConsumeStep
  <2> QED
    BY <1>3, <2>1, <2>2, <2>3 DEF Step
<1>4. ASSUME NEW p \in Parts, CreatePart(p)
      PROVE  Together'
  <2>1. UNCHANGED <<reservations, executions, told, inventoryCalls, executionCalls,
                    overwritten, inventoryOps, executionOps>>
    BY <1>4 DEF CreatePart, Inv!CreatePart, Inv!budget, OnlyInventory
  <2> QED
    BY <2>1, EndingKeeps DEF Consuming, Together, Linked
<1>5. ASSUME NEW o \in Ops, Fault(o)
      PROVE  Together'
  BY <1>5, FaultKeeps
<1>6. CASE Crash
  <2>1. /\ UNCHANGED <<reservations, executions, told, inventoryCalls, executionCalls,
                       overwritten>>
        /\ inventoryOps' = [o \in Ops |-> Inv!Idle]
        /\ executionOps' = [o \in Ops |-> Exe!Idle]
    BY <1>6 DEF Crash, Inv!Crash, Exe!Crash, Inv!store, Exe!history
  <2>2. Inv!Idle.pc = "idle" /\ Exe!Idle.pc = "idle"
    BY DEF Inv!Idle, Inv!Blank, Exe!Idle, Exe!Blank
  <2> QED
    BY <2>1, <2>2, EndingKeeps DEF Consuming
<1>7. CASE UNCHANGED vars
  <2>1. UNCHANGED <<reservations, executions, told, inventoryCalls, executionCalls,
                    overwritten, inventoryOps, executionOps>>
    BY <1>7 DEF vars, Inv!vars, Inv!store, Inv!budget, Inv!history,
                Exe!vars, Exe!budget, Exe!history
  <2> QED
    BY <2>1, EndingKeeps DEF Consuming, Together, Linked
<1> QED
  BY <1>1, <1>2, <1>3, <1>4, <1>5, <1>6, <1>7 DEF Next

-----------------------------------------------------------------------------
(* The orders that the saga calls off.                                       *)

LEMMA ReplyFacts ==
    ASSUME InvP!IInv, ExeP!IInv
    PROVE  /\ \A w \in WorkOrders : /\ replies[w].reserved \in Nat
                                    /\ replies[w].failed \in Nat
                                    /\ ReserveCommand(w) \in InvP!Requests
           /\ crashes \in Nat /\ inventoryFaults \in Nat /\ executionFaults \in Nat
BY DEF InvP!IInv, InvP!TypeOK, ExeP!IInv, ExeP!TypeOK, ReserveCommand, InvP!Requests,
       InvP!SagaCommands

\* Replies are not taken back.
LEMMA RepliesStay ==
    ASSUME InvP!IInv, ExeP!IInv, NEW o \in Ops, Inv!Step(o), NEW w \in WorkOrders
    PROVE  /\ replies'[w].reserved >= replies[w].reserved
           /\ replies'[w].failed >= replies[w].failed
<1> USE ReplyFacts
<1>1. CASE Inv!PublishReserved(o) \/ Inv!PublishFailed(o)
  <2>1. replies \in [WorkOrders -> [reserved: Nat, failed: Nat]]
    BY DEF InvP!IInv, InvP!TypeOK
  <2> QED
    BY <1>1, <2>1 DEF Inv!PublishReserved, Inv!PublishFailed
<1>2. CASE UNCHANGED replies
  BY <1>2
<1>3. CASE Inv!ReserveFind(o) \/ Inv!ReserveCheck(o) \/ Inv!ReserveWrite(o) \/ Inv!ReserveRecord(o)
  BY <1>2, <1>3, ZenonT(30)
     DEF Inv!ReserveFind, Inv!ReserveCheck, Inv!ReserveWrite, Inv!ReserveRecord
<1>4. CASE Inv!SettleFind(o) \/ Inv!SettleLoad(o) \/ Inv!SettleWrite(o) \/ Inv!SettleClose(o)
  BY <1>2, <1>4, ZenonT(30) DEF Inv!SettleFind, Inv!SettleLoad, Inv!SettleWrite, Inv!SettleClose
<1>5. CASE Inv!UpdatePart(o) \/ Inv!RestockPart(o) \/ Inv!DeletePart(o) \/ Inv!AdminSave(o)
  BY <1>2, <1>5 DEF Inv!UpdatePart, Inv!RestockPart, Inv!DeletePart, Inv!AdminEdit, Inv!AdminSave
<1> QED
  BY <1>1, <1>3, <1>4, <1>5 DEF Inv!Step

\* A reservation comes into force through a parts.reserve of its order.
LEMMA Recorder ==
    ASSUME InvP!IInv, NEW o \in Ops, Inv!Step(o), NEW w \in WorkOrders,
           reservations[w] # "RESERVED", reservations'[w] = "RESERVED"
    PROVE  inventoryOps[o].req = ReserveCommand(w)
<1>1. /\ reservations \in [WorkOrders -> InvP!ReservationStates]
      /\ InvP!HandlerOK(inventoryOps[o])
  BY DEF InvP!IInv, InvP!TypeOK
<1>2. CASE Inv!ReserveRecord(o)
  <2>1. /\ inventoryOps[o].req \in InvP!SagaCommands
        /\ inventoryOps[o].req.kind = "reserve"
    BY <1>1, <1>2 DEF Inv!ReserveRecord, InvP!HandlerOK, InvP!ReservePcs
  <2>2. inventoryOps[o].req.order = w
    BY <1>1, <1>2 DEF Inv!ReserveRecord
  <2> QED
    BY <2>1, <2>2 DEF InvP!SagaCommands, ReserveCommand
<1>3. CASE Inv!SettleClose(o)
  BY <1>1, <1>3 DEF Inv!SettleClose, Inv!SaveReservation, Inv!ClosedAs
<1>4. UNCHANGED reservations => FALSE
  OBVIOUS
<1>5. CASE \/ Inv!ReserveFind(o) \/ Inv!ReserveCheck(o) \/ Inv!ReserveWrite(o)
           \/ Inv!PublishReserved(o) \/ Inv!PublishFailed(o)
  BY <1>4, <1>5, ZenonT(30)
     DEF Inv!ReserveFind, Inv!ReserveCheck, Inv!ReserveWrite, Inv!PublishReserved,
         Inv!PublishFailed, Inv!store
<1>6. CASE Inv!SettleFind(o) \/ Inv!SettleLoad(o) \/ Inv!SettleWrite(o)
  BY <1>4, <1>6, ZenonT(30) DEF Inv!SettleFind, Inv!SettleLoad, Inv!SettleWrite, Inv!store
<1>7. CASE Inv!UpdatePart(o) \/ Inv!RestockPart(o) \/ Inv!DeletePart(o) \/ Inv!AdminSave(o)
  BY <1>4, <1>7 DEF Inv!UpdatePart, Inv!RestockPart, Inv!DeletePart, Inv!AdminEdit,
                    Inv!AdminSave, Inv!store
<1> QED
  BY <1>2, <1>3, <1>5, <1>6, <1>7 DEF Inv!Step

\* A parts.release does not return while its order's reservation is in force.
LEMMA ReleaseReturns ==
    ASSUME InvP!IInv, NEW o \in Ops, Inv!Step(o), NEW w \in WorkOrders,
           inventoryOps[o].req = ReleaseCommand(w), inventoryOps'[o].pc = "idle"
    PROVE  reservations'[w] # "RESERVED"
<1> DEFINE h == inventoryOps[o]
<1>1. /\ inventoryOps \in [Ops -> InvP!Handler]
      /\ reservations \in [WorkOrders -> InvP!ReservationStates]
      /\ InvP!HandlerOK(h)
  BY DEF InvP!IInv, InvP!TypeOK
<1>2. h.req.kind = "release" /\ h.req.order = w
  BY DEF ReleaseCommand
<1>3. h.pc \notin InvP!ReservePcs /\ h.pc \notin InvP!AdminPcs
  BY <1>1, <1>2 DEF InvP!HandlerOK, InvP!AdminCalls
<1>4. CASE Inv!SettleFind(o)
  BY <1>1, <1>2, <1>4
     DEF Inv!SettleFind, Inv!IsActive, Inv!StartWork, Inv!Goto, Inv!Continue, Inv!Blank,
         Inv!store
<1>5. CASE Inv!SettleClose(o)
  BY <1>1, <1>2, <1>5 DEF Inv!SettleClose, Inv!SaveReservation, Inv!ClosedAs
<1>6. CASE Inv!SettleLoad(o)
  <2> DEFINE item == Demand[h.req.order][h.idx]
             doc  == parts[item.part]
             n    == Inv!Capped(doc, item.quantity)
             new  == IF h.req.kind = "release" THEN Inv!ReleaseUnits(doc, n)
                                               ELSE Inv!ConsumeUnits(doc, n)
             full == [h EXCEPT !.pc = "settle", !.copy[item.part] = new,
                               !.moved[item.part] = n]
             skip == Inv!NextItem(h)
  <2>1. inventoryOps' = [inventoryOps EXCEPT ![o] = IF doc.state = "live" THEN full ELSE skip]
    BY <1>6, Zenon DEF Inv!SettleLoad, Inv!Continue
  <2>2. full.pc # "idle"
    <3> HIDE DEF item, n, new
    <3> QED
      BY <1>1 DEF InvP!Handler
  <2>3. skip.pc # "idle"
    BY <1>1 DEF InvP!Handler, Inv!NextItem
  <2> HIDE DEF full, skip
  <2> QED
    BY <1>1, <2>1, <2>2, <2>3
<1>7. CASE Inv!SettleWrite(o)
  BY <1>1, <1>7, ZenonT(30) DEF Inv!SettleWrite, Inv!SavePart, Inv!NextItem, InvP!Handler
<1>8. CASE \/ Inv!ReserveFind(o) \/ Inv!ReserveCheck(o) \/ Inv!ReserveWrite(o)
           \/ Inv!ReserveRecord(o) \/ Inv!PublishReserved(o) \/ Inv!PublishFailed(o)
  BY <1>2, <1>3, <1>8
     DEF Inv!ReserveFind, Inv!ReserveCheck, Inv!ReserveWrite, Inv!ReserveRecord,
         Inv!PublishReserved, Inv!PublishFailed, InvP!ReservePcs
<1>9. CASE Inv!UpdatePart(o) \/ Inv!RestockPart(o) \/ Inv!DeletePart(o) \/ Inv!AdminSave(o)
  BY <1>2, <1>3, <1>9
     DEF Inv!UpdatePart, Inv!RestockPart, Inv!DeletePart, Inv!AdminEdit, Inv!AdminSave,
         InvP!AdminPcs
<1> QED
  BY <1>4, <1>5, <1>6, <1>7, <1>8, <1>9 DEF Inv!Step

\* What the saga was told, asked for and had started, kept up by a step.
LEMMA AnsweredKept ==
    ASSUME InvP!IInv, ExeP!IInv, Answered,
           \A w \in WorkOrders :
              /\ replies'[w].reserved >= replies[w].reserved
              /\ replies'[w].failed >= replies[w].failed
              /\ replies'[w].reserved \in Nat /\ replies'[w].failed \in Nat
              /\ told'[w]["FAILED"] > 0 => told[w]["FAILED"] > 0 \/ Started(w)
              /\ Started(w) => Started(w)'
              /\ Started(w)' => Started(w) \/ replies[w].reserved > 0
              /\ Compensated(w)' => \/ Compensated(w) \/ Started(w)
                                    \/ replies[w].reserved + replies[w].failed > 0,
           \A o \in Ops :
              executionOps'[o].pc \in {"consume", "publish"} =>
                 /\ executionOps'[o].req.order \in WorkOrders
                 /\ Started(executionOps'[o].req.order)
    PROVE  Answered'
<1>1. ASSUME NEW w \in WorkOrders
      PROVE  /\ told'[w]["FAILED"] > 0 => Started(w)'
             /\ Started(w)' => replies'[w].reserved > 0
             /\ Compensated(w)' => replies'[w].reserved + replies'[w].failed > 0
  <2>1. told'[w]["FAILED"] > 0 => Started(w)'
    BY DEF Answered
  <2>2. replies[w].reserved \in Nat /\ replies[w].failed \in Nat
    BY ReplyFacts
  <2>3. Started(w)' => replies[w].reserved > 0
    BY DEF Answered
  <2>4. Compensated(w)' => replies[w].reserved + replies[w].failed > 0
    BY <2>2 DEF Answered
  <2> QED
    BY <2>1, <2>2, <2>3, <2>4
<1>2. ASSUME NEW o \in Ops, executionOps'[o].pc \in {"consume", "publish"}
      PROVE  executionCalls'[StartCommand(executionOps'[o].req.order)] > 0
  <2>1. PICK v \in WorkOrders : v = executionOps'[o].req.order /\ Started(v)
    BY <1>2
  <2>2. Started(v)'
    BY <2>1
  <2> QED
    BY <2>1, <2>2 DEF Started
<1> QED
  BY <1>1, <1>2 DEF Answered, Started

\* A handler of Executions that goes on to tell of its order found that on
\* record, and what it tells is of that order.
LEMMA TellerMoves ==
    ASSUME ExeP!IInv, Together, Answered, NEW o \in Ops, Exe!Step(o)
    PROVE  /\ \A w \in WorkOrders :
                 told'[w]["FAILED"] > 0 => told[w]["FAILED"] > 0 \/ Started(w)
           /\ \A x \in Ops :
                 executionOps'[x].pc \in {"consume", "publish"} =>
                    /\ executionOps'[x].req.order \in WorkOrders
                    /\ Started(executionOps'[x].req.order)
<1> DEFINE h == executionOps[o]
<1>1. /\ executionOps \in [Ops -> ExeP!Handler]
      /\ told \in [WorkOrders -> [ExeP!Terminal -> Nat]]
      /\ \A x \in Ops : ExeP!HandlerOK(executionOps[x])
  BY DEF ExeP!IInv, ExeP!TypeOK
<1>2. \A x \in Ops : executionOps[x].pc # "idle" => executionOps[x].req.order \in WorkOrders
  BY <1>1 DEF ExeP!HandlerOK, ExeP!Requests
<1>3. \A x \in Ops : executionOps[x].pc \in {"consume", "publish"} =>
                       Started(executionOps[x].req.order)
  BY DEF Answered
<1>4. CASE \/ Exe!AddDiagnostic(o) \/ Exe!StartRepair(o)
           \/ Exe!CompleteExecution(o) \/ Exe!FailExecution(o)
  <2>1. Exe!Find(o)
    BY <1>4 DEF Exe!AddDiagnostic, Exe!StartRepair, Exe!CompleteExecution, Exe!FailExecution
  <2>2. UNCHANGED told /\ \A x \in Ops \ {o} : executionOps'[x] = executionOps[x]
    BY <1>1, <2>1 DEF Exe!Find, Exe!End, Exe!Continue, Exe!history
  <2>3. executionOps'[o].pc \notin {"consume", "publish"}
    <3> DEFINE new  == Exe!Applied(executions[h.req.order], h.req)
               full == [h EXCEPT !.pc = "update", !.copy = new]
    <3>1. \/ executionOps' = [executionOps EXCEPT ![o] = full]
          \/ executionOps' = [executionOps EXCEPT ![o] = Exe!Idle]
      BY <2>1 DEF Exe!Find, Exe!End, Exe!Continue
    <3>2. full.pc = "update"
      <4> HIDE DEF new
      <4> QED
        BY <1>1 DEF ExeP!Handler
    <3>3. Exe!Idle.pc = "idle"
      BY DEF Exe!Idle, Exe!Blank
    <3> HIDE DEF full
    <3> QED
      BY <1>1, <3>1, <3>2, <3>3
  <2> QED
    BY <1>2, <1>3, <2>2, <2>3
<1>5. CASE Exe!StartFind(o) \/ Exe!Create(o)
  BY <1>1, <1>2, <1>3, <1>5
     DEF Exe!StartFind, Exe!Create, Exe!Goto, Exe!End, Exe!Continue, Exe!Idle, Exe!Blank,
         Exe!history
<1>6. CASE Exe!Update(o)
  <2>1. h.req.order \in WorkOrders /\ executions[h.req.order].status # "NONE"
    BY <1>1, <1>2, <1>6 DEF Exe!Update, ExeP!HandlerOK
  <2>2. Started(h.req.order)
    BY <2>1 DEF Together, NotAhead
  <2>3. \A x \in Ops \ {o} : /\ executionOps'[x].pc = executionOps[x].pc
                             /\ executionOps'[x].req = executionOps[x].req
    BY <1>1, <1>6 DEF Exe!Update, Exe!Overtake, ExeP!Handler
  <2>4. UNCHANGED told
    BY <1>6 DEF Exe!Update
  <2>5. executionOps'[o].pc \in {"consume", "publish"} => executionOps'[o].req = h.req
    BY <1>1, <1>6 DEF Exe!Update, Exe!AfterUpdate, Exe!Idle, Exe!Blank
  <2> QED
    BY <1>2, <1>3, <2>1, <2>2, <2>3, <2>4, <2>5
<1>7. CASE Exe!Consume(o)
  <2>1. /\ \A x \in Ops \ {o} : executionOps'[x] = executionOps[x]
        /\ executionOps'[o].req = h.req /\ h.pc = "consume"
    BY <1>7, ConsumeMoves DEF Exe!Consume
  <2>2. UNCHANGED told
    BY <1>7, ConsumeMoves
  <2> QED
    BY <1>2, <1>3, <2>1, <2>2
<1>8. CASE Exe!Publish(o)
  <2>1. h.pc = "publish" /\ h.req.order \in WorkOrders /\ Started(h.req.order)
    BY <1>2, <1>3, <1>8 DEF Exe!Publish
  <2>2. \A w \in WorkOrders : w # h.req.order => told'[w] = told[w]
    BY <1>1, <1>8 DEF Exe!Publish
  <2>3. /\ \A x \in Ops \ {o} : executionOps'[x] = executionOps[x]
        /\ executionOps'[o].pc = "idle"
    BY <1>1, <1>8 DEF Exe!Publish, Exe!End, Exe!Continue, Exe!Idle, Exe!Blank
  <2> QED
    BY <1>2, <1>3, <2>1, <2>2, <2>3
<1> QED
  BY <1>4, <1>5, <1>6, <1>7, <1>8 DEF Exe!Step

\* When an order is called off, its parts.reserve was answered: another in flight
\* is a second delivery.
LEMMA NoSecondReserve ==
    ASSUME InvP!IInv, ExeP!IInv, InvP!OneReplyPerCommand, Answered,
           NEW w \in WorkOrders, Compensated(w), inventoryCalls[ReserveCommand(w)] <= 1
    PROVE  /\ inventoryCalls[ReserveCommand(w)] = 1
           /\ \A o \in Ops : inventoryOps[o].req # ReserveCommand(w)
<1>1. InvP!ReserveCommand(w) = ReserveCommand(w)
  BY DEF InvP!ReserveCommand, ReserveCommand
<1>2. replies[w].reserved + replies[w].failed > 0
  BY DEF Answered
<1>3. inventoryCalls[InvP!ReserveCommand(w)] <= 1
  BY <1>1
<1>4. /\ inventoryCalls[InvP!ReserveCommand(w)] = 1
      /\ \A o \in Ops : inventoryOps[o].req # InvP!ReserveCommand(w)
  BY <1>2, <1>3, InventoryAssumed, InvP!AllAnswered
<1> QED
  BY <1>1, <1>4

\* The invariant on the orders called off, as far as a step of Inventory goes.
LEMMA ReleaseGoesOn ==
    ASSUME InvP!IInv, ExeP!IInv, InvP!OneReplyPerCommand, Answered, ReleaseComing,
           NEW o \in Ops, Inv!Step(o), UNCHANGED executionFaults
    PROVE  ReleaseComing'
<1>1. UNCHANGED <<crashes, inventoryFaults, executionFaults, inventoryCalls>>
  BY InventoryWorks, InventoryMoves
<1> SUFFICES ASSUME Failures = 0, NEW w \in WorkOrders, Compensated(w),
                    inventoryCalls[ReserveCommand(w)] = 1, reservations'[w] = "RESERVED"
             PROVE  \E x \in Ops : /\ inventoryOps'[x].pc # "idle"
                                   /\ inventoryOps'[x].req = ReleaseCommand(w)
  BY <1>1 DEF ReleaseComing, Failures, Compensated
<1>2. reservations[w] = "RESERVED"
  <2>1. inventoryOps[o].req # ReserveCommand(w)
    <3>1. inventoryCalls[ReserveCommand(w)] <= 1
      OBVIOUS
    <3> QED
      BY <3>1, NoSecondReserve
  <2> QED
    BY <2>1, Recorder
<1>3. PICK x \in Ops : inventoryOps[x].pc # "idle" /\ inventoryOps[x].req = ReleaseCommand(w)
  BY <1>2 DEF ReleaseComing
<1>4. inventoryOps'[x].pc # "idle"
  <2>1. CASE x = o
    BY <1>3, <2>1, ReleaseReturns
  <2>2. CASE x # o
    BY <1>3, <2>2, InventoryMoves
  <2> QED
    BY <2>1, <2>2
<1>5. inventoryOps'[x].req = ReleaseCommand(w)
  BY <1>3, <1>4, InventoryMoves
<1> QED
  BY <1>4, <1>5

\* The orchestrator calls off what was answered; a parts.reserve that is delivered
\* after it was a second one.
LEMMA CallInventoryCallsOff ==
    ASSUME InvP!IInv, ExeP!IInv, InvP!OneReplyPerCommand, Together, Answered, ReleaseComing,
           NEW o \in Ops, NEW r \in Inv!Requests, CallInventory(o, r)
    PROVE  Answered' /\ ReleaseComing'
<1>1. /\ r \in InvP!Requests
      /\ inventoryOps[o].pc = "idle"
      /\ inventoryCalls' = [inventoryCalls EXCEPT ![r] = @ + 1]
      /\ UNCHANGED <<reservations, replies, told, executionCalls, executionOps,
                     crashes, inventoryFaults, executionFaults>>
  BY InventoryWorks
     DEF CallInventory, Inv!Call, Inv!store, OnlyInventory, Inv!Requests, InvP!Requests,
         Inv!SagaCommands, InvP!SagaCommands, Inv!AdminCalls, InvP!AdminCalls
<1>2. /\ \A x \in Ops \ {o} : inventoryOps'[x] = inventoryOps[x]
      /\ inventoryOps'[o].pc # "idle" /\ inventoryOps'[o].req = r
  BY Facts DEF CallInventory, Inv!Call, Inv!Continue, Inv!Blank, Inv!FirstPc
<1>3. \A q \in InvP!Requests :
         /\ inventoryCalls[q] \in Nat
         /\ inventoryCalls'[q] = inventoryCalls[q] + (IF q = r THEN 1 ELSE 0)
  BY <1>1, Facts
<1>4. \A w \in WorkOrders : Compensated(w)' /\ r # ReleaseCommand(w) => Compensated(w)
  BY <1>3, Commands DEF Compensated
<1>5. Answered'
  <2>1. ASSUME NEW w \in WorkOrders, Compensated(w)'
        PROVE  \/ Compensated(w) \/ Started(w)
               \/ replies[w].reserved + replies[w].failed > 0
    <3>1. CASE r = ReleaseCommand(w)
      BY <3>1 DEF CallInventory, MaySend, MayRelease, ReleaseCommand, Answered
    <3>2. CASE r # ReleaseCommand(w)
      BY <1>4, <2>1, <3>2
    <3> QED
      BY <3>1, <3>2
  <2>2. \A x \in Ops : executionOps'[x].pc \in {"consume", "publish"} =>
                          /\ executionOps'[x].req.order \in WorkOrders
                          /\ Started(executionOps'[x].req.order)
    BY <1>1 DEF Answered, ExeP!IInv, ExeP!HandlerOK, ExeP!Requests
  <2>3. \A w \in WorkOrders :
           /\ replies'[w].reserved >= replies[w].reserved
           /\ replies'[w].failed >= replies[w].failed
           /\ replies'[w].reserved \in Nat /\ replies'[w].failed \in Nat
           /\ told'[w]["FAILED"] > 0 => told[w]["FAILED"] > 0 \/ Started(w)
           /\ Started(w) => Started(w)'
           /\ Started(w)' => Started(w) \/ replies[w].reserved > 0
    BY <1>1, ReplyFacts DEF Started
  <2> QED
    BY <2>1, <2>2, <2>3, AnsweredKept
<1>6. ReleaseComing'
  <2> SUFFICES ASSUME Failures = 0, NEW w \in WorkOrders, Compensated(w)',
                      inventoryCalls'[ReserveCommand(w)] = 1, reservations[w] = "RESERVED"
               PROVE  \E x \in Ops : /\ inventoryOps'[x].pc # "idle"
                                     /\ inventoryOps'[x].req = ReleaseCommand(w)
    BY <1>1 DEF ReleaseComing, Failures
  <2>1. CASE r = ReleaseCommand(w)
    BY <1>2, <2>1
  <2>2. CASE r # ReleaseCommand(w)
    <3>1. Compensated(w)
      BY <1>4, <2>2
    <3>2. inventoryCalls[ReserveCommand(w)] = 1
      <4>1. inventoryCalls[ReserveCommand(w)] \in Nat /\ inventoryCalls[ReserveCommand(w)] <= 1
        BY <1>3, ReplyFacts
      <4> QED
        BY <3>1, <4>1, NoSecondReserve
    <3>3. PICK x \in Ops : inventoryOps[x].pc # "idle" /\ inventoryOps[x].req = ReleaseCommand(w)
      BY <3>1, <3>2 DEF ReleaseComing
    <3> QED
      BY <1>1, <1>2, <3>3
  <2> QED
    BY <2>1, <2>2
<1> QED
  BY <1>5, <1>6

\* A call of Executions, which may start the work on an order.
LEMMA CallExecutionsCallsOff ==
    ASSUME InvP!IInv, ExeP!IInv, Together, Answered, ReleaseComing,
           NEW o \in Ops, NEW r \in Exe!Requests, CallExecutions(o, r)
    PROVE  Answered' /\ ReleaseComing'
<1>1. /\ r \in ExeP!Requests
      /\ executionCalls' = [executionCalls EXCEPT ![r] = @ + 1]
      /\ UNCHANGED <<reservations, replies, inventoryCalls, inventoryOps, told,
                     crashes, inventoryFaults, executionFaults>>
  BY ExecutionsWork
     DEF CallExecutions, Exe!Call, Exe!history, OnlyExecutions, Exe!Requests, ExeP!Requests
<1>2. /\ \A x \in Ops \ {o} : executionOps'[x] = executionOps[x]
      /\ executionOps'[o].pc = "find"
  BY Facts DEF CallExecutions, Exe!Call, Exe!Continue, Exe!Blank
<1>3. \A q \in ExeP!Requests :
         /\ executionCalls[q] \in Nat
         /\ executionCalls'[q] = executionCalls[q] + (IF q = r THEN 1 ELSE 0)
  BY <1>1, Facts
<1>4. ReleaseComing'
  BY <1>1 DEF ReleaseComing, Failures, Compensated
<1>5. ASSUME NEW w \in WorkOrders
      PROVE  /\ Started(w) => Started(w)'
             /\ Started(w)' => Started(w) \/ replies[w].reserved > 0
  <2>1. CASE r = StartCommand(w)
    <3>1. MayStart(w)
      BY <2>1 DEF CallExecutions, MaySend, StartCommand
    <3> QED
      BY <1>3, <2>1, <3>1, Commands DEF Started, MayStart
  <2>2. CASE r # StartCommand(w)
    BY <1>3, <2>2, Commands DEF Started
  <2> QED
    BY <2>1, <2>2
<1>6. \A w \in WorkOrders :
         /\ replies'[w].reserved >= replies[w].reserved
         /\ replies'[w].failed >= replies[w].failed
         /\ replies'[w].reserved \in Nat /\ replies'[w].failed \in Nat
         /\ told'[w]["FAILED"] > 0 => told[w]["FAILED"] > 0 \/ Started(w)
         /\ Compensated(w)' => Compensated(w)
  BY <1>1, ReplyFacts DEF Compensated
<1>7. \A x \in Ops : executionOps'[x].pc \in {"consume", "publish"} =>
                        /\ executionOps'[x].req.order \in WorkOrders
                        /\ Started(executionOps'[x].req.order)
  BY <1>2 DEF Answered, ExeP!IInv, ExeP!HandlerOK, ExeP!Requests
<1> QED
  BY <1>4, <1>5, <1>6, <1>7, AnsweredKept

\* A step of Inventory, whether Executions waits for it or not.
LEMMA InventoryStepCallsOff ==
    ASSUME InvP!IInv, InvP!IInv', ExeP!IInv, InvP!OneReplyPerCommand, Together, Answered,
           ReleaseComing, NEW o \in Ops, Inv!Step(o), OnlyInventory \/ Exe!Consume(o)
    PROVE  Answered' /\ ReleaseComing'
<1>1. UNCHANGED <<executionFaults, executionCalls>>
  BY DEF OnlyInventory, Exe!Consume, Exe!budget
<1>2. ReleaseComing'
  BY <1>1, ReleaseGoesOn
<1>3. /\ \A w \in WorkOrders :
            told'[w]["FAILED"] > 0 => told[w]["FAILED"] > 0 \/ Started(w)
      /\ \A x \in Ops : executionOps'[x].pc \in {"consume", "publish"} =>
                           /\ executionOps'[x].req.order \in WorkOrders
                           /\ Started(executionOps'[x].req.order)
  <2>1. CASE Exe!Consume(o)
    BY <2>1, TellerMoves DEF Exe!Step
  <2>2. CASE OnlyInventory
    BY <2>2 DEF OnlyInventory, Answered, ExeP!IInv, ExeP!HandlerOK, ExeP!Requests
  <2> QED
    BY <2>1, <2>2
<1>4. \A w \in WorkOrders :
         /\ replies'[w].reserved >= replies[w].reserved
         /\ replies'[w].failed >= replies[w].failed
         /\ replies'[w].reserved \in Nat /\ replies'[w].failed \in Nat
  BY RepliesStay DEF InvP!IInv, InvP!TypeOK
<1>5. \A w \in WorkOrders : Started(w)' = Started(w) /\ Compensated(w)' = Compensated(w)
  BY <1>1, InventoryMoves DEF Started, Compensated
<1> QED
  BY <1>2, <1>3, <1>4, <1>5, AnsweredKept

\* A step of Executions, which may call Inventory for a consumption.
LEMMA ExecutionsStepCallsOff ==
    ASSUME InvP!IInv, ExeP!IInv, Together, Answered, ReleaseComing,
           NEW o \in Ops, ExecutionsStep(o)
    PROVE  Answered' /\ ReleaseComing'
<1>1. Exe!Step(o) /\ ~Consuming(o) /\ UNCHANGED <<reservations, replies, executionCalls>>
  BY ExecutionMoves DEF ExecutionsStep, OnlyExecutions, Inv!Call, Inv!store
<1>2. UNCHANGED <<crashes, inventoryFaults, executionFaults>>
  BY <1>1, ExecutionsWork DEF ExecutionsStep, OnlyExecutions, Inv!Call
<1>3. \/ UNCHANGED <<inventoryOps, inventoryCalls>>
      \/ \E v \in WorkOrders :
            /\ inventoryOps[o].pc = "idle"
            /\ \A x \in Ops \ {o} : inventoryOps'[x] = inventoryOps[x]
            /\ inventoryCalls' = [inventoryCalls EXCEPT ![ConsumeCommand(v)] = @ + 1]
  <2>1. CASE OnlyExecutions
    BY <2>1 DEF OnlyExecutions
  <2>2. ASSUME NEW v \in WorkOrders, Inv!Call(o, ConsumeCommand(v))
        PROVE  /\ inventoryOps[o].pc = "idle"
               /\ \A x \in Ops \ {o} : inventoryOps'[x] = inventoryOps[x]
               /\ inventoryCalls' = [inventoryCalls EXCEPT ![ConsumeCommand(v)] = @ + 1]
    BY <2>2, Facts DEF Inv!Call, Inv!Continue
  <2> QED
    BY <2>1, <2>2 DEF ExecutionsStep
<1>4. \A w \in WorkOrders :
         /\ inventoryCalls'[ReleaseCommand(w)] = inventoryCalls[ReleaseCommand(w)]
         /\ inventoryCalls'[ReserveCommand(w)] = inventoryCalls[ReserveCommand(w)]
  <2>1. \A v, w \in WorkOrders : /\ ReleaseCommand(w) # ConsumeCommand(v)
                                 /\ ReserveCommand(w) # ConsumeCommand(v)
    BY DEF ReleaseCommand, ReserveCommand, ConsumeCommand
  <2> QED
    BY <1>3, <2>1, Commands, ReplyFacts, Facts
<1>5. ReleaseComing'
  <2> SUFFICES ASSUME Failures = 0, NEW w \in WorkOrders, Compensated(w),
                      inventoryCalls[ReserveCommand(w)] = 1, reservations[w] = "RESERVED"
               PROVE  \E x \in Ops : /\ inventoryOps'[x].pc # "idle"
                                     /\ inventoryOps'[x].req = ReleaseCommand(w)
    BY <1>1, <1>2, <1>4 DEF ReleaseComing, Failures, Compensated
  <2>1. PICK x \in Ops : inventoryOps[x].pc # "idle" /\ inventoryOps[x].req = ReleaseCommand(w)
    BY DEF ReleaseComing
  <2> QED
    BY <1>3, <2>1
<1>6. /\ \A w \in WorkOrders :
            told'[w]["FAILED"] > 0 => told[w]["FAILED"] > 0 \/ Started(w)
      /\ \A x \in Ops : executionOps'[x].pc \in {"consume", "publish"} =>
                           /\ executionOps'[x].req.order \in WorkOrders
                           /\ Started(executionOps'[x].req.order)
  BY <1>1, TellerMoves
<1>7. \A w \in WorkOrders : Started(w)' = Started(w) /\ Compensated(w)' = Compensated(w)
  BY <1>1, <1>4 DEF Started, Compensated
<1>8. \A w \in WorkOrders :
         /\ replies'[w].reserved >= replies[w].reserved
         /\ replies'[w].failed >= replies[w].failed
         /\ replies'[w].reserved \in Nat /\ replies'[w].failed \in Nat
  BY <1>1, ReplyFacts
<1> QED
  BY <1>5, <1>6, <1>7, <1>8, AnsweredKept

\* A step in which nobody is answered and handlers of Executions stay or end.
LEMMA QuietCallsOff ==
    ASSUME InvP!IInv, ExeP!IInv, Answered,
           UNCHANGED <<replies, told, inventoryCalls, executionCalls>>,
           \A x \in Ops : executionOps'[x].pc # "idle" => executionOps'[x] = executionOps[x]
    PROVE  Answered'
<1>1. \A x \in Ops : executionOps'[x].pc \in {"consume", "publish"} =>
                        /\ executionOps'[x].req.order \in WorkOrders
                        /\ Started(executionOps'[x].req.order)
  BY DEF Answered, ExeP!IInv, ExeP!HandlerOK, ExeP!Requests
<1>2. \A w \in WorkOrders :
         /\ replies'[w].reserved >= replies[w].reserved
         /\ replies'[w].failed >= replies[w].failed
         /\ replies'[w].reserved \in Nat /\ replies'[w].failed \in Nat
         /\ told'[w]["FAILED"] > 0 => told[w]["FAILED"] > 0
         /\ Started(w)' = Started(w) /\ Compensated(w)' = Compensated(w)
  BY ReplyFacts DEF Started, Compensated
<1> QED
  BY <1>1, <1>2, AnsweredKept

LEMMA NextCallsOff ==
    ASSUME InvP!IInv, InvP!IInv', ExeP!IInv, InvP!OneReplyPerCommand, Together, Answered,
           ReleaseComing, [Next]_vars
    PROVE  Answered' /\ ReleaseComing'
<1>1. ASSUME NEW o \in Ops, NEW r \in Inv!Requests, CallInventory(o, r)
      PROVE  Answered' /\ ReleaseComing'
  BY <1>1, CallInventoryCallsOff
<1>2. ASSUME NEW o \in Ops, NEW r \in Exe!Requests, CallExecutions(o, r)
      PROVE  Answered' /\ ReleaseComing'
  BY <1>2, CallExecutionsCallsOff
<1>3. ASSUME NEW o \in Ops, Step(o)
      PROVE  Answered' /\ ReleaseComing'
  BY <1>3, InventoryStepCallsOff, ExecutionsStepCallsOff DEF Step, InventoryStep, ConsumeStep
<1>4. ASSUME NEW p \in Parts, CreatePart(p)
      PROVE  Answered' /\ ReleaseComing'
  <2>1. UNCHANGED <<reservations, replies, told, inventoryCalls, executionCalls, inventoryOps,
                    executionOps, crashes, inventoryFaults, executionFaults>>
    BY <1>4 DEF CreatePart, Inv!CreatePart, Inv!budget, OnlyInventory
  <2>2. Answered'
    BY <2>1, QuietCallsOff
  <2>3. ReleaseComing'
    BY <2>1 DEF ReleaseComing, Failures, Compensated
  <2> QED
    BY <2>2, <2>3
<1>5. ASSUME NEW o \in Ops, Fault(o)
      PROVE  Answered' /\ ReleaseComing'
  <2>1. UNCHANGED <<replies, told, inventoryCalls, executionCalls, crashes>>
    BY <1>5 DEF Fault, Inv!Fault, Exe!Fault, Exe!history, OnlyInventory, OnlyExecutions
  <2>2. \/ /\ inventoryFaults' = inventoryFaults + 1
           /\ executionFaults' \in {executionFaults, executionFaults + 1}
        \/ inventoryFaults' = inventoryFaults /\ executionFaults' = executionFaults + 1
    BY <1>5 DEF Fault, Inv!Fault, Exe!Fault, OnlyInventory, OnlyExecutions
  <2>3. Failures' # 0
    BY <2>1, <2>2, ReplyFacts DEF Failures
  <2>4. \A x \in Ops : executionOps'[x].pc # "idle" => executionOps'[x] = executionOps[x]
    BY <1>5, Facts
       DEF Fault, Exe!Fault, Exe!End, Exe!Continue, Exe!Idle, Exe!Blank, OnlyInventory
  <2> QED
    BY <2>1, <2>3, <2>4, QuietCallsOff DEF ReleaseComing
<1>6. CASE Crash
  <2>1. /\ UNCHANGED <<replies, told, inventoryCalls, executionCalls, inventoryFaults,
                       executionFaults>>
        /\ crashes' = crashes + 1
        /\ executionOps' = [o \in Ops |-> Exe!Idle]
    BY <1>6 DEF Crash, Inv!Crash, Exe!Crash, Exe!history
  <2>2. Failures' # 0
    BY <2>1, ReplyFacts DEF Failures
  <2>3. Exe!Idle.pc = "idle"
    BY DEF Exe!Idle, Exe!Blank
  <2> QED
    BY <2>1, <2>2, <2>3, QuietCallsOff DEF ReleaseComing
<1>7. CASE UNCHANGED vars
  <2>1. UNCHANGED <<reservations, replies, told, inventoryCalls, executionCalls, inventoryOps,
                    executionOps, crashes, inventoryFaults, executionFaults>>
    BY <1>7 DEF vars, Inv!vars, Inv!store, Inv!budget, Inv!history,
                Exe!vars, Exe!budget, Exe!history
  <2>2. Answered'
    BY <2>1, QuietCallsOff
  <2>3. ReleaseComing'
    BY <2>1 DEF ReleaseComing, Failures, Compensated
  <2> QED
    BY <2>2, <2>3
<1> QED
  BY <1>1, <1>2, <1>3, <1>4, <1>5, <1>6, <1>7 DEF Next

LEMMA InitCallsOff == Init => Answered /\ ReleaseComing
<1> SUFFICES ASSUME Init PROVE Answered /\ ReleaseComing
  OBVIOUS
<1>1. \A w \in WorkOrders : /\ inventoryCalls[ReleaseCommand(w)] = 0
                            /\ executionCalls[StartCommand(w)] = 0
                            /\ told[w]["FAILED"] = 0
  BY Commands
     DEF Init, Inv!Init, Exe!Init, Exe!Terminal, Inv!Requests, InvP!Requests, Inv!SagaCommands,
         InvP!SagaCommands, Inv!AdminCalls, InvP!AdminCalls, Exe!Requests, ExeP!Requests
<1>2. \A o \in Ops : executionOps[o].pc = "idle"
  BY DEF Init, Exe!Init, Exe!Idle, Exe!Blank
<1> QED
  BY <1>1, <1>2 DEF Answered, ReleaseComing, Started, Compensated

\* What relates the components holds in every state of the service.
THEOREM InductiveInvariant == Spec => []ServiceInv
<1>1. Init => ServiceInv
  BY InitTogether, InitCallsOff DEF ServiceInv
<1>2. /\ InvP!IInv /\ InvP!IInv' /\ ExeP!IInv /\ InvP!OneReplyPerCommand
      /\ ServiceInv /\ [Next]_vars
      => ServiceInv'
  BY NextTogether, NextCallsOff DEF ServiceInv
<1> QED
  BY <1>1, <1>2, InvariantsInside, PTL DEF Spec

\* execution.completed is published only when the reserved parts are consumed,
\* whatever was delivered again, refused, called off or cut short, unless two
\* calls raced for the execution.
THEOREM ToldMeansConsumed == Spec => []CompletionConsumed
BY InductiveInvariant, PTL DEF ServiceInv, Together

\* No reservation is consumed but by a completion that is on record, with the
\* same exception.
THEOREM ConsumedMeansCompleted == Spec => []OnlyCompletionConsumes
BY InductiveInvariant, PTL DEF ServiceInv, Together

\* An order called off before its work began, or after it failed, keeps no
\* reservation and no units, in whatever order the commands and the calls of the
\* workshop came, as long as parts.reserve was delivered once and nothing failed.
THEOREM CalledOffHoldsNothing == Spec => []CompensatedHoldsNothing
<1>1. InvP!HeldMatchesReservation /\ ServiceInv => CompensatedHoldsNothing
  <2> SUFFICES ASSUME InvP!HeldMatchesReservation, ServiceInv, Failures = 0,
                      NEW w \in WorkOrders, Compensated(w), ~Inv!InFlight(w),
                      inventoryCalls[ReserveCommand(w)] = 1
               PROVE  /\ reservations[w] # "RESERVED"
                      /\ disturbed = {} =>
                            \A p \in Parts \ clobbered :
                                parts[p].state # "deleted" => held[w][p] = 0
    BY DEF CompensatedHoldsNothing
  <2>1. \A o \in Ops : inventoryOps[o].req # ReleaseCommand(w)
    BY DEF Inv!InFlight, Inv!SagaKinds, ReleaseCommand
  <2>2. reservations[w] # "RESERVED"
    BY <2>1 DEF ServiceInv, ReleaseComing
  <2>3. ~InvP!InFlight(w)
    BY DEF Inv!InFlight, InvP!InFlight, Inv!SagaKinds, InvP!SagaKinds
  <2> QED
    BY <2>2, <2>3 DEF InvP!HeldMatchesReservation
<1> QED
  BY <1>1, InductiveInvariant, InvariantsInside, PTL
=============================================================================
