# Verification of execution-service

execution-service is one service of a workshop system built as a saga. It keeps
the spare parts (stock, prices, reservations per work order) and the execution
queue of work orders (diagnosis, repair, completion). Commands come from an
orchestrator over RabbitMQ, calls of mechanics and administrators over HTTP, and
everything is stored in MongoDB. This directory holds TLA+ models of it, their
model-checking configurations and machine-checked proofs. Paths below are
relative to the repository; `inventory/` stands for `src/modules/inventory/`,
`executions/` for `src/modules/executions/`, `shared/` for `src/shared/`.

## 1. The system

| Component | State | Operations | Correct when |
|---|---|---|---|
| **Parts** (`inventory/domain/part.entity.ts`, its repository) | `parts`: available, reserved, price, deletedAt | create, update, restock, delete (HTTP); reserve, release, consume (saga, completion) | no unit appears, disappears or is promised twice; acknowledged edits stay |
| **Reservations** (`inventory/domain/reservation.entity.ts`, its repository) | `reservations`: one document per work order, `RESERVED`, `RELEASED` or `CONSUMED`, `_id` = work order id | created by reserve, closed by release or consume | the reservation tells what its order holds, and is settled once |
| **Inventory saga** (`inventory/presentation/saga/`) | none | `parts.reserve` → `parts.reserved` or `parts.reservation-failed`; `parts.release` | every reserve is answered once and truthfully |
| **Executions** (`executions/`) | `executions`: status and diagnostics per work order | `execution.start`; diagnose, repair, complete, fail (HTTP) | the status follows the lifecycle, diagnostics are kept, the saga hears the one outcome once, after the parts were consumed |
| **The service** (`app.module.ts`, `complete-execution.use-case.ts`) | both of the above | completing an execution consumes its parts in the same process | what the saga is told agrees with the stock |
| **Message bus** (`shared/messaging/rabbitmq-bus.ts`) | bindings, channel, unacknowledged messages | publish, subscribe, set up, dispatch, acknowledge | each command is handled, or comes back |
| **Listings** (`GET /parts`, `GET /executions`) | none | find with skip/limit, count | a walk over the pages covers the collection |
| **HTTP layer** (`shared/auth/`, controllers, DTOs, filters) | none | guards, validation, handlers, error → status | each route admits the roles the README lists, refusals change nothing |
| **Configuration, connection, wiring, observability** | none | start-up, logging, tracing | – |

How they interact:

- The bus calls a handler for each message as it arrives. There is no prefetch,
  and the consumer callback does not wait for the handler, so all queued
  messages are in progress at once, overlapping with each other and with HTTP
  requests. A message is acknowledged after its handler returned *or threw*, on
  whatever channel there is by then.
- A use case reads documents, changes entities in memory, and writes each one
  back with `$set` of every field, by `_id`. There is no transaction and no
  version check. Between any two awaited calls other handlers may run.
- Completing an execution writes the status, then awaits `ConsumePartsUseCase`
  of the inventory in the same process, then publishes `execution.completed`.

What is hard about it: lost updates between read and write; several documents
written one by one with a failure in between; messages delivered again or
twice at the same time; a status that is final before its consequences are done;
acknowledgements that outlive their channel; pages over a collection that
changes; quantities at zero. `PROJECT.json` lists each such place as a hazard,
with its line and the properties aimed at it.

## 2. The modules

| Module | What it holds |
|---|---|
| `Inventory` | the parts inventory: state, one action per awaited call, properties, inductive invariant |
| `InventoryBooks` | the properties that add up over work orders |
| `InventoryOrders` | what each order holds, and who is at work for it: the inductive invariants behind the per-order properties |
| `StockAccount` | abstract specification: every operation on a part happens at once |
| `InventoryAccount` | the refinement mapping from `Inventory` to `StockAccount`, and its invariant |
| `InventoryProofs`, `AccountProofs` | theorems about `Inventory`; the refinement |
| `OrderProofs` | sums over finite sets, and the theorems on replies, reservations and held units |
| `Executions` | the execution queue, in the same style |
| `Lifecycle` | abstract specification: what the saga may rely on about an execution |
| `ExecutionsLifecycle` | the refinement mapping from `Executions` to `Lifecycle` |
| `ExecutionsProofs` | theorems about `Executions`, the refinement among them |
| `ExecutionService` | both components composed, with the orchestrator's commands |
| `ServiceProofs` | each component inside the service; what relates the two |
| `MessageBus`, `MessageBusProofs` | the bus between the broker and the handlers; its theorems |
| `Listing`, `ListingProofs` | a client that walks the pages of a listing while documents change; its theorems |
| `HttpApi`, `HttpProofs` | one request from the body parser to the answer, on every route; its theorems |
| `MCInventory`, `MCExecutions`, `MCService`, `MCMessageBus`, `MCListing` | small instances for TLC (`HttpApi` has no parameters and needs none) |

`ExecutionService` instantiates `Inventory` and `Executions` and adds no copy of
their steps. It shares the slots (a completion and the consumption it awaits run
in one), the crashes, and the failure budget. The other modules stand alone: a
call in `Inventory` or `Executions` is a dispatch of `MessageBus` or a request
that `HttpApi` let through.

### 2.1 Granularity

One action is one awaited database or bus call together with the synchronous
code that follows it up to the next `await`. JavaScript runs that code without
interruption, so nothing finer can be observed; anything coarser would hide the
races. A handler in flight is a record in `op[o]`: `pc` names the call it makes
next, `copy` the entities it has in memory, and `idx` the item of its loop.

| Code | Action |
|---|---|
| bus dispatch, or an HTTP request routed | `Call` |
| `parts.reserve`: `findByWorkOrder`; `findByIds` and both loops; each `update`; `create`; `publish` | `ReserveFind`, `ReserveCheck`, `ReserveWrite`, `ReserveRecord`, `PublishReserved` / `PublishFailed` |
| release, consume: `findByWorkOrder`; each `findById`; each `update`; the last `update` | `SettleFind`, `SettleLoad`, `SettleWrite`, `SettleClose` |
| update, restock, delete a part: `findById`; `update` | `UpdatePart`, `RestockPart`, `DeletePart` (each an `AdminEdit`); `AdminSave` |
| create a part | `CreatePart` |
| `execution.start`: `findByWorkOrder`; `create` | `StartFind`, `Create` |
| diagnose, repair, complete, fail: `findByWorkOrderId`; `update`; `ConsumePartsUseCase`; `publish` | `AddDiagnostic`, `StartRepair`, `CompleteExecution`, `FailExecution` (each a `Find`); `Update`, `Consume`, `Publish` |
| the same, where `ConsumePartsUseCase` is its own steps | `ExecutionsStep` starts it, `ConsumeStep` makes them and returns (`ExecutionService`) |
| an awaited call rejects; the process dies and is started again | `Fault`; `Crash` |
| the setup function: assert the queue, bind each key, consume | `Connect`, `BindQueue`, `Consume` (`MessageBus`) |
| `dispatch`: a handler found, none found, `JSON.parse` throws; handler and reply; `.catch`; `.finally` | `Dispatch`, `Ignore`, `Choke`; `Work`, `PublishReply`, `Confirm`; `Reject`; `AckAndFree` in the last three |
| a listing: `find`, `countDocuments`, in either order; the answer | `Find`, `Count`; `Reply` (`Listing`) |
| a request's stages | `Parse`, `Route`, `JwtAuthGuard`, `RolesGuard`, `Pipes`, `Handle` or `Fault` (`HttpApi`) |

The details of the code that matter are kept: the check loop looks at each item
by itself, the second loop reserves from shared entities (so a part listed twice
is written twice from one entity); release and consume cap at what the part
has reserved; deleted parts are skipped; `AlreadyServed` accepts a reservation in
any status; a catch block answers `parts.reservation-failed` for every
exception, also one thrown by publishing `parts.reserved`; an acknowledgement
goes to `this.channel` as it is when the handler ends; a page's rows and total
are two queries; `'prices'` is declared before `':id'`; the body is spread over
the id of the path.

### 2.2 Abstractions

- A failed call was not applied. A write that was applied although its answer was
  lost is the write's action followed by `Fault` at the handler's next call. At a
  handler's last write, that is a normal end: nobody is told anything else.
- A rejected publish was not accepted by the broker. `replies` and `told` count the
  messages that handlers published.
- A redelivered message and a repeated HTTP call are further `Call`s of the same
  request, within `MaxCalls`. The payload of `parts.reserve` is a function of the
  order (`Demand`), on redelivery as well.
- `findByIds` is one atomic read. MongoDB does not promise a snapshot over several
  documents; a torn read adds nothing but older copies, which overtaken
  handlers have anyway. In `Listing`, too, one query sees one state.
- `Asked(w, p)`, the sum over an order's items, is the cardinality of a set of
  units, which keeps recursion out of the module the proofs are about.
- Part names and descriptions, timestamps, UUIDs, texts of answers and log lines
  are left out. A price is a number, validated as `Money` does. A note stands for
  a diagnostic's description; `BlankNotes` are those that trim to nothing. A
  search pattern is the set of names it matches. A value in an HTTP body is what
  becomes of it: fine, absent, null, refused by its decorator, or let through and
  unfit for the domain.
- In `Executions` alone, `ConsumePartsUseCase` is one step.
- Parts get fresh random ids, so `CreatePart` inserts an id that never existed,
  in one step.
- *External*, modelled from how the code uses them: the broker (durable queue and
  bindings; what was not acknowledged on a lost channel returns to the queue; an
  unknown delivery tag closes the channel), `amqp-connection-manager` (runs the
  setup on each new channel, opens one when the connection returns and only
  then, keeps a publication until it is confirmed), the order of NestJS's stages,
  Express's parser and router, `class-validator`, MongoDB's sort.
- The *orchestrator* (`ReserveCommand`, `ReleaseCommand`, `StartCommand`, `MaySend`)
  is a service of its own. Of it, `ExecutionService` takes what the README says:
  it starts work when the parts were reserved, it compensates when the execution
  failed, and it may call off an order that was answered and not yet started.
  The broker may deliver any command again, at any time.

### 2.3 History variables

They are read by properties only, never by a guard.

- `ledger[p]`: what the acknowledged writes of a part add up to.
- `held[w][p]`: units written as reserved for an order, less those written as
  released or consumed for it.
- `recorded[w]`, `consumed[w]`: diagnostics written, consumptions done.
- `clobbered` (`overwritten` in the service, for executions): parts or executions
  written by a handler whose read had been overtaken by another handler's write.
  The field `stale` of a handler says which of its copies were overtaken.
- `disturbed`: orders that two handlers worked for at the same time, or that a
  crash or a fault left half done.
- `MessageBus`: `sent`, `routed`, `done`, `swallowed` (the handler rejected),
  `misacked` (acknowledged by the handler of another message).
- `Listing`: `kept` and `initial` (documents that matched all along, and at the
  start), `steady`, `disturbed`, `overtaken`.

The code does lose updates, and the violation runs show it. `clobbered` and
`disturbed` state exactly when: a property that excepts them says that *nothing
but* an overtaken write, or a half-done order, can break the books. They are
not an escape for everything else. All faults, crashes, redeliveries and
interleavings remain, and the mutants of each property break it outside
the exception.

## 3. The runs

Every passing run sets `CHECK_DEADLOCK FALSE`: requests, crashes and faults have
budgets, and a walk or a request ends, so a run stops once they are spent and no
handler is in flight. `SYMMETRY` permutes handler slots, which are
interchangeable (no action or property names one); runs with liveness properties
do not use it.

| Run | Question | Bounds |
|---|---|---|
| `InventoryRaces` | Two orders compete for a part while it is restocked and deleted. Is stock conserved, are quantities non-negative, does `reserved` equal what orders hold, does a refusal leave nothing, do settled reservations stay settled? Does every operation take effect at once (`KeepsAccount`)? | 2 parts, 2 orders (w2 lists p1 twice), one unit too few, 2 slots, every request once |
| `InventoryRedelivery` | Is every delivery answered once at most, and success only with a reservation on record? Does an order hold what its reservation says when commands come again? | reserve and release of w1 twice, consume once, an order without items, 1 crash, 1 fault, 2 slots |
| `InventoryCatalog` | Do acknowledged edits survive? Do the inductive invariants of the proofs and of the refinement hold? | restock, two prices (one above the maximum), delete, create, an invalid payload, 1 fault, 2 slots |
| `ExecutionsRaces` | Are diagnostics kept, is one outcome told, after the consumption, and is nothing queued again? Does the inductive invariant of the proofs hold, the type invariant in it? Does `Executions` implement `Lifecycle`? | 1 order, start, diagnose and complete twice, repair and fail once, 1 crash, 1 fault, 2 slots |
| `ServiceSaga` | Does what the saga is told agree with the stock? Does a compensated order hold nothing? Is every reserve answered, every settlement finished, every start queued, every outcome told? | 1 order, 1 part that is created and may be deleted; complete twice, start, repair, fail, reserve, release and delete once, no diagnose, no restock or price change; every completion makes the consumption it awaits; 1 crash or fault, 2 slots, fairness |
| `MessageBus` | Does a command leave the queue only when it was handled, and is each in the queue handled in the end? | 4 commands (answered, not answered, no longer subscribed, malformed), 1 rejection, 1 lost connection, 1 crash, 2 slots, fairness |
| `Listing` | Does a walk list each document once and in order? Do rows and total agree? Does the inductive invariant hold, the type invariant in it? | 3 documents, keys 1..3, pages of 1 and 2, every filter, 2 changes at any moment |
| `HttpApi` | Who gets through, what is refused where, what does an answer show? Does the inductive invariant hold? | every method, path, token and class of value in each field, every status of the document named |

The violation runs each check one sentence of the documentation or the
tests, and TLC finds a counterexample. A request or a failure that could
violate the sentence in another way than the one described is left out of the run,
so that the shortest trace is the one the table tells.

| Run | The sentence | What happens |
|---|---|---|
| `InventoryOversell` | README.md:79: `parts.reserve` succeeds only if every part has enough | nothing but the two orders' `parts.reserve`: both check the same units before either writes |
| `InventoryReleaseTwice` | README.md:81: release is idempotent | the process dies between two items; the redelivery gives back the first again |
| `ExecutionsReopened` | entity test: `fail` is refused from a terminal status | two calls overlap, one of which ends the execution: both checks pass on the older document, and the later write takes it out of its terminal status |
| `ExecutionsUnsettled` | README.md:57: complete consumes the parts and publishes | a failure after the status was written; the retry is refused with 400 |

Why the bounds are enough for the question: each hazard involves at most two
handlers and one document both touch (two slots), an order of two items (the
first index at which a loop can be half done), and stock one unit short of demand.
A second delivery is enough for redelivery, one crash or fault for
each place it can happen at, since TLC tries it at every step. Handlers do not
count each other, and the proofs cover any number of them. On the bus, a late
acknowledgement needs one handler that outlives one channel, an earlier message that
has left the queue, so that tags shift, and a second command for its tag to hit. In a walk, pages of one document give a walk as many page
boundaries as three documents allow; pages of two give a last page that is not
full; a document that is skipped or repeated takes one change, a pair of changes
covers a move and its reverse, or a change in each of the two queries. `HttpApi`
enumerates its whole input.

What the exceptions in the properties say about the code:

- `clobbered`, in the properties of `Inventory` and `Executions`: a part or an
  execution that one handler read and another wrote in between is written back as it
  was. A restock, a price change, a deletion, a diagnostic or an outcome that was
  answered is lost then, and units are promised twice.
- `disturbed` and the faults, in `HeldMatchesReservation` and `RefusalLeavesNothing`: a
  `parts.reserve` that fails between its writes is refused with units reserved and no
  reservation on record, so a release does not find them; and one whose
  `parts.reserved` cannot be published is refused although its reservation stands.
- `GoneMeansDone`: a command leaves the broker unhandled in three ways only: its
  handler rejected (logged and acknowledged; a handler that replies rejects when
  the publish in its catch block fails), the late acknowledgement of another
  handler hit it, or nobody is subscribed to its key any more.
- `EveryCommandHandled`: a malformed command is delivered again after each
  connection it took down, and a channel closed over a wrong tag is not opened
  again before the connection is lost.
- `ErrorsAreKnown`: a name of `null` in a `PATCH`, and a search text that is no
  regular expression, end in a 500.
- `CompensatedHoldsNothing`: a `parts.reserve` delivered a second time after the
  compensation is answered `parts.reserved` from the released reservation, but a
  first delivery that overlaps with it may leave units reserved. And an order that
  two handlers served at once takes more than its due from a part's `reserved`, so
  that another order, capped at what is left, gives back less than it holds.
- `QueueWalkIsExact`: a `createdAt` taken before an insert that others overtake
  puts an execution in front of the page being read.

Fairness. `Inventory`, `Executions` and `ExecutionService`: `WF_vars(Step(o))` for
each slot. Every awaited call returns or throws, and Node's event loop resumes
each continuation whose promise is settled, so a handler is not starved by the
others. `MessageBus` adds `WF` of the setup (the manager reconnects) and of the
delivery of what waits in the queue (the broker pushes to a consumer). Nothing
is assumed of new requests, crashes, faults, lost connections or malformed
messages; the liveness properties of the handlers hold "or something crashed or
failed", because the code acknowledges a message whose handler threw and does
not retry. On the bus no such exception is needed for crashes and lost
connections, since both bring the command back.

## 4. The proofs

They hold for every value of the constants – any set of parts and work orders,
any payloads, any number of handlers, deliveries, crashes and faults:

| Theorem | States |
|---|---|
| `InventoryProofs!InductiveInvariant`, `TypeCorrect` | `Spec => []IInv`, `Spec => []TypeOK` |
| `StockIsConserved` | a part's stock is what its restocks and consumptions add up to, unless written from an overtaken read |
| `EditsAreKept` | acknowledged price changes and deletions are not undone, with the same exception |
| `RepliesAreBacked` | `parts.reserved` only with a reservation on record |
| `OrderProofs!RepliesAreCounted` | `OneReplyPerCommand`: no more answers than deliveries, one success at most per delivery that was not refused |
| `BooksBalance` | `ReservedMatchesHeld`: what a part has reserved is the sum of what the orders hold |
| `HoldingsMatch` | `HeldMatchesReservation`: an order at rest holds what its reservation says |
| `RefusalIsClean` | `RefusalLeavesNothing`: an order refused by the check holds nothing |
| `ClosedIsFinal` | `ClosedStaysClosed`: a settled reservation stays settled |
| `AccountProofs!CopiesAreExact`, `ImplementsAccount` | `Spec => []AccountInv`; `Spec => Account!Spec`: every operation takes effect at once |
| `ExecutionsProofs!InductiveInvariant`, `TypeCorrect` | `Spec => []IInv`, `Spec => []TypeOK` |
| `OneOutcome`, `ConsumedFirst`, `DiagnosticsAreKept`, `NothingIsRequeued` | the properties of `ExecutionsRaces` |
| `ImplementsLifecycle` | `Spec => Promise!Spec`: every step is a step of the lifecycle or none |
| `ServiceProofs!ComponentsInside` | `Spec => Inv!Spec /\ Exe!Spec` for the service |
| `InventoryInside`, `ExecutionsInside` | what each component promises by itself, and its refinement, holds inside the service |
| `ServiceProofs!InductiveInvariant` | `Spec => []ServiceInv` |
| `CalledOffHoldsNothing` | `CompensatedHoldsNothing`: once `parts.release` was handled, nothing is reserved for the order any more |
| `ToldMeansConsumed`, `ConsumedMeansCompleted` | `execution.completed` only after the parts were consumed, and parts consumed only for a completed execution |
| `MessageBusProofs!InductiveInvariant`, `TypeCorrect` | `Spec => []IInv`, `Spec => []TypeOK` |
| `AtLeastOnce`, `NoTagForgotten` | `GoneMeansDone`, `TagsAreHandled` |
| `ListingProofs!InductiveInvariant`, `TypeCorrect` | `Spec => []IInv`, `Spec => []TypeOK` |
| `WalksAreComplete` | `WalkListsEach`: a finished walk of an undisturbed listing shows each document once and in order |
| `QueueWalksAreExact` | `QueueWalkIsExact`: so does a walk of all executions, whatever starts or changes meanwhile, unless one gets in front |
| `AnswersAgree` | `PageFitsTotal`: an answer has as many rows as its page of its total can have |
| `HttpProofs!InductiveInvariant` | `Spec => []PipelineInv` |
| `GuardsComeFirst`, `PublicRoutesAnswer`, `StockIsPrivate`, `RefusedIsUndone`, `FiveHundredsAreKnown` | the properties of `HttpApi` |

Assumptions, each stated by name beside the constants and evaluated by TLC in
every run: `DemandType` (items name parts and integers; quantities are bounded by
some `MaxQuantity`, and may be negative), `CatalogType`, `InputType` (what the DTOs
let through), `BudgetType`, `NotesType`, `BusType`, `ListingType`, and, in `Executions`,
`Inventory`, `OpsFinite`, and in `InventoryBooks` and `ExecutionService`,
`OrdersFinite`: handlers are counted and units added up over orders, and a count or
a sum needs finitely many of them, and in `Listing`, `DocsFinite`, since `count` is
a number. A process has finitely many calls in flight
and a database finitely many orders; how many is left open.

*Inventory.* The stock of a part is not an inductive property: whether a write
conserves it depends on what the handler has in memory. `IInv` adds `CopyCurrent`:
a copy that nobody overtook is the document but for the handler's own unwritten
change (`moved`). A write of such a copy changes the total by the amount the ledger
books. A write of an overtaken copy puts the part in `clobbered`. Every write
marks the copies of others as stale, and every other step leaves the documents
alone. `HandlerOK` ties a handler's place in the code to its request and memory;
`RecordsValid` says that only valid payloads are on record, which is what makes
the capped settlement amounts natural numbers.

*Inventory implements StockAccount.* A total is not enough here: the write must be
the operation itself, applied to the document of that moment, within its guard.
`AccountInv` adds `CopyExact`: a copy nobody overtook is `Due`, the reserve,
release, consumption, restock, price change or deletion of the present document,
and the units it moves are no more than the document can give. The operation
takes effect at the write. Reading, checking and closing the reservation are
stutters, a second write of a part that a payload lists twice changes
nothing, and a write from an overtaken read is `Overwrite`, after which the
account of that part promises nothing.

*Replies.* `RepliesAreCounted` counts: a delivery is being handled, was answered, or
was lost to a crash or a fault. `IdleIsFree` keeps a free slot from being counted as
a delivery. What makes a refusal truthful is `RefusedLess`: while a reservation is
on record, one delivery at least is neither answered with a refusal nor still
undecided, so that "every delivery was refused" excludes a reservation.

*Who works for an order.* `AloneInv`: an order that was left in peace has one
handler at most between its read of the reservation and its last write, and what
that handler read is still so. A handler that finds another at work puts the order in
`disturbed`, as a crash or a fault half way does. So a settlement of an undisturbed
order closes the reservation it found open, which is `ClosedIsFinal`.

*Held units.* `BooksBalance` is about a sum over orders, which changes by what one
order's entry changes by, at each write (the lemmas on sums come first: no element,
one entry changed, bounds; they are proved by taking a smallest subset that fails). `AccountInv` supplies what the write does to `reserved`, and
`AbsentIsEmpty` covers the part that is created. `HoldingsMatch` needs to know what
an order holds at every place of its handler: `InHand` says it, item by item, for
the writing loop (asked for, less what is still in memory), and for the settling
loop (what the remaining items ask for, `Remaining`). `WritesDue` carries the writing
loop over a part that a payload lists twice, which is written whole at its first
item and again, unchanged, at the second. `SettlesDue` says that the cap does not
bite: the amount of the item is part of what the order holds, and that is part of
what the document has reserved – by `ReservedMatchesHeld`, and only if no order is
`disturbed`, since a disturbed order may have taken units of this one. A deleted
part is skipped, so it is excepted (`Sound`; deletion and `clobbered` are for good).
The cap, the deletion and the duplicated item are thus where the exceptions of
`HeldMatchesReservation` come from, and the proof shows that there is no other.

*Executions.* That one outcome is told depends on who is still going to tell
one. `OutcomePending` says that at most one handler will tell, that nobody has
told yet, and that the document carries its outcome. `HandlerOK` says that a
copy not overtaken is what the request makes of the document, so a second
terminal write on the same document would have been refused by its check.
`ConsumptionsCover` counts the handlers that consumed and have yet to
publish. The refinement maps an order whose document was overwritten to
`OVERWRITTEN`, from which `Lifecycle` promises nothing; each action is then one of
`Enqueue`, `Diagnose`, `Repair`, `Complete`, `Fail`, `Tell`, `Overwrite` or a stutter.

*The service.* `ComponentsInside` shows that each step of the service is a step of
one component and a stutter of the other, or a step of both (a completion starting
or ending its consumption, a crash). The components' invariants therefore hold
inside the service (`InvariantsInside`), and the argument needs to add only what
relates the two: `Linked`, a consumption in flight runs in the slot of a
completion of the same order; `NotAhead`, an execution exists only once
`execution.start` was sent, a reservation is released only once `parts.release`
was, and a started order has its reservation on record; `CalledOffFailed`, a
started order is called off only after its failure was told. When a consumption
returns, its reservation is therefore neither missing nor released, so it is
consumed, by this call or an earlier one, and stays so: a release would need a
failure told of an execution that is completed, which `OneOutcome` excludes.

That a called-off order holds nothing (`CalledOffHoldsNothing`) needs two more parts.
`Answered`: the saga starts and calls off only what was answered. If `parts.reserve`
was delivered once, its handler is then gone when the order is called off, and
nobody can record a reservation afterwards. `ReleaseComing`: while a called-off
order still has its reservation, a `parts.release` of it is in flight – it ends only
after it closed the reservation, and nobody else opens one. What the order holds
then follows from `HoldingsMatch`, which the service has from its component.

*The bus.* A command is in the queue, or unacknowledged, or settled. `Passed` says
that all that is on its way was sent and routed; `Knows(o)`, that a handler's
message was routed, that while its channel lasts its tag is that of its message,
and that one that waits for a confirmation has done its work; `BoundSoFar` and
`WithoutChannel` tie the bindings, tags and deliveries to the state of the channel. An acknowledgement then removes the handler's own message,
which is done, or, if the handler was orphaned by a lost channel, a message that
is `misacked` from then on.

*The listing.* A page is cut out by position, and a position says nothing of a
document by itself. The proof turns it round: `Place` counts the documents in front
of one, which gives its position in every sort by a key that no two share.
`Covers(items, 0, Seen)` says that the client has every document that was there
all the time and has its place within the pages seen, and none twice; the rows in
hand cover the page being read in the same sense, and appending the one to the
other covers both. `NoneBeyond` ties the total to what is left: when the client
stops, because rows or total tell it to, no document that was there all the time
has a place beyond the end of the page. All this needs `Calm`, under which no
document up to the end of the page moves: no write touched one (`disturbed`), or
the walk is over all executions by `createdAt` and none was inserted out of turn
(`overtaken`). The sort
is described by what it returns, a sequence of all matching documents in order of
their keys, so nothing has to be proved by induction over sequences; that there is
one at all is not claimed. `PageInv` is about a single answer: rows and total of
two queries agree if nothing was written in between.

*HTTP.* `HttpApi` has no parameters, and TLC's run is exhaustive for it; the proof
gives the reason. `RouteFor` takes the first route that fits, and `Taken`
records what matters of it: it fits the request, and a request on the README's
public paths is taken by a public route, though `/parts/prices` would fit
`/parts/:id` too. The converse (`OnlyPublicRoutes`), that no other request is,
makes the guards tight: past them, a request is public or an administrator's
(`PassedSoFar`). The handlers of the public routes are never refused and write
nothing; for the others, the status of the answer is traced back to the exception,
and a null name of a `POST` is excluded because validation came first.

Model-checked only: the liveness properties (fairness and ENABLED are beyond the
prover), and the runs that look for a violation.

## 5. What is not modelled

- Configuration, the database connection, module wiring: declarations and
  start-up. A missing variable stops the process before it serves anything.
- Observability: logging and tracing return what they are given.
- `onModuleDestroy` of the bus: `main.ts` enables no shutdown hooks, so the process
  ends without it, which is `Crash`. Errors inside the setup function are left to
  the library, which runs it again on the next channel.
- The values that reads return, beyond which fields they show: one query each, no
  state.
- Quantities beyond 2^53, where JavaScript numbers round.
- Texts of messages and the OpenAPI page.

## 6. Plan

Done, in order of what matters most: `Inventory` with its races, failures and
proofs; `Executions`, `Lifecycle` and the refinement; `ExecutionService` with the
orchestrator's commands and the theorems that relate the components;
`StockAccount` and its refinement; `MessageBus`, `Listing` and `HttpApi` with their
theorems.

Every safety invariant, action property and refinement of the passing runs is
proved, and every promise of a component carried over to the service. Left is what
the prover does not reach: liveness.

## 7. Running the checks

    tlc -workers 2 -config InventoryRaces.cfg MCInventory
    tlapm InventoryProofs.tla

`PROJECT.json` lists the runs, the mutants that show each property can fail, the
source lines each definition models, and the theorems.
