------------------------------ MODULE Inventory ------------------------------
(***************************************************************************)
(* The parts inventory of execution-service (src/modules/inventory):       *)
(* the parts and reservations collections, and the handlers that work on   *)
(* them.  Every use case reads documents, changes them in memory and       *)
(* writes each one back whole ($set by _id), with no transaction and no    *)
(* version check; handlers run concurrently, because the bus consumes      *)
(* without prefetch and HTTP requests overlap.  One action is one awaited  *)
(* database or bus call together with the synchronous code that follows    *)
(* it, up to the next await.                                               *)
(***************************************************************************)
EXTENDS Integers, Sequences, FiniteSets

CONSTANTS
    Parts,             \* ids of parts
    WorkOrders,        \* ids of work orders
    Ops,               \* slots for requests in flight at the same time
    Demand,            \* Demand[w]: the items of w's parts.reserve payload
    MaxQuantity,       \* the largest quantity an item of a payload asks for
    Opening,           \* Opening[p]: quantity and price p is created with
    Stocked,           \* the parts that exist when the run starts
    RestockQuantities, \* quantities POST /parts/:id/restock is called with
    Prices,            \* prices PATCH /parts/:id is called with
    MaxCents,          \* Money.MAX_CENTS
    MaxCalls,          \* MaxCalls[r]: how often request r may be delivered
    MaxCrashes,        \* how often the process may die
    MaxFaults          \* how many awaited calls may fail

SagaCommands == [kind: {"reserve", "release", "consume"}, order: WorkOrders]

AdminCalls ==
         [kind: {"restock"}, part: Parts, amount: RestockQuantities]
    \cup [kind: {"update"}, part: Parts, amount: Prices]
    \cup [kind: {"delete"}, part: Parts]

Requests == SagaCommands \cup AdminCalls

NoRequest == [kind |-> "none"]

ASSUME DemandType ==
    /\ MaxQuantity \in Nat
    /\ Demand \in [WorkOrders -> Seq([part: Parts, quantity: Int])]
    /\ \A w \in WorkOrders : \A i \in DOMAIN Demand[w] :
          Demand[w][i].quantity <= MaxQuantity

ASSUME CatalogType ==
    /\ MaxCents \in Nat
    /\ Opening \in [Parts -> [quantity: Nat, price: 0..MaxCents]]
    /\ Stocked \subseteq Parts

\* RestockPartDto has Min(1); UpdatePartDto lets any integer from 0 through.
ASSUME InputType ==
    /\ RestockQuantities \subseteq Nat \ {0}
    /\ Prices \subseteq Nat

ASSUME OpsFinite == IsFiniteSet(Ops)

ASSUME BudgetType ==
    /\ MaxCalls \in [Requests -> Nat]
    /\ MaxCrashes \in Nat
    /\ MaxFaults \in Nat

-----------------------------------------------------------------------------
(* The stored documents. *)

PartStates == {"absent", "live", "deleted"}

\* A parts document, as far as the properties tell documents apart.  "absent"
\* is no document, "deleted" one with deletedAt set.
PartDoc ==
    [state: PartStates, available: Nat, reserved: Nat, price: 0..MaxCents]

Absent == [state |-> "absent", available |-> 0, reserved |-> 0, price |-> 0]

\* "NONE" is no document; the others are ReservationStatus.
ReservationStates == {"NONE", "RESERVED", "RELEASED", "CONSUMED"}

Total(doc) == doc.available + doc.reserved

\* What the acknowledged writes of a part add up to.
Entry == [state: PartStates, total: Int, price: 0..MaxCents]

\* Part.create.
FreshPart(p) ==
    [state |-> "live", available |-> Opening[p].quantity, reserved |-> 0,
     price |-> Opening[p].price]

-----------------------------------------------------------------------------
(* What a payload asks for. *)

Requested(w) == {Demand[w][i].part : i \in DOMAIN Demand[w]}

\* The units of p that w's items ask for together: a payload may list a part
\* more than once.
Asked(w, p) ==
    Cardinality({u \in (1..Len(Demand[w])) \X (1..MaxQuantity) :
                    /\ Demand[w][u[1]].part = p
                    /\ u[2] <= Demand[w][u[1]].quantity})

\* Part.validateQuantity on every item.
ValidItems(w) == \A i \in DOMAIN Demand[w] : Demand[w][i].quantity >= 0

-----------------------------------------------------------------------------
VARIABLES
    parts,         \* the parts collection
    reservations,  \* the reservations collection: the status of each order's
    replies,       \* the parts.reserved / parts.reservation-failed published
    calls,         \* how often each request was delivered
    crashes,
    faults,
    op,            \* the handlers in flight
    \* History, read by properties only:
    ledger,        \* per part, what the writes that were acknowledged add up to
    held,          \* held[w][p]: units written as reserved for w, less those
                   \* written as released or consumed for w
    clobbered,     \* parts some handler wrote from a read that was overtaken
    disturbed      \* orders that two handlers worked for at the same time, or
                   \* that one left half done

store   == <<parts, reservations>>
budget  == <<calls, crashes, faults>>
history == <<ledger, held, clobbered, disturbed>>
vars    == <<store, replies, budget, op, history>>

\* Where a handler is: the call it makes next.
ReservePcs == {"check", "write", "record", "replyReserved", "replyFailed"}
SettlePcs  == {"load", "settle", "close"}
AdminPcs   == {"edit", "save"}
Pcs        == {"idle", "find"} \cup ReservePcs \cup SettlePcs \cup AdminPcs

Handler ==
    [pc: Pcs,
     req: Requests \cup {NoRequest},
     idx: Nat \ {0},               \* the item its loop is at
     copy: [Parts -> PartDoc],     \* the entities it has in memory
     moved: [Parts -> Nat],        \* units its unwritten change moves
     stale: SUBSET Parts]          \* copies that another handler overtook

\* A handler of r at pc that has read nothing, or needs nothing of it any more.
Blank(pc, r) ==
    [pc |-> pc, req |-> r, idx |-> 1,
     copy |-> [p \in Parts |-> Absent], moved |-> [p \in Parts |-> 0],
     stale |-> {}]

Idle == Blank("idle", NoRequest)

Init ==
    /\ parts = [p \in Parts |-> IF p \in Stocked THEN FreshPart(p) ELSE Absent]
    /\ reservations = [w \in WorkOrders |-> "NONE"]
    /\ replies = [w \in WorkOrders |-> [reserved |-> 0, failed |-> 0]]
    /\ calls = [r \in Requests |-> 0]
    /\ crashes = 0
    /\ faults = 0
    /\ op = [o \in Ops |-> Idle]
    /\ ledger = [p \in Parts |->
                    [state |-> parts[p].state, total |-> Total(parts[p]),
                     price |-> parts[p].price]]
    /\ held = [w \in WorkOrders |-> [p \in Parts |-> 0]]
    /\ clobbered = {}
    /\ disturbed = {}

-----------------------------------------------------------------------------
(* Steps of handlers in general. *)

\* Handler o continues as h; nobody else notices.
Continue(o, h) == op' = [op EXCEPT ![o] = h]

\* Handler o goes on at pc, and has no more use for what it read.
Goto(o, pc) == Continue(o, Blank(pc, op[o].req))

\* The request is answered: with a result, or by InventoryExceptionFilter.
End(o) == Continue(o, Idle)

\* What h's unwritten change does to the units of p.
Change(h, p) == CASE h.req.kind = "restock" -> h.moved[p]
                  [] h.req.kind = "consume" -> -h.moved[p]
                  [] OTHER                  -> 0

\* The ledger's entry for p once h has written p.
Booked(e, h, p) ==
    [state |-> IF h.req.kind = "delete" THEN "deleted" ELSE e.state,
     total |-> e.total + Change(h, p),
     price |-> IF h.req.kind = "update" THEN h.req.amount ELSE e.price]

\* Whoever else has p in memory has an outdated copy once p is written.
Overtake(h, p) ==
    IF h.copy[p].state = "absent" THEN h ELSE [h EXCEPT !.stale = @ \cup {p}]

\* Plausible slip: toDocument leaves deletedAt out.
SavePart_NoDeletedAt(o, p, h) ==
    /\ parts' = [parts EXCEPT ![p] = [op[o].copy[p] EXCEPT !.state = parts[p].state]]
    /\ op' = [x \in Ops |-> IF x = o THEN h ELSE Overtake(op[x], p)]
    /\ ledger' = [ledger EXCEPT ![p] = Booked(@, op[o], p)]
    /\ clobbered' = clobbered \cup ({p} \cap op[o].stale)

\* MongoPartRepository.update: o's copy of p replaces the document, whatever
\* the document has become since o read it; o continues as h.
SavePart(o, p, h) ==
    /\ parts' = [parts EXCEPT ![p] = op[o].copy[p]]
    /\ op' = [x \in Ops |-> IF x = o THEN h ELSE Overtake(op[x], p)]
    /\ ledger' = [ledger EXCEPT ![p] = Booked(@, op[o], p)]
    /\ clobbered' = clobbered \cup ({p} \cap op[o].stale)

Working == {"check", "write", "record"} \cup SettlePcs

\* From its read of the reservation on, o works for w: if another handler does
\* so already, w is disturbed.
StartWork(o, w, pc) ==
    /\ Goto(o, pc)
    /\ disturbed' = disturbed \cup
           {v \in {w} : \E x \in Ops : op[x].pc \in Working /\ op[x].req.order = w}

\* A request reaches the process: a message is dispatched, an HTTP request is
\* routed, or a completion calls ConsumePartsUseCase.
FirstPc(r) == IF r \in SagaCommands THEN "find" ELSE "edit"

Call(o, r) ==
    /\ op[o].pc = "idle"
    /\ calls[r] < MaxCalls[r]
    /\ calls' = [calls EXCEPT ![r] = @ + 1]
    /\ Continue(o, Blank(FirstPc(r), r))
    /\ UNCHANGED <<store, replies, crashes, faults, history>>

-----------------------------------------------------------------------------
(* parts.reserve: InventorySagaSubscriber.onReserveParts around              *)
(* ReservePartsUseCase.  The try block answers parts.reserved; whatever      *)
(* throws inside it leads to the catch block, which answers                  *)
(* parts.reservation-failed.                                                 *)

\* Plausible slip: every part listed gives up one unit, however many are asked.
ReserveUnits_One(doc, n) == [doc EXCEPT !.available = @ - 1, !.reserved = @ + 1]

\* Part.reserve, for an amount validated and available.
ReserveUnits(doc, n) == [doc EXCEPT !.available = @ - n, !.reserved = @ + n]

\* Plausible slip: the catch block is left out where the use case refuses.
Refuse_Silent(o) == End(o)

\* The use case throws; the catch block answers.
Refuse(o) == Goto(o, "replyFailed")

\* Plausible slip: a reservation on record is not taken for a redelivery.
AlreadyServed_NoExisting(w) == Demand[w] = <<>>

\* A reservation on record, in whatever status, ends the use case at once, and
\* so does a payload without items.
AlreadyServed(w) == reservations[w] # "NONE" \/ Demand[w] = <<>>

ReserveFind(o) ==
    LET w == op[o].req.order
    IN  /\ op[o].pc = "find"
        /\ op[o].req.kind = "reserve"
        /\ IF AlreadyServed(w)
           THEN Goto(o, "replyReserved") /\ UNCHANGED disturbed
           ELSE StartWork(o, w, "check")
        /\ UNCHANGED <<store, replies, budget, ledger, held, clobbered>>

\* The use case's two loops over what findByIds returned: every item finds its
\* part with enough available, and then the parts can give up what the items
\* ask for one after the other (an item may list a part that an earlier item
\* has drained, or have a quantity that validateQuantity refuses).
CanReserve(w) ==
    /\ \A i \in DOMAIN Demand[w] :
          LET item == Demand[w][i]
          IN  /\ parts[item.part].state = "live"
              /\ parts[item.part].available >= item.quantity
    /\ ValidItems(w)
    /\ \A p \in Requested(w) : parts[p].available >= Asked(w, p)

\* The entities the loops leave in memory.
ReservedCopies(w) ==
    [p \in Parts |-> IF p \in Requested(w) THEN ReserveUnits(parts[p], Asked(w, p))
                                           ELSE Absent]

\* Plausible slip: one loop checks and saves item by item, and stops half way.
ReserveCheck_SavesAsItGoes(o) ==
    LET w       == op[o].req.order
        saved   == {p \in Requested(w) :
                       parts[p].state = "live" /\ parts[p].available >= Asked(w, p)}
    IN  /\ op[o].pc = "check"
        /\ parts' = [p \in Parts |-> IF p \in saved THEN ReservedCopies(w)[p]
                                                     ELSE parts[p]]
        /\ held' = [held EXCEPT ![w] =
                        [p \in Parts |-> @[p] + IF p \in saved THEN Asked(w, p) ELSE 0]]
        /\ IF CanReserve(w)
           THEN Continue(o, [op[o] EXCEPT !.pc = "record"])
           ELSE Goto(o, "replyFailed")
        /\ UNCHANGED <<reservations, replies, budget, ledger, clobbered, disturbed>>

ReserveCheck(o) ==
    LET w == op[o].req.order
    IN  /\ op[o].pc = "check"
        /\ IF CanReserve(w)
           THEN Continue(o, [op[o] EXCEPT
                    !.pc    = "write",
                    !.copy  = ReservedCopies(w),
                    !.moved = [p \in Parts |->
                                 IF p \in Requested(w) THEN Asked(w, p) ELSE 0]])
           ELSE Refuse(o)
        /\ UNCHANGED <<store, replies, budget, history>>

\* The loop that updates the parts, one await per item.  A part listed twice is
\* written twice, both times from the same entity.
ReserveWrite(o) ==
    LET h == op[o]
        w == h.req.order
        p == Demand[w][h.idx].part
    IN  /\ h.pc = "write"
        /\ SavePart(o, p, [h EXCEPT !.moved[p] = 0,
                                    !.pc  = IF h.idx < Len(Demand[w]) THEN "write"
                                                                      ELSE "record",
                                    !.idx = h.idx + 1])
        /\ held' = [held EXCEPT ![w][p] = @ + h.moved[p]]
        /\ UNCHANGED <<reservations, replies, budget, disturbed>>

\* reservations.create: the second insert with one _id is refused (E11000).
ReserveRecord(o) ==
    LET w == op[o].req.order
    IN  /\ op[o].pc = "record"
        /\ IF reservations[w] = "NONE"
           THEN /\ reservations' = [reservations EXCEPT ![w] = "RESERVED"]
                /\ Goto(o, "replyReserved")
           ELSE /\ UNCHANGED reservations
                /\ Refuse(o)
        /\ UNCHANGED <<parts, replies, budget, history>>

\* Plausible slip: the failure is published in a finally block.
PublishReserved_Finally(o) ==
    /\ op[o].pc = "replyReserved"
    /\ replies' = [replies EXCEPT ![op[o].req.order].reserved = @ + 1]
    /\ Goto(o, "replyFailed")
    /\ UNCHANGED <<store, budget, history>>

PublishReserved(o) ==
    /\ op[o].pc = "replyReserved"
    /\ replies' = [replies EXCEPT ![op[o].req.order].reserved = @ + 1]
    /\ End(o)
    /\ UNCHANGED <<store, budget, history>>

PublishFailed(o) ==
    /\ op[o].pc = "replyFailed"
    /\ replies' = [replies EXCEPT ![op[o].req.order].failed = @ + 1]
    /\ End(o)
    /\ UNCHANGED <<store, budget, history>>

-----------------------------------------------------------------------------
(* parts.release (InventorySagaSubscriber.onReleaseParts) and the            *)
(* consumption that CompleteExecutionUseCase asks for: the same loop over    *)
(* the items of an active reservation, with another effect on each part.     *)

\* Plausible slip: the units leave reserved and do not come back.
ReleaseUnits_Lost(doc, n) == [doc EXCEPT !.reserved = @ - n]

\* Part.release and Part.consume: n is capped before.
ReleaseUnits(doc, n) == [doc EXCEPT !.reserved = @ - n, !.available = @ + n]
ConsumeUnits(doc, n) == [doc EXCEPT !.reserved = @ - n]

\* Plausible slip: no Math.min.
Capped_NoMin(doc, n) == n

\* The cap both take: no more than the part holds in reserve, for whomever.
Capped(doc, n) == IF n < doc.reserved THEN n ELSE doc.reserved

\* Plausible slip: any reservation on record is settled.
IsActive_Exists(w) == reservations[w] # "NONE"

\* Reservation.isActive.
IsActive(w) == reservations[w] = "RESERVED"

SettleFind(o) ==
    LET w == op[o].req.order
    IN  /\ op[o].pc = "find"
        /\ op[o].req.kind \in {"release", "consume"}
        /\ IF IsActive(w)
           THEN StartWork(o, w, "load")
           ELSE End(o) /\ UNCHANGED disturbed
        /\ UNCHANGED <<store, replies, budget, ledger, held, clobbered>>

\* The handler is done with the part of its current item.
NextItem(h) ==
    [h EXCEPT !.copy = Idle.copy, !.moved = Idle.moved, !.stale = {},
              !.idx = h.idx + 1,
              !.pc  = IF h.idx < Len(Demand[h.req.order]) THEN "load" ELSE "close"]

\* findById, which does not see a deleted part, and the change in memory.
SettleLoad(o) ==
    LET h    == op[o]
        item == Demand[h.req.order][h.idx]
        doc  == parts[item.part]
        n    == Capped(doc, item.quantity)
        new  == IF h.req.kind = "release" THEN ReleaseUnits(doc, n)
                                          ELSE ConsumeUnits(doc, n)
    IN  /\ h.pc = "load"
        /\ IF doc.state = "live"
           THEN Continue(o, [h EXCEPT !.pc = "settle",
                                      !.copy[item.part] = new,
                                      !.moved[item.part] = n])
           ELSE Continue(o, NextItem(h))
        /\ UNCHANGED <<store, replies, budget, history>>

SettleWrite(o) ==
    LET h == op[o]
        w == h.req.order
        p == Demand[w][h.idx].part
    IN  /\ h.pc = "settle"
        /\ SavePart(o, p, NextItem(h))
        /\ held' = [held EXCEPT ![w][p] = @ - h.moved[p]]
        /\ UNCHANGED <<reservations, replies, budget, disturbed>>

\* Plausible slip: both use cases call Reservation.consume.
ClosedAs_Always(kind) == "CONSUMED"

\* Reservation.release / consume, on the entity read in SettleFind, and its
\* update.
ClosedAs(kind) == IF kind = "release" THEN "RELEASED" ELSE "CONSUMED"

\* Plausible slip: the reservation is closed in memory only.
SettleClose_NotSaved(o) ==
    /\ op[o].pc = "close"
    /\ End(o)
    /\ UNCHANGED <<store, replies, budget, history>>

\* MongoReservationRepository.update: the status of the entity replaces the
\* status on record, whatever that has become.
SaveReservation(w, status) == reservations' = [reservations EXCEPT ![w] = status]

SettleClose(o) ==
    /\ op[o].pc = "close"
    /\ SaveReservation(op[o].req.order, ClosedAs(op[o].req.kind))
    /\ End(o)
    /\ UNCHANGED <<parts, replies, budget, history>>

-----------------------------------------------------------------------------
(* The administrator's HTTP calls. *)

\* POST /parts: one insert under a new random id.
CreatePart(p) ==
    /\ parts[p].state = "absent"
    /\ parts' = [parts EXCEPT ![p] = FreshPart(p)]
    /\ ledger' = [ledger EXCEPT ![p] =
                     [state |-> "live", total |-> Opening[p].quantity,
                      price |-> Opening[p].price]]
    /\ UNCHANGED <<reservations, replies, budget, op, held, clobbered, disturbed>>

\* Part.delete.
Deleted(doc) == [doc EXCEPT !.state = "deleted"]

\* Part.restock, Part.update (of the price: names are not modelled) and
\* Part.delete.
Edited(doc, r) ==
    CASE r.kind = "restock" -> [doc EXCEPT !.available = @ + r.amount]
      [] r.kind = "update"  -> [doc EXCEPT !.price = r.amount]
      [] r.kind = "delete"  -> Deleted(doc)

\* Plausible slip: the price is not validated on update.
ValidEdit_Any(r) == TRUE

\* Money.fromCents throws on a price above the maximum.
ValidEdit(r) == r.kind = "update" => r.amount <= MaxCents

\* findById, PartNotFoundError, and the change in memory.
AdminEdit(o) ==
    LET h == op[o]
        p == h.req.part
    IN  /\ h.pc = "edit"
        /\ IF parts[p].state = "live" /\ ValidEdit(h.req)
           THEN Continue(o, [h EXCEPT
                    !.pc = "save",
                    !.copy[p] = Edited(parts[p], h.req),
                    !.moved[p] = IF h.req.kind = "restock" THEN h.req.amount ELSE 0])
           ELSE End(o)
        /\ UNCHANGED <<store, replies, budget, history>>

\* The use cases that begin so.
UpdatePart(o)  == op[o].req.kind = "update" /\ AdminEdit(o)
RestockPart(o) == op[o].req.kind = "restock" /\ AdminEdit(o)
DeletePart(o)  == op[o].req.kind = "delete" /\ AdminEdit(o)

\* The 200 / 201 / 204 answer follows the write.
AdminSave(o) ==
    /\ op[o].pc = "save"
    /\ SavePart(o, op[o].req.part, Idle)
    /\ UNCHANGED <<reservations, replies, budget, held, disturbed>>

-----------------------------------------------------------------------------
(* Failures. *)

\* Some of h's writes are made and some are not.
HalfDone(h) ==
    \/ h.pc \in {"write", "load", "settle"} /\ h.idx > 1
    \/ h.pc \in {"record", "close"}

\* The process dies: memory is gone, the collections stay.  The broker
\* redelivers what was not acknowledged and clients retry; both are further
\* calls, within MaxCalls.
Crash ==
    /\ crashes < MaxCrashes
    /\ crashes' = crashes + 1
    /\ op' = [o \in Ops |-> Idle]
    /\ disturbed' = disturbed \cup
           {w \in WorkOrders : \E o \in Ops : HalfDone(op[o]) /\ op[o].req.order = w}
    /\ UNCHANGED <<store, replies, calls, faults, ledger, held, clobbered>>

\* Plausible slip: the catch block logs and answers like the try block.
AfterThrow_Swallowed(h) ==
    IF h.req.kind = "reserve" /\ h.pc # "replyFailed"
    THEN Blank("replyReserved", h.req)
    ELSE Idle

\* Where an exception takes h: in parts.reserve the catch block takes over; the
\* catch block itself and every other handler end.
AfterThrow(h) ==
    IF h.req.kind = "reserve" /\ h.pc # "replyFailed"
    THEN Blank("replyFailed", h.req)
    ELSE Idle

\* The call o awaits is refused and throws; the bus acknowledges the message
\* all the same.  A write that was applied although its answer was lost is the
\* step itself, and the next step's fault.
Fault(o) ==
    LET h == op[o]
    IN  /\ h.pc # "idle"
        /\ faults < MaxFaults
        /\ faults' = faults + 1
        /\ Continue(o, AfterThrow(h))
        /\ disturbed' = disturbed \cup (IF HalfDone(h) THEN {h.req.order} ELSE {})
        /\ UNCHANGED <<store, replies, calls, crashes, ledger, held, clobbered>>

-----------------------------------------------------------------------------
\* The next step of the handler in slot o.
Step(o) ==
    \/ ReserveFind(o) \/ ReserveCheck(o) \/ ReserveWrite(o) \/ ReserveRecord(o)
    \/ PublishReserved(o) \/ PublishFailed(o)
    \/ SettleFind(o) \/ SettleLoad(o) \/ SettleWrite(o) \/ SettleClose(o)
    \/ UpdatePart(o) \/ RestockPart(o) \/ DeletePart(o) \/ AdminSave(o)

Next ==
    \/ \E o \in Ops, r \in Requests : Call(o, r)
    \/ \E o \in Ops : Step(o)
    \/ \E p \in Parts : CreatePart(p)
    \/ Crash
    \/ \E o \in Ops : Fault(o)

Spec == Init /\ [][Next]_vars

\* Every awaited call returns or throws, and the event loop resumes every
\* handler whose call has returned: no handler is starved by the others.
FairSpec == Spec /\ \A o \in Ops : WF_vars(Step(o))

-----------------------------------------------------------------------------
(* Properties. *)

\* Every document, handler and counter has the shape the code gives it: no
\* quantity is ever stored below zero, whatever the interleaving, and no price
\* outside Money's range.
TypeOK ==
    /\ parts \in [Parts -> PartDoc]
    /\ reservations \in [WorkOrders -> ReservationStates]
    /\ replies \in [WorkOrders -> [reserved: Nat, failed: Nat]]
    /\ calls \in [Requests -> Nat]
    /\ crashes \in Nat
    /\ faults \in Nat
    /\ op \in [Ops -> Handler]
    /\ ledger \in [Parts -> Entry]
    /\ held \in [WorkOrders -> [Parts -> Int]]
    /\ clobbered \in SUBSET Parts
    /\ disturbed \in SUBSET WorkOrders

\* The stock of a part, available and reserved together, is what it was created
\* with plus the restocks less the consumptions that were written: reserving and
\* releasing move units and lose none, also when a crash, a fault or a second
\* delivery cuts a handler short.  Parts written from an overtaken read are
\* excepted: there the units that somebody else added or took are lost.
StockConserved ==
    \A p \in Parts \ clobbered : Total(parts[p]) = ledger[p].total

\* No price change and no deletion that was acknowledged is undone by another
\* handler that writes the whole document back, unless its read was overtaken.
EditsSurvive ==
    \A p \in Parts \ clobbered :
        /\ parts[p].price = ledger[p].price
        /\ parts[p].state = ledger[p].state

SagaKinds == {"reserve", "release", "consume"}

InFlight(w) == \E o \in Ops : op[o].req.kind \in SagaKinds /\ op[o].req.order = w

\* When nobody works on an order, its reservation tells what it holds: every
\* unit it asks for while RESERVED, nothing before and nothing after, for every
\* part that was not deleted under it.  (An order disturbed by a race or a crash
\* takes units of the others with it, so there must be none.)
HeldMatchesReservation ==
    disturbed = {} =>
        \A w \in WorkOrders, p \in Parts \ clobbered :
            ~InFlight(w) /\ parts[p].state # "deleted" =>
                held[w][p] = IF reservations[w] = "RESERVED" THEN Asked(w, p) ELSE 0

\* An order that was told parts.reserved has a reservation on record, unless it
\* asked for nothing: no fault, crash or lost insert race yields the good news
\* alone.
ReservedReplyBacked ==
    \A w \in WorkOrders :
        replies[w].reserved > 0 /\ Demand[w] # <<>> => reservations[w] # "NONE"

ReserveCommand(w) == [kind |-> "reserve", order |-> w]

\* When every parts.reserve of an order was answered parts.reservation-failed,
\* the order holds no unit and has no reservation: a refused reservation changes
\* nothing.  (A fault may refuse it half way, and a reply that cannot be
\* published is replaced by a refusal.)
RefusalLeavesNothing ==
    faults = 0 =>
        \A w \in WorkOrders \ disturbed :
            0 < replies[w].failed /\ replies[w].failed = calls[ReserveCommand(w)] =>
                /\ reservations[w] = "NONE"
                /\ \A p \in Parts : held[w][p] = 0

\* Every delivered parts.reserve is answered once at most, and exactly once when
\* nothing fails: the catch block does not answer what the try block answered.
OneReplyPerCommand ==
    \A w \in WorkOrders :
        LET pending == Cardinality({o \in Ops : op[o].req = ReserveCommand(w)})
            settled == replies[w].reserved + replies[w].failed + pending
        IN  /\ settled <= calls[ReserveCommand(w)]
            /\ crashes = 0 /\ faults = 0 => settled = calls[ReserveCommand(w)]

Closed == {"RELEASED", "CONSUMED"}

\* A released or consumed reservation never comes back to life, and keeps its
\* status for good unless two handlers settled it at the same time.
ClosedStaysClosed ==
    [][\A w \in WorkOrders : reservations[w] \in Closed =>
          /\ reservations'[w] \in Closed
          /\ w \in disturbed' \/ reservations'[w] = reservations[w]]_vars

\* Every parts.reserve is answered in the end, if the process stays up and the
\* database and the broker serve it.
EveryReserveAnswered ==
    \A w \in WorkOrders :
        calls[ReserveCommand(w)] > 0 ~>
            \/ replies[w].reserved + replies[w].failed = calls[ReserveCommand(w)]
            \/ crashes + faults > 0

Settling(w) == \E o \in Ops : op[o].pc \in SettlePcs /\ op[o].req.order = w

\* A release or a consumption that found the reservation active closes it in the
\* end, also when parts it names were deleted, or settled by someone else.
FoundReservationSettled ==
    \A w \in WorkOrders :
        Settling(w) ~> reservations[w] \in Closed \/ crashes + faults > 0

-----------------------------------------------------------------------------
(* The inductive invariant. *)

\* A copy that nobody overtook is the document but for the handler's own change.
CopyCurrent(h, p) ==
    h.copy[p].state # "absent" =>
        /\ parts[p].state # "absent"
        /\ p \notin h.stale =>
             /\ Total(h.copy[p]) = Total(parts[p]) + Change(h, p)
             /\ h.copy[p].price = IF h.req.kind = "update" THEN h.req.amount
                                                           ELSE parts[p].price
             /\ h.copy[p].state = IF h.req.kind = "delete" THEN "deleted"
                                                           ELSE parts[p].state

\* What a handler's place in the code says about its request and its memory.
HandlerOK(h) ==
    LET w == h.req.order
    IN  /\ h.pc \in ReservePcs => h.req \in SagaCommands /\ h.req.kind = "reserve"
        /\ h.pc \in SettlePcs => /\ h.req \in SagaCommands
                                 /\ h.req.kind \in {"release", "consume"}
                                 /\ reservations[w] # "NONE"
        /\ h.pc = "find" => h.req \in SagaCommands
        /\ h.pc \in AdminPcs => h.req \in AdminCalls
        /\ h.pc \in {"idle", "find", "check", "load", "edit"} =>
              \A p \in Parts : h.copy[p].state = "absent" /\ h.moved[p] = 0
        /\ h.pc = "check" => Demand[w] # <<>> /\ h.idx = 1
        /\ h.pc \in {"write", "load", "settle"} => h.idx \in DOMAIN Demand[w]
        /\ h.pc = "write" => \A p \in Requested(w) : h.copy[p].state # "absent"
        /\ h.pc = "settle" => h.copy[Demand[w][h.idx].part].state # "absent"
        /\ h.pc = "save" => h.copy[h.req.part].state # "absent" /\ ValidEdit(h.req)
        /\ h.pc \in {"write", "record"} => Demand[w] # <<>> /\ ValidItems(w)
        /\ h.pc = "replyReserved" => reservations[w] # "NONE" \/ Demand[w] = <<>>

\* Reservation.create and Part.reserve let no other reservation through.
RecordsValid ==
    \A w \in WorkOrders :
        reservations[w] # "NONE" => Demand[w] # <<>> /\ ValidItems(w)

\* The inductive invariant: what the handlers have in memory agrees with the
\* collections, apart from the copies other handlers overtook.
IInv ==
    /\ TypeOK
    /\ StockConserved
    /\ EditsSurvive
    /\ ReservedReplyBacked
    /\ \A o \in Ops : HandlerOK(op[o])
    /\ \A o \in Ops : \A p \in Parts : CopyCurrent(op[o], p)
    /\ RecordsValid

-----------------------------------------------------------------------------
(* What the documentation and the tests say, and the runs refute. *)

\* README.md:81 "It is idempotent, because saga messages can be redelivered":
\* an order gives back no more than it took.
ReleaseGivesBackItsOwn ==
    \A w \in WorkOrders, p \in Parts : held[w][p] >= 0
=============================================================================
