--------------------------- MODULE InventoryProofs ---------------------------
(***************************************************************************)
(* The inductive invariant of Inventory, and what follows from it, for any *)
(* parts, work orders, payloads, budgets and number of handlers in flight. *)
(***************************************************************************)
EXTENDS Inventory, FiniteSetTheorems, TLAPS

-----------------------------------------------------------------------------
(* Constants and stored documents. *)

\* What an order asks of a part is a quantity.
LEMMA AskedType ==
    ASSUME NEW w \in WorkOrders, NEW p \in Parts
    PROVE  Asked(w, p) \in Nat
<1> DEFINE Slots == (1..Len(Demand[w])) \X (1..MaxQuantity)
           Units == {u \in Slots : /\ Demand[w][u[1]].part = p
                                   /\ u[2] <= Demand[w][u[1]].quantity}
<1>1. Len(Demand[w]) \in Nat /\ MaxQuantity \in Nat
  BY DemandType
<1>2. IsFiniteSet(1..Len(Demand[w])) /\ IsFiniteSet(1..MaxQuantity)
  BY <1>1, FS_Interval
<1>3. IsFiniteSet(Slots)
  BY <1>2, FS_Product
<1>4. IsFiniteSet(Units)
  BY <1>3, FS_Subset
<1> QED
  BY <1>4, FS_CardinalityType DEF Asked

LEMMA SeqElement ==
    ASSUME NEW T, NEW s \in Seq(T), NEW i \in DOMAIN s
    PROVE  s[i] \in T
OBVIOUS

LEMMA DemandItem ==
    ASSUME NEW w \in WorkOrders, NEW i \in DOMAIN Demand[w]
    PROVE  /\ Demand[w][i].part \in Parts
           /\ Demand[w][i].part \in Requested(w)
           /\ Demand[w][i].quantity \in Int
<1>1. Demand[w] \in Seq([part: Parts, quantity: Int])
  BY DemandType
<1>2. Demand[w][i] \in [part: Parts, quantity: Int]
  BY <1>1, SeqElement
<1> QED
  BY <1>2 DEF Requested

LEMMA RequestedParts ==
    ASSUME NEW w \in WorkOrders
    PROVE  Requested(w) \subseteq Parts
BY DemandItem DEF Requested

LEMMA Items ==
    ASSUME NEW w \in WorkOrders
    PROVE  /\ Len(Demand[w]) \in Nat
           /\ DOMAIN Demand[w] = 1..Len(Demand[w])
           /\ Demand[w] # <<>> => 1 \in DOMAIN Demand[w]
<1>1. Demand[w] \in Seq([part: Parts, quantity: Int])
  BY DemandType
<1> QED
  BY <1>1

LEMMA BlankFields ==
    ASSUME NEW pc, NEW r
    PROVE  /\ Blank(pc, r).pc = pc
           /\ Blank(pc, r).req = r
           /\ Blank(pc, r).idx = 1
           /\ \A p \in Parts : /\ Blank(pc, r).copy[p].state = "absent"
                               /\ Blank(pc, r).moved[p] = 0
           /\ pc \in Pcs /\ r \in Requests \cup {NoRequest} => Blank(pc, r) \in Handler
<1>1. Absent \in PartDoc /\ Absent.state = "absent"
  BY CatalogType DEF Absent, PartDoc, PartStates
<1> QED
  BY <1>1 DEF Blank, Handler

LEMMA IdleFields ==
    /\ Idle \in Handler
    /\ Idle.pc = "idle"
    /\ \A p \in Parts : Idle.copy[p].state = "absent" /\ Idle.moved[p] = 0
BY BlankFields DEF Idle, Pcs

LEMMA FreshPartType ==
    ASSUME NEW p \in Parts
    PROVE  /\ FreshPart(p) \in PartDoc
           /\ FreshPart(p).state = "live"
           /\ Total(FreshPart(p)) = Opening[p].quantity
           /\ FreshPart(p).price = Opening[p].price
BY CatalogType DEF FreshPart, PartDoc, PartStates, Total

\* What the methods of Part do to a document.
LEMMA ReserveUnitsMoves ==
    ASSUME NEW doc \in PartDoc, NEW n \in Nat, n <= doc.available
    PROVE  /\ ReserveUnits(doc, n) \in PartDoc
           /\ ReserveUnits(doc, n).state = doc.state
           /\ ReserveUnits(doc, n).price = doc.price
           /\ Total(ReserveUnits(doc, n)) = Total(doc)
<1> DEFINE new == ReserveUnits(doc, n)
<1>1. doc.available \in Nat /\ doc.reserved \in Nat /\ doc \in PartDoc
  BY DEF PartDoc
<1>2. /\ new.available = doc.available - n /\ new.reserved = doc.reserved + n
      /\ new.state = doc.state /\ new.price = doc.price
  BY <1>1 DEF ReserveUnits, PartDoc
<1>3. new \in PartDoc
  <2> DEFINE mid == [doc EXCEPT !.available = @ - n]
  <2>1. mid \in PartDoc
    BY <1>1 DEF PartDoc
  <2>2. new = [mid EXCEPT !.reserved = @ + n]
    BY <1>1 DEF ReserveUnits, PartDoc
  <2> HIDE DEF mid, new
  <2>3. [mid EXCEPT !.reserved = @ + n] \in PartDoc
    BY <2>1 DEF PartDoc
  <2> QED
    BY <2>2, <2>3
<1>4. Total(new) = Total(doc)
  <2> HIDE DEF new
  <2> QED
    BY <1>1, <1>2 DEF Total
<1> QED
  BY <1>2, <1>3, <1>4

LEMMA CappedBounds ==
    ASSUME NEW doc \in PartDoc, NEW n \in Nat
    PROVE  Capped(doc, n) \in Nat /\ Capped(doc, n) <= doc.reserved
BY DEF Capped, PartDoc

LEMMA ReleaseUnitsMoves ==
    ASSUME NEW doc \in PartDoc, NEW n \in Nat, n <= doc.reserved
    PROVE  /\ ReleaseUnits(doc, n) \in PartDoc
           /\ ReleaseUnits(doc, n).state = doc.state
           /\ ReleaseUnits(doc, n).price = doc.price
           /\ Total(ReleaseUnits(doc, n)) = Total(doc)
<1> DEFINE new == ReleaseUnits(doc, n)
<1>1. doc.available \in Nat /\ doc.reserved \in Nat /\ doc \in PartDoc
  BY DEF PartDoc
<1>2. /\ new.available = doc.available + n /\ new.reserved = doc.reserved - n
      /\ new.state = doc.state /\ new.price = doc.price
  BY <1>1 DEF ReleaseUnits, PartDoc
<1>3. new \in PartDoc
  <2> DEFINE mid == [doc EXCEPT !.reserved = @ - n]
  <2>1. mid \in PartDoc
    BY <1>1 DEF PartDoc
  <2>2. new = [mid EXCEPT !.available = @ + n]
    BY <1>1 DEF ReleaseUnits, PartDoc
  <2> HIDE DEF mid, new
  <2>3. [mid EXCEPT !.available = @ + n] \in PartDoc
    BY <2>1 DEF PartDoc
  <2> QED
    BY <2>2, <2>3
<1>4. Total(new) = Total(doc)
  <2> HIDE DEF new
  <2> QED
    BY <1>1, <1>2 DEF Total
<1> QED
  BY <1>2, <1>3, <1>4

LEMMA ConsumeUnitsTakes ==
    ASSUME NEW doc \in PartDoc, NEW n \in Nat, n <= doc.reserved
    PROVE  /\ ConsumeUnits(doc, n) \in PartDoc
           /\ ConsumeUnits(doc, n).state = doc.state
           /\ ConsumeUnits(doc, n).price = doc.price
           /\ Total(ConsumeUnits(doc, n)) = Total(doc) - n
BY DEF ConsumeUnits, PartDoc, Total

-----------------------------------------------------------------------------
(* The initial states. *)

LEMMA InitIInv == Init => IInv
<1> SUFFICES ASSUME Init PROVE IInv
  OBVIOUS
<1>1. \A p \in Parts : parts[p] \in PartDoc
  BY CatalogType, FreshPartType DEF Init, Absent, PartDoc, PartStates
<1>2. TypeOK
  <2>1. ledger \in [Parts -> Entry]
      BY <1>1 DEF Init, PartDoc, Total, Entry
  <2>2. op \in [Ops -> Handler]
    BY IdleFields DEF Init
  <2> QED
    BY <1>1, <2>1, <2>2 DEF Init, TypeOK, ReservationStates
<1>3. StockConserved /\ EditsSurvive
  BY DEF Init, StockConserved, EditsSurvive
<1>4. ReservedReplyBacked /\ RecordsValid
  BY DEF Init, ReservedReplyBacked, RecordsValid
<1>5. \A o \in Ops : HandlerOK(op[o])
  BY IdleFields DEF Init, HandlerOK, ReservePcs, SettlePcs, AdminPcs
<1>6. \A o \in Ops : \A p \in Parts : CopyCurrent(op[o], p)
  BY IdleFields DEF Init, CopyCurrent
<1> QED
  BY <1>2, <1>3, <1>4, <1>5, <1>6 DEF IInv

-----------------------------------------------------------------------------
(* Steps that leave the collections alone. *)

\* A handler that did not move finds its place again, whatever became of the
\* reservations but the one it relies on.
LEMMA UntouchedHandler ==
    ASSUME NEW x \in Ops, HandlerOK(op[x]), op'[x] = op[x],
           op[x].pc \in SettlePcs => reservations'[op[x].req.order] # "NONE",
           op[x].pc = "replyReserved" =>
               reservations'[op[x].req.order] # "NONE" \/ Demand[op[x].req.order] = <<>>
    PROVE  HandlerOK(op[x])'
BY ZenonT(30) DEF HandlerOK

LEMMA SameHandler ==
    ASSUME NEW x \in Ops, HandlerOK(op[x]), reservations' = reservations,
           op'[x].pc = op[x].pc, op'[x].req = op[x].req, op'[x].idx = op[x].idx,
           op'[x].copy = op[x].copy, op'[x].moved = op[x].moved
    PROVE  HandlerOK(op[x])'
BY ZenonT(30) DEF HandlerOK

\* A handler that has come to its end.
LEMMA HandlerEnded ==
    ASSUME NEW x \in Ops, op'[x].pc = "idle",
           \A p \in Parts : op'[x].copy[p].state = "absent" /\ op'[x].moved[p] = 0
    PROVE  HandlerOK(op[x])'
BY ZenonT(30) DEF HandlerOK, ReservePcs, SettlePcs, AdminPcs

\* A step of one handler that writes no document keeps the invariant if the
\* handler fits its new place.
LEMMA LocalStep ==
    ASSUME IInv, NEW o \in Ops, TypeOK', UNCHANGED <<store, ledger, clobbered>>,
           \A x \in Ops \ {o} : op'[x] = op[x],
           ReservedReplyBacked', HandlerOK(op[o])',
           \A p \in Parts : CopyCurrent(op[o], p)'
    PROVE  IInv'
<1>1. StockConserved' /\ EditsSurvive'
  BY DEF IInv, StockConserved, EditsSurvive, store
<1>2. RecordsValid'
  BY DEF IInv, RecordsValid, store
<1>3. \A x \in Ops : HandlerOK(op[x])'
  <2> SUFFICES ASSUME NEW x \in Ops \ {o} PROVE HandlerOK(op[x])'
    OBVIOUS
  <2>1. op'[x] = op[x] /\ HandlerOK(op[x])
    BY DEF IInv
  <2> QED
    BY <2>1, SameHandler DEF store
<1>4. \A x \in Ops : \A p \in Parts : CopyCurrent(op[x], p)'
  BY DEF IInv, CopyCurrent, Change, store
<1> QED
  BY <1>1, <1>2, <1>3, <1>4 DEF IInv

\* The counters and the history that no proof looks into.
CountersOK ==
    /\ replies \in [WorkOrders -> [reserved: Nat, failed: Nat]]
    /\ calls \in [Requests -> Nat]
    /\ crashes \in Nat
    /\ faults \in Nat
    /\ held \in [WorkOrders -> [Parts -> Int]]
    /\ disturbed \in SUBSET WorkOrders

\* A handler that forgets what it read, or has read nothing yet.
LEMMA BlankStep ==
    ASSUME IInv, NEW o \in Ops, UNCHANGED <<store, ledger, clobbered>>, CountersOK',
           ReservedReplyBacked',
           NEW pc \in Pcs, NEW r \in Requests \cup {NoRequest},
           op' = [op EXCEPT ![o] = Blank(pc, r)],
           HandlerOK(op[o])'
    PROVE  IInv'
<1>1. op'[o] = Blank(pc, r) /\ \A x \in Ops \ {o} : op'[x] = op[x]
  BY DEF IInv, TypeOK
<1>2. op' \in [Ops -> Handler]
  BY BlankFields DEF IInv, TypeOK
<1>3. TypeOK'
  BY <1>2 DEF IInv, TypeOK, CountersOK, store
<1>4. \A p \in Parts : CopyCurrent(op[o], p)'
  BY <1>1, BlankFields DEF CopyCurrent
<1> QED
  BY <1>1, <1>3, <1>4, LocalStep

LEMMA CallStep ==
    ASSUME IInv, NEW o \in Ops, NEW r \in Requests, Call(o, r)
    PROVE  IInv'
<1> DEFINE pc == FirstPc(r)
<1>1. pc \in Pcs
  BY DEF FirstPc, Pcs, AdminPcs
<1>2. op' = [op EXCEPT ![o] = Blank(pc, r)]
  BY DEF Call, Continue
<1>3. op'[o] = Blank(pc, r)
  BY <1>2 DEF IInv, TypeOK
<1>4. HandlerOK(op[o])'
  <2>1. op'[o].pc = pc /\ op'[o].req = r
    BY <1>3, BlankFields
  <2>2. \A p \in Parts : op'[o].copy[p].state = "absent" /\ op'[o].moved[p] = 0
    BY <1>3, BlankFields
  <2>3. r \notin SagaCommands => r \in AdminCalls
    BY DEF Requests
  <2> QED
    BY <2>1, <2>2, <2>3 DEF HandlerOK, FirstPc, ReservePcs, SettlePcs, AdminPcs
<1>5. CountersOK'
  BY DEF IInv, TypeOK, CountersOK, Call, history
<1>6. ReservedReplyBacked'
  BY DEF IInv, ReservedReplyBacked, Call, store
<1> HIDE DEF pc
<1> QED
  BY <1>1, <1>2, <1>4, <1>5, <1>6, BlankStep DEF Call, history

\* A handler that ends, or is back at the start of its catch block.
LEMMA GotoStep ==
    ASSUME IInv, NEW o \in Ops, UNCHANGED <<store, ledger, clobbered>>, CountersOK',
           ReservedReplyBacked',
           \/ op' = [op EXCEPT ![o] = Idle]
           \/ /\ op' = [op EXCEPT ![o] = Blank("replyFailed", op[o].req)]
              /\ op[o].req \in SagaCommands
              /\ op[o].req.kind = "reserve"
    PROVE  IInv'
<1>1. op[o].req \in Requests \cup {NoRequest}
  BY DEF IInv, TypeOK, Handler
<1>2. CASE op' = [op EXCEPT ![o] = Blank("idle", NoRequest)]
  <2>1. op'[o] = Blank("idle", NoRequest)
    BY <1>2 DEF IInv, TypeOK
  <2>2. HandlerOK(op[o])'
    BY <2>1, BlankFields, HandlerEnded
  <2> QED
    BY <1>2, <2>2, BlankStep DEF Pcs
<1>3. CASE /\ op' = [op EXCEPT ![o] = Blank("replyFailed", op[o].req)]
           /\ op[o].req \in SagaCommands
           /\ op[o].req.kind = "reserve"
  <2>1. op'[o] = Blank("replyFailed", op[o].req)
    BY <1>3 DEF IInv, TypeOK
  <2>2. op'[o].pc = "replyFailed" /\ op'[o].req = op[o].req
    BY <2>1, BlankFields
  <2>3. HandlerOK(op[o])'
    BY <1>3, <2>2 DEF HandlerOK, ReservePcs, SettlePcs, AdminPcs
  <2>4. "replyFailed" \in Pcs
    BY DEF Pcs, ReservePcs
  <2> QED
    BY <1>1, <1>3, <2>3, <2>4, BlankStep
<1> QED
  BY <1>2, <1>3 DEF Idle

LEMMA ReserveFindStep ==
    ASSUME IInv, NEW o \in Ops, ReserveFind(o)
    PROVE  IInv'
<1> DEFINE r == op[o].req
           w == r.order
<1>1. HandlerOK(op[o]) /\ op[o].pc = "find" /\ r.kind = "reserve"
  BY DEF IInv, ReserveFind
<1>2. r \in SagaCommands /\ w \in WorkOrders /\ r \in Requests \cup {NoRequest}
  BY <1>1 DEF HandlerOK, SagaCommands, Requests
<1>3. PICK pc \in {"replyReserved", "check"} :
          /\ op' = [op EXCEPT ![o] = Blank(pc, r)]
          /\ pc = "check" => Demand[w] # <<>>
          /\ pc = "replyReserved" => reservations[w] # "NONE" \/ Demand[w] = <<>>
  BY DEF ReserveFind, AlreadyServed, Goto, StartWork, Continue
<1>4. op'[o] = Blank(pc, r)
  BY <1>3 DEF IInv, TypeOK
<1>5. HandlerOK(op[o])'
  <2>1. op'[o].pc = pc /\ op'[o].req = r /\ op'[o].idx = 1
    BY <1>4, BlankFields
  <2>2. \A p \in Parts : op'[o].copy[p].state = "absent" /\ op'[o].moved[p] = 0
    BY <1>4, BlankFields
  <2>3. reservations' = reservations
    BY DEF ReserveFind, store
  <2> QED
    BY <1>1, <1>2, <1>3, <2>1, <2>2, <2>3
       DEF HandlerOK, ReservePcs, SettlePcs, AdminPcs
<1>6. CountersOK'
  BY <1>2 DEF IInv, TypeOK, CountersOK, ReserveFind, StartWork, budget
<1>7. ReservedReplyBacked'
  BY DEF IInv, ReservedReplyBacked, ReserveFind, store
<1>8. pc \in Pcs
  BY DEF Pcs, ReservePcs
<1>9. UNCHANGED <<store, ledger, clobbered>>
  BY DEF ReserveFind
<1> HIDE DEF r, w
<1> QED
  BY <1>2, <1>3, <1>5, <1>6, <1>7, <1>8, <1>9, BlankStep

LEMMA SettleFindStep ==
    ASSUME IInv, NEW o \in Ops, SettleFind(o)
    PROVE  IInv'
<1> DEFINE r == op[o].req
           w == r.order
<1>1. HandlerOK(op[o]) /\ op[o].pc = "find" /\ r.kind \in {"release", "consume"}
  BY DEF IInv, SettleFind
<1>2. r \in SagaCommands /\ w \in WorkOrders /\ r \in Requests \cup {NoRequest}
  BY <1>1 DEF HandlerOK, SagaCommands, Requests
<1>3. CountersOK'
  BY <1>2 DEF IInv, TypeOK, CountersOK, SettleFind, StartWork, budget
<1>4. ReservedReplyBacked'
  BY DEF IInv, ReservedReplyBacked, SettleFind, store
<1>5. UNCHANGED <<store, ledger, clobbered>>
  BY DEF SettleFind
<1>6. CASE IsActive(w)
  <2>1. op' = [op EXCEPT ![o] = Blank("load", r)]
    BY <1>6 DEF SettleFind, StartWork, Goto, Continue
  <2>2. op'[o] = Blank("load", r)
    BY <2>1 DEF IInv, TypeOK
  <2>3. /\ op'[o].pc = "load" /\ op'[o].req = r /\ op'[o].idx = 1
        /\ \A p \in Parts : op'[o].copy[p].state = "absent" /\ op'[o].moved[p] = 0
    BY <2>2, BlankFields
  <2>4. reservations'[w] # "NONE" /\ 1 \in DOMAIN Demand[w]
    BY <1>2, <1>6, Items DEF IInv, RecordsValid, IsActive, SettleFind, store
  <2>5. HandlerOK(op[o])'
    BY <1>1, <1>2, <2>3, <2>4 DEF HandlerOK, ReservePcs, SettlePcs, AdminPcs
  <2>6. "load" \in Pcs
    BY DEF Pcs, SettlePcs
  <2> HIDE DEF r, w
  <2> QED
    BY <1>2, <1>3, <1>4, <1>5, <2>1, <2>5, <2>6, BlankStep
<1>7. CASE ~IsActive(w)
  <2>1. op' = [op EXCEPT ![o] = Idle]
    BY <1>7 DEF SettleFind, End, Continue
  <2> QED
    BY <1>3, <1>4, <1>5, <2>1, GotoStep
<1> QED
  BY <1>6, <1>7

LEMMA PublishStep ==
    ASSUME IInv, NEW o \in Ops, PublishReserved(o) \/ PublishFailed(o)
    PROVE  IInv'
<1> DEFINE w == op[o].req.order
<1>1. HandlerOK(op[o]) /\ op[o].pc \in {"replyReserved", "replyFailed"}
  BY DEF IInv, PublishReserved, PublishFailed
<1>2. w \in WorkOrders
  BY <1>1 DEF HandlerOK, ReservePcs, SagaCommands
<1>3. op' = [op EXCEPT ![o] = Idle] /\ UNCHANGED <<store, ledger, clobbered>>
  BY DEF PublishReserved, PublishFailed, End, Continue, history
<1>4. /\ replies' \in [WorkOrders -> [reserved: Nat, failed: Nat]]
      /\ \A v \in WorkOrders \ {w} : replies'[v] = replies[v]
      /\ op[o].pc = "replyFailed" => replies'[w].reserved = replies[w].reserved
  <2> DEFINE n == replies[w]
  <2>1. /\ replies \in [WorkOrders -> [reserved: Nat, failed: Nat]]
        /\ n \in [reserved: Nat, failed: Nat]
    BY <1>2 DEF IInv, TypeOK
  <2>2. CASE PublishReserved(o)
    <3>1. replies' = [replies EXCEPT ![w] = [n EXCEPT !.reserved = @ + 1]]
      BY <2>2 DEF PublishReserved
    <3> QED
      BY <1>2, <2>1, <2>2, <3>1 DEF PublishReserved
  <2>3. CASE PublishFailed(o)
    <3>1. replies' = [replies EXCEPT ![w] = [n EXCEPT !.failed = @ + 1]]
      BY <2>3 DEF PublishFailed
    <3> QED
      BY <1>2, <2>1, <3>1
  <2> QED
    BY <2>2, <2>3
<1>5. CountersOK'
  <2>1. UNCHANGED <<calls, crashes, faults, held, disturbed>>
    BY DEF PublishReserved, PublishFailed, budget, history
  <2> QED
    BY <1>4, <2>1 DEF IInv, TypeOK, CountersOK
<1>6. ReservedReplyBacked'
  BY <1>1, <1>2, <1>3, <1>4
     DEF IInv, ReservedReplyBacked, HandlerOK, store
<1> QED
  BY <1>3, <1>5, <1>6, GotoStep

LEMMA FaultStep ==
    ASSUME IInv, NEW o \in Ops, Fault(o)
    PROVE  IInv'
<1> DEFINE r == op[o].req
<1>1. HandlerOK(op[o]) /\ op[o].pc # "idle" /\ op[o] \in Handler
  BY DEF IInv, TypeOK, Fault
<1>2. UNCHANGED <<store, ledger, clobbered>>
  BY DEF Fault
<1>3. r.kind = "reserve" /\ r \in Requests => r \in SagaCommands
  BY DEF Requests, AdminCalls
<1>4. r \in Requests
  BY <1>1 DEF HandlerOK, Handler, Pcs, Requests
<1>5. \/ op' = [op EXCEPT ![o] = Idle]
      \/ /\ op' = [op EXCEPT ![o] = Blank("replyFailed", r)]
         /\ r.kind = "reserve"
  BY DEF Fault, AfterThrow, Continue
<1>6. HalfDone(op[o]) => r.order \in WorkOrders
  BY <1>1 DEF HalfDone, HandlerOK, ReservePcs, SettlePcs, SagaCommands
<1>7. CountersOK'
  <2>1. disturbed' \in SUBSET WorkOrders
    BY <1>6 DEF IInv, TypeOK, Fault
  <2> QED
    BY <2>1 DEF IInv, TypeOK, CountersOK, Fault
<1>8. ReservedReplyBacked'
  BY DEF IInv, ReservedReplyBacked, Fault, store
<1> QED
  BY <1>2, <1>3, <1>4, <1>5, <1>7, <1>8, GotoStep

LEMMA CrashStep ==
    ASSUME IInv, Crash
    PROVE  IInv'
<1>1. TypeOK'
  BY IdleFields DEF IInv, TypeOK, Crash, store
<1>2. StockConserved' /\ EditsSurvive' /\ ReservedReplyBacked' /\ RecordsValid'
  BY DEF IInv, StockConserved, EditsSurvive, ReservedReplyBacked, RecordsValid,
         Crash, store
<1>3. \A o \in Ops : HandlerOK(op[o])'
  BY IdleFields DEF Crash, HandlerOK, ReservePcs, SettlePcs, AdminPcs
<1>4. \A o \in Ops : \A p \in Parts : CopyCurrent(op[o], p)'
  BY IdleFields DEF Crash, CopyCurrent
<1> QED
  BY <1>1, <1>2, <1>3, <1>4 DEF IInv

\* The fields of a handler, for the steps that change some of them.
LEMMA HandlerFields ==
    ASSUME NEW h \in Handler
    PROVE  /\ h.pc \in Pcs /\ h.req \in Requests \cup {NoRequest}
           /\ h.idx \in Nat \ {0} /\ h.stale \in SUBSET Parts
           /\ h.copy \in [Parts -> PartDoc] /\ h.moved \in [Parts -> Nat]
BY DEF Handler

LEMMA ReserveCheckStep ==
    ASSUME IInv, NEW o \in Ops, ReserveCheck(o)
    PROVE  IInv'
<1> DEFINE h == op[o]
           r == h.req
           w == r.order
<1>1. /\ HandlerOK(h) /\ h.pc = "check" /\ h \in Handler
      /\ UNCHANGED <<store, ledger, clobbered>>
  BY DEF IInv, TypeOK, ReserveCheck, history
<1>2. r \in SagaCommands /\ r.kind = "reserve" /\ w \in WorkOrders
  BY <1>1 DEF HandlerOK, SagaCommands, ReservePcs
<1>3. CountersOK'
  BY DEF IInv, TypeOK, CountersOK, ReserveCheck, budget, history
<1>4. ReservedReplyBacked'
  BY DEF IInv, ReservedReplyBacked, ReserveCheck, store
<1>5. CASE ~CanReserve(w)
  <2>1. op' = [op EXCEPT ![o] = Blank("replyFailed", r)]
    BY <1>5 DEF ReserveCheck, Refuse, Goto, Continue
  <2> QED
    BY <1>1, <1>2, <1>3, <1>4, <2>1, GotoStep
<1>6. CASE CanReserve(w)
  <2> DEFINE amounts == [p \in Parts |-> IF p \in Requested(w) THEN Asked(w, p) ELSE 0]
             g == [h EXCEPT !.pc = "write", !.copy = ReservedCopies(w), !.moved = amounts]
  <2>1. op' = [op EXCEPT ![o] = g]
    BY <1>6 DEF ReserveCheck, Continue
  <2>2. \A p \in Requested(w) : /\ p \in Parts /\ parts[p] \in PartDoc
                                /\ Asked(w, p) \in Nat
                                /\ parts[p].available >= Asked(w, p)
                                /\ parts[p].state = "live"
    BY <1>2, <1>6, RequestedParts, AskedType DEF CanReserve, IInv, TypeOK, Requested
  <2>3. \A p \in Requested(w) :
           LET c == ReservedCopies(w)[p]
           IN  /\ c \in PartDoc /\ c.state = "live" /\ c.price = parts[p].price
               /\ Total(c) = Total(parts[p])
    <3> SUFFICES ASSUME NEW p \in Requested(w)
                 PROVE  LET c == ReservedCopies(w)[p]
                        IN  /\ c \in PartDoc /\ c.state = "live"
                            /\ c.price = parts[p].price /\ Total(c) = Total(parts[p])
      OBVIOUS
    <3>1. ReservedCopies(w)[p] = ReserveUnits(parts[p], Asked(w, p))
      BY <2>2 DEF ReservedCopies
    <3>2. parts[p].available \in Nat
      BY <2>2 DEF PartDoc
    <3> QED
      BY <2>2, <3>1, <3>2, ReserveUnitsMoves
  <2>4. \A p \in Parts \ Requested(w) : ReservedCopies(w)[p] = Absent
    BY DEF ReservedCopies
  <2>5. Absent \in PartDoc /\ Absent.state = "absent"
    BY CatalogType DEF Absent, PartDoc, PartStates
  <2>6. ReservedCopies(w) \in [Parts -> PartDoc]
    <3>1. \A p \in Parts : ReservedCopies(w)[p] \in PartDoc
      BY <2>3, <2>4, <2>5
    <3> QED
      BY <3>1 DEF ReservedCopies
  <2>7. amounts \in [Parts -> Nat]
    BY <2>2
  <2>8. g \in Handler
    BY <1>1, <2>6, <2>7 DEF Handler, Pcs, ReservePcs
  <2>9. /\ op'[o] = g /\ op' \in [Ops -> Handler]
        /\ \A x \in Ops \ {o} : op'[x] = op[x]
    BY <2>1, <2>8 DEF IInv, TypeOK
  <2>10. TypeOK'
    BY <1>1, <1>3, <2>9 DEF IInv, TypeOK, CountersOK, store
  <2>11. /\ g.pc = "write" /\ g.req = r /\ g.idx = h.idx
         /\ g.copy = ReservedCopies(w) /\ g.stale = h.stale
    BY <1>1 DEF Handler
  <2>12. HandlerOK(op[o])'
    <3>1. Demand[w] # <<>> /\ ValidItems(w) /\ h.idx \in DOMAIN Demand[w]
      BY <1>1, <1>2, <1>6, Items DEF HandlerOK, CanReserve
    <3>2. \A p \in Requested(w) : g.copy[p].state # "absent"
      BY <2>3, <2>11
    <3> HIDE DEF g
    <3> QED
      BY <1>2, <2>9, <2>11, <3>1, <3>2 DEF HandlerOK, ReservePcs, SettlePcs, AdminPcs
  <2>13. \A p \in Parts : CopyCurrent(op[o], p)'
    <3> SUFFICES ASSUME NEW p \in Parts, g.copy[p].state # "absent"
                 PROVE  CopyCurrent(op[o], p)'
      BY <2>9 DEF CopyCurrent
    <3>1. p \in Requested(w)
      BY <2>4, <2>5, <2>11
    <3>2. /\ parts'[p] = parts[p] /\ parts[p].state = "live"
          /\ parts[p] \in PartDoc
      BY <1>1, <2>2, <3>1 DEF store
    <3>3. Change(g, p) = 0
      BY <1>2, <2>11 DEF Change
    <3> HIDE DEF g
    <3> QED
      BY <1>2, <2>3, <2>9, <2>11, <3>1, <3>2, <3>3
         DEF CopyCurrent, Change, PartDoc, Total
  <2> HIDE DEF g
  <2> QED
    BY <1>1, <1>4, <2>9, <2>10, <2>12, <2>13, LocalStep
<1> QED
  BY <1>5, <1>6

\* What is left of a settling handler once it is done with its current item.
LEMMA NextItemFields ==
    ASSUME NEW h \in Handler, NEW w \in WorkOrders, h.req.order = w,
           h.idx \in DOMAIN Demand[w]
    PROVE  LET g == NextItem(h)
           IN  /\ g \in Handler
               /\ g.req = h.req
               /\ \/ g.pc = "load" /\ g.idx \in DOMAIN Demand[w]
                  \/ g.pc = "close"
               /\ \A p \in Parts : g.copy[p].state = "absent" /\ g.moved[p] = 0
<1> DEFINE g == NextItem(h)
           next == IF h.idx < Len(Demand[w]) THEN "load" ELSE "close"
<1>1. h.idx \in Nat /\ h.idx \in 1..Len(Demand[w]) /\ Len(Demand[w]) \in Nat
  BY Items DEF Handler
<1>2. Idle.copy \in [Parts -> PartDoc] /\ Idle.moved \in [Parts -> Nat]
  BY IdleFields DEF Handler
<1>3. next \in Pcs
  BY DEF Pcs, SettlePcs
<1>4. g \in Handler
  <2> HIDE DEF next
  <2>1. g = [h EXCEPT !.copy = Idle.copy, !.moved = Idle.moved, !.stale = {},
                      !.idx = h.idx + 1, !.pc = next]
    BY DEF NextItem, next
  <2>2. h.idx + 1 \in Nat \ {0}
    BY <1>1
  <2> HIDE DEF g
  <2> QED
    BY <1>2, <1>3, <2>1, <2>2 DEF Handler
<1>5. /\ g.req = h.req /\ g.pc = next /\ g.idx = h.idx + 1
      /\ g.copy = Idle.copy /\ g.moved = Idle.moved
  BY DEF NextItem, Handler
<1>6. next = "load" => h.idx + 1 \in DOMAIN Demand[w]
  BY <1>1, Items
<1> QED
  BY <1>4, <1>5, <1>6, IdleFields

LEMMA SettleLoadStep ==
    ASSUME IInv, NEW o \in Ops, SettleLoad(o)
    PROVE  IInv'
<1> DEFINE h    == op[o]
           r    == h.req
           w    == r.order
           item == Demand[w][h.idx]
           p    == item.part
           doc  == parts[p]
           n    == Capped(doc, item.quantity)
           new  == IF r.kind = "release" THEN ReleaseUnits(doc, n)
                                         ELSE ConsumeUnits(doc, n)
           full == [h EXCEPT !.pc = "settle", !.copy[p] = new, !.moved[p] = n]
<1>1. /\ HandlerOK(h) /\ h.pc = "load" /\ h \in Handler
      /\ UNCHANGED <<store, ledger, clobbered>>
  BY DEF IInv, TypeOK, SettleLoad, history
<1>2. /\ r \in SagaCommands /\ r.kind \in {"release", "consume"} /\ w \in WorkOrders
      /\ h.idx \in DOMAIN Demand[w] /\ reservations[w] # "NONE"
      /\ \A q \in Parts : h.copy[q].state = "absent" /\ h.moved[q] = 0
  BY <1>1 DEF HandlerOK, SagaCommands, SettlePcs
<1>3. p \in Parts /\ item.quantity \in Nat
  BY <1>2, DemandItem DEF IInv, RecordsValid, ValidItems
<1>4. CountersOK' /\ ReservedReplyBacked'
  BY DEF IInv, TypeOK, CountersOK, ReservedReplyBacked, SettleLoad, budget, history, store
<1>5. /\ doc \in PartDoc /\ n \in Nat /\ n <= doc.reserved
  <2>1. doc \in PartDoc
    BY <1>3 DEF IInv, TypeOK
  <2> QED
    BY <1>3, <2>1, CappedBounds
<1>6. CASE doc.state = "live"
  <2>1. op' = [op EXCEPT ![o] = full]
    BY <1>6 DEF SettleLoad, Continue
  <2>2. /\ new \in PartDoc /\ new.state = "live" /\ new.price = doc.price
        /\ Total(new) = Total(doc) + (IF r.kind = "consume" THEN -n ELSE 0)
    <3>1. CASE r.kind = "release"
      <4>1. new = ReleaseUnits(doc, n)
        BY <3>1
      <4> HIDE DEF new, n, doc
      <4> QED
        BY <1>5, <1>6, <3>1, <4>1, ReleaseUnitsMoves DEF Total, PartDoc
    <3>2. CASE r.kind = "consume"
      <4>1. new = ConsumeUnits(doc, n)
        BY <3>2
      <4> HIDE DEF new, n, doc
      <4> QED
        BY <1>5, <1>6, <3>2, <4>1, ConsumeUnitsTakes DEF Total, PartDoc
    <3> QED
      BY <1>2, <3>1, <3>2
  <2>3. /\ full.pc = "settle" /\ full.req = r /\ full.idx = h.idx
        /\ full.stale = h.stale
        /\ full.copy[p] = new /\ full.moved[p] = n
        /\ \A q \in Parts \ {p} : full.copy[q].state = "absent"
        /\ full \in Handler
    <3> HIDE DEF new, n, p
    <3> QED
      BY <1>1, <1>2, <1>3, <1>5, <2>2 DEF Handler, Pcs, SettlePcs
  <2> HIDE DEF full
  <2>4. /\ op'[o] = full /\ op' \in [Ops -> Handler]
        /\ \A x \in Ops \ {o} : op'[x] = op[x]
    BY <2>1, <2>3 DEF IInv, TypeOK
  <2>5. TypeOK'
    BY <1>1, <1>4, <2>4 DEF IInv, TypeOK, CountersOK, store
  <2>6. HandlerOK(op[o])'
    BY <1>1, <1>2, <2>2, <2>3, <2>4 DEF HandlerOK, ReservePcs, SettlePcs, AdminPcs, store
  <2>7. \A q \in Parts : CopyCurrent(op[o], q)'
    <3>1. PICK q \in Parts : q = p
      BY <1>3
    <3>2. \A x \in Parts \ {q} : CopyCurrent(op[o], x)'
      BY <2>3, <2>4, <3>1 DEF CopyCurrent
    <3>3. Change(full, q) = IF r.kind = "consume" THEN -n ELSE 0
      BY <1>2, <2>3, <3>1 DEF Change
    <3>4. parts'[q] = doc
      BY <1>1, <3>1 DEF store
    <3>5. CopyCurrent(op[o], q)'
      <4>1. /\ op'[o].copy[q].state = "live" /\ op'[o].copy[q].price = doc.price
            /\ Total(op'[o].copy[q]) = Total(doc) + Change(op'[o], q)
            /\ op'[o].req.kind \in {"release", "consume"}
        BY <1>2, <2>2, <2>3, <2>4, <3>1, <3>3
      <4> HIDE DEF new, n, doc
      <4> QED
        BY <1>6, <3>4, <4>1 DEF CopyCurrent, Change
    <3> QED
      BY <3>2, <3>5
  <2> QED
    BY <1>1, <1>4, <2>4, <2>5, <2>6, <2>7, LocalStep
<1>7. CASE doc.state # "live"
  <2> DEFINE g == NextItem(h)
  <2>1. op' = [op EXCEPT ![o] = g]
    BY <1>7 DEF SettleLoad, Continue
  <2>2. /\ g \in Handler /\ g.req = r
        /\ \/ g.pc = "load" /\ g.idx \in DOMAIN Demand[w]
           \/ g.pc = "close"
        /\ \A q \in Parts : g.copy[q].state = "absent" /\ g.moved[q] = 0
    BY <1>1, <1>2, NextItemFields
  <2> HIDE DEF g
  <2>3. /\ op'[o] = g /\ op' \in [Ops -> Handler]
        /\ \A x \in Ops \ {o} : op'[x] = op[x]
    BY <2>1, <2>2 DEF IInv, TypeOK
  <2>4. TypeOK'
    BY <1>1, <1>4, <2>3 DEF IInv, TypeOK, CountersOK, store
  <2>5. HandlerOK(op[o])'
    BY <1>1, <1>2, <2>2, <2>3 DEF HandlerOK, ReservePcs, SettlePcs, AdminPcs, store
  <2>6. \A q \in Parts : CopyCurrent(op[o], q)'
    BY <2>2, <2>3 DEF CopyCurrent
  <2> QED
    BY <1>1, <1>4, <2>3, <2>4, <2>5, <2>6, LocalStep
<1> QED
  BY <1>6, <1>7

LEMMA AdminEditStep ==
    ASSUME IInv, NEW o \in Ops, AdminEdit(o)
    PROVE  IInv'
<1> DEFINE h == op[o]
           r == h.req
<1>1. /\ HandlerOK(h) /\ h.pc = "edit" /\ h \in Handler
      /\ UNCHANGED <<store, ledger, clobbered>>
  BY DEF IInv, TypeOK, AdminEdit, history
<1>2. /\ r \in AdminCalls
      /\ \A q \in Parts : h.copy[q].state = "absent" /\ h.moved[q] = 0
  BY <1>1 DEF HandlerOK, AdminPcs
<1>3. PICK p \in Parts : p = r.part
  BY <1>2 DEF AdminCalls
<1>4. CountersOK' /\ ReservedReplyBacked'
  BY DEF IInv, TypeOK, CountersOK, ReservedReplyBacked, AdminEdit, budget, history, store
<1>5. CASE ~(parts[p].state = "live" /\ ValidEdit(r))
  <2>1. op' = [op EXCEPT ![o] = Idle]
    BY <1>3, <1>5 DEF AdminEdit, End, Continue
  <2> QED
    BY <1>1, <1>4, <2>1, GotoStep
<1>6. CASE parts[p].state = "live" /\ ValidEdit(r)
  <2> DEFINE new == Edited(parts[p], r)
             n == IF r.kind = "restock" THEN r.amount ELSE 0
             g == [h EXCEPT !.pc = "save", !.copy[p] = new, !.moved[p] = n]
  <2>1. op' = [op EXCEPT ![o] = g]
    BY <1>3, <1>6 DEF AdminEdit, Continue
  <2>2. /\ n \in Nat
        /\ r.kind \in {"restock", "update", "delete"}
        /\ r.kind = "restock" => r.amount \in Nat
        /\ r.kind = "update" => r.amount \in 0..MaxCents
    <3>1. CASE r \in [kind: {"restock"}, part: Parts, amount: RestockQuantities]
      BY <3>1, InputType
    <3>2. CASE r \in [kind: {"update"}, part: Parts, amount: Prices]
      <4>1. r.kind = "update" /\ r.amount \in Prices
        BY <3>2
      <4>2. r.amount <= MaxCents
        BY <1>6, <4>1 DEF ValidEdit
      <4>3. r.amount \in Nat
        BY <4>1, InputType
      <4>4. r.amount \in 0..MaxCents
        BY <4>2, <4>3, CatalogType
      <4> QED
        BY <4>1, <4>4
    <3>3. CASE r \in [kind: {"delete"}, part: Parts]
      BY <3>3
    <3> QED
      BY <1>2, <3>1, <3>2, <3>3 DEF AdminCalls
  <2>3. parts[p] \in PartDoc
    BY DEF IInv, TypeOK
  <2>4. /\ new \in PartDoc /\ new.state # "absent"
        /\ Total(new) = Total(parts[p]) + n
        /\ new.price = IF r.kind = "update" THEN r.amount ELSE parts[p].price
        /\ new.state = IF r.kind = "delete" THEN "deleted" ELSE parts[p].state
    <3>1. CASE r.kind = "restock"
      BY <1>6, <2>2, <2>3, <3>1 DEF Edited, PartDoc, Total
    <3>2. CASE r.kind = "update"
      BY <1>6, <2>2, <2>3, <3>2 DEF Edited, PartDoc, Total
    <3>3. CASE r.kind = "delete"
      BY <1>6, <2>2, <2>3, <3>3 DEF Edited, Deleted, PartDoc, PartStates, Total
    <3> QED
      BY <2>2, <3>1, <3>2, <3>3
  <2>5. /\ g.pc = "save" /\ g.req = r /\ g.copy[p] = new /\ g.moved[p] = n
        /\ \A q \in Parts \ {p} : g.copy[q].state = "absent"
        /\ g \in Handler
    <3> HIDE DEF new, n
    <3> QED
      BY <1>1, <1>2, <2>2, <2>4 DEF Handler, Pcs, AdminPcs
  <2> HIDE DEF g
  <2>6. /\ op'[o] = g /\ op' \in [Ops -> Handler]
        /\ \A x \in Ops \ {o} : op'[x] = op[x]
    BY <2>1, <2>5 DEF IInv, TypeOK
  <2>7. TypeOK'
    BY <1>1, <1>4, <2>6 DEF IInv, TypeOK, CountersOK, store
  <2>8. HandlerOK(op[o])'
    BY <1>2, <1>3, <1>6, <2>4, <2>5, <2>6 DEF HandlerOK, ReservePcs, SettlePcs, AdminPcs
  <2>9. \A q \in Parts : CopyCurrent(op[o], q)'
    <3>1. \A q \in Parts \ {p} : CopyCurrent(op[o], q)'
      BY <2>5, <2>6 DEF CopyCurrent
    <3>2. Change(g, p) = n
      BY <1>2, <2>2, <2>5 DEF Change
    <3>3. CopyCurrent(op[o], p)'
      <4>1. /\ op'[o].copy[p] = new /\ Change(op'[o], p) = n /\ op'[o].req = r
            /\ parts'[p] = parts[p]
        BY <1>1, <2>5, <2>6, <3>2 DEF store
      <4> HIDE DEF new, n
      <4> QED
        BY <1>6, <2>4, <4>1 DEF CopyCurrent, Change
    <3> QED
      BY <3>1, <3>3
  <2> QED
    BY <1>1, <1>4, <2>6, <2>7, <2>8, <2>9, LocalStep
<1> QED
  BY <1>5, <1>6

-----------------------------------------------------------------------------
(* Steps that write a document. *)

\* A handler that writes its copy of p keeps the invariant: the ledger tells what
\* a current copy makes of p, and all others who have p in memory are outdated by
\* the write.
LEMMA SaveStep ==
    ASSUME IInv, NEW o \in Ops, NEW p \in Parts, NEW h \in Handler, SavePart(o, p, h),
           op[o].copy[p].state # "absent",
           op[o].req.kind = "update" => op[o].req.amount \in 0..MaxCents,
           UNCHANGED reservations, CountersOK', ReservedReplyBacked',
           HandlerOK(op[o])',
           \A q \in Parts : CopyCurrent(op[o], q)'
    PROVE  IInv'
<1>1. /\ op[o].copy[p] \in PartDoc /\ op[o] \in Handler
      /\ parts' \in [Parts -> PartDoc] /\ parts'[p] = op[o].copy[p]
      /\ \A q \in Parts \ {p} : parts'[q] = parts[q]
  BY DEF IInv, TypeOK, Handler, SavePart
<1>2. /\ op'[o] = h
      /\ \A x \in Ops \ {o} : op'[x] = Overtake(op[x], p)
  BY DEF SavePart
<1>3. \A x \in Ops \ {o} :
         /\ op'[x] \in Handler
         /\ op'[x].pc = op[x].pc /\ op'[x].req = op[x].req /\ op'[x].idx = op[x].idx
         /\ op'[x].copy = op[x].copy /\ op'[x].moved = op[x].moved
         /\ op[x].stale \subseteq op'[x].stale
         /\ op[x].copy[p].state # "absent" => p \in op'[x].stale
  <2> SUFFICES ASSUME NEW x \in Ops \ {o}
               PROVE  LET g == Overtake(op[x], p)
                      IN  /\ g \in Handler
                          /\ g.pc = op[x].pc /\ g.req = op[x].req /\ g.idx = op[x].idx
                          /\ g.copy = op[x].copy /\ g.moved = op[x].moved
                          /\ op[x].stale \subseteq g.stale
                          /\ op[x].copy[p].state # "absent" => p \in g.stale
    BY <1>2
  <2>1. op[x] \in Handler
    BY DEF IInv, TypeOK
  <2> QED
    BY <2>1 DEF Overtake, Handler
<1> DEFINE booked == Booked(ledger[p], op[o], p)
<1>4. /\ ledger' \in [Parts -> Entry] /\ ledger'[p] = booked
      /\ \A q \in Parts \ {p} : ledger'[q] = ledger[q]
  <2>1. Change(op[o], p) \in Int
    BY <1>1 DEF Change, Handler
  <2>2. ledger[p] \in Entry
    BY DEF IInv, TypeOK
  <2>3. booked \in Entry
    BY <2>1, <2>2 DEF Booked, Entry, PartStates
  <2> HIDE DEF booked
  <2>4. ledger' = [ledger EXCEPT ![p] = booked]
    BY DEF SavePart, booked
  <2> QED
    BY <2>3, <2>4 DEF IInv, TypeOK
<1>5. p \notin clobbered' =>
          /\ Total(op[o].copy[p]) = booked.total
          /\ op[o].copy[p].price = booked.price
          /\ op[o].copy[p].state = booked.state
  <2> SUFFICES ASSUME p \notin clobbered, p \notin op[o].stale
               PROVE  /\ Total(op[o].copy[p]) = booked.total
                      /\ op[o].copy[p].price = booked.price
                      /\ op[o].copy[p].state = booked.state
    BY DEF SavePart
  <2>1. CopyCurrent(op[o], p)
    BY DEF IInv
  <2>2. /\ Total(parts[p]) = ledger[p].total /\ parts[p].price = ledger[p].price
        /\ parts[p].state = ledger[p].state
    BY DEF IInv, StockConserved, EditsSurvive
  <2> QED
    BY <2>1, <2>2 DEF CopyCurrent, Booked
<1>6. TypeOK'
  <2>1. op' \in [Ops -> Handler]
    <3>1. \A x \in Ops : op'[x] \in Handler
      BY <1>2, <1>3
    <3> QED
      BY <3>1 DEF SavePart
  <2>2. clobbered' \in SUBSET Parts
    BY DEF IInv, TypeOK, SavePart
  <2> QED
    BY <1>1, <1>4, <2>1, <2>2 DEF IInv, TypeOK, CountersOK
<1>7. StockConserved' /\ EditsSurvive'
  <2>1. \A q \in Parts \ {p} : q \in clobbered <=> q \in clobbered'
    BY DEF SavePart
  <2>2. \A q \in Parts \ clobbered' : /\ Total(parts'[q]) = ledger'[q].total
                                      /\ parts'[q].price = ledger'[q].price
                                      /\ parts'[q].state = ledger'[q].state
    BY <1>1, <1>4, <1>5, <2>1 DEF IInv, StockConserved, EditsSurvive
  <2> QED
    BY <2>2 DEF StockConserved, EditsSurvive, Total
<1>8. \A x \in Ops : HandlerOK(op[x])'
  <2> SUFFICES ASSUME NEW x \in Ops \ {o} PROVE HandlerOK(op[x])'
    OBVIOUS
  <2>1. HandlerOK(op[x])
    BY DEF IInv
  <2>2. /\ op'[x].pc = op[x].pc /\ op'[x].req = op[x].req /\ op'[x].idx = op[x].idx
        /\ op'[x].copy = op[x].copy /\ op'[x].moved = op[x].moved
    BY <1>3
  <2>3. reservations' = reservations
    OBVIOUS
  <2> QED
    BY <2>1, <2>2, <2>3, SameHandler
<1>9. \A x \in Ops : \A q \in Parts : CopyCurrent(op[x], q)'
  <2> SUFFICES ASSUME NEW x \in Ops \ {o}, NEW q \in Parts PROVE CopyCurrent(op[x], q)'
    OBVIOUS
  <2>1. CopyCurrent(op[x], q)
    BY DEF IInv
  <2>2. CASE q = p
    BY <1>1, <1>3, <2>1, <2>2 DEF CopyCurrent
  <2>3. CASE q # p
    BY <1>1, <1>3, <2>1, <2>3 DEF CopyCurrent, Change, Total
  <2> QED
    BY <2>2, <2>3
<1>10. RecordsValid'
  BY DEF IInv, RecordsValid
<1> QED
  BY <1>6, <1>7, <1>8, <1>9, <1>10 DEF IInv

LEMMA HeldGrows ==
    ASSUME NEW f \in [WorkOrders -> [Parts -> Int]],
           NEW w \in WorkOrders, NEW p \in Parts, NEW n \in Nat
    PROVE  [f EXCEPT ![w][p] = @ + n] \in [WorkOrders -> [Parts -> Int]]
<1>1. f[w] \in [Parts -> Int] /\ f[w][p] + n \in Int
  OBVIOUS
<1>2. [f[w] EXCEPT ![p] = @ + n] \in [Parts -> Int]
  BY <1>1
<1> QED
  BY <1>2

LEMMA HeldShrinks ==
    ASSUME NEW f \in [WorkOrders -> [Parts -> Int]],
           NEW w \in WorkOrders, NEW p \in Parts, NEW n \in Nat
    PROVE  [f EXCEPT ![w][p] = @ - n] \in [WorkOrders -> [Parts -> Int]]
<1>1. f[w] \in [Parts -> Int] /\ f[w][p] - n \in Int
  OBVIOUS
<1>2. [f[w] EXCEPT ![p] = @ - n] \in [Parts -> Int]
  BY <1>1
<1> QED
  BY <1>2

LEMMA ReserveWriteStep ==
    ASSUME IInv, NEW o \in Ops, ReserveWrite(o)
    PROVE  IInv'
<1> DEFINE h == op[o]
           w == h.req.order
<1>1. /\ HandlerOK(h) /\ h.pc = "write" /\ h \in Handler
      /\ UNCHANGED <<reservations, replies, calls, crashes, faults, disturbed>>
  BY DEF IInv, TypeOK, ReserveWrite, budget
<1>2. /\ h.req \in SagaCommands /\ h.req.kind = "reserve" /\ w \in WorkOrders
      /\ h.idx \in DOMAIN Demand[w] /\ Demand[w] # <<>> /\ ValidItems(w)
      /\ \A q \in Requested(w) : h.copy[q].state # "absent"
  BY <1>1 DEF HandlerOK, SagaCommands, ReservePcs
<1>3. PICK p \in Parts : p = Demand[w][h.idx].part /\ p \in Requested(w)
  BY <1>2, DemandItem
<1> DEFINE next == IF h.idx < Len(Demand[w]) THEN "write" ELSE "record"
           g == [h EXCEPT !.moved[p] = 0, !.pc = next, !.idx = h.idx + 1]
<1>4. SavePart(o, p, g)
  BY <1>3 DEF ReserveWrite
<1>5. /\ g \in Handler /\ g.req = h.req /\ g.pc = next /\ g.idx = h.idx + 1
      /\ g.copy = h.copy /\ g.stale = h.stale
  <2>1. h.idx + 1 \in Nat \ {0} /\ next \in Pcs
    BY <1>1 DEF Handler, Pcs, ReservePcs
  <2> HIDE DEF next
  <2> QED
    BY <1>1, <2>1 DEF Handler
<1>6. next = "write" => h.idx + 1 \in DOMAIN Demand[w]
  BY <1>2, Items
<1> HIDE DEF g
<1>7. op'[o] = g
  BY <1>4 DEF SavePart
<1>8. HandlerOK(op[o])'
  BY <1>2, <1>5, <1>6, <1>7 DEF HandlerOK, ReservePcs, SettlePcs, AdminPcs
<1>9. \A q \in Parts : CopyCurrent(op[o], q)'
  <2> SUFFICES ASSUME NEW q \in Parts PROVE CopyCurrent(op[o], q)'
    OBVIOUS
  <2>1. CopyCurrent(h, q) /\ Change(h, q) = 0 /\ Change(g, q) = 0
    BY <1>2, <1>5 DEF IInv, Change
  <2>2. h.copy[q] \in PartDoc /\ parts[q] \in PartDoc
    BY <1>1 DEF Handler, IInv, TypeOK
  <2>3. CASE q = p
    <3>1. parts'[q] = h.copy[q]
      BY <1>4, <2>3 DEF SavePart, IInv, TypeOK
    <3> QED
      BY <1>2, <1>5, <1>7, <2>1, <2>2, <3>1 DEF CopyCurrent, Change, Total, PartDoc
  <2>4. CASE q # p
    <3>1. parts'[q] = parts[q]
      BY <1>4, <2>4 DEF SavePart, IInv, TypeOK
    <3> QED
      BY <1>2, <1>5, <1>7, <2>1, <2>2, <3>1 DEF CopyCurrent, Change, Total, PartDoc
  <2> QED
    BY <2>3, <2>4
<1>10. CountersOK'
  <2>1. h.moved[p] \in Nat
    BY <1>1 DEF Handler
  <2>2. held' \in [WorkOrders -> [Parts -> Int]]
    <3>1. held' = [held EXCEPT ![w][p] = @ + h.moved[p]]
      BY <1>3 DEF ReserveWrite
    <3> QED
      BY <1>2, <2>1, <3>1, HeldGrows DEF IInv, TypeOK
  <2> QED
    BY <1>1, <2>2 DEF IInv, TypeOK, CountersOK
<1>11. ReservedReplyBacked'
  BY <1>1 DEF IInv, ReservedReplyBacked
<1> QED
  BY <1>1, <1>2, <1>3, <1>4, <1>5, <1>8, <1>9, <1>10, <1>11, SaveStep

LEMMA SettleWriteStep ==
    ASSUME IInv, NEW o \in Ops, SettleWrite(o)
    PROVE  IInv'
<1> DEFINE h == op[o]
           w == h.req.order
           g == NextItem(h)
<1>1. /\ HandlerOK(h) /\ h.pc = "settle" /\ h \in Handler
      /\ UNCHANGED <<reservations, replies, calls, crashes, faults, disturbed>>
  BY DEF IInv, TypeOK, SettleWrite, budget
<1>2. /\ h.req \in SagaCommands /\ h.req.kind \in {"release", "consume"}
      /\ w \in WorkOrders /\ h.idx \in DOMAIN Demand[w] /\ reservations[w] # "NONE"
      /\ h.copy[Demand[w][h.idx].part].state # "absent"
  BY <1>1 DEF HandlerOK, SagaCommands, SettlePcs
<1>3. PICK p \in Parts : p = Demand[w][h.idx].part
  BY <1>2, DemandItem
<1>4. SavePart(o, p, g)
  BY <1>3 DEF SettleWrite
<1>5. /\ g \in Handler /\ g.req = h.req
      /\ \/ g.pc = "load" /\ g.idx \in DOMAIN Demand[w]
         \/ g.pc = "close"
      /\ \A q \in Parts : g.copy[q].state = "absent" /\ g.moved[q] = 0
  BY <1>1, <1>2, NextItemFields
<1> HIDE DEF g
<1>6. op'[o] = g
  BY <1>4 DEF SavePart
<1>7. HandlerOK(op[o])'
  BY <1>1, <1>2, <1>5, <1>6 DEF HandlerOK, ReservePcs, SettlePcs, AdminPcs
<1>8. \A q \in Parts : CopyCurrent(op[o], q)'
  BY <1>5, <1>6 DEF CopyCurrent
<1>9. CountersOK'
  <2>1. held' = [held EXCEPT ![w][p] = @ - h.moved[p]]
    BY <1>3 DEF SettleWrite
  <2>2. h.moved[p] \in Nat
    BY <1>1 DEF Handler
  <2>3. held' \in [WorkOrders -> [Parts -> Int]]
    BY <1>2, <2>1, <2>2, HeldShrinks DEF IInv, TypeOK
  <2> QED
    BY <1>1, <2>3 DEF IInv, TypeOK, CountersOK
<1>10. ReservedReplyBacked'
  BY <1>1 DEF IInv, ReservedReplyBacked
<1> QED
  BY <1>1, <1>2, <1>3, <1>4, <1>5, <1>7, <1>8, <1>9, <1>10, SaveStep

LEMMA AdminSaveStep ==
    ASSUME IInv, NEW o \in Ops, AdminSave(o)
    PROVE  IInv'
<1> DEFINE h == op[o]
           r == h.req
<1>1. /\ HandlerOK(h) /\ h.pc = "save" /\ h \in Handler
      /\ UNCHANGED <<reservations, replies, calls, crashes, faults, held, disturbed>>
  BY DEF IInv, TypeOK, AdminSave, budget
<1>2. r \in AdminCalls /\ h.copy[r.part].state # "absent" /\ ValidEdit(r)
  BY <1>1 DEF HandlerOK, AdminPcs
<1>3. PICK p \in Parts : p = r.part
  BY <1>2 DEF AdminCalls
<1>4. SavePart(o, p, Idle)
  BY <1>3 DEF AdminSave
<1>5. op'[o] = Idle
  BY <1>4 DEF SavePart
<1>6. HandlerOK(op[o])'
  BY <1>5, IdleFields DEF HandlerOK, ReservePcs, SettlePcs, AdminPcs
<1>7. \A q \in Parts : CopyCurrent(op[o], q)'
  BY <1>5, IdleFields DEF CopyCurrent
<1>8. CountersOK' /\ ReservedReplyBacked'
  BY <1>1 DEF IInv, TypeOK, CountersOK, ReservedReplyBacked
<1>9. r.kind = "update" => r.amount \in 0..MaxCents
  <2> SUFFICES ASSUME r.kind = "update" PROVE r.amount \in 0..MaxCents
    OBVIOUS
  <2>1. r.amount \in Prices
    BY <1>2 DEF AdminCalls
  <2>2. r.amount \in Nat /\ r.amount <= MaxCents
    BY <1>2, <2>1, InputType DEF ValidEdit
  <2> QED
    BY <2>2, CatalogType
<1> QED
  BY <1>1, <1>2, <1>3, <1>4, <1>6, <1>7, <1>8, <1>9, IdleFields, SaveStep

-----------------------------------------------------------------------------
(* Steps that write a reservation, and the creation of a part. *)

\* Once on record a reservation stays on record, whatever its status becomes.
LEMMA ReservationStep ==
    ASSUME IInv, NEW o \in Ops, NEW w \in WorkOrders,
           NEW s \in ReservationStates \ {"NONE"},
           NEW pc \in Pcs, NEW r \in Requests \cup {NoRequest},
           reservations' = [reservations EXCEPT ![w] = s],
           op' = [op EXCEPT ![o] = Blank(pc, r)],
           UNCHANGED <<parts, replies, ledger, clobbered>>, CountersOK',
           HandlerOK(op[o])',
           Demand[w] # <<>> /\ ValidItems(w)
    PROVE  IInv'
<1>1. /\ reservations' \in [WorkOrders -> ReservationStates]
      /\ reservations'[w] # "NONE"
      /\ \A v \in WorkOrders \ {w} : reservations'[v] = reservations[v]
  BY DEF IInv, TypeOK
<1>2. op'[o] = Blank(pc, r) /\ \A x \in Ops \ {o} : op'[x] = op[x]
  BY DEF IInv, TypeOK
<1>3. TypeOK'
  <2>1. op' \in [Ops -> Handler]
    BY BlankFields DEF IInv, TypeOK
  <2> QED
    BY <1>1, <2>1 DEF IInv, TypeOK, CountersOK
<1>4. StockConserved' /\ EditsSurvive'
  BY DEF IInv, StockConserved, EditsSurvive
<1>5. ReservedReplyBacked' /\ RecordsValid'
  BY <1>1 DEF IInv, ReservedReplyBacked, RecordsValid
<1>6. \A x \in Ops : HandlerOK(op[x])'
  <2> SUFFICES ASSUME NEW x \in Ops \ {o} PROVE HandlerOK(op[x])'
    OBVIOUS
  <2>1. HandlerOK(op[x]) /\ op'[x] = op[x]
    BY <1>2 DEF IInv
  <2>2. op[x].pc \in ReservePcs \cup SettlePcs => op[x].req.order \in WorkOrders
    BY <2>1 DEF HandlerOK, SagaCommands
  <2>3. /\ op[x].pc \in SettlePcs => reservations'[op[x].req.order] # "NONE"
        /\ op[x].pc = "replyReserved" =>
              reservations'[op[x].req.order] # "NONE" \/ Demand[op[x].req.order] = <<>>
    BY <1>1, <2>1, <2>2 DEF HandlerOK, ReservePcs
  <2> QED
    BY <2>1, <2>3, UntouchedHandler
<1>7. \A x \in Ops : \A p \in Parts : CopyCurrent(op[x], p)'
  <2> SUFFICES ASSUME NEW x \in Ops, NEW p \in Parts PROVE CopyCurrent(op[x], p)'
    OBVIOUS
  <2>1. CASE x = o
    BY <1>2, <2>1, BlankFields DEF CopyCurrent
  <2>2. CASE x # o
    BY <1>2, <2>2 DEF IInv, CopyCurrent, Change
  <2> QED
    BY <2>1, <2>2
<1> QED
  BY <1>3, <1>4, <1>5, <1>6, <1>7 DEF IInv

LEMMA ReserveRecordStep ==
    ASSUME IInv, NEW o \in Ops, ReserveRecord(o)
    PROVE  IInv'
<1> DEFINE r == op[o].req
           w == r.order
<1>1. HandlerOK(op[o]) /\ op[o].pc = "record"
  BY DEF IInv, ReserveRecord
<1>2. /\ r \in SagaCommands /\ r.kind = "reserve" /\ w \in WorkOrders
      /\ r \in Requests \cup {NoRequest}
      /\ Demand[w] # <<>> /\ ValidItems(w)
  BY <1>1 DEF HandlerOK, SagaCommands, ReservePcs, Requests
<1>3. CountersOK' /\ UNCHANGED <<parts, replies, ledger, clobbered>>
  BY DEF IInv, TypeOK, CountersOK, ReserveRecord, budget, history
<1>4. CASE reservations[w] = "NONE"
  <2>1. /\ reservations' = [reservations EXCEPT ![w] = "RESERVED"]
        /\ op' = [op EXCEPT ![o] = Blank("replyReserved", r)]
    BY <1>4 DEF ReserveRecord, Goto, Continue
  <2>2. op'[o] = Blank("replyReserved", r) /\ reservations'[w] = "RESERVED"
    BY <1>2, <2>1 DEF IInv, TypeOK
  <2>3. op'[o].pc = "replyReserved" /\ op'[o].req = r
    BY <2>2, BlankFields
  <2>4. HandlerOK(op[o])'
    BY <1>2, <2>2, <2>3 DEF HandlerOK, ReservePcs, SettlePcs, AdminPcs
  <2>5. "replyReserved" \in Pcs /\ "RESERVED" \in ReservationStates \ {"NONE"}
    BY DEF Pcs, ReservePcs, ReservationStates
  <2> HIDE DEF r, w
  <2> QED
    BY <1>2, <1>3, <2>1, <2>4, <2>5, ReservationStep
<1>5. CASE reservations[w] # "NONE"
  <2>1. op' = [op EXCEPT ![o] = Blank("replyFailed", op[o].req)]
    BY <1>5 DEF ReserveRecord, Refuse, Goto, Continue
  <2>2. UNCHANGED store
    BY <1>3, <1>5 DEF ReserveRecord, store
  <2>3. ReservedReplyBacked'
    BY <1>3, <2>2 DEF IInv, ReservedReplyBacked, store
  <2> QED
    BY <1>2, <1>3, <2>1, <2>2, <2>3, GotoStep
<1> QED
  BY <1>4, <1>5

LEMMA SettleCloseStep ==
    ASSUME IInv, NEW o \in Ops, SettleClose(o)
    PROVE  IInv'
<1> DEFINE w == op[o].req.order
           s == ClosedAs(op[o].req.kind)
<1>1. HandlerOK(op[o]) /\ op[o].pc = "close"
  BY DEF IInv, SettleClose
<1>2. w \in WorkOrders /\ reservations[w] # "NONE"
  BY <1>1 DEF HandlerOK, SagaCommands, SettlePcs
<1>3. Demand[w] # <<>> /\ ValidItems(w)
  BY <1>2 DEF IInv, RecordsValid
<1>4. CountersOK' /\ UNCHANGED <<parts, replies, ledger, clobbered>>
  BY DEF IInv, TypeOK, CountersOK, SettleClose, budget, history
<1>5. /\ reservations' = [reservations EXCEPT ![w] = s]
      /\ op' = [op EXCEPT ![o] = Blank("idle", NoRequest)]
  BY DEF SettleClose, SaveReservation, End, Continue, Idle
<1>6. op'[o] = Blank("idle", NoRequest)
  BY <1>5 DEF IInv, TypeOK
<1>7. HandlerOK(op[o])'
  BY <1>6, BlankFields DEF HandlerOK, ReservePcs, SettlePcs, AdminPcs
<1>8. "idle" \in Pcs /\ s \in ReservationStates \ {"NONE"}
  BY DEF Pcs, ClosedAs, ReservationStates
<1> HIDE DEF w, s
<1> QED
  BY <1>2, <1>3, <1>4, <1>5, <1>7, <1>8, ReservationStep

LEMMA CreatePartStep ==
    ASSUME IInv, NEW p \in Parts, CreatePart(p)
    PROVE  IInv'
<1> DEFINE entry == [state |-> "live", total |-> Opening[p].quantity,
                     price |-> Opening[p].price]
<1>1. UNCHANGED <<reservations, replies, calls, crashes, faults, op, held,
                  clobbered, disturbed>>
  BY DEF CreatePart, budget
<1>2. /\ parts[p].state = "absent"
      /\ parts' \in [Parts -> PartDoc] /\ parts'[p] = FreshPart(p)
      /\ \A q \in Parts \ {p} : parts'[q] = parts[q]
  BY FreshPartType DEF IInv, TypeOK, CreatePart
<1>3. /\ ledger' \in [Parts -> Entry] /\ ledger'[p] = entry
      /\ \A q \in Parts \ {p} : ledger'[q] = ledger[q]
  <2>1. entry \in Entry
    BY CatalogType DEF Entry, PartStates
  <2> QED
    BY <2>1 DEF IInv, TypeOK, CreatePart
<1>4. TypeOK'
  BY <1>1, <1>2, <1>3 DEF IInv, TypeOK
<1>5. StockConserved' /\ EditsSurvive'
  <2>1. /\ Total(FreshPart(p)) = entry.total /\ FreshPart(p).price = entry.price
        /\ FreshPart(p).state = entry.state
    BY FreshPartType
  <2> HIDE DEF entry
  <2>2. \A q \in Parts \ clobbered' : /\ Total(parts'[q]) = ledger'[q].total
                                      /\ parts'[q].price = ledger'[q].price
                                      /\ parts'[q].state = ledger'[q].state
    BY <1>1, <1>2, <1>3, <2>1 DEF IInv, StockConserved, EditsSurvive
  <2> QED
    BY <2>2 DEF StockConserved, EditsSurvive, Total
<1>6. ReservedReplyBacked' /\ RecordsValid'
  BY <1>1 DEF IInv, ReservedReplyBacked, RecordsValid
<1>7. \A x \in Ops : HandlerOK(op[x])'
  BY <1>1, SameHandler DEF IInv
<1>8. \A x \in Ops : \A q \in Parts : CopyCurrent(op[x], q)'
  <2> SUFFICES ASSUME NEW x \in Ops, NEW q \in Parts PROVE CopyCurrent(op[x], q)'
    OBVIOUS
  <2>1. CopyCurrent(op[x], q)
    BY DEF IInv
  <2>2. CASE q = p
    BY <1>1, <1>2, <2>1, <2>2 DEF CopyCurrent
  <2>3. CASE q # p
    BY <1>1, <1>2, <2>1, <2>3 DEF CopyCurrent, Change, Total
  <2> QED
    BY <2>2, <2>3
<1> QED
  BY <1>4, <1>5, <1>6, <1>7, <1>8 DEF IInv

-----------------------------------------------------------------------------
(* The theorems. *)

LEMMA StepIInv ==
    ASSUME IInv, NEW o \in Ops, Step(o)
    PROVE  IInv'
<1>1. CASE ReserveFind(o)
  BY <1>1, ReserveFindStep
<1>2. CASE ReserveCheck(o)
  BY <1>2, ReserveCheckStep
<1>3. CASE ReserveWrite(o)
  BY <1>3, ReserveWriteStep
<1>4. CASE ReserveRecord(o)
  BY <1>4, ReserveRecordStep
<1>5. CASE PublishReserved(o) \/ PublishFailed(o)
  BY <1>5, PublishStep
<1>6. CASE SettleFind(o)
  BY <1>6, SettleFindStep
<1>7. CASE SettleLoad(o)
  BY <1>7, SettleLoadStep
<1>8. CASE SettleWrite(o)
  BY <1>8, SettleWriteStep
<1>9. CASE SettleClose(o)
  BY <1>9, SettleCloseStep
<1>10. CASE UpdatePart(o) \/ RestockPart(o) \/ DeletePart(o)
  <2>1. AdminEdit(o)
    BY <1>10 DEF UpdatePart, RestockPart, DeletePart
  <2> QED
    BY <2>1, AdminEditStep
<1>11. CASE AdminSave(o)
  BY <1>11, AdminSaveStep
<1> QED
  BY <1>1, <1>2, <1>3, <1>4, <1>5, <1>6, <1>7, <1>8, <1>9, <1>10, <1>11 DEF Step

LEMMA NextIInv == IInv /\ [Next]_vars => IInv'
<1> SUFFICES ASSUME IInv, [Next]_vars PROVE IInv'
  OBVIOUS
<1>1. ASSUME NEW o \in Ops, NEW r \in Requests, Call(o, r) PROVE IInv'
  BY <1>1, CallStep
<1>2. ASSUME NEW o \in Ops, Step(o) PROVE IInv'
  BY <1>2, StepIInv
<1>3. ASSUME NEW p \in Parts, CreatePart(p) PROVE IInv'
  BY <1>3, CreatePartStep
<1>4. CASE Crash
  BY <1>4, CrashStep
<1>5. ASSUME NEW o \in Ops, Fault(o) PROVE IInv'
  BY <1>5, FaultStep
<1>6. CASE UNCHANGED vars
  <2>1. UNCHANGED <<parts, reservations, replies, calls, crashes, faults, op,
                    ledger, held, clobbered, disturbed>>
    BY <1>6 DEF vars, store, budget, history
  <2>2. TypeOK'
    BY <2>1 DEF IInv, TypeOK
  <2>3. StockConserved' /\ EditsSurvive' /\ ReservedReplyBacked' /\ RecordsValid'
    BY <2>1 DEF IInv, StockConserved, EditsSurvive, ReservedReplyBacked, RecordsValid
  <2>4. \A o \in Ops : HandlerOK(op[o])'
    BY <2>1 DEF IInv, HandlerOK
  <2>5. \A o \in Ops : \A p \in Parts : CopyCurrent(op[o], p)'
    BY <2>1 DEF IInv, CopyCurrent, Change
  <2> QED
    BY <2>2, <2>3, <2>4, <2>5 DEF IInv
<1> QED
  BY <1>1, <1>2, <1>3, <1>4, <1>5, <1>6 DEF Next

\* IInv holds in every state the handlers can reach, however their awaited calls
\* interleave, fail, or are cut off by a crash.
THEOREM InductiveInvariant == Spec => []IInv
<1> QED
  BY InitIInv, NextIInv, PTL DEF Spec

\* Whatever the interleaving, no stored quantity is negative, no price leaves
\* Money's range, and handlers are always at a place the code has.
THEOREM TypeCorrect == Spec => []TypeOK
<1>1. IInv => TypeOK
  BY DEF IInv
<1> QED
  BY <1>1, InductiveInvariant, PTL

\* A part that nobody wrote from an overtaken read has the stock that its
\* restocks and consumptions add up to: reserve and release lose no unit, in any
\* interleaving with failures and crashes anywhere.
THEOREM StockIsConserved == Spec => []StockConserved
<1>1. IInv => StockConserved
  BY DEF IInv
<1> QED
  BY <1>1, InductiveInvariant, PTL

\* Whole-document writes undo no acknowledged price change or deletion, except
\* where a read was overtaken.
THEOREM EditsAreKept == Spec => []EditsSurvive
<1>1. IInv => EditsSurvive
  BY DEF IInv
<1> QED
  BY <1>1, InductiveInvariant, PTL

\* parts.reserved is published for an order with items only once its reservation
\* is on record, also when inserts collide and calls fail.
THEOREM RepliesAreBacked == Spec => []ReservedReplyBacked
<1>1. IInv => ReservedReplyBacked
  BY DEF IInv
<1> QED
  BY <1>1, InductiveInvariant, PTL
=============================================================================
