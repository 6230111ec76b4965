---------------------------- MODULE AccountProofs ----------------------------
(***************************************************************************)
(* The handlers of Inventory implement StockAccount, for any parts, work   *)
(* orders, payloads, budgets and number of handlers in flight.             *)
(***************************************************************************)
EXTENDS InventoryAccount, InventoryProofs

-----------------------------------------------------------------------------
(* The copies in memory stay exact. *)

AllExact == \A x \in Ops : \A q \in Parts : CopyExact(op[x], q)

\* An empty memory is exact.
LEMMA BlankExact ==
    ASSUME NEW x \in Ops, \A q \in Parts : op'[x].copy[q].state = "absent"
    PROVE  \A q \in Parts : CopyExact(op[x], q)'
BY DEF CopyExact

\* A step of one handler that writes no document leaves the others exact.
LEMMA LocalExact ==
    ASSUME AllExact, NEW o \in Ops, parts' = parts,
           \A x \in Ops \ {o} : op'[x] = op[x],
           \A q \in Parts : CopyExact(op[o], q)'
    PROVE  AllExact'
<1> SUFFICES ASSUME NEW x \in Ops \ {o}, NEW q \in Parts PROVE CopyExact(op[x], q)'
  BY DEF AllExact
<1>1. CopyExact(op[x], q) /\ op'[x] = op[x]
  BY DEF AllExact
<1> QED
  BY <1>1 DEF CopyExact, Due

LEMMA GotoExact ==
    ASSUME IInv, AllExact, NEW o \in Ops, parts' = parts, NEW pc, NEW r,
           op' = [op EXCEPT ![o] = Blank(pc, r)]
    PROVE  AllExact'
<1>1. op'[o] = Blank(pc, r) /\ \A x \in Ops \ {o} : op'[x] = op[x]
  BY DEF IInv, TypeOK
<1>2. \A q \in Parts : CopyExact(op[o], q)'
  BY <1>1, BlankFields, BlankExact
<1> QED
  BY <1>1, <1>2, LocalExact

LEMMA InitExact == Init => AllExact
BY IdleFields DEF Init, AllExact, CopyExact

\* What Part.reserve makes of an available part.
LEMMA ReserveCheckExact ==
    ASSUME IInv, AllExact, NEW o \in Ops, ReserveCheck(o)
    PROVE  AllExact'
<1> DEFINE h == op[o]
           w == h.req.order
<1>1. /\ HandlerOK(h) /\ h.pc = "check" /\ h \in Handler
      /\ parts' = parts
  BY DEF IInv, TypeOK, ReserveCheck, store
<1>2. h.req \in SagaCommands /\ h.req.kind = "reserve" /\ w \in WorkOrders
  BY <1>1 DEF HandlerOK, SagaCommands, ReservePcs
<1>3. CASE ~CanReserve(w)
  <2>1. op' = [op EXCEPT ![o] = Blank("replyFailed", h.req)]
    BY <1>3 DEF ReserveCheck, Refuse, Goto, Continue
  <2> QED
    BY <1>1, <2>1, GotoExact
<1>4. CASE CanReserve(w)
  <2> DEFINE amounts == [p \in Parts |-> IF p \in Requested(w) THEN Asked(w, p) ELSE 0]
             g == [h EXCEPT !.pc = "write", !.copy = ReservedCopies(w), !.moved = amounts]
  <2>1. op' = [op EXCEPT ![o] = g]
    BY <1>4 DEF ReserveCheck, Continue
  <2>2. op'[o] = g /\ \A x \in Ops \ {o} : op'[x] = op[x]
    BY <2>1 DEF IInv, TypeOK
  <2>3. g.req = h.req /\ g.copy = ReservedCopies(w) /\ g.moved = amounts
    BY <1>1 DEF Handler
  <2>4. \A q \in Parts : CopyExact(op[o], q)'
    <3> SUFFICES ASSUME NEW q \in Parts, g.copy[q].state # "absent"
                 PROVE  CopyExact(op[o], q)'
      BY <2>2 DEF CopyExact
    <3>1. q \in Requested(w)
      BY <2>3 DEF ReservedCopies, Absent
    <3>2. /\ g.copy[q] = ReserveUnits(parts[q], Asked(w, q))
          /\ g.moved[q] = Asked(w, q)
      BY <2>3, <3>1 DEF ReservedCopies
    <3>3. parts[q] \in PartDoc /\ Asked(w, q) \in Nat
      BY <1>2, AskedType DEF IInv, TypeOK
    <3>4. parts[q].state = "live" /\ Asked(w, q) <= parts[q].available
      BY <1>4, <3>1, <3>3 DEF CanReserve, Requested, PartDoc
    <3> HIDE DEF g
    <3> QED
      BY <1>1, <1>2, <2>2, <2>3, <3>2, <3>4 DEF CopyExact, Due
  <2> HIDE DEF g
  <2> QED
    BY <1>1, <2>2, <2>4, LocalExact
<1> QED
  BY <1>3, <1>4

\* What Part.release and Part.consume make of a part that is there.
LEMMA SettleLoadExact ==
    ASSUME IInv, AllExact, NEW o \in Ops, SettleLoad(o)
    PROVE  AllExact'
<1> DEFINE h    == op[o]
           w    == h.req.order
           item == Demand[w][h.idx]
           p    == item.part
           doc  == parts[p]
           n    == Capped(doc, item.quantity)
           new  == IF h.req.kind = "release" THEN ReleaseUnits(doc, n)
                                             ELSE ConsumeUnits(doc, n)
           full == [h EXCEPT !.pc = "settle", !.copy[p] = new, !.moved[p] = n]
<1>1. /\ HandlerOK(h) /\ h.pc = "load" /\ h \in Handler
      /\ parts' = parts
  BY DEF IInv, TypeOK, SettleLoad, store
<1>2. /\ h.req \in SagaCommands /\ h.req.kind \in {"release", "consume"}
      /\ w \in WorkOrders
      /\ h.idx \in DOMAIN Demand[w] /\ reservations[w] # "NONE"
      /\ \A q \in Parts : h.copy[q].state = "absent"
  BY <1>1 DEF HandlerOK, SagaCommands, SettlePcs
<1>3. p \in Parts /\ item.quantity \in Nat
  BY <1>2, DemandItem DEF IInv, RecordsValid, ValidItems
<1>4. doc \in PartDoc /\ n \in Nat /\ n <= doc.reserved
  <2>1. doc \in PartDoc
    BY <1>3 DEF IInv, TypeOK
  <2> QED
    BY <1>3, <2>1, CappedBounds
<1>5. CASE doc.state = "live"
  <2>1. op' = [op EXCEPT ![o] = full]
    BY <1>5 DEF SettleLoad, Continue
  <2>2. /\ full.req = h.req /\ full.copy[p] = new /\ full.moved[p] = n
        /\ \A q \in Parts \ {p} : full.copy[q].state = "absent"
    <3> HIDE DEF new, n, p
    <3> QED
      BY <1>1, <1>2, <1>3 DEF Handler
  <2> HIDE DEF full
  <2>3. op'[o] = full /\ \A x \in Ops \ {o} : op'[x] = op[x]
    BY <2>1 DEF IInv, TypeOK
  <2>4. \A q \in Parts : CopyExact(op[o], q)'
    <3>1. PICK q \in Parts : q = p
      BY <1>3
    <3>2. \A x \in Parts \ {q} : CopyExact(op[o], x)'
      BY <2>2, <2>3, <3>1 DEF CopyExact
    <3>3. /\ op'[o].req.kind \in {"release", "consume"} /\ op'[o].moved[q] = n
          /\ op'[o].copy[q] = new /\ parts'[q] = doc
      BY <1>1, <1>2, <2>2, <2>3, <3>1
    <3>4. new = Due(doc, op'[o], q)
      BY <1>2, <2>2, <2>3, <3>3 DEF Due
    <3>5. /\ op'[o].copy[q] = Due(parts'[q], op'[o], q)
          /\ parts'[q].state = "live"
          /\ op'[o].moved[q] <= parts'[q].reserved
      BY <1>4, <1>5, <3>3, <3>4
    <3>6. CopyExact(op[o], q)'
      BY <3>3, <3>5 DEF CopyExact
    <3> QED
      BY <3>2, <3>6
  <2> QED
    BY <1>1, <2>3, <2>4, LocalExact
<1>6. CASE doc.state # "live"
  <2> DEFINE g == NextItem(h)
  <2>1. op' = [op EXCEPT ![o] = g]
    BY <1>6 DEF SettleLoad, Continue
  <2>2. \A q \in Parts : g.copy[q].state = "absent"
    BY <1>1, <1>2, NextItemFields
  <2> HIDE DEF g
  <2>3. op'[o] = g /\ \A x \in Ops \ {o} : op'[x] = op[x]
    BY <2>1 DEF IInv, TypeOK
  <2>4. \A q \in Parts : CopyExact(op[o], q)'
    BY <2>2, <2>3, BlankExact
  <2> QED
    BY <1>1, <2>3, <2>4, LocalExact
<1> QED
  BY <1>5, <1>6

\* What the administrator's edit makes of a part that is there.
LEMMA AdminEditExact ==
    ASSUME IInv, AllExact, NEW o \in Ops, AdminEdit(o)
    PROVE  AllExact'
<1> DEFINE h == op[o]
           r == h.req
<1>1. /\ HandlerOK(h) /\ h.pc = "edit" /\ h \in Handler
      /\ parts' = parts
  BY DEF IInv, TypeOK, AdminEdit, store
<1>2. r \in AdminCalls /\ \A q \in Parts : h.copy[q].state = "absent"
  BY <1>1 DEF HandlerOK, AdminPcs
<1>3. PICK p \in Parts : p = r.part
  BY <1>2 DEF AdminCalls
<1>4. CASE ~(parts[p].state = "live" /\ ValidEdit(r))
  <2>1. op' = [op EXCEPT ![o] = Blank("idle", NoRequest)]
    BY <1>3, <1>4 DEF AdminEdit, End, Continue, Idle
  <2> QED
    BY <1>1, <2>1, GotoExact
<1>5. CASE parts[p].state = "live" /\ ValidEdit(r)
  <2> DEFINE new == Edited(parts[p], r)
             n == IF r.kind = "restock" THEN r.amount ELSE 0
             g == [h EXCEPT !.pc = "save", !.copy[p] = new, !.moved[p] = n]
  <2>1. op' = [op EXCEPT ![o] = g]
    BY <1>3, <1>5 DEF AdminEdit, Continue
  <2>2. /\ g.req = r /\ g.copy[p] = new /\ g.moved[p] = n
        /\ \A q \in Parts \ {p} : g.copy[q].state = "absent"
    <3> HIDE DEF new, n
    <3> QED
      BY <1>1, <1>2 DEF Handler
  <2> HIDE DEF g
  <2>3. op'[o] = g /\ \A x \in Ops \ {o} : op'[x] = op[x]
    BY <2>1 DEF IInv, TypeOK
  <2>4. \A q \in Parts \ {p} : CopyExact(op[o], q)'
    BY <2>2, <2>3 DEF CopyExact
  <2>5. CopyExact(op[o], p)'
    <3>1. r.kind \in {"restock", "update", "delete"}
      BY <1>2 DEF AdminCalls
    <3>2. Due(parts[p], g, p) = new
      BY <2>2, <3>1 DEF Due
    <3> HIDE DEF new
    <3> QED
      BY <1>1, <1>5, <2>2, <2>3, <3>1, <3>2 DEF CopyExact
  <2> QED
    BY <1>1, <2>3, <2>4, <2>5, LocalExact
<1> QED
  BY <1>4, <1>5

\* A write outdates every other copy of what it writes.
LEMMA SaveExact ==
    ASSUME IInv, AllExact, NEW o \in Ops, NEW p \in Parts, NEW h, SavePart(o, p, h),
           \A q \in Parts : CopyExact(op[o], q)'
    PROVE  AllExact'
<1> SUFFICES ASSUME NEW x \in Ops \ {o}, NEW q \in Parts PROVE CopyExact(op[x], q)'
  BY DEF AllExact
<1>1. op[x] \in Handler /\ CopyExact(op[x], q) /\ op'[x] = Overtake(op[x], p)
  BY DEF IInv, TypeOK, AllExact, SavePart
<1>2. /\ op'[x].req = op[x].req /\ op'[x].copy = op[x].copy /\ op'[x].moved = op[x].moved
      /\ op[x].stale \subseteq op'[x].stale
      /\ op[x].copy[p].state # "absent" => p \in op'[x].stale
  BY <1>1 DEF Overtake, Handler
<1>3. q # p => parts'[q] = parts[q]
  BY DEF IInv, TypeOK, SavePart
<1> QED
  BY <1>1, <1>2, <1>3 DEF CopyExact, Due

\* Reserving nothing more: the second write of an item that is listed twice.
LEMMA ReserveNothing ==
    ASSUME NEW doc \in PartDoc
    PROVE  ReserveUnits(doc, 0) = doc
<1>1. doc.available - 0 = doc.available /\ doc.reserved + 0 = doc.reserved
  BY DEF PartDoc
<1> QED
  BY <1>1 DEF ReserveUnits, PartDoc

LEMMA ReserveWriteExact ==
    ASSUME IInv, AllExact, NEW o \in Ops, ReserveWrite(o)
    PROVE  AllExact'
<1> DEFINE h == op[o]
           w == h.req.order
<1>1. HandlerOK(h) /\ h.pc = "write" /\ h \in Handler
  BY DEF IInv, TypeOK, ReserveWrite
<1>2. /\ h.req.kind = "reserve" /\ w \in WorkOrders /\ h.idx \in DOMAIN Demand[w]
      /\ \A q \in Requested(w) : h.copy[q].state # "absent"
  BY <1>1 DEF HandlerOK, SagaCommands, ReservePcs
<1>3. PICK p \in Parts : p = Demand[w][h.idx].part /\ p \in Requested(w)
  BY <1>2, DemandItem
<1> DEFINE next == IF h.idx < Len(Demand[w]) THEN "write" ELSE "record"
           g == [h EXCEPT !.moved[p] = 0, !.pc = next, !.idx = h.idx + 1]
<1>4. SavePart(o, p, g)
  BY <1>3 DEF ReserveWrite
<1>5. /\ g.req = h.req /\ g.copy = h.copy /\ g.stale = h.stale
      /\ g.moved[p] = 0 /\ \A q \in Parts \ {p} : g.moved[q] = h.moved[q]
  BY <1>1 DEF Handler
<1> HIDE DEF g
<1>6. op'[o] = g
  BY <1>4 DEF SavePart
<1>7. \A q \in Parts : CopyExact(op[o], q)'
  <2> SUFFICES ASSUME NEW q \in Parts, g.copy[q].state # "absent", q \notin g.stale
               PROVE  CopyExact(op[o], q)'
    BY <1>6 DEF CopyExact
  <2>1. /\ h.copy[q] = ReserveUnits(parts[q], h.moved[q]) /\ parts[q].state = "live"
        /\ h.moved[q] \in {0, Asked(w, q)} /\ h.moved[q] <= parts[q].available
    BY <1>2, <1>5 DEF AllExact, CopyExact, Due
  <2>2. /\ h.copy[q] \in PartDoc /\ parts[q] \in PartDoc /\ h.moved[q] \in Nat
        /\ h.copy[q].available \in Nat
    BY <1>1 DEF Handler, IInv, TypeOK, PartDoc
  <2>3. CASE q = p
    <3>1. parts'[q] = h.copy[q]
      BY <1>4, <2>3 DEF SavePart, IInv, TypeOK
    <3>2. parts'[q].state = "live"
      BY <2>1, <2>2, <3>1, ReserveUnitsMoves
    <3>3. op'[o].copy[q] = ReserveUnits(parts'[q], 0)
      BY <1>5, <1>6, <2>2, <3>1, ReserveNothing
    <3> QED
      BY <1>2, <1>5, <1>6, <2>2, <2>3, <3>1, <3>2, <3>3 DEF CopyExact, Due
  <2>4. CASE q # p
    <3>1. parts'[q] = parts[q]
      BY <1>4, <2>4 DEF SavePart, IInv, TypeOK
    <3> QED
      BY <1>2, <1>5, <1>6, <2>1, <2>4, <3>1 DEF CopyExact, Due
  <2> QED
    BY <2>3, <2>4
<1> QED
  BY <1>4, <1>7, SaveExact

LEMMA SettleWriteExact ==
    ASSUME IInv, AllExact, NEW o \in Ops, SettleWrite(o)
    PROVE  AllExact'
<1> DEFINE h == op[o]
           w == h.req.order
           g == NextItem(h)
<1>1. HandlerOK(h) /\ h.pc = "settle" /\ h \in Handler
  BY DEF IInv, TypeOK, SettleWrite
<1>2. w \in WorkOrders /\ h.idx \in DOMAIN Demand[w]
  BY <1>1 DEF HandlerOK, SagaCommands, SettlePcs
<1>3. PICK p \in Parts : p = Demand[w][h.idx].part
  BY <1>2, DemandItem
<1>4. SavePart(o, p, g)
  BY <1>3 DEF SettleWrite
<1>5. \A q \in Parts : g.copy[q].state = "absent"
  BY <1>1, <1>2, NextItemFields
<1> HIDE DEF g
<1>6. op'[o] = g
  BY <1>4 DEF SavePart
<1> QED
  BY <1>4, <1>5, <1>6, BlankExact, SaveExact

LEMMA AdminSaveExact ==
    ASSUME IInv, AllExact, NEW o \in Ops, AdminSave(o)
    PROVE  AllExact'
<1>1. HandlerOK(op[o]) /\ op[o].pc = "save"
  BY DEF IInv, AdminSave
<1>2. PICK p \in Parts : p = op[o].req.part
  BY <1>1 DEF HandlerOK, AdminPcs, AdminCalls
<1>3. SavePart(o, p, Idle)
  BY <1>2 DEF AdminSave
<1>4. op'[o] = Idle
  BY <1>3 DEF SavePart
<1> QED
  BY <1>3, <1>4, IdleFields, BlankExact, SaveExact

LEMMA CreatePartExact ==
    ASSUME IInv, AllExact, NEW p \in Parts, CreatePart(p)
    PROVE  AllExact'
<1> SUFFICES ASSUME NEW x \in Ops, NEW q \in Parts PROVE CopyExact(op[x], q)'
  BY DEF AllExact
<1>1. op' = op /\ parts[p].state = "absent" /\ \A z \in Parts \ {p} : parts'[z] = parts[z]
  BY DEF IInv, TypeOK, CreatePart
<1>2. op[x].copy[p].state = "absent"
  BY <1>1 DEF IInv, CopyCurrent
<1>3. CopyExact(op[x], q)
  BY DEF AllExact
<1> QED
  BY <1>1, <1>2, <1>3 DEF CopyExact, Due

LEMMA StepExact ==
    ASSUME IInv, AllExact, NEW o \in Ops, Step(o)
    PROVE  AllExact'
<1>1. CASE ReserveFind(o)
  <2>1. PICK pc : op' = [op EXCEPT ![o] = Blank(pc, op[o].req)]
    BY <1>1 DEF ReserveFind, StartWork, Goto, Continue
  <2> QED
    BY <1>1, <2>1, GotoExact DEF ReserveFind, store
<1>2. CASE ReserveCheck(o)
  BY <1>2, ReserveCheckExact
<1>3. CASE ReserveWrite(o)
  BY <1>3, ReserveWriteExact
<1>4. CASE ReserveRecord(o)
  <2>1. PICK pc : op' = [op EXCEPT ![o] = Blank(pc, op[o].req)]
    BY <1>4 DEF ReserveRecord, Refuse, Goto, Continue
  <2> QED
    BY <1>4, <2>1, GotoExact DEF ReserveRecord
<1>5. CASE PublishReserved(o) \/ PublishFailed(o)
  BY <1>5, GotoExact
     DEF PublishReserved, PublishFailed, End, Continue, Idle, store
<1>6. CASE SettleFind(o)
  <2>1. PICK pc, r : op' = [op EXCEPT ![o] = Blank(pc, r)]
    BY <1>6 DEF SettleFind, StartWork, Goto, End, Continue, Idle
  <2> QED
    BY <1>6, <2>1, GotoExact DEF SettleFind, store
<1>7. CASE SettleLoad(o)
  BY <1>7, SettleLoadExact
<1>8. CASE SettleWrite(o)
  BY <1>8, SettleWriteExact
<1>9. CASE SettleClose(o)
  BY <1>9, GotoExact DEF SettleClose, End, Continue, Idle
<1>10. CASE UpdatePart(o) \/ RestockPart(o) \/ DeletePart(o)
  BY <1>10, AdminEditExact DEF UpdatePart, RestockPart, DeletePart
<1>11. CASE AdminSave(o)
  BY <1>11, AdminSaveExact
<1> QED
  BY <1>1, <1>2, <1>3, <1>4, <1>5, <1>6, <1>7, <1>8, <1>9, <1>10, <1>11 DEF Step

LEMMA NextExact == IInv /\ AllExact /\ [Next]_vars => AllExact'
<1> SUFFICES ASSUME IInv, AllExact, [Next]_vars PROVE AllExact'
  OBVIOUS
<1>1. ASSUME NEW o \in Ops, NEW r \in Requests, Call(o, r) PROVE AllExact'
  BY <1>1, GotoExact DEF Call, Continue, store
<1>2. ASSUME NEW o \in Ops, Step(o) PROVE AllExact'
  BY <1>2, StepExact
<1>3. ASSUME NEW p \in Parts, CreatePart(p) PROVE AllExact'
  BY <1>3, CreatePartExact
<1>4. CASE Crash
  <2>1. \A o \in Ops : op'[o] = Idle
    BY <1>4 DEF Crash
  <2> QED
    BY <2>1, IdleFields DEF AllExact, CopyExact
<1>5. ASSUME NEW o \in Ops, Fault(o) PROVE AllExact'
  <2>1. PICK pc, r : op' = [op EXCEPT ![o] = Blank(pc, r)]
    BY <1>5 DEF Fault, AfterThrow, Continue, Idle
  <2> QED
    BY <1>5, <2>1, GotoExact DEF Fault, store
<1>6. CASE UNCHANGED vars
  BY <1>6 DEF vars, store, AllExact, CopyExact, Due
<1> QED
  BY <1>1, <1>2, <1>3, <1>4, <1>5, <1>6 DEF Next

\* In every reachable state what a handler has in memory, and has not been
\* overtaken in, is its operation applied to the document of that moment, within
\* the guard of the operation.
THEOREM CopiesAreExact == Spec => []AccountInv
<1>1. Init => AccountInv
  BY InitIInv, InitExact DEF AccountInv, AllExact
<1>2. AccountInv /\ [Next]_vars => AccountInv'
  BY NextIInv, NextExact DEF AccountInv, AllExact
<1> QED
  BY <1>1, <1>2, PTL DEF Spec

-----------------------------------------------------------------------------
(* Every step keeps the account. *)

LEMMA BalanceOf ==
    ASSUME NEW p \in Parts
    PROVE  /\ p \notin clobbered =>
                  Balance[p] = [doc |-> parts[p], held |-> [w \in WorkOrders |-> held[w][p]]]
           /\ p \in clobbered => Balance[p] = Account!OVERWRITTEN
BY DEF Balance, Account!OVERWRITTEN

\* The accounts of the parts that a step does not touch stay as they are.
Untouched(p) ==
    \A q \in Parts \ {p} : parts'[q] = parts[q] /\ (q \in clobbered') = (q \in clobbered)

HeldElsewhere(p) ==
    \A v \in WorkOrders : \A q \in Parts \ {p} : held'[v][q] = held[v][q]

LEMMA BalanceMoves ==
    ASSUME NEW p \in Parts, NEW b, Untouched(p), HeldElsewhere(p),
           Balance'[p] = b
    PROVE  Balance' = [Balance EXCEPT ![p] = b]
<1>1. \A q \in Parts \ {p} :
         [w \in WorkOrders |-> held'[w][q]] = [w \in WorkOrders |-> held[w][q]]
  BY DEF HeldElsewhere
<1>2. \A q \in Parts \ {p} : Balance'[q] = Balance[q]
  BY <1>1 DEF Balance, Untouched
<1>3. DOMAIN Balance = Parts /\ DOMAIN Balance' = Parts
  BY DEF Balance
<1>4. Balance = [q \in Parts |-> Balance[q]] /\ Balance' = [q \in Parts |-> Balance'[q]]
  BY DEF Balance
<1> HIDE DEF Balance
<1> QED
  BY <1>2, <1>3, <1>4

\* What the three kinds of write have in common.
LEMMA SaveElsewhere ==
    ASSUME IInv, NEW o \in Ops, NEW p \in Parts, NEW h, SavePart(o, p, h)
    PROVE  /\ Untouched(p)
           /\ parts'[p] = op[o].copy[p]
           /\ p \notin clobbered' => p \notin clobbered /\ p \notin op[o].stale
BY DEF SavePart, IInv, TypeOK, Untouched

\* What a write does to the holdings of the order it is for.
LEMMA HeldBooked ==
    ASSUME IInv, NEW w \in WorkOrders, NEW p \in Parts, NEW n \in Int,
           held' = [held EXCEPT ![w][p] = @ + n]
    PROVE  /\ HeldElsewhere(p)
           /\ [v \in WorkOrders |-> held'[v][p]] =
                 [[v \in WorkOrders |-> held[v][p]] EXCEPT ![w] = @ + n]
<1>1. held \in [WorkOrders -> [Parts -> Int]]
  BY DEF IInv, TypeOK
<1> QED
  BY <1>1 DEF HeldElsewhere

LEMMA OverwriteStep ==
    ASSUME IInv, NEW o \in Ops, NEW p \in Parts, NEW h, SavePart(o, p, h),
           HeldElsewhere(p), p \in clobbered'
    PROVE  Account!Next
<1>1. Balance'[p] = Account!OVERWRITTEN
  BY DEF Balance, Account!OVERWRITTEN
<1>2. Balance' = [Balance EXCEPT ![p] = Account!OVERWRITTEN]
  BY <1>1, SaveElsewhere, BalanceMoves
<1> QED
  BY <1>2 DEF Account!Next, Account!Overwrite

LEMMA ReserveWriteAccount ==
    ASSUME AccountInv, NEW o \in Ops, ReserveWrite(o)
    PROVE  [Account!Next]_Balance
<1> DEFINE h == op[o]
           w == h.req.order
<1>1. IInv /\ HandlerOK(h) /\ h.pc = "write" /\ h \in Handler
  BY DEF AccountInv, IInv, TypeOK, ReserveWrite
<1>2. /\ h.req.kind = "reserve" /\ w \in WorkOrders /\ h.idx \in DOMAIN Demand[w]
      /\ \A q \in Requested(w) : h.copy[q].state # "absent"
  BY <1>1 DEF HandlerOK, SagaCommands, ReservePcs
<1>3. PICK p \in Parts : p = Demand[w][h.idx].part /\ p \in Requested(w)
  BY <1>2, DemandItem
<1> DEFINE n == h.moved[p]
<1>4. PICK g : SavePart(o, p, g)
  BY <1>3 DEF ReserveWrite
<1>5. n \in Int /\ held' = [held EXCEPT ![w][p] = @ + n]
  <2>1. n \in Nat
    BY <1>1 DEF Handler
  <2>2. held' = [held EXCEPT ![w][p] = @ + n]
    BY <1>3 DEF ReserveWrite
  <2> QED
    BY <2>1, <2>2
<1>6. /\ HeldElsewhere(p)
      /\ [v \in WorkOrders |-> held'[v][p]] =
            [[v \in WorkOrders |-> held[v][p]] EXCEPT ![w] = @ + n]
  <2> HIDE DEF w, n
  <2>1. IInv /\ w \in WorkOrders
    BY <1>1, <1>2
  <2> QED
    BY <1>5, <2>1, HeldBooked, ZenonT(30)
<1>7. CASE p \in clobbered'
  BY <1>1, <1>4, <1>6, <1>7, OverwriteStep
<1>8. CASE p \notin clobbered'
  <2>1. /\ p \notin clobbered /\ p \notin h.stale /\ parts'[p] = h.copy[p]
        /\ Untouched(p)
    BY <1>1, <1>4, <1>8, SaveElsewhere
  <2>2. /\ parts'[p] = ReserveUnits(parts[p], n) /\ parts[p].state = "live"
        /\ n \in {0, Asked(w, p)} /\ n <= parts[p].available
    BY <1>2, <1>3, <2>1 DEF AccountInv, CopyExact, Due
  <2> DEFINE before == [v \in WorkOrders |-> held[v][p]]
             b == [doc |-> ReserveUnits(parts[p], n), held |-> [before EXCEPT ![w] = @ + n]]
  <2>3. Balance[p] = [doc |-> parts[p], held |-> before]
    BY <2>1, BalanceOf
  <2>4. Balance'[p] = b
    BY <1>6, <1>8, <2>2 DEF Balance
  <2> HIDE DEF b
  <2>5. Balance' = [Balance EXCEPT ![p] = b]
    BY <1>6, <2>1, <2>4, BalanceMoves
  <2>6. CASE n = Asked(w, p)
    <3>1. Balance' = [Balance EXCEPT ![p] = [doc |-> ReserveUnits(Balance[p].doc, n),
                                             held |-> [Balance[p].held EXCEPT ![w] = @ + n]]]
      BY <2>3, <2>5 DEF b
    <3>2. Balance[p].doc = parts[p] /\ Needed[w][p] = n
      BY <1>2, <2>3, <2>6 DEF Needed
    <3>3. Account!Reserve(w, p)
      BY <2>2, <3>1, <3>2 DEF Account!Reserve, Account!BookFor, ReserveUnits
    <3> QED
      BY <1>2, <3>3 DEF Account!Next
  <2>7. CASE n = 0
    <3>1. parts[p] \in PartDoc
      BY <1>1 DEF IInv, TypeOK
    <3>2. [before EXCEPT ![w] = @ + n] = before
      <4>1. held[w][p] \in Int
        BY <1>1, <1>2 DEF IInv, TypeOK
      <4>2. before[w] + n = before[w]
        BY <1>2, <2>7, <4>1
      <4> HIDE DEF n
      <4> QED
        BY <4>2
    <3>3. b = Balance[p]
      BY <2>3, <2>7, <3>1, <3>2, ReserveNothing DEF b
    <3>4. Balance' = Balance
      BY <2>5, <3>3 DEF Balance
    <3> QED
      BY <3>4
  <2> QED
    BY <2>2, <2>6, <2>7
<1> QED
  BY <1>7, <1>8

LEMMA SettleWriteAccount ==
    ASSUME AccountInv, NEW o \in Ops, SettleWrite(o)
    PROVE  [Account!Next]_Balance
<1> DEFINE h == op[o]
           w == h.req.order
<1>1. IInv /\ HandlerOK(h) /\ h.pc = "settle" /\ h \in Handler
  BY DEF AccountInv, IInv, TypeOK, SettleWrite
<1>2. /\ h.req.kind \in {"release", "consume"} /\ w \in WorkOrders
      /\ h.idx \in DOMAIN Demand[w]
      /\ h.copy[Demand[w][h.idx].part].state # "absent"
  BY <1>1 DEF HandlerOK, SagaCommands, SettlePcs
<1>3. PICK p \in Parts : p = Demand[w][h.idx].part
  BY <1>2, DemandItem
<1> DEFINE n == h.moved[p]
<1>4. PICK g : SavePart(o, p, g)
  BY <1>3 DEF SettleWrite
<1>5. n \in Nat /\ held' = [held EXCEPT ![w][p] = @ + -n]
  <2>1. n \in Nat
    BY <1>1 DEF Handler
  <2>2. held' = [held EXCEPT ![w][p] = @ - n]
    BY <1>3 DEF SettleWrite
  <2>3. held[w][p] - n = held[w][p] + -n
    <3>1. held[w][p] \in Int
      BY <1>1, <1>2 DEF IInv, TypeOK
    <3> HIDE DEF n
    <3> QED
      BY <2>1, <3>1
  <2> QED
    BY <2>1, <2>2, <2>3
<1>6. /\ HeldElsewhere(p)
      /\ [v \in WorkOrders |-> held'[v][p]] =
            [[v \in WorkOrders |-> held[v][p]] EXCEPT ![w] = @ + -n]
  <2> HIDE DEF w, n
  <2>1. IInv /\ w \in WorkOrders
    BY <1>1, <1>2
  <2>2. -n \in Int
    BY <1>5
  <2>3. PICK d \in Int : d = -n
    BY <2>2
  <2>4. held' = [held EXCEPT ![w][p] = @ + d]
    BY <1>5, <2>3
  <2>5. /\ HeldElsewhere(p)
        /\ [v \in WorkOrders |-> held'[v][p]] =
              [[v \in WorkOrders |-> held[v][p]] EXCEPT ![w] = @ + d]
    BY <2>1, <2>4, HeldBooked, ZenonT(30)
  <2> QED
    BY <2>3, <2>5
<1>7. CASE p \in clobbered'
  BY <1>1, <1>4, <1>6, <1>7, OverwriteStep
<1>8. CASE p \notin clobbered'
  <2>1. /\ p \notin clobbered /\ p \notin h.stale /\ parts'[p] = h.copy[p]
        /\ Untouched(p)
    BY <1>1, <1>4, <1>8, SaveElsewhere
  <2>2. /\ parts'[p] = Due(parts[p], h, p) /\ parts[p].state = "live"
        /\ n <= parts[p].reserved
    BY <1>2, <1>3, <2>1 DEF AccountInv, CopyExact
  <2> DEFINE before == [v \in WorkOrders |-> held[v][p]]
             b == [doc |-> Due(parts[p], h, p), held |-> [before EXCEPT ![w] = @ + -n]]
  <2>3. Balance[p] = [doc |-> parts[p], held |-> before]
    BY <2>1, BalanceOf
  <2>4. Balance'[p] = b
    BY <1>6, <1>8, <2>2 DEF Balance
  <2> HIDE DEF b
  <2>5. Balance' = [Balance EXCEPT ![p] = b]
    BY <1>6, <2>1, <2>4, BalanceMoves
  <2>6. /\ Balance[p].doc = parts[p] /\ n \in 0..Balance[p].doc.reserved
        /\ Balance[p].held = before
    <3>1. parts[p].reserved \in Nat
      BY <1>1 DEF IInv, TypeOK, PartDoc
    <3> QED
      BY <1>5, <2>2, <2>3, <3>1
  <2>7. CASE h.req.kind = "release"
    <3>1. b = [doc |-> ReleaseUnits(Balance[p].doc, n),
               held |-> [Balance[p].held EXCEPT ![w] = @ + -n]]
      BY <2>6, <2>7 DEF b, Due
    <3>2. Account!Release(w, p)
      <4> HIDE DEF n
      <4> QED
        BY <2>2, <2>5, <2>6, <3>1 DEF Account!Release, Account!BookFor, ReleaseUnits
    <3> QED
      BY <1>2, <3>2 DEF Account!Next
  <2>8. CASE h.req.kind = "consume"
    <3>1. b = [doc |-> ConsumeUnits(Balance[p].doc, n),
               held |-> [Balance[p].held EXCEPT ![w] = @ + -n]]
      BY <2>6, <2>8 DEF b, Due
    <3>2. Account!Consume(w, p)
      <4> HIDE DEF n
      <4> QED
        BY <2>2, <2>5, <2>6, <3>1 DEF Account!Consume, Account!BookFor, ConsumeUnits
    <3> QED
      BY <1>2, <3>2 DEF Account!Next
  <2> QED
    BY <1>2, <2>7, <2>8
<1> QED
  BY <1>7, <1>8

LEMMA AdminSaveAccount ==
    ASSUME AccountInv, NEW o \in Ops, AdminSave(o)
    PROVE  [Account!Next]_Balance
<1> DEFINE h == op[o]
           r == h.req
<1>1. IInv /\ HandlerOK(h) /\ h.pc = "save" /\ held' = held
  BY DEF AccountInv, IInv, AdminSave
<1>2. r \in AdminCalls /\ h.copy[r.part].state # "absent" /\ ValidEdit(r)
  BY <1>1 DEF HandlerOK, AdminPcs
<1>3. PICK p \in Parts : p = r.part
  BY <1>2 DEF AdminCalls
<1>4. SavePart(o, p, Idle) /\ HeldElsewhere(p)
  BY <1>1, <1>3 DEF AdminSave, HeldElsewhere
<1>5. CASE p \in clobbered'
  BY <1>1, <1>4, <1>5, OverwriteStep
<1>6. CASE p \notin clobbered'
  <2>1. /\ p \notin clobbered /\ p \notin h.stale /\ parts'[p] = h.copy[p]
        /\ Untouched(p)
    BY <1>1, <1>4, <1>6, SaveElsewhere
  <2>2. r.kind \in {"restock", "update", "delete"}
    BY <1>2 DEF AdminCalls
  <2>3. parts'[p] = Edited(parts[p], r) /\ parts[p].state = "live"
    BY <1>2, <1>3, <2>1, <2>2 DEF AccountInv, CopyExact, Due
  <2> DEFINE before == [v \in WorkOrders |-> held[v][p]]
  <2>4. Balance[p] = [doc |-> parts[p], held |-> before]
    BY <2>1, BalanceOf
  <2>5. Balance'[p] = [doc |-> Edited(parts[p], r), held |-> before]
    BY <1>1, <1>6, <2>3 DEF Balance
  <2>6. Balance' = [Balance EXCEPT ![p] = [doc |-> Edited(parts[p], r), held |-> before]]
    BY <1>4, <2>1, <2>5, BalanceMoves
  <2>7. Balance' = [Balance EXCEPT ![p].doc = Edited(parts[p], r)]
    <3>1. [Balance[p] EXCEPT !.doc = Edited(parts[p], r)] =
             [doc |-> Edited(parts[p], r), held |-> before]
      BY <2>4
    <3> QED
      BY <2>6, <3>1
  <2>8. Balance[p].doc = parts[p]
    BY <2>4
  <2>9. CASE r.kind = "restock"
    <3>1. r.amount \in RestockQuantities
      BY <1>2, <2>9 DEF AdminCalls
    <3>2. Account!Restock(p)
      BY <2>3, <2>7, <2>8, <2>9, <3>1 DEF Account!Restock, Account!Book, Edited
    <3> QED
      BY <3>2 DEF Account!Next
  <2>10. CASE r.kind = "update"
    <3>1. r.amount \in Prices /\ r.amount <= MaxCents
      BY <1>2, <2>10 DEF AdminCalls, ValidEdit
    <3>2. r.amount \in 0..MaxCents
      BY <3>1, InputType, CatalogType
    <3>3. Account!Reprice(p)
      BY <2>3, <2>7, <2>8, <2>10, <3>2 DEF Account!Reprice, Account!Book, Edited
    <3> QED
      BY <3>3 DEF Account!Next
  <2>11. CASE r.kind = "delete"
    <3>1. Account!Close(p)
      BY <2>3, <2>7, <2>8, <2>11 DEF Account!Close, Account!Book, Edited, Deleted
    <3> QED
      BY <3>1 DEF Account!Next
  <2> QED
    BY <2>2, <2>9, <2>10, <2>11
<1> QED
  BY <1>5, <1>6

LEMMA CreatePartAccount ==
    ASSUME IInv, NEW p \in Parts, CreatePart(p)
    PROVE  [Account!Next]_Balance
<1>1. /\ held' = held /\ clobbered' = clobbered
      /\ parts[p].state = "absent" /\ parts'[p] = FreshPart(p)
      /\ \A q \in Parts \ {p} : parts'[q] = parts[q]
  BY DEF IInv, TypeOK, CreatePart
<1>2. Untouched(p) /\ HeldElsewhere(p)
  BY <1>1 DEF Untouched, HeldElsewhere
<1>3. CASE p \in clobbered
  <2>1. Balance' = [Balance EXCEPT ![p] = Balance[p]]
    BY <1>1, <1>2, <1>3, BalanceMoves DEF Balance
  <2>2. Balance' = Balance
    BY <2>1 DEF Balance
  <2> QED
    BY <2>2
<1>4. CASE p \notin clobbered
  <2> DEFINE before == [v \in WorkOrders |-> held[v][p]]
  <2>1. Balance[p] = [doc |-> parts[p], held |-> before]
    BY <1>4, BalanceOf
  <2>2. Balance'[p] = [doc |-> FreshPart(p), held |-> before]
    BY <1>1, <1>4 DEF Balance
  <2>3. Balance' = [Balance EXCEPT ![p] = [doc |-> FreshPart(p), held |-> before]]
    BY <1>2, <2>2, BalanceMoves
  <2>4. Balance' = [Balance EXCEPT ![p].doc = FreshPart(p)]
    <3>1. [Balance[p] EXCEPT !.doc = FreshPart(p)] = [doc |-> FreshPart(p), held |-> before]
      BY <2>1
    <3> QED
      BY <2>3, <3>1
  <2>5. Account!Open(p)
    BY <1>1, <2>1, <2>4
       DEF Account!Open, Account!Book, Account!Registered, FreshPart
  <2> QED
    BY <2>5 DEF Account!Next
<1> QED
  BY <1>3, <1>4

LEMMA InitAccount == Init => Account!Init
<1> SUFFICES ASSUME Init PROVE Account!Init
  OBVIOUS
<1>1. Account!NotThere = Absent /\ \A p \in Parts : Account!Registered(p) = FreshPart(p)
  BY DEF Account!NotThere, Account!Registered, Absent, FreshPart
<1>2. \A p \in Parts : [w \in WorkOrders |-> held[w][p]] = Account!Nobody
  BY DEF Init, Account!Nobody
<1>3. Balance = [p \in Parts |->
                   [doc |-> IF p \in Stocked THEN Account!Registered(p)
                                             ELSE Account!NotThere,
                    held |-> Account!Nobody]]
  BY <1>1, <1>2 DEF Init, Balance
<1>4. Stocked \in SUBSET Parts
  BY CatalogType
<1> QED
  BY <1>3, <1>4 DEF Account!Init

LEMMA NextAccount == AccountInv /\ [Next]_vars => [Account!Next]_Balance
<1> SUFFICES ASSUME AccountInv, [Next]_vars PROVE [Account!Next]_Balance
  OBVIOUS
<1>1. IInv
  BY DEF AccountInv
<1>2. ASSUME UNCHANGED <<parts, held, clobbered>> PROVE [Account!Next]_Balance
  BY <1>2 DEF Balance
<1>3. ASSUME NEW o \in Ops, NEW r \in Requests, Call(o, r) PROVE [Account!Next]_Balance
  BY <1>2, <1>3 DEF Call, store, history
<1>4. ASSUME NEW o \in Ops, Step(o) PROVE [Account!Next]_Balance
  <2>1. CASE ReserveWrite(o)
    BY <2>1, ReserveWriteAccount
  <2>2. CASE SettleWrite(o)
    BY <2>2, SettleWriteAccount
  <2>3. CASE AdminSave(o)
    BY <2>3, AdminSaveAccount
  <2>4. CASE ReserveFind(o) \/ ReserveCheck(o) \/ ReserveRecord(o)
    BY <1>2, <2>4 DEF ReserveFind, ReserveCheck, ReserveRecord, store, history
  <2>5. CASE PublishReserved(o) \/ PublishFailed(o)
    BY <1>2, <2>5 DEF PublishReserved, PublishFailed, store, history
  <2>6. CASE SettleFind(o) \/ SettleLoad(o) \/ SettleClose(o)
    BY <1>2, <2>6 DEF SettleFind, SettleLoad, SettleClose, store, history
  <2>7. CASE UpdatePart(o) \/ RestockPart(o) \/ DeletePart(o)
    BY <1>2, <2>7 DEF UpdatePart, RestockPart, DeletePart, AdminEdit, store, history
  <2> QED
    BY <1>4, <2>1, <2>2, <2>3, <2>4, <2>5, <2>6, <2>7 DEF Step
<1>5. ASSUME NEW p \in Parts, CreatePart(p) PROVE [Account!Next]_Balance
  BY <1>1, <1>5, CreatePartAccount
<1>6. CASE Crash
  BY <1>2, <1>6 DEF Crash, store
<1>7. ASSUME NEW o \in Ops, Fault(o) PROVE [Account!Next]_Balance
  BY <1>2, <1>7 DEF Fault, store
<1>8. CASE UNCHANGED vars
  BY <1>2, <1>8 DEF vars, store, history
<1> QED
  BY <1>3, <1>4, <1>5, <1>6, <1>7, <1>8 DEF Next

\* Although reserving, settling, restocking, repricing and deleting a part are
\* each a read, a pause and a write, they take effect one at a time on the
\* quantities of that moment, and move exactly the units they are for, except on
\* parts written from an overtaken read.
THEOREM ImplementsAccount == Spec => KeepsAccount
<1>1. Init => Account!Init
  BY InitAccount
<1>2. AccountInv /\ [Next]_vars => [Account!Next]_Balance
  BY NextAccount
<1> QED
  BY <1>1, <1>2, CopiesAreExact, PTL DEF Spec, KeepsAccount, Account!Spec
=============================================================================
