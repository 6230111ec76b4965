--------------------------- MODULE ExecutionsProofs ---------------------------
(***************************************************************************)
(* The inductive invariant of Executions, what follows from it, and that   *)
(* Executions implements Lifecycle, for any orders, diagnostics, budgets   *)
(* and number of handlers in flight.                                       *)
(***************************************************************************)
EXTENDS ExecutionsLifecycle, FiniteSetTheorems, TLAPS

-----------------------------------------------------------------------------
(* Requests and documents. *)

LEMMA RequestFields ==
    ASSUME NEW r \in Requests
    PROVE  /\ r.order \in WorkOrders
           /\ r.kind \in {"start", "repair", "complete", "fail", "diagnose"}
           /\ r.kind = "diagnose" => r.note \in Notes
<1>1. CASE r \in [kind: {"start", "repair", "complete", "fail"}, order: WorkOrders]
  BY <1>1
<1>2. CASE r \in [kind: {"diagnose"}, order: WorkOrders, note: Notes]
  BY <1>2
<1> QED
  BY <1>1, <1>2 DEF Requests

LEMMA BlankFields ==
    ASSUME NEW pc, NEW r
    PROVE  /\ Blank(pc, r).pc = pc /\ Blank(pc, r).req = r
           /\ pc \in Pcs /\ r \in Requests \cup {NoRequest} => Blank(pc, r) \in Handler
BY DEF Blank, Handler

LEMMA IdleFields == Idle \in Handler /\ Idle.pc = "idle"
BY BlankFields DEF Idle, Pcs

LEMMA QueuedType == Queued \in ExecutionDoc
BY DEF Queued, ExecutionDoc, Active

\* What a request that is accepted makes of a document.
LEMMA AppliedDoc ==
    ASSUME NEW doc \in ExecutionDoc \cup {Missing}, NEW r \in Requests,
           r.kind \in Mechanics, Accepts(doc, r)
    PROVE  /\ doc \in ExecutionDoc /\ doc.status \in Active
           /\ Applied(doc, r) \in ExecutionDoc
           /\ Applied(doc, r).status # "QUEUED"
           /\ r.kind \in {"complete", "fail"} => Applied(doc, r).status = Outcome(r.kind)
           /\ r.kind = "diagnose" =>
                 /\ r.note \in Notes \ BlankNotes
                 /\ Applied(doc, r).diagnostics = Append(doc.diagnostics, r.note)
           /\ r.kind # "diagnose" => Applied(doc, r).diagnostics = doc.diagnostics
<1>1. doc.status \in Active
  BY DEF Accepts, Mechanics, Completable, Failable, Active
<1>2. doc \in ExecutionDoc /\ doc.diagnostics \in Seq(Notes \ BlankNotes)
  BY <1>1 DEF Missing, Active, ExecutionDoc
<1>3. CASE r.kind = "diagnose"
  <2>1. r.note \in Notes \ BlankNotes
    BY <1>3, RequestFields DEF Accepts, Describes
  <2>2. Applied(doc, r) = Diagnosed(doc, r.note)
    BY <1>3 DEF Applied
  <2>3. Append(doc.diagnostics, r.note) \in Seq(Notes \ BlankNotes)
    BY <1>2, <2>1
  <2> QED
    BY <1>1, <1>2, <1>3, <2>1, <2>2, <2>3 DEF Diagnosed, ExecutionDoc, Active
<1>4. CASE r.kind = "repair"
  BY <1>1, <1>2, <1>4 DEF Applied, Repaired, ExecutionDoc, Active
<1>5. CASE r.kind = "complete"
  BY <1>1, <1>2, <1>5 DEF Applied, ExecutionDoc, Active, Terminal, Outcome
<1>6. CASE r.kind = "fail"
  BY <1>1, <1>2, <1>6 DEF Applied, ExecutionDoc, Active, Terminal, Outcome
<1> QED
  BY <1>3, <1>4, <1>5, <1>6 DEF Mechanics

LEMMA TellingFinite ==
    ASSUME NEW w PROVE IsFiniteSet(Telling(w)) /\ Cardinality(Telling(w)) \in Nat
<1>1. Telling(w) \subseteq Ops
  BY DEF Telling
<1> QED
  BY <1>1, OpsFinite, FS_Subset, FS_CardinalityType

-----------------------------------------------------------------------------
(* The initial states. *)

LEMMA InitIInv == Init => IInv
<1> SUFFICES ASSUME Init PROVE IInv
  OBVIOUS
<1>1. \A o \in Ops : op[o] = Idle
  BY DEF Init
<1>2. TypeOK
  BY <1>1, IdleFields DEF Init, TypeOK
<1>3. DiagnosticsKept /\ OneOutcomeTold
  BY DEF Init, DiagnosticsKept, OneOutcomeTold, Missing, Terminal
<1>4. OutcomePending /\ \A o \in Ops : HandlerOK(op[o])
  BY <1>1, IdleFields DEF OutcomePending, WillTell, HandlerOK
<1>5. ConsumptionsCover
  <2> SUFFICES ASSUME NEW w \in WorkOrders
               PROVE  told[w]["COMPLETED"] + Cardinality(Telling(w)) <= consumed[w]
    BY DEF ConsumptionsCover
  <2>1. Telling(w) = {}
    BY <1>1, IdleFields DEF Telling
  <2>2. Cardinality(Telling(w)) = 0
    BY <2>1, FS_EmptySet
  <2> QED
    BY <2>2 DEF Init, Terminal
<1> QED
  BY <1>2, <1>3, <1>4, <1>5 DEF IInv

-----------------------------------------------------------------------------
(* Steps that write nothing. *)

\* A step that changes handlers only, and puts none in a position to tell the
\* saga, keeps the invariant if the handlers fit their places.
LEMMA QuietStep ==
    ASSUME IInv, UNCHANGED <<executions, told, recorded, consumed, clobbered>>, TypeOK',
           \A x \in Ops : HandlerOK(op[x])',
           \A x \in Ops : op'[x].pc \in {"consume", "publish"} => op'[x] = op[x]
    PROVE  IInv'
<1>1. DiagnosticsKept' /\ OneOutcomeTold'
  BY DEF IInv, DiagnosticsKept, OneOutcomeTold
<1>2. OutcomePending'
  BY DEF IInv, OutcomePending, WillTell
<1>3. ConsumptionsCover'
  <2> SUFFICES ASSUME NEW w \in WorkOrders
               PROVE  told'[w]["COMPLETED"] + Cardinality(Telling(w)') <= consumed'[w]
    BY DEF ConsumptionsCover
  <2>1. Telling(w)' \subseteq Telling(w)
    BY DEF Telling
  <2>2. Cardinality(Telling(w)') <= Cardinality(Telling(w)) /\ Cardinality(Telling(w)') \in Nat
    BY <2>1, TellingFinite, FS_Subset, FS_CardinalityType
  <2>3. told[w]["COMPLETED"] + Cardinality(Telling(w)) <= consumed[w]
    BY DEF IInv, ConsumptionsCover
  <2>4. told[w]["COMPLETED"] \in Nat /\ consumed[w] \in Nat
    BY DEF IInv, TypeOK, Terminal
  <2> QED
    BY <2>2, <2>3, <2>4, TellingFinite
<1> QED
  BY <1>1, <1>2, <1>3 DEF IInv

\* A handler that goes on at pc, or ends.
LEMMA BlankStep ==
    ASSUME IInv, NEW o \in Ops,
           UNCHANGED <<executions, told, recorded, consumed, clobbered>>,
           calls' \in [Requests -> Nat], crashes' \in Nat, faults' \in Nat,
           NEW pc \in {"idle", "find", "create"}, NEW r \in Requests \cup {NoRequest},
           pc # "idle" => r \in Requests,
           pc = "create" => r.kind = "start",
           op' = [op EXCEPT ![o] = Blank(pc, r)]
    PROVE  IInv'
<1>1. op'[o] = Blank(pc, r) /\ \A x \in Ops \ {o} : op'[x] = op[x]
  BY DEF IInv, TypeOK
<1>2. op'[o].pc = pc /\ op'[o].req = r
  BY <1>1, BlankFields
<1>3. op' \in [Ops -> Handler]
  <2>1. Blank(pc, r) \in Handler
    BY BlankFields DEF Pcs
  <2> QED
    BY <2>1 DEF IInv, TypeOK
<1>4. TypeOK'
  BY <1>3 DEF IInv, TypeOK
<1>5. \A x \in Ops : HandlerOK(op[x])'
  <2>1. HandlerOK(op[o])'
    BY <1>2 DEF HandlerOK
  <2>2. \A x \in Ops \ {o} : HandlerOK(op[x])'
    BY <1>1 DEF IInv, HandlerOK
  <2> QED
    BY <2>1, <2>2
<1>6. \A x \in Ops : op'[x].pc \in {"consume", "publish"} => op'[x] = op[x]
  BY <1>1, <1>2
<1> QED
  BY <1>4, <1>5, <1>6, QuietStep

LEMMA CallStep ==
    ASSUME IInv, NEW o \in Ops, NEW r \in Requests, Call(o, r)
    PROVE  IInv'
<1>1. op' = [op EXCEPT ![o] = Blank("find", r)]
  BY DEF Call, Continue
<1>2. calls' \in [Requests -> Nat] /\ crashes' \in Nat /\ faults' \in Nat
  BY DEF IInv, TypeOK, Call
<1>3. UNCHANGED <<executions, told, recorded, consumed, clobbered>>
  BY DEF Call, history
<1> QED
  BY <1>1, <1>2, <1>3, BlankStep

LEMMA StartFindStep ==
    ASSUME IInv, NEW o \in Ops, StartFind(o)
    PROVE  IInv'
<1>1. calls' \in [Requests -> Nat] /\ crashes' \in Nat /\ faults' \in Nat
  BY DEF IInv, TypeOK, StartFind, budget
<1>2. UNCHANGED <<executions, told, recorded, consumed, clobbered>>
  BY DEF StartFind, history
<1>3. op[o].req \in Requests /\ op[o].req.kind = "start"
  BY DEF IInv, HandlerOK, StartFind
<1>4. CASE op' = [op EXCEPT ![o] = Blank("create", op[o].req)]
  BY <1>1, <1>2, <1>3, <1>4, BlankStep
<1>5. CASE op' = [op EXCEPT ![o] = Blank("idle", NoRequest)]
  BY <1>1, <1>2, <1>5, BlankStep
<1> QED
  BY <1>4, <1>5 DEF StartFind, Goto, End, Continue, Idle

LEMMA FindStep ==
    ASSUME IInv, NEW o \in Ops, Find(o)
    PROVE  IInv'
<1> DEFINE h == op[o]
           r == h.req
<1>1. calls' \in [Requests -> Nat] /\ crashes' \in Nat /\ faults' \in Nat
  BY DEF IInv, TypeOK, Find, budget
<1>2. UNCHANGED <<executions, told, recorded, consumed, clobbered>>
  BY DEF Find, history
<1>3. h \in Handler /\ h.pc = "find" /\ r \in Requests /\ r.kind \in Mechanics
  BY DEF IInv, TypeOK, HandlerOK, Find
<1>4. PICK w \in WorkOrders : w = r.order
  BY <1>3, RequestFields
<1>5. executions[w] \in ExecutionDoc \cup {Missing}
  BY DEF IInv, TypeOK
<1>6. CASE Accepts(executions[w], r)
  <2> DEFINE new == Applied(executions[w], r)
             g == [h EXCEPT !.pc = "update", !.copy = new]
  <2>1. op' = [op EXCEPT ![o] = g]
    BY <1>4, <1>6 DEF Find, Continue
  <2>2. /\ new \in ExecutionDoc /\ new.status # "QUEUED"
        /\ executions[w].status \in Active
        /\ r.kind = "diagnose" => Describes(r.note)
    BY <1>3, <1>5, <1>6, AppliedDoc DEF Accepts
  <2>3. g \in Handler /\ g.pc = "update" /\ g.req = r /\ g.copy = new
    <3> HIDE DEF new
    <3> QED
      BY <1>3, <2>2 DEF Handler, Pcs
  <2> HIDE DEF g
  <2>4. op'[o] = g /\ \A x \in Ops \ {o} : op'[x] = op[x]
    BY <2>1 DEF IInv, TypeOK
  <2>5. TypeOK'
    BY <1>1, <1>2, <2>1, <2>3 DEF IInv, TypeOK
  <2>6. HandlerOK(op[o])'
    <3>1. executions' = executions /\ op'[o].req.order = w
      BY <1>2, <1>4, <2>3, <2>4
    <3>2. op'[o].copy = Applied(executions'[w], op'[o].req)
      BY <2>3, <2>4, <3>1
    <3>3. Accepts(executions'[w], op'[o].req)
      BY <1>6, <2>3, <2>4, <3>1
    <3> HIDE DEF new
    <3>4. executions'[w].status # "NONE"
      BY <2>2, <3>1 DEF Active
    <3> QED
      BY <1>3, <2>2, <2>3, <2>4, <3>1, <3>2, <3>3, <3>4 DEF HandlerOK
  <2>7. \A x \in Ops \ {o} : HandlerOK(op[x])'
    BY <1>2, <2>4 DEF IInv, HandlerOK
  <2>8. \A x \in Ops : op'[x].pc \in {"consume", "publish"} => op'[x] = op[x]
    BY <2>3, <2>4
  <2> QED
    BY <1>2, <2>5, <2>6, <2>7, <2>8, QuietStep
<1>7. CASE ~Accepts(executions[w], r)
  <2>1. op' = [op EXCEPT ![o] = Blank("idle", NoRequest)]
    BY <1>4, <1>7 DEF Find, End, Continue, Idle
  <2> QED
    BY <1>1, <1>2, <2>1, BlankStep
<1> QED
  BY <1>6, <1>7

LEMMA FaultStep ==
    ASSUME IInv, NEW o \in Ops, Fault(o)
    PROVE  IInv'
<1>1. op' = [op EXCEPT ![o] = Blank("idle", NoRequest)]
  BY DEF Fault, End, Continue, Idle
<1>2. calls' \in [Requests -> Nat] /\ crashes' \in Nat /\ faults' \in Nat
  BY DEF IInv, TypeOK, Fault
<1>3. UNCHANGED <<executions, told, recorded, consumed, clobbered>>
  BY DEF Fault, history
<1> QED
  BY <1>1, <1>2, <1>3, BlankStep

LEMMA CrashStep ==
    ASSUME IInv, Crash
    PROVE  IInv'
<1>1. \A x \in Ops : op'[x] = Idle
  BY DEF Crash
<1>2. UNCHANGED <<executions, told, recorded, consumed, clobbered>>
  BY DEF Crash, history
<1>3. TypeOK'
  BY <1>2, IdleFields DEF IInv, TypeOK, Crash
<1>4. \A x \in Ops : HandlerOK(op[x])'
  BY <1>1, IdleFields DEF HandlerOK
<1>5. \A x \in Ops : op'[x].pc \notin {"consume", "publish"}
  BY <1>1, IdleFields
<1> QED
  BY <1>2, <1>3, <1>4, <1>5, QuietStep

-----------------------------------------------------------------------------
(* Steps that write a document or tell the saga. *)

\* While there is no document nobody has told, or will tell, an outcome.
LEMMA NothingToTell ==
    ASSUME IInv, NEW w \in WorkOrders \ clobbered, executions[w].status \notin Terminal
    PROVE  /\ \A s \in Terminal : told[w][s] = 0
           /\ \A o \in Ops : ~WillTell(op[o], w)
<1>1. \A s \in Terminal : told[w][s] \in Nat
  BY DEF IInv, TypeOK
<1>2. \A s \in Terminal : told[w][s] = 0
  BY <1>1 DEF IInv, OneOutcomeTold
<1>3. \A o \in Ops : ~WillTell(op[o], w)
  BY DEF IInv, OutcomePending, Outcome, Terminal
<1> QED
  BY <1>2, <1>3

LEMMA CreateStep ==
    ASSUME IInv, NEW o \in Ops, Create(o)
    PROVE  IInv'
<1>1. op[o].req \in Requests /\ op[o].pc = "create"
  BY DEF IInv, HandlerOK, Create
<1>2. PICK w \in WorkOrders : w = op[o].req.order
  BY <1>1, RequestFields
<1>3. /\ op' = [op EXCEPT ![o] = Blank("idle", NoRequest)]
      /\ UNCHANGED <<told, calls, crashes, faults, recorded, consumed, clobbered>>
  BY DEF Create, End, Continue, Idle, budget, history
<1>4. CASE executions[w].status # "NONE"
  <2>1. executions' = executions
    BY <1>2, <1>4 DEF Create
  <2> QED
    BY <1>3, <2>1, BlankStep DEF IInv, TypeOK
<1>5. CASE executions[w].status = "NONE"
  <2>1. /\ executions' \in [WorkOrders -> ExecutionDoc \cup {Missing}]
        /\ executions'[w] = Queued
        /\ \A v \in WorkOrders \ {w} : executions'[v] = executions[v]
    BY <1>2, <1>5, QueuedType DEF Create, IInv, TypeOK
  <2>2. op'[o] = Idle /\ \A x \in Ops \ {o} : op'[x] = op[x]
    BY <1>3 DEF IInv, TypeOK, Idle
  <2>3. executions[w] = Missing
    BY <1>5 DEF IInv, TypeOK, ExecutionDoc, Active, Terminal
  <2>4. TypeOK'
    BY <1>3, <2>1, IdleFields DEF IInv, TypeOK, Idle
  <2>5. DiagnosticsKept'
    BY <1>3, <2>1, <2>3 DEF IInv, DiagnosticsKept, Queued, Missing
  <2>6. w \notin clobbered => /\ \A s \in Terminal : told[w][s] = 0
                              /\ \A x \in Ops : ~WillTell(op[x], w)
    BY <1>5, NothingToTell DEF Terminal
  <2>7. OneOutcomeTold'
    BY <1>3, <2>1, <2>6 DEF IInv, OneOutcomeTold, Terminal
  <2>8. OutcomePending'
    <3> SUFFICES ASSUME NEW v \in WorkOrders \ clobbered, NEW x \in Ops, WillTell(op'[x], v)
                 PROVE  /\ executions'[v].status = Outcome(op'[x].req.kind)
                        /\ told'[v]["COMPLETED"] + told'[v]["FAILED"] = 0
                        /\ \A y \in Ops : WillTell(op'[y], v) => y = x
      BY <1>3 DEF OutcomePending, WillTell
    <3>1. \A y \in Ops : WillTell(op'[y], v) => op'[y] = op[y] /\ WillTell(op[y], v)
      BY <2>2, IdleFields DEF WillTell
    <3>2. v # w
      BY <2>6, <3>1
    <3> QED
      BY <1>3, <2>1, <3>1, <3>2 DEF IInv, OutcomePending
  <2>9. ConsumptionsCover'
    <3>1. \A v : Telling(v)' = Telling(v)
      BY <1>1, <2>2, IdleFields DEF Telling
    <3> QED
      BY <1>3, <3>1 DEF IInv, ConsumptionsCover
  <2>10. \A x \in Ops : HandlerOK(op[x])'
    <3>1. HandlerOK(op[o])'
      BY <2>2, IdleFields DEF HandlerOK
    <3>2. ASSUME NEW x \in Ops \ {o} PROVE HandlerOK(op[x])'
      <4>1. HandlerOK(op[x]) /\ op'[x] = op[x]
        BY <2>2 DEF IInv
      <4>2. op[x].pc = "update" =>
               /\ op[x].req.order \in WorkOrders \ {w}
               /\ executions'[op[x].req.order] = executions[op[x].req.order]
        BY <1>5, <2>1, <4>1, RequestFields DEF HandlerOK
      <4> QED
        BY <4>1, <4>2 DEF HandlerOK
    <3> QED
      BY <3>1, <3>2
  <2> QED
    BY <2>4, <2>5, <2>7, <2>8, <2>9, <2>10 DEF IInv
<1> QED
  BY <1>4, <1>5

LEMMA UpdateStep ==
    ASSUME IInv, NEW o \in Ops, Update(o)
    PROVE  IInv'
<1> DEFINE h == op[o]
           r == h.req
<1>1. /\ h \in Handler /\ h.pc = "update" /\ r \in Requests /\ r.kind \in Mechanics
      /\ h.copy \in ExecutionDoc /\ h.copy.status # "QUEUED"
  BY DEF IInv, TypeOK, HandlerOK, Update
<1>2. PICK w \in WorkOrders : w = r.order
  BY <1>1, RequestFields
<1>3. UNCHANGED <<told, calls, crashes, faults, consumed>>
  BY DEF Update, budget
<1>4. /\ executions' \in [WorkOrders -> ExecutionDoc \cup {Missing}]
      /\ executions'[w] = h.copy
      /\ \A v \in WorkOrders \ {w} : executions'[v] = executions[v]
  BY <1>1, <1>2 DEF Update, IInv, TypeOK
<1>5. /\ op'[o] = AfterUpdate(r)
      /\ \A x \in Ops \ {o} : op'[x] = Overtake(op[x], w)
  BY <1>2 DEF Update
<1>6. /\ op'[o] \in Handler
      /\ \/ op'[o].pc = "idle"
         \/ op'[o].pc = "consume" /\ op'[o].req = r /\ r.kind = "complete"
         \/ op'[o].pc = "publish" /\ op'[o].req = r /\ r.kind = "fail"
  <2>1. AfterUpdate(r) \in {Blank("consume", r), Blank("publish", r), Idle}
    BY DEF AfterUpdate
  <2>2. r.kind = "complete" => AfterUpdate(r) = Blank("consume", r)
    BY DEF AfterUpdate
  <2>3. r.kind = "fail" => AfterUpdate(r) = Blank("publish", r)
    BY DEF AfterUpdate
  <2>4. r.kind \notin {"complete", "fail"} => AfterUpdate(r) = Idle
    BY DEF AfterUpdate
  <2> QED
    BY <1>1, <1>5, <2>1, <2>2, <2>3, <2>4, BlankFields, IdleFields DEF Pcs
<1>7. \A x \in Ops \ {o} :
         /\ op'[x] \in Handler
         /\ op'[x].pc = op[x].pc /\ op'[x].req = op[x].req /\ op'[x].copy = op[x].copy
         /\ op'[x].stale = (op[x].stale \/ (op[x].pc = "update" /\ op[x].req.order = w))
  <2> SUFFICES ASSUME NEW x \in Ops \ {o}
               PROVE  LET g == Overtake(op[x], w)
                      IN  /\ g \in Handler
                          /\ g.pc = op[x].pc /\ g.req = op[x].req /\ g.copy = op[x].copy
                          /\ g.stale = (op[x].stale \/ (op[x].pc = "update" /\ op[x].req.order = w))
    BY <1>5
  <2>1. op[x] \in Handler
    BY DEF IInv, TypeOK
  <2> QED
    BY <2>1 DEF Overtake, Handler
<1>8. h.stale \in BOOLEAN /\ clobbered' = clobbered \cup (IF h.stale THEN {w} ELSE {})
  BY <1>1, <1>2 DEF Handler, Update
\* If the document is not overwritten blindly, the request was still acceptable.
<1>9. w \notin clobbered' =>
         /\ w \notin clobbered /\ ~h.stale
         /\ Accepts(executions[w], r) /\ h.copy = Applied(executions[w], r)
  BY <1>1, <1>2, <1>8 DEF IInv, HandlerOK
<1>10. executions[w] \in ExecutionDoc \cup {Missing}
  BY DEF IInv, TypeOK
<1>11. w \notin clobbered' =>
          /\ executions[w].status \notin Terminal
          /\ r.kind \in {"complete", "fail"} => h.copy.status = Outcome(r.kind)
          /\ r.kind = "diagnose" => h.copy.diagnostics = Append(executions[w].diagnostics, r.note)
          /\ r.kind # "diagnose" => h.copy.diagnostics = executions[w].diagnostics
  BY <1>1, <1>9, <1>10, AppliedDoc DEF Active, Terminal
<1>12. w \notin clobbered' => /\ \A s \in Terminal : told[w][s] = 0
                              /\ \A x \in Ops : ~WillTell(op[x], w)
  BY <1>9, <1>11, NothingToTell
<1>13. r.kind = "diagnose" => r.note \in Notes \ BlankNotes
  BY <1>1, RequestFields DEF IInv, HandlerOK, Describes
<1>14. /\ recorded' \in [WorkOrders -> Seq(Notes \ BlankNotes)]
       /\ recorded'[w] = IF r.kind = "diagnose" THEN Append(recorded[w], r.note)
                                                ELSE recorded[w]
       /\ \A v \in WorkOrders \ {w} : recorded'[v] = recorded[v]
  <2>1. recorded \in [WorkOrders -> Seq(Notes \ BlankNotes)]
    BY DEF IInv, TypeOK
  <2>2. CASE r.kind = "diagnose"
    <3>1. recorded' = [recorded EXCEPT ![w] = Append(recorded[w], r.note)]
      BY <1>2, <2>2 DEF Update
    <3>2. Append(recorded[w], r.note) \in Seq(Notes \ BlankNotes)
      BY <1>13, <2>1, <2>2
    <3> QED
      BY <2>1, <2>2, <3>1, <3>2
  <2>3. CASE r.kind # "diagnose"
    BY <2>1, <2>3 DEF Update
  <2> QED
    BY <2>2, <2>3
<1>15. TypeOK'
  <2>1. op' \in [Ops -> Handler]
    <3>1. \A x \in Ops : op'[x] \in Handler
      BY <1>6, <1>7
    <3> QED
      BY <3>1 DEF Update
  <2>2. clobbered' \in SUBSET WorkOrders
    BY <1>8 DEF IInv, TypeOK
  <2> QED
    BY <1>3, <1>4, <1>14, <2>1, <2>2 DEF IInv, TypeOK
<1>16. \A v \in WorkOrders \ {w} : v \in clobbered' <=> v \in clobbered
  BY <1>8
<1>17. DiagnosticsKept'
  <2> SUFFICES ASSUME NEW v \in WorkOrders \ clobbered'
               PROVE  executions'[v].diagnostics = recorded'[v]
    BY DEF DiagnosticsKept
  <2>1. CASE v = w
    BY <1>4, <1>9, <1>11, <1>14, <2>1 DEF IInv, DiagnosticsKept
  <2>2. CASE v # w
    BY <1>4, <1>14, <1>16, <2>2 DEF IInv, DiagnosticsKept
  <2> QED
    BY <2>1, <2>2
<1>18. OneOutcomeTold'
  <2> SUFFICES ASSUME NEW v \in WorkOrders \ clobbered'
               PROVE  /\ told'[v]["COMPLETED"] + told'[v]["FAILED"] <= 1
                      /\ \A s \in Terminal : told'[v][s] > 0 => executions'[v].status = s
    BY DEF OneOutcomeTold
  <2>1. CASE v = w
    BY <1>3, <1>12, <2>1 DEF Terminal
  <2>2. CASE v # w
    BY <1>3, <1>4, <1>16, <2>2 DEF IInv, OneOutcomeTold
  <2> QED
    BY <2>1, <2>2
<1>19. \A v \in WorkOrders, x \in Ops \ {o} : WillTell(op'[x], v) <=> WillTell(op[x], v)
  BY <1>7 DEF WillTell
<1>20. \A v \in WorkOrders \ {w} : ~WillTell(op'[o], v)
  BY <1>2, <1>6 DEF WillTell
<1>21. OutcomePending'
  <2> SUFFICES ASSUME NEW v \in WorkOrders \ clobbered', NEW x \in Ops, WillTell(op'[x], v)
               PROVE  /\ executions'[v].status = Outcome(op'[x].req.kind)
                      /\ told'[v]["COMPLETED"] + told'[v]["FAILED"] = 0
                      /\ \A y \in Ops : WillTell(op'[y], v) => y = x
    BY DEF OutcomePending, WillTell
  <2>1. CASE v = w
    <3>1. x = o /\ \A y \in Ops : WillTell(op'[y], v) => y = o
      BY <1>12, <1>19, <2>1
    <3>2. op'[o].req = r /\ r.kind \in {"complete", "fail"}
      BY <1>6, <3>1 DEF WillTell
    <3> QED
      BY <1>3, <1>4, <1>11, <1>12, <2>1, <3>1, <3>2 DEF Terminal
  <2>2. CASE v # w
    <3>1. x # o /\ WillTell(op[x], v) /\ v \notin clobbered
      BY <1>16, <1>19, <1>20, <2>2
    <3> QED
      BY <1>3, <1>4, <1>7, <1>19, <1>20, <2>2, <3>1 DEF IInv, OutcomePending
  <2> QED
    BY <2>1, <2>2
<1>22. ConsumptionsCover'
  <2>1. \A v : Telling(v)' = Telling(v)
    BY <1>1, <1>6, <1>7 DEF Telling
  <2> QED
    BY <1>3, <2>1 DEF IInv, ConsumptionsCover
<1>23. \A x \in Ops : HandlerOK(op[x])'
  <2>1. HandlerOK(op[o])'
    BY <1>1, <1>6 DEF HandlerOK
  <2>2. ASSUME NEW x \in Ops \ {o} PROVE HandlerOK(op[x])'
    <3>1. HandlerOK(op[x])
      BY DEF IInv
    <3>2. executions'[w].status # "NONE"
      BY <1>1, <1>4 DEF ExecutionDoc, Active, Terminal
    <3>3. CASE op[x].pc # "update"
      BY <1>7, <3>1, <3>3 DEF HandlerOK
    <3>4. CASE op[x].pc = "update" /\ op[x].req.order = w
      BY <1>7, <3>1, <3>2, <3>4 DEF HandlerOK
    <3>5. CASE op[x].pc = "update" /\ op[x].req.order # w
      <4>1. op[x].req.order \in WorkOrders
        BY <3>1, <3>5, RequestFields DEF HandlerOK
      <4>2. executions'[op[x].req.order] = executions[op[x].req.order]
        BY <1>4, <3>5, <4>1
      <4> QED
        BY <1>7, <3>1, <3>5, <4>2 DEF HandlerOK
    <3> QED
      BY <3>3, <3>4, <3>5
  <2> QED
    BY <2>1, <2>2
<1> QED
  BY <1>15, <1>17, <1>18, <1>21, <1>22, <1>23 DEF IInv

\* A handler that has put an outcome on record is the one its order waits for.
LEMMA TellerFields ==
    ASSUME IInv, NEW o \in Ops, op[o].pc \in {"consume", "publish"}
    PROVE  /\ op[o].req \in Requests /\ op[o].req.order \in WorkOrders
           /\ op[o].req.kind \in {"complete", "fail"}
           /\ op[o].pc = "consume" => op[o].req.kind = "complete"
BY RequestFields DEF IInv, HandlerOK

LEMMA ConsumeStep ==
    ASSUME IInv, NEW o \in Ops, Consume(o)
    PROVE  IInv'
<1> DEFINE r == op[o].req
<1>1. op[o].pc = "consume" /\ r \in Requests /\ r.kind = "complete"
  BY TellerFields DEF Consume
<1>2. PICK w \in WorkOrders : w = r.order
  BY <1>1, TellerFields
<1>3. UNCHANGED <<executions, told, calls, crashes, faults, recorded, clobbered>>
  BY DEF Consume, budget
<1>4. /\ consumed' \in [WorkOrders -> Nat] /\ consumed[w] \in Nat
      /\ consumed'[w] = consumed[w] + 1
      /\ \A v \in WorkOrders \ {w} : consumed'[v] = consumed[v]
  BY <1>2 DEF Consume, IInv, TypeOK
<1>5. /\ op' = [op EXCEPT ![o] = Blank("publish", r)]
      /\ Blank("publish", r) \in Handler
  BY <1>1, BlankFields DEF Consume, Goto, Continue, Pcs
<1>6. /\ op'[o].pc = "publish" /\ op'[o].req = r
      /\ \A x \in Ops \ {o} : op'[x] = op[x]
  BY <1>5, BlankFields DEF IInv, TypeOK
<1>7. TypeOK'
  BY <1>3, <1>4, <1>5 DEF IInv, TypeOK
<1>8. DiagnosticsKept' /\ OneOutcomeTold'
  BY <1>3 DEF IInv, DiagnosticsKept, OneOutcomeTold
<1>9. \A v \in WorkOrders, x \in Ops :
         /\ WillTell(op'[x], v) <=> WillTell(op[x], v)
         /\ op'[x].req = op[x].req
  BY <1>1, <1>6 DEF WillTell
<1>10. OutcomePending'
  BY <1>3, <1>9 DEF IInv, OutcomePending
<1>11. ConsumptionsCover'
  <2> SUFFICES ASSUME NEW v \in WorkOrders
               PROVE  told'[v]["COMPLETED"] + Cardinality(Telling(v)') <= consumed'[v]
    BY DEF ConsumptionsCover
  <2>1. told[v]["COMPLETED"] \in Nat /\ consumed[v] \in Nat
    BY DEF IInv, TypeOK, Terminal
  <2>2. told[v]["COMPLETED"] + Cardinality(Telling(v)) <= consumed[v]
    BY DEF IInv, ConsumptionsCover
  <2>3. CASE v = w
    <3>1. Telling(v)' = Telling(v) \cup {o} /\ o \notin Telling(v)
      BY <1>1, <1>2, <1>6, <2>3 DEF Telling
    <3>2. Cardinality(Telling(v)') = Cardinality(Telling(v)) + 1
      BY <3>1, TellingFinite, FS_AddElement
    <3> QED
      BY <1>3, <1>4, <2>1, <2>2, <2>3, <3>2, TellingFinite
  <2>4. CASE v # w
    <3>1. Telling(v)' = Telling(v)
      BY <1>1, <1>2, <1>6, <2>4 DEF Telling
    <3> QED
      BY <1>3, <1>4, <2>2, <2>4, <3>1
  <2> QED
    BY <2>3, <2>4
<1>12. \A x \in Ops : HandlerOK(op[x])'
  <2>1. HandlerOK(op[o])'
    BY <1>1, <1>6 DEF HandlerOK
  <2>2. \A x \in Ops \ {o} : HandlerOK(op[x])'
    BY <1>3, <1>6 DEF IInv, HandlerOK
  <2> QED
    BY <2>1, <2>2
<1> QED
  BY <1>7, <1>8, <1>10, <1>11, <1>12 DEF IInv

LEMMA PublishStep ==
    ASSUME IInv, NEW o \in Ops, Publish(o)
    PROVE  IInv'
<1> DEFINE r == op[o].req
           s == Outcome(r.kind)
<1>1. op[o].pc = "publish" /\ r \in Requests /\ r.kind \in {"complete", "fail"}
  BY TellerFields DEF Publish
<1>2. PICK w \in WorkOrders : w = r.order
  BY <1>1, TellerFields
<1>3. UNCHANGED <<executions, calls, crashes, faults, recorded, consumed, clobbered>>
  BY DEF Publish, budget, history
<1>4. s \in Terminal /\ (s = "COMPLETED" <=> r.kind = "complete")
  BY <1>1 DEF Outcome, Terminal
<1>5. /\ told' \in [WorkOrders -> [Terminal -> Nat]]
      /\ told'[w][s] = told[w][s] + 1
      /\ \A t \in Terminal \ {s} : told'[w][t] = told[w][t]
      /\ \A v \in WorkOrders \ {w} : told'[v] = told[v]
  <2> HIDE DEF s
  <2>1. told \in [WorkOrders -> [Terminal -> Nat]]
    BY DEF IInv, TypeOK
  <2>2. told' = [told EXCEPT ![w] = [told[w] EXCEPT ![s] = told[w][s] + 1]]
    BY <1>2 DEF Publish, s
  <2>3. [told[w] EXCEPT ![s] = told[w][s] + 1] \in [Terminal -> Nat]
    BY <1>4, <2>1
  <2> QED
    BY <1>4, <2>1, <2>2, <2>3
<1>6. op'[o] = Idle /\ \A x \in Ops \ {o} : op'[x] = op[x]
  BY DEF Publish, End, Continue, IInv, TypeOK
<1>7. TypeOK'
  BY <1>3, <1>5, <1>6, IdleFields DEF IInv, TypeOK, Publish, End, Continue
<1>8. DiagnosticsKept'
  BY <1>3 DEF IInv, DiagnosticsKept
<1>9. w \notin clobbered =>
         /\ executions[w].status = s
         /\ told[w]["COMPLETED"] + told[w]["FAILED"] = 0
         /\ \A x \in Ops : WillTell(op[x], w) => x = o
  BY <1>1, <1>2 DEF IInv, OutcomePending, WillTell
<1>10. OneOutcomeTold'
  <2> SUFFICES ASSUME NEW v \in WorkOrders \ clobbered
               PROVE  /\ told'[v]["COMPLETED"] + told'[v]["FAILED"] <= 1
                      /\ \A t \in Terminal : told'[v][t] > 0 => executions'[v].status = t
    BY <1>3 DEF OneOutcomeTold
  <2>1. CASE v = w
    <3>1. told[w]["COMPLETED"] \in Nat /\ told[w]["FAILED"] \in Nat
      BY DEF IInv, TypeOK, Terminal
    <3>2. told[w]["COMPLETED"] = 0 /\ told[w]["FAILED"] = 0
      BY <1>9, <2>1, <3>1
    <3> HIDE DEF s
    <3> QED
      BY <1>3, <1>4, <1>5, <1>9, <2>1, <3>2 DEF Terminal
  <2>2. CASE v # w
    BY <1>3, <1>5, <2>2 DEF IInv, OneOutcomeTold
  <2> QED
    BY <2>1, <2>2
<1>11. \A v \in WorkOrders, x \in Ops :
          WillTell(op'[x], v) => x # o /\ op'[x] = op[x]
  BY <1>6, IdleFields DEF WillTell
<1>12. OutcomePending'
  <2> SUFFICES ASSUME NEW v \in WorkOrders \ clobbered, NEW x \in Ops, WillTell(op'[x], v)
               PROVE  /\ executions'[v].status = Outcome(op'[x].req.kind)
                      /\ told'[v]["COMPLETED"] + told'[v]["FAILED"] = 0
                      /\ \A y \in Ops : WillTell(op'[y], v) => y = x
    BY <1>3 DEF OutcomePending, WillTell
  <2>1. x # o /\ op'[x] = op[x] /\ WillTell(op[x], v)
    BY <1>11 DEF WillTell
  <2>2. v # w
    BY <1>9, <2>1
  <2>3. \A y \in Ops : WillTell(op'[y], v) => WillTell(op[y], v)
    BY <1>11 DEF WillTell
  <2> QED
    BY <1>3, <1>5, <2>1, <2>2, <2>3 DEF IInv, OutcomePending
<1>13. ConsumptionsCover'
  <2> SUFFICES ASSUME NEW v \in WorkOrders
               PROVE  told'[v]["COMPLETED"] + Cardinality(Telling(v)') <= consumed'[v]
    BY DEF ConsumptionsCover
  <2>1. told[v]["COMPLETED"] \in Nat /\ consumed[v] \in Nat
    BY DEF IInv, TypeOK, Terminal
  <2>2. told[v]["COMPLETED"] + Cardinality(Telling(v)) <= consumed[v]
    BY DEF IInv, ConsumptionsCover
  <2>3. CASE v = w /\ r.kind = "complete"
    <3>1. Telling(v)' = Telling(v) \ {o} /\ o \in Telling(v)
      BY <1>1, <1>2, <1>6, <2>3, IdleFields DEF Telling
    <3>2. Cardinality(Telling(v)') = Cardinality(Telling(v)) - 1
      BY <3>1, TellingFinite, FS_RemoveElement
    <3>3. told'[v]["COMPLETED"] = told[v]["COMPLETED"] + 1
      BY <1>4, <1>5, <2>3
    <3> QED
      BY <1>3, <2>1, <2>2, <3>2, <3>3, TellingFinite
  <2>4. CASE ~(v = w /\ r.kind = "complete")
    <3>1. Telling(v)' = Telling(v)
      BY <1>1, <1>2, <1>6, <2>4, IdleFields DEF Telling
    <3>2. told'[v]["COMPLETED"] = told[v]["COMPLETED"]
      BY <1>4, <1>5, <2>4 DEF Terminal
    <3> QED
      BY <1>3, <2>2, <3>1, <3>2
  <2> QED
    BY <2>3, <2>4
<1>14. \A x \in Ops : HandlerOK(op[x])'
  <2>1. HandlerOK(op[o])'
    BY <1>6, IdleFields DEF HandlerOK
  <2>2. \A x \in Ops \ {o} : HandlerOK(op[x])'
    BY <1>3, <1>6 DEF IInv, HandlerOK
  <2> QED
    BY <2>1, <2>2
<1> QED
  BY <1>7, <1>8, <1>10, <1>12, <1>13, <1>14 DEF IInv

-----------------------------------------------------------------------------
(* The theorems. *)

LEMMA NextIInv == IInv /\ [Next]_vars => IInv'
<1> SUFFICES ASSUME IInv, [Next]_vars PROVE IInv'
  OBVIOUS
<1>1. ASSUME NEW o \in Ops, NEW r \in Requests, Call(o, r) PROVE IInv'
  BY <1>1, CallStep
<1>2. ASSUME NEW o \in Ops, Step(o) PROVE IInv'
  BY <1>2, StartFindStep, CreateStep, FindStep, UpdateStep, ConsumeStep, PublishStep
     DEF Step, AddDiagnostic, StartRepair, CompleteExecution, FailExecution
<1>3. CASE Crash
  BY <1>3, CrashStep
<1>4. ASSUME NEW o \in Ops, Fault(o) PROVE IInv'
  BY <1>4, FaultStep
<1>5. CASE UNCHANGED vars
  <2>1. UNCHANGED <<executions, told, calls, crashes, faults, op, recorded, consumed,
                    clobbered>>
    BY <1>5 DEF vars, budget, history
  <2>2. TypeOK' /\ \A x \in Ops : HandlerOK(op[x])'
    BY <2>1 DEF IInv, TypeOK, HandlerOK
  <2> QED
    BY <2>1, <2>2, QuietStep
<1> QED
  BY <1>1, <1>2, <1>3, <1>4, <1>5 DEF Next

\* IInv holds in every state the handlers can reach.
THEOREM InductiveInvariant == Spec => []IInv
<1> QED
  BY InitIInv, NextIInv, PTL DEF Spec

\* Documents, handlers and counters stay well formed, and no diagnostic without
\* a description is stored, however handlers interleave, fail or die.
THEOREM TypeCorrect == Spec => []TypeOK
BY InductiveInvariant, PTL DEF IInv

\* The saga is told one outcome once, the one on record, unless an overtaken
\* write intervened.
THEOREM OneOutcome == Spec => []OneOutcomeTold
<1>1. IInv => OneOutcomeTold
  BY DEF IInv
<1> QED
  BY <1>1, InductiveInvariant, PTL

\* execution.completed is never published more often than the parts were
\* consumed, in any race and after any failure.
THEOREM ConsumedFirst == Spec => []ConsumedBeforeTold
<1>1. IInv => ConsumedBeforeTold
  <2> SUFFICES ASSUME IInv, NEW w \in WorkOrders PROVE told[w]["COMPLETED"] <= consumed[w]
    BY DEF ConsumedBeforeTold
  <2>1. told[w]["COMPLETED"] \in Nat /\ consumed[w] \in Nat
    BY DEF IInv, TypeOK, Terminal
  <2> QED
    BY <2>1, TellingFinite DEF IInv, ConsumptionsCover
<1> QED
  BY <1>1, InductiveInvariant, PTL

\* Accepted diagnostics stay in the document, in order, unless an overtaken write
\* intervened.
THEOREM DiagnosticsAreKept == Spec => []DiagnosticsKept
<1>1. IInv => DiagnosticsKept
  BY DEF IInv
<1> QED
  BY <1>1, InductiveInvariant, PTL

\* A redelivered or duplicated execution.start never requeues an execution.
THEOREM NothingIsRequeued == Spec => NeverRequeued
<1> DEFINE NoRequeue ==
        \A w \in WorkOrders :
            executions[w].status # "NONE" /\ executions'[w].status = "QUEUED" =>
                executions'[w] = executions[w]
<1>1. IInv /\ [Next]_vars => [NoRequeue]_vars
  <2> SUFFICES ASSUME IInv, Next, NEW w \in WorkOrders,
                      executions[w].status # "NONE", executions'[w].status = "QUEUED"
               PROVE  executions'[w] = executions[w]
    OBVIOUS
  <2>1. CASE \E o \in Ops : Update(o)
    <3>1. PICK o \in Ops : Update(o)
      BY <2>1
    <3>2. op[o].copy.status # "QUEUED"
      BY <3>1 DEF IInv, HandlerOK, Update
    <3>3. executions' = [executions EXCEPT ![op[o].req.order] = op[o].copy]
      BY <3>1 DEF Update
    <3> QED
      BY <3>2, <3>3 DEF IInv, TypeOK
  <2>2. CASE \E o \in Ops : Create(o)
    BY <2>2 DEF Create, IInv, TypeOK
  <2>3. CASE ~\E o \in Ops : Update(o) \/ Create(o)
    BY <2>3 DEF Next, Step, Call, StartFind, AddDiagnostic, StartRepair,
                CompleteExecution, FailExecution, Find, Consume, Publish, Crash, Fault
  <2> QED
    BY <2>1, <2>2, <2>3
<1> QED
  BY <1>1, InductiveInvariant, PTL DEF Spec, NeverRequeued

-----------------------------------------------------------------------------
(* Executions implements Lifecycle. *)

\* What an outsider sees of all orders.
Lives == [w \in WorkOrders |-> LifeOf(w)]

\* The promise made of w changes with w's own document and outcome only.
LEMMA OtherLives ==
    ASSUME NEW w \in WorkOrders, executions'[w] = executions[w], told'[w] = told[w],
           w \in clobbered' <=> w \in clobbered
    PROVE  LifeOf(w)' = LifeOf(w)
BY DEF LifeOf, ToldOutcome

LEMMA OneLife ==
    ASSUME NEW w \in WorkOrders, \A v \in WorkOrders \ {w} : LifeOf(v)' = LifeOf(v)
    PROVE  /\ Lives' = [Lives EXCEPT ![w] = LifeOf(w)']
           /\ LifeOf(w)' = LifeOf(w) => Lives' = Lives
BY DEF Lives

\* A change of status is a move of the promise.
LEMMA MoveMaps ==
    ASSUME NEW w \in WorkOrders, \A v \in WorkOrders \ {w} : LifeOf(v)' = LifeOf(v),
           NEW from, NEW to,
           w \notin clobbered, w \notin clobbered', told'[w] = told[w],
           executions[w].status \in from, executions'[w].status = to
    PROVE  Promise!Move(w, from, to)
<1>1. /\ LifeOf(w) = [status |-> executions[w].status, told |-> ToldOutcome(w)]
      /\ LifeOf(w)' = [status |-> to, told |-> ToldOutcome(w)]
  BY DEF LifeOf, ToldOutcome
<1>2. LifeOf(w)' = [LifeOf(w) EXCEPT !.status = to] /\ LifeOf(w).status \in from
  BY <1>1
<1>3. Lives[w] = LifeOf(w)
  BY DEF Lives
<1>4. Lives' = [Lives EXCEPT ![w].status = to] /\ Lives[w].status \in from
  BY <1>2, <1>3, OneLife
<1> QED
  BY <1>4 DEF Promise!Move, Lives

LEMMA InitMaps == Init => Promise!Init
BY DEF Init, Promise!Init, Promise!Life, LifeOf, ToldOutcome, Missing, Terminal

LEMMA CreateMaps ==
    ASSUME IInv, NEW o \in Ops, Create(o)
    PROVE  Promise!Next \/ Lives' = Lives
<1>1. op[o].req \in Requests /\ UNCHANGED <<told, clobbered>>
  BY DEF IInv, HandlerOK, Create, history
<1>2. PICK w \in WorkOrders : w = op[o].req.order
  BY <1>1, RequestFields
<1>3. \A v \in WorkOrders \ {w} : executions'[v] = executions[v]
  BY <1>2 DEF Create, IInv, TypeOK
<1>4. \A v \in WorkOrders \ {w} : LifeOf(v)' = LifeOf(v)
  BY <1>1, <1>3, OtherLives
<1>5. CASE executions[w].status = "NONE" /\ w \notin clobbered
  <2>1. executions'[w].status = "QUEUED"
    BY <1>2, <1>5 DEF Create, IInv, TypeOK, Queued
  <2>2. Promise!Move(w, {"NONE"}, "QUEUED")
    BY <1>1, <1>4, <1>5, <2>1, MoveMaps
  <2> QED
    BY <2>2 DEF Promise!Next, Promise!Enqueue
<1>6. CASE executions[w].status # "NONE" \/ w \in clobbered
  <2>1. LifeOf(w)' = LifeOf(w)
    BY <1>1, <1>2, <1>6 DEF Create, LifeOf, ToldOutcome
  <2> QED
    BY <1>4, <2>1, OneLife
<1> QED
  BY <1>5, <1>6

LEMMA UpdateMaps ==
    ASSUME IInv, NEW o \in Ops, Update(o)
    PROVE  Promise!Next \/ Lives' = Lives
<1> DEFINE h == op[o]
           r == h.req
<1>1. /\ h.pc = "update" /\ r \in Requests /\ r.kind \in Mechanics /\ UNCHANGED told
      /\ h \in Handler
  BY DEF IInv, TypeOK, HandlerOK, Update
<1>2. PICK w \in WorkOrders : w = r.order
  BY <1>1, RequestFields
<1>3. /\ executions'[w] = h.copy
      /\ \A v \in WorkOrders \ {w} : executions'[v] = executions[v]
  BY <1>2 DEF Update, IInv, TypeOK
<1>4. clobbered' = clobbered \cup (IF h.stale THEN {w} ELSE {})
  BY <1>2 DEF Update
<1>5. \A v \in WorkOrders \ {w} : LifeOf(v)' = LifeOf(v)
  BY <1>1, <1>3, <1>4, OtherLives
<1>6. executions[w] \in ExecutionDoc
  BY <1>1, <1>2 DEF IInv, TypeOK, HandlerOK, Missing
<1>7. CASE w \in clobbered
  <2>1. LifeOf(w)' = LifeOf(w)
    BY <1>4, <1>7 DEF LifeOf
  <2> QED
    BY <1>5, <2>1, OneLife
<1>8. CASE w \notin clobbered /\ h.stale
  <2>1. LifeOf(w).status \in Active \cup Terminal
    BY <1>6, <1>8 DEF LifeOf, ExecutionDoc
  <2>2. LifeOf(w)' = [status |-> "OVERWRITTEN", told |-> "NOTHING"]
    BY <1>4, <1>8 DEF LifeOf
  <2>3. Promise!Overwrite(w)
    BY <1>5, <2>1, <2>2, OneLife
       DEF Promise!Overwrite, Promise!Overwritten, Promise!Life, Promise!Active,
           Promise!Terminal, Active, Terminal, Lives
  <2> QED
    BY <2>3 DEF Promise!Next
<1>9. CASE w \notin clobbered /\ ~h.stale
  <2>1. /\ Accepts(executions[w], r) /\ h.copy = Applied(executions[w], r)
        /\ w \notin clobbered'
    BY <1>1, <1>2, <1>4, <1>9 DEF IInv, HandlerOK
  <2>2. ASSUME NEW from, NEW to, executions[w].status \in from, h.copy.status = to
        PROVE  Promise!Move(w, from, to)
    BY <1>1, <1>3, <1>5, <1>9, <2>1, <2>2, MoveMaps
  <2>3. CASE r.kind = "diagnose"
    <3>1. h.copy = Diagnosed(executions[w], r.note)
      BY <2>1, <2>3 DEF Applied
    <3>2. CASE executions[w].status = "QUEUED"
      <4>1. h.copy.status = "IN_DIAGNOSIS"
        BY <3>1, <3>2 DEF Diagnosed
      <4> QED
        BY <2>2, <3>2, <4>1 DEF Promise!Next, Promise!Diagnose
    <3>3. CASE executions[w].status # "QUEUED"
      <4>1. executions'[w].status = executions[w].status
        BY <1>3, <3>1, <3>3 DEF Diagnosed
      <4>2. LifeOf(w)' = LifeOf(w)
        BY <1>1, <1>9, <2>1, <4>1 DEF LifeOf, ToldOutcome
      <4> QED
        BY <1>5, <4>2, OneLife
    <3> QED
      BY <3>2, <3>3
  <2>4. CASE r.kind = "repair"
    <3>1. /\ executions[w].status \in {"QUEUED", "IN_DIAGNOSIS"}
          /\ h.copy.status = "IN_REPAIR"
      BY <1>6, <2>1, <2>4 DEF Accepts, Applied, Repaired, ExecutionDoc
    <3> QED
      BY <2>2, <3>1 DEF Promise!Next, Promise!Repair
  <2>5. CASE r.kind = "complete"
    <3>1. /\ executions[w].status \in {"IN_DIAGNOSIS", "IN_REPAIR"}
          /\ h.copy.status = "COMPLETED"
      BY <1>6, <2>1, <2>5 DEF Accepts, Applied, Completable, ExecutionDoc
    <3> QED
      BY <2>2, <3>1 DEF Promise!Next, Promise!Complete
  <2>6. CASE r.kind = "fail"
    <3>1. executions[w].status \in Promise!Active /\ h.copy.status = "FAILED"
      BY <1>6, <2>1, <2>6
         DEF Accepts, Applied, Failable, ExecutionDoc, Active, Promise!Active
    <3> QED
      BY <2>2, <3>1 DEF Promise!Next, Promise!Fail
  <2> QED
    BY <1>1, <2>3, <2>4, <2>5, <2>6 DEF Mechanics
<1> QED
  BY <1>1, <1>7, <1>8, <1>9

LEMMA PublishMaps ==
    ASSUME IInv, NEW o \in Ops, Publish(o)
    PROVE  Promise!Next \/ Lives' = Lives
<1> DEFINE r == op[o].req
           s == Outcome(r.kind)
<1>1. op[o].pc = "publish" /\ UNCHANGED <<executions, clobbered>>
  BY DEF Publish, history
<1>2. PICK w \in WorkOrders : w = r.order
  BY <1>1, TellerFields
<1>3. \A v \in WorkOrders \ {w} : told'[v] = told[v]
  BY <1>2 DEF Publish, IInv, TypeOK
<1>4. \A v \in WorkOrders \ {w} : LifeOf(v)' = LifeOf(v)
  BY <1>1, <1>3, OtherLives
<1>5. CASE w \in clobbered
  <2>1. LifeOf(w)' = LifeOf(w)
    BY <1>1, <1>5 DEF LifeOf
  <2> QED
    BY <1>4, <2>1, OneLife
<1>6. CASE w \notin clobbered
  <2>1. /\ executions[w].status = s
        /\ told[w]["COMPLETED"] + told[w]["FAILED"] = 0
    BY <1>1, <1>2, <1>6 DEF IInv, OutcomePending, WillTell
  <2>2. told \in [WorkOrders -> [Terminal -> Nat]]
    BY DEF IInv, TypeOK
  <2>3. told[w]["COMPLETED"] = 0 /\ told[w]["FAILED"] = 0
    BY <2>1, <2>2 DEF Terminal
  <2>4. s \in {"COMPLETED", "FAILED"}
    BY DEF Outcome
  <2>5. told' = [told EXCEPT ![w][s] = @ + 1]
    BY <1>2 DEF Publish
  <2> HIDE DEF s
  <2>6. told'[w] = [told[w] EXCEPT ![s] = told[w][s] + 1]
    BY <2>2, <2>5
  <2>7. told'[w][s] = 1 /\ \A t \in Terminal \ {s} : told'[w][t] = 0
    BY <2>2, <2>3, <2>4, <2>6 DEF Terminal
  <2>8. ToldOutcome(w) = "NOTHING" /\ ToldOutcome(w)' = s
    BY <2>3, <2>4, <2>7 DEF ToldOutcome, Terminal
  <2>9. /\ LifeOf(w) = [status |-> s, told |-> "NOTHING"]
        /\ LifeOf(w)' = [status |-> s, told |-> s]
    BY <1>1, <1>6, <2>1, <2>8 DEF LifeOf
  <2>10. Lives[w] = LifeOf(w) /\ LifeOf(w)' = [LifeOf(w) EXCEPT !.told = s]
    BY <2>9 DEF Lives
  <2>11. Lives' = [Lives EXCEPT ![w].told = Lives[w].status]
    BY <1>4, <2>9, <2>10, OneLife
  <2>12. Promise!Tell(w)
    BY <2>4, <2>9, <2>10, <2>11 DEF Promise!Tell, Promise!Terminal, Lives
  <2> QED
    BY <2>12 DEF Promise!Next
<1> QED
  BY <1>5, <1>6

\* The documents and the published outcomes follow the lifecycle: any step of the
\* handlers, of any number of them, is one of its steps or none.
THEOREM ImplementsLifecycle == Spec => FollowsLifecycle
<1>1. IInv /\ [Next]_vars => [Promise!Next]_Lives
  <2> SUFFICES ASSUME IInv, [Next]_vars PROVE Promise!Next \/ Lives' = Lives
    OBVIOUS
  <2>1. CASE \E o \in Ops : Create(o)
    BY <2>1, CreateMaps
  <2>2. CASE \E o \in Ops : Update(o)
    BY <2>2, UpdateMaps
  <2>3. CASE \E o \in Ops : Publish(o)
    BY <2>3, PublishMaps
  <2>4. CASE ~\E o \in Ops : Create(o) \/ Update(o) \/ Publish(o)
    <3>1. UNCHANGED <<executions, told, clobbered>>
      BY <2>4 DEF Next, Step, Call, StartFind, AddDiagnostic, StartRepair,
                  CompleteExecution, FailExecution, Find, Consume, Crash, Fault,
                  vars, history
    <3>2. \A w \in WorkOrders : LifeOf(w)' = LifeOf(w)
      BY <3>1, OtherLives
    <3> QED
      BY <3>2 DEF Lives
  <2> QED
    BY <2>1, <2>2, <2>3, <2>4
<1> QED
  BY <1>1, InductiveInvariant, InitMaps, PTL DEF Spec, FollowsLifecycle, Promise!Spec, Lives
=============================================================================
