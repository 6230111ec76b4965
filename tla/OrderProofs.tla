----------------------------- MODULE OrderProofs -----------------------------
(***************************************************************************)
(* What the work orders hold, what they are told and how they are closed,  *)
(* for any parts, work orders, payloads, budgets and number of handlers in *)
(* flight.                                                                 *)
(***************************************************************************)
EXTENDS InventoryOrders, AccountProofs, Functions

-----------------------------------------------------------------------------
(* Sums over finite sets: that SumFunctionOnSet, a fold, adds up the values   *)
(* of a function, one by one.  Induction is over the subsets of a finite set: *)
(* a set of them that is not empty has a minimal one.                         *)

LEMMA MinimalSubset ==
    ASSUME NEW S, IsFiniteSet(S), NEW B \in SUBSET (SUBSET S), B # {}
    PROVE  \E s \in B : \A t \in SUBSET s : t # s => t \notin B
<1>1. IsWellFoundedOn(StrictSubsetOrdering(S), SUBSET S)
  BY FS_StrictSubsetOrderingWellFounded, FS_FiniteSubsetsOfFinite
<1>2. PICK s \in B : \A t \in B : <<t, s>> \notin StrictSubsetOrdering(S)
  BY <1>1, WFMin
<1> QED
  BY <1>2 DEF StrictSubsetOrdering

LEMMA LeastNumber ==
    ASSUME NEW T \in SUBSET Nat, T # {}
    PROVE  \E n \in T : \A m \in T : n <= m
<1>1. PICK k \in T : TRUE
  OBVIOUS
<1> DEFINE S == 1..k
           B == {1..n : n \in {m \in T : m <= k}}
<1>2. IsFiniteSet(S) /\ B \in SUBSET (SUBSET S) /\ B # {}
  <2>1. IsFiniteSet(S)
    BY FS_Interval
  <2>2. 1..k \in B
    OBVIOUS
  <2>3. ASSUME NEW n \in T, n <= k PROVE 1..n \in SUBSET S
    BY <2>3
  <2> QED
    BY <2>1, <2>2, <2>3
<1>3. PICK s \in B : \A t \in SUBSET s : t # s => t \notin B
  <2> HIDE DEF S, B
  <2> QED
    BY <1>2, MinimalSubset
<1>4. PICK n \in T : n <= k /\ s = 1..n
  OBVIOUS
<1>5. ASSUME NEW m \in T, m < n PROVE FALSE
  <2>1. 1..m \in B /\ 1..m \subseteq 1..n /\ n \notin 1..m /\ n \in 1..n
    BY <1>4, <1>5
  <2> QED
    BY <1>3, <1>4, <2>1
<1> QED
  BY <1>5

-----------------------------------------------------------------------------
(* The fold is well defined. *)

Chosen(s) == CHOOSE x \in s : TRUE

\* g is f added up over every set of D, which is closed under taking the chosen
\* element away.
AddsUp(g, f, D) ==
    g = [s \in D |-> IF s = {} THEN 0 ELSE f[Chosen(s)] + g[s \ {Chosen(s)}]]

LEMMA AddsUpTo ==
    ASSUME NEW S, IsFiniteSet(S), NEW f, NEW n \in Nat
    PROVE  \E g : AddsUp(g, f, {s \in SUBSET S : Cardinality(s) <= n})
<1> DEFINE Layer(k) == {s \in SUBSET S : Cardinality(s) <= k}
           Bad == {k \in Nat : ~\E g : AddsUp(g, f, Layer(k))}
<1>1. \A s \in SUBSET S : IsFiniteSet(s) /\ Cardinality(s) \in Nat
  BY FS_Subset, FS_CardinalityType
<1>2. SUFFICES ASSUME NEW k \in Bad, \A m \in Bad : k <= m PROVE FALSE
  <2>1. Bad \in SUBSET Nat
    OBVIOUS
  <2>2. Bad = {} => n \notin Bad
    OBVIOUS
  <2>3. Bad # {} => FALSE
    <3> HIDE DEF Bad
    <3> QED
      BY <1>2, <2>1, LeastNumber
  <2> QED
    BY <2>2, <2>3
<1>3. CASE k = 0
  <2>1. Layer(0) = {{}}
    BY <1>1, FS_EmptySet
  <2>2. AddsUp([s \in {{}} |-> 0], f, {{}})
    BY DEF AddsUp
  <2> QED
    BY <1>2, <1>3, <2>1, <2>2
<1>4. CASE k # 0
  <2>1. k \in Nat /\ k - 1 \in Nat /\ k - 1 \notin Bad
    BY <1>2, <1>4
  <2>2. PICK g : AddsUp(g, f, Layer(k - 1))
    BY <2>1
  <2> DEFINE next == [s \in Layer(k) |->
                         IF s = {} THEN 0 ELSE f[Chosen(s)] + g[s \ {Chosen(s)}]]
  <2>3. ASSUME NEW s \in Layer(k - 1) PROVE next[s] = g[s] /\ s \in Layer(k)
    <3>1. s \in Layer(k)
      BY <1>1, <2>1
    <3>2. g[s] = IF s = {} THEN 0 ELSE f[Chosen(s)] + g[s \ {Chosen(s)}]
      BY <2>2 DEF AddsUp
    <3> QED
      BY <3>1, <3>2
  <2>4. ASSUME NEW s \in Layer(k), s # {} PROVE s \ {Chosen(s)} \in Layer(k - 1)
    <3>1. Chosen(s) \in s
      BY <2>4 DEF Chosen
    <3>2. IsFiniteSet(s) /\ Cardinality(s) \in Nat
      BY <1>1
    <3>3. Cardinality(s \ {Chosen(s)}) = Cardinality(s) - 1
      BY <3>1, <3>2, FS_RemoveElement
    <3> QED
      BY <2>1, <3>2, <3>3
  <2>5. AddsUp(next, f, Layer(k))
    <3>1. \A s \in Layer(k) : s # {} => g[s \ {Chosen(s)}] = next[s \ {Chosen(s)}]
      BY <2>3, <2>4
    <3> QED
      BY <3>1 DEF AddsUp
  <2> QED
    BY <1>2, <2>5
<1> QED
  BY <1>3, <1>4

LEMMA SumAddsUp ==
    ASSUME NEW S, IsFiniteSet(S), NEW f
    PROVE  \E g : AddsUp(g, f, SUBSET S) /\ SumFunctionOnSet(f, S) = g[S]
<1>1. \E g : AddsUp(g, f, SUBSET S)
  <2> DEFINE n == Cardinality(S)
  <2>1. n \in Nat /\ \A s \in SUBSET S : Cardinality(s) <= n
    BY FS_CardinalityType, FS_Subset
  <2>2. {s \in SUBSET S : Cardinality(s) <= n} = SUBSET S
    BY <2>1
  <2>3. \E g : AddsUp(g, f, {s \in SUBSET S : Cardinality(s) <= n})
    BY <2>1, AddsUpTo
  <2> QED
    BY <2>2, <2>3
<1> DEFINE it == CHOOSE g : AddsUp(g, f, SUBSET S)
<1>2. SumFunctionOnSet(f, S) = it[S]
  BY DEF SumFunctionOnSet, FoldFunctionOnSet, MapThenFoldSet, AddsUp, Chosen
<1>3. AddsUp(it, f, SUBSET S)
  BY <1>1
<1> HIDE DEF it
<1> QED
  BY <1>2, <1>3

LEMMA ChosenElement ==
    ASSUME NEW s, s # {}
    PROVE  Chosen(s) \in s /\ s \ {Chosen(s)} \in SUBSET s /\ s \ {Chosen(s)} # s
BY DEF Chosen

\* What induction over the subsets of S needs of a sum.
Sums(g, f, S) ==
    /\ SumFunctionOnSet(f, S) = g[S]
    /\ g[{}] = 0
    /\ \A s \in SUBSET S : s # {} => g[s] = f[Chosen(s)] + g[s \ {Chosen(s)}]

LEMMA SumUnfolds ==
    ASSUME NEW S, IsFiniteSet(S), NEW f
    PROVE  \E g : Sums(g, f, S)
<1>1. PICK g : AddsUp(g, f, SUBSET S) /\ SumFunctionOnSet(f, S) = g[S]
  BY SumAddsUp
<1>2. g[{}] = 0
  BY <1>1 DEF AddsUp
<1>3. \A s \in SUBSET S : s # {} => g[s] = f[Chosen(s)] + g[s \ {Chosen(s)}]
  BY <1>1 DEF AddsUp
<1>4. Sums(g, f, S)
  BY <1>1, <1>2, <1>3 DEF Sums
<1> QED
  BY <1>4

LEMMA SumStep ==
    ASSUME NEW S, NEW g, NEW f, Sums(g, f, S), NEW s \in SUBSET S, s # {}
    PROVE  /\ Chosen(s) \in s /\ Chosen(s) \in S
           /\ s \ {Chosen(s)} \in SUBSET s /\ s \ {Chosen(s)} # s
           /\ s \ {Chosen(s)} \in SUBSET S
           /\ g[s] = f[Chosen(s)] + g[s \ {Chosen(s)}]
BY ChosenElement DEF Sums

-----------------------------------------------------------------------------
(* Sums of integers. *)

\* One value that grows by d makes the sum grow by d.
LEMMA SumMoves ==
    ASSUME NEW S, IsFiniteSet(S), NEW f \in [S -> Int], NEW x \in S, NEW d \in Int,
           NEW h \in [S -> Int], h[x] = f[x] + d, \A y \in S \ {x} : h[y] = f[y]
    PROVE  /\ SumFunctionOnSet(f, S) \in Int
           /\ SumFunctionOnSet(h, S) = SumFunctionOnSet(f, S) + d
<1>1. PICK a : Sums(a, f, S)
  BY SumUnfolds
<1>2. PICK b : Sums(b, h, S)
  BY SumUnfolds
<1> DEFINE AsTold(s) == a[s] \in Int /\ b[s] = a[s] + IF x \in s THEN d ELSE 0
           Bad == {s \in SUBSET S : ~AsTold(s)}
<1>3. ASSUME NEW s \in SUBSET S, \A t \in SUBSET s : t # s => t \notin Bad
      PROVE  AsTold(s)
  <2>1. CASE s = {}
    BY <1>1, <1>2, <2>1 DEF Sums
  <2>2. CASE s # {}
    <3> DEFINE c == Chosen(s)
               t == s \ {c}
    <3>1. /\ c \in S /\ c \in s /\ t \in SUBSET S /\ t \in SUBSET s /\ t # s
          /\ a[s] = f[c] + a[t]
      BY <1>1, <2>2, SumStep
    <3>2. b[s] = h[c] + b[t]
      BY <1>2, <2>2 DEF Sums
    <3>3. AsTold(t)
      BY <1>3, <3>1
    <3> HIDE DEF c
    <3> QED
      BY <3>1, <3>2, <3>3
  <2> QED
    BY <2>1, <2>2
<1>4. Bad = {}
  <2>1. Bad \in SUBSET (SUBSET S)
    OBVIOUS
  <2>2. \A s \in Bad : ~ \A t \in SUBSET s : t # s => t \notin Bad
    BY <1>3
  <2> HIDE DEF Bad
  <2> QED
    BY <2>1, <2>2, MinimalSubset
<1> QED
  BY <1>1, <1>2, <1>4 DEF Sums

LEMMA SumOfZeros ==
    ASSUME NEW S, IsFiniteSet(S), NEW f, \A x \in S : f[x] = 0
    PROVE  SumFunctionOnSet(f, S) = 0
<1>1. PICK a : Sums(a, f, S)
  BY SumUnfolds
<1> DEFINE Bad == {s \in SUBSET S : a[s] # 0}
<1>2. ASSUME NEW s \in SUBSET S, \A t \in SUBSET s : t # s => t \notin Bad
      PROVE  a[s] = 0
  <2>1. CASE s = {}
    BY <1>1, <2>1 DEF Sums
  <2>2. CASE s # {}
    <3> DEFINE c == Chosen(s)
               t == s \ {c}
    <3>1. /\ c \in S /\ t \in SUBSET S /\ t \in SUBSET s /\ t # s
          /\ a[s] = f[c] + a[t]
      BY <1>1, <2>2, SumStep
    <3>2. a[t] = 0 /\ f[c] = 0
      BY <1>2, <3>1
    <3> HIDE DEF c, t
    <3> QED
      BY <3>1, <3>2
  <2> QED
    BY <2>1, <2>2
<1>3. Bad = {}
  <2>1. Bad \in SUBSET (SUBSET S)
    OBVIOUS
  <2>2. \A s \in Bad : ~ \A t \in SUBSET s : t # s => t \notin Bad
    BY <1>2
  <2> HIDE DEF Bad
  <2> QED
    BY <2>1, <2>2, MinimalSubset
<1> QED
  BY <1>1, <1>3 DEF Sums

\* No term of a sum of quantities exceeds the sum.
LEMMA TermWithinSum ==
    ASSUME NEW S, IsFiniteSet(S), NEW f \in [S -> Nat], NEW x \in S
    PROVE  SumFunctionOnSet(f, S) \in Nat /\ f[x] <= SumFunctionOnSet(f, S)
<1>1. PICK a : Sums(a, f, S)
  BY SumUnfolds
<1> DEFINE AsTold(s) == a[s] \in Nat /\ (x \in s => f[x] <= a[s])
           Bad == {s \in SUBSET S : ~AsTold(s)}
<1>2. ASSUME NEW s \in SUBSET S, \A t \in SUBSET s : t # s => t \notin Bad
      PROVE  AsTold(s)
  <2>1. CASE s = {}
    BY <1>1, <2>1 DEF Sums
  <2>2. CASE s # {}
    <3> DEFINE c == Chosen(s)
               t == s \ {c}
    <3>1. /\ c \in S /\ c \in s /\ t \in SUBSET S /\ t \in SUBSET s /\ t # s
          /\ a[s] = f[c] + a[t]
      BY <1>1, <2>2, SumStep
    <3>2. AsTold(t)
      BY <1>2, <3>1
    <3>3. f[c] \in Nat /\ f[x] \in Nat
      BY <3>1
    <3> HIDE DEF c
    <3> QED
      BY <3>1, <3>2, <3>3
  <2> QED
    BY <2>1, <2>2
<1>3. Bad = {}
  <2>1. Bad \in SUBSET (SUBSET S)
    OBVIOUS
  <2>2. \A s \in Bad : ~ \A t \in SUBSET s : t # s => t \notin Bad
    BY <1>2
  <2> HIDE DEF Bad
  <2> QED
    BY <2>1, <2>2, MinimalSubset
<1> QED
  BY <1>1, <1>3 DEF Sums

-----------------------------------------------------------------------------
(* The path of a handler: what a step of it does to its place, to the         *)
(* reservations and to the replies.                                           *)

\* The others stay where they are.
SamePlace(x) == op'[x].pc = op[x].pc /\ op'[x].req = op[x].req
                /\ op'[x].idx = op[x].idx /\ op'[x].moved = op[x].moved

Elsewhere(o) == \A x \in Ops \ {o} : SamePlace(x)

\* It reads the reservation and sets to work.
Starts(o) ==
    LET w == op[o].req.order
    IN  /\ op[o].pc = "find" /\ w \in WorkOrders
        /\ op'[o].pc \in {"check", "load"} /\ op'[o].req = op[o].req
        /\ reservations[w] = IF op'[o].pc = "load" THEN "RESERVED" ELSE "NONE"
        /\ disturbed' = disturbed \cup {v \in {w} : \E x \in Ops : WorksFor(x, v)}
        /\ UNCHANGED <<reservations, replies>>

GoesOn(o) ==
    /\ op[o].pc \in Working /\ op'[o].pc \in Working /\ op'[o].req = op[o].req
    /\ op'[o].pc \in SettlePcs <=> op[o].pc \in SettlePcs
    /\ UNCHANGED <<reservations, replies, disturbed>>

Records(o) ==
    LET w == op[o].req.order
    IN  /\ op[o].pc = "record" /\ w \in WorkOrders
        /\ op'[o].pc = "replyReserved" /\ op'[o].req = op[o].req
        /\ reservations[w] = "NONE"
        /\ reservations' = [reservations EXCEPT ![w] = "RESERVED"]
        /\ op[o].req = ReserveCommand(w)
        /\ UNCHANGED <<replies, disturbed>>

Closes(o) ==
    LET w == op[o].req.order
    IN  /\ op[o].pc = "close" /\ w \in WorkOrders
        /\ op'[o] = Idle /\ op[o].req.kind # "reserve"
        /\ reservations' = [reservations EXCEPT ![w] = ClosedAs(op[o].req.kind)]
        /\ UNCHANGED <<replies, disturbed>>

Publishes(o) ==
    LET w == op[o].req.order
    IN  /\ op[o].req = ReserveCommand(w) /\ w \in WorkOrders
        /\ op'[o] = Idle
        /\ \/ /\ op[o].pc = "replyReserved"
              /\ replies' = [replies EXCEPT ![w].reserved = @ + 1]
           \/ /\ op[o].pc = "replyFailed"
              /\ replies' = [replies EXCEPT ![w].failed = @ + 1]
        /\ UNCHANGED <<reservations, disturbed>>

\* It does something else, and does not work for its order afterwards.
Leaves(o) ==
    /\ op[o].pc \notin {"write", "replyReserved", "close"} /\ op'[o].pc \notin Working
    /\ \/ op'[o].req = op[o].req /\ op'[o].pc # "idle"
       \/ op'[o] = Idle /\ op[o].req.kind # "reserve"
    /\ UNCHANGED <<reservations, replies, disturbed>>

Path(o) ==
    /\ Elsewhere(o) /\ op[o].pc # "idle" /\ UNCHANGED <<calls, crashes, faults>>
    /\ Starts(o) \/ GoesOn(o) \/ Records(o) \/ Closes(o) \/ Publishes(o) \/ Leaves(o)

Others(o) == \A x \in Ops \ {o} : op'[x] = op[x]

LEMMA SaveElsewhereSame ==
    ASSUME IInv, NEW o \in Ops, NEW p \in Parts, NEW g, SavePart(o, p, g)
    PROVE  Elsewhere(o) /\ op'[o] = g
<1>1. \A x \in Ops : op[x] \in Handler
  BY DEF IInv, TypeOK
<1>2. \A x \in Ops \ {o} : op'[x] = Overtake(op[x], p)
  BY DEF SavePart
<1>3. ASSUME NEW x \in Ops PROVE /\ Overtake(op[x], p).pc = op[x].pc
                                /\ Overtake(op[x], p).req = op[x].req
                                /\ Overtake(op[x], p).idx = op[x].idx
                                /\ Overtake(op[x], p).moved = op[x].moved
  BY <1>1 DEF Overtake, Handler
<1> QED
  BY <1>2, <1>3 DEF SavePart, Elsewhere, SamePlace

LEMMA ReservePath ==
    ASSUME IInv, NEW o \in Ops,
           ReserveFind(o) \/ ReserveCheck(o) \/ ReserveWrite(o) \/ ReserveRecord(o)
    PROVE  Path(o)
<1> DEFINE h == op[o]
           w == h.req.order
<1>1. op \in [Ops -> Handler] /\ h \in Handler /\ HandlerOK(h)
  BY DEF IInv, TypeOK
<1>2. h.req \in SagaCommands /\ h.req.kind = "reserve" /\ w \in WorkOrders
      /\ h.req = ReserveCommand(w)
  <2>1. h.req \in SagaCommands /\ h.req.kind = "reserve"
    BY <1>1, Zenon DEF ReserveFind, ReserveCheck, ReserveWrite, ReserveRecord, HandlerOK, ReservePcs
  <2> QED
    BY <2>1 DEF SagaCommands, ReserveCommand
<1>3. CASE ReserveFind(o)
  <2>1. h.pc = "find" /\ UNCHANGED <<reservations, replies, calls, crashes, faults>>
    BY <1>3 DEF ReserveFind, store, budget
  <2>2. CASE AlreadyServed(w)
    <3>1. op' = [op EXCEPT ![o] = Blank("replyReserved", h.req)] /\ UNCHANGED disturbed
      BY <1>3, <2>2 DEF ReserveFind, Goto, Continue
    <3>2. op'[o].pc = "replyReserved" /\ op'[o].req = h.req /\ Elsewhere(o)
      BY <1>1, <3>1, BlankFields DEF Elsewhere, SamePlace
    <3> QED
      BY <2>1, <3>1, <3>2 DEF Path, Leaves, Working, SettlePcs
  <2>3. CASE ~AlreadyServed(w)
    <3>1. /\ op' = [op EXCEPT ![o] = Blank("check", h.req)]
          /\ disturbed' = disturbed \cup {v \in {w} : \E x \in Ops : WorksFor(x, v)}
      BY <1>3, <2>3 DEF ReserveFind, StartWork, Goto, Continue, WorksFor
    <3>2. op'[o].pc = "check" /\ op'[o].req = h.req /\ Elsewhere(o)
      BY <1>1, <3>1, BlankFields DEF Elsewhere, SamePlace
    <3>3. reservations[w] = "NONE"
      BY <2>3 DEF AlreadyServed
    <3> QED
      BY <1>2, <2>1, <3>1, <3>2, <3>3 DEF Path, Starts
  <2> QED
    BY <2>2, <2>3
<1>4. CASE ReserveCheck(o)
  <2>1. h.pc = "check"
        /\ UNCHANGED <<reservations, replies, calls, crashes, faults, disturbed>>
    BY <1>4 DEF ReserveCheck, store, budget, history
  <2>2. CASE CanReserve(w)
    <3> DEFINE units == [p \in Parts |-> IF p \in Requested(w) THEN Asked(w, p) ELSE 0]
               g == [h EXCEPT !.pc = "write", !.copy = ReservedCopies(w), !.moved = units]
    <3>1. op' = [op EXCEPT ![o] = g]
      BY <1>4, <2>2 DEF ReserveCheck, Continue
    <3>2. g.pc = "write" /\ g.req = h.req
      BY <1>1 DEF Handler
    <3> HIDE DEF g
    <3>3. op'[o].pc = "write" /\ op'[o].req = h.req /\ Elsewhere(o)
      BY <1>1, <3>1, <3>2 DEF Elsewhere, SamePlace
    <3> QED
      BY <2>1, <3>3 DEF Path, GoesOn, Working, SettlePcs
  <2>3. CASE ~CanReserve(w)
    <3>1. op' = [op EXCEPT ![o] = Blank("replyFailed", h.req)]
      BY <1>4, <2>3 DEF ReserveCheck, Refuse, Goto, Continue
    <3>2. op'[o].pc = "replyFailed" /\ op'[o].req = h.req /\ Elsewhere(o)
      BY <1>1, <3>1, BlankFields DEF Elsewhere, SamePlace
    <3> QED
      BY <2>1, <3>2 DEF Path, Leaves, Working, SettlePcs
  <2> QED
    BY <2>2, <2>3
<1>5. CASE ReserveWrite(o)
  <2> DEFINE p    == Demand[w][h.idx].part
             next == IF h.idx < Len(Demand[w]) THEN "write" ELSE "record"
             g == [h EXCEPT !.moved[p] = 0, !.pc = next, !.idx = h.idx + 1]
  <2>1. h.pc = "write" /\ SavePart(o, p, g)
        /\ UNCHANGED <<reservations, replies, calls, crashes, faults, disturbed>>
    BY <1>5, ZenonT(30) DEF ReserveWrite, budget
  <2>2. p \in Parts
    BY <1>1, <1>2, <2>1, DemandItem DEF HandlerOK
  <2>3. g.pc \in {"write", "record"} /\ g.req = h.req
    <3> HIDE DEF p
    <3> QED
      BY <1>1 DEF Handler
  <2> HIDE DEF g
  <2>4. Elsewhere(o) /\ op'[o] = g
    BY <2>1, <2>2, SaveElsewhereSame
  <2> QED
    BY <2>1, <2>3, <2>4 DEF Path, GoesOn, Working, SettlePcs
<1>6. CASE ReserveRecord(o)
  <2>1. h.pc = "record" /\ UNCHANGED <<replies, calls, crashes, faults, disturbed>>
    BY <1>6 DEF ReserveRecord, budget, history
  <2>2. CASE reservations[w] = "NONE"
    <3>1. /\ op' = [op EXCEPT ![o] = Blank("replyReserved", h.req)]
          /\ reservations' = [reservations EXCEPT ![w] = "RESERVED"]
      BY <1>6, <2>2 DEF ReserveRecord, Goto, Continue
    <3>2. op'[o].pc = "replyReserved" /\ op'[o].req = h.req /\ Elsewhere(o)
      BY <1>1, <3>1, BlankFields DEF Elsewhere, SamePlace
    <3> QED
      BY <1>2, <2>1, <2>2, <3>1, <3>2 DEF Path, Records
  <2>3. CASE reservations[w] # "NONE"
    <3>1. op' = [op EXCEPT ![o] = Blank("replyFailed", h.req)] /\ UNCHANGED reservations
      BY <1>6, <2>3 DEF ReserveRecord, Refuse, Goto, Continue
    <3>2. op'[o].pc = "replyFailed" /\ op'[o].req = h.req /\ Elsewhere(o)
      BY <1>1, <3>1, BlankFields DEF Elsewhere, SamePlace
    <3> QED
      BY <2>1, <3>1, <3>2 DEF Path, Leaves, Working, SettlePcs
  <2> QED
    BY <2>2, <2>3
<1> QED
  BY <1>3, <1>4, <1>5, <1>6

LEMMA SettlePath ==
    ASSUME IInv, NEW o \in Ops,
           SettleFind(o) \/ SettleLoad(o) \/ SettleWrite(o) \/ SettleClose(o)
    PROVE  Path(o)
<1> DEFINE h == op[o]
           w == h.req.order
<1>1. op \in [Ops -> Handler] /\ h \in Handler /\ HandlerOK(h)
  BY DEF IInv, TypeOK
<1>2. h.req \in SagaCommands /\ h.req.kind \in {"release", "consume"} /\ w \in WorkOrders
  <2>1. h.req \in SagaCommands /\ h.req.kind \in {"release", "consume"}
    BY <1>1, Zenon DEF SettleFind, SettleLoad, SettleWrite, SettleClose, HandlerOK, SettlePcs
  <2> QED
    BY <2>1 DEF SagaCommands
<1>3. CASE SettleFind(o)
  <2>1. h.pc = "find" /\ UNCHANGED <<reservations, replies, calls, crashes, faults>>
    BY <1>3 DEF SettleFind, store, budget
  <2>2. CASE IsActive(w)
    <3>1. /\ op' = [op EXCEPT ![o] = Blank("load", h.req)]
          /\ disturbed' = disturbed \cup {v \in {w} : \E x \in Ops : WorksFor(x, v)}
      BY <1>3, <2>2 DEF SettleFind, StartWork, Goto, Continue, WorksFor
    <3>2. op'[o].pc = "load" /\ op'[o].req = h.req /\ Elsewhere(o)
      BY <1>1, <3>1, BlankFields DEF Elsewhere, SamePlace
    <3> QED
      BY <1>2, <2>1, <2>2, <3>1, <3>2 DEF Path, Starts, IsActive
  <2>3. CASE ~IsActive(w)
    <3>1. op' = [op EXCEPT ![o] = Idle] /\ UNCHANGED disturbed
      BY <1>3, <2>3 DEF SettleFind, End, Continue
    <3>2. op'[o] = Idle /\ Elsewhere(o)
      BY <1>1, <3>1 DEF Elsewhere, SamePlace
    <3> QED
      BY <1>2, <2>1, <3>1, <3>2, IdleFields DEF Path, Leaves, Working, SettlePcs
  <2> QED
    BY <2>2, <2>3
<1>4. CASE SettleLoad(o)
  <2> DEFINE item == Demand[w][h.idx]
             n    == Capped(parts[item.part], item.quantity)
             new  == IF h.req.kind = "release" THEN ReleaseUnits(parts[item.part], n)
                                               ELSE ConsumeUnits(parts[item.part], n)
             full == [h EXCEPT !.pc = "settle", !.copy[item.part] = new,
                               !.moved[item.part] = n]
             skip == NextItem(h)
  <2>1. h.pc = "load"
        /\ UNCHANGED <<reservations, replies, calls, crashes, faults, disturbed>>
    BY <1>4, Zenon DEF SettleLoad, store, budget, history
  <2>2. op' = [op EXCEPT ![o] = IF parts[item.part].state = "live" THEN full ELSE skip]
    BY <1>4, Zenon DEF SettleLoad, Continue
  <2>3. full.pc = "settle" /\ full.req = h.req
    <3> HIDE DEF item, n, new
    <3> QED
      BY <1>1 DEF Handler
  <2>4. skip.pc \in {"load", "close"} /\ skip.req = h.req
    BY <1>1 DEF Handler, NextItem
  <2> HIDE DEF full, skip
  <2>5. op'[o].pc \in SettlePcs /\ op'[o].req = h.req /\ Elsewhere(o)
    BY <1>1, <2>2, <2>3, <2>4, Zenon DEF Elsewhere, SamePlace, SettlePcs
  <2> QED
    BY <2>1, <2>5 DEF Path, GoesOn, Working, SettlePcs
<1>5. CASE SettleWrite(o)
  <2> DEFINE p == Demand[w][h.idx].part
             g == NextItem(h)
  <2>1. h.pc = "settle" /\ SavePart(o, p, g)
        /\ UNCHANGED <<reservations, replies, calls, crashes, faults, disturbed>>
    BY <1>5, Zenon DEF SettleWrite, budget
  <2>2. p \in Parts
    BY <1>1, <1>2, <2>1, DemandItem, ZenonT(30) DEF HandlerOK
  <2>3. g.pc \in {"load", "close"} /\ g.req = h.req
    BY <1>1 DEF Handler, NextItem
  <2> HIDE DEF g
  <2>4. Elsewhere(o) /\ op'[o] = g
    BY <2>1, <2>2, SaveElsewhereSame
  <2> QED
    BY <2>1, <2>3, <2>4 DEF Path, GoesOn, Working, SettlePcs
<1>6. CASE SettleClose(o)
  <2>1. h.pc = "close" /\ UNCHANGED <<replies, calls, crashes, faults, disturbed>>
    BY <1>6 DEF SettleClose, budget, history
  <2>2. /\ op' = [op EXCEPT ![o] = Idle]
        /\ reservations' = [reservations EXCEPT ![w] = ClosedAs(h.req.kind)]
    BY <1>6 DEF SettleClose, SaveReservation, End, Continue
  <2>3. op'[o] = Idle /\ Elsewhere(o)
    BY <1>1, <2>2 DEF Elsewhere, SamePlace
  <2> QED
    BY <1>2, <2>1, <2>2, <2>3 DEF Path, Closes
<1> QED
  BY <1>3, <1>4, <1>5, <1>6

LEMMA OtherPath ==
    ASSUME IInv, NEW o \in Ops,
           \/ PublishReserved(o) \/ PublishFailed(o)
           \/ UpdatePart(o) \/ RestockPart(o) \/ DeletePart(o) \/ AdminSave(o)
    PROVE  Path(o)
<1> DEFINE h == op[o]
           w == h.req.order
<1>1. op \in [Ops -> Handler] /\ h \in Handler /\ HandlerOK(h)
  BY DEF IInv, TypeOK
<1>2. CASE PublishReserved(o) \/ PublishFailed(o)
  <2>1. h.req \in SagaCommands /\ h.req.kind = "reserve"
    BY <1>1, <1>2, Zenon DEF PublishReserved, PublishFailed, HandlerOK, ReservePcs
  <2>2. w \in WorkOrders /\ h.req = ReserveCommand(w)
    BY <2>1 DEF SagaCommands, ReserveCommand
  <2>3. /\ op' = [op EXCEPT ![o] = Idle]
        /\ UNCHANGED <<reservations, calls, crashes, faults, disturbed>>
    BY <1>2 DEF PublishReserved, PublishFailed, End, Continue, store, budget, history
  <2>4. op'[o] = Idle /\ Elsewhere(o)
    BY <1>1, <2>3 DEF Elsewhere, SamePlace
  <2>5. h.pc \in {"replyReserved", "replyFailed"} /\ Publishes(o)
    BY <1>2, <2>2, <2>3, <2>4 DEF PublishReserved, PublishFailed, Publishes
  <2> QED
    BY <2>3, <2>4, <2>5 DEF Path
<1>3. CASE UpdatePart(o) \/ RestockPart(o) \/ DeletePart(o)
  <2> DEFINE p     == h.req.part
             new   == Edited(parts[p], h.req)
             units == IF h.req.kind = "restock" THEN h.req.amount ELSE 0
             full  == [h EXCEPT !.pc = "save", !.copy[p] = new, !.moved[p] = units]
  <2>1. h.pc = "edit" /\ h.req.kind # "reserve"
        /\ UNCHANGED <<reservations, replies, calls, crashes, faults, disturbed>>
    BY <1>3 DEF UpdatePart, RestockPart, DeletePart, AdminEdit, store, budget, history
  <2>2. op' = [op EXCEPT ![o] = IF parts[p].state = "live" /\ ValidEdit(h.req)
                                THEN full ELSE Idle]
    BY <1>3 DEF UpdatePart, RestockPart, DeletePart, AdminEdit, End, Continue
  <2>3. full.pc = "save" /\ full.req = h.req
    <3> HIDE DEF p, new, units
    <3> QED
      BY <1>1 DEF Handler
  <2> HIDE DEF full
  <2>4. /\ Elsewhere(o)
        /\ op'[o] = Idle \/ (op'[o].pc = "save" /\ op'[o].req = h.req)
    BY <1>1, <2>2, <2>3 DEF Elsewhere, SamePlace
  <2> QED
    BY <2>1, <2>4, IdleFields DEF Path, Leaves, Working, SettlePcs
<1>4. CASE AdminSave(o)
  <2>1. h.pc = "save" /\ SavePart(o, h.req.part, Idle)
        /\ UNCHANGED <<reservations, replies, calls, crashes, faults, disturbed>>
    BY <1>4 DEF AdminSave, budget
  <2>2. h.req.part \in Parts /\ h.req.kind # "reserve"
    BY <1>1, <2>1 DEF HandlerOK, AdminPcs, AdminCalls
  <2>3. Elsewhere(o) /\ op'[o] = Idle
    BY <2>1, <2>2, SaveElsewhereSame
  <2> QED
    BY <2>1, <2>2, <2>3, IdleFields DEF Path, Leaves, Working, SettlePcs
<1> QED
  BY <1>2, <1>3, <1>4

LEMMA StepPath ==
    ASSUME IInv, NEW o \in Ops, Step(o)
    PROVE  Path(o)
BY ReservePath, SettlePath, OtherPath DEF Step

-----------------------------------------------------------------------------
(* Replies. *)

LEMMA CommandFields ==
    ASSUME NEW w \in WorkOrders
    PROVE  /\ ReserveCommand(w) \in SagaCommands /\ ReserveCommand(w) \in Requests
           /\ ReserveCommand(w).kind = "reserve"
           /\ NoRequest # ReserveCommand(w) /\ Idle.req = NoRequest
           /\ \A v \in WorkOrders : ReserveCommand(v) = ReserveCommand(w) => v = w
<1>1. NoRequest.kind # "reserve"
  BY DEF NoRequest
<1> QED
  BY <1>1, BlankFields DEF ReserveCommand, SagaCommands, Requests, Idle

\* A set of handlers that only o can enter or leave.
LEMMA OneEntersOrLeaves ==
    ASSUME NEW o \in Ops, NEW A \in SUBSET Ops, NEW B \in SUBSET Ops, A \ {o} = B \ {o}
    PROVE  /\ Cardinality(A) \in Nat /\ Cardinality(B) \in Nat
           /\ Cardinality(B) + (IF o \in A THEN 1 ELSE 0)
                = Cardinality(A) + (IF o \in B THEN 1 ELSE 0)
<1>1. IsFiniteSet(A) /\ IsFiniteSet(B)
  BY OpsFinite, FS_Subset
<1>2. Cardinality(A) \in Nat /\ Cardinality(B) \in Nat
  BY <1>1, FS_CardinalityType
<1>3. /\ Cardinality(A \ {o}) = IF o \in A THEN Cardinality(A) - 1 ELSE Cardinality(A)
      /\ Cardinality(B \ {o}) = IF o \in B THEN Cardinality(B) - 1 ELSE Cardinality(B)
  BY <1>1, FS_RemoveElement
<1> QED
  BY <1>2, <1>3

LEMMA FewerHandlers ==
    ASSUME NEW A \in SUBSET Ops, NEW B \in SUBSET A
    PROVE  Cardinality(A) \in Nat /\ Cardinality(B) \in Nat
           /\ Cardinality(B) <= Cardinality(A)
<1>1. IsFiniteSet(A)
  BY OpsFinite, FS_Subset
<1>2. IsFiniteSet(B) /\ Cardinality(B) <= Cardinality(A)
  BY <1>1, FS_Subset
<1> QED
  BY <1>1, <1>2, FS_CardinalityType

\* OneReplyPerCommand, order by order.
Told(w) == replies[w].reserved + replies[w].failed + Cardinality(Pending(w))

Answered(w) ==
    /\ Told(w) <= calls[ReserveCommand(w)]
    /\ crashes = 0 /\ faults = 0 => Told(w) = calls[ReserveCommand(w)]

LEMMA AnsweredAll == OneReplyPerCommand <=> \A w \in WorkOrders : Answered(w)
BY DEF OneReplyPerCommand, Answered, Told, Pending

LEMMA ReplyTypes ==
    ASSUME TypeOK, NEW w \in WorkOrders
    PROVE  /\ replies[w].reserved \in Nat /\ replies[w].failed \in Nat
           /\ calls[ReserveCommand(w)] \in Nat
           /\ Cardinality(Pending(w)) \in Nat /\ Cardinality(Undecided(w)) \in Nat
           /\ Pending(w) \in SUBSET Ops /\ Undecided(w) \in SUBSET Pending(w)
<1>1. Pending(w) \in SUBSET Ops /\ Undecided(w) \in SUBSET Pending(w)
  BY DEF Pending, Undecided
<1>2. Cardinality(Pending(w)) \in Nat /\ Cardinality(Undecided(w)) \in Nat
  BY <1>1, FewerHandlers
<1> QED
  BY <1>1, <1>2, CommandFields DEF TypeOK

LEMMA PathIdle ==
    ASSUME IdleIsFree, NEW o \in Ops, Path(o)
    PROVE  IdleIsFree'
<1>1. op'[o].pc = "idle" => op'[o].req = NoRequest
  BY BlankFields DEF Idle, Path, Starts, GoesOn, Records, Closes, Publishes, Leaves,
                     Working, SettlePcs
<1> QED
  BY <1>1 DEF IdleIsFree, Path, Elsewhere, SamePlace

\* A step answers one parts.reserve, or leaves pending what was pending.
LEMMA PathPending ==
    ASSUME TypeOK, NEW o \in Ops, Path(o), NEW w \in WorkOrders
    PROVE  \/ Publishes(o) /\ op[o].req = ReserveCommand(w)
           \/ Pending(w)' = Pending(w) /\ replies'[w] = replies[w]
<1>1. SUFFICES ASSUME ~(Publishes(o) /\ op[o].req = ReserveCommand(w))
               PROVE  Pending(w)' = Pending(w) /\ replies'[w] = replies[w]
  OBVIOUS
<1>2. \A x \in Ops \ {o} : op'[x].req = op[x].req
  BY DEF Path, Elsewhere, SamePlace
<1>3. CASE Starts(o) \/ GoesOn(o) \/ Records(o)
  <2>1. op'[o].req = op[o].req /\ replies' = replies
    BY <1>3 DEF Starts, GoesOn, Records
  <2> QED
    BY <1>2, <2>1 DEF Pending
<1>4. CASE Closes(o) \/ Leaves(o)
  <2>1. /\ replies' = replies
        /\ \/ op'[o].req = op[o].req
           \/ op'[o] = Idle /\ op[o].req.kind # "reserve"
    BY <1>4 DEF Closes, Leaves
  <2>2. op'[o].req = ReserveCommand(w) <=> op[o].req = ReserveCommand(w)
    BY <2>1, CommandFields
  <2> QED
    BY <1>2, <2>1, <2>2 DEF Pending
<1>5. CASE Publishes(o)
  <2>1. op[o].req # ReserveCommand(w)
    BY <1>1, <1>5
  <2> DEFINE v == op[o].req.order
  <2>2. v \in WorkOrders /\ v # w
    BY <1>5, <2>1 DEF Publishes
  <2>3. replies'[w] = replies[w]
    BY <1>5, <2>2 DEF Publishes, TypeOK
  <2>4. op'[o].req # ReserveCommand(w)
    BY <1>5, CommandFields DEF Publishes
  <2> QED
    BY <1>2, <2>1, <2>3, <2>4 DEF Pending
<1> QED
  BY <1>3, <1>4, <1>5 DEF Path

LEMMA PathAnswers ==
    ASSUME TypeOK, TypeOK', OneReplyPerCommand, NEW o \in Ops, Path(o)
    PROVE  OneReplyPerCommand'
<1> SUFFICES ASSUME NEW w \in WorkOrders PROVE Answered(w)'
  BY DEF OneReplyPerCommand, Answered, Told, Pending
<1>1. Answered(w)
  BY AnsweredAll
<1>2. UNCHANGED <<calls, crashes, faults>>
  BY DEF Path
<1>3. CASE Pending(w)' = Pending(w) /\ replies'[w] = replies[w]
  BY <1>1, <1>2, <1>3 DEF Answered, Told
<1>4. CASE Publishes(o) /\ op[o].req = ReserveCommand(w)
  <2>1. op'[o].req # ReserveCommand(w)
    BY <1>4, CommandFields DEF Publishes
  <2>2. /\ Pending(w) \in SUBSET Ops /\ Pending(w)' \in SUBSET Ops
        /\ o \in Pending(w) /\ o \notin Pending(w)'
        /\ Pending(w)' \ {o} = Pending(w) \ {o}
    BY <1>4, <2>1 DEF Pending, Path, Elsewhere, SamePlace
  <2>3. Cardinality(Pending(w)') + 1 = Cardinality(Pending(w))
    BY <2>2, OneEntersOrLeaves
  <2>4. /\ replies[w].reserved \in Nat /\ replies[w].failed \in Nat
        /\ Cardinality(Pending(w)) \in Nat /\ calls[ReserveCommand(w)] \in Nat
        /\ Cardinality(Pending(w)') \in Nat
    BY <2>2, ReplyTypes, FewerHandlers
  <2>5. replies'[w].reserved + replies'[w].failed = replies[w].reserved + replies[w].failed + 1
    <3>1. op[o].req.order = w
      BY <1>4 DEF ReserveCommand
    <3>2. replies \in [WorkOrders -> [reserved: Nat, failed: Nat]]
      BY DEF TypeOK
    <3> QED
      BY <1>4, <2>4, <3>1, <3>2 DEF Publishes
  <2>6. replies'[w].reserved \in Nat /\ replies'[w].failed \in Nat
    BY DEF TypeOK
  <2> QED
    BY <1>1, <1>2, <2>3, <2>4, <2>5, <2>6 DEF Answered, Told
<1> QED
  BY <1>3, <1>4, PathPending

\* A delivery on record is not refused: RefusedLess, order by order.
Kept(w) ==
    faults = 0 /\ reservations[w] # "NONE" =>
        replies[w].failed + Cardinality(Undecided(w)) < calls[ReserveCommand(w)]

\* Who is pending in both states is undecided in the second only if it was before,
\* unless o goes back to work.
LEMMA PathUndecided ==
    ASSUME TypeOK, NEW o \in Ops, Path(o), NEW w \in WorkOrders
    PROVE  Undecided(w)' \in SUBSET Undecided(w)
<1>1. op[o].req = ReserveCommand(w) /\ op[o].pc = "replyReserved" =>
          op'[o].req # ReserveCommand(w)
  BY CommandFields DEF Path, Starts, GoesOn, Records, Closes, Publishes, Leaves, Working, SettlePcs
<1>2. op'[o].req = ReserveCommand(w) => op[o].req = ReserveCommand(w)
  BY CommandFields DEF Path, Starts, GoesOn, Records, Closes, Publishes, Leaves
<1> QED
  BY <1>1, <1>2 DEF Path, Elsewhere, SamePlace, Undecided, Pending

LEMMA PathRefuses ==
    ASSUME TypeOK, TypeOK', OneReplyPerCommand, RefusedLess, \A x \in Ops : HandlerOK(op[x]),
           NEW o \in Ops, Path(o)
    PROVE  RefusedLess'
<1> SUFFICES ASSUME NEW w \in WorkOrders, faults' = 0, reservations'[w] # "NONE"
             PROVE  replies'[w].failed + Cardinality(Undecided(w)')
                        < calls'[ReserveCommand(w)]
  BY DEF RefusedLess, Undecided, Pending
<1>1. faults = 0 /\ calls' = calls
  BY DEF Path
<1>2. /\ replies[w].failed \in Nat /\ replies[w].reserved \in Nat
      /\ Cardinality(Pending(w)) \in Nat /\ Cardinality(Undecided(w)) \in Nat
      /\ calls[ReserveCommand(w)] \in Nat
      /\ Undecided(w) \in SUBSET Ops /\ Undecided(w)' \in SUBSET Undecided(w)
  BY ReplyTypes, PathUndecided
<1>3. Cardinality(Undecided(w)') \in Nat
      /\ Cardinality(Undecided(w)') <= Cardinality(Undecided(w))
  BY <1>2, FewerHandlers
<1>4. CASE Records(o) /\ op[o].req.order = w
  <2>1. o \in Pending(w) /\ o \notin Undecided(w)'
    BY <1>4 DEF Records, Pending, Undecided
  <2>2. /\ Pending(w) \in SUBSET Ops /\ Pending(w) \ {o} \in SUBSET Ops
        /\ (Pending(w) \ {o}) \ {o} = Pending(w) \ {o}
        /\ Undecided(w)' \in SUBSET (Pending(w) \ {o})
    BY <1>2, <2>1 DEF Undecided, Pending
  <2>3. Cardinality(Pending(w) \ {o}) + 1 = Cardinality(Pending(w))
        /\ Cardinality(Pending(w) \ {o}) \in Nat
    BY <2>1, <2>2, OneEntersOrLeaves
  <2>4. Cardinality(Undecided(w)') <= Cardinality(Pending(w) \ {o})
    BY <2>2, FewerHandlers
  <2>5. replies'[w] = replies[w]
    BY <1>4 DEF Records
  <2>6. Told(w) <= calls[ReserveCommand(w)]
    BY AnsweredAll DEF Answered
  <2> QED
    BY <1>1, <1>2, <1>3, <2>3, <2>4, <2>5, <2>6 DEF Told
<1>5. CASE ~(Records(o) /\ op[o].req.order = w)
  <2>1. reservations[w] # "NONE"
    <3>1. CASE Closes(o)
      <4>1. HandlerOK(op[o]) /\ op[o].pc = "close"
        BY <3>1 DEF Closes
      <4>2. reservations[op[o].req.order] # "NONE"
        BY <4>1, Zenon DEF HandlerOK, SettlePcs
      <4> QED
        BY <3>1, <4>2 DEF Closes, TypeOK
    <3>2. CASE Records(o)
      BY <1>5, <3>2 DEF Records, TypeOK
    <3>3. CASE Starts(o) \/ GoesOn(o) \/ Publishes(o) \/ Leaves(o)
      BY <3>3 DEF Starts, GoesOn, Publishes, Leaves
    <3> QED
      BY <3>1, <3>2, <3>3 DEF Path
  <2>2. replies[w].failed + Cardinality(Undecided(w)) < calls[ReserveCommand(w)]
    BY <1>1, <2>1 DEF RefusedLess
  <2>3. CASE replies'[w].failed = replies[w].failed
    BY <1>1, <1>2, <1>3, <2>2, <2>3
  <2>4. CASE replies'[w].failed # replies[w].failed
    <3>1. /\ Publishes(o) /\ op[o].req = ReserveCommand(w) /\ op[o].pc = "replyFailed"
          /\ replies' = [replies EXCEPT ![w].failed = @ + 1]
      <4>1. Publishes(o) /\ op[o].req = ReserveCommand(w)
        BY <2>4, PathPending
      <4>2. op[o].req.order = w
        BY <4>1 DEF ReserveCommand
      <4> QED
        BY <2>4, <4>1, <4>2 DEF Publishes, TypeOK
    <3>2. replies'[w].failed = replies[w].failed + 1
      BY <3>1 DEF TypeOK
    <3>3. o \in Undecided(w) /\ op'[o].req # ReserveCommand(w)
      BY <3>1, CommandFields DEF Undecided, Pending, Publishes
    <3>4. Undecided(w)' \in SUBSET (Undecided(w) \ {o})
          /\ Undecided(w) \ {o} \in SUBSET Ops
          /\ (Undecided(w) \ {o}) \ {o} = Undecided(w) \ {o}
      BY <1>2, <3>3 DEF Undecided, Pending
    <3>5. Cardinality(Undecided(w) \ {o}) + 1 = Cardinality(Undecided(w))
          /\ Cardinality(Undecided(w) \ {o}) \in Nat
      BY <1>2, <3>3, <3>4, OneEntersOrLeaves
    <3>6. Cardinality(Undecided(w)') <= Cardinality(Undecided(w) \ {o})
      BY <3>4, FewerHandlers
    <3> QED
      BY <1>1, <1>2, <1>3, <2>2, <3>2, <3>5, <3>6
  <2> QED
    BY <2>3, <2>4
<1> QED
  BY <1>4, <1>5

LEMMA CallReplies ==
    ASSUME TypeOK, TypeOK', RepliesInv, NEW o \in Ops, NEW r \in Requests, Call(o, r)
    PROVE  RepliesInv'
<1>1. /\ op[o].pc = "idle" /\ op' = [op EXCEPT ![o] = Blank(FirstPc(r), r)]
      /\ calls' = [calls EXCEPT ![r] = @ + 1]
      /\ UNCHANGED <<reservations, replies, crashes, faults>>
  BY DEF Call, Continue, store
<1>2. op \in [Ops -> Handler] /\ calls \in [Requests -> Nat]
  BY DEF TypeOK
<1>3. op[o].req = NoRequest
  BY <1>1 DEF RepliesInv, IdleIsFree
<1>4. /\ op'[o].req = r /\ op'[o].pc \in {"find", "edit"}
      /\ \A x \in Ops \ {o} : op'[x] = op[x]
  BY <1>1, <1>2, BlankFields DEF FirstPc
<1>5. IdleIsFree'
  BY <1>4 DEF RepliesInv, IdleIsFree
<1>6. ASSUME NEW w \in WorkOrders
      PROVE  /\ Cardinality(Pending(w)') = Cardinality(Pending(w))
                    + IF r = ReserveCommand(w) THEN 1 ELSE 0
             /\ Cardinality(Undecided(w)') = Cardinality(Undecided(w))
                    + IF r = ReserveCommand(w) THEN 1 ELSE 0
             /\ calls'[ReserveCommand(w)] = calls[ReserveCommand(w)]
                    + IF r = ReserveCommand(w) THEN 1 ELSE 0
  <2>1. /\ Pending(w) \in SUBSET Ops /\ Pending(w)' \in SUBSET Ops
        /\ Pending(w) \ {o} = Pending(w)' \ {o}
        /\ o \notin Pending(w) /\ (o \in Pending(w)' <=> r = ReserveCommand(w))
    BY <1>3, <1>4, CommandFields DEF Pending
  <2>2. /\ Undecided(w) \in SUBSET Ops /\ Undecided(w)' \in SUBSET Ops
        /\ Undecided(w) \ {o} = Undecided(w)' \ {o}
        /\ o \notin Undecided(w) /\ (o \in Undecided(w)' <=> r = ReserveCommand(w))
    BY <1>3, <1>4, CommandFields DEF Undecided, Pending
  <2>3. Cardinality(Pending(w)') = Cardinality(Pending(w))
            + IF r = ReserveCommand(w) THEN 1 ELSE 0
    BY <2>1, OneEntersOrLeaves
  <2>4. Cardinality(Undecided(w)') = Cardinality(Undecided(w))
            + IF r = ReserveCommand(w) THEN 1 ELSE 0
    BY <2>2, OneEntersOrLeaves
  <2>5. calls'[ReserveCommand(w)] = calls[ReserveCommand(w)]
            + IF r = ReserveCommand(w) THEN 1 ELSE 0
    BY <1>1, <1>2, CommandFields
  <2> QED
    BY <2>3, <2>4, <2>5
<1>7. OneReplyPerCommand'
  <2> SUFFICES ASSUME NEW w \in WorkOrders PROVE Answered(w)'
    BY DEF OneReplyPerCommand, Answered, Told, Pending
  <2>1. Answered(w)
    BY AnsweredAll DEF RepliesInv
  <2> QED
    BY <1>1, <1>6, <2>1, ReplyTypes DEF Answered, Told
<1>8. RefusedLess'
  <2> SUFFICES ASSUME NEW w \in WorkOrders, faults' = 0, reservations'[w] # "NONE"
               PROVE  replies'[w].failed + Cardinality(Undecided(w)')
                          < calls'[ReserveCommand(w)]
    BY DEF RefusedLess, Undecided, Pending
  <2>1. replies[w].failed + Cardinality(Undecided(w)) < calls[ReserveCommand(w)]
    BY <1>1 DEF RepliesInv, RefusedLess
  <2> QED
    BY <1>1, <1>6, <2>1, ReplyTypes
<1> QED
  BY <1>5, <1>7, <1>8 DEF RepliesInv

\* A step after which fewer handlers are pending and that answers nobody is a failure.
LEMMA FailureReplies ==
    ASSUME TypeOK, TypeOK', RepliesInv, IdleIsFree', UNCHANGED <<reservations, replies, calls>>,
           \A x \in Ops : op'[x].req \in {op[x].req, NoRequest},
           \/ crashes' > 0 /\ faults' = faults
              /\ \A x \in Ops : op'[x].req = NoRequest
           \/ faults' > 0
    PROVE  RepliesInv'
<1>1. OneReplyPerCommand'
  <2> SUFFICES ASSUME NEW w \in WorkOrders PROVE Answered(w)'
    BY DEF OneReplyPerCommand, Answered, Told, Pending
  <2>1. Answered(w)
    BY AnsweredAll DEF RepliesInv
  <2>2. Pending(w) \in SUBSET Ops /\ Pending(w)' \in SUBSET Pending(w)
    BY CommandFields DEF Pending
  <2>3. Cardinality(Pending(w)') <= Cardinality(Pending(w))
        /\ Cardinality(Pending(w)') \in Nat
    BY <2>2, FewerHandlers
  <2>4. ~(crashes' = 0 /\ faults' = 0)
    BY DEF TypeOK
  <2> QED
    BY <2>1, <2>3, <2>4, ReplyTypes DEF Answered, Told
<1>2. RefusedLess'
  <2> SUFFICES ASSUME NEW w \in WorkOrders, faults' = 0, reservations'[w] # "NONE"
               PROVE  replies'[w].failed + Cardinality(Undecided(w)')
                          < calls'[ReserveCommand(w)]
    BY DEF RefusedLess, Undecided, Pending
  <2>1. replies[w].failed + Cardinality(Undecided(w)) < calls[ReserveCommand(w)]
    BY DEF RepliesInv, RefusedLess
  <2>2. Undecided(w) \in SUBSET Ops /\ Undecided(w)' \in SUBSET Undecided(w)
    BY CommandFields DEF Undecided, Pending
  <2>3. Cardinality(Undecided(w)') <= Cardinality(Undecided(w))
        /\ Cardinality(Undecided(w)') \in Nat
    BY <2>2, FewerHandlers
  <2> QED
    BY <2>1, <2>3, ReplyTypes
<1> QED
  BY <1>1, <1>2 DEF RepliesInv

LEMMA InitReplies == Init => RepliesInv
<1> SUFFICES ASSUME Init PROVE RepliesInv
  OBVIOUS
<1>1. \A x \in Ops : op[x] = Idle
  BY DEF Init
<1>2. IdleIsFree
  BY <1>1, BlankFields DEF IdleIsFree, Idle
<1>3. ASSUME NEW w \in WorkOrders PROVE Answered(w)
  <2>1. Pending(w) = {}
    BY <1>1, CommandFields DEF Pending
  <2>2. Cardinality(Pending(w)) = 0
    BY <2>1, FS_EmptySet
  <2> QED
    BY <2>2, CommandFields DEF Init, Answered, Told
<1>4. RefusedLess
  BY DEF Init, RefusedLess
<1> QED
  BY <1>2, <1>3, <1>4, AnsweredAll DEF RepliesInv

\* Where an exception takes a handler.
LEMMA FaultPath ==
    ASSUME TypeOK, NEW o \in Ops, Fault(o)
    PROVE  /\ op[o].pc # "idle" /\ op'[o] = AfterThrow(op[o]) /\ Others(o)
           /\ \/ op'[o] = Idle
              \/ op[o].req.kind = "reserve" /\ op'[o] = Blank("replyFailed", op[o].req)
           /\ faults' > 0
           /\ UNCHANGED <<parts, reservations, replies, calls, crashes, held, clobbered>>
<1>1. /\ op' = [op EXCEPT ![o] = AfterThrow(op[o])] /\ faults' = faults + 1
      /\ op[o].pc # "idle"
      /\ UNCHANGED <<parts, reservations, replies, calls, crashes, held, clobbered>>
  BY DEF Fault, Continue, store
<1>2. op \in [Ops -> Handler] /\ faults \in Nat
  BY DEF TypeOK
<1>3. \/ AfterThrow(op[o]) = Idle
      \/ op[o].req.kind = "reserve" /\ AfterThrow(op[o]) = Blank("replyFailed", op[o].req)
  BY DEF AfterThrow
<1> QED
  BY <1>1, <1>2, <1>3 DEF Others

LEMMA NextReplies ==
    IInv /\ IInv' /\ RepliesInv /\ [Next]_vars => RepliesInv'
<1> SUFFICES ASSUME IInv, IInv', RepliesInv, [Next]_vars PROVE RepliesInv'
  OBVIOUS
<1>1. TypeOK /\ TypeOK' /\ \A x \in Ops : HandlerOK(op[x])
  BY DEF IInv
<1>2. ASSUME NEW o \in Ops, NEW r \in Requests, Call(o, r) PROVE RepliesInv'
  BY <1>1, <1>2, CallReplies
<1>3. ASSUME NEW o \in Ops, Step(o) PROVE RepliesInv'
  <2>1. Path(o)
    BY <1>3, StepPath
  <2>2. IdleIsFree'
    BY <2>1, PathIdle DEF RepliesInv
  <2>3. OneReplyPerCommand'
    BY <1>1, <2>1, PathAnswers DEF RepliesInv
  <2>4. RefusedLess'
    BY <1>1, <2>1, PathRefuses DEF RepliesInv
  <2> QED
    BY <2>2, <2>3, <2>4 DEF RepliesInv
<1>4. ASSUME UNCHANGED <<reservations, replies, calls, crashes, faults, op>>
      PROVE  RepliesInv'
  BY <1>4 DEF RepliesInv, IdleIsFree, OneReplyPerCommand, RefusedLess, Undecided, Pending
<1>5. ASSUME NEW p \in Parts, CreatePart(p) PROVE RepliesInv'
  BY <1>4, <1>5 DEF CreatePart, budget
<1>6. CASE Crash
  <2>1. /\ \A x \in Ops : op'[x] = Idle
        /\ crashes' = crashes + 1 /\ UNCHANGED <<reservations, replies, calls, faults>>
    BY <1>6 DEF Crash, store
  <2>2. \A x \in Ops : op'[x].req = NoRequest
    BY <2>1, BlankFields DEF Idle
  <2>3. IdleIsFree' /\ crashes' > 0
    BY <1>1, <2>1, <2>2 DEF IdleIsFree, TypeOK
  <2> QED
    BY <1>1, <2>1, <2>2, <2>3, FailureReplies
<1>7. ASSUME NEW o \in Ops, Fault(o) PROVE RepliesInv'
  <2>1. /\ Others(o) /\ faults' > 0 /\ UNCHANGED <<reservations, replies, calls>>
        /\ \/ op'[o] = Idle
           \/ op'[o] = Blank("replyFailed", op[o].req)
    BY <1>1, <1>7, FaultPath
  <2>2. /\ op'[o].req \in {op[o].req, NoRequest}
        /\ op'[o].pc = "idle" => op'[o].req = NoRequest
    BY <2>1, BlankFields DEF Idle
  <2>3. IdleIsFree'
    BY <2>1, <2>2 DEF RepliesInv, IdleIsFree, Others
  <2>4. \A x \in Ops : op'[x].req \in {op[x].req, NoRequest}
    BY <2>1, <2>2 DEF Others
  <2> QED
    BY <1>1, <2>1, <2>3, <2>4, FailureReplies
<1>8. CASE UNCHANGED vars
  BY <1>4, <1>8 DEF vars, store, budget
<1> QED
  BY <1>2, <1>3, <1>5, <1>6, <1>7, <1>8 DEF Next

LEMMA RepliesAreInvariant == Spec => []RepliesInv
<1>1. Init => RepliesInv
  BY InitReplies
<1>2. IInv /\ IInv' /\ RepliesInv /\ [Next]_vars => RepliesInv'
  BY NextReplies
<1> QED
  BY <1>1, <1>2, InductiveInvariant, PTL DEF Spec

\* OneReplyPerCommand: InventorySagaSubscriber.onReserveParts answers every
\* parts.reserve once at most, and exactly once unless something failed, however
\* many deliveries are in flight.
THEOREM RepliesAreCounted == Spec => []OneReplyPerCommand
<1>1. RepliesInv => OneReplyPerCommand
  BY DEF RepliesInv
<1> QED
  BY <1>1, RepliesAreInvariant, PTL

\* An order that was answered has no parts.reserve in flight, if one at most was
\* delivered.
LEMMA AllAnswered ==
    ASSUME IInv, OneReplyPerCommand, NEW w \in WorkOrders,
           replies[w].reserved + replies[w].failed > 0, calls[ReserveCommand(w)] <= 1
    PROVE  /\ calls[ReserveCommand(w)] = 1
           /\ \A o \in Ops : op[o].req # ReserveCommand(w)
<1> DEFINE pending == {o \in Ops : op[o].req = ReserveCommand(w)}
           n == Cardinality(pending)
           c == calls[ReserveCommand(w)]
           a == replies[w].reserved
           b == replies[w].failed
<1>1. IsFiniteSet(pending)
  BY OpsFinite, FS_Subset
<1>2. n \in Nat /\ (n = 0 <=> pending = {})
  BY <1>1, FS_CardinalityType, FS_EmptySet
<1>3. a \in Nat /\ b \in Nat /\ c \in Nat
  BY ReplyTypes DEF IInv
<1>4. a + b + n <= c /\ a + b > 0 /\ c <= 1
  BY DEF OneReplyPerCommand
<1> HIDE DEF n, c, a, b
<1>5. n = 0 /\ c = 1
  BY <1>2, <1>3, <1>4
<1> QED
  BY <1>2, <1>5 DEF c

-----------------------------------------------------------------------------
(* One handler at a time works for an order left in peace.                    *)

\* A step that sets nobody to work.
NobodyStarts ==
    /\ \A x \in Ops : op'[x].pc \in Working => op'[x].pc = op[x].pc /\ op'[x].req = op[x].req
    /\ disturbed \subseteq disturbed'

LEMMA NobodyStartsAlone ==
    ASSUME AloneInv, NobodyStarts, reservations' = reservations
    PROVE  AloneInv'
<1>1. \A w : \A x \in Ops : WorksFor(x, w)' => WorksFor(x, w) /\ op'[x].pc = op[x].pc
  BY DEF WorksFor, NobodyStarts
<1>2. WorksAlone'
  BY <1>1 DEF AloneInv, WorksAlone, NobodyStarts
<1>3. ReadStillTrue'
  BY <1>1 DEF AloneInv, ReadStillTrue, NobodyStarts
<1> QED
  BY <1>2, <1>3 DEF AloneInv

LEMMA PathAlone ==
    ASSUME TypeOK, AloneInv, NEW o \in Ops, Path(o)
    PROVE  AloneInv'
<1> DEFINE v == op[o].req.order
<1>1. \A x \in Ops \ {o}, w \in WorkOrders :
         /\ op'[x].pc = op[x].pc
         /\ WorksFor(x, w)' <=> WorksFor(x, w)
  BY DEF Path, Elsewhere, SamePlace, WorksFor
<1>2. CASE Starts(o)
  <2>1. /\ v \in WorkOrders /\ op'[o].req = op[o].req /\ op'[o].pc \in {"check", "load"}
        /\ reservations[v] = IF op'[o].pc = "load" THEN "RESERVED" ELSE "NONE"
        /\ reservations' = reservations
        /\ \A w \in WorkOrders \ disturbed' : w \notin disturbed
        /\ v \notin disturbed' => \A x \in Ops : ~WorksFor(x, v)
    BY <1>2 DEF Starts
  <2>2. \A w \in WorkOrders : WorksFor(o, w)' => w = v
    BY <2>1 DEF WorksFor
  <2>3. ASSUME NEW w \in WorkOrders \ disturbed', NEW x \in Ops, WorksFor(x, w)'
        PROVE  IF w = v THEN x = o ELSE x # o /\ WorksFor(x, w)
    BY <1>1, <2>1, <2>2, <2>3
  <2>4. WorksAlone'
    BY <2>1, <2>3 DEF AloneInv, WorksAlone
  <2>5. ASSUME NEW w \in WorkOrders \ disturbed', NEW x \in Ops, WorksFor(x, w)'
        PROVE  reservations'[w] = IF op'[x].pc \in SettlePcs THEN "RESERVED" ELSE "NONE"
    <3>1. CASE w = v
      BY <2>1, <2>3, <2>5, <3>1 DEF SettlePcs
    <3>2. CASE w # v
      BY <1>1, <2>1, <2>3, <2>5, <3>2 DEF AloneInv, ReadStillTrue
    <3> QED
      BY <3>1, <3>2
  <2> QED
    BY <2>4, <2>5 DEF AloneInv, ReadStillTrue
<1>3. CASE GoesOn(o)
  <2>1. \A x \in Ops, w \in WorkOrders :
           /\ WorksFor(x, w)' <=> WorksFor(x, w)
           /\ op'[x].pc \in SettlePcs <=> op[x].pc \in SettlePcs
    BY <1>1, <1>3 DEF GoesOn, WorksFor
  <2>2. reservations' = reservations /\ disturbed' = disturbed
    BY <1>3 DEF GoesOn
  <2>3. WorksAlone'
    BY <2>1, <2>2 DEF AloneInv, WorksAlone
  <2>4. ReadStillTrue'
    BY <2>1, <2>2 DEF AloneInv, ReadStillTrue
  <2> QED
    BY <2>3, <2>4 DEF AloneInv
<1>4. CASE Records(o) \/ Closes(o)
  <2>1. /\ v \in WorkOrders /\ WorksFor(o, v) /\ disturbed' = disturbed
        /\ \A w \in WorkOrders \ {v} : reservations'[w] = reservations[w]
    BY <1>4 DEF Records, Closes, WorksFor, Working, SettlePcs, TypeOK
  <2>2. \A w \in WorkOrders : ~WorksFor(o, w)'
    BY <1>4, BlankFields DEF Records, Closes, WorksFor, Working, SettlePcs, Idle
  <2>3. \A x \in Ops, w \in WorkOrders : WorksFor(x, w)' => x # o /\ WorksFor(x, w)
    BY <1>1, <2>2
  <2>4. WorksAlone'
    BY <2>1, <2>3 DEF AloneInv, WorksAlone
  <2>5. \A x \in Ops, w \in WorkOrders \ disturbed : WorksFor(x, w)' => w # v
    BY <2>1, <2>3 DEF AloneInv, WorksAlone
  <2>6. ReadStillTrue'
    BY <1>1, <2>1, <2>3, <2>5 DEF AloneInv, ReadStillTrue
  <2> QED
    BY <2>4, <2>6 DEF AloneInv
<1>5. CASE Publishes(o) \/ Leaves(o)
  <2>1. op'[o].pc \notin Working /\ UNCHANGED <<reservations, disturbed>>
    BY <1>5, BlankFields DEF Publishes, Leaves, Idle, Working, SettlePcs
  <2>2. NobodyStarts
    BY <2>1 DEF NobodyStarts, Path, Elsewhere, SamePlace
  <2> QED
    BY <2>1, <2>2, NobodyStartsAlone
<1> QED
  BY <1>2, <1>3, <1>4, <1>5 DEF Path

LEMMA NextAlone == IInv /\ AloneInv /\ [Next]_vars => AloneInv'
<1> SUFFICES ASSUME IInv, AloneInv, [Next]_vars PROVE AloneInv'
  OBVIOUS
<1>1. TypeOK
  BY DEF IInv
<1>2. ASSUME NEW o \in Ops, NEW r \in Requests, Call(o, r) PROVE AloneInv'
  <2>1. /\ op' = [op EXCEPT ![o] = Blank(FirstPc(r), r)]
        /\ UNCHANGED <<reservations, disturbed>>
    BY <1>2 DEF Call, Continue, store, history
  <2>2. op'[o].pc \notin Working /\ \A x \in Ops \ {o} : op'[x] = op[x]
    BY <1>1, <2>1, BlankFields DEF TypeOK, FirstPc, Working, SettlePcs
  <2>3. NobodyStarts
    BY <2>1, <2>2 DEF NobodyStarts
  <2> QED
    BY <2>1, <2>3, NobodyStartsAlone
<1>3. ASSUME NEW o \in Ops, Step(o) PROVE AloneInv'
  BY <1>1, <1>3, StepPath, PathAlone
<1>4. ASSUME UNCHANGED <<op, reservations, disturbed>> PROVE AloneInv'
  BY <1>4, NobodyStartsAlone DEF NobodyStarts
<1>5. ASSUME NEW p \in Parts, CreatePart(p) PROVE AloneInv'
  BY <1>4, <1>5 DEF CreatePart
<1>6. CASE Crash
  <2>1. /\ \A x \in Ops : op'[x] = Idle
        /\ reservations' = reservations /\ disturbed \subseteq disturbed'
    BY <1>6 DEF Crash, store
  <2>2. NobodyStarts
    BY <2>1, BlankFields DEF NobodyStarts, Idle, Working, SettlePcs
  <2> QED
    BY <2>1, <2>2, NobodyStartsAlone
<1>7. ASSUME NEW o \in Ops, Fault(o) PROVE AloneInv'
  <2>1. /\ Others(o) /\ reservations' = reservations
        /\ op'[o] = Idle \/ op'[o] = Blank("replyFailed", op[o].req)
    BY <1>1, <1>7, FaultPath
  <2>2. op'[o].pc \notin Working
    BY <2>1, BlankFields DEF Idle, Working, SettlePcs
  <2>3. disturbed \subseteq disturbed'
    BY <1>7 DEF Fault
  <2>4. NobodyStarts
    BY <2>1, <2>2, <2>3 DEF NobodyStarts, Others
  <2> QED
    BY <2>1, <2>4, NobodyStartsAlone
<1>8. CASE UNCHANGED vars
  BY <1>4, <1>8 DEF vars, store, history
<1> QED
  BY <1>2, <1>3, <1>5, <1>6, <1>7, <1>8 DEF Next

LEMMA InitAlone == Init => AloneInv
BY BlankFields DEF Init, Idle, AloneInv, WorksAlone, ReadStillTrue, WorksFor, Working, SettlePcs

LEMMA AloneIsInvariant == Spec => []AloneInv
BY InitAlone, NextAlone, InductiveInvariant, PTL DEF Spec

\* ClosedStaysClosed: ReleasePartsUseCase and ConsumePartsUseCase write the status of
\* the entity they read; a reservation left in peace is closed once and for all, and
\* none is ever reopened.
THEOREM ClosedIsFinal == Spec => ClosedStaysClosed
<1> DEFINE Final ==
        \A w \in WorkOrders : reservations[w] \in Closed =>
            /\ reservations'[w] \in Closed
            /\ w \in disturbed' \/ reservations'[w] = reservations[w]
<1>1. IInv /\ AloneInv /\ [Next]_vars => [Final]_vars
  <2> SUFFICES ASSUME IInv, AloneInv, Next, NEW w \in WorkOrders, reservations[w] \in Closed
               PROVE  /\ reservations'[w] \in Closed
                      /\ w \in disturbed' \/ reservations'[w] = reservations[w]
    OBVIOUS
  <2>1. reservations \in [WorkOrders -> ReservationStates]
    BY DEF IInv, TypeOK
  <2>2. CASE reservations'[w] = reservations[w]
    BY <2>2
  <2>3. CASE reservations'[w] # reservations[w]
    <3>1. PICK o \in Ops : Step(o)
      BY <2>3 DEF Next, Call, CreatePart, Crash, Fault, store
    <3>2. Path(o)
      BY <3>1, StepPath
    <3>3. Records(o) \/ Closes(o)
      BY <2>3, <3>2 DEF Path, Starts, GoesOn, Publishes, Leaves
    <3>4. w = op[o].req.order
      BY <2>1, <2>3, <3>3 DEF Records, Closes
    <3>5. Closes(o)
      BY <3>3, <3>4 DEF Records, Closed
    <3>6. reservations'[w] \in Closed /\ disturbed' = disturbed
      BY <2>1, <3>4, <3>5 DEF Closes, ClosedAs, Closed
    <3>7. w \in disturbed
      BY <3>4, <3>5 DEF Closes, Closed, AloneInv, ReadStillTrue, WorksFor, Working, SettlePcs
    <3> QED
      BY <3>6, <3>7
  <2> QED
    BY <2>2, <2>3
<1> QED
  BY <1>1, InductiveInvariant, AloneIsInvariant, PTL DEF Spec, ClosedStaysClosed

-----------------------------------------------------------------------------
(* What a payload still asks for.                                              *)

LEMMA UnitsFinite ==
    ASSUME NEW w \in WorkOrders, NEW p, NEW i \in Nat
    PROVE  IsFiniteSet(UnitsFrom(w, p, i)) /\ Remaining(w, p, i) \in Nat
<1>1. Len(Demand[w]) \in Nat /\ MaxQuantity \in Nat
  BY DemandType
<1>2. IsFiniteSet(i..Len(Demand[w])) /\ IsFiniteSet(1..MaxQuantity)
  <2>1. i \in Int /\ 1 \in Int /\ Len(Demand[w]) \in Int /\ MaxQuantity \in Int
    BY <1>1
  <2> QED
    BY <2>1, FS_Interval
<1>3. IsFiniteSet((i..Len(Demand[w])) \X (1..MaxQuantity))
  BY <1>2, FS_Product
<1>4. UnitsFrom(w, p, i) \in SUBSET ((i..Len(Demand[w])) \X (1..MaxQuantity))
  BY DEF UnitsFrom
<1>5. IsFiniteSet(UnitsFrom(w, p, i))
  BY <1>3, <1>4, FS_Subset
<1> QED
  BY <1>5, FS_CardinalityType DEF Remaining

LEMMA AllRemains ==
    ASSUME NEW w, NEW p
    PROVE  Remaining(w, p, 1) = Asked(w, p)
BY DEF Remaining, UnitsFrom, Asked

LEMMA NothingRemains ==
    ASSUME NEW w \in WorkOrders, NEW p
    PROVE  Remaining(w, p, Len(Demand[w]) + 1) = 0
<1>1. Len(Demand[w]) \in Nat
  BY DemandType
<1>2. (Len(Demand[w]) + 1)..Len(Demand[w]) = {}
  BY <1>1
<1>3. UnitsFrom(w, p, Len(Demand[w]) + 1) = {}
  BY <1>2 DEF UnitsFrom
<1> QED
  BY <1>3, FS_EmptySet DEF Remaining

LEMMA NothingAsked ==
    ASSUME NEW w \in WorkOrders, NEW p, p \notin Requested(w)
    PROVE  Asked(w, p) = 0
<1>1. DOMAIN Demand[w] = 1..Len(Demand[w])
  BY Items
<1>2. \A i \in 1..Len(Demand[w]) : Demand[w][i].part # p
  BY <1>1 DEF Requested
<1>3. UnitsFrom(w, p, 1) = {}
  BY <1>2 DEF UnitsFrom
<1> QED
  BY <1>3, AllRemains, FS_EmptySet DEF Remaining

\* One item less.
LEMMA ItemRemains ==
    ASSUME NEW w \in WorkOrders, ValidItems(w), NEW i \in DOMAIN Demand[w], NEW p
    PROVE  LET item == Demand[w][i]
           IN  /\ item.quantity \in Nat
               /\ Remaining(w, p, i) \in Nat /\ Remaining(w, p, i + 1) \in Nat
               /\ Remaining(w, p, i) = Remaining(w, p, i + 1)
                                        + IF item.part = p THEN item.quantity ELSE 0
<1> DEFINE n == Len(Demand[w])
           q == Demand[w][i].quantity
           Own == {u \in {i} \X (1..MaxQuantity) :
                     Demand[w][u[1]].part = p /\ u[2] <= Demand[w][u[1]].quantity}
<1>1. n \in Nat /\ i \in 1..n /\ MaxQuantity \in Nat
  BY Items, DemandType
<1>2. q \in Nat /\ q <= MaxQuantity
  BY DemandType, DemandItem DEF ValidItems
<1>3. i \in Nat /\ i + 1 \in Nat
  BY <1>1
<1>4. /\ IsFiniteSet(UnitsFrom(w, p, i)) /\ IsFiniteSet(UnitsFrom(w, p, i + 1))
      /\ Remaining(w, p, i) \in Nat /\ Remaining(w, p, i + 1) \in Nat
  BY <1>3, UnitsFinite
<1>5. UnitsFrom(w, p, i) = UnitsFrom(w, p, i + 1) \cup Own
  <2>1. i..n = ((i + 1)..n) \cup {i}
    BY <1>1
  <2>2. (i..n) \X (1..MaxQuantity)
          = (((i + 1)..n) \X (1..MaxQuantity)) \cup ({i} \X (1..MaxQuantity))
    BY <2>1
  <2> QED
    BY <2>2 DEF UnitsFrom
<1>6. UnitsFrom(w, p, i + 1) \cap Own = {}
  <2>1. ASSUME NEW u \in UnitsFrom(w, p, i + 1) PROVE u[1] \in (i + 1)..n
    BY <2>1 DEF UnitsFrom
  <2>2. ASSUME NEW u \in Own PROVE u[1] = i
    BY <2>2
  <2>3. i \notin (i + 1)..n
    BY <1>1
  <2> HIDE DEF Own, n
  <2> QED
    BY <2>1, <2>2, <2>3
<1>7. IsFiniteSet(Own) /\ Cardinality(Own) = IF Demand[w][i].part = p THEN q ELSE 0
  <2>1. CASE Demand[w][i].part # p
    <3>1. Own = {}
      BY <2>1
    <3> QED
      BY <2>1, <3>1, FS_EmptySet
  <2>2. CASE Demand[w][i].part = p
    <3>1. 1..q = {k \in 1..MaxQuantity : k <= q}
      BY <1>1, <1>2
    <3>2. Own = {i} \X (1..q)
      BY <2>2, <3>1
    <3>3. IsFiniteSet(1..q) /\ Cardinality(1..q) = q
      <4>1. q \in Int /\ 1 \in Int
        BY <1>2
      <4>2. IsFiniteSet(1..q) /\ Cardinality(1..q) = IF 1 > q THEN 0 ELSE q - 1 + 1
        BY <4>1, FS_Interval
      <4> HIDE DEF q
      <4> QED
        BY <1>2, <4>2
    <3>4. IsFiniteSet({i}) /\ Cardinality({i}) = 1
      BY FS_Singleton
    <3>5. IsFiniteSet(Own) /\ Cardinality(Own) = 1 * q
      <4> HIDE DEF Own, q
      <4> QED
        BY <3>2, <3>3, <3>4, FS_Product, ZenonT(30)
    <3> QED
      BY <1>2, <2>2, <3>5
  <2> QED
    BY <2>1, <2>2
<1>8. Remaining(w, p, i) = Remaining(w, p, i + 1) + Cardinality(Own)
  <2> HIDE DEF Own
  <2>1. Cardinality(UnitsFrom(w, p, i + 1) \cap Own) = 0
    BY <1>6, FS_EmptySet
  <2>2. Cardinality(Own) \in Nat
    BY <1>7, FS_CardinalityType
  <2> QED
    BY <1>4, <1>5, <1>7, <2>1, <2>2, FS_Union DEF Remaining
<1> QED
  BY <1>2, <1>4, <1>7, <1>8

-----------------------------------------------------------------------------
(* The books: what is reserved of a part is what the orders hold of it.        *)

LEMMA HeldOfType ==
    ASSUME TypeOK, NEW p \in Parts
    PROVE  HeldOf(p) \in [WorkOrders -> Int]
BY DEF TypeOK, HeldOf

\* A step that writes no reserved quantity.
LEMMA SameBooks ==
    ASSUME ReservedMatchesHeld, AbsentIsEmpty, held' = held, clobbered \subseteq clobbered',
           \A p \in Parts : parts'[p].state = "absent" => parts[p].state = "absent",
           \A p \in Parts : \/ parts'[p].reserved = parts[p].reserved
                            \/ p \in clobbered' /\ parts'[p].state # "absent"
    PROVE  ReservedMatchesHeld' /\ AbsentIsEmpty'
<1>1. \A p \in Parts : HeldOf(p)' = HeldOf(p)
  BY DEF HeldOf
<1> QED
  BY <1>1 DEF ReservedMatchesHeld, AbsentIsEmpty

\* A write for w that moves d units of p into what is reserved.
LEMMA BooksMove ==
    ASSUME TypeOK, TypeOK', ReservedMatchesHeld, AbsentIsEmpty,
           NEW w \in WorkOrders, NEW p \in Parts, NEW d \in Int,
           held'[w][p] = held[w][p] + d,
           \A v \in WorkOrders \ {w} : held'[v][p] = held[v][p],
           HeldElsewhere(p), Untouched(p), parts'[p].state # "absent",
           p \notin clobbered' => /\ p \notin clobbered
                                  /\ parts'[p].reserved = parts[p].reserved + d
    PROVE  ReservedMatchesHeld' /\ AbsentIsEmpty'
<1>1. AbsentIsEmpty'
  BY DEF AbsentIsEmpty, Untouched
<1>2. ASSUME NEW q \in Parts \ {p}, q \notin clobbered'
      PROVE  parts'[q].reserved = SumFunctionOnSet(HeldOf(q)', WorkOrders)
  <2>1. HeldOf(q)' = HeldOf(q)
    BY DEF HeldOf, HeldElsewhere
  <2> QED
    BY <1>2, <2>1 DEF Untouched, ReservedMatchesHeld
<1>3. ASSUME p \notin clobbered'
      PROVE  parts'[p].reserved = SumFunctionOnSet(HeldOf(p)', WorkOrders)
  <2>1. /\ parts'[p].reserved = parts[p].reserved + d
        /\ parts[p].reserved = SumFunctionOnSet(HeldOf(p), WorkOrders)
    BY <1>3 DEF ReservedMatchesHeld
  <2>2. HeldOf(p) \in [WorkOrders -> Int] /\ HeldOf(p)' \in [WorkOrders -> Int]
    BY DEF TypeOK, HeldOf
  <2>3. /\ HeldOf(p)'[w] = HeldOf(p)[w] + d
        /\ \A v \in WorkOrders \ {w} : HeldOf(p)'[v] = HeldOf(p)[v]
    BY DEF HeldOf
  <2>4. SumFunctionOnSet(HeldOf(p)', WorkOrders)
          = SumFunctionOnSet(HeldOf(p), WorkOrders) + d
    BY <2>2, <2>3, OrdersFinite, SumMoves, ZenonT(30)
  <2> QED
    BY <2>1, <2>4
<1>4. ReservedMatchesHeld'
  BY <1>2, <1>3 DEF ReservedMatchesHeld
<1> QED
  BY <1>1, <1>4

LEMMA ReserveWriteBooks ==
    ASSUME BooksInv, TypeOK', NEW o \in Ops, ReserveWrite(o)
    PROVE  ReservedMatchesHeld' /\ AbsentIsEmpty'
<1> DEFINE h == op[o]
           w == h.req.order
<1>1. IInv /\ TypeOK /\ HandlerOK(h) /\ h.pc = "write" /\ h \in Handler
  BY Zenon DEF BooksInv, AccountInv, IInv, TypeOK, ReserveWrite
<1>2. /\ h.req.kind = "reserve" /\ w \in WorkOrders /\ h.idx \in DOMAIN Demand[w]
      /\ \A q \in Requested(w) : h.copy[q].state # "absent"
  BY <1>1 DEF HandlerOK, SagaCommands, ReservePcs
<1>3. PICK p \in Parts : p = Demand[w][h.idx].part /\ p \in Requested(w)
  BY <1>2, DemandItem
<1> DEFINE n == h.moved[p]
<1>4. PICK g : SavePart(o, p, g)
  BY <1>3, Zenon DEF ReserveWrite
<1>5. n \in Nat /\ held' = [held EXCEPT ![w][p] = @ + n]
  BY <1>1, <1>3, Zenon DEF ReserveWrite, Handler
<1>6. /\ Untouched(p) /\ parts'[p] = h.copy[p] /\ parts'[p].state # "absent"
      /\ p \notin clobbered' => p \notin clobbered /\ p \notin h.stale
  BY <1>1, <1>2, <1>3, <1>4, SaveElsewhere, Zenon
<1>7. /\ held'[w][p] = held[w][p] + n /\ HeldElsewhere(p)
      /\ \A v \in WorkOrders \ {w} : held'[v][p] = held[v][p]
  <2>1. held \in [WorkOrders -> [Parts -> Int]]
    BY <1>1 DEF TypeOK
  <2> HIDE DEF w, n
  <2> QED
    BY <1>2, <1>5, <2>1 DEF HeldElsewhere
<1>8. ASSUME p \notin clobbered' PROVE parts'[p].reserved = parts[p].reserved + n
  <2>1. parts'[p] = ReserveUnits(parts[p], n)
    BY <1>2, <1>3, <1>6, <1>8, Zenon DEF BooksInv, AccountInv, CopyExact, Due
  <2>2. parts[p] \in PartDoc
    BY <1>1 DEF TypeOK
  <2> QED
    BY <2>1, <2>2 DEF ReserveUnits, PartDoc
<1> HIDE DEF n, w
<1> QED
  BY <1>1, <1>2, <1>5, <1>6, <1>7, <1>8, BooksMove DEF BooksInv

LEMMA SettleWriteBooks ==
    ASSUME BooksInv, TypeOK', NEW o \in Ops, SettleWrite(o)
    PROVE  ReservedMatchesHeld' /\ AbsentIsEmpty'
<1> DEFINE h == op[o]
           w == h.req.order
<1>1. IInv /\ TypeOK /\ HandlerOK(h) /\ h.pc = "settle" /\ h \in Handler
  BY Zenon DEF BooksInv, AccountInv, IInv, TypeOK, SettleWrite
<1>2. /\ h.req.kind \in {"release", "consume"} /\ w \in WorkOrders
      /\ h.idx \in DOMAIN Demand[w]
      /\ h.copy[Demand[w][h.idx].part].state # "absent"
  BY <1>1, Zenon DEF HandlerOK, SagaCommands, SettlePcs
<1>3. PICK p \in Parts : p = Demand[w][h.idx].part
  BY <1>2, DemandItem, Zenon
<1> DEFINE n == h.moved[p]
           d == 0 - n
<1>4. PICK g : SavePart(o, p, g)
  BY <1>3, Zenon DEF SettleWrite
<1>5. n \in Nat /\ held' = [held EXCEPT ![w][p] = @ - n]
  BY <1>1, <1>3, Zenon DEF SettleWrite, Handler
<1>6. /\ Untouched(p) /\ parts'[p] = h.copy[p] /\ parts'[p].state # "absent"
      /\ p \notin clobbered' => p \notin clobbered /\ p \notin h.stale
  BY <1>1, <1>2, <1>3, <1>4, SaveElsewhere, ZenonT(30)
<1>7. /\ held'[w][p] = held[w][p] + d /\ HeldElsewhere(p) /\ d \in Int
      /\ \A v \in WorkOrders \ {w} : held'[v][p] = held[v][p]
  <2>1. held \in [WorkOrders -> [Parts -> Int]]
    BY <1>1 DEF TypeOK
  <2>2. d \in Int /\ held[w][p] - n = held[w][p] + d
    <3>1. held[w][p] \in Int
      BY <1>2, <2>1, Zenon
    <3> HIDE DEF w, n
    <3> QED
      BY <1>5, <3>1
  <2> HIDE DEF w, n
  <2> QED
    BY <1>2, <1>5, <2>1, <2>2 DEF HeldElsewhere
<1>8. ASSUME p \notin clobbered' PROVE parts'[p].reserved = parts[p].reserved + d
  <2>1. /\ parts'[p] = IF h.req.kind = "release" THEN ReleaseUnits(parts[p], n)
                                                  ELSE ConsumeUnits(parts[p], n)
    BY <1>2, <1>3, <1>6, <1>8, Zenon DEF BooksInv, AccountInv, CopyExact, Due
  <2>2. parts[p] \in PartDoc /\ parts[p].reserved \in Nat
    BY <1>1 DEF TypeOK, PartDoc
  <2>3. parts'[p].reserved = parts[p].reserved - n
    <3> HIDE DEF n
    <3> QED
      BY <2>1, <2>2 DEF ReleaseUnits, ConsumeUnits, PartDoc
  <2> QED
    BY <1>5, <2>2, <2>3
<1> HIDE DEF d, w
<1> QED
  BY <1>1, <1>2, <1>6, <1>7, <1>8, BooksMove DEF BooksInv

LEMMA AdminSaveBooks ==
    ASSUME BooksInv, NEW o \in Ops, AdminSave(o)
    PROVE  ReservedMatchesHeld' /\ AbsentIsEmpty'
<1> DEFINE h == op[o]
<1>1. IInv /\ TypeOK /\ HandlerOK(h) /\ h.pc = "save" /\ held' = held
  BY DEF BooksInv, AccountInv, IInv, AdminSave
<1>2. h.req \in AdminCalls /\ h.copy[h.req.part].state # "absent"
  BY <1>1 DEF HandlerOK, AdminPcs
<1>3. PICK p \in Parts : p = h.req.part
  BY <1>2 DEF AdminCalls
<1>4. SavePart(o, p, Idle)
  BY <1>3 DEF AdminSave
<1>5. /\ Untouched(p) /\ parts'[p] = h.copy[p] /\ parts'[p].state # "absent"
      /\ p \notin clobbered' => p \notin clobbered /\ p \notin h.stale
  BY <1>1, <1>2, <1>3, <1>4, SaveElsewhere
<1>6. clobbered \subseteq clobbered'
  BY <1>4 DEF SavePart
<1>7. ASSUME p \notin clobbered' PROVE parts'[p].reserved = parts[p].reserved
  <2>1. h.req.kind \in {"restock", "update", "delete"}
    BY <1>2 DEF AdminCalls
  <2>2. parts'[p] = Edited(parts[p], h.req)
    BY <1>2, <1>3, <1>5, <1>7, <2>1 DEF BooksInv, AccountInv, CopyExact, Due
  <2>3. parts[p] \in PartDoc
    BY <1>1 DEF TypeOK
  <2> HIDE DEF h
  <2> QED
    BY <2>1, <2>2, <2>3 DEF Edited, Deleted, PartDoc
<1> QED
  BY <1>1, <1>5, <1>6, <1>7, SameBooks DEF BooksInv, Untouched

LEMMA NextBooks == BooksInv /\ [Next]_vars => BooksInv'
<1> SUFFICES ASSUME BooksInv, [Next]_vars PROVE BooksInv'
  OBVIOUS
<1>1. AccountInv' /\ TypeOK' /\ IInv /\ TypeOK
  BY NextIInv, NextExact DEF BooksInv, AccountInv, AllExact, IInv
<1>2. ASSUME UNCHANGED <<parts, held, clobbered>>
      PROVE  ReservedMatchesHeld' /\ AbsentIsEmpty'
  BY <1>2, SameBooks DEF BooksInv
<1>3. ASSUME NEW o \in Ops, NEW r \in Requests, Call(o, r)
      PROVE  ReservedMatchesHeld' /\ AbsentIsEmpty'
  BY <1>2, <1>3 DEF Call, store, history
<1>4. ASSUME NEW o \in Ops, Step(o) PROVE ReservedMatchesHeld' /\ AbsentIsEmpty'
  <2>1. CASE ReserveWrite(o)
    BY <1>1, <2>1, ReserveWriteBooks
  <2>2. CASE SettleWrite(o)
    BY <1>1, <2>2, SettleWriteBooks
  <2>3. CASE AdminSave(o)
    BY <2>3, AdminSaveBooks
  <2>4. CASE ~(ReserveWrite(o) \/ SettleWrite(o) \/ AdminSave(o))
    <3>1. UNCHANGED <<parts, held, clobbered>>
      BY <1>4, <2>4, Zenon DEF Step, ReserveFind, ReserveCheck, ReserveRecord, PublishReserved,
           PublishFailed, SettleFind, SettleLoad, SettleClose, UpdatePart, RestockPart,
           DeletePart, AdminEdit, store, history
    <3> QED
      BY <1>2, <3>1
  <2> QED
    BY <2>1, <2>2, <2>3, <2>4
<1>5. ASSUME NEW p \in Parts, CreatePart(p) PROVE ReservedMatchesHeld' /\ AbsentIsEmpty'
  <2>1. /\ parts' = [parts EXCEPT ![p] = FreshPart(p)] /\ parts[p].state = "absent"
        /\ held' = held /\ clobbered' = clobbered
    BY <1>5 DEF CreatePart
  <2>2. FreshPart(p).reserved = 0 /\ FreshPart(p).state = "live"
    BY DEF FreshPart
  <2>3. parts[p].reserved = 0
    BY <2>1 DEF BooksInv, AbsentIsEmpty
  <2>4. /\ parts'[p].reserved = parts[p].reserved /\ parts'[p].state = "live"
        /\ \A q \in Parts \ {p} : parts'[q] = parts[q]
    BY <1>1, <2>1, <2>2, <2>3 DEF TypeOK
  <2> QED
    BY <2>1, <2>4, SameBooks DEF BooksInv
<1>6. ASSUME Crash PROVE ReservedMatchesHeld' /\ AbsentIsEmpty'
  BY <1>2, <1>6 DEF Crash, store
<1>7. ASSUME NEW o \in Ops, Fault(o) PROVE ReservedMatchesHeld' /\ AbsentIsEmpty'
  BY <1>2, <1>7 DEF Fault, store
<1>8. ASSUME UNCHANGED vars PROVE ReservedMatchesHeld' /\ AbsentIsEmpty'
  BY <1>2, <1>8 DEF vars, store, history
<1> QED
  BY <1>1, <1>3, <1>4, <1>5, <1>6, <1>7, <1>8 DEF Next, BooksInv

LEMMA InitBooks == Init => BooksInv
<1> SUFFICES ASSUME Init PROVE BooksInv
  OBVIOUS
<1>1. AccountInv
  BY InitIInv, InitExact DEF AccountInv, AllExact
<1>2. \A p \in Parts : parts[p].reserved = 0
  BY DEF Init, FreshPart, Absent
<1>3. ASSUME NEW p \in Parts PROVE SumFunctionOnSet(HeldOf(p), WorkOrders) = 0
  <2>1. \A w \in WorkOrders : HeldOf(p)[w] = 0
    BY DEF Init, HeldOf
  <2> QED
    BY <2>1, OrdersFinite, SumOfZeros
<1> QED
  BY <1>1, <1>2, <1>3 DEF BooksInv, AbsentIsEmpty, ReservedMatchesHeld

LEMMA BooksAreInvariant == Spec => []BooksInv
BY InitBooks, NextBooks, PTL DEF Spec

\* ReservedMatchesHeld: the loops of ReservePartsUseCase, ReleasePartsUseCase and
\* ConsumePartsUseCase give no unit to two orders and leave none reserved for nobody,
\* unless a handler writes back a part from an overtaken read.
THEOREM BooksBalance == Spec => []ReservedMatchesHeld
<1>1. BooksInv => ReservedMatchesHeld
  BY DEF BooksInv
<1> QED
  BY <1>1, BooksAreInvariant, PTL

-----------------------------------------------------------------------------
(* What is known of an order's units was known before.                         *)

LEMMA SaveSound ==
    ASSUME AccountInv, NEW o \in Ops, NEW q \in Parts, NEW g, SavePart(o, q, g),
           op[o].copy[q].state # "absent", NEW p \in Parts, Sound(p)'
    PROVE  Sound(p)
<1>1. IInv
  BY DEF AccountInv
<1>2. Untouched(q) /\ clobbered \subseteq clobbered'
  BY <1>1, SaveElsewhere DEF SavePart
<1>3. CASE p # q
  BY <1>2, <1>3 DEF Sound, Untouched
<1>4. CASE p = q
  <2>1. p \notin clobbered /\ p \notin op[o].stale
    BY <1>1, <1>4, SaveElsewhere DEF Sound
  <2>2. parts[p].state = "live"
    BY <1>4, <2>1 DEF AccountInv, CopyExact
  <2> QED
    BY <2>1, <2>2 DEF Sound
<1> QED
  BY <1>3, <1>4

\* The handler that is about to write a part has it in memory.
LEMMA Writes ==
    ASSUME IInv, NEW o \in Ops
    PROVE  /\ ReserveWrite(o) =>
                 \E p \in Parts : \E g : SavePart(o, p, g) /\ op[o].copy[p].state # "absent"
           /\ SettleWrite(o) =>
                 \E p \in Parts : \E g : SavePart(o, p, g) /\ op[o].copy[p].state # "absent"
           /\ AdminSave(o) =>
                 \E p \in Parts : \E g : SavePart(o, p, g) /\ op[o].copy[p].state # "absent"
<1> DEFINE h == op[o]
           w == h.req.order
<1>1. HandlerOK(h)
  BY SMTT(20) DEF IInv
<1>2. ASSUME ReserveWrite(o)
      PROVE  \E p \in Parts : \E g : SavePart(o, p, g) /\ op[o].copy[p].state # "absent"
  <2>1. h.pc = "write"
    BY <1>2, Zenon DEF ReserveWrite
  <2>2. /\ w \in WorkOrders /\ h.idx \in DOMAIN Demand[w]
        /\ \A q \in Requested(w) : h.copy[q].state # "absent"
    BY <1>1, <2>1 DEF HandlerOK, SagaCommands, ReservePcs
  <2>3. PICK p \in Parts : p = Demand[w][h.idx].part /\ p \in Requested(w)
    BY <2>2, DemandItem
  <2>4. PICK g : SavePart(o, p, g)
    BY <1>2, <2>3, Zenon DEF ReserveWrite
  <2> QED
    BY <2>2, <2>3, <2>4, Zenon
<1>3. ASSUME SettleWrite(o)
      PROVE  \E p \in Parts : \E g : SavePart(o, p, g) /\ op[o].copy[p].state # "absent"
  <2>1. h.pc = "settle"
    BY <1>3, Zenon DEF SettleWrite
  <2>2. /\ w \in WorkOrders /\ h.idx \in DOMAIN Demand[w]
        /\ h.copy[Demand[w][h.idx].part].state # "absent"
    BY <1>1, <2>1, Zenon DEF HandlerOK, SagaCommands, SettlePcs
  <2>3. PICK p \in Parts : p = Demand[w][h.idx].part
    BY <2>2, DemandItem, Zenon
  <2>4. PICK g : SavePart(o, p, g)
    BY <1>3, <2>3, Zenon DEF SettleWrite
  <2> QED
    BY <2>2, <2>3, <2>4, Zenon
<1>4. ASSUME AdminSave(o)
      PROVE  \E p \in Parts : \E g : SavePart(o, p, g) /\ op[o].copy[p].state # "absent"
  <2>1. h.pc = "save"
    BY <1>4 DEF AdminSave
  <2>2. h.req.part \in Parts /\ h.copy[h.req.part].state # "absent"
    BY <1>1, <2>1 DEF HandlerOK, AdminPcs, AdminCalls
  <2> QED
    BY <1>4, <2>2 DEF AdminSave
<1> QED
  BY <1>2, <1>3, <1>4

LEMMA SoundBefore ==
    ASSUME AccountInv, [Next]_vars, NEW p \in Parts, Sound(p)'
    PROVE  Sound(p)
<1>1. IInv
  BY DEF AccountInv
<1>2. ASSUME UNCHANGED <<parts, clobbered>> PROVE Sound(p)
  BY <1>2 DEF Sound
<1>3. ASSUME NEW o \in Ops, NEW r \in Requests, Call(o, r) PROVE Sound(p)
  BY <1>2, <1>3 DEF Call, store, history
<1>4. ASSUME NEW o \in Ops, Step(o) PROVE Sound(p)
  <2>1. CASE ReserveWrite(o) \/ SettleWrite(o) \/ AdminSave(o)
    <3>1. PICK q \in Parts : \E g : SavePart(o, q, g) /\ op[o].copy[q].state # "absent"
      BY <1>1, <2>1, Writes
    <3>2. PICK g : SavePart(o, q, g) /\ op[o].copy[q].state # "absent"
      BY <3>1, Zenon
    <3> QED
      BY <3>2, SaveSound
  <2>2. CASE ~(ReserveWrite(o) \/ SettleWrite(o) \/ AdminSave(o))
    <3>1. UNCHANGED <<parts, clobbered>>
      BY <1>4, <2>2, Zenon DEF Step, ReserveFind, ReserveCheck, ReserveRecord, PublishReserved,
           PublishFailed, SettleFind, SettleLoad, SettleClose, UpdatePart, RestockPart,
           DeletePart, AdminEdit, store, history
    <3> QED
      BY <1>2, <3>1
  <2> QED
    BY <2>1, <2>2
<1>5. ASSUME NEW q \in Parts, CreatePart(q) PROVE Sound(p)
  <2>1. /\ parts' = [parts EXCEPT ![q] = FreshPart(q)] /\ parts[q].state = "absent"
        /\ clobbered' = clobbered
    BY <1>5 DEF CreatePart
  <2> QED
    BY <1>1, <2>1 DEF Sound, IInv, TypeOK
<1>6. ASSUME Crash PROVE Sound(p)
  BY <1>2, <1>6 DEF Crash, store
<1>7. ASSUME NEW o \in Ops, Fault(o) PROVE Sound(p)
  BY <1>2, <1>7 DEF Fault, store
<1>8. ASSUME UNCHANGED vars PROVE Sound(p)
  BY <1>2, <1>8 DEF vars, store, history
<1> QED
  BY <1>3, <1>4, <1>5, <1>6, <1>7, <1>8 DEF Next

LEMMA KnownBefore ==
    ASSUME AccountInv, [Next]_vars, NEW w \in WorkOrders, NEW p \in Parts, Known(w, p)'
    PROVE  Known(w, p)
<1>1. IInv /\ TypeOK
  BY DEF AccountInv, IInv
<1>2. /\ disturbed \subseteq disturbed'
      /\ reservations'[w] = "NONE" => reservations[w] = "NONE"
  <2>1. CASE Next
    <3>1. ASSUME NEW o \in Ops, NEW r \in Requests, Call(o, r)
          PROVE  disturbed' = disturbed /\ reservations' = reservations
      BY <3>1 DEF Call, store, history
    <3>2. ASSUME NEW o \in Ops, Step(o)
          PROVE  /\ disturbed \subseteq disturbed'
                 /\ reservations'[w] = "NONE" => reservations[w] = "NONE"
      <4>1. Path(o)
        BY <1>1, <3>2, StepPath
      <4>2. CASE Records(o) \/ Closes(o)
        BY <1>1, <4>2 DEF Records, Closes, ClosedAs, TypeOK
      <4>3. CASE ~(Records(o) \/ Closes(o))
        BY <4>1, <4>3 DEF Path, Starts, GoesOn, Publishes, Leaves
      <4> QED
        BY <4>2, <4>3
    <3>3. ASSUME Crash \/ (\E o \in Ops : Fault(o)) \/ (\E q \in Parts : CreatePart(q))
          PROVE  disturbed \subseteq disturbed' /\ reservations' = reservations
      BY <3>3 DEF Crash, Fault, CreatePart, store
    <3> QED
      BY <2>1, <3>1, <3>2, <3>3 DEF Next
  <2>2. CASE UNCHANGED vars
    BY <2>2 DEF vars, store, history
  <2> QED
    BY <2>1, <2>2
<1>3. Sound(p)' => Sound(p)
  BY SoundBefore
<1> QED
  BY <1>2, <1>3 DEF Known, Sound

-----------------------------------------------------------------------------
(* What an order holds is what its handler has in hand.                        *)

LEMMA SameInHand ==
    ASSUME NEW h, NEW g, h.pc = g.pc, h.req = g.req, h.idx = g.idx, h.moved = g.moved, NEW p
    PROVE  InHand(h, p) = InHand(g, p)
BY DEF InHand

\* A step that moves nothing of w.
LEMMA SameDue ==
    ASSUME NEW w \in WorkOrders, NEW p \in Parts, HeldDue(w, p), Known(w, p)' => Known(w, p),
           held'[w][p] = held[w][p], reservations'[w] = reservations[w],
           \A x \in Ops : \/ SamePlace(x)
                          \/ ~WorksFor(x, w) /\ ~WorksFor(x, w)'
    PROVE  HeldDue(w, p)'
<1>1. SUFFICES ASSUME Known(w, p)'
               PROVE  /\ \A x \in Ops : WorksFor(x, w)' => held'[w][p] = InHand(op'[x], p)
                      /\ (\A x \in Ops : ~WorksFor(x, w)') =>
                             held'[w][p] = IF reservations'[w] = "RESERVED" THEN Asked(w, p)
                                                                           ELSE 0
  BY Zenon DEF HeldDue, InHand, Remaining, UnitsFrom, Asked
<1>2. /\ \A x \in Ops : WorksFor(x, w) => held[w][p] = InHand(op[x], p)
      /\ (\A x \in Ops : ~WorksFor(x, w)) =>
             held[w][p] = IF reservations[w] = "RESERVED" THEN Asked(w, p) ELSE 0
  BY <1>1 DEF HeldDue
<1>3. \A x \in Ops : WorksFor(x, w)' <=> WorksFor(x, w)
  BY DEF WorksFor, SamePlace
<1>4. ASSUME NEW x \in Ops, WorksFor(x, w) PROVE held'[w][p] = InHand(op'[x], p)
  <2>1. SamePlace(x)
    BY <1>4
  <2>2. InHand(op'[x], p) = InHand(op[x], p)
    BY <2>1, SameInHand DEF SamePlace
  <2> QED
    BY <1>2, <1>4, <2>2
<1> QED
  BY <1>2, <1>3, <1>4

\* What is due of p to o's order w after o's step.
OwnDue(o, w, p) ==
    /\ WorksFor(o, w)' => held'[w][p] = InHand(op'[o], p)
    /\ ~WorksFor(o, w)' =>
           held'[w][p] = IF reservations'[w] = "RESERVED" THEN Asked(w, p) ELSE 0

\* Nobody else works for w.
Alone(o, w) == \A x \in Ops : WorksFor(x, w) => x = o

LEMMA OwnHeldDue ==
    ASSUME NEW o \in Ops, NEW w \in WorkOrders, NEW p \in Parts, Elsewhere(o), Alone(o, w),
           Known(w, p)' => OwnDue(o, w, p)
    PROVE  HeldDue(w, p)'
<1>1. SUFFICES ASSUME Known(w, p)'
               PROVE  /\ \A x \in Ops : WorksFor(x, w)' => held'[w][p] = InHand(op'[x], p)
                      /\ (\A x \in Ops : ~WorksFor(x, w)') =>
                             held'[w][p] = IF reservations'[w] = "RESERVED" THEN Asked(w, p)
                                                                           ELSE 0
  BY Zenon DEF HeldDue, InHand, Remaining, UnitsFrom, Asked
<1>2. \A x \in Ops : WorksFor(x, w)' => x = o
  BY DEF Alone, Elsewhere, SamePlace, WorksFor
<1> QED
  BY <1>1, <1>2, SMTT(20) DEF OwnDue

\* o works for w, which was left in peace.
LEMMA OwnBefore ==
    ASSUME OrdersInv, NEW o \in Ops, NEW w \in WorkOrders, NEW p \in Parts,
           Known(w, p), WorksFor(o, w)
    PROVE  /\ held[w][p] = InHand(op[o], p)
           /\ Alone(o, w)
           /\ reservations[w] = IF op[o].pc \in SettlePcs THEN "RESERVED" ELSE "NONE"
<1>1. HeldDue(w, p)
  BY DEF OrdersInv, HeldAsDue
<1>2. w \in WorkOrders \ disturbed
  BY DEF Known
<1> QED
  BY <1>1, <1>2 DEF OrdersInv, HeldDue, AloneInv, WorksAlone, ReadStillTrue, Alone

\* The part that held units is recorded for is one of the order's own.
LEMMA CheckDue ==
    ASSUME OrdersInv, NEW o \in Ops, ReserveCheck(o), NEW w \in WorkOrders, op[o].req.order = w,
           NEW p \in Parts, Known(w, p)
    PROVE  OwnDue(o, w, p)
<1> DEFINE h == op[o]
<1>1. op \in [Ops -> Handler] /\ h \in Handler /\ HandlerOK(h) /\ h.pc = "check"
  BY DEF OrdersInv, BooksInv, AccountInv, IInv, TypeOK, ReserveCheck
<1>2. WorksFor(o, w)
  BY <1>1 DEF WorksFor, Working
<1>3. held[w][p] = 0 /\ reservations[w] = "NONE"
  BY <1>1, <1>2, OwnBefore DEF InHand, SettlePcs
<1>4. held' = held /\ reservations' = reservations
  BY DEF ReserveCheck, store, history
<1>5. CASE CanReserve(w)
  <2> DEFINE units == [q \in Parts |-> IF q \in Requested(w) THEN Asked(w, q) ELSE 0]
             g == [h EXCEPT !.pc = "write", !.copy = ReservedCopies(w), !.moved = units]
  <2>1. op'[o] = g
    BY <1>1, <1>5 DEF ReserveCheck, Continue
  <2>2. g.pc = "write" /\ g.req = h.req /\ g.moved = units
    BY <1>1 DEF Handler
  <2> HIDE DEF g
  <2>3. Asked(w, p) \in Nat /\ Asked(w, p) - g.moved[p] = 0
    BY <2>2, AskedType, NothingAsked
  <2>4. InHand(g, p) = 0
    BY <2>2, <2>3 DEF InHand
  <2>5. WorksFor(o, w)'
    BY <2>1, <2>2 DEF WorksFor, Working
  <2> QED
    BY <1>3, <1>4, <2>1, <2>4, <2>5 DEF OwnDue
<1>6. CASE ~CanReserve(w)
  <2>1. op'[o] = Blank("replyFailed", h.req)
    BY <1>1, <1>6 DEF ReserveCheck, Refuse, Goto, Continue
  <2>2. ~WorksFor(o, w)'
    BY <2>1, BlankFields DEF WorksFor, Working, SettlePcs
  <2> QED
    BY <1>3, <1>4, <2>2 DEF OwnDue
<1> QED
  BY <1>5, <1>6

LEMMA WriteDue ==
    ASSUME OrdersInv, NEW o \in Ops, ReserveWrite(o), NEW w \in WorkOrders, op[o].req.order = w,
           NEW p \in Parts, Known(w, p)
    PROVE  OwnDue(o, w, p)
<1> DEFINE h    == op[o]
           r    == Demand[w][h.idx].part
           next == IF h.idx < Len(Demand[w]) THEN "write" ELSE "record"
           g    == [h EXCEPT !.moved[r] = 0, !.pc = next, !.idx = h.idx + 1]
<1>1. op \in [Ops -> Handler] /\ h \in Handler /\ HandlerOK(h) /\ h.pc = "write"
      /\ held \in [WorkOrders -> [Parts -> Int]]
  BY DEF OrdersInv, BooksInv, AccountInv, IInv, TypeOK, ReserveWrite
<1>2. h.idx \in DOMAIN Demand[w] /\ r \in Parts
  BY <1>1, DemandItem DEF HandlerOK
<1>3. WorksFor(o, w)
  BY <1>1 DEF WorksFor, Working
<1>4. held[w][p] = Asked(w, p) - h.moved[p]
  BY <1>1, <1>3, OwnBefore, SMTT(20) DEF InHand
<1>5. SavePart(o, r, g) /\ held' = [held EXCEPT ![w][r] = @ + h.moved[r]]
  BY Zenon DEF ReserveWrite
<1>6. g.pc = next /\ g.req = h.req /\ g.moved = [h.moved EXCEPT ![r] = 0]
  <2> HIDE DEF r, next
  <2> QED
    BY <1>1, SMTT(20) DEF Handler
<1>7. op'[o] = g
  BY <1>5 DEF SavePart
<1> HIDE DEF g
<1>8. h.moved \in [Parts -> Nat] /\ Asked(w, p) \in Nat
  BY <1>1, AskedType DEF Handler
<1>9. held'[w][p] = Asked(w, p) - g.moved[p]
  <2>1. CASE p = r
    <3>1. held'[w][p] = held[w][p] + h.moved[p] /\ g.moved[p] = 0
      <4> HIDE DEF r
      <4> QED
        BY <1>1, <1>2, <1>5, <1>6, <1>8, <2>1
    <3> QED
      BY <1>4, <1>8, <3>1
  <2>2. CASE p # r
    <3>1. held'[w][p] = held[w][p] /\ g.moved[p] = h.moved[p]
      <4> HIDE DEF r
      <4> QED
        BY <1>1, <1>2, <1>5, <1>6, <1>8, <2>2
    <3> QED
      BY <1>4, <3>1
  <2> QED
    BY <2>1, <2>2
<1>10. WorksFor(o, w)'
  BY <1>6, <1>7 DEF WorksFor, Working
<1>11. CASE next = "write"
  BY <1>6, <1>7, <1>9, <1>10, <1>11 DEF OwnDue, InHand
<1>12. CASE next = "record"
  <2>1. g.moved[p] = 0
    <3>1. CASE p = r
      BY <1>2, <1>6, <1>8, <3>1
    <3>2. CASE p # r
      <4>1. h.idx \in 1..Len(Demand[w]) /\ Len(Demand[w]) \in Nat /\ ~(h.idx < Len(Demand[w]))
        BY <1>2, <1>12, Items
      <4>2. \A j \in h.idx..Len(Demand[w]) : j = h.idx
        BY <4>1
      <4>3. h.moved[p] = 0 \/ \E j \in h.idx..Len(Demand[w]) : Demand[w][j].part = p
        BY <1>1 DEF OrdersInv, WritesDue
      <4>4. h.moved[p] = 0
        BY <3>2, <4>2, <4>3
      <4> QED
        BY <1>2, <1>6, <1>8, <3>2, <4>4
    <3> QED
      BY <3>1, <3>2
  <2>2. InHand(g, p) = Asked(w, p)
    BY <1>6, <1>12 DEF InHand
  <2> QED
    BY <1>7, <1>8, <1>9, <1>10, <2>1, <2>2 DEF OwnDue
<1> QED
  BY <1>11, <1>12, SMTT(20)

LEMMA RecordDue ==
    ASSUME OrdersInv, NEW o \in Ops, ReserveRecord(o), NEW w \in WorkOrders, op[o].req.order = w,
           NEW p \in Parts, Known(w, p)
    PROVE  OwnDue(o, w, p)
<1> DEFINE h == op[o]
<1>1. /\ op \in [Ops -> Handler] /\ h.pc = "record"
      /\ reservations \in [WorkOrders -> ReservationStates]
  BY DEF OrdersInv, BooksInv, AccountInv, IInv, TypeOK, ReserveRecord
<1>2. WorksFor(o, w)
  BY <1>1 DEF WorksFor, Working
<1>3. held[w][p] = Asked(w, p) /\ reservations[w] = "NONE"
  BY <1>1, <1>2, OwnBefore DEF InHand, SettlePcs
<1>4. /\ held' = held /\ reservations' = [reservations EXCEPT ![w] = "RESERVED"]
      /\ op'[o] = Blank("replyReserved", h.req)
  BY <1>1, <1>3 DEF ReserveRecord, Goto, Continue, history
<1>5. ~WorksFor(o, w)' /\ reservations'[w] = "RESERVED"
  BY <1>1, <1>4, BlankFields DEF WorksFor, Working, SettlePcs
<1> QED
  BY <1>3, <1>4, <1>5 DEF OwnDue

LEMMA CloseDue ==
    ASSUME OrdersInv, NEW o \in Ops, SettleClose(o), NEW w \in WorkOrders, op[o].req.order = w,
           NEW p \in Parts, Known(w, p)
    PROVE  OwnDue(o, w, p)
<1> DEFINE h == op[o]
<1>1. /\ op \in [Ops -> Handler] /\ h.pc = "close"
      /\ reservations \in [WorkOrders -> ReservationStates]
  BY DEF OrdersInv, BooksInv, AccountInv, IInv, TypeOK, SettleClose
<1>2. WorksFor(o, w)
  BY <1>1 DEF WorksFor, Working, SettlePcs
<1>3. held[w][p] = 0
  BY <1>1, <1>2, OwnBefore DEF InHand
<1>4. /\ held' = held /\ reservations' = [reservations EXCEPT ![w] = ClosedAs(h.req.kind)]
      /\ op'[o] = Idle
  BY <1>1 DEF SettleClose, SaveReservation, End, Continue, history
<1>5. ~WorksFor(o, w)' /\ reservations'[w] # "RESERVED"
  BY <1>1, <1>4, IdleFields DEF WorksFor, Working, SettlePcs, ClosedAs
<1> QED
  BY <1>3, <1>4, <1>5 DEF OwnDue

LEMMA StartDue ==
    ASSUME OrdersInv, NEW o \in Ops, Path(o), Starts(o), held' = held,
           op'[o].pc = "load" => op'[o].idx = 1,
           NEW w \in WorkOrders, op[o].req.order = w, w \notin disturbed',
           NEW p \in Parts, Known(w, p)
    PROVE  OwnDue(o, w, p) /\ Alone(o, w)
<1>1. \A x \in Ops : ~WorksFor(x, w)
  BY DEF Starts
<1>2. held[w][p] = IF reservations[w] = "RESERVED" THEN Asked(w, p) ELSE 0
  BY <1>1 DEF OrdersInv, HeldAsDue, HeldDue
<1>3. WorksFor(o, w)' /\ op'[o].req.order = w
  BY DEF Starts, WorksFor, Working, SettlePcs
<1>4. CASE op'[o].pc = "check"
  <2>1. InHand(op'[o], p) = 0 /\ reservations[w] = "NONE"
    BY <1>4 DEF Starts, InHand
  <2> QED
    BY <1>1, <1>2, <1>3, <2>1 DEF OwnDue, Alone
<1>5. CASE op'[o].pc = "load"
  <2>1. InHand(op'[o], p) = Asked(w, p) /\ reservations[w] = "RESERVED"
    BY <1>3, <1>5, AllRemains DEF Starts, InHand
  <2> QED
    BY <1>1, <1>2, <1>3, <2>1 DEF OwnDue, Alone
<1> QED
  BY <1>4, <1>5 DEF Starts

\* What is known of an order's units is that it holds none or some.
LEMMA HeldNatural ==
    ASSUME OrdersInv, NEW w \in WorkOrders, NEW p \in Parts, Known(w, p)
    PROVE  held[w][p] \in Nat
<1>1. op \in [Ops -> Handler] /\ Asked(w, p) \in Nat
  BY AskedType DEF OrdersInv, BooksInv, AccountInv, IInv, TypeOK
<1>2. HeldDue(w, p)
  BY DEF OrdersInv, HeldAsDue
<1>3. CASE \A x \in Ops : ~WorksFor(x, w)
  BY <1>1, <1>2, <1>3 DEF HeldDue
<1>4. CASE \E x \in Ops : WorksFor(x, w)
  <2>1. PICK x \in Ops : WorksFor(x, w)
    BY <1>4
  <2>2. held[w][p] = InHand(op[x], p) /\ op[x].req.order = w
    BY <1>2, <2>1 DEF HeldDue, WorksFor
  <2>3. op[x].idx \in Nat /\ op[x].moved[p] \in Nat
    BY <1>1 DEF Handler
  <2>4. op[x].pc = "write" => op[x].moved[p] \in {0, Asked(w, p)}
    BY <2>2 DEF OrdersInv, WritesDue
  <2>5. Remaining(w, p, op[x].idx) \in Nat
    BY <2>3, UnitsFinite
  <2>6. CASE op[x].pc = "write"
    BY <1>1, <2>2, <2>4, <2>6 DEF InHand
  <2>7. CASE op[x].pc # "write"
    BY <1>1, <2>2, <2>5, <2>7 DEF InHand
  <2> QED
    BY <2>6, <2>7
<1> QED
  BY <1>3, <1>4

\* Nobody holds more of a part than is reserved of it.
LEMMA HeldIsReserved ==
    ASSUME OrdersInv, disturbed = {}, NEW p \in Parts, Sound(p), NEW w \in WorkOrders
    PROVE  /\ held[w][p] \in Nat /\ parts[p].reserved \in Nat
           /\ held[w][p] <= parts[p].reserved
<1>1. \A v \in WorkOrders : held[v][p] \in Nat
  BY HeldNatural DEF Known
<1>2. HeldOf(p) \in [WorkOrders -> Nat] /\ HeldOf(p)[w] = held[w][p]
  BY <1>1 DEF HeldOf
<1>3. parts[p].reserved = SumFunctionOnSet(HeldOf(p), WorkOrders)
  BY DEF OrdersInv, BooksInv, ReservedMatchesHeld, Sound
<1> QED
  BY <1>1, <1>2, <1>3, OrdersFinite, TermWithinSum

LEMMA NextItemInHand ==
    ASSUME NEW h \in Handler, NEW w \in WorkOrders, h.req.order = w,
           h.idx \in DOMAIN Demand[w], NEW p
    PROVE  /\ NextItem(h).pc \in {"load", "close"} /\ NextItem(h).req = h.req
           /\ InHand(NextItem(h), p) = Remaining(w, p, h.idx + 1)
<1> DEFINE next == IF h.idx < Len(Demand[w]) THEN "load" ELSE "close"
           g    == NextItem(h)
<1>1. g.pc = next /\ g.req = h.req /\ g.idx = h.idx + 1
  BY DEF NextItem, Handler
<1> HIDE DEF g
<1>2. CASE next = "load"
  BY <1>1, <1>2 DEF InHand, g
<1>3. CASE next = "close"
  <2>1. h.idx \in 1..Len(Demand[w]) /\ Len(Demand[w]) \in Nat /\ ~(h.idx < Len(Demand[w]))
    BY <1>3, Items
  <2>2. h.idx = Len(Demand[w])
    BY <2>1
  <2>3. Remaining(w, p, h.idx + 1) = 0
    BY <2>2, NothingRemains
  <2>4. InHand(g, p) = 0
    BY <1>1, <1>3 DEF InHand
  <2> QED
    BY <1>1, <1>3, <2>3, <2>4 DEF g
<1> QED
  BY <1>2, <1>3

\* The settling handler of an order left in peace.
LEMMA Settler ==
    ASSUME OrdersInv, NEW o \in Ops, op[o].pc \in {"load", "settle"},
           NEW w \in WorkOrders, op[o].req.order = w, NEW p \in Parts, Known(w, p)
    PROVE  LET i == op[o].idx
           IN  /\ i \in DOMAIN Demand[w] /\ ValidItems(w) /\ Demand[w][i].part \in Parts
               /\ held[w][p] = Remaining(w, p, i)
               /\ disturbed = {} /\ Sound(p)
<1>1. /\ HandlerOK(op[o]) /\ RecordsValid
  BY DEF OrdersInv, BooksInv, AccountInv, IInv
<1>2. WorksFor(o, w)
  BY DEF WorksFor, Working, SettlePcs
<1>3. reservations[w] = "RESERVED" /\ held[w][p] = InHand(op[o], p)
  BY <1>2, OwnBefore DEF SettlePcs
<1>4. held[w][p] = Remaining(w, p, op[o].idx)
  BY <1>3 DEF InHand
<1>5. op[o].idx \in DOMAIN Demand[w] /\ ValidItems(w)
  BY <1>1, <1>3 DEF HandlerOK, RecordsValid
<1> QED
  BY <1>3, <1>4, <1>5, DemandItem DEF Known

LEMMA LoadDue ==
    ASSUME OrdersInv, NEW o \in Ops, SettleLoad(o), NEW w \in WorkOrders, op[o].req.order = w,
           NEW p \in Parts, Known(w, p)
    PROVE  OwnDue(o, w, p)
<1> DEFINE h    == op[o]
           item == Demand[w][h.idx]
           n    == Capped(parts[item.part], item.quantity)
           new  == IF h.req.kind = "release" THEN ReleaseUnits(parts[item.part], n)
                                             ELSE ConsumeUnits(parts[item.part], n)
           full == [h EXCEPT !.pc = "settle", !.copy[item.part] = new, !.moved[item.part] = n]
<1>1. op \in [Ops -> Handler] /\ h \in Handler /\ h.pc = "load" /\ parts \in [Parts -> PartDoc]
  BY DEF OrdersInv, BooksInv, AccountInv, IInv, TypeOK, SettleLoad
<1>2. /\ h.idx \in DOMAIN Demand[w] /\ ValidItems(w) /\ item.part \in Parts
      /\ held[w][p] = Remaining(w, p, h.idx) /\ disturbed = {} /\ Sound(p)
  BY <1>1, Settler
<1>3. held' = held
  BY DEF SettleLoad, history
<1>4. CASE parts[item.part].state = "live"
  <2>1. op'[o] = full
    BY <1>1, <1>4, Zenon DEF SettleLoad, Continue
  <2>2. full.pc = "settle" /\ full.req = h.req /\ full.idx = h.idx
    <3> HIDE DEF item, n, new
    <3> QED
      BY <1>1 DEF Handler
  <2> HIDE DEF full
  <2>3. WorksFor(o, w)' /\ InHand(op'[o], p) = Remaining(w, p, h.idx)
    BY <2>1, <2>2 DEF WorksFor, Working, SettlePcs, InHand
  <2> QED
    BY <1>2, <1>3, <2>3 DEF OwnDue
<1>5. CASE parts[item.part].state # "live"
  <2>1. op'[o] = NextItem(h)
    BY <1>1, <1>5 DEF SettleLoad, Continue
  <2>2. WorksFor(o, w)' /\ InHand(op'[o], p) = Remaining(w, p, h.idx + 1)
    <3>1. /\ NextItem(h).pc \in {"load", "close"} /\ NextItem(h).req = h.req
          /\ InHand(NextItem(h), p) = Remaining(w, p, h.idx + 1)
      BY <1>1, <1>2, NextItemInHand
    <3> QED
      BY <2>1, <3>1 DEF WorksFor, Working, SettlePcs
  <2>3. /\ item.quantity \in Nat
        /\ Remaining(w, p, h.idx) \in Nat /\ Remaining(w, p, h.idx + 1) \in Nat
        /\ Remaining(w, p, h.idx) = Remaining(w, p, h.idx + 1)
                                     + IF item.part = p THEN item.quantity ELSE 0
    BY <1>2, ItemRemains
  <2>4. Remaining(w, p, h.idx) = Remaining(w, p, h.idx + 1)
    <3>1. CASE item.part # p
      BY <2>3, <3>1
    <3>2. CASE item.part = p
      <4>1. parts[p].state = "absent"
        BY <1>1, <1>2, <1>5, <3>2 DEF Sound, PartDoc, PartStates
      <4>2. parts[p].reserved = 0
        BY <4>1 DEF OrdersInv, BooksInv, AbsentIsEmpty
      <4>3. held[w][p] \in Nat /\ held[w][p] <= parts[p].reserved
        BY <1>2, HeldIsReserved
      <4>4. Remaining(w, p, h.idx) = 0
        BY <1>2, <4>2, <4>3
      <4> HIDE DEF item
      <4> QED
        BY <2>3, <3>2, <4>4
    <3> QED
      BY <3>1, <3>2
  <2> QED
    BY <1>2, <1>3, <2>2, <2>4 DEF OwnDue
<1> QED
  BY <1>4, <1>5

LEMMA SettleDue ==
    ASSUME OrdersInv, NEW o \in Ops, SettleWrite(o), NEW w \in WorkOrders, op[o].req.order = w,
           NEW p \in Parts, Known(w, p)
    PROVE  OwnDue(o, w, p)
<1> DEFINE h    == op[o]
           item == Demand[w][h.idx]
<1>1. op \in [Ops -> Handler] /\ h \in Handler /\ h.pc = "settle"
      /\ held \in [WorkOrders -> [Parts -> Int]]
  BY DEF OrdersInv, BooksInv, AccountInv, IInv, TypeOK, SettleWrite
<1>2. /\ h.idx \in DOMAIN Demand[w] /\ ValidItems(w) /\ item.part \in Parts
      /\ held[w][p] = Remaining(w, p, h.idx)
  BY <1>1, Settler, SMTT(20)
<1>3. SavePart(o, item.part, NextItem(h))
      /\ held' = [held EXCEPT ![w][item.part] = @ - h.moved[item.part]]
  BY DEF SettleWrite
<1>4. op'[o] = NextItem(h)
  BY <1>3 DEF SavePart
<1>5. WorksFor(o, w)' /\ InHand(op'[o], p) = Remaining(w, p, h.idx + 1)
  <2>1. /\ NextItem(h).pc \in {"load", "close"} /\ NextItem(h).req = h.req
        /\ InHand(NextItem(h), p) = Remaining(w, p, h.idx + 1)
    BY <1>1, <1>2, NextItemInHand
  <2> QED
    BY <1>4, <2>1 DEF WorksFor, Working, SettlePcs
<1>6. /\ item.quantity \in Nat
      /\ Remaining(w, p, h.idx) \in Nat /\ Remaining(w, p, h.idx + 1) \in Nat
      /\ Remaining(w, p, h.idx) = Remaining(w, p, h.idx + 1)
                                   + IF item.part = p THEN item.quantity ELSE 0
  BY <1>2, ItemRemains
<1>7. item.part = p => h.moved[p] = item.quantity
  BY <1>1 DEF OrdersInv, SettlesDue
<1>8. held'[w][p] = IF item.part = p THEN held[w][p] - h.moved[p] ELSE held[w][p]
  <2> HIDE DEF item, h
  <2> QED
    BY <1>1, <1>2, <1>3
<1>9. held'[w][p] = Remaining(w, p, h.idx + 1)
  <2> HIDE DEF item
  <2> QED
    BY <1>2, <1>6, <1>7, <1>8, SMTT(20)
<1> QED
  BY <1>5, <1>9 DEF OwnDue

-----------------------------------------------------------------------------
(* The amounts a handler has still to write.                                   *)

Marks(x) == WritesDue(op[x]) /\ SettlesDue(op[x])

LEMMA OtherMarks ==
    ASSUME NEW x \in Ops, op'[x].pc \notin {"write", "settle"}
    PROVE  Marks(x)'
BY DEF Marks, WritesDue, SettlesDue

LEMMA SameWritesDue ==
    ASSUME NEW h, NEW g, h.pc = g.pc, h.req = g.req, h.idx = g.idx, h.moved = g.moved,
           WritesDue(h)
    PROVE  WritesDue(g)
BY DEF WritesDue

LEMMA SameMarks ==
    ASSUME NEW x \in Ops, SamePlace(x), Marks(x), HandlerOK(op[x]),
           \A w \in WorkOrders, p \in Parts : Known(w, p)' => Known(w, p)
    PROVE  Marks(x)'
<1> DEFINE h == op[x]
<1>1. /\ op'[x].pc = h.pc /\ op'[x].req = h.req
      /\ op'[x].idx = h.idx /\ op'[x].moved = h.moved
  BY DEF SamePlace
<1>2. WritesDue(op[x])'
  BY <1>1, SameWritesDue, SMTT(20) DEF Marks
<1>3. CASE h.pc # "settle"
  BY <1>1, <1>2, <1>3, Zenon DEF Marks, SettlesDue
<1>4. CASE h.pc = "settle"
  <2>1. PICK w \in WorkOrders : h.req.order = w /\ h.idx \in DOMAIN Demand[w]
    BY <1>4, Zenon DEF HandlerOK, SettlePcs, SagaCommands
  <2>2. PICK p \in Parts : Demand[w][h.idx].part = p
    BY <2>1, DemandItem
  <2>3. Known(w, p) => h.moved[p] = Demand[w][h.idx].quantity
    BY <1>4, <2>1, <2>2 DEF Marks, SettlesDue
  <2>4. Known(w, p)' => h.moved[p] = Demand[w][h.idx].quantity
    BY <2>3
  <2>5. SettlesDue(op[x])'
    BY <1>1, <2>1, <2>2, <2>4 DEF SettlesDue
  <2> QED
    BY <1>2, <2>5 DEF Marks
<1> QED
  BY <1>3, <1>4

LEMMA CheckMarks ==
    ASSUME IInv, NEW o \in Ops, ReserveCheck(o)
    PROVE  Marks(o)'
<1> DEFINE h == op[o]
           w == h.req.order
<1>1. op \in [Ops -> Handler] /\ h \in Handler /\ HandlerOK(h) /\ h.pc = "check"
  BY DEF IInv, TypeOK, ReserveCheck
<1>2. w \in WorkOrders /\ h.idx = 1
  BY <1>1 DEF HandlerOK, ReservePcs, SagaCommands
<1>3. CASE ~CanReserve(w)
  <2>1. op'[o] = Blank("replyFailed", h.req)
    BY <1>1, <1>3 DEF ReserveCheck, Refuse, Goto, Continue
  <2> QED
    BY <2>1, BlankFields, OtherMarks
<1>4. CASE CanReserve(w)
  <2> DEFINE units == [q \in Parts |-> IF q \in Requested(w) THEN Asked(w, q) ELSE 0]
             g == [h EXCEPT !.pc = "write", !.copy = ReservedCopies(w), !.moved = units]
  <2>1. op'[o] = g
    BY <1>1, <1>4 DEF ReserveCheck, Continue
  <2>2. g.pc = "write" /\ g.req = h.req /\ g.moved = units /\ g.idx = 1
    BY <1>1, <1>2 DEF Handler
  <2> HIDE DEF g
  <2>3. ASSUME NEW q \in Parts
        PROVE  /\ g.moved[q] = Asked(w, q)
               /\ g.moved[q] = 0 \/ \E j \in 1..Len(Demand[w]) : Demand[w][j].part = q
    <3>1. CASE q \in Requested(w)
      <4>1. \E j \in 1..Len(Demand[w]) : Demand[w][j].part = q
        BY <1>2, <3>1, Items DEF Requested
      <4> QED
        BY <2>2, <3>1, <4>1
    <3>2. CASE q \notin Requested(w)
      BY <1>2, <2>2, <3>2, NothingAsked
    <3> QED
      BY <3>1, <3>2
  <2>4. WritesDue(g)
    BY <2>2, <2>3 DEF WritesDue
  <2>5. WritesDue(op[o])' /\ SettlesDue(op[o])'
    BY <2>1, <2>2, <2>4 DEF SettlesDue
  <2> QED
    BY <2>5 DEF Marks
<1> QED
  BY <1>3, <1>4

LEMMA WriteMarks ==
    ASSUME IInv, NEW o \in Ops, Marks(o), ReserveWrite(o)
    PROVE  Marks(o)'
<1> DEFINE h    == op[o]
           w    == h.req.order
           r    == Demand[w][h.idx].part
           next == IF h.idx < Len(Demand[w]) THEN "write" ELSE "record"
           g    == [h EXCEPT !.moved[r] = 0, !.pc = next, !.idx = h.idx + 1]
<1>1. op \in [Ops -> Handler] /\ h \in Handler /\ HandlerOK(h) /\ h.pc = "write"
  BY Zenon DEF IInv, TypeOK, ReserveWrite
<1>2. w \in WorkOrders /\ h.idx \in DOMAIN Demand[w] /\ r \in Parts
  BY <1>1, DemandItem DEF HandlerOK, ReservePcs, SagaCommands
<1>3. op'[o] = g
  BY Zenon DEF ReserveWrite, SavePart
<1>4. g.pc = next /\ g.req = h.req /\ g.moved = [h.moved EXCEPT ![r] = 0] /\ g.idx = h.idx + 1
  <2> HIDE DEF r, next
  <2> QED
    BY <1>1 DEF Handler
<1> HIDE DEF g
<1>5. CASE next = "record"
  BY <1>3, <1>4, <1>5, OtherMarks
<1>6. CASE next = "write"
  <2>1. h.moved \in [Parts -> Nat] /\ h.idx \in 1..Len(Demand[w]) /\ Len(Demand[w]) \in Nat
    BY <1>1, <1>2, Items DEF Handler
  <2>2. \A q \in Parts : /\ h.moved[q] \in {0, Asked(w, q)}
                         /\ \/ h.moved[q] = 0
                            \/ \E j \in h.idx..Len(Demand[w]) : Demand[w][j].part = q
    BY <1>1 DEF Marks, WritesDue
  <2>3. ASSUME NEW q \in Parts
        PROVE  /\ g.moved[q] \in {0, Asked(w, q)}
               /\ \/ g.moved[q] = 0
                  \/ \E j \in (h.idx + 1)..Len(Demand[w]) : Demand[w][j].part = q
    <3>1. CASE q = r
      BY <1>4, <2>1, <3>1, Zenon
    <3>2. CASE q # r
      <4>1. g.moved[q] = h.moved[q]
        <5> HIDE DEF r
        <5> QED
          BY <1>4, <2>1, <3>2
      <4>2. ASSUME NEW j \in h.idx..Len(Demand[w]), Demand[w][j].part = q
            PROVE  j \in (h.idx + 1)..Len(Demand[w])
        <5>1. j # h.idx
          BY <3>2, <4>2, SMTT(20)
        <5> QED
          BY <2>1, <5>1
      <4> QED
        BY <2>2, <4>1, <4>2
    <3> QED
      BY <3>1, <3>2
  <2>4. g.idx # 1
    BY <1>4, <2>1
  <2>5. WritesDue(g)
    BY <1>4, <2>3, <2>4, ZenonT(30) DEF WritesDue
  <2>6. WritesDue(op[o])' /\ SettlesDue(op[o])'
    BY <1>3, <1>4, <1>6, <2>5 DEF SettlesDue
  <2> QED
    BY <2>6 DEF Marks
<1> QED
  BY <1>5, <1>6

\* The cap does not bite where the order holds what the item asks for.
LEMMA LoadMarks ==
    ASSUME OrdersInv, NEW o \in Ops, SettleLoad(o),
           \A w \in WorkOrders, p \in Parts : Known(w, p)' => Known(w, p)
    PROVE  Marks(o)'
<1> DEFINE h == op[o]
<1>1. op \in [Ops -> Handler] /\ h \in Handler /\ HandlerOK(h) /\ h.pc = "load"
  BY Zenon DEF OrdersInv, BooksInv, AccountInv, IInv, TypeOK, SettleLoad
<1>2. PICK w \in WorkOrders : h.req.order = w /\ h.idx \in DOMAIN Demand[w]
  BY <1>1 DEF HandlerOK, SettlePcs, SagaCommands
<1>3. PICK r \in Parts : Demand[w][h.idx].part = r
  BY <1>2, DemandItem
<1> DEFINE item == Demand[w][h.idx]
           n    == Capped(parts[r], item.quantity)
           new  == IF h.req.kind = "release" THEN ReleaseUnits(parts[r], n)
                                             ELSE ConsumeUnits(parts[r], n)
           full == [h EXCEPT !.pc = "settle", !.copy[r] = new, !.moved[r] = n]
<1>4. CASE parts[r].state # "live"
  <2>1. op'[o] = NextItem(h)
    BY <1>1, <1>2, <1>3, <1>4 DEF SettleLoad, Continue
  <2>2. NextItem(h).pc \in {"load", "close"}
    BY <1>1, <1>2, NextItemInHand
  <2> QED
    BY <2>1, <2>2, OtherMarks
<1>5. CASE parts[r].state = "live"
  <2>1. op'[o] = full
    BY <1>1, <1>2, <1>3, <1>5 DEF SettleLoad, Continue
  <2>2. full.pc = "settle" /\ full.req = h.req /\ full.idx = h.idx
      /\ full.moved[r] = n
    <3> HIDE DEF n, new
    <3>1. h.moved \in [Parts -> Nat]
      BY <1>1 DEF Handler
    <3> QED
      BY <1>1, <1>2, <3>1 DEF Handler
  <2> HIDE DEF full
  <2>3. ASSUME Known(w, r)'
        PROVE  n = item.quantity
    <3>1. Known(w, r)
      BY <2>3
    <3>2. /\ ValidItems(w) /\ disturbed = {} /\ Sound(r)
          /\ held[w][r] = Remaining(w, r, h.idx)
      BY <1>1, <1>2, <3>1, Settler
    <3>3. held[w][r] <= parts[r].reserved /\ parts[r].reserved \in Nat
      BY <1>2, <3>2, HeldIsReserved
    <3>4. /\ item.quantity \in Nat /\ Remaining(w, r, h.idx + 1) \in Nat
          /\ Remaining(w, r, h.idx) = Remaining(w, r, h.idx + 1) + item.quantity
      BY <1>2, <1>3, <3>2, ItemRemains
    <3>5. ~(parts[r].reserved < item.quantity)
      <4> HIDE DEF item, h
      <4> QED
        BY <3>2, <3>3, <3>4
    <3> QED
      <4>1. n = item.quantity \/ (n = parts[r].reserved /\ ~(item.quantity < parts[r].reserved))
        BY DEF Capped
      <4> HIDE DEF item, n
      <4> QED
        BY <3>3, <3>4, <3>5, <4>1
  <2>4. WritesDue(op[o])'
    BY <2>1, <2>2 DEF WritesDue
  <2>5. SettlesDue(op[o])'
    <3> HIDE DEF n
    <3> QED
      BY <1>2, <1>3, <2>1, <2>2, <2>3, Zenon DEF SettlesDue
  <2> QED
    BY <2>4, <2>5 DEF Marks
<1> QED
  BY <1>4, <1>5

LEMMA StepMarks ==
    ASSUME OrdersInv, NEW o \in Ops, Step(o),
           \A w \in WorkOrders, p \in Parts : Known(w, p)' => Known(w, p)
    PROVE  \A x \in Ops : Marks(x)'
<1>1. IInv /\ \A x \in Ops : Marks(x) /\ HandlerOK(op[x])
  BY DEF OrdersInv, BooksInv, AccountInv, IInv, Marks
<1>2. Path(o)
  BY <1>1, StepPath
<1>3. ASSUME NEW x \in Ops \ {o} PROVE Marks(x)'
  <2>1. SamePlace(x)
    BY <1>2 DEF Path, Elsewhere
  <2> QED
    BY <1>1, <2>1, SameMarks
<1>4. Marks(o)'
  <2>1. CASE ReserveCheck(o)
    BY <1>1, <2>1, CheckMarks
  <2>2. CASE ReserveWrite(o)
    BY <1>1, <2>2, WriteMarks
  <2>3. CASE SettleLoad(o)
    BY <2>3, LoadMarks
  <2>4. CASE SettleWrite(o)
    <3>1. HandlerOK(op[o]) /\ op[o].pc = "settle" /\ op[o] \in Handler
      BY <1>1, <2>4, Zenon DEF SettleWrite, IInv, TypeOK
    <3>2. PICK w \in WorkOrders : op[o].req.order = w /\ op[o].idx \in DOMAIN Demand[w]
      BY <3>1, Zenon DEF HandlerOK, SettlePcs, SagaCommands
    <3>3. op'[o] = NextItem(op[o])
      BY <2>4, Zenon DEF SettleWrite, SavePart
    <3>4. op'[o].pc \in {"load", "close"}
      BY <3>1, <3>2, <3>3, NextItemInHand
    <3> QED
      BY <3>4, OtherMarks
  <2>5. CASE ~(ReserveCheck(o) \/ ReserveWrite(o) \/ SettleLoad(o) \/ SettleWrite(o))
    <3>1. op'[o].pc \notin {"write", "settle"}
      <4>1. CASE Starts(o) \/ Records(o) \/ Closes(o) \/ Publishes(o) \/ Leaves(o)
        BY <4>1, IdleFields DEF Starts, Records, Closes, Publishes, Leaves, Working, SettlePcs
      <4>2. CASE GoesOn(o)
        <5>1. op[o].pc \in {"record", "close"}
          BY <1>2, <2>5, <4>2, SMTT(20) DEF GoesOn, Step, ReserveFind,
               ReserveRecord, PublishReserved,
               PublishFailed, SettleFind, SettleClose, UpdatePart, RestockPart, DeletePart,
               AdminEdit, AdminSave, Working, SettlePcs
        <5>2. ReserveRecord(o) \/ SettleClose(o)
          BY <2>5, <5>1 DEF Step, ReserveFind, PublishReserved, PublishFailed, SettleFind,
               UpdatePart, RestockPart, DeletePart, AdminEdit, AdminSave
        <5>3. CASE SettleClose(o)
          BY <1>1, <5>3, IdleFields DEF SettleClose, End, Continue, IInv, TypeOK
        <5>4. CASE ReserveRecord(o)
          BY <1>1, <5>4, BlankFields DEF ReserveRecord, Refuse, Goto, Continue, IInv, TypeOK
        <5> QED
          BY <5>2, <5>3, <5>4, SMTT(20)
      <4> QED
        BY <1>2, <4>1, <4>2 DEF Path
    <3> QED
      BY <3>1, OtherMarks
  <2> QED
    BY <2>1, <2>2, <2>3, <2>4, <2>5
<1> QED
  BY <1>3, <1>4

-----------------------------------------------------------------------------
(* Every step leaves the orders with what is due to them.                      *)

\* Only the writes of o's own order move units.
LEMMA HeldByOthers ==
    ASSUME IInv, NEW o \in Ops, Step(o), NEW w \in WorkOrders, NEW p \in Parts,
           ~(op[o].pc \in Working /\ op[o].req.order = w)
    PROVE  held'[w][p] = held[w][p]
<1>1. held \in [WorkOrders -> [Parts -> Int]]
  BY DEF IInv, TypeOK
<1>2. CASE ReserveWrite(o)
  <2>1. op[o].pc \in Working
    BY <1>2, Zenon DEF ReserveWrite, Working
  <2> QED
    BY <1>1, <1>2, <2>1, Zenon DEF ReserveWrite
<1>3. CASE SettleWrite(o)
  <2>1. op[o].pc \in Working
    BY <1>3, Zenon DEF SettleWrite, Working, SettlePcs
  <2> QED
    BY <1>1, <1>3, <2>1, Zenon DEF SettleWrite
<1>4. CASE ~(ReserveWrite(o) \/ SettleWrite(o))
  <2>1. held' = held
    BY <1>4, ZenonT(30) DEF Step, ReserveFind, ReserveCheck, ReserveRecord, PublishReserved,
         PublishFailed, SettleFind, SettleLoad, SettleClose, UpdatePart, RestockPart,
         DeletePart, AdminEdit, AdminSave, history
  <2> QED
    BY <2>1
<1> QED
  BY <1>2, <1>3, <1>4

LEMMA WorkingStep ==
    ASSUME NEW o \in Ops, Step(o), op[o].pc \in Working
    PROVE  \/ ReserveCheck(o) \/ ReserveWrite(o) \/ ReserveRecord(o)
           \/ SettleLoad(o) \/ SettleWrite(o) \/ SettleClose(o)
BY DEF Step, ReserveFind, PublishReserved, PublishFailed, SettleFind, UpdatePart, RestockPart,
       DeletePart, AdminEdit, AdminSave, Working, SettlePcs

LEMMA FindingStep ==
    ASSUME IInv, NEW o \in Ops, Step(o), op[o].pc = "find"
    PROVE  held' = held /\ op'[o].idx = 1
<1>1. ReserveFind(o) \/ SettleFind(o)
  BY DEF Step, ReserveCheck, ReserveWrite, ReserveRecord, SettleLoad, SettleWrite, SettleClose,
         PublishReserved, PublishFailed, UpdatePart, RestockPart, DeletePart, AdminEdit, AdminSave
<1>2. held' = held
  BY <1>1 DEF ReserveFind, SettleFind
<1>3. PICK pc, r : op' = [op EXCEPT ![o] = Blank(pc, r)]
  BY <1>1 DEF ReserveFind, SettleFind, StartWork, Goto, End, Continue, Idle
<1> QED
  BY <1>2, <1>3, BlankFields DEF IInv, TypeOK

\* A step of o that is neither work for w nor the start of it.
LEMMA ElsewhereDue ==
    ASSUME OrdersInv, NEW o \in Ops, Step(o), NEW w \in WorkOrders, NEW p \in Parts,
           Known(w, p)' => Known(w, p),
           ~(op[o].pc \in Working /\ op[o].req.order = w),
           ~(Starts(o) /\ op[o].req.order = w)
    PROVE  HeldDue(w, p)'
<1>1. IInv /\ TypeOK /\ HeldDue(w, p)
  BY DEF OrdersInv, BooksInv, AccountInv, IInv, HeldAsDue
<1>2. Path(o)
  BY <1>1, StepPath
<1>3. held'[w][p] = held[w][p]
  BY <1>1, HeldByOthers
<1>4. ~WorksFor(o, w) /\ ~WorksFor(o, w)'
  <2>1. CASE GoesOn(o) \/ Starts(o)
    BY <2>1 DEF GoesOn, Starts, WorksFor
  <2>2. CASE Records(o) \/ Closes(o) \/ Publishes(o) \/ Leaves(o)
    BY <2>2, IdleFields DEF Records, Closes, Publishes, Leaves, WorksFor, Working, SettlePcs
  <2> QED
    BY <1>2, <2>1, <2>2 DEF Path
<1>5. reservations'[w] = reservations[w]
  <2>1. CASE Records(o) \/ Closes(o)
    BY <1>1, <2>1 DEF Records, Closes, TypeOK, Working, SettlePcs
  <2>2. CASE ~(Records(o) \/ Closes(o))
    BY <1>2, <2>2 DEF Path, Starts, GoesOn, Publishes, Leaves
  <2> QED
    BY <2>1, <2>2
<1>6. \A x \in Ops : SamePlace(x) \/ (~WorksFor(x, w) /\ ~WorksFor(x, w)')
  BY <1>2, <1>4 DEF Path, Elsewhere
<1> QED
  BY <1>1, <1>3, <1>5, <1>6, SameDue

LEMMA StepDue ==
    ASSUME OrdersInv, NEW o \in Ops, Step(o), NEW w \in WorkOrders, NEW p \in Parts,
           Known(w, p)' => Known(w, p)
    PROVE  HeldDue(w, p)'
<1>1. IInv
  BY DEF OrdersInv, BooksInv, AccountInv
<1>2. Path(o) /\ Elsewhere(o)
  BY <1>1, StepPath DEF Path
<1>3. SUFFICES ASSUME Known(w, p)' PROVE HeldDue(w, p)'
  BY DEF HeldDue
<1>4. Known(w, p) /\ w \notin disturbed'
  BY <1>3 DEF Known
<1>5. CASE op[o].pc \in Working /\ op[o].req.order = w
  <2>1. WorksFor(o, w)
    BY <1>5 DEF WorksFor
  <2>2. Alone(o, w)
    BY <1>4, <2>1, OwnBefore
  <2>3. OwnDue(o, w, p)
    BY <1>4, <1>5, WorkingStep, CheckDue, WriteDue, RecordDue, LoadDue, SettleDue, CloseDue
  <2> QED
    BY <1>2, <2>2, <2>3, OwnHeldDue
<1>6. CASE Starts(o) /\ op[o].req.order = w
  <2>1. held' = held /\ op'[o].idx = 1
    BY <1>1, <1>6, FindingStep DEF Starts
  <2>2. OwnDue(o, w, p) /\ Alone(o, w)
    BY <1>2, <1>4, <1>6, <2>1, StartDue
  <2> QED
    BY <1>2, <2>2, OwnHeldDue
<1>7. CASE /\ ~(op[o].pc \in Working /\ op[o].req.order = w)
           /\ ~(Starts(o) /\ op[o].req.order = w)
  BY <1>7, ElsewhereDue
<1> QED
  BY <1>5, <1>6, <1>7

\* A handler that dies before its first write or after its last one leaves its order
\* as the reservation says.
LEMMA CutShort ==
    ASSUME OrdersInv, NEW o \in Ops, NEW w \in WorkOrders, NEW p \in Parts,
           Known(w, p), WorksFor(o, w), ~HalfDone(op[o])
    PROVE  held[w][p] = IF reservations[w] = "RESERVED" THEN Asked(w, p) ELSE 0
<1> DEFINE h == op[o]
<1>1. h \in Handler /\ h.req.order = w /\ Asked(w, p) \in Nat
  BY AskedType DEF OrdersInv, BooksInv, AccountInv, IInv, TypeOK, WorksFor
<1>2. /\ held[w][p] = InHand(h, p)
      /\ reservations[w] = IF h.pc \in SettlePcs THEN "RESERVED" ELSE "NONE"
  BY OwnBefore
<1>3. h.idx \in Nat \ {0}
  BY <1>1 DEF Handler
<1>4. CASE h.pc = "check"
  BY <1>2, <1>4 DEF InHand, SettlePcs
<1>5. CASE h.pc = "write"
  <2>1. h.idx = 1
    BY <1>3, <1>5 DEF HalfDone
  <2>2. h.moved[p] = Asked(w, p)
    BY <1>1, <1>5, <2>1 DEF OrdersInv, WritesDue
  <2>3. InHand(h, p) = Asked(w, p) - h.moved[p]
    BY <1>1, <1>5 DEF InHand
  <2> QED
    BY <1>1, <1>2, <1>5, <2>2, <2>3 DEF SettlePcs
<1>6. CASE h.pc \in {"load", "settle"}
  <2>1. h.idx = 1
    BY <1>3, <1>6 DEF HalfDone
  <2>2. InHand(h, p) = Asked(w, p)
    BY <1>1, <1>6, <2>1, AllRemains DEF InHand
  <2> QED
    BY <1>2, <1>6, <2>2 DEF SettlePcs
<1> QED
  BY <1>4, <1>5, <1>6 DEF WorksFor, Working, SettlePcs, HalfDone

LEMMA FaultDue ==
    ASSUME OrdersInv, NEW o \in Ops, Fault(o), NEW w \in WorkOrders, NEW p \in Parts,
           Known(w, p)' => Known(w, p)
    PROVE  HeldDue(w, p)'
<1>1. TypeOK /\ HeldDue(w, p)
  BY DEF OrdersInv, BooksInv, AccountInv, IInv, HeldAsDue
<1>2. /\ Others(o) /\ UNCHANGED <<reservations, held>>
      /\ op'[o] = Idle \/ op'[o] = Blank("replyFailed", op[o].req)
  BY <1>1, FaultPath
<1>3. ~WorksFor(o, w)'
  BY <1>2, IdleFields, BlankFields DEF WorksFor, Working, SettlePcs
<1>4. Elsewhere(o)
  BY <1>2 DEF Others, Elsewhere, SamePlace
<1>5. CASE ~WorksFor(o, w)
  BY <1>1, <1>2, <1>3, <1>4, <1>5, SameDue DEF Elsewhere
<1>6. CASE WorksFor(o, w)
  <2>1. SUFFICES ASSUME Known(w, p)' PROVE HeldDue(w, p)'
    BY DEF HeldDue
  <2>2. Known(w, p)
    BY <2>1
  <2>3. ~HalfDone(op[o])
    BY <1>6, <2>1 DEF Known, Fault, WorksFor
  <2>4. held[w][p] = IF reservations[w] = "RESERVED" THEN Asked(w, p) ELSE 0
    BY <1>6, <2>2, <2>3, CutShort
  <2>5. Alone(o, w)
    BY <1>6, <2>2, OwnBefore
  <2>6. OwnDue(o, w, p)
    BY <1>2, <1>3, <2>4 DEF OwnDue
  <2> QED
    BY <1>4, <2>5, <2>6, OwnHeldDue
<1> QED
  BY <1>5, <1>6

LEMMA CrashDue ==
    ASSUME OrdersInv, Crash, NEW w \in WorkOrders, NEW p \in Parts,
           Known(w, p)' => Known(w, p)
    PROVE  HeldDue(w, p)'
<1>1. SUFFICES ASSUME Known(w, p)'
               PROVE  /\ \A x \in Ops : WorksFor(x, w)' => held'[w][p] = InHand(op'[x], p)
                      /\ (\A x \in Ops : ~WorksFor(x, w)') =>
                             held'[w][p] = IF reservations'[w] = "RESERVED" THEN Asked(w, p)
                                                                           ELSE 0
  BY Zenon DEF HeldDue, InHand, Remaining, UnitsFrom, Asked
<1>2. Known(w, p) /\ HeldDue(w, p) /\ w \notin disturbed'
  BY <1>1 DEF Known, OrdersInv, HeldAsDue
<1>3. /\ \A x \in Ops : op'[x] = Idle
      /\ held' = held /\ reservations' = reservations
      /\ \A x \in Ops : HalfDone(op[x]) => op[x].req.order # w
  BY <1>2 DEF Crash, store
<1>4. \A x \in Ops : ~WorksFor(x, w)'
  BY <1>3, IdleFields DEF WorksFor, Working, SettlePcs
<1>5. held[w][p] = IF reservations[w] = "RESERVED" THEN Asked(w, p) ELSE 0
  <2>1. CASE \E x \in Ops : WorksFor(x, w)
    <3>1. PICK x \in Ops : WorksFor(x, w)
      BY <2>1
    <3>2. ~HalfDone(op[x])
      BY <1>3, <3>1 DEF WorksFor
    <3> QED
      BY <1>2, <3>1, <3>2, CutShort
  <2>2. CASE ~\E x \in Ops : WorksFor(x, w)
    BY <1>2, <2>2 DEF HeldDue
  <2> QED
    BY <2>1, <2>2
<1> QED
  BY <1>3, <1>4, <1>5, SMTT(20)

\* A step that neither starts nor ends any work.
LEMMA QuietDue ==
    ASSUME OrdersInv, UNCHANGED <<held, reservations>>,
           \A x \in Ops : SamePlace(x) \/ (op[x].pc = "idle" /\ op'[x].pc \in {"find", "edit"}),
           \A w \in WorkOrders, p \in Parts : Known(w, p)' => Known(w, p)
    PROVE  HeldAsDue' /\ \A x \in Ops : Marks(x)'
<1>1. ASSUME NEW w \in WorkOrders, NEW p \in Parts PROVE HeldDue(w, p)'
  <2>1. \A x \in Ops : SamePlace(x) \/ (~WorksFor(x, w) /\ ~WorksFor(x, w)')
    BY DEF WorksFor, Working, SettlePcs
  <2>2. HeldDue(w, p)
    BY DEF OrdersInv, HeldAsDue
  <2> QED
    BY <2>1, <2>2, SameDue
<1>2. ASSUME NEW x \in Ops PROVE Marks(x)'
  <2>1. Marks(x) /\ HandlerOK(op[x])
    BY DEF OrdersInv, BooksInv, AccountInv, IInv, Marks
  <2>2. CASE SamePlace(x)
    BY <2>1, <2>2, SameMarks
  <2>3. CASE ~SamePlace(x)
    <3>1. op'[x].pc \in {"find", "edit"}
      BY <2>3
    <3> QED
      BY <3>1, OtherMarks
  <2> QED
    BY <2>2, <2>3
<1>3. HeldAsDue'
  BY <1>1 DEF HeldAsDue
<1> QED
  BY <1>2, <1>3

LEMMA NextOrders == OrdersInv /\ [Next]_vars => OrdersInv'
<1> SUFFICES ASSUME OrdersInv, [Next]_vars PROVE OrdersInv'
  OBVIOUS
<1>1. BooksInv' /\ AloneInv' /\ AccountInv /\ TypeOK
      /\ \A x \in Ops : Marks(x) /\ HandlerOK(op[x])
  BY NextBooks, NextAlone DEF OrdersInv, BooksInv, AccountInv, IInv, Marks
<1>2. \A w \in WorkOrders, p \in Parts : Known(w, p)' => Known(w, p)
  BY <1>1, KnownBefore
<1>3. ASSUME UNCHANGED <<op, held, reservations>>
      PROVE  HeldAsDue' /\ \A x \in Ops : Marks(x)'
  BY <1>2, <1>3, QuietDue DEF SamePlace
<1>4. ASSUME NEW o \in Ops, NEW r \in Requests, Call(o, r)
      PROVE  HeldAsDue' /\ \A x \in Ops : Marks(x)'
  <2>1. /\ op[o].pc = "idle" /\ op' = [op EXCEPT ![o] = Blank(FirstPc(r), r)]
        /\ UNCHANGED <<held, reservations>>
    BY <1>4 DEF Call, Continue, store, history
  <2>2. /\ op'[o].pc \in {"find", "edit"}
        /\ \A x \in Ops \ {o} : SamePlace(x)
    BY <1>1, <2>1, BlankFields DEF TypeOK, FirstPc, SamePlace
  <2> QED
    BY <1>2, <2>1, <2>2, QuietDue
<1>5. ASSUME NEW o \in Ops, Step(o) PROVE HeldAsDue' /\ \A x \in Ops : Marks(x)'
  <2>1. \A w \in WorkOrders, p \in Parts : HeldDue(w, p)'
    BY <1>2, <1>5, StepDue
  <2> QED
    BY <1>2, <1>5, <2>1, StepMarks DEF HeldAsDue
<1>6. ASSUME NEW p \in Parts, CreatePart(p)
      PROVE  HeldAsDue' /\ \A x \in Ops : Marks(x)'
  BY <1>3, <1>6 DEF CreatePart
<1>7. ASSUME Crash PROVE HeldAsDue' /\ \A x \in Ops : Marks(x)'
  <2>1. \A w \in WorkOrders, p \in Parts : HeldDue(w, p)'
    BY <1>2, <1>7, CrashDue
  <2>2. \A x \in Ops : op'[x].pc = "idle"
    BY <1>7, IdleFields DEF Crash
  <2> QED
    BY <2>1, <2>2, OtherMarks DEF HeldAsDue
<1>8. ASSUME NEW o \in Ops, Fault(o) PROVE HeldAsDue' /\ \A x \in Ops : Marks(x)'
  <2>1. \A w \in WorkOrders, p \in Parts : HeldDue(w, p)'
    BY <1>2, <1>8, FaultDue
  <2>2. Others(o) /\ op'[o].pc \in {"idle", "replyFailed"}
    BY <1>1, <1>8, FaultPath, IdleFields, BlankFields
  <2>3. ASSUME NEW x \in Ops \ {o} PROVE Marks(x)'
    <3>1. SamePlace(x)
      BY <2>2 DEF Others, SamePlace
    <3> QED
      BY <1>1, <1>2, <3>1, SameMarks
  <2>4. Marks(o)'
    BY <2>2, OtherMarks
  <2> QED
    BY <2>1, <2>3, <2>4 DEF HeldAsDue
<1>9. ASSUME UNCHANGED vars PROVE HeldAsDue' /\ \A x \in Ops : Marks(x)'
  BY <1>3, <1>9 DEF vars, store, history
<1>10. HeldAsDue' /\ \A x \in Ops : Marks(x)'
  BY <1>4, <1>5, <1>6, <1>7, <1>8, <1>9, SMTT(20) DEF Next
<1> QED
  BY <1>1, <1>10 DEF OrdersInv, Marks

LEMMA InitOrders == Init => OrdersInv
<1> SUFFICES ASSUME Init PROVE OrdersInv
  OBVIOUS
<1>1. BooksInv /\ AloneInv
  BY InitBooks, InitAlone
<1>2. \A x \in Ops : op[x].pc = "idle"
  BY IdleFields DEF Init
<1>3. HeldAsDue
  BY <1>2 DEF Init, HeldAsDue, HeldDue, WorksFor, Working, SettlePcs
<1> QED
  BY <1>1, <1>2, <1>3 DEF OrdersInv, WritesDue, SettlesDue

LEMMA OrdersAreInvariant == Spec => []OrdersInv
BY InitOrders, NextOrders, PTL DEF Spec

LEMMA WorkIsInFlight ==
    ASSUME IInv, NEW x \in Ops, NEW w \in WorkOrders, WorksFor(x, w)
    PROVE  /\ op[x].req.kind \in SagaKinds
           /\ op[x].pc \notin SettlePcs => op[x].req = ReserveCommand(w)
<1>1. HandlerOK(op[x]) /\ op[x].req.order = w
  BY DEF IInv, WorksFor
<1>2. op[x].pc \in ReservePcs \/ op[x].pc \in SettlePcs
  BY DEF WorksFor, Working, ReservePcs
<1>3. op[x].req \in SagaCommands
  BY <1>1, <1>2 DEF HandlerOK
<1> QED
  BY <1>1, <1>2, <1>3 DEF HandlerOK, SagaCommands, SagaKinds, ReserveCommand

\* HeldMatchesReservation: between two requests the reservations collection tells
\* what every order holds of every part, although ReservePartsUseCase and
\* ReleasePartsUseCase write the parts and the reservation one after the other.
THEOREM HoldingsMatch == Spec => []HeldMatchesReservation
<1>1. OrdersInv => HeldMatchesReservation
  <2> SUFFICES ASSUME OrdersInv, disturbed = {}, NEW w \in WorkOrders,
                      NEW p \in Parts \ clobbered, ~InFlight(w), parts[p].state # "deleted"
               PROVE  held[w][p] = IF reservations[w] = "RESERVED" THEN Asked(w, p) ELSE 0
    BY DEF HeldMatchesReservation
  <2>1. Known(w, p) /\ HeldDue(w, p) /\ IInv
    BY DEF Known, Sound, OrdersInv, HeldAsDue, BooksInv, AccountInv
  <2>2. \A x \in Ops : ~WorksFor(x, w)
    BY <2>1, WorkIsInFlight DEF InFlight, WorksFor
  <2> QED
    BY <2>1, <2>2 DEF HeldDue
<1> QED
  BY <1>1, OrdersAreInvariant, PTL

\* RefusalLeavesNothing: when InventorySagaSubscriber answered every parts.reserve
\* of an order parts.reservation-failed, no unit and no reservation stays behind.
THEOREM RefusalIsClean == Spec => []RefusalLeavesNothing
<1>1. IInv /\ OrdersInv /\ RepliesInv => RefusalLeavesNothing
  <2> SUFFICES ASSUME IInv, OrdersInv, RepliesInv, faults = 0, NEW w \in WorkOrders \ disturbed,
                      0 < replies[w].failed, replies[w].failed = calls[ReserveCommand(w)]
               PROVE  reservations[w] = "NONE" /\ \A p \in Parts : held[w][p] = 0
    BY DEF RefusalLeavesNothing
  <2>1. /\ replies[w].failed \in Nat /\ replies[w].reserved \in Nat
        /\ calls[ReserveCommand(w)] \in Nat /\ Cardinality(Undecided(w)) \in Nat
        /\ Cardinality(Pending(w)) \in Nat /\ Pending(w) \in SUBSET Ops
    BY ReplyTypes DEF IInv
  <2>2. reservations[w] = "NONE"
    BY <2>1 DEF RepliesInv, RefusedLess
  <2>3. Pending(w) = {}
    <3>1. Told(w) <= calls[ReserveCommand(w)]
      BY AnsweredAll DEF RepliesInv, Answered
    <3>2. Cardinality(Pending(w)) = 0
      BY <2>1, <3>1 DEF Told
    <3>3. IsFiniteSet(Pending(w))
      BY <2>1, OpsFinite, FS_Subset
    <3> QED
      BY <3>2, <3>3, FS_EmptySet
  <2>4. ASSUME NEW x \in Ops PROVE ~WorksFor(x, w)
    <3>1. SUFFICES ASSUME WorksFor(x, w) PROVE FALSE
      OBVIOUS
    <3>2. op[x].pc \notin SettlePcs
      BY <2>2, <3>1 DEF OrdersInv, AloneInv, ReadStillTrue
    <3>3. op[x].req = ReserveCommand(w)
      BY <3>1, <3>2, WorkIsInFlight
    <3> QED
      BY <2>3, <3>3 DEF Pending
  <2>5. ASSUME NEW p \in Parts PROVE held[w][p] = 0
    BY <2>2, <2>4 DEF OrdersInv, HeldAsDue, HeldDue, Known
  <2> QED
    BY <2>2, <2>5
<1> QED
  BY <1>1, InductiveInvariant, OrdersAreInvariant, RepliesAreInvariant, PTL
=============================================================================
