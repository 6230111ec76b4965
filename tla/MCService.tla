------------------------------- MODULE MCService -------------------------------
(***************************************************************************)
(* A small instance of ExecutionService for TLC.                           *)
(***************************************************************************)
EXTENDS ExecutionService, TLC

CONSTANTS p1, w1, o1, o2, worn

\* w1 wants one part, which an administrator creates and may delete.
Orders == w1 :> <<[part |-> p1, quantity |-> 1]>>

Stock == p1 :> [quantity |-> 1, price |-> 1]

\* The requests are spelled out: the sets Requests of the components depend on
\* the very constants these definitions are given to.
ForOrder(kind) == [kind |-> kind, order |-> w1]

InventoryBudget ==
    ForOrder("reserve") :> 1 @@ ForOrder("release") :> 1 @@ ForOrder("consume") :> 2
        @@ [kind |-> "delete", part |-> p1] :> 1
        @@ [r \in [kind: {"restock", "update"}, part: {p1}, amount: {1}] |-> 0]

ExecutionsBudget ==
    ForOrder("start") :> 1 @@ ForOrder("repair") :> 1
        @@ ForOrder("complete") :> 2 @@ ForOrder("fail") :> 1
        @@ [kind |-> "diagnose", order |-> w1, note |-> worn] :> 0
=============================================================================
