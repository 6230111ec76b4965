---------------------------- MODULE InventoryBooks ----------------------------
(***************************************************************************)
(* Properties of Inventory that add up over the work orders.               *)
(***************************************************************************)
EXTENDS Inventory, Functions

\* There are as many work orders as the orchestrator has named.
ASSUME OrdersFinite == IsFiniteSet(WorkOrders)

\* What each order holds of p.
HeldOf(p) == [w \in WorkOrders |-> held[w][p]]

\* The reserved quantity of a part is the sum of what the work orders hold of
\* it, in every state between two writes: no two orders are given the same unit
\* and none is left reserved for nobody.  Parts written from an overtaken read
\* are excepted.
ReservedMatchesHeld ==
    \A p \in Parts \ clobbered :
        parts[p].reserved = SumFunctionOnSet(HeldOf(p), WorkOrders)

-----------------------------------------------------------------------------
(* What the documentation says, and a run refutes. *)

\* README.md:79 "parts.reserve succeeds only if every requested part has enough
\* available quantity": the units of a part that the active reservations hold,
\* what they have consumed or released taken off, are in stock.
NoOversell ==
    \A p \in Parts :
        SumFunctionOnSet(HeldOf(p), {w \in WorkOrders : reservations[w] = "RESERVED"})
            <= ledger[p].total
=============================================================================
