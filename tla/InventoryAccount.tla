--------------------------- MODULE InventoryAccount ---------------------------
(***************************************************************************)
(* The handlers of Inventory keep the promise of StockAccount.             *)
(***************************************************************************)
EXTENDS Inventory

Needed == [w \in WorkOrders |-> [p \in Parts |-> Asked(w, p)]]

\* The account of every part, read off the collections and the history.
Balance ==
    [p \in Parts |->
        IF p \in clobbered THEN [doc |-> [state |-> "overwritten"]]
        ELSE [doc |-> parts[p], held |-> [w \in WorkOrders |-> held[w][p]]]]

Account == INSTANCE StockAccount WITH
    Needs <- Needed, Deliveries <- RestockQuantities, account <- Balance

\* Reserving, settling, restocking, repricing and deleting a part take effect
\* one at a time, on the quantities of that moment, although each of them is a
\* read, a pause and a write; a part written from an overtaken read is excepted.
KeepsAccount == Account!Spec

\* What h's unwritten change of p makes of the document it read: the operation
\* applied to the quantities of that moment, within its guard.
Due(doc, h, p) ==
    LET n == h.moved[p]
    IN  CASE h.req.kind = "reserve" -> ReserveUnits(doc, n)
          [] h.req.kind = "release" -> ReleaseUnits(doc, n)
          [] h.req.kind = "consume" -> ConsumeUnits(doc, n)
          [] OTHER                  -> Edited(doc, h.req)

\* A copy that nobody overtook is the operation applied to the present document.
CopyExact(h, p) ==
    h.copy[p].state # "absent" /\ p \notin h.stale =>
        /\ h.copy[p] = Due(parts[p], h, p)
        /\ parts[p].state = "live"
        /\ h.req.kind = "reserve" => /\ h.moved[p] \in {0, Asked(h.req.order, p)}
                                     /\ h.moved[p] <= parts[p].available
        /\ h.req.kind \in {"release", "consume"} => h.moved[p] <= parts[p].reserved
        /\ h.req.kind = "restock" => h.moved[p] = h.req.amount

AccountInv == IInv /\ \A o \in Ops, p \in Parts : CopyExact(op[o], p)
=============================================================================
