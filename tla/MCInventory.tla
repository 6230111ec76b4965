----------------------------- MODULE MCInventory -----------------------------
(***************************************************************************)
(* Small instances of Inventory for TLC.                                   *)
(***************************************************************************)
EXTENDS InventoryOrders, TLC

CONSTANTS p1, p2, w1, w2, o1, o2

Item(p, n) == [part |-> p, quantity |-> n]

\* w1 wants both parts, w2 lists p1 twice: together they want all three p1.
TwoOrders == (w1 :> <<Item(p1, 1), Item(p2, 1)>>) @@ (w2 :> <<Item(p1, 1), Item(p1, 1)>>)

OneOrder == w1 :> TwoOrders[w1]

\* Payloads the orchestrator may send: a work order without parts, and one that
\* a faulty sender gave a negative quantity.
PlainAndEmpty   == OneOrder @@ (w2 :> <<>>)
PlainAndInvalid == OneOrder @@ (w2 :> <<Item(p1, 1), Item(p2, -1)>>)

\* p1 has one unit less than the two orders want.
ScarceStock ==
    (p1 :> [quantity |-> 2, price |-> 1]) @@ (p2 :> [quantity |-> 1, price |-> 1])

AmpleStock ==
    (p1 :> [quantity |-> 3, price |-> 1]) @@ (p2 :> [quantity |-> 2, price |-> 1])

\* How often each kind of request is delivered; the admin's calls are about p1.
Budget(reserve, release, consume, restock, update, delete) ==
    [r \in Requests |->
        CASE r.kind = "reserve" -> reserve
          [] r.kind = "release" -> release
          [] r.kind = "consume" -> consume
          [] r.kind = "restock" -> IF r.part = p1 THEN restock ELSE 0
          [] r.kind = "update"  -> IF r.part = p1 THEN update ELSE 0
          [] r.kind = "delete"  -> IF r.part = p1 THEN delete ELSE 0]

\* The same, but of w2 there is one parts.reserve only.
Only1(budget2) ==
    [r \in Requests |->
        IF r \in SagaCommands /\ r.order = w2
        THEN IF r.kind = "reserve" THEN 1 ELSE 0
        ELSE budget2[r]]

OnceEach       == Budget(1, 1, 1, 1, 0, 1)
ReserveOnly    == Budget(1, 0, 0, 0, 0, 0)
Redelivered    == Budget(2, 2, 1, 0, 0, 0)
RedeliveredOne == Only1(Redelivered)
Catalog        == Budget(1, 1, 0, 1, 1, 1)

SlotSymmetry == Permutations(Ops)
=============================================================================
