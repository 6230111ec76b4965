--------------------------- MODULE InventoryOrders ---------------------------
(***************************************************************************)
(* What the work orders hold, order by order: the inductive invariant      *)
(* behind the properties of Inventory that relate an order's reservation,  *)
(* its replies and its units.                                              *)
(***************************************************************************)
EXTENDS InventoryBooks, InventoryAccount

-----------------------------------------------------------------------------
(* Handlers at work. *)

WorksFor(x, w) == op[x].pc \in Working /\ op[x].req.order = w

\* An order that was left in peace has one handler at most between its read of
\* the reservation and its last write.
WorksAlone ==
    \A w \in WorkOrders \ disturbed, x, y \in Ops :
        WorksFor(x, w) /\ WorksFor(y, w) => x = y

\* What that handler read of the reservation is still so.
ReadStillTrue ==
    \A w \in WorkOrders \ disturbed, x \in Ops :
        WorksFor(x, w) =>
            reservations[w] = IF op[x].pc \in SettlePcs THEN "RESERVED" ELSE "NONE"

AloneInv == WorksAlone /\ ReadStillTrue

-----------------------------------------------------------------------------
(* Units. *)

\* The units of p that the items of w from the i-th on ask for.
UnitsFrom(w, p, i) ==
    {u \in (i..Len(Demand[w])) \X (1..MaxQuantity) :
        /\ Demand[w][u[1]].part = p
        /\ u[2] <= Demand[w][u[1]].quantity}

Remaining(w, p, i) == Cardinality(UnitsFrom(w, p, i))

\* The units of p that h's order holds while h works for it: those written and
\* not yet given back.
InHand(h, p) ==
    LET w == h.req.order
    IN  CASE h.pc = "write"              -> Asked(w, p) - h.moved[p]
          [] h.pc = "record"             -> Asked(w, p)
          [] h.pc \in {"load", "settle"} -> Remaining(w, p, h.idx)
          [] OTHER                       -> 0

\* A part whose document no overtaken copy replaced and no DELETE hides.
Sound(p) == p \notin clobbered /\ parts[p].state # "deleted"

\* What w holds of p follows from its own handlers alone: it was left in peace,
\* and if it has a reservation to give back, nobody took its units for another.
Known(w, p) ==
    /\ w \notin disturbed
    /\ reservations[w] = "NONE" \/ (disturbed = {} /\ Sound(p))

HeldDue(w, p) ==
    Known(w, p) =>
        /\ \A x \in Ops : WorksFor(x, w) => held[w][p] = InHand(op[x], p)
        /\ (\A x \in Ops : ~WorksFor(x, w)) =>
               held[w][p] = IF reservations[w] = "RESERVED" THEN Asked(w, p) ELSE 0

HeldAsDue == \A w \in WorkOrders, p \in Parts : HeldDue(w, p)

\* A handler that writes its parts has the whole amount of a part still to write,
\* or nothing; nothing of the items behind it, and everything before the first.
WritesDue(h) ==
    h.pc = "write" =>
        \A p \in Parts :
            LET w == h.req.order
            IN  /\ h.moved[p] \in {0, Asked(w, p)}
                /\ h.idx = 1 => h.moved[p] = Asked(w, p)
                /\ h.moved[p] = 0 \/ \E j \in h.idx..Len(Demand[w]) : Demand[w][j].part = p

\* The cap did not bite: an order gives back all that the item asks for.
SettlesDue(h) ==
    h.pc = "settle" =>
        LET item == Demand[h.req.order][h.idx]
        IN  Known(h.req.order, item.part) => h.moved[item.part] = item.quantity

\* A part that was never created holds nothing.
AbsentIsEmpty == \A p \in Parts : parts[p].state = "absent" => parts[p].reserved = 0

BooksInv == AccountInv /\ AbsentIsEmpty /\ ReservedMatchesHeld

\* Everything that the theorems on held units need.
OrdersInv ==
    /\ BooksInv
    /\ AloneInv
    /\ HeldAsDue
    /\ \A x \in Ops : WritesDue(op[x]) /\ SettlesDue(op[x])

-----------------------------------------------------------------------------
(* Replies. *)

\* A free slot remembers no request.
IdleIsFree == \A x \in Ops : op[x].pc = "idle" => op[x].req = NoRequest

\* The parts.reserve handlers of w in flight, and those that have not come to the
\* good news.
Pending(w)   == {x \in Ops : op[x].req = ReserveCommand(w)}
Undecided(w) == {x \in Pending(w) : op[x].pc # "replyReserved"}

\* A reservation on record accounts for one delivery that is not refused.
RefusedLess ==
    \A w \in WorkOrders :
        faults = 0 /\ reservations[w] # "NONE" =>
            replies[w].failed + Cardinality(Undecided(w)) < calls[ReserveCommand(w)]

RepliesInv == IdleIsFree /\ OneReplyPerCommand /\ RefusedLess
=============================================================================
