---------------------------- MODULE StockAccount ----------------------------
(***************************************************************************)
(* What the inventory promises about a part: every operation on it happens *)
(* at once, on the quantities of that moment, and moves exactly the units  *)
(* it is for.  Of a part that was written from an overtaken read, the      *)
(* account is OVERWRITTEN and nothing is promised.                         *)
(***************************************************************************)
EXTENDS Integers

CONSTANTS
    Parts, WorkOrders,
    Needs,       \* Needs[w][p]: the units of p that w asks for
    Opening,     \* Opening[p]: quantity and price p is created with
    Deliveries,  \* quantities that arrive at once
    MaxCents

VARIABLE account  \* account[p]: the part, and the units each order holds of it

NotThere    == [state |-> "absent", available |-> 0, reserved |-> 0, price |-> 0]
OVERWRITTEN == [doc |-> [state |-> "overwritten"]]

Registered(p) ==
    [state |-> "live", available |-> Opening[p].quantity, reserved |-> 0,
     price |-> Opening[p].price]

Nobody == [w \in WorkOrders |-> 0]

\* The part becomes doc, and what w holds of it changes by n.
Book(p, doc) == account' = [account EXCEPT ![p].doc = doc]

BookFor(w, p, doc, n) ==
    account' = [account EXCEPT ![p] =
        [doc |-> doc, held |-> [account[p].held EXCEPT ![w] = @ + n]]]

Init ==
    \E there \in SUBSET Parts :
        account = [p \in Parts |-> [doc |-> IF p \in there THEN Registered(p) ELSE NotThere,
                                    held |-> Nobody]]

-----------------------------------------------------------------------------
Open(p) == account[p].doc.state = "absent" /\ Book(p, Registered(p))

\* An order gets all the units it asks for, and only if there are as many.
Reserve(w, p) ==
    LET doc == account[p].doc
        n   == Needs[w][p]
    IN  /\ doc.state = "live"
        /\ n <= doc.available
        /\ BookFor(w, p, [doc EXCEPT !.available = @ - n, !.reserved = @ + n], n)

\* Reserved units come back, or leave the stock.
Release(w, p) ==
    LET doc == account[p].doc
    IN  /\ doc.state = "live"
        /\ \E n \in 0..doc.reserved :
              BookFor(w, p, [doc EXCEPT !.available = @ + n, !.reserved = @ - n], -n)

Consume(w, p) ==
    LET doc == account[p].doc
    IN  /\ doc.state = "live"
        /\ \E n \in 0..doc.reserved :
              BookFor(w, p, [doc EXCEPT !.reserved = @ - n], -n)

Restock(p) ==
    LET doc == account[p].doc
    IN  /\ doc.state = "live"
        /\ \E n \in Deliveries : Book(p, [doc EXCEPT !.available = @ + n])

Reprice(p) ==
    LET doc == account[p].doc
    IN  /\ doc.state = "live"
        /\ \E c \in 0..MaxCents : Book(p, [doc EXCEPT !.price = c])

Close(p) ==
    LET doc == account[p].doc
    IN  /\ doc.state = "live"
        /\ Book(p, [doc EXCEPT !.state = "deleted"])

Overwrite(p) == account' = [account EXCEPT ![p] = OVERWRITTEN]

Next ==
    \E p \in Parts :
        \/ Open(p) \/ Restock(p) \/ Reprice(p) \/ Close(p) \/ Overwrite(p)
        \/ \E w \in WorkOrders : Reserve(w, p) \/ Release(w, p) \/ Consume(w, p)

Spec == Init /\ [][Next]_account
=============================================================================
