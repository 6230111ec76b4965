------------------------------ MODULE Lifecycle ------------------------------
(***************************************************************************)
(* What the rest of the saga may rely on about an execution: it is queued, *)
(* worked on, and completed or failed for good, and the saga hears of the  *)
(* outcome once at most, after the fact.  The promise ends for an order    *)
(* whose document was overwritten by a handler that had read it too early. *)
(***************************************************************************)
CONSTANT WorkOrders

\* life[w]: the status of w's execution and the outcome the saga was told of.
VARIABLE life

Active   == {"QUEUED", "IN_DIAGNOSIS", "IN_REPAIR"}
Terminal == {"COMPLETED", "FAILED"}

Life(status, told) == [status |-> status, told |-> told]

\* Nothing is promised any more.
Overwritten == Life("OVERWRITTEN", "NOTHING")

Init == life = [w \in WorkOrders |-> Life("NONE", "NOTHING")]

\* The execution goes from one of the statuses in "from" to status "to".
Move(w, from, to) ==
    /\ life[w].status \in from
    /\ life' = [life EXCEPT ![w].status = to]

Enqueue(w)  == Move(w, {"NONE"}, "QUEUED")
Diagnose(w) == Move(w, {"QUEUED"}, "IN_DIAGNOSIS")
Repair(w)   == Move(w, {"QUEUED", "IN_DIAGNOSIS"}, "IN_REPAIR")
Complete(w) == Move(w, {"IN_DIAGNOSIS", "IN_REPAIR"}, "COMPLETED")
Fail(w)     == Move(w, Active, "FAILED")

\* The saga hears of the outcome.
Tell(w) ==
    /\ life[w].status \in Terminal
    /\ life[w].told = "NOTHING"
    /\ life' = [life EXCEPT ![w].told = life[w].status]

Overwrite(w) ==
    /\ life[w].status \in Active \cup Terminal
    /\ life' = [life EXCEPT ![w] = Overwritten]

Next ==
    \E w \in WorkOrders :
        \/ Enqueue(w) \/ Diagnose(w) \/ Repair(w) \/ Complete(w) \/ Fail(w)
        \/ Tell(w)
        \/ Overwrite(w)

Spec == Init /\ [][Next]_life
=============================================================================
