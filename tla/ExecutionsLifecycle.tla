-------------------------- MODULE ExecutionsLifecycle --------------------------
(***************************************************************************)
(* Executions implements Lifecycle.                                        *)
(***************************************************************************)
EXTENDS Executions

\* The outcome the saga was told of.
ToldOutcome(w) ==
    IF told[w]["COMPLETED"] > 0 THEN "COMPLETED"
    ELSE IF told[w]["FAILED"] > 0 THEN "FAILED"
    ELSE "NOTHING"

\* What an outsider sees of w.
LifeOf(w) ==
    IF w \in clobbered
    THEN [status |-> "OVERWRITTEN", told |-> "NOTHING"]
    ELSE [status |-> executions[w].status, told |-> ToldOutcome(w)]

Promise == INSTANCE Lifecycle WITH life <- [w \in WorkOrders |-> LifeOf(w)]

\* The documents and the published events, as long as no write was overtaken,
\* go through the lifecycle that README.md:48-60 draws: redeliveries, faults and
\* crashes only cut it short.
FollowsLifecycle == Promise!Spec
=============================================================================
