----------------------------- MODULE MCExecutions -----------------------------
(***************************************************************************)
(* Small instances of Executions for TLC.                                  *)
(***************************************************************************)
EXTENDS ExecutionsLifecycle, TLC

CONSTANTS w1, w2, o1, o2, worn, blank

\* How often each kind of request is delivered, per work order.
Budget(start, diagnose, repair, complete, fail) ==
    [r \in Requests |->
        CASE r.kind = "start"    -> start
          [] r.kind = "diagnose" -> diagnose
          [] r.kind = "repair"   -> repair
          [] r.kind = "complete" -> complete
          [] r.kind = "fail"     -> fail]

Everything == Budget(2, 2, 1, 2, 1)
OnceEach   == Budget(2, 1, 1, 1, 1)

SlotSymmetry == Permutations(Ops)
=============================================================================
