----------------------------- MODULE MCMessageBus -----------------------------
(***************************************************************************)
(* A small instance of MessageBus for TLC: a command that is answered, one *)
(* that is not, one that an earlier deployment subscribed to, and one that *)
(* is malformed.                                                           *)
(***************************************************************************)
EXTENDS MessageBus, TLC

CONSTANTS reserve, release, outdated, broken, o1, o2

RoutingKeys == (reserve :> "parts.reserve") @@ (release :> "parts.release")
            @@ (outdated :> "parts.recount") @@ (broken :> "parts.reserve")

Subscriptions == <<"parts.reserve", "parts.release">>
=============================================================================
