------------------------------ MODULE MessageBus ------------------------------
(***************************************************************************)
(* RabbitMqBus (src/shared/messaging/rabbitmq-bus.ts) between the broker   *)
(* and the saga subscribers' handlers: what becomes of every command when  *)
(* handlers overlap, fail, or outlive the channel their command came on.   *)
(* The broker and amqp-connection-manager are external: the queue and its  *)
(* bindings are durable, a lost channel gives back what was not            *)
(* acknowledged, and the manager opens a channel again and resends what    *)
(* was not confirmed when the connection returns, and only then.           *)
(***************************************************************************)
EXTENDS Naturals, Sequences, FiniteSets, Functions

CONSTANTS
    Commands,    \* messages others publish, each once
    KeyOf,       \* KeyOf[m]: m's routing key
    Malformed,   \* those whose content is no JSON
    Subscribed,  \* the routing keys of subscribe, in that order
    Replying,    \* those of them whose handler publishes a reply
    BoundBefore, \* the keys that an earlier deployment bound
    Ops,         \* slots for handlers in flight at the same time
    MaxFaults,   \* how many handlers may reject
    MaxDrops,    \* how often the connection may be lost
    MaxCrashes   \* how often the process may die

Keys == Range(Subscribed)

ASSUME BusType ==
    /\ Malformed \subseteq Commands
    /\ Replying \subseteq Keys
    /\ DOMAIN KeyOf = Commands
    /\ Subscribed \in Seq(Keys)
    /\ {MaxFaults, MaxDrops, MaxCrashes} \subseteq Nat

VARIABLES
    queue,      \* the messages that wait in the broker's queue
    bound,      \* the keys bound to it
    channel,    \* the channel, as the ChannelWrapper knows it
    bindings,   \* how many keys its setup has bound
    delivered,  \* what came over it: delivered[tag]
    unacked,    \* the tags of it the broker has no ack for
    op,         \* the handlers in flight
    faults, drops, crashes,
    \* History, read by properties only:
    sent,       \* the commands published
    routed,     \* those the exchange found the queue for
    done,       \* those whose handler did its work, and replied if it replies
    swallowed,  \* those whose handler rejected, which the bus logs
    misacked    \* those acknowledged by the handler of another one

broker  == <<queue, bound, unacked>>
budget  == <<faults, drops, crashes>>
history == <<sent, routed, done, swallowed, misacked>>
vars    == <<broker, channel, bindings, delivered, op, budget, history>>

Free == [pc |-> "free"]

\* "closed" is a channel the broker closed over an error, on a connection that
\* goes on.
ChannelStates == {"none", "setup", "consuming", "closed"}

Handler == [pc: {"run", "send", "confirm"}, msg: Commands, tag: Nat \ {0}, live: BOOLEAN]

Open == channel \in {"setup", "consuming"}

Init ==
    /\ queue = <<>> /\ bound = BoundBefore /\ unacked = {}
    /\ channel = "none" /\ bindings = 0 /\ delivered = <<>>
    /\ op = [o \in Ops |-> Free]
    /\ faults = 0 /\ drops = 0 /\ crashes = 0
    /\ sent = {} /\ routed = {} /\ done = {} /\ swallowed = {} /\ misacked = {}

-----------------------------------------------------------------------------
(* The broker and the connection. *)

\* Another service publishes m: the exchange drops what it has no binding for.
Send(m) ==
    /\ m \notin sent
    /\ sent' = sent \cup {m}
    /\ IF KeyOf[m] \in bound
       THEN queue' = Append(queue, m) /\ routed' = routed \cup {m}
       ELSE UNCHANGED <<queue, routed>>
    /\ UNCHANGED <<bound, unacked, channel, bindings, delivered, op, budget,
                   done, swallowed, misacked>>

\* The channel is gone: what it had not acknowledged goes back to where it was in
\* the queue.
Lose(state) ==
    /\ channel' = state
    /\ \E back \in [1..Cardinality(unacked) -> unacked] :
           /\ Range(back) = unacked
           /\ \A i, j \in DOMAIN back : i < j => back[i] < back[j]
           /\ queue' = [i \in DOMAIN back |-> delivered[back[i]]] \o queue
    /\ unacked' = {} /\ delivered' = <<>> /\ bindings' = 0

\* Its handlers go on and do not know, and a publish that was not confirmed is to be
\* made again.
Orphaned(h) ==
    IF h.pc = "free" THEN h
    ELSE [h EXCEPT !.live = FALSE, !.pc = IF @ = "confirm" THEN "send" ELSE @]

Drop ==
    /\ drops < MaxDrops
    /\ channel # "none"
    /\ drops' = drops + 1
    /\ Lose("none")
    /\ op' = [o \in Ops |-> Orphaned(op[o])]
    /\ UNCHANGED <<bound, faults, crashes, history>>

Crash ==
    /\ crashes < MaxCrashes
    /\ crashes' = crashes + 1
    /\ Lose("none")
    /\ op' = [o \in Ops |-> Free]
    /\ UNCHANGED <<bound, faults, drops, history>>

-----------------------------------------------------------------------------
(* onApplicationBootstrap: createChannel, and setup on every channel. *)

Connect ==
    /\ channel = "none"
    /\ channel' = "setup"
    /\ UNCHANGED <<broker, bindings, delivered, op, budget, history>>

BindQueue ==
    /\ channel = "setup"
    /\ bindings < Len(Subscribed)
    /\ bindings' = bindings + 1
    /\ bound' = bound \cup {Subscribed[bindings + 1]}
    /\ UNCHANGED <<queue, unacked, channel, delivered, op, budget, history>>

\* Plausible slip: the loop does not wait for its bindings.
Consume_Early ==
    /\ channel = "setup"
    /\ channel' = "consuming"
    /\ UNCHANGED <<broker, bindings, delivered, op, budget, history>>

\* Plausible slip: only the first channel consumes.
Consume_Once ==
    /\ channel = "setup" /\ drops = 0
    /\ bindings = Len(Subscribed)
    /\ channel' = "consuming"
    /\ UNCHANGED <<broker, bindings, delivered, op, budget, history>>

Consume ==
    /\ channel = "setup"
    /\ bindings = Len(Subscribed)
    /\ channel' = "consuming"
    /\ UNCHANGED <<broker, bindings, delivered, op, budget, history>>

-----------------------------------------------------------------------------
(* dispatch, and what the handlers make of it. *)

NextTag == Len(delivered) + 1

\* The consumer callback gets the next message.
Receive ==
    /\ channel = "consuming"
    /\ queue # <<>>

\* No handler for the key: acknowledged at once.
Ignore ==
    /\ Receive
    /\ KeyOf[Head(queue)] \notin Keys
    /\ queue' = Tail(queue)
    /\ delivered' = Append(delivered, Head(queue))
    /\ UNCHANGED <<bound, unacked, channel, bindings, op, budget, history>>

\* JSON.parse throws out of the callback: nobody acknowledges the message, and
\* the exception may take the connection with it.
Choke ==
    /\ Receive
    /\ KeyOf[Head(queue)] \in Keys
    /\ Head(queue) \in Malformed
    /\ \/ /\ queue' = Tail(queue)
          /\ delivered' = Append(delivered, Head(queue))
          /\ unacked' = unacked \cup {NextTag}
          /\ UNCHANGED <<channel, bindings, op>>
       \/ /\ Lose("none")
          /\ op' = [o \in Ops |-> Orphaned(op[o])]
    /\ UNCHANGED <<bound, budget, history>>

\* Plausible slip: the message is acknowledged when its handler is called.
Dispatch_AckFirst(o) ==
    /\ Receive
    /\ op[o].pc = "free"
    /\ KeyOf[Head(queue)] \in Keys /\ Head(queue) \notin Malformed
    /\ queue' = Tail(queue)
    /\ delivered' = Append(delivered, Head(queue))
    /\ op' = [op EXCEPT ![o] =
                 [pc |-> "run", msg |-> Head(queue), tag |-> NextTag, live |-> TRUE]]
    /\ UNCHANGED <<bound, unacked, channel, bindings, budget, history>>

\* The handler of the key is called with the payload.
Dispatch(o) ==
    /\ Receive
    /\ op[o].pc = "free"
    /\ KeyOf[Head(queue)] \in Keys
    /\ Head(queue) \notin Malformed
    /\ queue' = Tail(queue)
    /\ delivered' = Append(delivered, Head(queue))
    /\ unacked' = unacked \cup {NextTag}
    /\ op' = [op EXCEPT ![o] =
                 [pc |-> "run", msg |-> Head(queue), tag |-> NextTag, live |-> TRUE]]
    /\ UNCHANGED <<bound, channel, bindings, budget, history>>

\* .finally(() => this.channel?.ack(message)): the tag of o's message goes to the
\* channel of this moment, whichever channel it came on.  No channel: nothing
\* happens.  A tag the channel does not wait for: the broker closes it, and the
\* connection may go with it.
AckAndFree(o) ==
    LET t == op[o].tag
        h == [op EXCEPT ![o] = Free]
    IN  \/ /\ ~Open
           /\ op' = h
           /\ UNCHANGED <<queue, channel, bindings, delivered, unacked, misacked>>
        \/ /\ Open /\ t \in unacked
           /\ op' = h
           /\ unacked' = unacked \ {t}
           /\ misacked' = misacked \cup (IF op[o].live THEN {} ELSE {delivered[t]})
           /\ UNCHANGED <<queue, channel, bindings, delivered>>
        \/ /\ Open /\ t \notin unacked
           /\ \E state \in {"closed", "none"} : Lose(state)
           /\ op' = [x \in Ops |-> Orphaned(h[x])]
           /\ UNCHANGED misacked

Replies(o) == KeyOf[op[o].msg] \in Replying

\* The handler does its work; without a reply to publish that is the end of it.
Work(o) ==
    /\ op[o].pc = "run"
    /\ IF Replies(o)
       THEN /\ op' = [op EXCEPT ![o].pc = "send"]
            /\ UNCHANGED <<queue, channel, bindings, delivered, unacked, done, misacked>>
       ELSE /\ done' = done \cup {op[o].msg}
            /\ AckAndFree(o)
    /\ UNCHANGED <<bound, budget, sent, routed, swallowed>>

\* Where a handler may reject.  One that replies catches what its work throws and
\* replies the failure: it rejects when that publish fails in its turn.
MayReject(o) ==
    \/ op[o].pc = "run" /\ ~Replies(o)
    \/ op[o].pc = "send"

\* Plausible slip: acknowledged with then in place of finally.
Reject_Unacked(o) ==
    /\ MayReject(o)
    /\ faults < MaxFaults
    /\ faults' = faults + 1
    /\ swallowed' = swallowed \cup {op[o].msg}
    /\ op' = [op EXCEPT ![o] = Free]
    /\ UNCHANGED <<broker, channel, bindings, delivered, drops, crashes, sent, routed,
                   done, misacked>>

\* The handler rejects: .catch logs, and the message is acknowledged.
Reject(o) ==
    /\ MayReject(o)
    /\ faults < MaxFaults
    /\ faults' = faults + 1
    /\ swallowed' = swallowed \cup {op[o].msg}
    /\ AckAndFree(o)
    /\ UNCHANGED <<bound, drops, crashes, sent, routed, done>>

\* publish: the ChannelWrapper keeps the reply until there is a channel that is
\* set up, and resolves when the broker confirms it.
PublishReply(o) ==
    /\ op[o].pc = "send"
    /\ channel = "consuming"
    /\ done' = done \cup {op[o].msg}
    /\ op' = [op EXCEPT ![o].pc = "confirm"]
    /\ UNCHANGED <<broker, channel, bindings, delivered, budget, sent, routed,
                   swallowed, misacked>>

Confirm(o) ==
    /\ op[o].pc = "confirm"
    /\ AckAndFree(o)
    /\ UNCHANGED <<bound, budget, sent, routed, done, swallowed>>

-----------------------------------------------------------------------------
Setup   == Connect \/ BindQueue \/ Consume
Step(o) == Work(o) \/ PublishReply(o) \/ Confirm(o)

Next ==
    \/ \E m \in Commands : Send(m)
    \/ Setup \/ Ignore \/ Choke
    \/ \E o \in Ops : Dispatch(o) \/ Step(o) \/ Reject(o)
    \/ Drop \/ Crash

Spec == Init /\ [][Next]_vars

\* The manager reconnects, the broker delivers and confirms, and every handler's
\* calls return.
FairSpec ==
    /\ Spec
    /\ WF_vars(Setup) /\ WF_vars(Ignore)
    /\ WF_vars(\E o \in Ops : Dispatch(o))
    /\ \A o \in Ops : WF_vars(Step(o))

-----------------------------------------------------------------------------
(* Properties. *)

Unsettled == Range(queue) \cup {delivered[t] : t \in unacked}

TypeOK ==
    /\ queue \in Seq(Commands) /\ delivered \in Seq(Commands)
    /\ bound \subseteq Keys \cup BoundBefore
    /\ channel \in ChannelStates
    /\ channel = "consuming" => Keys \subseteq bound
    /\ bindings \in 0..Len(Subscribed)
    /\ unacked \subseteq DOMAIN delivered
    /\ op \in [Ops -> Handler \cup {Free}]
    /\ {faults, drops, crashes} \subseteq Nat
    /\ routed \subseteq sent /\ sent \subseteq Commands
    /\ done \cup swallowed \cup misacked \subseteq routed

\* At least once: a command that has left the broker was handled to the end, and
\* answered if it is to be answered, through any loss of the connection or of the
\* process; unless its handler rejected, the ack of another handler hit it, or
\* nobody subscribed to it.  A malformed one leaves by such an ack only.
GoneMeansDone ==
    \A m \in routed \ Unsettled :
        \/ m \in done \cup swallowed \cup misacked
        \/ KeyOf[m] \notin Keys

\* An ack hits another command only after a channel was lost under a handler;
\* while the channel lasts, every tag the broker waits for is some handler's, or
\* a malformed command's.
TagsAreHandled ==
    misacked = {} =>
        \A t \in unacked :
            \/ delivered[t] \in Malformed
            \/ \E o \in Ops : op[o].pc # "free" /\ op[o].live /\ op[o].tag = t

\* Every command in the queue is handled in the end, through crashes and losses
\* of the connection, unless a late ack closed the channel or a malformed command
\* is ahead of it.
EveryCommandHandled ==
    \A m \in Commands \ Malformed :
        m \in Range(queue) ~>
            \/ m \in done \cup swallowed \cup misacked
            \/ KeyOf[m] \notin Keys /\ m \notin Unsettled
            \/ channel = "closed"
            \/ routed \cap Malformed # {}
=============================================================================
