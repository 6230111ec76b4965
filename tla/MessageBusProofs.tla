--------------------------- MODULE MessageBusProofs ---------------------------
(***************************************************************************)
(* At least once, for any commands, any number of handlers in flight, and  *)
(* any number of lost connections, failing handlers and crashes.           *)
(***************************************************************************)
EXTENDS MessageBus, FiniteSetTheorems, TLAPS

(***************************************************************************)
(* The inductive invariant: what is on its way came through the exchange;  *)
(* setup has bound what it counts as bound; without a channel no tag is    *)
(* waited for and setup starts anew; and a handler whose channel is still  *)
(* there knows the tag of its message, one that waits for the broker's     *)
(* confirmation has published.                                             *)
(***************************************************************************)
Passed == Range(queue) \cup Range(delivered) \subseteq routed

BoundSoFar == channel = "setup" => \A i \in 1..bindings : Subscribed[i] \in bound

WithoutChannel == ~Open => unacked = {} /\ bindings = 0

Knows(o) ==
    op[o].pc # "free" =>
        /\ op[o].msg \in routed
        /\ op[o].live => op[o].tag \in DOMAIN delivered /\ delivered[op[o].tag] = op[o].msg
        /\ op[o].pc = "confirm" => op[o].msg \in done

IInv ==
    /\ TypeOK /\ GoneMeansDone /\ TagsAreHandled
    /\ Passed /\ BoundSoFar /\ WithoutChannel /\ \A o \in Ops : Knows(o)

-----------------------------------------------------------------------------
(* Sequences, their ranges, and what a lost channel does to them. *)

LEMMA AppendRange ==
    ASSUME NEW S, NEW s \in Seq(S), NEW e \in S
    PROVE  /\ Append(s, e) \in Seq(S)
           /\ Range(Append(s, e)) = Range(s) \cup {e}
           /\ DOMAIN Append(s, e) = DOMAIN s \cup {Len(s) + 1}
           /\ \A i \in DOMAIN s : Append(s, e)[i] = s[i]
           /\ Append(s, e)[Len(s) + 1] = e
<1>1. \A i \in DOMAIN s : i \in DOMAIN Append(s, e) /\ Append(s, e)[i] = s[i]
  OBVIOUS
<1>2. Len(s) + 1 \in DOMAIN Append(s, e) /\ Append(s, e)[Len(s) + 1] = e
  OBVIOUS
<1>3. DOMAIN Append(s, e) = DOMAIN s \cup {Len(s) + 1}
  OBVIOUS
<1>4. Range(Append(s, e)) = Range(s) \cup {e}
  BY <1>1, <1>2, <1>3 DEF Range
<1> QED BY <1>1, <1>2, <1>3, <1>4

LEMMA TailRange ==
    ASSUME NEW S, NEW s \in Seq(S), s # <<>>
    PROVE  /\ Head(s) \in S /\ Tail(s) \in Seq(S)
           /\ Range(s) = Range(Tail(s)) \cup {Head(s)}
<1>1. Head(s) \in S /\ Tail(s) \in Seq(S)
  OBVIOUS
<1>2. \A i \in DOMAIN s : i = 1 \/ (i - 1 \in DOMAIN Tail(s) /\ Tail(s)[i - 1] = s[i])
  OBVIOUS
<1>3. \A i \in DOMAIN Tail(s) : i + 1 \in DOMAIN s /\ Tail(s)[i] = s[i + 1]
  OBVIOUS
<1>4. 1 \in DOMAIN s /\ Head(s) = s[1]
  OBVIOUS
<1>5. Range(s) \subseteq Range(Tail(s)) \cup {Head(s)}
  BY <1>2, <1>4 DEF Range
<1>6. Range(Tail(s)) \cup {Head(s)} \subseteq Range(s)
  BY <1>3, <1>4 DEF Range
<1> QED BY <1>1, <1>5, <1>6

LEMMA ConcatRange ==
    ASSUME NEW S, NEW s \in Seq(S), NEW t \in Seq(S)
    PROVE  s \o t \in Seq(S) /\ Range(s \o t) = Range(s) \cup Range(t)
<1>1. s \o t \in Seq(S)
  OBVIOUS
<1>2. \A i \in DOMAIN s : i \in DOMAIN (s \o t) /\ (s \o t)[i] = s[i]
  OBVIOUS
<1>3. \A i \in DOMAIN t : Len(s) + i \in DOMAIN (s \o t) /\ (s \o t)[Len(s) + i] = t[i]
  OBVIOUS
<1>4. \A i \in DOMAIN (s \o t) :
        \/ i \in DOMAIN s /\ (s \o t)[i] = s[i]
        \/ i - Len(s) \in DOMAIN t /\ (s \o t)[i] = t[i - Len(s)]
  OBVIOUS
<1>5. Range(s) \cup Range(t) \subseteq Range(s \o t)
  BY <1>2, <1>3 DEF Range
<1>6. Range(s \o t) \subseteq Range(s) \cup Range(t)
  BY <1>4 DEF Range
<1> QED BY <1>1, <1>5, <1>6

\* A lost channel gives back what it had not acknowledged, and nothing else.
LEMMA GivenBack ==
    ASSUME TypeOK, NEW state, Lose(state)
    PROVE  /\ queue' \in Seq(Commands)
           /\ Range(queue') = Unsettled
           /\ Unsettled' = Unsettled
           /\ Range(queue') \subseteq Range(queue) \cup Range(delivered)
           /\ channel' = state /\ unacked' = {} /\ delivered' = <<>> /\ bindings' = 0
<1>1. IsFiniteSet(unacked)
  <2>1. delivered \in Seq(Commands) /\ unacked \subseteq 1..Len(delivered)
    BY DEF TypeOK
  <2>2. IsFiniteSet(1..Len(delivered))
    BY <2>1, FS_Interval
  <2> QED BY <2>1, <2>2, FS_Subset
<1>2. Cardinality(unacked) \in Nat
  BY <1>1, FS_CardinalityType
<1>3. PICK back \in [1..Cardinality(unacked) -> unacked] :
         /\ Range(back) = unacked
         /\ queue' = [i \in DOMAIN back |-> delivered[back[i]]] \o queue
  BY DEF Lose
<1> DEFINE given == [i \in DOMAIN back |-> delivered[back[i]]]
<1>4. given \in Seq(Commands)
  <2>1. DOMAIN back = 1..Cardinality(unacked)
    OBVIOUS
  <2>2. \A i \in DOMAIN back : delivered[back[i]] \in Commands
    BY DEF TypeOK
  <2> QED BY <2>1, <2>2, <1>2
<1>5. Range(given) = {delivered[t] : t \in unacked}
  BY <1>3 DEF Range
<1>6. queue \in Seq(Commands)
  BY DEF TypeOK
<1>7. queue' \in Seq(Commands) /\ Range(queue') = Range(given) \cup Range(queue)
  <2>1. queue' = given \o queue
    BY <1>3
  <2> HIDE DEF given
  <2> QED BY <2>1, <1>4, <1>6, ConcatRange
<1>8. channel' = state /\ unacked' = {} /\ delivered' = <<>> /\ bindings' = 0
  BY DEF Lose
<1>9. Unsettled' = Range(queue')
  BY <1>8 DEF Unsettled
<1>10. {delivered[t] : t \in unacked} \subseteq Range(delivered)
  BY DEF TypeOK, Range
<1> QED BY <1>5, <1>7, <1>8, <1>9, <1>10 DEF Unsettled

LEMMA OrphanedType ==
    ASSUME NEW h \in Handler \cup {Free}
    PROVE  /\ Orphaned(h) \in Handler \cup {Free}
           /\ Orphaned(h).pc = "free" <=> h.pc = "free"
           /\ h.pc # "free" => /\ Orphaned(h).msg = h.msg /\ ~Orphaned(h).live
                              /\ Orphaned(h).pc # "confirm"
<1>1. CASE h.pc = "free"
  BY <1>1 DEF Orphaned
<1>2. CASE h.pc # "free"
  <2>1. h \in Handler
    BY <1>2 DEF Free
  <2>2. Orphaned(h) = [pc |-> IF h.pc = "confirm" THEN "send" ELSE h.pc,
                       msg |-> h.msg, tag |-> h.tag, live |-> FALSE]
    BY <1>2, <2>1 DEF Orphaned, Handler
  <2> QED BY <1>2, <2>1, <2>2 DEF Handler
<1> QED BY <1>1, <1>2

-----------------------------------------------------------------------------
(* The channel is lost: h are the handlers that are left. *)

LEMMA LostKeeps ==
    ASSUME IInv, NEW state \in ChannelStates \ {"setup", "consuming"}, Lose(state),
           NEW h \in [Ops -> Handler \cup {Free}], \A o \in Ops : h[o] \in {op[o], Free},
           op' = [o \in Ops |-> Orphaned(h[o])],
           {faults, drops, crashes}' \subseteq Nat,
           UNCHANGED <<bound, sent, routed>>,
           done \subseteq done', swallowed \subseteq swallowed', misacked \subseteq misacked',
           (done \cup swallowed \cup misacked)' \subseteq routed
    PROVE  IInv'
<1>1. /\ queue' \in Seq(Commands)
      /\ Range(queue') = Unsettled
      /\ Unsettled' = Unsettled
      /\ Range(queue') \subseteq Range(queue) \cup Range(delivered)
      /\ channel' = state /\ unacked' = {} /\ delivered' = <<>> /\ bindings' = 0
  BY GivenBack DEF IInv
<1>2. \A o \in Ops : op'[o] \in Handler \cup {Free}
  BY OrphanedType
<1>3. TypeOK'
  <2>1. delivered' \in Seq(Commands)
    BY <1>1
  <2>2. op' \in [Ops -> Handler \cup {Free}]
    BY <1>2
  <2>3. bindings' \in 0..Len(Subscribed)
    BY <1>1, BusType
  <2> QED BY <1>1, <2>1, <2>2, <2>3 DEF IInv, TypeOK
<1>4. GoneMeansDone'
  BY <1>1 DEF IInv, GoneMeansDone
<1>5. TagsAreHandled'
  BY <1>1 DEF TagsAreHandled
<1>6. Passed'
  <2>1. Range(delivered') = {}
    BY <1>1 DEF Range
  <2> QED BY <1>1, <2>1 DEF IInv, Passed
<1>7. BoundSoFar' /\ WithoutChannel'
  BY <1>1 DEF BoundSoFar, WithoutChannel
<1>8. ASSUME NEW o \in Ops PROVE Knows(o)'
  <2>1. CASE h[o].pc = "free"
    BY <2>1, OrphanedType DEF Knows
  <2>2. CASE h[o].pc # "free"
    <3>1. h[o] = op[o]
      BY <2>2 DEF Free
    <3>2. op[o].msg \in routed
      BY <2>2, <3>1 DEF IInv, Knows
    <3>3. op'[o].msg = op[o].msg /\ ~op'[o].live /\ op'[o].pc # "confirm"
      BY <2>2, <3>1, OrphanedType
    <3> QED BY <3>2, <3>3 DEF Knows
  <2> QED BY <2>1, <2>2
<1> QED BY <1>3, <1>4, <1>5, <1>6, <1>7, <1>8 DEF IInv

-----------------------------------------------------------------------------
(* A handler comes to its end: its message was settled, or goes on being owed. *)

LEMMA AckKeeps ==
    ASSUME IInv, NEW o \in Ops, op[o].pc # "free", AckAndFree(o),
           {faults, drops, crashes}' \subseteq Nat,
           UNCHANGED <<bound, sent, routed>>,
           done \subseteq done', swallowed \subseteq swallowed',
           (done \cup swallowed)' \subseteq routed,
           op[o].msg \in (done \cup swallowed)'
    PROVE  IInv'
<1> DEFINE h == [op EXCEPT ![o] = Free]
<1>1. h \in [Ops -> Handler \cup {Free}] /\ \A x \in Ops : h[x] \in {op[x], Free}
  BY DEF IInv, TypeOK
<1>2. CASE Open /\ op[o].tag \notin unacked
  <2>1. PICK state \in {"closed", "none"} :
           Lose(state) /\ op' = [x \in Ops |-> Orphaned(h[x])] /\ misacked' = misacked
    BY <1>2 DEF AckAndFree
  <2>2. misacked \subseteq routed
    BY DEF IInv, TypeOK
  <2>3. state \in ChannelStates \ {"setup", "consuming"}
    BY <2>1 DEF ChannelStates
  <2> HIDE DEF h
  <2> QED BY <1>1, <2>1, <2>2, <2>3, LostKeeps
<1>3. CASE ~Open \/ op[o].tag \in unacked
  <2>1. /\ op' = h
        /\ UNCHANGED <<queue, channel, bindings, delivered>>
        /\ \/ unacked' = unacked /\ misacked' = misacked /\ ~Open
           \/ /\ unacked' = unacked \ {op[o].tag}
              /\ op[o].tag \in unacked
              /\ misacked' = misacked \cup (IF op[o].live THEN {} ELSE {delivered[op[o].tag]})
    BY <1>3 DEF AckAndFree
  <2>2. unacked' \subseteq unacked /\ misacked \subseteq misacked'
    BY <2>1
  <2>3. ASSUME op[o].tag \in unacked PROVE delivered[op[o].tag] \in routed
    BY <2>3 DEF IInv, TypeOK, Passed, Range
  <2>4. misacked' \subseteq routed
    BY <2>1, <2>3 DEF IInv, TypeOK
  <2>5. TypeOK'
    BY <1>1, <2>1, <2>2, <2>4 DEF IInv, TypeOK
  <2>6. GoneMeansDone'
    <3>1. ASSUME NEW m \in routed, m \notin Unsettled'
          PROVE  m \in (done \cup swallowed \cup misacked)' \/ KeyOf[m] \notin Keys
      <4>1. CASE m \notin Unsettled
        BY <4>1, <2>2 DEF IInv, GoneMeansDone
      <4>2. CASE m \in Unsettled
        <5>1. m \notin Range(queue) /\ m = delivered[op[o].tag] /\ op[o].tag \in unacked
              /\ misacked' = misacked \cup (IF op[o].live THEN {} ELSE {delivered[op[o].tag]})
          BY <4>2, <3>1, <2>1 DEF Unsettled
        <5>2. op[o].live => m = op[o].msg
          BY <5>1 DEF IInv, Knows
        <5> QED BY <5>1, <5>2, <2>1
      <4> QED BY <4>1, <4>2
    <3> QED BY <3>1 DEF GoneMeansDone
  <2>7. TagsAreHandled'
    <3>1. ASSUME misacked' = {}, NEW t \in unacked'
          PROVE  \/ delivered[t] \in Malformed
                 \/ \E x \in Ops : h[x].pc # "free" /\ h[x].live /\ h[x].tag = t
      <4>1. t \in unacked /\ misacked = {}
        BY <3>1, <2>2
      <4>2. PICK x \in Ops : delivered[t] \in Malformed
                             \/ (op[x].pc # "free" /\ op[x].live /\ op[x].tag = t)
        BY <4>1 DEF IInv, TagsAreHandled
      <4>3. x = o /\ delivered[t] \notin Malformed => FALSE
        BY <4>1, <4>2, <3>1, <2>1 DEF IInv, WithoutChannel
      <4>4. x # o => h[x] = op[x]
        BY DEF IInv, TypeOK
      <4> QED BY <4>2, <4>3, <4>4
    <3> QED BY <3>1, <2>1 DEF TagsAreHandled
  <2>8. Passed' /\ BoundSoFar' /\ WithoutChannel'
    BY <2>1, <2>2 DEF IInv, Passed, BoundSoFar, WithoutChannel, Open
  <2>9. ASSUME NEW x \in Ops PROVE Knows(x)'
    <3>1. CASE x = o
      BY <3>1, <2>1 DEF Knows, Free, IInv, TypeOK
    <3>2. CASE x # o
      <4>1. op'[x] = op[x]
        BY <3>2, <2>1 DEF IInv, TypeOK
      <4> QED BY <4>1, <2>1 DEF IInv, Knows
    <3> QED BY <3>1, <3>2
  <2> QED BY <2>5, <2>6, <2>7, <2>8, <2>9 DEF IInv
<1> QED BY <1>2, <1>3

-----------------------------------------------------------------------------
(* The other steps.  Most leave the handlers and the channel's tags alone. *)

LEMMA KnowsKept ==
    ASSUME NEW o \in Ops, Knows(o), op'[o] = op[o],
           routed \subseteq routed', done \subseteq done',
           \A t \in DOMAIN delivered : t \in DOMAIN delivered' /\ delivered'[t] = delivered[t]
    PROVE  Knows(o)'
BY DEF Knows

LEMMA InitHolds == Init => IInv
<1> SUFFICES ASSUME Init PROVE IInv
  OBVIOUS
<1>1. Range(queue) = {} /\ Range(delivered) = {}
  BY DEF Init, Range
<1>2. TypeOK
  BY <1>1, BusType DEF Init, TypeOK, ChannelStates
<1>3. GoneMeansDone /\ TagsAreHandled /\ Passed /\ BoundSoFar /\ WithoutChannel
  BY <1>1 DEF Init, GoneMeansDone, TagsAreHandled, Passed, BoundSoFar, WithoutChannel
<1>4. \A o \in Ops : Knows(o)
  BY DEF Init, Knows, Free
<1> QED BY <1>2, <1>3, <1>4 DEF IInv

LEMMA SendKeeps == ASSUME IInv, NEW m \in Commands, Send(m) PROVE IInv'
<1>1. /\ Range(queue) \subseteq Range(queue') /\ Range(queue') \subseteq Range(queue) \cup {m}
      /\ queue' \in Seq(Commands)
      /\ routed \subseteq routed' /\ routed' \subseteq routed \cup {m}
      /\ m \in Range(queue') \cup routed' => m \in routed' /\ (m \in Range(queue') \/ m \in routed)
      /\ routed' \subseteq sent'
  <2>1. queue \in Seq(Commands) /\ Range(queue) \subseteq routed /\ routed \subseteq sent
    BY DEF IInv, TypeOK, Passed
  <2>2. CASE KeyOf[m] \in bound
    <3>1. queue' = Append(queue, m) /\ routed' = routed \cup {m} /\ sent' = sent \cup {m}
      BY <2>2 DEF Send
    <3>2. Append(queue, m) \in Seq(Commands) /\ Range(Append(queue, m)) = Range(queue) \cup {m}
      BY <2>1, AppendRange
    <3> QED BY <2>1, <3>1, <3>2
  <2>3. CASE KeyOf[m] \notin bound
    BY <2>1, <2>3 DEF Send
  <2> QED BY <2>2, <2>3
<1>2. UNCHANGED <<bound, unacked, channel, bindings, delivered, op, budget, done, swallowed,
                  misacked>>
      /\ sent' = sent \cup {m}
  BY DEF Send
<1>3. TypeOK'
  BY <1>1, <1>2 DEF IInv, TypeOK, budget
<1>4. GoneMeansDone'
  BY <1>1, <1>2 DEF IInv, GoneMeansDone, Unsettled
<1>5. TagsAreHandled' /\ BoundSoFar' /\ WithoutChannel'
  BY <1>2 DEF IInv, TagsAreHandled, BoundSoFar, WithoutChannel, Open
<1>6. Passed'
  BY <1>1, <1>2 DEF IInv, Passed
<1>7. \A o \in Ops : Knows(o)'
  BY <1>1, <1>2, KnowsKept DEF IInv
<1> QED BY <1>3, <1>4, <1>5, <1>6, <1>7 DEF IInv

LEMMA SetupKeeps == ASSUME IInv, Setup PROVE IInv'
<1>1. /\ UNCHANGED <<queue, unacked, delivered, op, budget, history>>
      /\ bound \subseteq bound'
      /\ channel' \in ChannelStates /\ Open'
  BY DEF Setup, Connect, BindQueue, Consume, broker, ChannelStates, IInv, TypeOK, Open
<1>2. GoneMeansDone' /\ TagsAreHandled' /\ Passed' /\ WithoutChannel'
  BY <1>1 DEF IInv, GoneMeansDone, TagsAreHandled, Passed, WithoutChannel, history, Unsettled, Open
<1>3. \A o \in Ops : Knows(o)'
  BY <1>1, KnowsKept DEF IInv, history
<1>4. CASE Connect
  <2>1. channel' = "setup" /\ channel = "none" /\ UNCHANGED <<bound, bindings>>
    BY <1>4 DEF Connect, broker
  <2>2. TypeOK'
    BY <1>1, <2>1 DEF IInv, TypeOK, history, budget
  <2>3. BoundSoFar'
    BY <2>1 DEF IInv, WithoutChannel, Open, BoundSoFar
  <2> QED BY <1>2, <1>3, <2>2, <2>3 DEF IInv
<1>5. CASE BindQueue
  <2>1. /\ channel = "setup" /\ channel' = "setup" /\ bindings < Len(Subscribed)
        /\ bindings' = bindings + 1 /\ bound' = bound \cup {Subscribed[bindings + 1]}
    BY <1>5 DEF BindQueue
  <2>2. bindings \in 0..Len(Subscribed) /\ Subscribed \in Seq(Keys)
    BY BusType DEF IInv, TypeOK
  <2>3. Subscribed[bindings + 1] \in Keys
    BY <2>1, <2>2
  <2>4. TypeOK'
    BY <1>1, <2>1, <2>2, <2>3 DEF IInv, TypeOK, history, budget
  <2>5. BoundSoFar'
    BY <2>1, <2>2 DEF IInv, BoundSoFar
  <2> QED BY <1>2, <1>3, <2>4, <2>5 DEF IInv
<1>6. CASE Consume
  <2>1. channel = "setup" /\ channel' = "consuming" /\ bindings = Len(Subscribed)
        /\ UNCHANGED <<bound, bindings>>
    BY <1>6 DEF Consume, broker
  <2>2. Keys \subseteq bound
    BY <2>1 DEF IInv, BoundSoFar, Keys, Range
  <2>3. TypeOK'
    BY <1>1, <2>1, <2>2 DEF IInv, TypeOK, history, budget
  <2>4. BoundSoFar'
    BY <2>1 DEF BoundSoFar
  <2> QED BY <1>2, <1>3, <2>3, <2>4 DEF IInv
<1> QED BY <1>4, <1>5, <1>6 DEF Setup

\* What Ignore, Choke and Dispatch take from the queue.
LEMMA Received ==
    ASSUME IInv, Receive, NEW m, m = Head(queue)
    PROVE  /\ m \in Commands /\ m \in routed
           /\ Tail(queue) \in Seq(Commands)
           /\ Range(queue) = Range(Tail(queue)) \cup {m}
           /\ Append(delivered, m) \in Seq(Commands)
           /\ Range(Append(delivered, m)) = Range(delivered) \cup {m}
           /\ DOMAIN Append(delivered, m) = DOMAIN delivered \cup {NextTag}
           /\ \A t \in DOMAIN delivered : Append(delivered, m)[t] = delivered[t]
           /\ Append(delivered, m)[NextTag] = m
           /\ NextTag \in Nat \ {0} /\ NextTag \notin unacked
           /\ unacked \subseteq DOMAIN delivered
<1>1. queue \in Seq(Commands) /\ delivered \in Seq(Commands) /\ queue # <<>>
      /\ unacked \subseteq DOMAIN delivered
  BY DEF IInv, TypeOK, Receive
<1>2. /\ m \in Commands /\ Tail(queue) \in Seq(Commands)
      /\ Range(queue) = Range(Tail(queue)) \cup {m}
  BY <1>1, TailRange
<1>3. m \in routed
  BY <1>2 DEF IInv, Passed
<1>4. /\ Append(delivered, m) \in Seq(Commands)
      /\ Range(Append(delivered, m)) = Range(delivered) \cup {m}
      /\ DOMAIN Append(delivered, m) = DOMAIN delivered \cup {NextTag}
      /\ \A t \in DOMAIN delivered : Append(delivered, m)[t] = delivered[t]
      /\ Append(delivered, m)[NextTag] = m
  BY <1>1, <1>2, AppendRange DEF NextTag
<1>5. NextTag \in Nat \ {0} /\ NextTag \notin unacked
  BY <1>1 DEF NextTag
<1> QED BY <1>1, <1>2, <1>3, <1>4, <1>5

LEMMA IgnoreKeeps == ASSUME IInv, Ignore PROVE IInv'
<1> DEFINE m == Head(queue)
<1>1. /\ Receive /\ KeyOf[m] \notin Keys
      /\ queue' = Tail(queue) /\ delivered' = Append(delivered, m)
      /\ UNCHANGED <<bound, unacked, channel, bindings, op, budget, history>>
  BY DEF Ignore
<1>2. /\ m \in Commands /\ m \in routed
      /\ Tail(queue) \in Seq(Commands)
      /\ Range(queue) = Range(Tail(queue)) \cup {m}
      /\ Append(delivered, m) \in Seq(Commands)
      /\ Range(Append(delivered, m)) = Range(delivered) \cup {m}
      /\ DOMAIN Append(delivered, m) = DOMAIN delivered \cup {NextTag}
      /\ \A t \in DOMAIN delivered : Append(delivered, m)[t] = delivered[t]
      /\ unacked \subseteq DOMAIN delivered
  BY <1>1, Received
<1> HIDE DEF m
<1>3. TypeOK'
  BY <1>1, <1>2 DEF IInv, TypeOK, budget, history
<1>4. GoneMeansDone'
  <2>1. Unsettled \subseteq Unsettled' \cup {m}
    BY <1>1, <1>2 DEF Unsettled
  <2> QED BY <1>1, <2>1 DEF IInv, GoneMeansDone, history
<1>5. TagsAreHandled'
  <2>1. \A t \in unacked : delivered'[t] = delivered[t]
    BY <1>1, <1>2
  <2> QED BY <1>1, <2>1 DEF IInv, TagsAreHandled, history
<1>6. Passed' /\ BoundSoFar' /\ WithoutChannel'
  BY <1>1, <1>2 DEF IInv, Passed, BoundSoFar, WithoutChannel, Open, history
<1>7. \A o \in Ops : Knows(o)'
  BY <1>1, <1>2, KnowsKept DEF IInv, history
<1> QED BY <1>3, <1>4, <1>5, <1>6, <1>7 DEF IInv

LEMMA ChokeKeeps == ASSUME IInv, Choke PROVE IInv'
<1> DEFINE m == Head(queue)
<1>1. CASE /\ queue' = Tail(queue) /\ delivered' = Append(delivered, m)
           /\ unacked' = unacked \cup {NextTag} /\ UNCHANGED <<channel, bindings, op>>
  <2>1. /\ Receive /\ m \in Malformed /\ UNCHANGED <<bound, budget, history>>
    BY DEF Choke
  <2>2. /\ m \in Commands /\ m \in routed
        /\ Tail(queue) \in Seq(Commands)
        /\ Range(queue) = Range(Tail(queue)) \cup {m}
        /\ Append(delivered, m) \in Seq(Commands)
        /\ Range(Append(delivered, m)) = Range(delivered) \cup {m}
        /\ DOMAIN Append(delivered, m) = DOMAIN delivered \cup {NextTag}
        /\ \A t \in DOMAIN delivered : Append(delivered, m)[t] = delivered[t]
        /\ Append(delivered, m)[NextTag] = m
        /\ unacked \subseteq DOMAIN delivered
    BY <2>1, Received
  <2> HIDE DEF m
  <2>3. TypeOK'
    BY <1>1, <2>1, <2>2 DEF IInv, TypeOK, budget, history
  <2>4. GoneMeansDone'
    <3>1. Unsettled \subseteq Unsettled'
      BY <1>1, <2>2 DEF Unsettled
    <3> QED BY <2>1, <3>1 DEF IInv, GoneMeansDone, history
  <2>5. TagsAreHandled'
    <3>1. \A t \in unacked : delivered'[t] = delivered[t]
      BY <1>1, <2>2
    <3>2. delivered'[NextTag] \in Malformed
      BY <1>1, <2>1, <2>2
    <3> QED BY <1>1, <2>1, <3>1, <3>2 DEF IInv, TagsAreHandled, history
  <2>6. Passed' /\ BoundSoFar'
    BY <1>1, <2>1, <2>2 DEF IInv, Passed, BoundSoFar, history
  <2>7. WithoutChannel'
    BY <1>1, <2>1 DEF Receive, WithoutChannel, Open
  <2>8. \A o \in Ops : Knows(o)'
    BY <1>1, <2>1, <2>2, KnowsKept DEF IInv, history
  <2> QED BY <2>3, <2>4, <2>5, <2>6, <2>7, <2>8 DEF IInv
<1>2. CASE Lose("none") /\ op' = [o \in Ops |-> Orphaned(op[o])]
  <2>1. UNCHANGED <<bound, budget, history>>
    BY DEF Choke
  <2>2. op \in [Ops -> Handler \cup {Free}]
        /\ {faults, drops, crashes} \subseteq Nat
        /\ done \cup swallowed \cup misacked \subseteq routed
    BY DEF IInv, TypeOK
  <2> QED BY <1>2, <2>1, <2>2, LostKeeps DEF budget, history, ChannelStates
<1> QED BY <1>1, <1>2 DEF Choke

LEMMA DropKeeps == ASSUME IInv, Drop \/ Crash PROVE IInv'
<1>1. PICK h \in [Ops -> Handler \cup {Free}] :
         /\ \A o \in Ops : h[o] \in {op[o], Free}
         /\ op' = [o \in Ops |-> Orphaned(h[o])]
  <2>1. CASE Drop
    BY <2>1 DEF Drop, IInv, TypeOK
  <2>2. CASE Crash
    <3>1. Orphaned(Free) = Free
      BY DEF Orphaned, Free
    <3>2. op' = [o \in Ops |-> Orphaned([x \in Ops |-> Free][o])]
      BY <2>2, <3>1 DEF Crash
    <3>3. [x \in Ops |-> Free] \in [Ops -> Handler \cup {Free}]
      OBVIOUS
    <3> QED BY <3>2, <3>3
  <2> QED BY <2>1, <2>2
<1>2. Lose("none") /\ UNCHANGED <<bound, history>> /\ {faults, drops, crashes}' \subseteq Nat
  BY DEF Drop, Crash, IInv, TypeOK
<1>3. done \cup swallowed \cup misacked \subseteq routed
  BY DEF IInv, TypeOK
<1> QED BY <1>1, <1>2, <1>3, LostKeeps DEF history, ChannelStates

LEMMA DispatchKeeps == ASSUME IInv, NEW o \in Ops, Dispatch(o) PROVE IInv'
<1> DEFINE m == Head(queue)
           new == [pc |-> "run", msg |-> m, tag |-> NextTag, live |-> TRUE]
<1>1. /\ Receive /\ op[o].pc = "free"
      /\ queue' = Tail(queue) /\ delivered' = Append(delivered, m)
      /\ unacked' = unacked \cup {NextTag} /\ op' = [op EXCEPT ![o] = new]
      /\ UNCHANGED <<bound, channel, bindings, budget, history>>
  BY DEF Dispatch
<1>2. /\ m \in Commands /\ m \in routed
      /\ Tail(queue) \in Seq(Commands)
      /\ Range(queue) = Range(Tail(queue)) \cup {m}
      /\ Append(delivered, m) \in Seq(Commands)
      /\ Range(Append(delivered, m)) = Range(delivered) \cup {m}
      /\ DOMAIN Append(delivered, m) = DOMAIN delivered \cup {NextTag}
      /\ \A t \in DOMAIN delivered : Append(delivered, m)[t] = delivered[t]
      /\ Append(delivered, m)[NextTag] = m
      /\ NextTag \in Nat \ {0}
      /\ unacked \subseteq DOMAIN delivered
  BY <1>1, Received
<1>3. new \in Handler
  BY <1>2 DEF Handler
<1>4. op'[o] = new /\ \A x \in Ops : x # o => op'[x] = op[x]
  BY <1>1 DEF IInv, TypeOK
<1> HIDE DEF m
<1>5. TypeOK'
  BY <1>1, <1>2, <1>3 DEF IInv, TypeOK, budget, history
<1>6. GoneMeansDone'
  <2>1. Unsettled \subseteq Unsettled'
    BY <1>1, <1>2 DEF Unsettled
  <2> QED BY <1>1, <2>1 DEF IInv, GoneMeansDone, history
<1>7. TagsAreHandled'
  <2>1. ASSUME misacked' = {}, NEW t \in unacked'
        PROVE  \/ delivered'[t] \in Malformed
               \/ \E x \in Ops : op'[x].pc # "free" /\ op'[x].live /\ op'[x].tag = t
    <3>1. CASE t = NextTag
      BY <3>1, <1>4
    <3>2. CASE t # NextTag
      <4>1. t \in unacked /\ misacked = {} /\ delivered'[t] = delivered[t]
        BY <3>2, <2>1, <1>1, <1>2 DEF history
      <4>2. \/ delivered[t] \in Malformed
            \/ \E x \in Ops : op[x].pc # "free" /\ op[x].live /\ op[x].tag = t
        BY <4>1 DEF IInv, TagsAreHandled
      <4> QED BY <4>1, <4>2, <1>1, <1>4
    <3> QED BY <3>1, <3>2
  <2> QED BY <2>1 DEF TagsAreHandled
<1>8. Passed' /\ BoundSoFar'
  BY <1>1, <1>2 DEF IInv, Passed, BoundSoFar, history
<1>9. WithoutChannel'
  BY <1>1 DEF Receive, WithoutChannel, Open
<1>10. ASSUME NEW x \in Ops PROVE Knows(x)'
  <2>1. CASE x = o
    BY <2>1, <1>1, <1>2, <1>4 DEF Knows, history
  <2>2. CASE x # o
    BY <2>2, <1>1, <1>2, <1>4, KnowsKept DEF IInv, history
  <2> QED BY <2>1, <2>2
<1> QED BY <1>5, <1>6, <1>7, <1>8, <1>9, <1>10 DEF IInv

\* The reply is published or kept for later; the handler stays.
LEMMA ReplyKeeps ==
    ASSUME IInv, NEW o \in Ops, op[o].pc \in {"run", "send"},
           NEW pc \in {"send", "confirm"}, op' = [op EXCEPT ![o].pc = pc],
           UNCHANGED <<broker, channel, bindings, delivered, budget, sent, routed,
                       swallowed, misacked>>,
           done' = done \cup (IF pc = "confirm" THEN {op[o].msg} ELSE {})
    PROVE  IInv'
<1>1. op[o] \in Handler
  BY DEF IInv, TypeOK, Free
<1>2. op'[o] = [pc |-> pc, msg |-> op[o].msg, tag |-> op[o].tag, live |-> op[o].live]
  BY <1>1 DEF Handler, IInv, TypeOK
<1>3. \A x \in Ops : x # o => op'[x] = op[x]
  BY DEF IInv, TypeOK
<1>4. op[o].msg \in routed
  BY DEF IInv, Knows
<1>5. op' \in [Ops -> Handler \cup {Free}]
  <2>1. op'[o] \in Handler
    BY <1>1, <1>2 DEF Handler
  <2> QED BY <1>3, <2>1 DEF IInv, TypeOK
<1>6. TypeOK'
  BY <1>4, <1>5 DEF IInv, TypeOK, broker, budget
<1>7. GoneMeansDone'
  BY DEF IInv, GoneMeansDone, Unsettled, broker
<1>8. TagsAreHandled'
  <2>1. \A x \in Ops : (op[x].pc # "free" /\ op[x].live) =>
           op'[x].pc # "free" /\ op'[x].live /\ op'[x].tag = op[x].tag
    BY <1>2, <1>3
  <2> QED BY <2>1 DEF IInv, TagsAreHandled, broker
<1>9. Passed' /\ BoundSoFar' /\ WithoutChannel'
  BY DEF IInv, Passed, BoundSoFar, WithoutChannel, Open, broker
<1>10. ASSUME NEW x \in Ops PROVE Knows(x)'
  <2>1. CASE x = o
    BY <2>1, <1>2, <1>4 DEF IInv, Knows, broker
  <2>2. CASE x # o
    BY <2>2, <1>3, KnowsKept DEF IInv
  <2> QED BY <2>1, <2>2
<1> QED BY <1>6, <1>7, <1>8, <1>9, <1>10 DEF IInv

LEMMA HandlerKeeps ==
    ASSUME IInv, NEW o \in Ops, Step(o) \/ Reject(o)
    PROVE  IInv'
<1>1. {faults, drops, crashes} \subseteq Nat /\ done \cup swallowed \subseteq routed
      /\ (op[o].pc # "free" => op[o].msg \in routed)
      /\ (op[o].pc = "confirm" => op[o].msg \in done)
  BY DEF IInv, TypeOK, Knows
<1>2. CASE Work(o)
  <2>1. CASE Replies(o)
    BY <1>2, <2>1, ReplyKeeps DEF Work, broker
  <2>2. CASE ~Replies(o)
    BY <1>1, <1>2, <2>2, AckKeeps DEF Work, budget
  <2> QED BY <2>1, <2>2
<1>3. CASE PublishReply(o)
  BY <1>3, ReplyKeeps DEF PublishReply
<1>4. CASE Confirm(o)
  BY <1>1, <1>4, AckKeeps DEF Confirm, budget
<1>5. CASE Reject(o)
  BY <1>1, <1>5, AckKeeps DEF Reject, MayReject
<1> QED BY <1>2, <1>3, <1>4, <1>5 DEF Step

LEMMA StutterKeeps == ASSUME IInv, UNCHANGED vars PROVE IInv'
<1>1. UNCHANGED <<queue, bound, unacked, channel, bindings, delivered, op, faults, drops, crashes,
                  sent, routed, done, swallowed, misacked>>
  BY DEF vars, broker, budget, history
<1>2. TypeOK' /\ GoneMeansDone' /\ TagsAreHandled'
  BY <1>1 DEF IInv, TypeOK, GoneMeansDone, TagsAreHandled, Unsettled
<1>3. Passed' /\ BoundSoFar' /\ WithoutChannel' /\ \A o \in Ops : Knows(o)'
  BY <1>1 DEF IInv, Passed, BoundSoFar, WithoutChannel, Open, Knows
<1> QED BY <1>2, <1>3 DEF IInv

-----------------------------------------------------------------------------
\* The invariant of the proof holds in every reachable state.
THEOREM InductiveInvariant == Spec => []IInv
<1>1. ASSUME IInv, [Next]_vars PROVE IInv'
  BY <1>1, SendKeeps, SetupKeeps, IgnoreKeeps, ChokeKeeps, DispatchKeeps, HandlerKeeps,
     DropKeeps, StutterKeeps DEF Next
<1> QED BY <1>1, InitHolds, PTL DEF Spec

\* The bus counts its tags and bindings right, and consumes only what is bound.
THEOREM TypeCorrect == Spec => []TypeOK
BY InductiveInvariant, PTL DEF IInv

\* At least once: no command that reached the queue is gone before its handler has
\* done its work and, where it replies, published the reply; the exceptions are the
\* three the property names.
THEOREM AtLeastOnce == Spec => []GoneMeansDone
BY InductiveInvariant, PTL DEF IInv

\* Until a late ack has hit another handler's command, no tag is forgotten.
THEOREM NoTagForgotten == Spec => []TagsAreHandled
BY InductiveInvariant, PTL DEF IInv
=============================================================================
