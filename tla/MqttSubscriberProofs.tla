------------------------ MODULE MqttSubscriberProofs ------------------------
(* Theorems about MqttSubscriber, for every value of its constants.          *)
EXTENDS MqttSubscriber, FiniteSets, SequenceTheorems, FiniteSetTheorems, TLAPS

-----------------------------------------------------------------------------
(* The inductive invariant. *)

\* g places what is on the wire within the session's queue: after the first k
\* messages of the wire have been handled, g[k] messages of the queue have been
\* acknowledged.  Without a connection there is nothing to place.
Places(g) ==
    /\ g[0] = acks
    /\ \A i, j \in 0..Len(wire) : i <= j => g[i] <= g[j]
    /\ \A k \in 1..Len(wire) :
          /\ g[k] = g[k - 1] + wire[k].qos
          /\ wire[k].qos = 1 => pending[g[k]] = wire[k]
    /\ conn => g[Len(wire)] = Len(pending)

Aligned ==
    /\ \E g \in [0..Len(wire) -> 0..Len(pending)] : Places(g)
    /\ ~conn => wire = <<>> /\ acks = 0

\* What the session holds it has taken over, and what is acknowledged was handled.
Session ==
    /\ \A k \in DOMAIN pending : pending[k] \in accepted /\ pending[k].qos = 1
    /\ \A k \in 1..acks : DealtWith(pending[k])

Known == accepted \cup retained \cup ToSet(wire)

\* An id names one message, and none is handled before it is published, nor a
\* retained one before the session has taken it over.
Identity ==
    /\ \A a, b \in Known : a.id = b.id => a = b
    /\ \A a \in Known : a.id <= published
    /\ \A i \in Ids : i > published => handled[i] = 0
    /\ IsFiniteSet(retained)
    /\ \A r \in retained : r.qos = 1 /\ (handled[r.id] > 0 => r \in accepted)

IInv == TypeOK /\ Aligned /\ Session /\ Identity /\ NothingTakenOverIsLost

-----------------------------------------------------------------------------
(* Lemmas about sequences, and about what the broker and the client do to the  *)
(* queue and to the wire.                                                      *)

\* A concatenation, by index from the front of each part.
LEMMA Joined ==
    ASSUME NEW S, NEW s \in Seq(S), NEW t \in Seq(S)
    PROVE  /\ s \o t \in Seq(S) /\ Len(s \o t) = Len(s) + Len(t)
           /\ \A i \in 1..Len(s) : (s \o t)[i] = s[i]
           /\ \A i \in (Len(s) + 1)..(Len(s) + Len(t)) : (s \o t)[i] = t[i - Len(s)]
<1>1. Len(s) \in Nat /\ Len(t) \in Nat
    OBVIOUS
<1> QED
    BY <1>1, ConcatProperties

\* A concatenation holds what its parts hold.
LEMMA ToSetJoined ==
    ASSUME NEW S, NEW s \in Seq(S), NEW t \in Seq(S)
    PROVE  ToSet(s \o t) \subseteq ToSet(s) \cup ToSet(t)
<1>1. DOMAIN (s \o t) = 1..(Len(s) + Len(t)) /\ DOMAIN s = 1..Len(s) /\ DOMAIN t = 1..Len(t)
      /\ Len(s) \in Nat /\ Len(t) \in Nat
    BY Joined
<1>2. ASSUME NEW i \in DOMAIN (s \o t) PROVE (s \o t)[i] \in ToSet(s) \cup ToSet(t)
    <2>1. CASE i \in 1..Len(s)
        BY <1>1, <2>1, Joined DEF ToSet
    <2>2. CASE i \in (Len(s) + 1)..(Len(s) + Len(t))
        <3>1. (s \o t)[i] = t[i - Len(s)] /\ i - Len(s) \in DOMAIN t
            BY <1>1, <2>2, Joined
        <3> QED
            BY <3>1 DEF ToSet
    <2> QED
        BY <1>1, <2>1, <2>2
<1> QED
    BY <1>2 DEF ToSet

\* The end of a sequence, by index.
LEMMA Rest ==
    ASSUME NEW S, NEW s \in Seq(S), NEW n \in 0..Len(s)
    PROVE  /\ SubSeq(s, n + 1, Len(s)) \in Seq(S)
           /\ Len(SubSeq(s, n + 1, Len(s))) = Len(s) - n
           /\ \A i \in 1..(Len(s) - n) : SubSeq(s, n + 1, Len(s))[i] = s[i + n]
<1>1. Len(s) \in Nat /\ n \in Nat /\ n <= Len(s)
    OBVIOUS
<1>2. \A i \in (n + 1)..Len(s) : s[i] \in S
    BY <1>1
<1> QED
    BY <1>1, <1>2, SubSeqProperties

\* The beginning of a sequence, by index.
LEMMA Beginning ==
    ASSUME NEW S, NEW s \in Seq(S), NEW n \in 0..Len(s)
    PROVE  /\ SubSeq(s, 1, n) \in Seq(S) /\ Len(SubSeq(s, 1, n)) = n
           /\ \A i \in 1..n : SubSeq(s, 1, n)[i] = s[i]
<1>1. Len(s) \in Nat /\ n \in Nat /\ n <= Len(s)
    OBVIOUS
<1>2. \A i \in 1..n : s[i] \in S
    BY <1>1
<1> QED
    BY <1>1, <1>2, SubSeqProperties

\* The session takes over the beginning of what it is offered, as much as it has
\* room for, and misses no topic but those it is offered.
LEMMA EnqueueTakes ==
    ASSUME TypeOK, NEW ms \in Seq(Messages), Enqueue(ms)
    PROVE  /\ missed' \subseteq Topics
           /\ \E t \in Seq(Messages) :
                /\ pending' = pending \o t /\ Len(pending) + Len(t) <= MaxPending
                /\ wire' = IF conn THEN wire \o t ELSE wire
                /\ accepted' = accepted \cup ToSet(t)
                /\ ToSet(t) \subseteq ToSet(ms)
<1> DEFINE room == MaxPending - Len(pending)
           n    == IF Len(ms) < room THEN Len(ms) ELSE room
           t    == SubSeq(ms, 1, n)
           rest == SubSeq(ms, Len(t) + 1, Len(ms))
<1>1. Len(pending) \in Nat /\ Len(pending) <= MaxPending /\ MaxPending \in Nat /\ Len(ms) \in Nat
    BY BoundsAssumption DEF TypeOK
<1>2. n \in 0..Len(ms) /\ Len(pending) + n <= MaxPending
    BY <1>1
<1>3. t \in Seq(Messages) /\ Len(t) = n /\ \A i \in 1..n : t[i] = ms[i]
    BY <1>2, Beginning
<1>4. ToSet(rest) \subseteq Messages
    <2>1. Len(t) = n
        BY <1>3
    <2> HIDE DEF t, n
    <2>2. Len(t) \in 0..Len(ms)
        BY <1>2, <2>1
    <2>3. SubSeq(ms, Len(t) + 1, Len(ms)) \in Seq(Messages)
        BY <2>2, Rest
    <2> QED
        BY <2>3 DEF ToSet
<1>5. ToSet(t) \subseteq ToSet(ms)
    BY <1>1, <1>2, <1>3 DEF ToSet
<1>6. /\ pending' = pending \o t
      /\ wire' = IF conn THEN wire \o t ELSE wire
      /\ accepted' = accepted \cup ToSet(t)
      /\ missed' = (missed \ {m.topic : m \in ToSet(t)})
                        \cup (IF conn THEN {m.topic : m \in ToSet(rest)} ELSE {})
    BY DEF Enqueue
<1>7. \A m \in ToSet(rest) : m.topic \in Topics
    <2> HIDE DEF rest
    <2> QED
        BY <1>4 DEF Messages
<1>8. missed' \subseteq Topics
    BY <1>6, <1>7, ZenonT(60) DEF TypeOK
<1>9. Len(pending) + Len(t) <= MaxPending
    BY <1>2, <1>3
<1> HIDE DEF t, n, rest, room
<1> QED
    BY <1>3, <1>5, <1>6, <1>8, <1>9

\* However many copies the broker makes of a message, they are all the same.
LEMMA CopiesAlike ==
    ASSUME NEW m \in Messages, NEW ms \in Copies(m)
    PROVE  ms \in Seq(Messages) /\ ToSet(ms) \subseteq {m}
<1>1. ms \in {<<>>, <<m>>, <<m, m>>}
    BY DEF Copies
<1>2. CASE ms = <<>>
    BY <1>2, EmptySeq DEF ToSet
<1>3. CASE ms = <<m>>
    <2>1. <<m>> \in Seq(Messages) /\ \A i \in DOMAIN <<m>> : <<m>>[i] = m
        OBVIOUS
    <2> QED
        BY <1>3, <2>1 DEF ToSet
<1>4. CASE ms = <<m, m>>
    <2>1. <<m, m>> \in Seq(Messages) /\ \A i \in DOMAIN <<m, m>> : <<m, m>>[i] = m
        OBVIOUS
    <2> QED
        BY <1>4, <2>1 DEF ToSet
<1> QED
    BY <1>1, <1>2, <1>3, <1>4

\* The message a publisher's packet becomes.
MessageOf(f) == [topic |-> f.topic, body |-> f.body, qos |-> f.qos, id |-> published + 1]

LEMMA MessageType ==
    ASSUME TypeOK, NEW f \in Feed, BrokerTakes(f)
    PROVE  /\ MessageOf(f) \in Messages /\ MessageOf(f).id = published + 1
           /\ MessageOf(f).id \in Ids /\ MessageOf(f).qos = f.qos
           /\ f.qos \in 0..1 /\ (f.retain => f.qos = 1)
<1>1. f \in [topic : Topics, body : Bodies, qos : 0..1, retain : BOOLEAN]
    BY FeedAssumption
<1>2. published + 1 \in Ids
    BY BoundsAssumption DEF BrokerTakes, TypeOK, Ids
<1> QED
    BY <1>1, <1>2, FeedAssumption DEF MessageOf, Messages

\* BrokerTakes, with the message named.
LEMMA Taking ==
    ASSUME NEW f \in Feed, BrokerTakes(f)
    PROVE  /\ published < MaxMsgs /\ published' = published + 1
           /\ retained' = IF f.retain
                          THEN {r \in retained : r.topic # f.topic} \cup {MessageOf(f)}
                          ELSE retained
           /\ \E ms \in Copies(MessageOf(f)) : IF f.qos = 1 THEN Enqueue(ms) ELSE SendNow(ms)
           /\ UNCHANGED <<clientVars, memoryVars, subs, acks, shown, handled, alerted,
                          faults, runs>>
BY DEF BrokerTakes, MessageOf

\* The retained messages that a subscription is sent.
LEMMA RetainedSent ==
    ASSUME TypeOK, IsFiniteSet(retained), NEW s, NEW ms \in SetToSeqs(RetainedFor(s))
    PROVE  ms \in Seq(Messages) /\ ToSet(ms) \subseteq retained
<1>1. RetainedFor(s) \subseteq retained
    BY DEF RetainedFor
<1>2. Cardinality(RetainedFor(s)) \in Nat
    BY <1>1, FS_Subset, FS_CardinalityType
<1>3. ms \in [1..Cardinality(RetainedFor(s)) -> RetainedFor(s)]
    BY DEF SetToSeqs
<1>4. ms \in Seq(RetainedFor(s))
    BY <1>2, <1>3, SeqDef
<1> QED
    BY <1>1, <1>4, SeqMonotonic DEF TypeOK, ToSet

\* The message on_message is called with: when it has QoS 1 it is the oldest of the
\* queue that is not acknowledged.
LEMMA WireHead ==
    ASSUME TypeOK, Aligned, wire # <<>>
    PROVE  /\ conn /\ Len(wire) \in Nat \ {0} /\ Len(pending) \in Nat
           /\ Head(wire) = wire[1] /\ Head(wire) \in Messages /\ Head(wire) \in ToSet(wire)
           /\ acks + Head(wire).qos \in 0..Len(pending)
           /\ Head(wire).qos = 1 =>
                acks + 1 \in 1..Len(pending) /\ pending[acks + 1] = Head(wire)
<1>1. /\ conn /\ Len(wire) \in Nat \ {0} /\ Len(pending) \in Nat /\ 1 \in DOMAIN wire
      /\ Head(wire) = wire[1] /\ wire[1] \in Messages
    BY EmptySeq, LenProperties, HeadTailProperties DEF TypeOK, Aligned
<1>2. PICK g \in [0..Len(wire) -> 0..Len(pending)] : Places(g)
    BY DEF Aligned
<1>3. g[1] = acks + wire[1].qos /\ (wire[1].qos = 1 => pending[g[1]] = wire[1])
    BY <1>1, <1>2 DEF Places
<1>4. g[1] \in 0..Len(pending) /\ acks \in Nat
    BY <1>1, <1>2 DEF TypeOK
<1> QED
    BY <1>1, <1>3, <1>4 DEF ToSet

-----------------------------------------------------------------------------
(* Type correctness. *)

LEMMA TypeInit == Init => TypeOK
<1> SUFFICES ASSUME Init PROVE TypeOK
    OBVIOUS
<1>1. <<>> \in Seq(Messages) /\ Len(<<>>) = 0
    BY EmptySeq
<1>2. MaxPending \in Nat /\ MaxMsgs \in Nat /\ 0 \in 0..MaxMsgs
    BY BoundsAssumption
<1>3. /\ ZeroCounts \in [Topics -> Nat] /\ ZeroCounts \in [Topics -> 0..MaxMsgs]
      /\ [i \in Ids |-> 0] \in [Ids -> Nat]
    BY <1>2 DEF ZeroCounts
<1>4. pending \in Seq(Messages) /\ wire \in Seq(Messages) /\ Len(pending) = 0
    BY <1>1 DEF Init
<1>5. conn \in BOOLEAN /\ request = <<>> /\ alerts \in Nat /\ due \in BOOLEAN
    BY DEF Init
<1>6. subs = {} /\ accepted = {} /\ alerted = {} /\ retained = {} /\ missed = {}
    BY DEF Init
<1>7. /\ msgCounts = ZeroCounts /\ shown = ZeroCounts /\ handled = [i \in Ids |-> 0]
      /\ pc = "init" /\ acks = 0 /\ published = 0
    BY DEF Init
<1>8. Len(pending) <= MaxPending /\ acks \in 0..Len(pending)
    BY <1>2, <1>4, <1>7
<1> QED
    BY <1>2, <1>3, <1>4, <1>5, <1>6, <1>7, <1>8 DEF TypeOK

\* The end of the process, whatever the reason.
LEMMA LeaveType ==
    ASSUME TypeOK, LeaveConnection
    PROVE  /\ conn' \in BOOLEAN /\ request' \in {<<>>, <<"temp">>, <<"all", "temp">>}
           /\ pending' \in Seq(Messages) /\ Len(pending') <= MaxPending
           /\ wire' \in Seq(Messages) /\ acks' \in 0..Len(pending')
<1>1. /\ Len(pending) \in Nat /\ acks \in 0..Len(pending) /\ Len(pending) <= MaxPending
      /\ MaxPending \in Nat
    BY BoundsAssumption DEF TypeOK
<1>2. pending' \in Seq(Messages) /\ Len(pending') = Len(pending) - acks
    BY <1>1, Rest DEF TypeOK, LeaveConnection
<1>3. <<>> \in Seq(Messages)
    BY EmptySeq
<1>4. 0 \in 0..Len(pending') /\ Len(pending') <= MaxPending
    BY <1>1, <1>2
<1> QED
    BY <1>2, <1>3, <1>4 DEF LeaveConnection

LEMMA TypeStep == IInv /\ [Next]_vars => TypeOK'
<1> SUFFICES ASSUME IInv, [Next]_vars PROVE TypeOK'
    OBVIOUS
<1>0. TypeOK /\ Aligned /\ IsFiniteSet(retained)
    BY DEF IInv, Identity
<1>a. /\ Len(pending) \in Nat /\ MaxPending \in Nat \ {0} /\ MaxMsgs \in Nat
      /\ pending \in Seq(Messages) /\ wire \in Seq(Messages)
    BY <1>0, BoundsAssumption DEF TypeOK
<1> USE DEF clientVars, memoryVars, sessionVars, feedVars, historyVars
<1>1. ASSUME NEW f \in Feed, BrokerTakes(f) PROVE TypeOK'
    <2>1. MessageOf(f) \in Messages /\ MessageOf(f).qos = f.qos
        BY <1>0, <1>1, MessageType
    <2>2. PICK ms \in Copies(MessageOf(f)) : IF f.qos = 1 THEN Enqueue(ms) ELSE SendNow(ms)
        BY <1>1, Taking
    <2>3. ms \in Seq(Messages)
        BY <2>1, CopiesAlike
    <2>4. published' \in 0..MaxMsgs /\ retained' \subseteq Messages
        BY <1>0, <1>1, <1>a, <2>1, Taking DEF TypeOK
    <2>5. UNCHANGED <<clientVars, memoryVars, subs, acks, shown, handled, alerted, faults, runs>>
        BY <1>1, Taking
    <2>6. CASE Enqueue(ms)
        <3>1. missed' \subseteq Topics
            BY <1>0, <2>3, <2>6, EnqueueTakes
        <3>2. PICK t \in Seq(Messages) :
                /\ pending' = pending \o t /\ Len(pending) + Len(t) <= MaxPending
                /\ wire' = IF conn THEN wire \o t ELSE wire
                /\ accepted' = accepted \cup ToSet(t)
            BY <1>0, <2>3, <2>6, EnqueueTakes
        <3>3. /\ pending' \in Seq(Messages) /\ Len(pending') = Len(pending) + Len(t)
              /\ wire' \in Seq(Messages) /\ Len(t) \in Nat
            BY <1>a, <3>2, Joined
        <3>4. accepted' \subseteq Messages
            BY <1>0, <3>2 DEF TypeOK, ToSet
        <3>5. acks' \in 0..Len(pending') /\ Len(pending') <= MaxPending
            BY <1>0, <1>a, <2>5, <3>2, <3>3 DEF TypeOK
        <3> QED
            BY <1>0, <2>4, <2>5, <3>1, <3>3, <3>4, <3>5 DEF TypeOK
    <2>7. CASE SendNow(ms)
        <3>1. wire' \in Seq(Messages)
            BY <1>a, <2>3, <2>7, Joined DEF SendNow
        <3> QED
            BY <1>0, <2>4, <2>5, <2>7, <3>1 DEF TypeOK, SendNow
    <2> QED
        BY <2>2, <2>6, <2>7
<1>2. CASE BrokerSubscribes
    <2>1. PICK ms \in SetToSeqs(RetainedFor(Head(request))) : Enqueue(ms)
        BY <1>2 DEF BrokerSubscribes
    <2>2. ms \in Seq(Messages)
        BY <1>0, RetainedSent
    <2>3. PICK t \in Seq(Messages) :
            /\ pending' = pending \o t /\ Len(pending) + Len(t) <= MaxPending
            /\ wire' = IF conn THEN wire \o t ELSE wire
            /\ accepted' = accepted \cup ToSet(t)
        BY <1>0, <2>1, <2>2, EnqueueTakes
    <2>4. missed' \subseteq Topics
        BY <1>0, <2>1, <2>2, EnqueueTakes
    <2>5. /\ pending' \in Seq(Messages) /\ Len(pending') = Len(pending) + Len(t)
          /\ wire' \in Seq(Messages) /\ Len(t) \in Nat
        BY <1>a, <2>3, Joined
    <2>6. accepted' \subseteq Messages
        BY <1>0, <2>3 DEF TypeOK, ToSet
    <2>7. /\ request' \in {<<>>, <<"temp">>, <<"all", "temp">>}
          /\ subs' \subseteq {"all", "temp"}
        <3>1. request \in {<<"temp">>, <<"all", "temp">>}
            BY <1>0, <1>2 DEF TypeOK, BrokerSubscribes
        <3>2. request' = Tail(request) /\ subs' = subs \cup {Head(request)}
            BY <1>2 DEF BrokerSubscribes
        <3>3. CASE request = <<"temp">>
            <4>1. Head(<<"temp">>) = "temp" /\ Tail(<<"temp">>) = <<>>
                OBVIOUS
            <4> QED
                BY <1>0, <3>2, <3>3, <4>1 DEF TypeOK
        <3>4. CASE request = <<"all", "temp">>
            <4>1. Head(<<"all", "temp">>) = "all" /\ Tail(<<"all", "temp">>) = <<"temp">>
                OBVIOUS
            <4> QED
                BY <1>0, <3>2, <3>4, <4>1 DEF TypeOK
        <3> QED
            BY <3>1, <3>3, <3>4
    <2>8. acks' \in 0..Len(pending') /\ Len(pending') <= MaxPending
        BY <1>0, <1>2, <1>a, <2>3, <2>5 DEF TypeOK, BrokerSubscribes
    <2> QED
        BY <1>0, <1>2, <2>4, <2>5, <2>6, <2>7, <2>8 DEF TypeOK, BrokerSubscribes
<1>3. CASE BrokerAcked
    <2>1. pending # <<>> /\ acks \in 1..Len(pending)
        BY <1>0, <1>3, <1>a, EmptySeq DEF TypeOK, BrokerAcked
    <2>2. pending' \in Seq(Messages) /\ Len(pending') = Len(pending) - 1
        BY <1>3, <1>a, <2>1, HeadTailProperties DEF BrokerAcked
    <2>3. acks' \in 0..Len(pending') /\ Len(pending') <= MaxPending
        BY <1>0, <1>3, <1>a, <2>1, <2>2 DEF TypeOK, BrokerAcked
    <2> QED
        BY <1>0, <1>3, <2>2, <2>3 DEF TypeOK, BrokerAcked
<1>4. CASE Drop
    <2>1. <<>> \in Seq(Messages) /\ 0 \in 0..Len(pending)
        BY <1>a, EmptySeq
    <2> QED
        BY <1>0, <1>4, <2>1 DEF TypeOK, Drop
<1>5. CASE Run \/ Tick \/ Restart
    <2>1. CASE Run
        BY <1>0, <2>1 DEF TypeOK, Run
    <2>2. CASE Tick
        BY <1>0, <2>2 DEF TypeOK, Tick
    <2>3. CASE Restart
        <3>1. ZeroCounts \in [Topics -> Nat] /\ ZeroCounts \in [Topics -> 0..MaxMsgs]
            BY <1>a DEF ZeroCounts
        <3> QED
            BY <1>0, <2>3, <3>1 DEF TypeOK, Restart
    <2> QED
        BY <1>5, <2>1, <2>2, <2>3
<1>6. CASE Connected
    BY <1>0, <1>6, <1>a DEF TypeOK, Connected
<1>7. CASE OnMessage
    <2> DEFINE m == Head(wire)
    <2>1. m \in Messages /\ acks + m.qos \in 0..Len(pending) /\ wire # <<>>
        BY <1>0, <1>7, WireHead DEF OnMessage
    <2>2. m.topic \in Topics /\ m.id \in Ids /\ m.qos \in 0..1 /\ m.id \in 0..MaxMsgs
        BY <1>a, <2>1 DEF Messages, Ids
    <2>3. acks' \in 0..Len(pending)
        BY <1>0, <1>7, <1>a, <2>1, <2>2 DEF OnMessage, TypeOK
    <2>4. wire' \in Seq(Messages)
        BY <1>7, <1>a, <2>1, HeadTailProperties DEF OnMessage
    <2>5. /\ msgCounts' \in [Topics -> Nat] /\ shown' \in [Topics -> 0..MaxMsgs]
          /\ handled' \in [Ids -> Nat] /\ alerts' \in Nat /\ alerted' \subseteq Ids
        <3>1. /\ msgCounts' = [msgCounts EXCEPT ![m.topic] = @ + 1]
              /\ shown' = [shown EXCEPT ![m.topic] = m.id]
              /\ handled' = [handled EXCEPT ![m.id] = @ + 1]
              /\ alerts' \in {alerts, alerts + 1} /\ alerted' \in {alerted, alerted \cup {m.id}}
            BY <1>7 DEF OnMessage, Count
        <3> HIDE DEF m
        <3>2. msgCounts' \in [Topics -> Nat]
            BY <1>0, <2>2, <3>1 DEF TypeOK
        <3>3. shown' \in [Topics -> 0..MaxMsgs] /\ handled' \in [Ids -> Nat]
            BY <1>0, <2>2, <3>1 DEF TypeOK
        <3> QED
            BY <1>0, <2>2, <3>1, <3>2, <3>3, SMTT(60) DEF TypeOK
    <2> QED
        BY <1>0, <1>7, <2>3, <2>4, <2>5 DEF OnMessage, TypeOK
<1>8. CASE OnMessageInterrupted
    <2> DEFINE m == Head(wire)
    <2>1. m \in Messages
        BY <1>0, <1>8, WireHead DEF OnMessageInterrupted
    <2>2. m.topic \in Topics /\ m.id \in Ids /\ m.id \in 0..MaxMsgs
        BY <1>a, <2>1 DEF Messages, Ids
    <2>3. /\ msgCounts' \in [Topics -> Nat] /\ shown' \in [Topics -> 0..MaxMsgs]
          /\ alerts' \in Nat /\ alerted' \subseteq Ids
        <3>1. /\ msgCounts' = [msgCounts EXCEPT ![m.topic] = @ + 1]
              /\ shown' \in {shown, [shown EXCEPT ![m.topic] = m.id]}
              /\ alerts' \in {alerts, alerts + 1} /\ alerted' \in {alerted, alerted \cup {m.id}}
            BY <1>8 DEF OnMessageInterrupted, Count
        <3> HIDE DEF m
        <3>2. msgCounts' \in [Topics -> Nat]
            BY <1>0, <2>2, <3>1 DEF TypeOK
        <3>3. shown' \in [Topics -> 0..MaxMsgs]
            BY <1>0, <2>2, <3>1 DEF TypeOK
        <3> QED
            BY <1>0, <2>2, <3>1, <3>2, <3>3, SMTT(60) DEF TypeOK
    <2>4. LeaveConnection
        BY <1>8 DEF OnMessageInterrupted
    <2> QED
        BY <1>0, <1>8, <2>3, <2>4, LeaveType DEF OnMessageInterrupted, TypeOK
<1>9. CASE OnMessageRaises
    <2>1. Head(wire).topic \in Topics
        BY <1>0, <1>9, WireHead DEF OnMessageRaises, Messages
    <2>2. msgCounts' \in [Topics -> Nat] /\ LeaveConnection
        BY <1>0, <1>9, <2>1 DEF OnMessageRaises, TypeOK, Count
    <2> QED
        BY <1>0, <1>9, <2>2, LeaveType DEF OnMessageRaises, TypeOK
<1>10. CASE Interrupt
    BY <1>0, <1>10, LeaveType DEF Interrupt, TypeOK
<1>11. CASE UNCHANGED vars
    BY <1>0, <1>11 DEF TypeOK, vars
<1> QED
    BY <1>1, <1>2, <1>3, <1>4, <1>5, <1>6, <1>7, <1>8, <1>9, <1>10, <1>11
       DEF Next, BrokerPublishes

-----------------------------------------------------------------------------
(* What is on the wire stays in step with what the session holds.             *)

\* Without a connection there is nothing to place.
LEMMA AlignedOff ==
    ASSUME wire' = <<>>, acks' = 0, Len(pending') \in Nat, conn' = FALSE
    PROVE  Aligned'
<1> DEFINE h == [k \in 0..0 |-> 0]
<1>1. Len(wire') = 0
    BY EmptySeq
<1>2. h \in [0..0 -> 0..Len(pending')] /\ h[0] = 0
    OBVIOUS
<1> HIDE DEF h
<1>3. /\ h[0] = acks' /\ \A i, j \in 0..0 : i <= j => h[i] <= h[j]
      /\ \A k \in 1..0 : h[k] = h[k - 1] + wire'[k].qos
                         /\ (wire'[k].qos = 1 => pending'[h[k]] = wire'[k])
    BY <1>2
<1> QED
    BY <1>1, <1>2, <1>3 DEF Aligned, Places

\* Nothing moves.
LEMMA AlignedStill ==
    ASSUME Aligned, UNCHANGED <<wire, acks, pending, conn>>
    PROVE  Aligned'
BY DEF Aligned, Places

Rising(g, n) == \A i, j \in 0..n : i <= j => g[i] <= g[j]

\* h places n messages more than g, all of them of QoS q.
Stretches(h, g, w, n, p, q) ==
    /\ \A k \in 0..w : h[k] = g[k]
    /\ \A k \in (w + 1)..(w + n) :
          h[k] = h[k - 1] + q /\ h[k] = (IF q = 1 THEN p + (k - w) ELSE p)
    /\ h[w + n] = (IF q = 1 THEN p + n ELSE p)
    /\ Rising(h, w + n)

\* A placement of w messages is stretched to n more, of QoS q each.
LEMMA Stretched ==
    ASSUME NEW w \in Nat, NEW n \in Nat, NEW p \in Nat, NEW q \in 0..1,
           NEW g \in [0..w -> 0..p], g[w] = p, Rising(g, w)
    PROVE  \E h \in [0..(w + n) -> 0..(IF q = 1 THEN p + n ELSE p)] :
              Stretches(h, g, w, n, p, q)
<1> DEFINE h == [k \in 0..(w + n) |->
                    IF k <= w THEN g[k] ELSE IF q = 1 THEN p + (k - w) ELSE p]
<1>1. h \in [0..(w + n) -> 0..(IF q = 1 THEN p + n ELSE p)]
    OBVIOUS
<1>2. \A k \in 0..w : h[k] = g[k]
    OBVIOUS
<1>3. \A k \in (w + 1)..(w + n) : h[k] = (IF q = 1 THEN p + (k - w) ELSE p)
    OBVIOUS
<1> HIDE DEF h
<1>4. \A k \in w..(w + n) : h[k] = (IF q = 1 THEN p + (k - w) ELSE p)
    BY <1>2, <1>3
<1>5. \A k \in (w + 1)..(w + n) : h[k] = h[k - 1] + q
    <2> SUFFICES ASSUME NEW k \in (w + 1)..(w + n) PROVE h[k] = h[k - 1] + q
        OBVIOUS
    <2>1. k \in w..(w + n) /\ k - 1 \in w..(w + n)
        OBVIOUS
    <2> QED
        BY <1>4, <2>1
<1>6. h[w + n] = (IF q = 1 THEN p + n ELSE p)
    BY <1>4
<1>7. ASSUME NEW i \in 0..(w + n), NEW j \in 0..(w + n), i <= j PROVE h[i] <= h[j]
    <2>1. CASE j <= w
        BY <1>2, <1>7, <2>1 DEF Rising
    <2>2. CASE i > w
        BY <1>4, <1>7, <2>2
    <2>3. CASE i <= w /\ j > w
        <3>1. h[i] = g[i] /\ g[i] \in 0..p
            BY <1>2, <2>3
        <3>2. h[j] = (IF q = 1 THEN p + (j - w) ELSE p)
            BY <1>4, <2>3
        <3> QED
            BY <2>3, <3>1, <3>2
    <2> QED
        BY <2>1, <2>2, <2>3
<1> QED
    BY <1>1, <1>2, <1>3, <1>5, <1>6, <1>7 DEF Stretches, Rising

\* The broker sends messages of one QoS over a connection, and queues QoS 1.
LEMMA AlignedSent ==
    ASSUME TypeOK, Aligned, NEW q \in 0..1,
           NEW t \in Seq(Messages), \A k \in 1..Len(t) : t[k].qos = q,
           pending' = (IF q = 1 THEN pending \o t ELSE pending),
           wire' = (IF conn THEN wire \o t ELSE wire),
           UNCHANGED <<conn, acks>>
    PROVE  Aligned'
<1>1. /\ pending \in Seq(Messages) /\ wire \in Seq(Messages)
      /\ Len(pending) \in Nat /\ Len(wire) \in Nat /\ Len(t) \in Nat
    BY DEF TypeOK
<1>2. /\ Len(pending') = (IF q = 1 THEN Len(pending) + Len(t) ELSE Len(pending))
      /\ \A i \in 1..Len(pending) : pending'[i] = pending[i]
      /\ q = 1 => \A j \in 1..Len(t) : pending'[Len(pending) + j] = t[j]
    <2>1. CASE q = 1
        <3>1. /\ Len(pending') = Len(pending) + Len(t)
              /\ \A i \in 1..Len(pending) : pending'[i] = pending[i]
              /\ \A i \in (Len(pending) + 1)..(Len(pending) + Len(t)) :
                    pending'[i] = t[i - Len(pending)]
            BY <1>1, <2>1, Joined
        <3>2. ASSUME NEW j \in 1..Len(t) PROVE pending'[Len(pending) + j] = t[j]
            <4>1. /\ Len(pending) + j \in (Len(pending) + 1)..(Len(pending) + Len(t))
                  /\ (Len(pending) + j) - Len(pending) = j
                BY <1>1
            <4> QED
                BY <3>1, <4>1
        <3> QED
            BY <2>1, <3>1, <3>2
    <2>2. CASE q = 0
        BY <2>2
    <2> QED
        BY <2>1, <2>2
<1>3. CASE ~conn
    <2>1. wire' = <<>> /\ acks' = 0 /\ conn' = FALSE /\ Len(pending') \in Nat
        BY <1>1, <1>2, <1>3 DEF Aligned, TypeOK
    <2> QED
        BY <2>1, AlignedOff
<1>4. CASE conn
    <2>1. /\ Len(wire') = Len(wire) + Len(t)
          /\ \A i \in 1..Len(wire) : wire'[i] = wire[i]
          /\ \A i \in (Len(wire) + 1)..(Len(wire) + Len(t)) : wire'[i] = t[i - Len(wire)]
        BY <1>1, <1>4, Joined
    <2>2. PICK g \in [0..Len(wire) -> 0..Len(pending)] : Places(g)
        BY DEF Aligned
    <2>3. /\ g[0] = acks /\ g[Len(wire)] = Len(pending)
          /\ \A i, j \in 0..Len(wire) : i <= j => g[i] <= g[j]
          /\ \A k \in 1..Len(wire) : g[k] = g[k - 1] + wire[k].qos
          /\ \A k \in 1..Len(wire) : wire[k].qos = 1 => pending[g[k]] = wire[k]
          /\ \A k \in 0..Len(wire) : g[k] \in 0..Len(pending)
        BY <1>4, <2>2 DEF Places
    <2>4. PICK h \in [0..(Len(wire) + Len(t))
                         -> 0..(IF q = 1 THEN Len(pending) + Len(t) ELSE Len(pending))] :
            Stretches(h, g, Len(wire), Len(t), Len(pending), q)
        <3>1. g[Len(wire)] = Len(pending) /\ Rising(g, Len(wire))
            BY <2>3 DEF Rising
        <3> QED
            BY <1>1, <3>1, Stretched
    <2>a. /\ \A k \in 0..Len(wire) : h[k] = g[k]
          /\ \A k \in (Len(wire) + 1)..(Len(wire) + Len(t)) :
                /\ h[k] = h[k - 1] + q
                /\ h[k] = (IF q = 1 THEN Len(pending) + (k - Len(wire)) ELSE Len(pending))
          /\ h[Len(wire) + Len(t)] = (IF q = 1 THEN Len(pending) + Len(t) ELSE Len(pending))
          /\ \A i, j \in 0..(Len(wire) + Len(t)) : i <= j => h[i] <= h[j]
        BY <2>4 DEF Stretches, Rising
    <2>5. h \in [0..Len(wire') -> 0..Len(pending')]
        BY <1>2, <2>1, <2>4
    <2>6. h[0] = acks' /\ h[Len(wire')] = Len(pending')
        BY <1>1, <1>2, <2>1, <2>3, <2>a
    <2>7. \A i, j \in 0..Len(wire') : i <= j => h[i] <= h[j]
        BY <2>1, <2>a
    <2>8. ASSUME NEW k \in 1..Len(wire')
          PROVE  /\ h[k] = h[k - 1] + wire'[k].qos
                 /\ wire'[k].qos = 1 => pending'[h[k]] = wire'[k]
        <3>1. CASE k \in 1..Len(wire)
            <4>1. k \in 0..Len(wire) /\ k - 1 \in 0..Len(wire)
                BY <1>1, <3>1
            <4>2. h[k] = g[k] /\ h[k - 1] = g[k - 1] /\ wire'[k] = wire[k]
                BY <2>1, <2>a, <3>1, <4>1
            <4>3. g[k] = g[k - 1] + wire[k].qos /\ g[k] \in 0..Len(pending)
                  /\ g[k - 1] \in 0..Len(pending)
                BY <2>3, <3>1, <4>1
            <4>4. wire[k].qos = 1 => g[k] \in 1..Len(pending) /\ pending[g[k]] = wire[k]
                BY <1>1, <2>3, <3>1, <4>3
            <4> QED
                BY <1>2, <4>2, <4>3, <4>4
        <3>2. CASE k \in (Len(wire) + 1)..(Len(wire) + Len(t))
            <4>1. k - Len(wire) \in 1..Len(t) /\ wire'[k] = t[k - Len(wire)]
                BY <1>1, <2>1, <3>2
            <4>2. wire'[k].qos = q
                BY <4>1
            <4>3. h[k] = h[k - 1] + q
                  /\ h[k] = (IF q = 1 THEN Len(pending) + (k - Len(wire)) ELSE Len(pending))
                BY <2>a, <3>2
            <4>4. q = 1 => pending'[h[k]] = t[k - Len(wire)]
                BY <1>2, <4>1, <4>3
            <4> QED
                BY <4>1, <4>2, <4>3, <4>4
        <3>3. k \in 1..Len(wire) \/ k \in (Len(wire) + 1)..(Len(wire) + Len(t))
            BY <1>1, <2>1
        <3> QED
            BY <3>1, <3>2, <3>3
    <2>9. /\ \A k \in 1..Len(wire') : h[k] = h[k - 1] + wire'[k].qos
          /\ \A k \in 1..Len(wire') : wire'[k].qos = 1 => pending'[h[k]] = wire'[k]
        BY <2>8
    <2> QED
        BY <1>4, <2>5, <2>6, <2>7, <2>9 DEF Aligned, Places
<1> QED
    BY <1>3, <1>4

\* The oldest acknowledgement reaches the broker.
LEMMA AlignedAcked == TypeOK /\ Aligned /\ BrokerAcked => Aligned'
<1> SUFFICES ASSUME TypeOK, Aligned, BrokerAcked PROVE Aligned'
    OBVIOUS
<1>1. /\ pending \in Seq(Messages) /\ Len(pending) \in Nat /\ Len(wire) \in Nat
      /\ acks \in 1..Len(pending) /\ pending # <<>>
    BY EmptySeq DEF TypeOK, BrokerAcked
<1>2. /\ wire' = wire /\ conn' = conn /\ acks' = acks - 1
      /\ Len(pending') = Len(pending) - 1
      /\ \A i \in 1..Len(pending') : pending'[i] = pending[i + 1]
    BY <1>1, HeadTailProperties DEF BrokerAcked, clientVars
<1>3. PICK g \in [0..Len(wire) -> 0..Len(pending)] : Places(g)
    BY DEF Aligned
<1>4. /\ g[0] = acks /\ (conn => g[Len(wire)] = Len(pending))
      /\ \A i, j \in 0..Len(wire) : i <= j => g[i] <= g[j]
      /\ \A k \in 1..Len(wire) : g[k] = g[k - 1] + wire[k].qos
      /\ \A k \in 1..Len(wire) : wire[k].qos = 1 => pending[g[k]] = wire[k]
      /\ \A k \in 0..Len(wire) : g[k] \in 0..Len(pending)
    BY <1>3 DEF Places
<1>5. \A k \in 0..Len(wire) : g[k] \in 1..Len(pending)
    BY <1>1, <1>4
<1> DEFINE h == [k \in 0..Len(wire) |-> g[k] - 1]
<1>6. h \in [0..Len(wire) -> 0..Len(pending')]
    BY <1>1, <1>2, <1>5
<1>7. \A k \in 0..Len(wire) : h[k] = g[k] - 1
    OBVIOUS
<1> HIDE DEF h
<1>8. h[0] = acks' /\ (conn' => h[Len(wire)] = Len(pending'))
    BY <1>1, <1>2, <1>4, <1>7
<1>9. \A i, j \in 0..Len(wire) : i <= j => h[i] <= h[j]
    BY <1>1, <1>4, <1>5, <1>7
<1>10. ASSUME NEW k \in 1..Len(wire)
       PROVE  h[k] = h[k - 1] + wire[k].qos /\ (wire[k].qos = 1 => pending'[h[k]] = wire[k])
    <2>1. /\ h[k] = g[k] - 1 /\ h[k - 1] = g[k - 1] - 1 /\ g[k - 1] \in 1..Len(pending)
          /\ g[k] = g[k - 1] + wire[k].qos /\ g[k] \in 1..Len(pending)
        BY <1>1, <1>4, <1>5, <1>7
    <2>2. wire[k] \in Messages
        BY DEF TypeOK
    <2>3. wire[k].qos = 1 => h[k] \in 1..Len(pending') /\ pending[h[k] + 1] = wire[k]
        BY <1>1, <1>2, <1>4, <2>1, SMTT(60)
    <2>4. wire[k].qos \in 0..1
        BY <2>2 DEF Messages
    <2>5. h[k] = h[k - 1] + wire[k].qos
        BY <1>1, <2>1, <2>4
    <2>6. wire[k].qos = 1 => pending'[h[k]] = wire[k]
        BY <1>2, <2>3
    <2> QED
        BY <2>5, <2>6
<1>11. /\ \A k \in 1..Len(wire) : h[k] = h[k - 1] + wire[k].qos
       /\ \A k \in 1..Len(wire) : wire[k].qos = 1 => pending'[h[k]] = wire[k]
    BY <1>10
<1>12. ~conn' => wire' = <<>> /\ acks' = 0
    BY <1>1, <1>2 DEF Aligned
<1> QED
    BY <1>2, <1>6, <1>8, <1>9, <1>11, <1>12 DEF Aligned, Places

\* The client takes the first message of the wire.
LEMMA AlignedRead ==
    ASSUME TypeOK, Aligned, wire # <<>>, wire' = Tail(wire),
           acks' = acks + Head(wire).qos, UNCHANGED <<conn, pending>>
    PROVE  Aligned'
<1>1. /\ conn /\ Len(wire) \in Nat \ {0} /\ Len(pending) \in Nat /\ Head(wire) = wire[1]
    BY WireHead
<1>2. /\ Len(wire') = Len(wire) - 1
      /\ \A i \in 1..Len(wire') : wire'[i] = wire[i + 1]
    BY <1>1, HeadTailProperties DEF TypeOK
<1>3. PICK g \in [0..Len(wire) -> 0..Len(pending)] : Places(g)
    BY DEF Aligned
<1>4. /\ g[0] = acks /\ g[Len(wire)] = Len(pending)
      /\ \A i, j \in 0..Len(wire) : i <= j => g[i] <= g[j]
      /\ \A k \in 1..Len(wire) : g[k] = g[k - 1] + wire[k].qos
      /\ \A k \in 1..Len(wire) : wire[k].qos = 1 => pending[g[k]] = wire[k]
      /\ \A k \in 0..Len(wire) : g[k] \in 0..Len(pending)
    BY <1>1, <1>3 DEF Places
<1> DEFINE h == [k \in 0..Len(wire') |-> g[k + 1]]
<1>5. h \in [0..Len(wire') -> 0..Len(pending)]
    BY <1>1, <1>2, <1>4
<1>6. \A k \in 0..Len(wire') : h[k] = g[k + 1]
    OBVIOUS
<1> HIDE DEF h
<1>7. h[0] = acks' /\ h[Len(wire')] = Len(pending)
    BY <1>1, <1>2, <1>4, <1>6
<1>8. \A i, j \in 0..Len(wire') : i <= j => h[i] <= h[j]
    BY <1>1, <1>2, <1>4, <1>6
<1>9. ASSUME NEW k \in 1..Len(wire')
      PROVE  h[k] = h[k - 1] + wire'[k].qos /\ (wire'[k].qos = 1 => pending[h[k]] = wire'[k])
    <2>1. /\ h[k] = g[k + 1] /\ h[k - 1] = g[k] /\ wire'[k] = wire[k + 1]
          /\ k + 1 \in 1..Len(wire) /\ (k + 1) - 1 = k
        BY <1>1, <1>2, <1>6
    <2>2. g[k + 1] = g[(k + 1) - 1] + wire[k + 1].qos
        BY <1>4, <2>1
    <2> QED
        BY <1>4, <2>1, <2>2
<1>10. /\ \A k \in 1..Len(wire') : h[k] = h[k - 1] + wire'[k].qos
       /\ \A k \in 1..Len(wire') : wire'[k].qos = 1 => pending[h[k]] = wire'[k]
    BY <1>9
<1> QED
    BY <1>1, <1>5, <1>7, <1>8, <1>10 DEF Aligned, Places

\* A connection: all that is pending is sent again, and nothing is acknowledged.
LEMMA AlignedAgain == TypeOK /\ Session /\ Connected => Aligned'
<1> SUFFICES ASSUME TypeOK, Session, Connected PROVE Aligned'
    OBVIOUS
<1>1. /\ Len(pending) \in Nat /\ DOMAIN pending = 1..Len(pending)
      /\ wire' = pending /\ pending' = pending /\ acks' = 0 /\ conn' = TRUE
    BY DEF TypeOK, Connected
<1>2. \A k \in 1..Len(pending) : pending[k].qos = 1
    BY <1>1 DEF Session
<1> DEFINE h == [k \in 0..Len(pending) |-> k]
<1>3. h \in [0..Len(pending) -> 0..Len(pending)] /\ \A k \in 0..Len(pending) : h[k] = k
    OBVIOUS
<1> HIDE DEF h
<1>4. h[0] = 0 /\ h[Len(pending)] = Len(pending)
    BY <1>1, <1>3
<1>5. /\ \A i, j \in 0..Len(pending) : i <= j => h[i] <= h[j]
      /\ \A k \in 1..Len(pending) : h[k] = h[k - 1] + pending[k].qos
      /\ \A k \in 1..Len(pending) : pending[k].qos = 1 => pending[h[k]] = pending[k]
    BY <1>1, <1>2, <1>3
<1> QED
    BY <1>1, <1>3, <1>4, <1>5 DEF Aligned, Places

-----------------------------------------------------------------------------
(* What the session holds, and who answers for what it has taken over.        *)

\* Messages are queued behind those the session holds already.
LEMMA QueuedKeeps ==
    ASSUME TypeOK, Session, NothingTakenOverIsLost, NEW t \in Seq(Messages),
           \A m \in ToSet(t) : m.qos = 1,
           pending' = pending \o t, accepted' = accepted \cup ToSet(t),
           UNCHANGED <<acks, handled, alerted>>
    PROVE  Session' /\ NothingTakenOverIsLost'
<1>1. /\ pending \in Seq(Messages) /\ Len(pending) \in Nat /\ Len(t) \in Nat
      /\ acks \in 0..Len(pending)
    BY DEF TypeOK
<1>2. /\ DOMAIN pending = 1..Len(pending) /\ DOMAIN t = 1..Len(t)
      /\ DOMAIN pending' = 1..(Len(pending) + Len(t))
    BY <1>1, Joined
<1>3. /\ \A i \in 1..Len(pending) : pending'[i] = pending[i]
      /\ \A i \in (Len(pending) + 1)..(Len(pending) + Len(t)) :
            pending'[i] = t[i - Len(pending)]
    BY <1>1, Joined
<1>4. \A i \in 1..Len(t) : t[i] \in ToSet(t)
    BY <1>2 DEF ToSet
<1>5. ASSUME NEW k \in DOMAIN pending' PROVE pending'[k] \in accepted' /\ pending'[k].qos = 1
    <2>1. CASE k \in 1..Len(pending)
        BY <1>2, <1>3, <2>1 DEF Session
    <2>2. CASE k \in (Len(pending) + 1)..(Len(pending) + Len(t))
        <3>1. k - Len(pending) \in 1..Len(t)
            BY <1>1, <2>2
        <3> QED
            BY <1>3, <1>4, <2>2, <3>1
    <2> QED
        BY <1>1, <1>2, <2>1, <2>2
<1>6. ASSUME NEW k \in 1..acks' PROVE DealtWith(pending[k])' /\ pending'[k] = pending[k]
    <2>1. k \in 1..acks /\ k \in 1..Len(pending)
        BY <1>1
    <2>2. DealtWith(pending[k]) /\ pending'[k] = pending[k]
        BY <1>3, <2>1 DEF Session
    <2> QED
        BY <2>2 DEF DealtWith
<1>7. Session'
    BY <1>5, <1>6 DEF Session
<1>8. ASSUME NEW m \in accepted' PROVE Owed(m)' \/ DealtWith(m)'
    <2>1. CASE m \in ToSet(t)
        <3>1. PICK i \in 1..Len(t) : t[i] = m
            BY <1>2, <2>1 DEF ToSet
        <3>2. /\ Len(pending) + i \in (Len(pending) + 1)..(Len(pending) + Len(t))
              /\ (Len(pending) + i) - Len(pending) = i
            BY <1>1
        <3>3. pending'[Len(pending) + i] = m /\ Len(pending) + i \in DOMAIN pending'
            BY <1>1, <1>2, <1>3, <3>1, <3>2
        <3> QED
            BY <3>3 DEF Owed
    <2>2. CASE m \in accepted /\ DealtWith(m)
        BY <2>2 DEF DealtWith
    <2>3. CASE m \in accepted /\ Owed(m)
        <3>1. PICK k \in DOMAIN pending : pending[k].id = m.id
            BY <2>3 DEF Owed
        <3>2. k \in DOMAIN pending' /\ pending'[k] = pending[k]
            BY <1>1, <1>2, <1>3, <3>1
        <3> QED
            BY <3>1, <3>2 DEF Owed
    <2> QED
        BY <2>1, <2>2, <2>3 DEF NothingTakenOverIsLost
<1> QED
    BY <1>7, <1>8 DEF NothingTakenOverIsLost

\* The session forgets the messages whose acknowledgements reach it, the oldest n.
LEMMA Forgotten ==
    ASSUME TypeOK, Session, Identity, NothingTakenOverIsLost, NEW n \in 0..acks,
           Len(pending') = Len(pending) - n,
           DOMAIN pending' = 1..Len(pending'),
           \A i \in 1..Len(pending') : pending'[i] = pending[i + n],
           acks' \in {0, acks - n},
           UNCHANGED <<accepted, handled>>, alerted \subseteq alerted'
    PROVE  Session' /\ NothingTakenOverIsLost'
<1>1. /\ Len(pending) \in Nat /\ acks \in 0..Len(pending) /\ DOMAIN pending = 1..Len(pending)
      /\ n \in Nat /\ acks \in Nat
    BY DEF TypeOK
<1>2. \A i \in 1..Len(pending') : i + n \in DOMAIN pending
    BY <1>1
<1>3. \A k \in DOMAIN pending' : pending'[k] \in accepted' /\ pending'[k].qos = 1
    BY <1>2 DEF Session
<1>4. ASSUME NEW k \in 1..acks' PROVE DealtWith(pending[k])'
    <2>1. k \in 1..Len(pending') /\ k + n \in 1..acks
        BY <1>1
    <2>2. DealtWith(pending[k + n]) /\ pending'[k] = pending[k + n]
        BY <2>1 DEF Session
    <2> QED
        BY <2>2 DEF DealtWith
<1>5. ASSUME NEW m \in accepted' PROVE Owed(m)' \/ DealtWith(m)'
    <2>1. CASE DealtWith(m)
        BY <2>1 DEF DealtWith
    <2>2. CASE Owed(m)
        <3>1. PICK k \in 1..Len(pending) : pending[k].id = m.id
            BY <1>1, <2>2 DEF Owed
        <3>2. CASE k <= n
            <4>1. k \in 1..acks /\ k \in DOMAIN pending
                BY <1>1, <3>2
            <4>2. DealtWith(pending[k]) /\ pending[k] \in accepted
                BY <4>1 DEF Session
            <4>3. pending[k] = m
                BY <3>1, <4>2 DEF Identity, Known
            <4> QED
                BY <2>1, <4>2, <4>3
        <3>3. CASE k > n
            <4>1. k - n \in 1..Len(pending') /\ (k - n) + n = k
                BY <1>1, <3>3
            <4>2. k - n \in DOMAIN pending' /\ pending'[k - n] = pending[k]
                BY <4>1
            <4> QED
                BY <3>1, <4>2 DEF Owed
        <3> QED
            BY <1>1, <3>2, <3>3
    <2> QED
        BY <2>1, <2>2 DEF NothingTakenOverIsLost
<1> QED
    BY <1>3, <1>4, <1>5 DEF Session, NothingTakenOverIsLost

\* Neither the queue nor on_message's record of it loses anything.
LEMMA HeldStill ==
    ASSUME TypeOK, Session, NothingTakenOverIsLost,
           UNCHANGED <<pending, accepted, handled, alerted>>, acks' \in {0, acks}
    PROVE  Session' /\ NothingTakenOverIsLost'
<1>1. acks \in Nat
    BY DEF TypeOK
<1>2. \A k \in 1..acks' : k \in 1..acks
    BY <1>1
<1> QED
    BY <1>2 DEF Session, NothingTakenOverIsLost, Owed, DealtWith

\* Nothing new is known.
LEMMA IdentityKept ==
    ASSUME Identity, accepted' \cup retained' \cup ToSet(wire') \subseteq Known,
           accepted \subseteq accepted', UNCHANGED <<published, retained, handled>>
    PROVE  Identity'
<1>1. Known' \subseteq Known
    BY DEF Known
<1> QED
    BY <1>1 DEF Identity

LEMMA KnownType == TypeOK => Known \subseteq Messages
<1> SUFFICES ASSUME TypeOK PROVE Known \subseteq Messages
    OBVIOUS
<1>1. \A i \in DOMAIN wire : wire[i] \in Messages
    BY DEF TypeOK
<1> QED
    BY <1>1 DEF TypeOK, Known, ToSet

\* A message the session is given has an id that nothing known has, and nothing is
\* known of its handling.
LEMMA IdentityTaken ==
    ASSUME TypeOK, Identity, NEW f \in Feed, BrokerTakes(f),
           NEW t \in Seq(Messages), ToSet(t) \subseteq {MessageOf(f)},
           wire' = (IF conn THEN wire \o t ELSE wire),
           accepted' \in {accepted, accepted \cup ToSet(t)}
    PROVE  Identity'
<1> DEFINE m == MessageOf(f)
<1>1. /\ published \in 0..MaxMsgs /\ MaxMsgs \in Nat /\ published' = published + 1
      /\ handled' = handled /\ handled \in [Ids -> Nat]
      /\ retained' \in {retained, {r \in retained : r.topic # f.topic} \cup {m}}
      /\ ~f.retain => retained' = retained
    BY Taking, BoundsAssumption DEF TypeOK
<1>2. m.id = published + 1 /\ m.id \in Ids /\ m.qos = f.qos /\ (f.retain => f.qos = 1)
    BY MessageType
<1> HIDE DEF m
<1>3. ToSet(wire') \subseteq ToSet(wire) \cup ToSet(t)
    <2>1. wire \in Seq(Messages) /\ Len(wire) \in Nat /\ Len(t) \in Nat
        BY DEF TypeOK
    <2>2. CASE conn
        BY <2>1, <2>2, ToSetJoined
    <2>3. CASE ~conn
        BY <2>3
    <2> QED
        BY <2>2, <2>3
<1>4. Known' \subseteq Known \cup {m}
    BY <1>1, <1>3 DEF Known, m
<1>5. \A a \in Known : a.id <= published /\ a.id # m.id
    <2>1. \A a \in Known : a.id \in Nat
        BY KnownType DEF Messages, Ids
    <2> QED
        BY <1>1, <1>2, <2>1 DEF Identity
<1>6. \A a, b \in Known' : a.id = b.id => a = b
    BY <1>4, <1>5 DEF Identity
<1>7. \A a \in Known' : a.id <= published'
    <2>1. \A a \in Known : a.id \in Nat
        BY KnownType DEF Messages, Ids
    <2> QED
        BY <1>1, <1>2, <1>4, <1>5, <2>1
<1>8. \A i \in Ids : i > published' => handled'[i] = 0
    BY <1>1 DEF Identity, Ids
<1>9. handled[m.id] = 0
    BY <1>1, <1>2 DEF Identity
<1>10. \A r \in retained' : r.qos = 1 /\ (handled'[r.id] > 0 => r \in accepted')
    BY <1>1, <1>2, <1>9 DEF Identity
<1>11. IsFiniteSet(retained')
    <2>1. IsFiniteSet({r \in retained : r.topic # f.topic})
        BY FS_Subset DEF Identity
    <2>2. IsFiniteSet({r \in retained : r.topic # f.topic} \cup {m})
        BY <2>1, FS_AddElement
    <2> QED
        BY <1>1, <2>2 DEF Identity
<1> QED
    BY <1>6, <1>7, <1>8, <1>10, <1>11 DEF Identity

\* on_message returns: the message it was given is dealt with, and what was dealt
\* with stays so.
LEMMA Handling ==
    ASSUME TypeOK, Aligned, Session, Identity, NothingTakenOverIsLost, OnMessage
    PROVE  Session' /\ Identity' /\ NothingTakenOverIsLost'
<1> PICK m : m = Head(wire)
    OBVIOUS
<1>1. /\ wire # <<>> /\ wire' = Tail(wire)
      /\ acks' = (IF m.qos = 1 THEN acks + 1 ELSE acks)
      /\ handled' = [handled EXCEPT ![m.id] = @ + 1]
      /\ alerted' = (IF Alerting(m) THEN alerted \cup {m.id} ELSE alerted)
      /\ pending' = pending /\ accepted' = accepted /\ retained' = retained
      /\ published' = published
    BY DEF OnMessage, feedVars
<1>2. /\ m \in Messages /\ m \in ToSet(wire)
      /\ m.qos = 1 => acks + 1 \in 1..Len(pending) /\ pending[acks + 1] = m
    BY <1>1, WireHead
<1>3. m.id \in Ids /\ m.qos \in 0..1 /\ handled \in [Ids -> Nat] /\ acks \in Nat
    BY <1>2 DEF Messages, TypeOK
<1>4. \A i \in Ids :
          handled'[i] \in Nat /\ handled'[i] = (IF i = m.id THEN handled[i] + 1 ELSE handled[i])
    BY <1>1, <1>3
<1>5. DealtWith(m)'
    BY <1>1, <1>3, <1>4 DEF DealtWith
<1>6. ASSUME NEW a \in Messages, DealtWith(a) PROVE DealtWith(a)'
    <2>1. a.id \in Ids
        BY DEF Messages
    <2>2. handled'[a.id] > 0
        BY <1>3, <1>4, <1>6, <2>1 DEF DealtWith
    <2> QED
        BY <1>1, <1>6, <2>2 DEF DealtWith
<1>7. ASSUME NEW k \in 1..acks' PROVE DealtWith(pending[k])'
    <2>1. CASE k \in 1..acks
        <3>1. pending[k] \in Messages
            BY <2>1 DEF TypeOK
        <3>2. handled'[pending[k].id] > 0 /\ (Alerting(pending[k]) => pending[k].id \in alerted')
            BY <1>6, <2>1, <3>1 DEF Session, DealtWith
        <3> QED
            BY <1>1, <3>2 DEF DealtWith
    <2>2. CASE k = acks + 1 /\ m.qos = 1
        BY <1>1, <1>2, <1>5, <2>2 DEF DealtWith
    <2> QED
        BY <1>1, <1>3, <2>1, <2>2
<1>8. Session'
    BY <1>1, <1>7 DEF Session
<1>9. NothingTakenOverIsLost'
    <2>1. \A a \in accepted : a \in Messages
        BY DEF TypeOK
    <2> QED
        BY <1>1, <1>6, <2>1 DEF NothingTakenOverIsLost, Owed
<1>10. Known' \subseteq Known
    <2>1. Tail(wire) \in Seq(ToSet(wire))
        <3>1. wire \in Seq(ToSet(wire))
            BY DEF TypeOK, ToSet
        <3> QED
            BY <1>1, <3>1, HeadTailProperties
    <2>2. ToSet(wire') \subseteq ToSet(wire)
        BY <1>1, <2>1 DEF ToSet
    <2> QED
        BY <1>1, <2>2 DEF Known
<1>11. m.id <= published
    BY <1>2 DEF Identity, Known
<1>12. \A i \in Ids : i > published => handled'[i] = 0
    <2>1. published \in Nat /\ m.id \in Nat
        BY <1>3, BoundsAssumption DEF TypeOK, Ids
    <2>2. \A i \in Ids : i \in Nat
        BY DEF Ids
    <2> QED
        BY <1>4, <1>11, <2>1, <2>2 DEF Identity
<1>13. ASSUME NEW r \in retained, handled'[r.id] > 0 PROVE r \in accepted
    <2>1. r \in Messages /\ r.id \in Ids
        BY DEF TypeOK, Messages
    <2>2. CASE r.id = m.id
        <3>1. r = m
            BY <1>2, <2>2 DEF Identity, Known
        <3>2. m.qos = 1
            BY <3>1 DEF Identity
        <3>3. acks + 1 \in DOMAIN pending /\ pending[acks + 1] = m
            BY <1>2, <3>2 DEF TypeOK
        <3> QED
            BY <3>1, <3>3 DEF Session
    <2>3. CASE r.id # m.id
        BY <1>4, <1>13, <2>1, <2>3 DEF Identity
    <2> QED
        BY <2>2, <2>3
<1>14. Identity'
    BY <1>1, <1>10, <1>12, <1>13 DEF Identity
<1> QED
    BY <1>8, <1>9, <1>14

-----------------------------------------------------------------------------
(* The invariant holds.                                                       *)

\* Initially nothing is published, held or handled.
LEMMA InvInit == Init => IInv
<1> SUFFICES ASSUME Init PROVE IInv
    OBVIOUS
<1>1. TypeOK
    BY TypeInit
<1>2. /\ pending = <<>> /\ wire = <<>> /\ acks = 0 /\ conn = FALSE
      /\ retained = {} /\ accepted = {} /\ handled = [i \in Ids |-> 0]
    BY DEF Init
<1>3. Aligned
    <2> DEFINE h == [k \in 0..0 |-> 0]
    <2>1. Len(wire) = 0 /\ Len(pending) = 0
        BY <1>2, EmptySeq
    <2>2. h \in [0..0 -> 0..0] /\ h[0] = 0
        OBVIOUS
    <2> HIDE DEF h
    <2>3. Places(h)
        BY <1>2, <2>1, <2>2 DEF Places
    <2> QED
        BY <1>2, <2>1, <2>2, <2>3 DEF Aligned
<1>4. Session
    BY <1>2, EmptySeq DEF Session
<1>5. Identity
    <2>1. Known = {}
        BY <1>2, EmptySeq DEF Known, ToSet
    <2>2. IsFiniteSet(retained)
        BY <1>2, FS_EmptySet
    <2> QED
        BY <1>2, <2>1, <2>2 DEF Identity
<1> QED
    BY <1>1, <1>2, <1>3, <1>4, <1>5 DEF IInv, NothingTakenOverIsLost

\* The end of the process, by Ctrl-C or by an exception.
LEMMA Leaving ==
    ASSUME IInv, LeaveConnection, UNCHANGED <<accepted, retained, published, handled>>,
           alerted \subseteq alerted'
    PROVE  Aligned' /\ Session' /\ Identity' /\ NothingTakenOverIsLost'
<1>1. /\ pending \in Seq(Messages) /\ Len(pending) \in Nat /\ acks \in 0..Len(pending)
      /\ pending' = SubSeq(pending, acks + 1, Len(pending))
      /\ wire' = <<>> /\ acks' = 0 /\ conn' = FALSE
    BY DEF IInv, TypeOK, LeaveConnection
<1>2. /\ pending' \in Seq(Messages) /\ Len(pending') = Len(pending) - acks
      /\ \A i \in 1..Len(pending') : pending'[i] = pending[i + acks]
    BY <1>1, Rest
<1>3. Aligned'
    <2>1. Len(pending') \in Nat
        BY <1>2
    <2> QED
        BY <1>1, <2>1, AlignedOff
<1>4. Session' /\ NothingTakenOverIsLost'
    <2>1. acks \in 0..acks /\ acks' \in {0, acks - acks} /\ DOMAIN pending' = 1..Len(pending')
        BY <1>1, <1>2
    <2> QED
        BY <1>2, <2>1, Forgotten DEF IInv
<1>5. Identity'
    <2>1. ToSet(wire') = {}
        BY <1>1, EmptySeq DEF ToSet
    <2> QED
        BY <2>1, IdentityKept DEF IInv, Known
<1> QED
    BY <1>3, <1>4, <1>5

\* Every step keeps the invariant.
LEMMA InvStep == IInv /\ [Next]_vars => IInv'
<1> SUFFICES ASSUME IInv, [Next]_vars PROVE IInv'
    OBVIOUS
<1>0. TypeOK /\ Aligned /\ Session /\ Identity /\ NothingTakenOverIsLost
    BY DEF IInv
<1>t. TypeOK'
    BY TypeStep
<1> DEFINE Rests == Aligned' /\ Session' /\ Identity' /\ NothingTakenOverIsLost'
<1> SUFFICES Rests
    BY <1>t DEF IInv
<1> USE DEF clientVars, memoryVars, sessionVars, feedVars, historyVars
<1>s. /\ pending \in Seq(Messages) /\ Len(pending) \in Nat /\ acks \in Nat
      /\ DOMAIN pending = 1..Len(pending) /\ wire \in Seq(Messages)
    BY <1>0 DEF TypeOK
<1>1. ASSUME NEW f \in Feed, BrokerTakes(f) PROVE Rests
    <2>1. MessageOf(f) \in Messages /\ MessageOf(f).qos = f.qos /\ f.qos \in 0..1
        BY <1>0, <1>1, MessageType
    <2>2. PICK ms \in Copies(MessageOf(f)) : IF f.qos = 1 THEN Enqueue(ms) ELSE SendNow(ms)
        BY <1>1, Taking
    <2>3. ms \in Seq(Messages) /\ ToSet(ms) \subseteq {MessageOf(f)}
        BY <2>1, CopiesAlike
    <2>4. UNCHANGED <<conn, acks, handled, alerted>>
        BY <1>1, Taking
    <2>5. CASE f.qos = 1
        <3>1. PICK t \in Seq(Messages) :
                /\ pending' = pending \o t /\ Len(pending) + Len(t) <= MaxPending
                /\ wire' = IF conn THEN wire \o t ELSE wire
                /\ accepted' = accepted \cup ToSet(t)
                /\ ToSet(t) \subseteq ToSet(ms)
            BY <1>0, <2>2, <2>3, <2>5, EnqueueTakes
        <3>2. \A m \in ToSet(t) : m.qos = 1
            BY <2>1, <2>3, <2>5, <3>1
        <3>3. \A k \in 1..Len(t) : t[k].qos = 1
            BY <3>2 DEF ToSet
        <3>4. Aligned'
            <4>1. pending' = (IF f.qos = 1 THEN pending \o t ELSE pending)
                BY <2>5, <3>1
            <4>2. \A k \in 1..Len(t) : t[k].qos = f.qos
                BY <2>5, <3>3
            <4> QED
                BY <1>0, <2>1, <2>4, <3>1, <4>1, <4>2, AlignedSent
        <3>5. Session' /\ NothingTakenOverIsLost'
            BY <1>0, <2>4, <3>1, <3>2, QueuedKeeps
        <3>6. ToSet(t) \subseteq {MessageOf(f)}
            BY <2>3, <3>1
        <3>7. Identity'
            BY <1>0, <1>1, <3>1, <3>6, IdentityTaken
        <3> QED
            BY <3>4, <3>5, <3>7
    <2>6. CASE f.qos = 0
        <3>1. /\ wire' = (IF conn THEN wire \o ms ELSE wire)
              /\ UNCHANGED <<pending, accepted, missed>>
            BY <2>2, <2>6 DEF SendNow
        <3>2. \A k \in 1..Len(ms) : ms[k].qos = 0
            <4>1. \A k \in 1..Len(ms) : ms[k] \in ToSet(ms)
                BY <2>3 DEF ToSet
            <4> QED
                BY <2>1, <2>3, <2>6, <4>1
        <3>3. Aligned'
            BY <1>0, <2>3, <2>4, <3>1, <3>2, AlignedSent
        <3>4. Session' /\ NothingTakenOverIsLost'
            BY <1>0, <2>4, <3>1, HeldStill
        <3>5. Identity'
            BY <1>0, <1>1, <2>3, <3>1, IdentityTaken
        <3> QED
            BY <3>3, <3>4, <3>5
    <2> QED
        BY <2>1, <2>5, <2>6
<1>2. CASE BrokerSubscribes
    <2>1. PICK ms \in SetToSeqs(RetainedFor(Head(request))) : Enqueue(ms)
        BY <1>2 DEF BrokerSubscribes
    <2>2. ms \in Seq(Messages) /\ ToSet(ms) \subseteq retained
        BY <1>0, RetainedSent DEF Identity
    <2>3. PICK t \in Seq(Messages) :
            /\ pending' = pending \o t /\ Len(pending) + Len(t) <= MaxPending
            /\ wire' = IF conn THEN wire \o t ELSE wire
            /\ accepted' = accepted \cup ToSet(t)
            /\ ToSet(t) \subseteq ToSet(ms)
        BY <1>0, <2>1, <2>2, EnqueueTakes
    <2>4. UNCHANGED <<conn, acks, handled, alerted, retained, published>>
        BY <1>2 DEF BrokerSubscribes
    <2>5. \A m \in ToSet(t) : m.qos = 1 /\ m \in retained
        BY <1>0, <2>2, <2>3 DEF Identity
    <2>6. \A k \in 1..Len(t) : t[k].qos = 1
        BY <2>5 DEF ToSet
    <2>7. Aligned'
        BY <1>0, <2>3, <2>4, <2>6, AlignedSent
    <2>8. Session' /\ NothingTakenOverIsLost'
        BY <1>0, <2>3, <2>4, <2>5, QueuedKeeps
    <2>9. ToSet(wire') \subseteq ToSet(wire) \cup ToSet(t)
        <3>1. CASE conn
            BY <1>s, <2>3, <3>1, ToSetJoined
        <3>2. CASE ~conn
            BY <2>3, <3>2
        <3> QED
            BY <3>1, <3>2
    <2>10. Identity'
        BY <1>0, <2>3, <2>4, <2>5, <2>9, IdentityKept DEF Known
    <2> QED
        BY <2>7, <2>8, <2>10
<1>3. CASE BrokerAcked
    <2>1. pending # <<>> /\ acks \in 1..Len(pending)
        BY <1>0, <1>3, <1>s, EmptySeq DEF TypeOK, BrokerAcked
    <2>2. /\ pending' \in Seq(Messages) /\ Len(pending') = Len(pending) - 1
          /\ \A i \in 1..Len(pending') : pending'[i] = pending[i + 1]
        BY <1>3, <1>s, <2>1, HeadTailProperties DEF BrokerAcked
    <2>3. /\ UNCHANGED <<wire, accepted, retained, published, handled, alerted>>
          /\ acks' = acks - 1
        BY <1>3 DEF BrokerAcked
    <2>4. Aligned'
        BY <1>0, <1>3, AlignedAcked
    <2>5. Session' /\ NothingTakenOverIsLost'
        <3>1. 1 \in 0..acks /\ acks' \in {0, acks - 1} /\ DOMAIN pending' = 1..Len(pending')
            BY <1>s, <2>1, <2>2, <2>3
        <3> QED
            BY <1>0, <2>2, <2>3, <3>1, Forgotten
    <2>6. Identity'
        BY <1>0, <2>3, IdentityKept DEF Known
    <2> QED
        BY <2>4, <2>5, <2>6
<1>4. CASE Drop
    <2>1. /\ conn' = FALSE /\ wire' = <<>> /\ acks' = 0
          /\ UNCHANGED <<pending, accepted, retained, published, handled, alerted>>
        BY <1>4 DEF Drop
    <2>2. Aligned'
        BY <1>s, <2>1, AlignedOff
    <2>3. Session' /\ NothingTakenOverIsLost'
        BY <1>0, <2>1, HeldStill
    <2>4. ToSet(wire') = {}
        BY <2>1, EmptySeq DEF ToSet
    <2>5. Identity'
        BY <1>0, <2>1, <2>4, IdentityKept DEF Known
    <2> QED
        BY <2>2, <2>3, <2>5
<1>5. CASE Run \/ Tick \/ Restart \/ UNCHANGED vars
    <2>1. UNCHANGED <<conn, wire, acks, pending, accepted, retained, published, handled, alerted>>
        BY <1>5 DEF Run, Tick, Restart, vars
    <2>2. Aligned'
        BY <1>0, <2>1, AlignedStill
    <2>3. Session' /\ NothingTakenOverIsLost'
        BY <1>0, <2>1, HeldStill
    <2>4. Identity'
        BY <1>0, <2>1, IdentityKept DEF Known
    <2> QED
        BY <2>2, <2>3, <2>4
<1>6. CASE Connected
    <2>1. /\ wire' = pending /\ acks' = 0
          /\ UNCHANGED <<pending, accepted, retained, published, handled, alerted>>
        BY <1>6 DEF Connected
    <2>2. Aligned'
        BY <1>0, <1>6, AlignedAgain
    <2>3. Session' /\ NothingTakenOverIsLost'
        BY <1>0, <2>1, HeldStill
    <2>4. ToSet(wire') \subseteq accepted
        BY <1>0, <2>1 DEF Session, ToSet
    <2>5. Identity'
        BY <1>0, <2>1, <2>4, IdentityKept DEF Known
    <2> QED
        BY <2>2, <2>3, <2>5
<1>7. CASE OnMessage
    <2>1. wire # <<>> /\ wire' = Tail(wire) /\ UNCHANGED <<conn, pending>>
        BY <1>7 DEF OnMessage
    <2>2. Head(wire).qos \in 0..1
        BY <1>0, <2>1, WireHead DEF Messages
    <2>3. acks' = acks + Head(wire).qos
        BY <1>7, <1>s, <2>2 DEF OnMessage
    <2>4. Aligned'
        BY <1>0, <2>1, <2>3, AlignedRead
    <2> QED
        BY <1>0, <1>7, <2>4, Handling
<1>8. CASE OnMessageInterrupted
    <2>1. /\ LeaveConnection /\ UNCHANGED <<accepted, retained, published, handled>>
          /\ alerted \subseteq alerted'
        BY <1>8 DEF OnMessageInterrupted
    <2> QED
        BY <2>1, Leaving
<1>9. CASE OnMessageRaises \/ Interrupt
    <2>1. LeaveConnection /\ UNCHANGED <<accepted, retained, published, handled, alerted>>
        BY <1>9 DEF OnMessageRaises, Interrupt
    <2> QED
        BY <2>1, Leaving
<1> QED
    BY <1>1, <1>2, <1>3, <1>4, <1>5, <1>6, <1>7, <1>8, <1>9 DEF Next, BrokerPublishes

-----------------------------------------------------------------------------
(* The theorems.                                                              *)

LEMMA Invariance == Spec => []IInv
<1>1. Init => IInv
    BY InvInit
<1>2. IInv /\ [Next]_vars => IInv'
    BY InvStep
<1> QED
    BY <1>1, <1>2, PTL DEF Spec

\* Whatever the publishers send, the connection does and the operator presses, every
\* variable of subscriber.py and of its session keeps its type, and the session's
\* queue never holds more than max_queued_messages.
THEOREM TypeCorrect == Spec => []TypeOK
<1>1. IInv => TypeOK
    BY DEF IInv
<1> QED
    BY <1>1, Invariance, PTL

\* At least once: a message the session has taken over, for a subscriber that may
\* lose its connection, be interrupted inside on_message, crash on a payload and be
\* restarted any number of times, is handled, with its alert printed, or still owed.
THEOREM NothingIsLost == Spec => []NothingTakenOverIsLost
<1>1. IInv => NothingTakenOverIsLost
    BY DEF IInv
<1> QED
    BY <1>1, Invariance, PTL

-----------------------------------------------------------------------------
(* The subscriber and its session implement Custody.                          *)

\* Who has a message, told by what the session has taken over.
Located ==
    /\ \A i \in Ids : (\A m \in accepted : m.id # i) => Holder[i] = "new"
    /\ \A m \in accepted :
          m.id \in Ids /\ Holder[m.id] = (IF DealtWith(m) THEN "done" ELSE "broker")

\* The invariant leaves the session no way to lose a message it has taken over.
LEMMA WhereItIs == IInv => Located
<1> SUFFICES ASSUME IInv PROVE Located
    OBVIOUS
<1>1. ASSUME NEW i \in Ids, \A m \in accepted : m.id # i PROVE Holder[i] = "new"
    BY <1>1 DEF Holder
<1>2. ASSUME NEW m \in accepted
      PROVE  m.id \in Ids /\ Holder[m.id] = (IF DealtWith(m) THEN "done" ELSE "broker")
    <2>1. m.id \in Ids
        BY DEF IInv, TypeOK, Messages
    <2>2. \A n \in accepted : n.id = m.id => n = m
        BY DEF IInv, Identity, Known
    <2>3. Owed(m) \/ DealtWith(m)
        BY DEF IInv, NothingTakenOverIsLost
    <2>4. CASE DealtWith(m)
        <3>1. /\ \E n \in accepted : n.id = m.id /\ DealtWith(n)
              /\ ~\E n \in accepted : n.id = m.id /\ ~DealtWith(n)
            BY <2>2, <2>4
        <3> QED
            BY <2>1, <2>4, <3>1 DEF Holder
    <2>5. CASE ~DealtWith(m)
        <3>1. /\ \E n \in accepted : n.id = m.id /\ ~DealtWith(n) /\ Owed(n)
              /\ ~\E n \in accepted : n.id = m.id /\ DealtWith(n)
              /\ ~\E n \in accepted : n.id = m.id /\ ~Owed(n)
            BY <2>2, <2>3, <2>5
        <3> QED
            BY <2>1, <2>5, <3>1 DEF Holder
    <2> QED
        BY <2>1, <2>4, <2>5
<1> QED
    BY <1>1, <1>2 DEF Located

\* What is taken over and what is dealt with only grows, and nothing is dealt with
\* before it is taken over.
LEMMA OnlyForward ==
    IInv /\ [Next]_vars =>
        /\ accepted \subseteq accepted'
        /\ \A m \in accepted : DealtWith(m) => DealtWith(m)'
        /\ \A m \in accepted' : m \in accepted \/ ~DealtWith(m)'
<1> SUFFICES ASSUME IInv, [Next]_vars
             PROVE  /\ accepted \subseteq accepted'
                    /\ \A m \in accepted : DealtWith(m) => DealtWith(m)'
                    /\ \A m \in accepted' : m \in accepted \/ ~DealtWith(m)'
    OBVIOUS
<1>0. TypeOK /\ Aligned /\ Identity
    BY DEF IInv
<1> USE DEF clientVars, memoryVars, sessionVars, feedVars, historyVars
<1>1. ASSUME UNCHANGED <<accepted, handled>>, alerted \subseteq alerted'
      PROVE  /\ accepted \subseteq accepted'
             /\ \A m \in accepted : DealtWith(m) => DealtWith(m)'
             /\ \A m \in accepted' : m \in accepted \/ ~DealtWith(m)'
    BY <1>1 DEF DealtWith
<1>2. ASSUME NEW S, accepted' = accepted \cup S, UNCHANGED <<handled, alerted>>,
             \A m \in S : m \in accepted \/ handled[m.id] = 0
      PROVE  /\ accepted \subseteq accepted'
             /\ \A m \in accepted : DealtWith(m) => DealtWith(m)'
             /\ \A m \in accepted' : m \in accepted \/ ~DealtWith(m)'
    BY <1>2 DEF DealtWith
<1>3. ASSUME NEW f \in Feed, BrokerTakes(f)
      PROVE  \E S : /\ accepted' = accepted \cup S
                    /\ \A m \in S : m \in accepted \/ handled[m.id] = 0
    <2>1. MessageOf(f) \in Messages /\ MessageOf(f).id = published + 1 /\ published + 1 \in Ids
        BY <1>0, <1>3, MessageType
    <2>2. handled[MessageOf(f).id] = 0
        <3>1. published \in Nat
            BY <1>0, BoundsAssumption DEF TypeOK
        <3> QED
            BY <1>0, <2>1, <3>1 DEF Identity
    <2>3. PICK ms \in Copies(MessageOf(f)) : IF f.qos = 1 THEN Enqueue(ms) ELSE SendNow(ms)
        BY <1>3, Taking
    <2>4. ms \in Seq(Messages) /\ ToSet(ms) \subseteq {MessageOf(f)}
        BY <2>1, CopiesAlike
    <2>5. CASE Enqueue(ms)
        <3>1. PICK t \in Seq(Messages) :
                accepted' = accepted \cup ToSet(t) /\ ToSet(t) \subseteq ToSet(ms)
            BY <1>0, <2>4, <2>5, EnqueueTakes
        <3>2. \A m \in ToSet(t) : handled[m.id] = 0
            BY <2>2, <2>4, <3>1
        <3> QED
            BY <3>1, <3>2
    <2>6. CASE SendNow(ms)
        <3>1. accepted' = accepted \cup {}
            BY <2>6 DEF SendNow
        <3> QED
            BY <3>1
    <2> QED
        BY <2>3, <2>5, <2>6
<1>4. CASE BrokerPublishes
    <2>1. PICK f \in Feed : BrokerTakes(f)
        BY <1>4 DEF BrokerPublishes
    <2>2. UNCHANGED <<handled, alerted>>
        BY <2>1, Taking
    <2> QED
        BY <1>2, <1>3, <2>1, <2>2
<1>5. CASE BrokerSubscribes
    <2>1. PICK ms \in SetToSeqs(RetainedFor(Head(request))) : Enqueue(ms)
        BY <1>5 DEF BrokerSubscribes
    <2>2. ms \in Seq(Messages) /\ ToSet(ms) \subseteq retained
        BY <1>0, RetainedSent DEF Identity
    <2>3. PICK t \in Seq(Messages) :
            accepted' = accepted \cup ToSet(t) /\ ToSet(t) \subseteq ToSet(ms)
        BY <1>0, <2>1, <2>2, EnqueueTakes
    <2>4. \A m \in ToSet(t) : m \in accepted \/ handled[m.id] = 0
        <3> SUFFICES ASSUME NEW m \in ToSet(t) PROVE m \in accepted \/ handled[m.id] = 0
            OBVIOUS
        <3>1. m \in retained /\ m.id \in Ids
            BY <1>0, <2>2, <2>3 DEF TypeOK, Messages
        <3>2. handled[m.id] \in Nat
            BY <1>0, <3>1 DEF TypeOK
        <3> QED
            BY <1>0, <3>1, <3>2 DEF Identity
    <2>5. UNCHANGED <<handled, alerted>>
        BY <1>5 DEF BrokerSubscribes
    <2> QED
        BY <1>2, <2>3, <2>4, <2>5
<1>6. CASE OnMessage
    <2> PICK n : n = Head(wire)
        OBVIOUS
    <2>1. n \in Messages
        BY <1>0, <1>6, WireHead DEF OnMessage
    <2>2. n.id \in Ids
        BY <2>1 DEF Messages
    <2>3. /\ accepted' = accepted /\ alerted \subseteq alerted'
          /\ handled' = [handled EXCEPT ![n.id] = @ + 1]
        BY <1>6 DEF OnMessage
    <2>4. ASSUME NEW m \in accepted, DealtWith(m) PROVE DealtWith(m)'
        <3>1. m.id \in Ids /\ handled[m.id] \in Nat
            BY <1>0 DEF TypeOK, Messages
        <3>2. handled'[m.id] > 0
            BY <1>0, <2>2, <2>3, <2>4, <3>1 DEF DealtWith, TypeOK
        <3> QED
            BY <2>3, <2>4, <3>2 DEF DealtWith
    <2> QED
        BY <2>3, <2>4
<1>7. CASE BrokerAcked \/ Drop \/ Run \/ Connected \/ OnMessageInterrupted
           \/ OnMessageRaises \/ Interrupt \/ Tick \/ Restart \/ UNCHANGED vars
    <2>1. UNCHANGED <<accepted, handled>> /\ alerted \subseteq alerted'
        BY <1>7 DEF BrokerAcked, Drop, Run, Connected, OnMessageInterrupted,
                    OnMessageRaises, Interrupt, Tick, Restart, vars
    <2> QED
        BY <1>1, <2>1
<1> QED
    BY <1>4, <1>5, <1>6, <1>7 DEF Next

\* A step of the subscriber, of its broker or of a publisher is a step of Custody,
\* or none.
LEMMA StepForwards ==
    IInv /\ IInv' /\ Located /\ Located' /\ [Next]_vars => [Promise!Next]_Holder
<1> SUFFICES ASSUME IInv, IInv', Located, Located', [Next]_vars PROVE Promise!Next
    OBVIOUS
<1>1. ASSUME NEW i \in Ids
      PROVE  /\ Holder'[i] \in Promise!Stages
             /\ Holder'[i] = Holder[i] \/ <<Holder[i], Holder'[i]>> \in Promise!Forward
    <2>1. CASE \E m \in accepted : m.id = i
        <3>1. PICK m \in accepted : m.id = i
            BY <2>1
        <3>2. m \in accepted' /\ (DealtWith(m) => DealtWith(m)')
            BY OnlyForward
        <3>3. Holder[i] = (IF DealtWith(m) THEN "done" ELSE "broker")
            BY <3>1 DEF Located
        <3>4. Holder'[i] = (IF DealtWith(m)' THEN "done" ELSE "broker")
            BY <3>1, <3>2 DEF Located
        <3> QED
            BY <3>2, <3>3, <3>4 DEF Promise!Stages, Promise!Forward
    <2>2. CASE \A m \in accepted : m.id # i
        <3>1. Holder[i] = "new"
            BY <2>2 DEF Located
        <3>2. CASE \A m \in accepted' : m.id # i
            <4>1. Holder'[i] = "new"
                BY <3>2 DEF Located
            <4> QED
                BY <3>1, <4>1 DEF Promise!Stages
        <3>3. CASE \E m \in accepted' : m.id = i
            <4>1. PICK m \in accepted' : m.id = i
                BY <3>3
            <4>2. ~DealtWith(m)'
                BY <2>2, <4>1, OnlyForward
            <4>3. Holder'[i] = "broker"
                BY <4>1, <4>2 DEF Located
            <4> QED
                BY <3>1, <4>3 DEF Promise!Stages, Promise!Forward
        <3> QED
            BY <3>2, <3>3
    <2> QED
        BY <2>1, <2>2
<1>2. Holder' \in [Ids -> Promise!Stages]
    <2>1. Holder' = [i \in Ids |-> Holder'[i]]
        BY DEF Holder
    <2> QED
        BY <1>1, <2>1
<1> QED
    BY <1>1, <1>2 DEF Promise!Next

\* The subscriber and its persistent session implement Custody, for every feed,
\* queue bound and number of failures: no message is handled before the session
\* answers for it, and none leaves the session unhandled.
THEOREM Refinement == Spec => ImplementsCustody
<1>1. Init => Promise!Init
    BY DEF Init, Promise!Init, Holder
<1> QED
    BY <1>1, Invariance, WhereItIs, StepForwards, PTL DEF Spec, ImplementsCustody, Promise!Spec

-----------------------------------------------------------------------------
(* What a program that feeds the session can rely on.                         *)

\* A message that is published becomes known under the next id, and nothing else
\* becomes known or is held with it.
LEMMA TakingAdds ==
    \A f \in Feed : IInv /\ BrokerTakes(f) =>
        /\ Known' \subseteq Known \cup {MessageOf(f)}
        /\ \A k \in DOMAIN pending' : pending'[k] \in ToSet(pending) \cup {MessageOf(f)}
        /\ UNCHANGED handled
<1> SUFFICES ASSUME NEW f \in Feed, IInv, BrokerTakes(f)
             PROVE  /\ Known' \subseteq Known \cup {MessageOf(f)}
                    /\ ToSet(pending') \subseteq ToSet(pending) \cup {MessageOf(f)}
                    /\ UNCHANGED handled
    BY DEF ToSet
<1> DEFINE m == MessageOf(f)
<1>1. TypeOK /\ m \in Messages /\ pending \in Seq(Messages) /\ wire \in Seq(Messages)
    BY MessageType DEF IInv, TypeOK
<1>2. PICK ms \in Copies(m) : IF f.qos = 1 THEN Enqueue(ms) ELSE SendNow(ms)
    BY Taking
<1>3. ms \in Seq(Messages) /\ ToSet(ms) \subseteq {m}
    BY <1>1, <1>2, CopiesAlike
<1>4. UNCHANGED handled /\ retained' \subseteq retained \cup {m}
    BY Taking
<1> HIDE DEF m
<1>5. CASE Enqueue(ms)
    <2>1. PICK t \in Seq(Messages) :
            /\ pending' = pending \o t
            /\ wire' = IF conn THEN wire \o t ELSE wire
            /\ accepted' = accepted \cup ToSet(t)
            /\ ToSet(t) \subseteq ToSet(ms)
        BY <1>1, <1>3, <1>5, EnqueueTakes
    <2>2. /\ ToSet(pending') \subseteq ToSet(pending) \cup ToSet(t)
          /\ ToSet(wire') \subseteq ToSet(wire) \cup ToSet(t)
        BY <1>1, <2>1, ToSetJoined
    <2> QED
        BY <1>3, <1>4, <2>1, <2>2 DEF Known, m
<1>6. CASE SendNow(ms)
    <2>1. /\ wire' = (IF conn THEN wire \o ms ELSE wire)
          /\ pending' = pending /\ accepted' = accepted
        BY <1>6 DEF SendNow
    <2>2. ToSet(wire') \subseteq ToSet(wire) \cup ToSet(ms)
        BY <1>1, <1>3, <2>1, ToSetJoined
    <2> QED
        BY <1>3, <1>4, <2>1, <2>2 DEF Known, m
<1> QED
    BY <1>2, <1>5, <1>6

\* The ends of a sequence hold nothing it does not hold.
LEMMA ToSetShorter ==
    ASSUME NEW S, NEW s \in Seq(S), NEW n \in 0..Len(s)
    PROVE  ToSet(SubSeq(s, n + 1, Len(s))) \subseteq ToSet(s)
<1>1. /\ SubSeq(s, n + 1, Len(s)) \in Seq(S) /\ Len(s) \in Nat
      /\ Len(SubSeq(s, n + 1, Len(s))) = Len(s) - n
      /\ \A i \in 1..(Len(s) - n) : SubSeq(s, n + 1, Len(s))[i] = s[i + n]
    BY Rest
<1>2. \A i \in 1..(Len(s) - n) : i + n \in DOMAIN s
    BY <1>1
<1> QED
    BY <1>1, <1>2 DEF ToSet

LEMMA ToSetTail ==
    ASSUME NEW S, NEW s \in Seq(S), s # <<>>
    PROVE  ToSet(Tail(s)) \subseteq ToSet(s)
<1>1. s \in Seq(ToSet(s))
    BY DEF ToSet
<1>2. Tail(s) \in Seq(ToSet(s))
    BY <1>1, HeadTailProperties
<1> QED
    BY <1>2 DEF ToSet

\* While nothing is published nothing becomes known, and the queue gains only
\* messages the broker retains.
LEMMA NothingInvented ==
    IInv /\ [Next]_vars /\ published' = published =>
        /\ Known' \subseteq Known /\ retained' = retained
        /\ \A k \in DOMAIN pending' : pending'[k] \in ToSet(pending) \cup retained
<1> SUFFICES ASSUME IInv, [Next]_vars, published' = published
             PROVE  /\ Known' \subseteq Known /\ retained' = retained
                    /\ ToSet(pending') \subseteq ToSet(pending) \cup retained
    BY DEF ToSet
<1> USE DEF clientVars, memoryVars, sessionVars, feedVars, historyVars
<1>0. /\ TypeOK /\ Aligned /\ Session /\ Identity
      /\ pending \in Seq(Messages) /\ wire \in Seq(Messages)
    BY DEF IInv, TypeOK
<1>1. ASSUME UNCHANGED <<accepted, retained>>, ToSet(wire') \subseteq Known,
             ToSet(pending') \subseteq ToSet(pending)
      PROVE  /\ Known' \subseteq Known /\ retained' = retained
             /\ ToSet(pending') \subseteq ToSet(pending) \cup retained
    BY <1>1 DEF Known
<1>2. ToSet(<<>>) = {} /\ ToSet(wire) \subseteq Known /\ ToSet(pending) \subseteq Known
    <2>1. ToSet(pending) \subseteq accepted
        BY <1>0 DEF Session, ToSet
    <2>2. ToSet(<<>>) = {}
        BY EmptySeq DEF ToSet
    <2> QED
        BY <2>1, <2>2 DEF Known
<1>3. CASE BrokerPublishes
    <2>1. published' = published + 1 /\ published \in Nat
        BY <1>0, <1>3, Taking, BoundsAssumption DEF BrokerPublishes, TypeOK
    <2> QED
        BY <2>1
<1>4. CASE BrokerSubscribes
    <2>1. PICK ms \in SetToSeqs(RetainedFor(Head(request))) : Enqueue(ms)
        BY <1>4 DEF BrokerSubscribes
    <2>2. ms \in Seq(Messages) /\ ToSet(ms) \subseteq retained
        BY <1>0, RetainedSent DEF Identity
    <2>3. PICK t \in Seq(Messages) :
            /\ pending' = pending \o t
            /\ wire' = IF conn THEN wire \o t ELSE wire
            /\ accepted' = accepted \cup ToSet(t)
            /\ ToSet(t) \subseteq ToSet(ms)
        BY <1>0, <2>1, <2>2, EnqueueTakes
    <2>4. /\ ToSet(pending') \subseteq ToSet(pending) \cup ToSet(t)
          /\ ToSet(wire') \subseteq ToSet(wire) \cup ToSet(t)
        BY <1>0, <2>3, ToSetJoined
    <2>5. retained' = retained
        BY <1>4 DEF BrokerSubscribes
    <2> QED
        BY <2>2, <2>3, <2>4, <2>5 DEF Known
<1>5. CASE BrokerAcked
    <2>1. pending # <<>>
        BY <1>0, <1>5, EmptySeq DEF TypeOK, BrokerAcked
    <2> QED
        BY <1>0, <1>1, <1>2, <1>5, <2>1, ToSetTail DEF BrokerAcked
<1>6. CASE Drop \/ Connected
    BY <1>1, <1>2, <1>6 DEF Drop, Connected
<1>7. CASE OnMessage
    BY <1>0, <1>1, <1>2, <1>7, ToSetTail DEF OnMessage
<1>8. CASE OnMessageInterrupted \/ OnMessageRaises \/ Interrupt
    <2>1. LeaveConnection /\ UNCHANGED <<accepted, retained>>
        BY <1>8 DEF OnMessageInterrupted, OnMessageRaises, Interrupt
    <2>2. ToSet(pending') \subseteq ToSet(pending)
        BY <1>0, <2>1, ToSetShorter DEF LeaveConnection, TypeOK
    <2> QED
        BY <1>1, <1>2, <2>1, <2>2 DEF LeaveConnection
<1>9. CASE Run \/ Tick \/ Restart \/ UNCHANGED vars
    BY <1>1, <1>2, <1>9 DEF Run, Tick, Restart, vars
<1> QED
    BY <1>3, <1>4, <1>5, <1>6, <1>7, <1>8, <1>9 DEF Next

\* What has been handled stays handled, and a message of QoS 1 is handled for the
\* first time only while the session holds it.
LEMMA HandlingSteps ==
    IInv /\ [Next]_vars =>
        \A i \in Ids :
            /\ handled[i] > 0 => handled'[i] > 0
            /\ handled'[i] > 0 =>
                  \/ handled[i] > 0
                  \/ \E m \in Known : m.id = i /\ (m.qos = 1 => m \in ToSet(pending))
<1> SUFFICES ASSUME IInv, [Next]_vars, NEW i \in Ids
             PROVE  /\ handled[i] > 0 => handled'[i] > 0
                    /\ handled'[i] > 0 =>
                          \/ handled[i] > 0
                          \/ \E m \in Known : m.id = i /\ (m.qos = 1 => m \in ToSet(pending))
    OBVIOUS
<1>0. TypeOK /\ Aligned
    BY DEF IInv
<1>1. CASE OnMessage
    <2> PICK m : m = Head(wire)
        OBVIOUS
    <2>1. m \in Messages /\ m \in ToSet(wire) /\ (m.qos = 1 => m \in ToSet(pending))
        <3>1. /\ m \in Messages /\ m \in ToSet(wire)
              /\ m.qos = 1 => acks + 1 \in 1..Len(pending) /\ pending[acks + 1] = m
            BY <1>0, <1>1, WireHead DEF OnMessage
        <3> QED
            BY <1>0, <3>1 DEF TypeOK, ToSet
    <2>2. handled' = [handled EXCEPT ![m.id] = @ + 1] /\ handled \in [Ids -> Nat]
        BY <1>0, <1>1 DEF OnMessage, TypeOK
    <2>3. m \in Known
        BY <2>1 DEF Known
    <2> QED
        BY <2>1, <2>2, <2>3
<1>2. CASE BrokerPublishes
    BY <1>2, Taking DEF BrokerPublishes
<1>3. CASE BrokerSubscribes \/ BrokerAcked \/ Drop \/ Run \/ Connected \/ OnMessageInterrupted
           \/ OnMessageRaises \/ Interrupt \/ Tick \/ Restart \/ UNCHANGED vars
    BY <1>3 DEF BrokerSubscribes, BrokerAcked, Drop, Run, Connected, OnMessageInterrupted,
                OnMessageRaises, Interrupt, Tick, Restart, vars, historyVars
<1> QED
    BY <1>1, <1>2, <1>3 DEF Next

-----------------------------------------------------------------------------
(* The statuses a quiet connection leaves on the screen.                      *)

\* r is the last message of its topic in s.
LastOn(s, r) ==
    \E i \in DOMAIN s : s[i] = r /\ \A j \in DOMAIN s : j > i => s[j].topic # r.topic

NoneOn(s, t) == \A i \in DOMAIN s : s[i].topic # t

\* on_connect's SUBSCRIBE to the wildcard has not reached the broker.
Subscribing == request = <<"all", "temp">>

\* The subscriber has the retained message r on its screen, or will have it when the
\* wire is empty, or will be sent it again; or the session has refused it.
UpToDate(r) ==
    \/ r.topic \in missed
    \/ Subscribing
    \/ LastOn(wire, r)
    \/ NoneOn(wire, r.topic) /\ shown[r.topic] = r.id

\* There is a connection only while the loop runs, and it has subscribed or will.
Listening ==
    /\ request # <<>> => conn
    /\ conn => pc = "running" /\ ("all" \in subs \/ Subscribing)

\* What is retained is a status, one for each topic.
Statuses ==
    /\ \A r \in retained : r.topic \in StatusTopics
    /\ \A a, b \in retained : a.topic = b.topic => a = b

Converging == Listening /\ Statuses /\ (conn => \A r \in retained : UpToDate(r))

\* What the end of a longer sequence says of the last message of a topic.
LEMMA LastJoined ==
    ASSUME NEW s \in Seq(Messages), NEW t \in Seq(Messages), NEW r \in Messages
    PROVE  /\ LastOn(t, r) => LastOn(s \o t, r)
           /\ LastOn(s, r) /\ NoneOn(t, r.topic) => LastOn(s \o t, r)
           /\ NoneOn(s, r.topic) /\ NoneOn(t, r.topic) => NoneOn(s \o t, r.topic)
<1>1. /\ Len(s) \in Nat /\ Len(t) \in Nat /\ DOMAIN s = 1..Len(s) /\ DOMAIN t = 1..Len(t)
      /\ DOMAIN (s \o t) = 1..(Len(s) + Len(t))
    BY Joined
<1>2. ASSUME NEW i \in DOMAIN s PROVE i \in DOMAIN (s \o t) /\ (s \o t)[i] = s[i]
    BY <1>1, Joined
<1>3. ASSUME NEW i \in DOMAIN (s \o t), i > Len(s)
      PROVE  i - Len(s) \in DOMAIN t /\ (s \o t)[i] = t[i - Len(s)]
    <2>1. i \in (Len(s) + 1)..(Len(s) + Len(t)) /\ i - Len(s) \in 1..Len(t)
        BY <1>1, <1>3
    <2> QED
        BY <1>1, <2>1, Joined
<1>4. ASSUME LastOn(t, r) PROVE LastOn(s \o t, r)
    <2>1. PICK i \in DOMAIN t : t[i] = r /\ \A j \in DOMAIN t : j > i => t[j].topic # r.topic
        BY <1>4 DEF LastOn
    <2>2. i + Len(s) \in DOMAIN (s \o t) /\ i + Len(s) > Len(s) /\ (i + Len(s)) - Len(s) = i
        BY <1>1, <2>1
    <2>3. (s \o t)[i + Len(s)] = r
        BY <1>3, <2>1, <2>2
    <2>4. ASSUME NEW j \in DOMAIN (s \o t), j > i + Len(s) PROVE (s \o t)[j].topic # r.topic
        <3>1. j > Len(s) /\ j - Len(s) > i
            BY <1>1, <2>1, <2>4
        <3> QED
            BY <1>3, <2>1, <3>1
    <2> QED
        BY <2>2, <2>3, <2>4 DEF LastOn
<1>5. ASSUME LastOn(s, r), NoneOn(t, r.topic) PROVE LastOn(s \o t, r)
    <2>1. PICK i \in DOMAIN s : s[i] = r /\ \A j \in DOMAIN s : j > i => s[j].topic # r.topic
        BY <1>5 DEF LastOn
    <2>2. ASSUME NEW j \in DOMAIN (s \o t), j > i PROVE (s \o t)[j].topic # r.topic
        <3>1. CASE j \in DOMAIN s
            BY <1>2, <2>1, <2>2, <3>1
        <3>2. CASE j > Len(s)
            BY <1>3, <1>5, <3>2 DEF NoneOn
        <3> QED
            BY <1>1, <3>1, <3>2
    <2> QED
        BY <1>2, <2>1, <2>2 DEF LastOn
<1>6. ASSUME NoneOn(s, r.topic), NoneOn(t, r.topic) PROVE NoneOn(s \o t, r.topic)
    <2>1. ASSUME NEW j \in DOMAIN (s \o t) PROVE (s \o t)[j].topic # r.topic
        <3>1. CASE j \in DOMAIN s
            BY <1>2, <1>6, <3>1 DEF NoneOn
        <3>2. CASE j > Len(s)
            BY <1>3, <1>6, <3>2 DEF NoneOn
        <3> QED
            BY <1>1, <3>1, <3>2
    <2> QED
        BY <2>1 DEF NoneOn
<1> QED
    BY <1>4, <1>5, <1>6

\* What the broker offers on a connection is sent from the front; the topics of the
\* rest are missed, and a topic missed before is missed still or now sent.
LEMMA EnqueueShows ==
    ASSUME TypeOK, conn, NEW ms \in Seq(Messages), Enqueue(ms)
    PROVE  \E t \in Seq(Messages) :
              /\ wire' = wire \o t /\ Len(t) <= Len(ms)
              /\ \A i \in DOMAIN t : i \in DOMAIN ms /\ t[i] = ms[i]
              /\ \A i \in DOMAIN ms : i \in DOMAIN t \/ ms[i].topic \in missed'
              /\ \A p \in missed : p \in missed' \/ \E i \in DOMAIN t : t[i].topic = p
<1> DEFINE room == MaxPending - Len(pending)
           n    == IF Len(ms) < room THEN Len(ms) ELSE room
           t    == SubSeq(ms, 1, n)
           rest == SubSeq(ms, Len(t) + 1, Len(ms))
<1>1. Len(pending) \in Nat /\ Len(pending) <= MaxPending /\ MaxPending \in Nat /\ Len(ms) \in Nat
    BY BoundsAssumption DEF TypeOK
<1>2. n \in 0..Len(ms)
    BY <1>1
<1>3. t \in Seq(Messages) /\ Len(t) = n /\ \A i \in 1..n : t[i] = ms[i]
    BY <1>2, Beginning
<1>4. /\ wire' = wire \o t
      /\ missed' = (missed \ {m.topic : m \in ToSet(t)}) \cup {m.topic : m \in ToSet(rest)}
    BY DEF Enqueue
<1>5. DOMAIN t = 1..n /\ DOMAIN ms = 1..Len(ms)
    BY <1>3
<1>6. Len(t) \in 0..Len(ms)
    BY <1>2, <1>3
<1> HIDE DEF t, n, room
<1>7. ASSUME NEW i \in DOMAIN ms, i \notin DOMAIN t PROVE ms[i].topic \in missed'
    <2>1. i \in (Len(t) + 1)..Len(ms)
        BY <1>1, <1>3, <1>5, <1>6, <1>7
    <2>2. /\ rest \in Seq(Messages) /\ Len(rest) = Len(ms) - Len(t)
          /\ \A j \in 1..(Len(ms) - Len(t)) : rest[j] = ms[j + Len(t)]
        BY <1>6, Rest
    <2> HIDE DEF rest
    <2>3. i - Len(t) \in 1..(Len(ms) - Len(t)) /\ (i - Len(t)) + Len(t) = i
        BY <1>1, <1>6, <2>1
    <2>4. rest[i - Len(t)] = ms[i]
        BY <2>2, <2>3
    <2>5. DOMAIN rest = 1..(Len(ms) - Len(t))
        BY <2>2
    <2>6. ms[i] \in ToSet(rest)
        BY <2>3, <2>4, <2>5 DEF ToSet
    <2> QED
        BY <1>4, <2>6
<1>8. ASSUME NEW p \in missed, p \notin missed' PROVE \E i \in DOMAIN t : t[i].topic = p
    <2> HIDE DEF rest
    <2>1. p \in {m.topic : m \in ToSet(t)}
        BY <1>4, <1>8
    <2> QED
        BY <2>1 DEF ToSet
<1>9. \A i \in DOMAIN t : i \in DOMAIN ms /\ t[i] = ms[i]
    BY <1>1, <1>2, <1>3, <1>5
<1>10. t \in Seq(Messages) /\ wire' = wire \o t /\ Len(t) <= Len(ms)
    BY <1>1, <1>3, <1>4, <1>6
<1>11. \A i \in DOMAIN ms : i \in DOMAIN t \/ ms[i].topic \in missed'
    BY <1>7
<1>12. \A p \in missed : p \in missed' \/ \E i \in DOMAIN t : t[i].topic = p
    BY <1>8
<1> HIDE DEF rest
<1> QED
    BY <1>9, <1>10, <1>11, <1>12

\* A message offered once is sent last of its topic, or its topic is missed.
LEMMA Offered ==
    ASSUME TypeOK, conn, NEW ms \in Seq(Messages), Enqueue(ms), NEW k \in DOMAIN ms,
           \A j \in DOMAIN ms : ms[j].topic = ms[k].topic => j = k
    PROVE  ms[k].topic \in missed' \/ LastOn(wire', ms[k])
<1>1. PICK t \in Seq(Messages) :
        /\ wire' = wire \o t
        /\ \A i \in DOMAIN t : i \in DOMAIN ms /\ t[i] = ms[i]
        /\ \A i \in DOMAIN ms : i \in DOMAIN t \/ ms[i].topic \in missed'
    BY EnqueueShows
<1>2. ms[k] \in Messages
    OBVIOUS
<1>3. CASE k \in DOMAIN t
    <2>1. ASSUME NEW j \in DOMAIN t, j > k PROVE t[j].topic # ms[k].topic
        <3>1. j # k
            BY <2>1, <1>3
        <3> QED
            BY <1>1, <3>1
    <2>2. LastOn(t, ms[k])
        BY <1>1, <1>3, <2>1 DEF LastOn
    <2> QED
        BY <1>1, <1>2, <2>2, LastJoined DEF TypeOK
<1> QED
    BY <1>1, <1>3

\* Messages of other topics leave a status on the screen, or on its way to it.
LEMMA Passed ==
    ASSUME TypeOK, NEW r \in Messages, UpToDate(r),
           NEW t \in Seq(Messages), wire' = wire \o t, NoneOn(t, r.topic),
           r.topic \in missed => r.topic \in missed',
           Subscribing => Subscribing', shown' = shown
    PROVE  UpToDate(r)'
<1>1. LastOn(wire, r) => LastOn(wire', r)
    BY LastJoined DEF TypeOK
<1>2. NoneOn(wire, r.topic) => NoneOn(wire', r.topic)
    BY LastJoined DEF TypeOK
<1>3. LastOn(wire, r)' = LastOn(wire', r) /\ NoneOn(wire, r.topic)' = NoneOn(wire', r.topic)
    BY DEF LastOn, NoneOn
<1> QED
    BY <1>1, <1>2, <1>3 DEF UpToDate

LEMMA NotOffered ==
    ASSUME TypeOK, conn, NEW ms \in Seq(Messages), Enqueue(ms),
           NEW r \in Messages, UpToDate(r), NoneOn(ms, r.topic),
           Subscribing => Subscribing', shown' = shown
    PROVE  UpToDate(r)'
<1>1. PICK t \in Seq(Messages) :
        /\ wire' = wire \o t
        /\ \A i \in DOMAIN t : i \in DOMAIN ms /\ t[i] = ms[i]
        /\ \A p \in missed : p \in missed' \/ \E i \in DOMAIN t : t[i].topic = p
    BY EnqueueShows
<1>2. NoneOn(t, r.topic)
    BY <1>1 DEF NoneOn
<1>3. r.topic \in missed => r.topic \in missed'
    BY <1>1, <1>2 DEF NoneOn
<1> QED
    BY <1>1, <1>2, <1>3, Passed

\* The order in which the broker sends a subscription's retained messages names
\* each of them, once.
LEMMA EachOnce ==
    ASSUME NEW S, IsFiniteSet(S), NEW ms \in SetToSeqs(S)
    PROVE  /\ \A r \in S : \E k \in DOMAIN ms : ms[k] = r
           /\ \A i, j \in DOMAIN ms : ms[i] = ms[j] => i = j
<1>1. PICK n : n = Cardinality(S)
    OBVIOUS
<1>2. n \in Nat
    BY <1>1, FS_CardinalityType
<1>3. /\ ms \in [1..n -> S]
      /\ \A i, j \in 1..n : i # j => ms[i] # ms[j]
    BY <1>1 DEF SetToSeqs
<1>4. IsFiniteSet(1..n) /\ Cardinality(1..n) = n
    BY <1>2, FS_Interval
<1>5. ms \in Injection(1..n, S)
    BY <1>3 DEF Injection, IsInjective
<1>6. ms \in Surjection(1..n, S)
    BY <1>1, <1>4, <1>5, FS_Injection
<1> QED
    BY <1>3, <1>6 DEF Surjection

\* There is at most one retained message of a topic, and only of a status topic.
LEMMA StatusesStep == IInv /\ Statuses /\ [Next]_vars => Statuses'
<1> SUFFICES ASSUME IInv, Statuses, [Next]_vars PROVE Statuses'
    OBVIOUS
<1>1. CASE BrokerPublishes
    <2>1. PICK f \in Feed : BrokerTakes(f)
        BY <1>1 DEF BrokerPublishes
    <2>2. retained' = IF f.retain
                      THEN {r \in retained : r.topic # f.topic} \cup {MessageOf(f)}
                      ELSE retained
        BY <2>1, Taking
    <2>3. f.retain => f.topic \in StatusTopics
        BY FeedAssumption
    <2>4. MessageOf(f).topic = f.topic
        BY DEF MessageOf
    <2> QED
        BY <2>2, <2>3, <2>4 DEF Statuses
<1>2. CASE ~BrokerPublishes
    <2>1. retained' = retained
        BY <1>2 DEF Next, BrokerSubscribes, BrokerAcked, Drop, Run, Connected, OnMessage,
                    OnMessageInterrupted, OnMessageRaises, Interrupt, Tick, Restart,
                    vars, feedVars
    <2> QED
        BY <2>1 DEF Statuses
<1> QED
    BY <1>1, <1>2

\* SUBSCRIBE packets travel on a connection, which the running process has made.
LEMMA ListeningStep == IInv /\ Listening /\ [Next]_vars => Listening'
<1> SUFFICES ASSUME IInv, Listening, [Next]_vars PROVE Listening'
    OBVIOUS
<1> USE DEF clientVars, memoryVars, sessionVars, feedVars, historyVars, Listening, Subscribing
<1>0. request \in {<<>>, <<"temp">>, <<"all", "temp">>}
    BY DEF IInv, TypeOK
<1>1. CASE BrokerPublishes
    <2>1. UNCHANGED <<clientVars, subs>>
        BY <1>1, Taking DEF BrokerPublishes
    <2> QED
        BY <2>1
<1>2. CASE BrokerSubscribes
    <2>1. /\ request # <<>> /\ request' = Tail(request) /\ subs' = subs \cup {Head(request)}
          /\ UNCHANGED <<pc, conn>>
        BY <1>2 DEF BrokerSubscribes
    <2>2. request = <<"all", "temp">> => Head(request) = "all"
        OBVIOUS
    <2> QED
        BY <1>0, <2>1, <2>2
<1>3. CASE BrokerAcked \/ OnMessage \/ Tick \/ UNCHANGED vars
    <2>1. UNCHANGED <<pc, conn, request, subs>>
        BY <1>3 DEF BrokerAcked, OnMessage, Tick, vars
    <2> QED
        BY <2>1
<1>4. CASE Drop \/ OnMessageInterrupted \/ OnMessageRaises \/ Interrupt
    BY <1>4 DEF Drop, OnMessageInterrupted, OnMessageRaises, Interrupt, LeaveConnection
<1>5. CASE Connected
    BY <1>5 DEF Connected
<1>6. CASE Run \/ Restart
    <2>1. pc # "running" /\ UNCHANGED <<conn, request, subs>>
        BY <1>6 DEF Run, Restart
    <2> QED
        BY <2>1
<1> QED
    BY <1>1, <1>2, <1>3, <1>4, <1>5, <1>6 DEF Next

\* A publisher's message: a status is sent to the connection that has subscribed, or
\* refused; a reading, and a status of another line, change nothing for it.
LEMMA TakenUpToDate ==
    ASSUME IInv, Listening, Statuses, conn, \A r \in retained : UpToDate(r),
           NEW f \in Feed, BrokerTakes(f)
    PROVE  \A r \in retained' : UpToDate(r)'
<1> PICK m : m = MessageOf(f)
    OBVIOUS
<1>0. TypeOK /\ Statuses /\ retained \subseteq Messages
    BY DEF IInv, TypeOK
<1>1. m \in Messages /\ m.topic = f.topic
    BY <1>0, MessageType DEF MessageOf
<1>2. /\ retained' = IF f.retain THEN {r \in retained : r.topic # f.topic} \cup {m} ELSE retained
      /\ shown' = shown /\ request' = request
    BY Taking DEF clientVars
<1>3. Subscribing' = Subscribing
    BY <1>2 DEF Subscribing
<1>4. PICK ms \in Copies(m) : IF f.qos = 1 THEN Enqueue(ms) ELSE SendNow(ms)
    BY Taking
<1>5. ms \in Seq(Messages) /\ ToSet(ms) \subseteq {m}
    BY <1>1, CopiesAlike
<1>6. ASSUME NEW r \in retained, r.topic # f.topic PROVE UpToDate(r)'
    <2>1. NoneOn(ms, r.topic)
        BY <1>1, <1>5, <1>6 DEF NoneOn, ToSet
    <2>2. CASE Enqueue(ms)
        BY <1>0, <1>2, <1>3, <1>5, <2>1, <2>2, NotOffered
    <2>3. CASE SendNow(ms)
        <3>1. wire' = wire \o ms /\ missed' = missed
            BY <2>3 DEF SendNow
        <3> QED
            BY <1>0, <1>2, <1>3, <1>5, <2>1, <3>1, Passed
    <2> QED
        BY <1>4, <2>2, <2>3
<1>7. CASE f.retain
    <2>1. f.qos = 1 /\ f.topic \in StatusTopics /\ f.topic \notin TempTopics
        BY <1>7, FeedAssumption
    <2>2. CASE Subscribing
        BY <1>2, <1>3, <1>6, <1>7, <2>2 DEF UpToDate
    <2>3. CASE ~Subscribing
        <3>1. "all" \in subs
            BY <2>3 DEF Listening
        <3>2. "all" \in Matching(m.topic) /\ "temp" \notin Matching(m.topic)
            BY <1>1, <2>1, <3>1 DEF Matching
        <3>3. ms = <<m>>
            BY <1>4, <3>2 DEF Copies
        <3>4. 1 \in DOMAIN ms /\ ms[1] = m /\ \A j \in DOMAIN ms : j = 1
            BY <3>3
        <3>5. Enqueue(ms)
            BY <1>4, <2>1
        <3>6. m.topic \in missed' \/ LastOn(wire', m)
            BY <1>0, <1>5, <3>4, <3>5, Offered
        <3>7. UpToDate(m)'
            BY <3>6 DEF UpToDate, LastOn
        <3> QED
            BY <1>2, <1>6, <1>7, <3>7
    <2> QED
        BY <2>2, <2>3
<1>8. CASE ~f.retain
    <2>1. \A r \in retained : r.topic # f.topic
        BY <1>0, <1>8, FeedAssumption DEF Statuses
    <2> QED
        BY <1>2, <1>6, <1>8, <2>1
<1> QED
    BY <1>7, <1>8

\* The broker's answer to SUBSCRIBE: the wildcard matches every status retained, and
\* each is sent or refused; the filter of the temperatures matches none.
LEMMA SubscribedUpToDate ==
    ASSUME IInv, Listening, Statuses, \A r \in retained : UpToDate(r), conn, BrokerSubscribes
    PROVE  \A r \in retained' : UpToDate(r)'
<1> PICK s : s = Head(request)
    OBVIOUS
<1>0. TypeOK /\ IsFiniteSet(retained) /\ retained \subseteq Messages
    BY DEF IInv, Identity, TypeOK
<1>1. /\ request # <<>> /\ request' = Tail(request)
      /\ shown' = shown /\ retained' = retained
    BY DEF BrokerSubscribes, feedVars
<1>2. PICK ms \in SetToSeqs(RetainedFor(s)) : Enqueue(ms)
    BY DEF BrokerSubscribes
<1>3. ms \in Seq(Messages) /\ IsFiniteSet(RetainedFor(s)) /\ RetainedFor(s) \subseteq retained
    <2>1. RetainedFor(s) \subseteq retained
        BY DEF RetainedFor
    <2>2. IsFiniteSet(RetainedFor(s))
        BY <1>0, <2>1, FS_Subset
    <2>3. ms \in Seq(Messages)
        BY <1>0, <1>2, RetainedSent
    <2> QED
        BY <2>1, <2>2, <2>3
<1>4. /\ \A r \in RetainedFor(s) : \E k \in DOMAIN ms : ms[k] = r
      /\ \A i, j \in DOMAIN ms : ms[i] = ms[j] => i = j
    BY <1>2, <1>3, EachOnce
<1>5. \A i \in DOMAIN ms : ms[i] \in RetainedFor(s)
    BY <1>2 DEF SetToSeqs
<1>6. CASE request = <<"all", "temp">>
    <2>1. s = "all"
        BY <1>6
    <2>2. RetainedFor(s) = retained
        BY <2>1 DEF RetainedFor
    <2>3. ASSUME NEW r \in retained PROVE UpToDate(r)'
        <3>1. PICK k \in DOMAIN ms : ms[k] = r
            BY <1>4, <2>2
        <3>2. \A j \in DOMAIN ms : ms[j].topic = r.topic => j = k
            BY <1>4, <1>5, <2>2, <3>1 DEF Statuses
        <3>3. r.topic \in missed' \/ LastOn(wire', r)
            BY <1>0, <1>2, <1>3, <3>1, <3>2, Offered
        <3> QED
            BY <3>3 DEF UpToDate, LastOn
    <2> QED
        BY <1>1, <2>3
<1>7. CASE request = <<"temp">>
    <2>1. s = "temp" /\ ~Subscribing
        BY <1>7 DEF Subscribing
    <2>2. RetainedFor(s) = {}
        BY <2>1, FeedAssumption DEF RetainedFor, Statuses
    <2>3. ASSUME NEW r \in retained PROVE UpToDate(r)'
        <3>1. NoneOn(ms, r.topic)
            BY <1>5, <2>2 DEF NoneOn
        <3>2. r \in Messages /\ UpToDate(r)
            BY <1>0
        <3> QED
            BY <1>0, <1>1, <1>2, <1>3, <2>1, <3>1, <3>2, NotOffered
    <2> QED
        BY <1>1, <2>3
<1> QED
    BY <1>0, <1>1, <1>6, <1>7 DEF TypeOK

\* on_message: a status that was the last of its topic on the wire is on the screen.
LEMMA ReadUpToDate ==
    ASSUME IInv, \A r \in retained : UpToDate(r), OnMessage
    PROVE  \A r \in retained' : UpToDate(r)'
<1> PICK m : m = Head(wire)
    OBVIOUS
<1>0. TypeOK /\ Aligned /\ retained \subseteq Messages
    BY DEF IInv, TypeOK
<1>1. /\ wire # <<>> /\ wire' = Tail(wire) /\ shown' = [shown EXCEPT ![m.topic] = m.id]
      /\ UNCHANGED <<request, retained, missed>>
    BY DEF OnMessage, clientVars, feedVars
<1>2. m = wire[1] /\ m \in Messages /\ Len(wire) \in Nat \ {0}
    BY <1>0, <1>1, WireHead
<1>3. /\ DOMAIN wire = 1..Len(wire) /\ DOMAIN wire' = 1..(Len(wire) - 1)
      /\ \A i \in 1..(Len(wire) - 1) : wire'[i] = wire[i + 1]
    BY <1>0, <1>1, <1>2, HeadTailProperties DEF TypeOK
<1>4. ASSUME NEW r \in retained PROVE UpToDate(r)'
    <2>1. r \in Messages /\ r.topic \in Topics
        BY <1>0 DEF Messages
    <2>2. shown \in [Topics -> 0..MaxMsgs] /\ m.topic \in Topics
        BY <1>0, <1>2 DEF TypeOK, Messages
    <2>3. CASE NoneOn(wire, r.topic) /\ shown[r.topic] = r.id
        <3>1. m.topic # r.topic
            BY <1>2, <1>3, <2>3 DEF NoneOn
        <3>2. NoneOn(wire', r.topic)
            <4>1. \A i \in 1..(Len(wire) - 1) : i + 1 \in 1..Len(wire)
                BY <1>2
            <4> QED
                BY <1>3, <2>3, <4>1 DEF NoneOn
        <3>3. shown'[r.topic] = r.id
            BY <1>1, <2>1, <2>2, <2>3, <3>1
        <3> QED
            BY <3>2, <3>3 DEF UpToDate, NoneOn
    <2>4. CASE LastOn(wire, r)
        <3>1. PICK i \in 1..Len(wire) :
                wire[i] = r /\ \A j \in 1..Len(wire) : j > i => wire[j].topic # r.topic
            BY <1>3, <2>4 DEF LastOn
        <3>2. ASSUME NEW j \in 1..(Len(wire) - 1), j > i - 1 PROVE wire'[j].topic # r.topic
            <4>1. j + 1 \in 1..Len(wire) /\ j + 1 > i
                BY <1>2, <3>1, <3>2
            <4> QED
                BY <1>3, <3>1, <4>1
        <3>3. CASE i = 1
            <4>1. NoneOn(wire', r.topic)
                <5>1. \A j \in 1..(Len(wire) - 1) : j > i - 1
                    BY <3>3
                <5> QED
                    BY <1>3, <3>2, <5>1 DEF NoneOn
            <4>2. m = r
                BY <1>2, <3>1, <3>3
            <4>3. shown'[r.topic] = r.id
                BY <1>1, <2>1, <2>2, <4>2
            <4> QED
                BY <4>1, <4>3 DEF UpToDate, NoneOn
        <3>4. CASE i > 1
            <4>1. i - 1 \in 1..(Len(wire) - 1) /\ (i - 1) + 1 = i
                BY <1>2, <3>1, <3>4
            <4>2. wire'[i - 1] = r
                BY <1>3, <3>1, <4>1
            <4> QED
                BY <1>3, <3>2, <4>1, <4>2 DEF UpToDate, LastOn
        <3> QED
            BY <3>1, <3>3, <3>4
    <2>5. CASE r.topic \in missed \/ Subscribing
        BY <1>1, <2>5 DEF UpToDate, Subscribing
    <2> QED
        BY <2>3, <2>4, <2>5 DEF UpToDate
<1> QED
    BY <1>1, <1>4

LEMMA ConvergingInit == Init => Converging
BY DEF Init, Converging, Listening, Statuses, Subscribing

LEMMA ConvergingStep == IInv /\ Converging /\ [Next]_vars => Converging'
<1> SUFFICES ASSUME IInv, Converging, [Next]_vars PROVE Converging'
    OBVIOUS
<1>0. Listening /\ Statuses
    BY DEF Converging
<1>1. Listening' /\ Statuses'
    BY <1>0, ListeningStep, StatusesStep
<1>2. ASSUME conn' PROVE \A r \in retained' : UpToDate(r)'
    <2>1. CASE Connected
        BY <2>1 DEF Connected, UpToDate, Subscribing
    <2>2. CASE BrokerPublishes
        <3>1. PICK f \in Feed : BrokerTakes(f)
            BY <2>2 DEF BrokerPublishes
        <3>2. conn
            BY <1>2, <3>1, Taking DEF clientVars
        <3> QED
            BY <1>0, <3>1, <3>2, TakenUpToDate DEF Converging
    <2>3. CASE BrokerSubscribes
        <3>1. conn
            BY <1>2, <2>3 DEF BrokerSubscribes
        <3> QED
            BY <1>0, <2>3, <3>1, SubscribedUpToDate DEF Converging
    <2>4. CASE OnMessage
        <3>1. conn
            BY <1>2, <2>4 DEF OnMessage, clientVars
        <3> QED
            BY <2>4, <3>1, ReadUpToDate DEF Converging
    <2>5. CASE BrokerAcked \/ Tick \/ UNCHANGED vars
        <3>1. UNCHANGED <<conn, request, wire, retained, shown, missed>>
            BY <2>5 DEF BrokerAcked, Tick, vars, clientVars, memoryVars, sessionVars,
                        feedVars, historyVars
        <3> QED
            BY <1>2, <3>1 DEF Converging, UpToDate, Subscribing, LastOn, NoneOn
    <2>6. CASE Drop \/ OnMessageInterrupted \/ OnMessageRaises \/ Interrupt
        BY <1>2, <2>6 DEF Drop, OnMessageInterrupted, OnMessageRaises, Interrupt, LeaveConnection
    <2>7. CASE Run \/ Restart
        <3>1. pc # "running" /\ conn' = conn
            BY <2>7 DEF Run, Restart
        <3> QED
            BY <1>0, <1>2, <3>1 DEF Listening
    <2> QED
        BY <2>1, <2>2, <2>3, <2>4, <2>5, <2>6, <2>7 DEF Next
<1> QED
    BY <1>1, <1>2 DEF Converging

\* An empty wire leaves the screen as the only place where a status can be.
LEMMA ConvergingShows == IInv /\ Converging => StatusConverges
<1>1. DOMAIN <<>> = {} /\ <<>> # <<"all", "temp">>
    OBVIOUS
<1> QED
    BY <1>1 DEF Converging, UpToDate, StatusConverges, LastOn, Subscribing

\* When the connection is quiet, the status on the screen for each line is the one
\* the broker retains, unless the session refused a status of that line: on_connect
\* subscribes on every connection, and every SUBSCRIBE is answered with what is
\* retained (subscriber.py, lines 56-64).
THEOREM StatusReachesScreen == Spec => []StatusConverges
<1>1. Init => IInv /\ Converging
    BY InvInit, ConvergingInit
<1>2. IInv /\ Converging /\ [Next]_vars => (IInv /\ Converging)'
    BY InvStep, ConvergingStep
<1> QED
    BY <1>1, <1>2, ConvergingShows, PTL DEF Spec
=============================================================================
