--------------------------- MODULE MqttSystemProofs ---------------------------
(* Theorems about MqttSystem, for every value of its constants, from the     *)
(* invariants of its two programs.                                           *)
EXTENDS MqttSystem, MqttPublisherProofs

\* The lemmas about MqttSubscriber, for the subscriber of the system.
S == INSTANCE MqttSubscriberProofs WITH
    Feed <- {Sent(m) : m \in Messages},
    Critical <- {}, Undecodable <- {}, Mistyped <- {},
    StatusTopics <- {<<l, "status">> : l \in LineSet},
    TempTopics <- {<<l, "temperature">> : l \in LineSet},
    MaxFaults <- MaxFailures, MaxRuns <- MaxFailures + 1,
    pc <- subPc, wire <- subWire, acks <- subAcks, retained <- subRetained,
    faults <- subFaults, runs <- subRuns

-----------------------------------------------------------------------------
(* What the publisher sends is what the subscriber's module assumes of a feed. *)

Feed == {Sent(m) : m \in Messages}

\* Readings and statuses are told apart by their sensor.
LEMMA MessageSensor ==
    \A m \in Messages : m.line \in LineSet /\ (m \notin Readings <=> m.sensor = "status")
<1>1. ASSUME NEW m \in Statuses PROVE m.line \in LineSet /\ m \notin Readings /\ m.sensor = "status"
    BY StatusIsNoReading DEF Statuses, Status
<1>2. ASSUME NEW m \in Readings PROVE m.line \in LineSet /\ m.sensor # "status"
    BY SensorsAssumption DEF Readings, Reading
<1> QED
    BY <1>1, <1>2 DEF Messages

\* What the subscriber sees of a message of the publisher.
LEMMA SentFields ==
    ASSUME NEW m
    PROVE  /\ Sent(m).topic = <<m.line, m.sensor>> /\ Sent(m).body = m.body
           /\ Sent(m).qos = (IF QosOf(m) = 0 THEN 0 ELSE 1)
           /\ (Sent(m).retain <=> m.sensor = "status")
           /\ Sent(m).retain => Sent(m).qos = 1
<1>1. Sent(m).topic = <<m.line, m.sensor>> /\ Sent(m).body = m.body
    BY Zenon DEF Sent
<1>2. Sent(m).qos = (IF QosOf(m) = 0 THEN 0 ELSE 1)
    BY Zenon DEF Sent
<1>3. Sent(m).retain <=> m.sensor = "status"
    BY Zenon DEF Sent
<1>4. m.sensor = "status" => QosOf(m) = 1
    BY DEF QosOf
<1>5. Sent(m).retain => Sent(m).qos = 1
    BY <1>2, <1>3, <1>4
<1> QED
    BY <1>1, <1>2, <1>3, <1>5

\* Only statuses are retained, each with QoS 1, and no status is a temperature.
LEMMA FeedIsFit == S!FeedAssumption
<1> DEFINE Sendable == [topic : {f.topic : f \in Feed}, body : {f.body : f \in Feed},
                        qos : 0..1, retain : BOOLEAN]
<1>1. Feed \subseteq Sendable
    <2> SUFFICES ASSUME NEW m \in Messages PROVE Sent(m) \in Sendable
        BY DEF Feed
    <2>1. Sent(m) \in Feed
        BY DEF Feed
    <2>2. <<m.line, m.sensor>> \in {f.topic : f \in Feed} /\ m.body \in {f.body : f \in Feed}
        BY <2>1, SentFields
    <2>3. (IF QosOf(m) = 0 THEN 0 ELSE 1) \in 0..1 /\ (m.sensor = "status") \in BOOLEAN
        OBVIOUS
    <2> QED
        BY <2>2, <2>3, Zenon DEF Sent
<1>2. \A f \in Feed : /\ f.retain <=> f.topic \in {<<l, "status">> : l \in LineSet}
                      /\ f.retain => f.qos = 1
    <2> SUFFICES ASSUME NEW m \in Messages
                 PROVE  /\ Sent(m).retain <=> Sent(m).topic \in {<<l, "status">> : l \in LineSet}
                        /\ Sent(m).retain => Sent(m).qos = 1
        BY DEF Feed
    <2>1. <<m.line, m.sensor>> \in {<<l, "status">> : l \in LineSet} <=> m.sensor = "status"
        BY MessageSensor
    <2> QED
        BY <2>1, SentFields
<1>3. {<<l, "temperature">> : l \in LineSet} \cap {<<l, "status">> : l \in LineSet} = {}
    OBVIOUS
<1> QED
    BY <1>1, <1>2, <1>3 DEF S!FeedAssumption, Feed, S!Topics, S!Bodies

\* The bounds of the system are bounds the subscriber's module allows.
LEMMA BoundsAreFit == S!BoundsAssumption
<1>1. MaxFailures + 1 \in Nat \ {0}
    BY FailuresAssumption
<1> QED
    BY <1>1, SessionAssumption, FailuresAssumption DEF S!BoundsAssumption

-----------------------------------------------------------------------------
(* The lemmas about the subscriber, for the subscriber of the system. *)

SubInv == S!IInv /\ S!Converging

\* The invariants of the subscriber hold to begin with ...
LEMMA SubInvInit == S!Init => SubInv
<1>1. S!Init => S!IInv
    BY FeedIsFit, BoundsAreFit, S!InvInit DEF S!InvInit, S!FeedAssumption, S!BoundsAssumption
<1>2. S!Init => S!Converging
    BY FeedIsFit, BoundsAreFit, S!ConvergingInit
       DEF S!ConvergingInit, S!FeedAssumption, S!BoundsAssumption
<1> QED
    BY <1>1, <1>2 DEF SubInv

\* ... and after each of its steps,
LEMMA SubInvStep == SubInv /\ [S!Next]_S!vars => SubInv'
<1>1. S!IInv /\ [S!Next]_S!vars => S!IInv'
    BY FeedIsFit, BoundsAreFit, S!InvStep DEF S!InvStep, S!FeedAssumption, S!BoundsAssumption
<1>2. S!IInv /\ S!Converging /\ [S!Next]_S!vars => S!Converging'
    BY FeedIsFit, BoundsAreFit, S!ConvergingStep
       DEF S!ConvergingStep, S!FeedAssumption, S!BoundsAssumption
<1> QED
    BY <1>1, <1>2 DEF SubInv

\* so that a quiet subscriber shows what the broker retains.
LEMMA SubShows == SubInv => S!StatusConverges
BY FeedIsFit, BoundsAreFit, S!ConvergingShows
   DEF SubInv, S!ConvergingShows, S!FeedAssumption, S!BoundsAssumption

\* A message the broker takes is all that the session learns of.
LEMMA SubTakes ==
    \A f \in Feed : SubInv /\ S!BrokerTakes(f) =>
        /\ S!Known' \subseteq S!Known \cup {S!MessageOf(f)}
        /\ \A k \in DOMAIN pending' : pending'[k] \in S!ToSet(pending) \cup {S!MessageOf(f)}
        /\ UNCHANGED handled
BY FeedIsFit, BoundsAreFit, S!TakingAdds
   DEF SubInv, Feed, S!TakingAdds, S!FeedAssumption, S!BoundsAssumption

\* Without one, the session and the subscriber learn of nothing new.
LEMMA SubInventsNothing ==
    SubInv /\ [S!Next]_S!vars /\ published' = published =>
        /\ S!Known' \subseteq S!Known /\ subRetained' = subRetained
        /\ \A k \in DOMAIN pending' : pending'[k] \in S!ToSet(pending) \cup subRetained
BY FeedIsFit, BoundsAreFit, S!NothingInvented
   DEF SubInv, S!NothingInvented, S!FeedAssumption, S!BoundsAssumption

\* A call of on_message that counts is for a message still known, and for one of
\* QoS 1 that the session still holds.
LEMMA SubHandles ==
    SubInv /\ [S!Next]_S!vars =>
        \A i \in S!Ids :
            /\ handled[i] > 0 => handled'[i] > 0
            /\ handled'[i] > 0 =>
                  \/ handled[i] > 0
                  \/ \E m \in S!Known : m.id = i /\ (m.qos = 1 => m \in S!ToSet(pending))
BY FeedIsFit, BoundsAreFit, S!HandlingSteps
   DEF SubInv, S!HandlingSteps, S!FeedAssumption, S!BoundsAssumption

\* What the session has taken over it has taken over for good.
LEMMA SubAccepts == SubInv /\ [S!Next]_S!vars => accepted \subseteq accepted'
BY FeedIsFit, BoundsAreFit, S!OnlyForward
   DEF SubInv, S!OnlyForward, S!FeedAssumption, S!BoundsAssumption

\* What the session has taken over it holds, or it has been handled.
Answered ==
    \A a \in accepted : (\E k \in DOMAIN pending : pending[k].id = a.id) \/ handled[a.id] > 0

\* What the session holds or has handled, told by ids.
LEMMA SubHolds ==
    SubInv =>
        /\ handled \in [S!Ids -> Nat] /\ published \in 0..MaxMsgs
        /\ \A i \in S!Ids : i > published => handled[i] = 0
        /\ \A k \in DOMAIN pending : pending[k] \in accepted
        /\ \A a \in accepted : a.id \in S!Ids
        /\ Answered
<1> SUFFICES ASSUME SubInv
             PROVE  /\ handled \in [S!Ids -> Nat] /\ published \in 0..MaxMsgs
                    /\ \A i \in S!Ids : i > published => handled[i] = 0
                    /\ \A k \in DOMAIN pending : pending[k] \in accepted
                    /\ \A a \in accepted : a.id \in S!Ids
                    /\ Answered
    OBVIOUS
<1>1. handled \in [S!Ids -> Nat] /\ published \in 0..MaxMsgs /\ accepted \subseteq S!Messages
    BY DEF SubInv, S!IInv, S!TypeOK
<1>2. \A i \in S!Ids : i > published => handled[i] = 0
    BY DEF SubInv, S!IInv, S!Identity
<1>3. \A k \in DOMAIN pending : pending[k] \in accepted
    BY DEF SubInv, S!IInv, S!Session
<1>4. \A a \in accepted : a.id \in S!Ids
    BY <1>1 DEF S!Messages
<1>5. Answered
    BY DEF Answered, SubInv, S!IInv, S!NothingTakenOverIsLost, S!Owed, S!DealtWith
<1> QED
    BY <1>1, <1>2, <1>3, <1>4, <1>5

-----------------------------------------------------------------------------
(* The steps of the system are steps of its two programs. *)

\* The subscriber starts the same in both readings of its module.
LEMMA SubStarts == Sub!Init => S!Init
BY DEF Sub!Init, S!Init, Sub!ZeroCounts, S!ZeroCounts, Sub!Ids, S!Ids, Sub!Topics, S!Topics

\* A step of the broker, towards the subscriber.
LEMMA SubBroker ==
    /\ \A f : Sub!BrokerTakes(f) => S!BrokerTakes(f)
    /\ Sub!BrokerSubscribes => S!BrokerSubscribes
    /\ Sub!BrokerAcked => S!BrokerAcked /\ published' = published
<1> USE DEF Sub!clientVars, S!clientVars, Sub!memoryVars, S!memoryVars, Sub!sessionVars,
            S!sessionVars, Sub!feedVars, S!feedVars, Sub!historyVars, S!historyVars
<1>1. ASSUME NEW ms, Sub!Enqueue(ms) PROVE S!Enqueue(ms)
    BY <1>1 DEF Sub!Enqueue, S!Enqueue, Sub!ToSet, S!ToSet
<1>2. ASSUME NEW ms, Sub!SendNow(ms) PROVE S!SendNow(ms)
    BY <1>2 DEF Sub!SendNow, S!SendNow
<1>3. ASSUME NEW m PROVE Sub!Copies(m) = S!Copies(m)
    BY DEF Sub!Copies, S!Copies, Sub!Matching, S!Matching
<1>4. ASSUME NEW f, Sub!BrokerTakes(f) PROVE S!BrokerTakes(f)
    BY <1>1, <1>2, <1>3, <1>4, SMTT(60) DEF Sub!BrokerTakes, S!BrokerTakes
<1>5. ASSUME Sub!BrokerSubscribes PROVE S!BrokerSubscribes
    BY <1>1, <1>5 DEF Sub!BrokerSubscribes, S!BrokerSubscribes, Sub!RetainedFor, S!RetainedFor,
                      Sub!SetToSeqs, S!SetToSeqs, Sub!Cardinality, S!Cardinality
<1>6. ASSUME Sub!BrokerAcked PROVE S!BrokerAcked /\ published' = published
    BY <1>6 DEF Sub!BrokerAcked, S!BrokerAcked
<1> QED
    BY <1>4, <1>5, <1>6

\* A step of the subscriber itself.
LEMMA SubClient ==
    Sub!Run \/ Sub!Connected \/ Sub!OnMessage \/ Sub!OnMessageInterrupted \/ Sub!Interrupt
        \/ Sub!Drop \/ Sub!Restart
    => S!Next /\ published' = published
<1> USE DEF Sub!clientVars, S!clientVars, Sub!memoryVars, S!memoryVars, Sub!sessionVars,
            S!sessionVars, Sub!feedVars, S!feedVars, Sub!historyVars, S!historyVars,
            Sub!LeaveConnection, S!LeaveConnection, Sub!Raising, S!Raising,
            Sub!Alerting, S!Alerting, Sub!Count, S!Count
<1>1. ASSUME Sub!Run PROVE S!Run /\ published' = published
    BY <1>1 DEF Sub!Run, S!Run
<1>2. ASSUME Sub!Connected PROVE S!Connected /\ published' = published
    BY <1>2 DEF Sub!Connected, S!Connected
<1>3. ASSUME Sub!OnMessage PROVE S!OnMessage /\ published' = published
    BY <1>3 DEF Sub!OnMessage, S!OnMessage
<1>4. ASSUME Sub!OnMessageInterrupted PROVE S!OnMessageInterrupted /\ published' = published
    BY <1>4 DEF Sub!OnMessageInterrupted, S!OnMessageInterrupted
<1>5. ASSUME Sub!Interrupt PROVE S!Interrupt /\ published' = published
    BY <1>5 DEF Sub!Interrupt, S!Interrupt
<1>6. ASSUME Sub!Drop PROVE S!Drop /\ published' = published
    BY <1>6 DEF Sub!Drop, S!Drop
<1>7. ASSUME Sub!Restart PROVE S!Restart /\ published' = published
    BY <1>7 DEF Sub!Restart, S!Restart, Sub!ZeroCounts, S!ZeroCounts, Sub!Topics, S!Topics
<1> HIDE DEF Sub!clientVars, S!clientVars, Sub!memoryVars, S!memoryVars, Sub!sessionVars,
            S!sessionVars, Sub!feedVars, S!feedVars, Sub!historyVars, S!historyVars,
            Sub!LeaveConnection, S!LeaveConnection, Sub!Raising, S!Raising,
            Sub!Alerting, S!Alerting, Sub!Count, S!Count
<1> QED
    BY <1>1, <1>2, <1>3, <1>4, <1>5, <1>6, <1>7 DEF S!Next

\* The broker passes message x on, the publisher's or its will.
Passing(x) ==
    /\ x \in Messages /\ S!BrokerTakes(Sent(x)) /\ log' = Append(log, x)
    /\ \/ BrokerReceives /\ x \in PassedOnBy(Head(wire))
       \/ ((OpenSocket /\ session) \/ DetectLoss) /\ x = Will

\* The broker passes nothing on.
Silent ==
    /\ [S!Next]_S!vars /\ published' = published /\ log' = log
    /\ \/ BrokerReceives /\ PassedOnBy(Head(wire)) = {}
       \/ UNCHANGED <<retained, stored, forwarded>>

\* The will is a status.
LEMMA WillType ==
    ASSUME TypeOK
    PROVE  /\ Will \in Messages /\ Will.line = WillLine
           /\ Will.sensor = "status" /\ Will.body = "offline"
<1>1. run \in 1..MaxRuns
    BY DEF TypeOK
<1>2. Will \in Statuses
    BY <1>1, WillAssumption DEF Will, Statuses
<1> QED
    BY <1>2 DEF Will, Status, Messages

\* A step of the system is a step, or a stutter, of each program, and passes one
\* message on or none.
LEMMA SystemSteps ==
    TypeOK /\ [SystemNext]_systemVars =>
        /\ [Next]_vars /\ [S!Next]_S!vars
        /\ (\E x : Passing(x)) \/ Silent
<1> SUFFICES ASSUME TypeOK, [SystemNext]_systemVars
             PROVE  [Next]_vars /\ [S!Next]_S!vars /\ ((\E x : Passing(x)) \/ Silent)
    OBVIOUS
<1>1. UNCHANGED subVars => UNCHANGED S!vars /\ published' = published
    BY DEF subVars, S!vars, S!clientVars, S!memoryVars, S!sessionVars, S!feedVars, S!historyVars
<1>2. ASSUME NEW x \in Messages, PassOn(x)
      PROVE  S!BrokerTakes(Sent(x)) /\ S!Next /\ log' = Append(log, x)
    <2>1. S!BrokerTakes(Sent(x)) /\ log' = Append(log, x)
        BY <1>2, SubBroker DEF PassOn
    <2> QED
        BY <2>1 DEF S!Next, S!BrokerPublishes
<1>3. CASE Receive
    <2>1. BrokerReceives /\ Next
        BY <1>3 DEF Receive, Next, Broker
    <2>2. CASE PassedOnBy(Head(wire)) = {}
        BY <1>1, <1>3, <2>1, <2>2 DEF Receive, Silent
    <2>3. CASE PassedOnBy(Head(wire)) # {}
        <3>1. PICK x \in PassedOnBy(Head(wire)) : PassOn(x)
            BY <1>3, <2>3 DEF Receive
        <3>2. x \in Messages
            BY <3>1 DEF PassedOnBy
        <3> QED
            BY <1>2, <2>1, <3>1, <3>2 DEF Passing
    <2> QED
        BY <2>2, <2>3
<1>4. CASE TakeOver
    <2>1. OpenSocket /\ Next
        BY <1>4 DEF TakeOver, Next, Network
    <2>2. CASE session
        <3>1. PassOn(Will)
            BY <1>4, <2>2 DEF TakeOver
        <3> QED
            BY <1>2, <2>1, <2>2, <3>1, WillType DEF Passing
    <2>3. CASE ~session
        <3>1. UNCHANGED <<subVars, log>>
            BY <1>4, <2>3 DEF TakeOver
        <3>2. UNCHANGED <<retained, stored, forwarded>>
            BY <2>1, <2>3 DEF OpenSocket
        <3> QED
            BY <1>1, <2>1, <3>1, <3>2 DEF Silent
    <2> QED
        BY <2>2, <2>3
<1>5. CASE NoticeLoss
    <2>1. DetectLoss /\ Next /\ PassOn(Will)
        BY <1>5 DEF NoticeLoss, Next, Broker
    <2> QED
        BY <1>2, <2>1, WillType DEF Passing
<1>6. ASSUME UNCHANGED <<subVars, log>>,
             Main \/ Interrupt \/ Die \/ Dial \/ DialFails \/ Connected \/ Acked \/ Received
                  \/ BrokerDisconnects \/ Drop \/ Redial \/ Restart
      PROVE  Next /\ Silent
    <2>1. Next
        BY <1>6 DEF Next, Network, Broker
    <2>2. UNCHANGED <<retained, stored, forwarded>>
        BY <1>6 DEF Main, Connect, ConnectRefused, WaitOver, AnnounceOnline, Announce,
                    PublishReading, AnnounceOffline, LoopStopped, Disconnect, Interrupt, Die,
                    Dial, DialFails, Connected, Acked, Received, BrokerDisconnects, Drop,
                    Redial, Restart, brokerVars
    <2> QED
        BY <1>1, <1>6, <2>1, <2>2 DEF Silent
<1>7. ASSUME UNCHANGED <<vars, log>>, S!Next, published' = published
      PROVE  Silent
    BY <1>7 DEF Silent, vars, brokerVars
<1>8. ASSUME Sub!BrokerSubscribes \/ Sub!BrokerAcked
      PROVE  S!Next /\ published' = published
    <2>1. Sub!BrokerSubscribes => published' = published
        BY DEF Sub!BrokerSubscribes, Sub!feedVars
    <2> QED
        BY <1>8, <2>1, SubBroker DEF S!Next
<1>9. CASE Publisher(Main \/ Interrupt \/ Dial \/ DialFails \/ Connected
                     \/ Acked \/ Received \/ BrokerDisconnects)
           \/ Publisher(Failing(Die \/ Drop \/ Redial \/ Restart))
    <2>1. /\ UNCHANGED <<subVars, log>>
          /\ \/ Main \/ Interrupt \/ Die \/ Dial \/ DialFails \/ Connected \/ Acked \/ Received
             \/ BrokerDisconnects \/ Drop \/ Redial \/ Restart
        BY <1>9 DEF Publisher, Failing
    <2> QED
        BY <1>1, <1>6, <2>1
<1>10. CASE Subscriber(Sub!BrokerSubscribes \/ Sub!BrokerAcked \/ Sub!Run \/ Sub!Connected
                       \/ Sub!OnMessage)
            \/ Subscriber(Failing(Sub!OnMessageInterrupted \/ Sub!Interrupt \/ Sub!Drop
                                  \/ Sub!Restart))
    <2>1. /\ UNCHANGED <<vars, log>>
          /\ \/ Sub!BrokerSubscribes \/ Sub!BrokerAcked
             \/ Sub!Run \/ Sub!Connected \/ Sub!OnMessage \/ Sub!OnMessageInterrupted
             \/ Sub!Interrupt \/ Sub!Drop \/ Sub!Restart
        BY <1>10 DEF Subscriber, Failing
    <2>2. S!Next /\ published' = published
        BY <1>8, <2>1, SubClient
    <2> QED
        BY <1>7, <2>1, <2>2
<1>11. CASE UNCHANGED systemVars
    BY <1>1, <1>11 DEF systemVars, Silent, vars, brokerVars
<1> QED
    BY <1>3, <1>4, <1>5, <1>9, <1>10, <1>11 DEF SystemNext

-----------------------------------------------------------------------------
(* The invariant that ties the two programs together. *)

\* What the subscriber may know of the i-th message the broker passed on.
AsSent(i) == [topic |-> Sent(log[i]).topic, body |-> Sent(log[i]).body,
              qos |-> Sent(log[i]).qos, id |-> i]

\* The log numbers what the broker passed on as the session does.
Logs == log \in Seq(Messages) /\ Len(log) = published

\* A reading that was passed on had been handed to paho, and one that the broker
\* has counted as passed on is in the log.
PassedOn ==
    /\ \A i \in DOMAIN log : log[i] \in Readings => log[i] \in handed
    /\ \A m \in Readings : forwarded[m] > 0 => \E i \in DOMAIN log : log[i] = m

\* The publisher's status of a line is what the broker retains for the subscriber.
Mirror ==
    \A l \in LineSet :
        retained[l] # "none" =>
            \E r \in subRetained : r.topic = <<l, "status">> /\ r.body = retained[l]

\* What the session and the subscriber know was passed on, as it was.
Recorded == \A a \in S!Known : a.id \in DOMAIN log /\ a = AsSent(a.id)

Ties == Logs /\ PassedOn /\ Mirror /\ Recorded

SystemInv == FlowInv /\ SubInv /\ Ties

\* Nothing has been passed on to begin with.
LEMMA TiesInit == SystemInit => Ties
<1> SUFFICES ASSUME SystemInit PROVE Ties
    OBVIOUS
<1>1. /\ log = <<>> /\ published = 0 /\ accepted = {} /\ subRetained = {} /\ subWire = <<>>
      /\ retained = [l \in LineSet |-> "none"] /\ forwarded = [m \in Readings |-> 0]
    BY DEF SystemInit, Init, Sub!Init
<1>2. log \in Seq(Messages) /\ Len(log) = 0 /\ DOMAIN log = {}
    BY <1>1, EmptySeq
<1>3. S!Known = {}
    BY <1>1 DEF S!Known, S!ToSet
<1> QED
    BY <1>1, <1>2, <1>3 DEF Ties, Logs, PassedOn, Mirror, Recorded

\* The log after one more message.
LEMMA LogGrows ==
    ASSUME Logs, NEW x, Passing(x), published \in Nat
    PROVE  /\ Logs' /\ DOMAIN log = 1..published /\ DOMAIN log' = 1..(published + 1)
           /\ \A i \in 1..published : log'[i] = log[i]
           /\ log'[published + 1] = x /\ published' = published + 1
<1>1. x \in Messages /\ log' = Append(log, x) /\ published' = published + 1 /\ log \in Seq(Messages)
    BY DEF Passing, S!BrokerTakes, Logs
<1>2. /\ log' \in Seq(Messages) /\ Len(log') = Len(log) + 1 /\ log'[Len(log) + 1] = x
      /\ \A i \in 1..Len(log) : log'[i] = log[i]
    BY <1>1, AppendProperties
<1> QED
    BY <1>1, <1>2 DEF Logs

\* What the publisher's half of a step that passes x on does.
LEMMA PassingEffects ==
    ASSUME FlowInv, NEW x, Passing(x)
    PROVE  /\ x \in Readings =>
                 /\ {x, Release(x)} \cap Range(wire) # {} /\ x \in handed
                 /\ retained' = retained
           /\ x \notin Readings => retained' = [retained EXCEPT ![x.line] = x.body]
           /\ \A m \in Readings : forwarded'[m] > 0 => m = x \/ forwarded[m] > 0
<1>0. /\ x \in Messages /\ TypeOK /\ Traced /\ wire \in Seq(Packets)
    BY DEF Passing, FlowInv, IInv, TypeOK, Flow
<1>s. x.sensor = "status" <=> x \notin Readings
    BY <1>0, MessageSensor
<1>1. CASE BrokerReceives /\ x \in PassedOnBy(Head(wire))
    <2> PICK p : p = Head(wire)
        OBVIOUS
    <2>1. p \in Packets /\ p \in Range(wire)
        <3>1. wire # <<>>
            BY <1>0, <1>1, Receives
        <3>2. 1 \in DOMAIN wire /\ wire[1] = p
            BY <1>0, <3>1, EmptySeq
        <3> QED
            BY <1>0, <3>2, ElementOfSeq DEF Range
    <2>2. IF QosOf(p) = 2 THEN p = Release(x) /\ x \in stored ELSE p = x
        BY <1>1 DEF PassedOnBy
    <2>3. x \in stored => x \in Readings /\ x \in handed
        BY <1>0 DEF TypeOK, Traced
    <2>r. p.sensor # "status" => retained' = retained
        <3>1. p \in Statuses => p.sensor = "status"
            BY StatusShape
        <3> QED
            BY <1>0, <1>1, <3>1, Receives
    <2>4. /\ x \in Readings => Origin(p) = x /\ retained' = retained
          /\ x \notin Readings => p = x /\ x.body # "release"
        <3>1. CASE QosOf(p) = 2
            <4>1. p.body = "release" /\ Origin(p) = x /\ x \in Readings /\ p.sensor # "status"
                BY <1>s, <2>2, <2>3, <3>1, ReleaseFields
            <4> QED
                BY <2>r, <4>1
        <3>2. CASE QosOf(p) # 2
            <4>1. p = x
                BY <2>2, <3>2
            <4>2. x \in Readings => retained' = retained /\ Origin(p) = x
                BY <1>s, <2>r, <4>1, ReadingShape DEF Origin
            <4>3. x \notin Readings => x.body # "release"
                BY <1>0, <4>1, PacketKinds, <2>1, <1>s
            <4> QED
                BY <4>1, <4>2, <4>3
        <3> QED
            BY <3>1, <3>2
    <2>5. x \notin Readings => retained' = [retained EXCEPT ![x.line] = x.body]
        <3> SUFFICES ASSUME x \notin Readings PROVE retained' = [retained EXCEPT ![x.line] = x.body]
            OBVIOUS
        <3>1. p = x /\ p \notin Readings /\ p.body # "release"
            BY <2>4
        <3> QED
            BY <1>0, <1>1, <3>1, Receives, ReleaseFields
    <2>6. x \in Readings => {x, Release(x)} \cap Range(wire) # {} /\ x \in handed
        BY <1>0, <2>1, <2>2, <2>3, <2>4 DEF Traced, Underway
    <2>7. ASSUME NEW m \in Readings, forwarded'[m] > 0 PROVE m = x \/ forwarded[m] > 0
        BY <1>0, <1>1, <2>4, <2>7, ReceiveTakes
    <2> QED
        BY <2>4, <2>5, <2>6, <2>7
<1>2. CASE ((OpenSocket /\ session) \/ DetectLoss) /\ x = Will
    <2>1. x \notin Readings /\ x.line = WillLine /\ x.body = "offline"
        BY <1>0, <1>2, <1>s, WillType
    <2>2. forwarded' = forwarded /\ retained' = [retained EXCEPT ![WillLine] = "offline"]
        BY <1>2 DEF OpenSocket, DetectLoss, PublishWill
    <2> QED
        BY <2>1, <2>2
<1> QED
    BY <1>1, <1>2 DEF Passing

\* What a step that passes nothing on does to what the broker keeps.
LEMMA SilentEffects ==
    ASSUME FlowInv, Silent
    PROVE  /\ retained' = retained
           /\ \A m \in Readings : forwarded'[m] > 0 => forwarded[m] > 0
<1>0. TypeOK /\ Traced /\ wire \in Seq(Packets)
    BY DEF FlowInv, IInv, TypeOK, Flow
<1>1. CASE BrokerReceives /\ PassedOnBy(Head(wire)) = {}
    <2> PICK p : p = Head(wire)
        OBVIOUS
    <2>1. p \in Packets /\ p \in Range(wire)
        <3>1. wire # <<>>
            BY <1>0, <1>1, Receives
        <3>2. 1 \in DOMAIN wire /\ wire[1] = p
            BY <1>0, <3>1, EmptySeq
        <3> QED
            BY <1>0, <3>2, ElementOfSeq DEF Range
    <2>2. \A m \in Messages : ~(IF QosOf(p) = 2 THEN p = Release(m) /\ m \in stored ELSE p = m)
        BY <1>1 DEF PassedOnBy
    <2>3. p \notin Statuses
        BY <2>2 DEF Messages, QosOf, Statuses, Status
    <2>4. p \in Readings => QosOf(p) = 2
        BY <2>2 DEF Messages
    <2>5. CASE p \in Readings
        <3>1. retained' = retained /\ forwarded' = forwarded
            BY <1>0, <1>1, <2>3, <2>4, <2>5, Receives, ReleaseFields, ReadingShape
        <3> QED
            BY <3>1
    <2>6. CASE p \notin Readings
        <3>1. PICK m \in Readings :
                 /\ p = Release(m) /\ UNCHANGED <<retained, fired>>
                 /\ IF m \in stored THEN PassesOn(m) ELSE UNCHANGED forwarded
            BY <1>0, <1>1, <2>3, <2>6, Receives
        <3>2. m \notin stored
            <4>1. QosOf(p) = 2
                BY <1>0, <2>1, <3>1, ReleaseFields DEF Traced, Underway
            <4> QED
                BY <2>2, <3>1, <4>1 DEF Messages
        <3> QED
            BY <3>1, <3>2
    <2> QED
        BY <2>5, <2>6
<1>2. CASE UNCHANGED <<retained, stored, forwarded>>
    BY <1>2
<1> QED
    BY <1>1, <1>2 DEF Silent

\* Handing over is never undone.
LEMMA HandedGrows == FlowInv /\ [Next]_vars => handed \subseteq handed'
<1> SUFFICES ASSUME FlowInv, [Next]_vars PROVE handed \subseteq handed'
    OBVIOUS
<1>1. \/ Quiet \/ (\E m : Gives(m)) \/ OpenSocket \/ Connected \/ Acked \/ Received
      \/ BrokerReceives \/ Restart \/ Severed \/ DetectLoss
    BY Steps DEF FlowInv
<1>2. CASE \E m : Gives(m)
    BY <1>2 DEF Gives, Publish, Write
<1>3. CASE BrokerReceives
    BY <1>3, Receives DEF FlowInv, IInv, Reads, mainVars
<1> QED
    BY <1>1, <1>2, <1>3 DEF Quiet, OpenSocket, Connected, Acked, Received, Restart, Severed,
                            DetectLoss, mainVars

\* Each step that passes a message on extends both sides alike; no other disturbs
\* what ties them.
LEMMA TiesStep == SystemInv /\ [SystemNext]_systemVars => Ties'
<1> SUFFICES ASSUME SystemInv, [SystemNext]_systemVars PROVE Ties'
    OBVIOUS
<1>0. /\ FlowInv /\ SubInv /\ Logs /\ PassedOn /\ Mirror /\ Recorded /\ TypeOK
      /\ published \in Nat /\ retained \in [LineSet -> {"none", "online", "offline"}]
    BY SubHolds, SessionAssumption DEF SystemInv, Ties, FlowInv, IInv, TypeOK
<1>1. /\ [Next]_vars /\ [S!Next]_S!vars /\ ((\E x : Passing(x)) \/ Silent)
      /\ handed \subseteq handed'
    BY <1>0, SystemSteps, HandedGrows
<1>2. ASSUME NEW x, Passing(x) PROVE Ties'
    <2>0. x \in Messages /\ Sent(x) \in Feed /\ S!BrokerTakes(Sent(x))
        BY <1>2 DEF Passing, Feed
    <2>1. /\ Logs' /\ DOMAIN log = 1..published /\ DOMAIN log' = 1..(published + 1)
          /\ \A i \in 1..published : log'[i] = log[i]
          /\ log'[published + 1] = x /\ published' = published + 1
        BY <1>0, <1>2, LogGrows
    <2>2. /\ x \in Readings => x \in handed /\ retained' = retained
          /\ x \notin Readings => retained' = [retained EXCEPT ![x.line] = x.body]
          /\ \A m \in Readings : forwarded'[m] > 0 => m = x \/ forwarded[m] > 0
        BY <1>0, <1>2, PassingEffects
    <2>3. PassedOn'
        <3>1. ASSUME NEW i \in DOMAIN log', log'[i] \in Readings PROVE log'[i] \in handed'
            BY <1>0, <1>1, <2>1, <2>2, <3>1 DEF PassedOn
        <3>2. ASSUME NEW m \in Readings, forwarded'[m] > 0 PROVE \E i \in DOMAIN log' : log'[i] = m
            <4>1. CASE m = x
                BY <1>0, <2>1, <4>1
            <4>2. CASE m # x
                <5>1. PICK i \in DOMAIN log : log[i] = m
                    BY <1>0, <2>2, <3>2, <4>2 DEF PassedOn
                <5>2. i \in DOMAIN log' /\ log'[i] = m
                    BY <1>0, <2>1, <5>1
                <5> QED
                    BY <5>2
            <4> QED
                BY <4>1, <4>2
        <3> QED
            BY <3>1, <3>2 DEF PassedOn
    <2> DEFINE f == Sent(x)
               c == S!MessageOf(f)
    <2>4. /\ f.topic = <<x.line, x.sensor>> /\ f.body = x.body
          /\ (f.retain <=> x.sensor = "status")
        BY SentFields
    <2>5. c = [topic |-> f.topic, body |-> f.body, qos |-> f.qos, id |-> published + 1]
        BY DEF S!MessageOf
    <2>6. subRetained' = IF f.retain THEN {r \in subRetained : r.topic # f.topic} \cup {c}
                                     ELSE subRetained
        BY <2>0, <2>5 DEF S!BrokerTakes
    <2>7. S!Known' \subseteq S!Known \cup {c}
        BY <1>0, <2>0, SubTakes
    <2> HIDE DEF f, c
    <2>8. Recorded'
        <3>1. ASSUME NEW a \in S!Known' PROVE a.id \in DOMAIN log' /\ a = AsSent(a.id)'
            <4>1. CASE a \in S!Known
                <5>1. a.id \in DOMAIN log /\ a = AsSent(a.id)
                    BY <1>0, <4>1 DEF Recorded
                <5>2. a.id \in DOMAIN log' /\ log'[a.id] = log[a.id]
                    BY <1>0, <2>1, <5>1
                <5> QED
                    BY <5>1, <5>2 DEF AsSent, Sent, QosOf
            <4>2. CASE a = c
                <5>1. a.id = published + 1 /\ a.id \in DOMAIN log' /\ log'[a.id] = x
                    BY <1>0, <2>1, <2>5, <4>2
                <5>2. AsSent(a.id)' = [topic |-> Sent(log'[a.id]).topic,
                                       body |-> Sent(log'[a.id]).body,
                                       qos |-> Sent(log'[a.id]).qos, id |-> a.id]
                    BY DEF AsSent, Sent, QosOf
                <5> QED
                    BY <2>5, <4>2, <5>1, <5>2 DEF f
            <4> QED
                BY <2>7, <4>1, <4>2
        <3> QED
            BY <3>1 DEF Recorded
    <2>9. Mirror'
        <3>1. ASSUME NEW l \in LineSet, retained'[l] # "none"
              PROVE  \E r \in subRetained' : r.topic = <<l, "status">> /\ r.body = retained'[l]
            <4>1. x.line \in LineSet /\ (x \notin Readings <=> x.sensor = "status")
                BY <2>0, MessageSensor
            <4>2. CASE x \in Readings
                BY <1>0, <2>2, <2>4, <2>6, <3>1, <4>1, <4>2 DEF Mirror
            <4>3. CASE x \notin Readings /\ l = x.line
                <5>1. c \in subRetained' /\ c.topic = <<l, "status">> /\ c.body = x.body
                    BY <2>4, <2>5, <2>6, <4>1, <4>3
                <5>2. retained'[l] = x.body
                    BY <1>0, <2>2, <4>3
                <5> QED
                    BY <5>1, <5>2
            <4>4. CASE x \notin Readings /\ l # x.line
                <5>1. retained'[l] = retained[l]
                    BY <1>0, <2>2, <4>4
                <5>2. PICK r \in subRetained : r.topic = <<l, "status">> /\ r.body = retained[l]
                    BY <1>0, <3>1, <5>1 DEF Mirror
                <5>3. r.topic # f.topic
                    BY <2>4, <4>4, <5>2
                <5>4. r \in subRetained'
                    BY <2>6, <5>3
                <5> QED
                    BY <5>1, <5>2, <5>4
            <4> QED
                BY <4>2, <4>3, <4>4
        <3> QED
            BY <3>1 DEF Mirror
    <2> QED
        BY <2>1, <2>3, <2>8, <2>9 DEF Ties
<1>3. CASE Silent
    <2>1. log' = log /\ published' = published
        BY <1>3 DEF Silent
    <2>2. S!Known' \subseteq S!Known /\ subRetained' = subRetained
        BY <1>0, <1>1, <2>1, SubInventsNothing
    <2>3. /\ retained' = retained
          /\ \A m \in Readings : forwarded'[m] > 0 => forwarded[m] > 0
        BY <1>0, <1>3, SilentEffects
    <2>4. Logs' /\ PassedOn'
        BY <1>0, <1>1, <2>1, <2>3 DEF Logs, PassedOn
    <2>5. Mirror'
        BY <1>0, <2>2, <2>3 DEF Mirror
    <2>6. Recorded'
        BY <1>0, <2>1, <2>2 DEF Recorded, AsSent, Sent, QosOf
    <2> QED
        BY <2>4, <2>5, <2>6 DEF Ties
<1> QED
    BY <1>1, <1>2, <1>3

\* The invariant of the system holds to begin with ...
LEMMA SystemInvInit == SystemInit => SystemInv
BY FlowInvInit, SubStarts, SubInvInit, TiesInit DEF SystemInit, SystemInv

\* ... and after each step.
LEMMA SystemInvStep == SystemInv /\ [SystemNext]_systemVars => SystemInv'
<1> SUFFICES ASSUME SystemInv, [SystemNext]_systemVars PROVE SystemInv'
    OBVIOUS
<1>1. [Next]_vars /\ [S!Next]_S!vars
    BY SystemSteps DEF SystemInv, FlowInv, IInv
<1> QED
    BY <1>1, FlowInvStep, SubInvStep, TiesStep DEF SystemInv

-----------------------------------------------------------------------------
(* Who has a reading of QoS 1 or 2. *)

Done(m)     == \E i \in PassedOnAs(m) : handled[i] > 0
Waiting(m)  == \E i \in PassedOnAs(m) : \E k \in DOMAIN pending : pending[k].id = i
InFlight(m) == {m, Release(m)} \cap (Range(unacked) \cup Range(wire)) # {}

\* The messages the system answers for are readings that paho keeps.
LEMMA KeptIsReading == \A m \in Kept : m \in Readings /\ m \in Messages /\ QosOf(m) > 0
BY DEF Kept, Messages

\* The ids of the log are those of the session.
LEMMA LogIds ==
    SystemInv => /\ DOMAIN log = 1..published /\ DOMAIN log \subseteq S!Ids /\ published \in Nat
                 /\ \A i \in DOMAIN log : handled[i] \in Nat
<1> SUFFICES ASSUME SystemInv
             PROVE  /\ DOMAIN log = 1..published /\ DOMAIN log \subseteq S!Ids /\ published \in Nat
                    /\ \A i \in DOMAIN log : handled[i] \in Nat
    OBVIOUS
<1>1. Logs /\ handled \in [S!Ids -> Nat] /\ published \in 0..MaxMsgs /\ MaxMsgs \in Nat
    BY SubHolds, SessionAssumption DEF SystemInv, Ties
<1>2. DOMAIN log = 1..published
    BY <1>1 DEF Logs
<1> QED
    BY <1>1, <1>2 DEF S!Ids

\* HolderOf, as a choice among five cases of which none overlap.
Keeper(m) ==
    IF Done(m) THEN "done"
    ELSE IF Waiting(m) THEN "broker"
    ELSE IF InFlight(m) THEN "sender"
    ELSE IF m \in handed THEN "lost" ELSE "new"

\* Who has a reading, told by Done, Waiting and InFlight.
LEMMA HolderIs == SystemInv => \A m \in Kept : HolderOf(m) = Keeper(m)
<1> SUFFICES ASSUME SystemInv, NEW m \in Kept PROVE HolderOf(m) = Keeper(m)
    OBVIOUS
<1>1. \A i \in PassedOnAs(m) : handled[i] \in Nat
    BY LogIds DEF PassedOnAs
<1>2. (\A i \in PassedOnAs(m) : handled[i] = 0) <=> ~Done(m)
    BY <1>1 DEF Done
<1>3. Holds(unacked, m) \/ Holds(wire, m) <=> InFlight(m)
    BY DEF Holds, InFlight, Range
<1>4. CASE Done(m)
    BY <1>2, <1>4 DEF HolderOf, Done, Keeper
<1>5. CASE ~Done(m) /\ Waiting(m)
    BY <1>2, <1>5 DEF HolderOf, Done, Waiting, Keeper
<1>6. CASE ~Done(m) /\ ~Waiting(m)
    BY <1>2, <1>3, <1>6 DEF HolderOf, Done, Waiting, Keeper
<1> QED
    BY <1>4, <1>5, <1>6

\* A reading the broker has passed on, and the session has taken over, is waiting
\* or done.
LEMMA TakenOverIsHeld ==
    ASSUME SystemInv, NEW m, NEW i \in PassedOnAs(m), TakenOver(i)
    PROVE  Done(m) \/ Waiting(m)
<1>1. PICK a \in accepted : a.id = i
    BY DEF TakenOver
<1>2. (\E k \in DOMAIN pending : pending[k].id = i) \/ handled[i] > 0
    BY <1>1, SubHolds DEF SystemInv, Answered
<1> QED
    BY <1>2 DEF Done, Waiting

\* No reading disappears unnoticed: one that nobody has any more and nobody has
\* handled was published by a process that has been replaced, or the subscriber's
\* session refused it (publisher.py, lines 139-156; subscriber.py, lines 56-64).
THEOREM ReadingsAccountedFor == SystemSpec => []NoSilentLoss
<1>1. SystemInv => NoSilentLoss
    <2> SUFFICES ASSUME SystemInv, NEW m \in Kept, HolderOf(m) = "lost", m.run = run,
                        \A i \in PassedOnAs(m) : TakenOver(i)
                 PROVE  FALSE
        BY DEF NoSilentLoss
    <2>1. ~Done(m) /\ ~Waiting(m) /\ ~InFlight(m) /\ m \in handed
        BY HolderIs DEF Keeper
    <2>2. forwarded[m] > 0
        BY <2>1, KeptIsReading DEF SystemInv, FlowInv, Delivery, NoneLost, InFlight
    <2>3. PICK i \in DOMAIN log : log[i] = m
        BY <2>2, KeptIsReading DEF SystemInv, Ties, PassedOn
    <2>4. i \in PassedOnAs(m)
        BY <2>3 DEF PassedOnAs
    <2> QED
        BY <2>1, <2>4, TakenOverIsHeld
<1> QED
    BY <1>1, SystemInvInit, SystemInvStep, PTL DEF SystemSpec

\* What a quiet subscriber shows for a line is what the broker retains for the
\* publisher, its will included, whatever the two programs and their connections
\* have been through, unless its session refused a status of that line.
THEOREM ScreenIsRetained == SystemSpec => []ShownIsRetained
<1>1. SystemInv => ShownIsRetained
    <2> SUFFICES ASSUME SystemInv, conn, subWire = <<>>, request = <<>>, NEW l \in LineSet,
                        retained[l] # "none", <<l, "status">> \notin missed
                 PROVE  shown[<<l, "status">>] > 0 /\ log[shown[<<l, "status">>]].body = retained[l]
        BY DEF ShownIsRetained
    <2>1. PICK r \in subRetained : r.topic = <<l, "status">> /\ r.body = retained[l]
        BY DEF SystemInv, Ties, Mirror
    <2>2. shown[r.topic] = r.id
        BY <2>1, SubShows DEF SystemInv, S!StatusConverges
    <2>3. r.id \in DOMAIN log /\ r = AsSent(r.id)
        BY DEF SystemInv, Ties, Recorded, S!Known
    <2>4. r.body = log[r.id].body
        BY <2>3, SentFields DEF AsSent
    <2>5. r.id > 0
        BY <2>3, LogIds
    <2> QED
        BY <2>1, <2>2, <2>4, <2>5
<1> QED
    BY <1>1, SystemInvInit, SystemInvStep, PTL DEF SystemSpec

-----------------------------------------------------------------------------
(* The three parties together implement Custody. *)

\* The publisher's part: what is handed over is held by paho at once, and what
\* paho and the connection have let go of does not come back.
LEMMA InFlightSteps ==
    ASSUME FlowInv, [Next]_vars, NEW m \in Kept
    PROVE  /\ m \in handed \/ ~InFlight(m)
           /\ m \in handed' => m \in handed \/ InFlight(m)'
           /\ InFlight(m)' => m \in handed' /\ (m \in handed => InFlight(m))
<1>0. /\ IInv /\ TypeOK /\ Numbered /\ Unsaid /\ Traced /\ Single /\ Traced'
      /\ QosOf(m) > 0 /\ m \in Readings
    BY FlowInvStep, KeptIsReading DEF FlowInv, IInv, Flow
<1> PICK r : r = Release(m)
    OBVIOUS
<1>r. r.body = "release" /\ Origin(r) = m /\ Origin(m) = m /\ r # m
    BY <1>0, ReleaseFields, ReadingShape DEF Origin
<1>f. /\ InFlight(m) <=> m \in Range(unacked) \cup Range(wire) \/ r \in Range(unacked) \cup Range(wire)
      /\ InFlight(m)' <=> m \in Range(unacked') \cup Range(wire') \/ r \in Range(unacked') \cup Range(wire')
    BY DEF InFlight, Release
<1>1. m \in handed \/ ~InFlight(m)
    BY <1>0, <1>f, <1>r DEF Traced, Underway
<1>2. InFlight(m)' => m \in handed'
    BY <1>0, <1>f, <1>r DEF Traced, Underway
<1>3. /\ m \in handed' => m \in handed \/ InFlight(m)'
      /\ InFlight(m)' /\ m \in handed => InFlight(m)
    <2>1. ASSUME handed' = handed, Range(unacked') \subseteq Range(unacked),
                 Range(wire') \subseteq Range(wire) \cup Range(unacked)
          PROVE  /\ m \in handed' => m \in handed \/ InFlight(m)'
                 /\ InFlight(m)' /\ m \in handed => InFlight(m)
        BY <1>f, <2>1
    <2>2. CASE \E x : Gives(x)
        <3>1. PICK x : Gives(x)
            BY <2>2
        <3>2. /\ Range(unacked') = Range(unacked) \cup (IF QosOf(x) = 0 THEN {} ELSE {x})
              /\ Range(wire') = Range(wire) \cup (IF Open THEN {x} ELSE {})
              /\ handed' = handed \cup {x} /\ x \notin handed /\ x.body # "release"
            BY <1>0, <3>1, GiveRanges DEF Gives
        <3> QED
            BY <1>0, <1>f, <1>r, <3>2
    <2>3. CASE OpenSocket \/ Connected
        <3>1. handed' = handed /\ unacked' = unacked
            BY <2>3 DEF OpenSocket, Connected, mainVars
        <3>2. Range(wire') \subseteq Range(wire) \cup Range(unacked)
            BY <1>0, <2>3, JoinRanges, OwedHeld, NothingUnderWay DEF OpenSocket
        <3> QED
            BY <2>1, <3>1, <3>2
    <2>4. CASE Acked
        BY <1>0, <2>1, <2>4, AckRanges
    <2>5. CASE Received
        <3> PICK p : p = Head(acks)
            OBVIOUS
        <3>1. /\ p \in Readings /\ p \in Range(unacked) /\ Origin(p) = p
              /\ Origin(Release(p)) = p /\ handed' = handed
              /\ Range(unacked') = (Range(unacked) \ {p}) \cup {Release(p)}
              /\ Range(wire') = Range(wire) \cup {Release(p)}
            BY <1>0, <2>5, ReleaseRanges
        <3>2. m = Release(p) \/ r = Release(p) => m = p
            BY <1>r, <3>1
        <3> QED
            BY <1>f, <3>1, <3>2
    <2>6. CASE BrokerReceives
        BY <1>0, <2>1, <2>6, ReceiveRanges
    <2>7. CASE Quiet \/ Restart \/ Severed \/ DetectLoss
        BY <2>1, <2>7, NothingUnderWay DEF Quiet, Restart, Severed, DetectLoss, mainVars, clientVars, wireVars
    <2> QED
        BY <1>0, <2>2, <2>3, <2>4, <2>5, <2>6, <2>7, Steps
<1> QED
    BY <1>1, <1>2, <1>3

\* What the broker has passed on, after a step.
LEMMA PassedOnSteps ==
    ASSUME SystemInv, [SystemNext]_systemVars, NEW m \in Kept
    PROVE  /\ PassedOnAs(m) \subseteq PassedOnAs(m)'
           /\ \A i \in PassedOnAs(m)' :
                 \/ i \in PassedOnAs(m)
                 \/ i = published + 1 /\ InFlight(m)
<1>1. Logs /\ published \in Nat /\ FlowInv /\ Mirror /\ TypeOK
    BY LogIds DEF SystemInv, Ties, FlowInv, IInv
<1>2. (\E x : Passing(x)) \/ Silent
    BY <1>1, SystemSteps
<1>3. CASE \E x : Passing(x)
    <2>1. PICK x : Passing(x)
        BY <1>3
    <2>2. /\ DOMAIN log = 1..published /\ DOMAIN log' = 1..(published + 1)
          /\ \A i \in 1..published : log'[i] = log[i]
          /\ log'[published + 1] = x
        BY <1>1, <2>1, LogGrows
    <2>3. x \in Readings => InFlight(x)
        BY <1>1, <2>1, PassingEffects DEF InFlight
    <2>4. \A i \in DOMAIN log' : i \in DOMAIN log \/ i = published + 1
        BY <1>1, <2>2
    <2> QED
        BY <1>1, <2>2, <2>3, <2>4, KeptIsReading DEF PassedOnAs
<1>4. CASE Silent
    BY <1>4 DEF Silent, PassedOnAs
<1> QED
    BY <1>2, <1>3, <1>4

\* A reading is handled for the first time only while the session holds it.
LEMMA DoneSteps ==
    ASSUME SystemInv, [SystemNext]_systemVars, NEW m \in Kept
    PROVE  /\ Done(m) => Done(m)'
           /\ Done(m)' => Done(m) \/ Waiting(m)
<1>1. /\ SystemInv' /\ SubInv /\ Recorded /\ [S!Next]_S!vars
      /\ DOMAIN log = 1..published /\ DOMAIN log \subseteq S!Ids /\ published \in Nat
    BY SystemInvStep, SystemSteps, LogIds DEF SystemInv, Ties, FlowInv, IInv
<1>2. \A i \in S!Ids :
          /\ handled[i] > 0 => handled'[i] > 0
          /\ handled'[i] > 0 =>
                \/ handled[i] > 0
                \/ \E a \in S!Known : a.id = i /\ (a.qos = 1 => a \in S!ToSet(pending))
    BY <1>1, SubHandles
<1>3. Done(m) => Done(m)'
    <2>1. \A i \in PassedOnAs(m) : i \in S!Ids /\ i \in PassedOnAs(m)'
        BY <1>1, PassedOnSteps DEF PassedOnAs
    <2> QED
        BY <1>2, <2>1 DEF Done
<1>4. ASSUME NEW i \in PassedOnAs(m)', handled'[i] > 0 PROVE Done(m) \/ Waiting(m)
    <2>1. i \in S!Ids
        <3>1. DOMAIN log' \subseteq S!Ids
            <4>1. (DOMAIN log \subseteq S!Ids)'
                BY <1>1, LogIds, PTL
            <4> QED
                BY <4>1 DEF S!Ids
        <3> QED
            BY <3>1 DEF PassedOnAs
    <2>2. CASE i \in PassedOnAs(m)
        <3>1. CASE handled[i] > 0
            BY <2>2, <3>1 DEF Done
        <3>2. CASE \E a \in S!Known : a.id = i /\ (a.qos = 1 => a \in S!ToSet(pending))
            <4>1. PICK a \in S!Known : a.id = i /\ (a.qos = 1 => a \in S!ToSet(pending))
                BY <3>2
            <4>2. a = AsSent(i) /\ log[i] = m
                BY <1>1, <2>2, <4>1 DEF Recorded, PassedOnAs
            <4>3. a.qos = 1
                BY <4>2, SentFields, KeptIsReading DEF AsSent
            <4>4. \E k \in DOMAIN pending : pending[k].id = i
                BY <4>1, <4>3 DEF S!ToSet
            <4> QED
                BY <2>2, <4>4 DEF Waiting
        <3> QED
            BY <1>2, <1>4, <2>1, <3>1, <3>2
    <2>3. CASE i = published + 1
        <3>1. handled[i] = 0
            BY <1>1, <2>1, <2>3, SubHolds
        <3>2. ~\E a \in S!Known : a.id = i
            BY <1>1, <2>3 DEF Recorded
        <3> QED
            BY <1>2, <1>4, <2>1, <3>1, <3>2
    <2> QED
        BY <2>2, <2>3, PassedOnSteps
<1> QED
    BY <1>3, <1>4 DEF Done

\* The session lets go of a reading only when it is done, and holds it only after
\* the publisher or its connection did.
LEMMA WaitingSteps ==
    ASSUME SystemInv, [SystemNext]_systemVars, NEW m \in Kept
    PROVE  /\ Waiting(m) => Waiting(m)' \/ Done(m)'
           /\ Waiting(m)' => Waiting(m) \/ InFlight(m)
<1>1. /\ SystemInv' /\ SubInv /\ SubInv' /\ Recorded /\ Logs /\ [S!Next]_S!vars
      /\ DOMAIN log = 1..published /\ published \in Nat /\ FlowInv /\ Mirror
    BY SystemInvStep, SystemSteps, LogIds DEF SystemInv, Ties, FlowInv, IInv
<1>2. ASSUME NEW i \in PassedOnAs(m), NEW k \in DOMAIN pending, pending[k].id = i
      PROVE  Waiting(m)' \/ Done(m)'
    <2>1. i \in PassedOnAs(m)'
        BY PassedOnSteps
    <2>2. pending[k] \in accepted'
        BY <1>1, SubHolds, SubAccepts
    <2>3. Answered'
        BY <1>1, SubHolds, PTL
    <2> QED
        BY <1>2, <2>1, <2>2, <2>3 DEF Answered, Waiting, Done
<1>3. ASSUME NEW i \in PassedOnAs(m)', NEW k \in DOMAIN pending', pending'[k].id = i
      PROVE  Waiting(m) \/ InFlight(m)
    <2>1. CASE i \notin PassedOnAs(m)
        BY <2>1, PassedOnSteps
    <2>2. CASE i \in PassedOnAs(m) /\ pending'[k] \in S!ToSet(pending)
        BY <1>3, <2>2 DEF Waiting, S!ToSet
    <2>3. CASE i \in PassedOnAs(m) /\ pending'[k] \in subRetained
        <3>1. pending'[k] = AsSent(i) /\ log[i] = m
            BY <1>1, <1>3, <2>3 DEF Recorded, S!Known, PassedOnAs
        <3>2. pending'[k].topic \in {<<l, "status">> : l \in LineSet}
            BY <1>1, <2>3 DEF SubInv, S!Converging, S!Statuses
        <3>3. pending'[k].topic = <<m.line, m.sensor>> /\ m.sensor # "status"
            BY <3>1, SentFields, KeptIsReading, MessageSensor DEF AsSent
        <3> QED
            BY <3>2, <3>3
    <2>4. CASE \E x : Passing(x)
        <3>1. PICK x : Passing(x)
            BY <2>4
        <3>2. Sent(x) \in Feed /\ S!BrokerTakes(Sent(x))
            BY <3>1 DEF Passing, Feed
        <3>3. pending'[k] \in S!ToSet(pending) \/ pending'[k].id = published + 1
            BY <1>1, <3>2, SubTakes DEF S!MessageOf
        <3>4. i \in PassedOnAs(m) => i # published + 1
            BY <1>1 DEF PassedOnAs
        <3> QED
            BY <1>3, <2>1, <2>2, <3>3, <3>4
    <2>5. CASE Silent
        <3>1. pending'[k] \in S!ToSet(pending) \cup subRetained
            BY <1>1, <2>5, SubInventsNothing DEF Silent
        <3> QED
            BY <2>1, <2>2, <2>3, <3>1
    <2> QED
        BY <2>4, <2>5, SystemSteps DEF SystemInv, FlowInv, IInv
<1> QED
    BY <1>2, <1>3 DEF Waiting

\* A step of the system is, for each reading, a change of hands Custody allows.
LEMMA ChainSteps ==
    SystemInv /\ [SystemNext]_systemVars => [Chain!Next]_KeptHolder
<1> SUFFICES ASSUME SystemInv, [SystemNext]_systemVars PROVE Chain!Next
    OBVIOUS
<1>0. SystemInv' /\ FlowInv /\ [Next]_vars /\ handed \subseteq handed'
    BY SystemInvStep, SystemSteps, HandedGrows DEF SystemInv, FlowInv, IInv
<1>a. /\ \A m \in Kept : HolderOf(m) = Keeper(m)
      /\ (\A m \in Kept : HolderOf(m) = Keeper(m))'
    BY <1>0, HolderIs, PTL
<1>1. ASSUME NEW m \in Kept
      PROVE  /\ HolderOf(m)' \in Chain!Stages
             /\ HolderOf(m)' = HolderOf(m) \/ <<HolderOf(m), HolderOf(m)'>> \in Chain!Forward
    <2>1. HolderOf(m) = Keeper(m) /\ HolderOf(m)' = Keeper(m)'
        BY <1>a DEF Kept, QosOf
    <2>3. /\ m \in handed \/ ~InFlight(m)
          /\ m \in handed' => m \in handed \/ InFlight(m)'
          /\ InFlight(m)' => m \in handed' /\ (m \in handed => InFlight(m))
        BY <1>0, InFlightSteps
    <2>4. /\ Done(m) => Done(m)'
          /\ Done(m)' => Done(m) \/ Waiting(m)
        BY DoneSteps
    <2>5. /\ Waiting(m) => Waiting(m)' \/ Done(m)'
          /\ Waiting(m)' => Waiting(m) \/ InFlight(m)
        BY WaitingSteps
    <2> QED
        BY <1>0, <2>1, <2>3, <2>4, <2>5 DEF Keeper, Chain!Stages, Chain!Forward
<1>2. /\ KeptHolder = [m \in Kept |-> HolderOf(m)]
      /\ KeptHolder' = [m \in Kept |-> HolderOf(m)']
    BY DEF KeptHolder, Kept, QosOf
<1>3. KeptHolder' \in [Kept -> Chain!Stages]
    BY <1>1, <1>2
<1>4. \A m \in Kept : KeptHolder'[m] = KeptHolder[m]
                       \/ <<KeptHolder[m], KeptHolder'[m]>> \in Chain!Forward
    BY <1>1, <1>2
<1> QED
    BY <1>3, <1>4 DEF Chain!Next

\* The publisher, the broker and the subscriber together implement Custody for
\* every reading of QoS 1 and 2: a reading that paho has been given leaves it only
\* for the session, or is lost with its process or at a full session; the session
\* lets go of it only when on_message has returned; and no reading that is handled
\* or lost appears again at an earlier party (publisher.py, lines 85-89 and
\* 139-156; subscriber.py, lines 52-104).
THEOREM SystemRefinement == SystemSpec => SystemImplementsCustody
<1>1. SystemInit => Chain!Init
    <2> SUFFICES ASSUME SystemInit PROVE KeptHolder = [m \in Kept |-> "new"]
        BY DEF Chain!Init
    <2>1. log = <<>> /\ unacked = <<>> /\ wire = <<>> /\ handed = {}
        BY DEF SystemInit, Init
    <2>2. ASSUME NEW m \in Kept PROVE HolderOf(m) = "new"
        <3>1. PassedOnAs(m) = {} /\ ~InFlight(m)
            BY <2>1, NothingUnderWay, EmptySeq DEF PassedOnAs, InFlight
        <3> QED
            BY <2>1, <3>1, SystemInvInit, HolderIs DEF Keeper, Done, Waiting
    <2> QED
        BY <2>2 DEF KeptHolder
<1> QED
    BY <1>1, SystemInvInit, SystemInvStep, ChainSteps, PTL
       DEF SystemSpec, SystemImplementsCustody, Chain!Spec
=============================================================================
