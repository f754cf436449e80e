------------------------------ MODULE MqttSystem ------------------------------
(***************************************************************************)
(* The publisher, the broker and the subscriber together: every message the *)
(* broker receives from the publisher, and every will it publishes for it,  *)
(* goes to the subscriber's session in the same step.  The two programs     *)
(* share nothing else.                                                      *)
(*                                                                         *)
(* The publisher's variables keep their names; those of the subscriber that *)
(* have the same names are prefixed with "sub".                             *)
(***************************************************************************)
EXTENDS MqttPublisher

CONSTANTS
    MaxPending,    \* the bound of the subscriber's session queue
    MaxMsgs,       \* bound: messages the broker passes on
    MaxFailures    \* bound: broken connections and second starts, of both programs together

ASSUME FailuresAssumption == MaxFailures \in Nat
ASSUME SessionAssumption  == MaxPending \in Nat \ {0} /\ MaxMsgs \in Nat

VARIABLES
    subPc, conn, request, msgCounts, alerts, due, shown, subs, pending, subWire, subAcks,
    subRetained, published, accepted, handled, alerted, missed, subFaults, subRuns,
    log            \* history: the messages the broker passed on, by their number

\* What the subscriber is sent of a message: it subscribes with QoS 1, or with
\* QoS 2 to readings published with QoS 1.
Sent(m) ==
    [topic |-> <<m.line, m.sensor>>, body |-> m.body,
     qos |-> IF QosOf(m) = 0 THEN 0 ELSE 1, retain |-> m.sensor = "status"]

\* The publisher's readings are JSON objects whose value is a number; that they may
\* be critical makes no difference here.
Sub == INSTANCE MqttSubscriber WITH
    Feed <- {Sent(m) : m \in Messages},
    Critical <- {}, Undecodable <- {}, Mistyped <- {},
    StatusTopics <- {<<l, "status">> : l \in LineSet},
    TempTopics <- {<<l, "temperature">> : l \in LineSet},
    MaxFaults <- MaxFailures, MaxRuns <- MaxFailures + 1,
    pc <- subPc, wire <- subWire, acks <- subAcks, retained <- subRetained,
    faults <- subFaults, runs <- subRuns

subVars == <<subPc, conn, request, msgCounts, alerts, due, shown, subs, pending, subWire,
             subAcks, subRetained, published, accepted, handled, alerted, missed, subFaults,
             subRuns>>
systemVars == <<vars, subVars, log>>

SystemInit == Init /\ Sub!Init /\ log = <<>>

-----------------------------------------------------------------------------
(* The broker between the two programs. *)

\* m is the next message the broker passes on.
PassOn(m) == Sub!BrokerTakes(Sent(m)) /\ log' = Append(log, m)

Will == Status(WillLine, "offline", run)

\* The message that is passed on when the broker reads p: of QoS 2 at its release, if
\* the broker still has it, any other at once.
PassedOnBy(p) ==
    {m \in Messages : IF QosOf(p) = 2 THEN p = Release(m) /\ m \in stored ELSE p = m}

Receive ==
    /\ BrokerReceives
    /\ IF PassedOnBy(Head(wire)) = {}
       THEN UNCHANGED <<subVars, log>>
       ELSE \E m \in PassedOnBy(Head(wire)) : PassOn(m)

\* The two ways the broker finds out that the publisher's connection is gone.
TakeOver ==
    /\ OpenSocket
    /\ IF session THEN PassOn(Will) ELSE UNCHANGED <<subVars, log>>

NoticeLoss == DetectLoss /\ PassOn(Will)

-----------------------------------------------------------------------------
(* The steps of one program that the other does not see. *)

Publisher(A)  == A /\ UNCHANGED <<subVars, log>>
Subscriber(A) == A /\ UNCHANGED <<vars, log>>

\* A failure of one program, while the bound on all of them allows it; so is the end of
\* a program that may still be followed by a start or a broken connection.
Failing(A) == faults + subFaults + (run - 1) + (subRuns - 1) < MaxFailures /\ A

SystemNext ==
    \/ Receive \/ TakeOver \/ NoticeLoss
    \/ Publisher(Main \/ Interrupt \/ Dial \/ DialFails \/ Connected
                 \/ Acked \/ Received \/ BrokerDisconnects)
    \/ Publisher(Failing(Die \/ Drop \/ Redial \/ Restart))
    \/ Subscriber(Sub!BrokerSubscribes \/ Sub!BrokerAcked \/ Sub!Run \/ Sub!Connected
                  \/ Sub!OnMessage)
    \/ Subscriber(Failing(Sub!OnMessageInterrupted \/ Sub!Interrupt \/ Sub!Drop
                          \/ Sub!Restart))

SystemSpec == SystemInit /\ [][SystemNext]_systemVars

-----------------------------------------------------------------------------
(* Properties. *)

\* The readings somebody answers for: those of QoS 1 and 2.
Kept == {m \in Readings : QosOf(m) > 0}

PassedOnAs(m) == {i \in DOMAIN log : log[i] = m}
TakenOver(i)  == \E a \in accepted : a.id = i
Holds(s, m)   == \E k \in DOMAIN s : s[k] \in {m, Release(m)}

\* Who answers for a reading: the publisher's paho and what is on its way to the
\* broker, then the session, until on_message has returned.
HolderOf(m) ==
    CASE \E i \in PassedOnAs(m) : handled[i] > 0                        -> "done"
      [] /\ \A i \in PassedOnAs(m) : handled[i] = 0
         /\ \E i \in PassedOnAs(m) : \E k \in DOMAIN pending : pending[k].id = i -> "broker"
      [] OTHER -> IF Holds(unacked, m) \/ Holds(wire, m) THEN "sender"
                  ELSE IF m \in handed THEN "lost" ELSE "new"

KeptHolder == [m \in Kept |-> HolderOf(m)]

Chain == INSTANCE Custody WITH Items <- Kept, Entry <- "sender", at <- KeptHolder

\* The three parties together implement Custody for every reading of QoS 1 and 2:
\* the publisher lets go of a reading only when the session has it or never will,
\* and the session only when the subscriber has handled it.
SystemImplementsCustody == Chain!Spec

\* A reading that nobody has any more, unhandled, is not lost without a reason: the
\* process that published it has been replaced, or the session, full or not yet
\* there, refused it.
NoSilentLoss ==
    \A m \in Kept :
        HolderOf(m) = "lost" =>
            m.run # run \/ \E i \in PassedOnAs(m) : ~TakenOver(i)

\* What a subscriber with nothing under way has printed last for a line is the
\* status the broker retains for the publisher, its will included.
ShownIsRetained ==
    conn /\ subWire = <<>> /\ request = <<>> =>
        \A l \in LineSet :
            LET last == shown[<<l, "status">>]
            IN  \/ retained[l] = "none"
                \/ <<l, "status">> \in missed
                \/ last > 0 /\ log[last].body = retained[l]
=============================================================================
