--------------------------- MODULE MqttSubscriber ---------------------------
(***************************************************************************)
(* The wildcard subscriber of src/mqtt/subscriber.py and the broker's       *)
(* persistent session for it.  The subscriber runs paho's loop in its main  *)
(* thread, so on_connect and on_message run one at a time, and an exception *)
(* in on_message ends run() before the message is acknowledged.  The        *)
(* broker, paho and the publishing clients are external code.               *)
(*                                                                         *)
(* A message is told apart by an id given in publication order; a payload   *)
(* is told apart by what on_message does with it (see CONSTANTS).           *)
(***************************************************************************)
EXTENDS Naturals, Sequences, SequencesExt

CONSTANTS
    Feed,        \* what publishers may send: a set of [topic, body, qos, retain]
    Critical,    \* bodies: a JSON object whose value exceeds CRITICAL_TEMP
    Undecodable, \* bodies that are not UTF-8
    Mistyped,    \* bodies: a JSON object whose value is not a number
    StatusTopics, TempTopics,
    MaxPending,  \* max_queued_messages (and the in-flight window) of the session
    MaxMsgs,     \* bound: messages published
    MaxFaults,   \* bound: connections that break
    MaxRuns      \* bound: times the process is started

Topics == {f.topic : f \in Feed}
Bodies == {f.body : f \in Feed}
Ids    == 1..MaxMsgs
Messages == [topic : Topics, body : Bodies, qos : 0..1, id : Ids]

ASSUME FeedAssumption ==
    /\ Feed \subseteq [topic : Topics, body : Bodies, qos : 0..1, retain : BOOLEAN]
    /\ \A f \in Feed : (f.retain <=> f.topic \in StatusTopics) /\ (f.retain => f.qos = 1)
    /\ TempTopics \cap StatusTopics = {}
ASSUME BoundsAssumption ==
    MaxPending \in Nat \ {0} /\ MaxMsgs \in Nat /\ MaxFaults \in Nat /\ MaxRuns \in Nat \ {0}

VARIABLES
    pc,         \* "init", "running", "stopped" (Ctrl-C), "crashed" (exception)
    conn,       \* the connection is up
    request,    \* SUBSCRIBE packets on their way to the broker
    msgCounts,  \* self._msg_counts
    alerts,     \* self._alerts_fired
    due,        \* SUMMARY_INTERVAL has passed since self._last_summary
    shown,      \* history: the last message this process printed for each topic, 0 if none
    subs,       \* the session's subscriptions at the broker
    pending,    \* QoS 1 messages the session still owes the subscriber
    wire,       \* sent to the subscriber, not yet read by it
    acks,       \* PUBACKs on their way, for the oldest of pending
    retained,   \* the retained messages, at most one of each topic
    published,  \* the number of messages published
    accepted,   \* history: the QoS 1 messages the session has taken over
    handled,    \* history: on_message calls completed for each id
    alerted,    \* history: ids a CRITICAL ALERT has been printed for
    missed,     \* history: topics whose latest retained message the session refused
    faults, runs

clientVars  == <<pc, conn, request>>
memoryVars  == <<msgCounts, alerts, due>>
sessionVars == <<subs, pending, wire, acks>>
feedVars    == <<retained, published>>
historyVars == <<shown, accepted, handled, alerted, missed>>
vars == <<clientVars, memoryVars, sessionVars, feedVars, historyVars, faults, runs>>

ZeroCounts == [t \in Topics |-> 0]

Init ==
    /\ pc = "init" /\ conn = FALSE /\ request = <<>>
    /\ msgCounts = ZeroCounts /\ alerts = 0 /\ due = FALSE
    /\ subs = {} /\ pending = <<>> /\ wire = <<>> /\ acks = 0
    /\ retained = {} /\ published = 0
    /\ shown = ZeroCounts /\ accepted = {}
    /\ handled = [i \in Ids |-> 0] /\ alerted = {} /\ missed = {}
    /\ faults = 0 /\ runs = 1

-----------------------------------------------------------------------------
(* The broker's side of the session. *)

\* "factory/#" matches every topic, "factory/+/temperature" the temperatures.
Matching(t) == {s \in subs : s = "all" \/ t \in TempTopics}

\* The copies of a message a session is sent.  With overlapping subscriptions the
\* broker may send one copy or one for each subscription that matches.
Copies(m) ==
    CASE Matching(m.topic) = {}              -> {<<>>}
      [] Matching(m.topic) = {"all", "temp"} -> {<<m>>, <<m, m>>}
      [] OTHER                               -> {<<m>>}

\* QoS 1: the session takes over what its queue has room for and refuses the rest.
Enqueue(ms) ==
    LET room  == MaxPending - Len(pending)
        taken == SubSeq(ms, 1, IF Len(ms) < room THEN Len(ms) ELSE room)
        lost  == {m.topic : m \in ToSet(SubSeq(ms, Len(taken) + 1, Len(ms)))}
    IN  /\ pending' = pending \o taken
        /\ wire' = IF conn THEN wire \o taken ELSE wire
        /\ accepted' = accepted \cup ToSet(taken)
        /\ missed' = (missed \ {m.topic : m \in ToSet(taken)})
                        \cup (IF conn THEN lost ELSE {})

\* QoS 0: sent now or never.
SendNow(ms) ==
    /\ wire' = IF conn THEN wire \o ms ELSE wire
    /\ UNCHANGED <<pending, accepted, missed>>

\* A publisher's message reaches the broker.
BrokerTakes(f) ==
    LET m == [topic |-> f.topic, body |-> f.body, qos |-> f.qos, id |-> published + 1]
    IN  /\ published < MaxMsgs
        /\ published' = published + 1
        /\ retained' = IF f.retain THEN {r \in retained : r.topic # f.topic} \cup {m}
                        ELSE retained
        /\ \E copies \in Copies(m) : IF f.qos = 1 THEN Enqueue(copies) ELSE SendNow(copies)
        /\ UNCHANGED <<clientVars, memoryVars, subs, acks, shown, handled, alerted, faults, runs>>

BrokerPublishes == \E f \in Feed : BrokerTakes(f)

\* The retained messages a subscription matches.
RetainedFor(s) == {m \in retained : s = "all" \/ m.topic \in TempTopics}

\* SUBSCRIBE: the subscription is stored and the retained messages it matches
\* are sent, in whatever order, whether or not it was there before.
BrokerSubscribes ==
    /\ request # <<>>
    /\ request' = Tail(request)
    /\ subs' = subs \cup {Head(request)}
    /\ \E ms \in SetToSeqs(RetainedFor(Head(request))) : Enqueue(ms)
    /\ UNCHANGED <<pc, conn, memoryVars, acks, feedVars, shown, handled, alerted, faults, runs>>

BrokerAcked ==
    /\ acks > 0
    /\ acks' = acks - 1 /\ pending' = Tail(pending)
    /\ UNCHANGED <<clientVars, memoryVars, subs, wire, feedVars, historyVars, faults, runs>>

\* The connection breaks, in either direction nothing more arrives.
Drop ==
    /\ conn /\ faults < MaxFaults
    /\ faults' = faults + 1
    /\ conn' = FALSE /\ request' = <<>> /\ wire' = <<>> /\ acks' = 0
    /\ UNCHANGED <<pc, memoryVars, subs, pending, feedVars, historyVars, runs>>

-----------------------------------------------------------------------------
(* The subscriber. *)

\* run(): connect() has succeeded, the loop starts.  An unreachable broker ends
\* the process here, before anything else happens.
Run ==
    /\ pc = "init" /\ pc' \in {"running", "crashed"}
    /\ UNCHANGED <<conn, request, memoryVars, sessionVars, feedVars, historyVars, faults, runs>>

\* Mutated form: the subscriptions are made on the first connection only.
ConnectedOnce ==
    /\ pc = "running" /\ ~conn
    /\ conn' = TRUE /\ wire' = pending /\ acks' = 0
    /\ request' = IF subs = {} THEN <<"all", "temp">> ELSE <<>>
    /\ UNCHANGED <<pc, memoryVars, subs, pending, feedVars, historyVars, faults, runs>>

\* Mutated form: the client asks for a clean session.
ConnectedClean ==
    /\ pc = "running" /\ ~conn
    /\ conn' = TRUE /\ wire' = <<>> /\ pending' = <<>> /\ acks' = 0
    /\ subs' = {} /\ request' = <<"all", "temp">>
    /\ UNCHANGED <<pc, memoryVars, feedVars, historyVars, faults, runs>>

\* A connection is made, the first or a later one: the broker sends again what
\* is pending, and on_connect subscribes to both filters.
Connected ==
    /\ pc = "running" /\ ~conn
    /\ conn' = TRUE /\ wire' = pending /\ acks' = 0
    /\ request' = <<"all", "temp">>
    /\ UNCHANGED <<pc, memoryVars, subs, pending, feedVars, historyVars, faults, runs>>

\* Mutated form: the PUBACKs already written are counted again later.
LeaveConnectionKept ==
    /\ conn' = FALSE /\ request' = <<>> /\ wire' = <<>> /\ UNCHANGED acks
    /\ pending' = SubSeq(pending, acks + 1, Len(pending))

\* client.disconnect() and the end of the process: the PUBACKs already written
\* reach the broker before the DISCONNECT does.
LeaveConnection ==
    /\ conn' = FALSE /\ request' = <<>> /\ wire' = <<>> /\ acks' = 0
    /\ pending' = SubSeq(pending, acks + 1, Len(pending))

\* Whether on_message raises: line 74 decodes again what line 72 could not decode,
\* and line 96 compares the value of a temperature with a number.
Raising(m) == m.body \in Undecodable \/ (m.topic \in TempTopics /\ m.body \in Mistyped)

Count(m) == msgCounts' = [msgCounts EXCEPT ![m.topic] = @ + 1]

\* Whether _check_temperature_alert prints an alert for m.
Alerting(m) == m.topic \in TempTopics /\ m.body \in Critical

\* on_message returns: counted, printed, alerted, summarised when one is due;
\* paho then acknowledges a QoS 1 message.
OnMessage ==
    LET m == Head(wire)
    IN  /\ pc = "running" /\ wire # <<>> /\ ~Raising(m)
        /\ wire' = Tail(wire)
        /\ acks' = IF m.qos = 1 THEN acks + 1 ELSE acks
        /\ Count(m)
        /\ shown' = [shown EXCEPT ![m.topic] = m.id]
        /\ alerts' = IF Alerting(m) THEN alerts + 1 ELSE alerts
        /\ alerted' = IF Alerting(m) THEN alerted \cup {m.id} ELSE alerted
        /\ due' = FALSE
        /\ handled' = [handled EXCEPT ![m.id] = @ + 1]
        /\ UNCHANGED <<clientVars, subs, pending, feedVars, accepted, missed, faults, runs>>

\* Mutated form: the message is acknowledged before on_message runs.
OnMessageInterruptedAcked ==
    LET m == Head(wire)
    IN  /\ pc = "running" /\ wire # <<>>
        /\ pc' = "stopped"
        /\ conn' = FALSE /\ request' = <<>> /\ wire' = <<>> /\ acks' = 0
        /\ pending' = SubSeq(pending, acks + m.qos + 1, Len(pending))
        /\ Count(m)
        /\ UNCHANGED <<alerts, due, subs, feedVars, historyVars, faults, runs>>

\* Ctrl-C inside on_message: the message is counted, perhaps printed, perhaps
\* alerted, and not acknowledged.
OnMessageInterrupted ==
    LET m == Head(wire)
    IN  /\ pc = "running" /\ wire # <<>> /\ ~Raising(m)
        /\ pc' = "stopped" /\ LeaveConnection
        /\ Count(m)
        /\ shown' \in {shown, [shown EXCEPT ![m.topic] = m.id]}
        /\ \/ UNCHANGED <<alerts, alerted>>
           \/ Alerting(m) /\ alerts' = alerts + 1 /\ alerted' = alerted \cup {m.id}
        /\ UNCHANGED <<due, subs, feedVars, accepted, handled, missed, faults, runs>>

\* on_message raises: the exception leaves loop_forever(), and run()'s finally
\* disconnects.
OnMessageRaises ==
    LET m == Head(wire)
    IN  /\ pc = "running" /\ wire # <<>> /\ Raising(m)
        /\ pc' = "crashed" /\ LeaveConnection
        /\ Count(m)
        /\ UNCHANGED <<alerts, due, subs, feedVars, historyVars, faults, runs>>

\* Ctrl-C between two messages.
Interrupt ==
    /\ pc = "running"
    /\ pc' = "stopped" /\ LeaveConnection
    /\ UNCHANGED <<memoryVars, subs, feedVars, historyVars, faults, runs>>

\* SUMMARY_INTERVAL passes.
Tick ==
    /\ pc = "running" /\ ~due
    /\ due' = TRUE
    /\ UNCHANGED <<clientVars, msgCounts, alerts, sessionVars, feedVars, historyVars, faults, runs>>

\* The program is started again: its memory is new, the broker's session is not.
Restart ==
    /\ pc \in {"stopped", "crashed"} /\ runs < MaxRuns
    /\ pc' = "init" /\ runs' = runs + 1
    /\ msgCounts' = ZeroCounts /\ alerts' = 0 /\ due' = FALSE /\ shown' = ZeroCounts
    /\ UNCHANGED <<conn, request, sessionVars, feedVars, accepted, handled, alerted, missed, faults>>

-----------------------------------------------------------------------------
Next ==
    \/ BrokerPublishes \/ BrokerSubscribes \/ BrokerAcked \/ Drop
    \/ Run \/ Connected \/ OnMessage \/ OnMessageInterrupted \/ OnMessageRaises
    \/ Interrupt \/ Tick \/ Restart

Spec == Init /\ [][Next]_vars

\* The loop and the broker keep working; paho reconnects by itself.  Nothing
\* obliges a publisher to publish or the operator to interrupt or restart.
Fairness ==
    /\ WF_vars(Run) /\ WF_vars(Connected) /\ WF_vars(OnMessage \/ OnMessageRaises)
    /\ WF_vars(BrokerSubscribes) /\ WF_vars(BrokerAcked)

FairSpec == Spec /\ Fairness

-----------------------------------------------------------------------------
(* Properties. *)

\* Every variable keeps its type, and the session's queue its bound.
TypeOK ==
    /\ pc \in {"init", "running", "stopped", "crashed"}
    /\ conn \in BOOLEAN /\ request \in {<<>>, <<"temp">>, <<"all", "temp">>}
    /\ msgCounts \in [Topics -> Nat] /\ alerts \in Nat /\ due \in BOOLEAN
    /\ shown \in [Topics -> 0..MaxMsgs]
    /\ subs \subseteq {"all", "temp"}
    /\ pending \in Seq(Messages) /\ Len(pending) <= MaxPending
    /\ wire \in Seq(Messages) /\ acks \in 0..Len(pending)
    /\ published \in 0..MaxMsgs
    /\ handled \in [Ids -> Nat] /\ accepted \subseteq Messages /\ alerted \subseteq Ids
    /\ retained \subseteq Messages /\ missed \subseteq Topics

Owed(m) == \E k \in DOMAIN pending : pending[k].id = m.id

\* on_message has returned for m, and the alert m calls for has been printed.
DealtWith(m) == handled[m.id] > 0 /\ (Alerting(m) => m.id \in alerted)

\* At least once, through lost connections, Ctrl-C at any point (inside on_message
\* too), exceptions and restarts: what the session took over is handled or still
\* owed, and a critical temperature is alerted or still owed.  Lines 68-84, 95-104.
NothingTakenOverIsLost == \A m \in accepted : Owed(m) \/ DealtWith(m)

\* Who has each message, seen from the session: it enters when the session takes
\* it over, and there is no other party before that.
Holder ==
    [i \in Ids |->
        CASE \E m \in accepted : m.id = i /\ DealtWith(m)             -> "done"
          [] \E m \in accepted : m.id = i /\ ~DealtWith(m) /\ Owed(m)  -> "broker"
          [] \E m \in accepted : m.id = i /\ ~DealtWith(m) /\ ~Owed(m) -> "lost"
          [] OTHER                                                    -> "new"]

Promise == INSTANCE Custody WITH Items <- Ids, Entry <- "broker", at <- Holder

\* The subscriber and its session implement Custody: a message is never handled
\* before the session answers for it, and never leaves the session unhandled.
ImplementsCustody == Promise!Spec

\* When the connection is quiet, the last status this process printed for a line
\* is the one the broker retains, whatever it missed before it subscribed or while
\* it was away: on_connect subscribes every time.  The exception is a status the
\* full queue refused during this very connection.  Lines 56-64.
StatusConverges ==
    conn /\ wire = <<>> /\ request = <<>> =>
        \A r \in retained : shown[r.topic] = r.id \/ r.topic \in missed

\* A message the session took over is handled in the end, unless the process
\* ends, whatever is published meanwhile and however the queue overflows.
EventuallyHandled ==
    \A i \in Ids :
        (\E m \in accepted : m.id = i) ~> (handled[i] > 0 \/ pc \in {"stopped", "crashed"})

\* What run() says of itself, "Connect and block until interrupted" (line 117):
\* once it listens, only Ctrl-C ends it.
BlocksUntilInterrupted == [][pc = "running" => pc' \in {"running", "stopped"}]_vars
=============================================================================
