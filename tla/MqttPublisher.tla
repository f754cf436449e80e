--------------------------- MODULE MqttPublisher ---------------------------
(***************************************************************************)
(* The sensor publisher of src/mqtt/publisher.py: its main thread (run,     *)
(* connect, publish_reading, disconnect), the network thread that paho's    *)
(* loop_start gives it, the TCP connection, and what the broker keeps for   *)
(* this client: the open session, the armed will, the retained status of    *)
(* each line and the readings it has accepted.  The paho client and the     *)
(* broker are external code, modelled from how the publisher uses them.     *)
(*                                                                         *)
(* Payload values, units and timestamps are left out: a reading is told     *)
(* apart by its line, sensor, sequence number and process run.              *)
(***************************************************************************)
EXTENDS Naturals, Sequences, SequencesExt

CONSTANTS
    Lines,      \* the sequence LINES
    Sensors,    \* the keys of SENSORS, in dict order, as a sequence
    Qos,        \* SENSORS[s]["qos"] for each sensor
    WillLine,   \* the one line whose status topic carries the will
    MaxSeq,     \* bound: readings per topic and process run
    MaxFaults,  \* bound: connections that break, replaced ones included
    MaxRuns     \* bound: times the process is started

LineSet   == {Lines[i] : i \in DOMAIN Lines}
SensorSet == {Sensors[i] : i \in DOMAIN Sensors}

ASSUME LinesAssumption   == Lines \in Seq(STRING) /\ Lines # <<>>
ASSUME LinesDiffer       == IsInjective(Lines)
ASSUME SensorsAssumption == /\ Sensors \in Seq(STRING) /\ Sensors # <<>>
                            /\ "status" \notin SensorSet
ASSUME QosAssumption     == Qos \in [SensorSet -> 0..2]
ASSUME WillAssumption    == WillLine \in LineSet
ASSUME BoundsAssumption  == MaxSeq \in Nat /\ MaxFaults \in Nat /\ MaxRuns \in Nat \ {0}

VARIABLES
    pc,         \* where the main thread is
    li, si,     \* the loop indices over LINES and SENSORS
    seq,        \* self._seq, 0 where the dict has no entry
    run,        \* which start of the process this is
    handed,     \* history: the messages given to client.publish
    link,       \* paho's connection: off, down, dialing, opening (no CONNACK yet), up
    unacked,    \* paho's unfinished QoS 1 and 2 packets, oldest first
    owed,       \* those of them that wait for CONNACK to be sent again
    ahead,      \* history: the lines and runs of which a message went ahead of an owed one
    wire,       \* packets written by the client, not yet read by the broker
    acks,       \* packets whose acknowledgement is on its way back
    bye,        \* a DISCONNECT packet follows what is on the wire
    session,    \* whether the broker holds the network connection open
    retained,   \* the retained status of each line at the broker
    stored,     \* QoS 2 messages the broker has taken and the client has not released
    forwarded,  \* copies of each reading the broker has passed to subscribers
    fired,      \* the will overwrote the will line's last "online"
    faults      \* connections broken so far

mainVars   == <<pc, li, si, seq, run, handed>>
clientVars == <<link, unacked, owed, ahead>>
wireVars   == <<wire, acks, bye>>
brokerVars == <<session, retained, stored, forwarded, fired>>
vars == <<mainVars, clientVars, wireVars, brokerVars, faults>>

-----------------------------------------------------------------------------
(* Messages. *)

Status(l, b, r)     == [line |-> l, sensor |-> "status", body |-> b, seq |-> 0, run |-> r]
Reading(l, s, n, r) == [line |-> l, sensor |-> s, body |-> "data", seq |-> n, run |-> r]

Statuses == {Status(l, b, r) : l \in LineSet, b \in {"online", "offline"}, r \in 1..MaxRuns}
Readings == {Reading(l, s, n, r) : l \in LineSet, s \in SensorSet, n \in 1..MaxSeq, r \in 1..MaxRuns}
Messages == Statuses \cup Readings

\* PUBREL: the client has been told that the broker has m, which has QoS 2.
Release(m) == [m EXCEPT !.body = "release"]

Releases == {Release(m) : m \in Readings}
Packets  == Messages \cup Releases

QosOf(m) == IF m.sensor = "status" THEN 1 ELSE Qos[m.sensor]

PCs   == {"init", "waiting", "announcing", "running", "leaving", "draining",
          "closing", "stopped", "dead"}
Links == {"off", "down", "dialing", "opening", "up"}

\* There is a socket to write to.
Open == link \in {"opening", "up"}

\* The network thread has been told to end (loop_stop) or does not exist.
Terminated == pc \in {"init", "draining", "closing", "stopped", "dead"}

-----------------------------------------------------------------------------
(* The main thread. *)

Init ==
    /\ pc = "init" /\ li = 1 /\ si = 1
    /\ seq = [t \in LineSet \X SensorSet |-> 0]
    /\ run = 1 /\ handed = {}
    /\ link = "off" /\ unacked = <<>> /\ owed = <<>> /\ ahead = {}
    /\ wire = <<>> /\ acks = <<>> /\ bye = FALSE
    /\ session = FALSE /\ retained = [l \in LineSet |-> "none"]
    /\ stored = {} /\ forwarded = [m \in Readings |-> 0] /\ fired = FALSE
    /\ faults = 0

\* What is written to the socket does not wait for CONNACK: it overtakes what does.
Write(m) ==
    /\ wire' = IF Open THEN Append(wire, m) ELSE wire
    /\ ahead' = IF \E i \in DOMAIN owed : owed[i].line = m.line
                THEN ahead \cup {<<m.line, m.run>>} ELSE ahead
    /\ handed' = handed \cup {m}

\* Mutated form: every message is published with QoS 1.
PublishAllKept(m) == unacked' = Append(unacked, m) /\ Write(m)

\* Mutated form: every message is published with QoS 0.
PublishNothingKept(m) == UNCHANGED unacked /\ Write(m)

\* client.publish: QoS 0 goes out at once or not at all; QoS 1 and 2 are kept
\* until acknowledged.
Publish(m) ==
    /\ unacked' = IF QosOf(m) = 0 THEN unacked ELSE Append(unacked, m)
    /\ Write(m)

\* connect(): client built, network thread started, TCP connection opened.
Connect ==
    /\ pc = "init"
    /\ pc' = "waiting" /\ link' = "dialing"
    /\ UNCHANGED <<li, si, seq, run, handed, unacked, owed, ahead, wireVars, brokerVars, faults>>

\* connect() raises (no broker): run() calls it outside its try block.
ConnectRefused ==
    /\ pc = "init"
    /\ pc' = "dead"
    /\ UNCHANGED <<li, si, seq, run, handed, clientVars, wireVars, brokerVars, faults>>

\* Mutated form: connect() returns without announcing the lines.
WaitOverUnannounced ==
    /\ pc = "waiting"
    /\ pc' = "running" /\ li' = 1
    /\ UNCHANGED <<si, seq, run, handed, clientVars, wireVars, brokerVars, faults>>

\* The wait ends when is_connected() or after five seconds, connected or not.
WaitOver ==
    /\ pc = "waiting"
    /\ pc' = "announcing" /\ li' = 1
    /\ UNCHANGED <<si, seq, run, handed, clientVars, wireVars, brokerVars, faults>>

Announce(body, at, next) ==
    /\ pc = at
    /\ Publish(Status(Lines[li], body, run))
    /\ IF li < Len(Lines)
       THEN li' = li + 1 /\ pc' = pc
       ELSE li' = 1 /\ pc' = next
    /\ UNCHANGED <<si, seq, run, link, owed, acks, bye, brokerVars, faults>>

\* Mutated form: connect() announces the first line only.
AnnounceOnlineOneLine ==
    /\ pc = "announcing" /\ pc' = "running"
    /\ Publish(Status(Lines[li], "online", run))
    /\ UNCHANGED <<li, si, seq, run, link, owed, acks, bye, brokerVars, faults>>

AnnounceOnline == Announce("online", "announcing", "running")

\* Mutated form: the sensor index is not reset at the end of the inner loop.
PublishReadingNoWrap ==
    /\ pc = "running"
    /\ seq[<<Lines[li], Sensors[si]>>] < MaxSeq
    /\ seq' = [seq EXCEPT ![<<Lines[li], Sensors[si]>>] = @ + 1]
    /\ Publish(Reading(Lines[li], Sensors[si], MaxSeq, run))
    /\ si' = si + 1 /\ li' = li
    /\ UNCHANGED <<pc, run, link, owed, acks, bye, brokerVars, faults>>

\* Mutated form: one counter for all topics.
PublishReadingOneCounter ==
    LET topic == <<Lines[li], Sensors[si]>>
    IN  /\ pc = "running"
        /\ seq[topic] < MaxSeq
        /\ seq' = [t \in DOMAIN seq |-> seq[topic] + 1]
        /\ Publish(Reading(Lines[li], Sensors[si], seq'[topic], run))
        /\ si' = IF si < Len(Sensors) THEN si + 1 ELSE 1
        /\ li' = IF si < Len(Sensors) THEN li
                 ELSE IF li < Len(Lines) THEN li + 1 ELSE 1
        /\ UNCHANGED <<pc, run, link, owed, acks, bye, brokerVars, faults>>

\* publish_reading for one line and sensor, in the order of run()'s two loops.
PublishReading ==
    LET topic == <<Lines[li], Sensors[si]>>
    IN  /\ pc = "running"
        /\ seq[topic] < MaxSeq
        /\ seq' = [seq EXCEPT ![topic] = @ + 1]
        /\ Publish(Reading(Lines[li], Sensors[si], seq'[topic], run))
        /\ si' = IF si < Len(Sensors) THEN si + 1 ELSE 1
        /\ li' = IF si < Len(Sensors) THEN li
                 ELSE IF li < Len(Lines) THEN li + 1 ELSE 1
        /\ UNCHANGED <<pc, run, link, owed, acks, bye, brokerVars, faults>>

\* Ctrl-C inside run()'s try block; it may hit between the numbering of a
\* reading and its publication.
Interrupt ==
    LET topic == <<Lines[li], Sensors[si]>>
    IN  /\ pc = "running"
        /\ pc' = "leaving" /\ li' = 1
        /\ seq' \in {seq, [seq EXCEPT ![topic] = IF @ < MaxSeq THEN @ + 1 ELSE @]}
        /\ UNCHANGED <<si, run, handed, clientVars, wireVars, brokerVars, faults>>

AnnounceOffline == Announce("offline", "leaving", "draining")

\* Mutated form: disconnect() does not wait for the network thread.
LoopStoppedAtOnce ==
    /\ pc = "draining" /\ pc' = "closing"
    /\ link # "dialing"
    /\ UNCHANGED <<li, si, seq, run, handed, clientVars, wireVars, brokerVars, faults>>

\* Mutated form: the network thread does not give up without a connection.
LoopStoppedDrained ==
    /\ pc = "draining" /\ pc' = "closing"
    /\ Open /\ unacked = <<>>
    /\ UNCHANGED <<li, si, seq, run, handed, clientVars, wireVars, brokerVars, faults>>

\* loop_stop() joins the network thread: it ends once nothing is left to send
\* or acknowledge, or when it finds itself without a connection.
LoopStopped ==
    /\ pc = "draining"
    /\ \/ link = "down"
       \/ Open /\ unacked = <<>>
    /\ pc' = "closing"
    /\ UNCHANGED <<li, si, seq, run, handed, clientVars, wireVars, brokerVars, faults>>

\* client.disconnect(), and the process ends.
Disconnect ==
    /\ pc = "closing"
    /\ pc' = "stopped" /\ link' = "off" /\ owed' = <<>>
    /\ bye' = Open /\ acks' = <<>>
    /\ UNCHANGED <<li, si, seq, run, handed, unacked, ahead, wire, brokerVars, faults>>

\* Mutated form: an exit handler sends DISCONNECT whenever the process ends.
DieWithDisconnect ==
    /\ pc \notin {"init", "stopped", "dead"}
    /\ pc' = "dead" /\ link' = "off" /\ owed' = <<>> /\ acks' = <<>>
    /\ bye' = (bye \/ Open)
    /\ UNCHANGED <<li, si, seq, run, handed, unacked, ahead, wire, brokerVars, faults>>

\* The process ends any other way: killed, Ctrl-C inside connect(), or a second
\* Ctrl-C inside disconnect().  What it wrote to the socket still flows.
Die ==
    /\ pc \notin {"init", "stopped", "dead"}
    /\ pc' = "dead" /\ link' = "off" /\ owed' = <<>> /\ acks' = <<>>
    /\ UNCHANGED <<li, si, seq, run, handed, unacked, ahead, wire, bye, brokerVars, faults>>

\* The operator starts the program again: only the broker remembers anything.
Restart ==
    /\ pc \in {"stopped", "dead"} /\ run < MaxRuns
    /\ pc' = "init" /\ li' = 1 /\ si' = 1 /\ run' = run + 1
    /\ seq' = [t \in LineSet \X SensorSet |-> 0]
    /\ unacked' = <<>>
    /\ UNCHANGED <<handed, link, owed, ahead, wireVars, brokerVars, faults>>

-----------------------------------------------------------------------------
(* paho's network thread. *)

Dial ==
    /\ link = "down" /\ ~Terminated
    /\ link' = "dialing"
    /\ UNCHANGED <<mainVars, unacked, owed, ahead, wireVars, brokerVars, faults>>

DialFails ==
    /\ link = "dialing"
    /\ link' = "down"
    /\ UNCHANGED <<mainVars, unacked, owed, ahead, wireVars, brokerVars, faults>>

\* The broker's reaction to a connection that ended without DISCONNECT.
PublishWill ==
    /\ retained' = [retained EXCEPT ![WillLine] = "offline"]
    /\ fired' = TRUE

\* The socket is there and CONNECT is on it: the broker, which reads nothing of this
\* connection before CONNECT, drops the one it may still hold for this client id.
\* What paho has not finished waits for CONNACK.
OpenSocket ==
    /\ link = "dialing"
    /\ link' = "opening" /\ session' = TRUE
    /\ owed' = unacked
    /\ wire' = <<>> /\ acks' = <<>> /\ bye' = FALSE
    /\ IF session THEN PublishWill ELSE UNCHANGED <<retained, fired>>
    /\ UNCHANGED <<mainVars, unacked, ahead, stored, forwarded, faults>>

\* The network thread, started before there was a socket, has waited a second and
\* dials again over the connection that connect() has opened in the meantime: one
\* connection more that breaks.
Redial ==
    /\ pc = "waiting" /\ link = "opening"
    /\ faults < MaxFaults
    /\ faults' = faults + 1
    /\ link' = "dialing" /\ owed' = <<>>
    /\ wire' = <<>> /\ acks' = <<>>
    /\ UNCHANGED <<mainVars, unacked, ahead, bye, brokerVars>>

\* CONNACK: what waited for it is sent again, in order, behind what has been
\* written to the socket since.
Connected ==
    /\ link = "opening"
    /\ link' = "up"
    /\ wire' = wire \o owed /\ owed' = <<>>
    /\ UNCHANGED <<mainVars, unacked, ahead, acks, bye, brokerVars, faults>>

\* PUBACK or PUBCOMP: paho forgets the message.
Acked ==
    LET p == Head(acks)
    IN  /\ link = "up" /\ pc # "closing" /\ acks # <<>>
        /\ QosOf(p) = 2 => p.body = "release"
        /\ acks' = Tail(acks)
        /\ \E k \in DOMAIN unacked :
             /\ unacked[k] = p
             /\ unacked' = RemoveAt(unacked, k)
        /\ UNCHANGED <<mainVars, link, owed, ahead, wire, bye, brokerVars, faults>>

\* PUBREC: the broker has the message, which paho now releases.
Received ==
    LET p == Head(acks)
    IN  /\ link = "up" /\ pc # "closing" /\ acks # <<>>
        /\ QosOf(p) = 2 /\ p.body # "release"
        /\ acks' = Tail(acks)
        /\ \E k \in DOMAIN unacked :
             /\ unacked[k] = p
             /\ unacked' = [unacked EXCEPT ![k] = Release(p)]
        /\ wire' = Append(wire, Release(p))
        /\ UNCHANGED <<mainVars, link, owed, ahead, bye, brokerVars, faults>>

-----------------------------------------------------------------------------
(* The connection and the broker. *)

\* The connection breaks: all that is under way in either direction is lost.
Drop ==
    /\ faults < MaxFaults /\ session
    /\ Open \/ wire # <<>> \/ bye
    /\ faults' = faults + 1
    /\ link' = IF Open THEN "down" ELSE link
    /\ owed' = <<>>
    /\ wire' = <<>> /\ acks' = <<>> /\ bye' = FALSE
    /\ UNCHANGED <<mainVars, unacked, ahead, brokerVars>>

\* The broker finds the connection gone: it publishes the will.
DetectLoss ==
    /\ session /\ ~Open /\ wire = <<>> /\ ~bye
    /\ session' = FALSE /\ PublishWill
    /\ UNCHANGED <<mainVars, clientVars, wireVars, stored, forwarded, faults>>

\* The next packet on the wire is p: the broker reads it and acknowledges it.
Reads(p) ==
    /\ session /\ wire # <<>> /\ p = Head(wire)
    /\ wire' = Tail(wire)
    /\ acks' = IF QosOf(p) > 0 /\ Open THEN Append(acks, p) ELSE acks
    /\ UNCHANGED <<mainVars, clientVars, bye, session, faults>>

ReceivesStatus ==
    \E m \in Statuses :
        /\ Reads(m)
        /\ retained' = [retained EXCEPT ![m.line] = m.body]
        /\ fired' = (fired /\ ~(m.line = WillLine /\ m.body = "online"))
        /\ UNCHANGED <<stored, forwarded>>

PassesOn(m) == forwarded' = [forwarded EXCEPT ![m] = @ + 1]

\* A reading of QoS 0 or 1 is passed on at once, one of QoS 2 is kept until PUBREL.
ReceivesReading ==
    \E m \in Readings :
        /\ Reads(m)
        /\ IF QosOf(m) = 2
           THEN stored' = stored \cup {m} /\ UNCHANGED forwarded
           ELSE PassesOn(m) /\ UNCHANGED stored
        /\ UNCHANGED <<retained, fired>>

\* PUBREL; one that is sent again releases nothing.
ReceivesRelease ==
    \E m \in Readings :
        /\ Reads(Release(m))
        /\ stored' = stored \ {m}
        /\ IF m \in stored THEN PassesOn(m) ELSE UNCHANGED forwarded
        /\ UNCHANGED <<retained, fired>>

BrokerReceives == ReceivesStatus \/ ReceivesReading \/ ReceivesRelease

\* DISCONNECT: the broker forgets the will.
BrokerDisconnects ==
    /\ session /\ wire = <<>> /\ bye
    /\ session' = FALSE /\ bye' = FALSE
    /\ UNCHANGED <<mainVars, clientVars, wire, acks, retained, stored, forwarded, fired, faults>>

-----------------------------------------------------------------------------
Main    == \/ Connect \/ ConnectRefused \/ WaitOver \/ AnnounceOnline \/ PublishReading
           \/ AnnounceOffline \/ LoopStopped \/ Disconnect
Network == Dial \/ DialFails \/ OpenSocket \/ Redial \/ Connected \/ Acked \/ Received
Broker  == DetectLoss \/ BrokerReceives \/ BrokerDisconnects

Next == Main \/ Interrupt \/ Die \/ Restart \/ Network \/ Drop \/ Broker

Spec == Init /\ [][Next]_vars

\* The threads and the broker keep running and a broker that is dialled often
\* enough answers (docker-compose restarts it); nobody is obliged to press
\* Ctrl-C, to kill the process, to break the connection or to start it again.
Fairness ==
    /\ WF_vars(Main) /\ WF_vars(Broker)
    /\ WF_vars(Dial) /\ WF_vars(DialFails \/ OpenSocket) /\ SF_vars(OpenSocket)
    /\ WF_vars(Connected) /\ WF_vars(Acked \/ Received)

FairSpec == Spec /\ Fairness

-----------------------------------------------------------------------------
(* Properties. *)

\* Every variable keeps its type.
TypeOK ==
    /\ pc \in PCs /\ li \in DOMAIN Lines /\ si \in DOMAIN Sensors
    /\ seq \in [LineSet \X SensorSet -> 0..MaxSeq]
    /\ run \in 1..MaxRuns /\ handed \subseteq Messages
    /\ link \in Links /\ unacked \in Seq(Packets) /\ owed \in Seq(Packets)
    /\ ahead \subseteq LineSet \X (1..MaxRuns)
    /\ wire \in Seq(Packets) /\ acks \in Seq(Packets) /\ bye \in BOOLEAN
    /\ session \in BOOLEAN
    /\ retained \in [LineSet -> {"none", "online", "offline"}]
    /\ stored \subseteq Readings /\ forwarded \in [Readings -> Nat]
    /\ fired \in BOOLEAN /\ faults \in 0..MaxFaults

\* Once run() publishes readings, the broker shows every line online, or will
\* once what paho still holds has been acknowledged; only the will line can be
\* shown offline, after a connection was lost (on_connect does not announce
\* again).  Lines 89-93, 107-111.
AnnouncedOnline ==
    pc = "running" =>
        \A l \in LineSet :
            \/ retained[l] = "online"
            \/ \E i \in DOMAIN unacked : unacked[i] = Status(l, "online", run)
            \/ l = WillLine /\ fired

\* disconnect() publishes first, waits for the network thread and only then
\* disconnects: whenever it is about to send DISCONNECT or has sent it, or has
\* nothing left to be acknowledged, no reading of QoS 1 or 2 is missing and every
\* line is shown offline, or else one of the line's messages, its "offline" perhaps,
\* was published between the opening of a socket and CONNACK and went ahead of older
\* ones (an "online" sent again behind it is what stays).  Lines 99-102.
CleanStopIsVisible ==
    \/ pc = "closing" /\ (Open \/ unacked = <<>>)
    \/ pc = "stopped" /\ (bye \/ unacked = <<>>)
    =>
        /\ \A l \in LineSet : retained[l] = "offline" \/ <<l, run>> \in ahead
        /\ \A m \in handed : m \in Readings /\ m.run = run /\ QosOf(m) > 0 => forwarded[m] > 0

\* The numbers of a topic's readings have no gap, and no two readings share one: of
\* all the numbers given in a run, at most one, the last of a single topic, belongs
\* to no reading, and then Ctrl-C came between _simulate_reading and publish.
\* Lines 122-124 and 139-143.
NumbersHaveNoGap ==
    LET Given(t) == {m.seq : m \in {r \in handed \cap Readings :
                                      <<r.line, r.sensor>> = t /\ r.run = run}}
        gaps     == {t \in LineSet \X SensorSet : Given(t) # 1..seq[t]}
    IN  \A t \in gaps :
            /\ gaps = {t} /\ Given(t) = 1..(seq[t] - 1)
            /\ pc \in {"leaving", "draining", "closing", "stopped", "dead"}

\* A QoS 2 reading is passed on at most once and a QoS 0 reading too, however
\* often the connection breaks and paho sends its messages again.
NoDuplicateUnlessQos1 ==
    \A m \in Readings : QosOf(m) # 1 => forwarded[m] <= 1

\* The broker has the reading, to pass it on now or at its release.
Taken(m) == forwarded[m] > 0 \/ m \in stored

\* The first copy of a reading reaches the broker while its line is shown online, or
\* after the will has overwritten that: the broker takes no news of a line that has
\* not been announced or has said goodbye, unless a message of the line went ahead of
\* older ones on a connection without CONNACK.  (A reading of QoS 2 that it has taken
\* is passed on at its release, which may come after the goodbye.)  Lines 86-100, 143.
NewReadingsOnlyWhileOnline ==
    [][\A m \in Readings :
         ~Taken(m) /\ Taken(m)' =>
             \/ retained[m.line] = "online"
             \/ m.line = WillLine /\ fired
             \/ <<m.line, m.run>> \in ahead]_vars

\* Ctrl-C ends the process: loop_stop() does not wait forever.
InterruptEnds == pc = "leaving" ~> pc \in {"stopped", "dead"}

\* A process that dies with a session open is shown offline on the will line, unless
\* the session is one that an earlier run's clean stop is still closing, a run of which
\* a message of that line went ahead of older ones.
DeathIsNoticed ==
    (pc = "dead" /\ session) ~>
        (retained[WillLine] = "offline" \/ \E r \in 1..(run - 1) : <<WillLine, r>> \in ahead)

\* A reading of QoS 1 or 2 reaches the broker, unless the process ends first.
EventuallyForwarded ==
    \A m \in Readings :
        (m \in handed /\ m.run = run /\ QosOf(m) > 0) ~>
            (forwarded[m] > 0 \/ pc = "dead" \/ (pc = "stopped" /\ unacked # <<>>))
=============================================================================
