------------------------ MODULE MqttPublisherProofs ------------------------
(* Theorems about MqttPublisher, for every value of its constants: its types, *)
(* its announcements, and what becomes of the messages a run hands to paho,   *)
(* from their numbering to the broker's subscribers.                         *)
EXTENDS MqttPublisher, SequenceTheorems, TLAPS

-----------------------------------------------------------------------------
(* Lemmas about sequences and messages. *)

\* A sequence without its k-th element, by index.
LEMMA RemoveIndexed ==
    ASSUME NEW S, NEW s \in Seq(S), NEW k \in 1 .. Len(s)
    PROVE  LET r == SubSeq(s, 1, k - 1) \o SubSeq(s, k + 1, Len(s))
           IN  /\ r \in Seq(S) /\ Len(r) = Len(s) - 1
               /\ \A i \in 1 .. (Len(s) - 1) : r[i] = IF i < k THEN s[i] ELSE s[i + 1]
<1>0. Len(s) \in Nat /\ k \in Nat /\ 1 <= k /\ k <= Len(s)
    OBVIOUS
<1>1. PICK a : a = SubSeq(s, 1, k - 1)
    OBVIOUS
<1>2. PICK b : b = SubSeq(s, k + 1, Len(s))
    OBVIOUS
<1>3. a \in Seq(S) /\ Len(a) = k - 1 /\ \A i \in 1 .. (k - 1) : a[i] = s[i]
    BY <1>0, <1>1, SubSeqProperties
<1>4. b \in Seq(S) /\ Len(b) = Len(s) - k /\ \A i \in 1 .. (Len(s) - k) : b[i] = s[k + i]
    BY <1>0, <1>2, SubSeqProperties
<1>5. a \o b \in Seq(S) /\ Len(a \o b) = Len(s) - 1
    <2>1. a \o b \in Seq(S) /\ Len(a \o b) = Len(a) + Len(b)
        BY <1>3, <1>4, ConcatProperties
    <2> QED
        BY <1>0, <1>3, <1>4, <2>1
<1>6. ASSUME NEW i \in 1 .. (Len(s) - 1) PROVE (a \o b)[i] = IF i < k THEN s[i] ELSE s[i + 1]
    <2>1. (a \o b)[i] = IF i <= k - 1 THEN a[i] ELSE b[i - (k - 1)]
        BY <1>0, <1>3, <1>4, ConcatProperties
    <2>2. CASE i < k
        BY <1>0, <1>3, <2>1, <2>2
    <2>3. CASE ~(i < k)
        <3>1. i - (k - 1) \in 1 .. (Len(s) - k) /\ k + (i - (k - 1)) = i + 1
            BY <1>0, <2>3
        <3> QED
            BY <1>0, <1>4, <2>1, <2>3, <3>1
    <2> QED
        BY <2>2, <2>3
<1> QED
    BY <1>1, <1>2, <1>5, <1>6

\* Taking one element out of a sequence leaves the others, and adds none.
LEMMA RemoveOne ==
    ASSUME NEW S, NEW s \in Seq(S), NEW k \in DOMAIN s
    PROVE  /\ RemoveAt(s, k) \in Seq(S)
           /\ \A i \in DOMAIN RemoveAt(s, k) : \E j \in DOMAIN s : RemoveAt(s, k)[i] = s[j]
           /\ \A j \in DOMAIN s : j # k => \E i \in DOMAIN RemoveAt(s, k) : RemoveAt(s, k)[i] = s[j]
<1>0. PICK r : r = RemoveAt(s, k)
    OBVIOUS
<1>1. k \in 1 .. Len(s) /\ Len(s) \in Nat /\ DOMAIN s = 1 .. Len(s)
    OBVIOUS
<1>2. /\ r \in Seq(S) /\ Len(r) = Len(s) - 1
      /\ \A i \in 1 .. (Len(s) - 1) : r[i] = IF i < k THEN s[i] ELSE s[i + 1]
    BY <1>0, <1>1, RemoveIndexed DEF RemoveAt
<1>3. DOMAIN r = 1 .. (Len(s) - 1)
    BY <1>2
<1>4. ASSUME NEW i \in 1 .. (Len(s) - 1) PROVE \E j \in 1 .. Len(s) : r[i] = s[j]
    <2>1. i \in 1 .. Len(s) /\ i + 1 \in 1 .. Len(s)
        BY <1>1
    <2> QED
        BY <1>2, <2>1
<1>5. ASSUME NEW j \in 1 .. Len(s), j # k PROVE \E i \in 1 .. (Len(s) - 1) : r[i] = s[j]
    <2>1. CASE j < k
        <3>1. j \in 1 .. (Len(s) - 1)
            BY <1>1, <2>1
        <3> QED
            BY <1>2, <2>1, <3>1
    <2>2. CASE ~(j < k)
        <3>1. j - 1 \in 1 .. (Len(s) - 1) /\ ~(j - 1 < k) /\ (j - 1) + 1 = j
            BY <1>1, <1>5, <2>2
        <3> QED
            BY <1>2, <3>1
    <2> QED
        BY <2>1, <2>2
<1>6. \A i \in DOMAIN r : \E j \in DOMAIN s : r[i] = s[j]
    BY <1>1, <1>3, <1>4
<1>7. \A j \in DOMAIN s : j # k => \E i \in DOMAIN r : r[i] = s[j]
    BY <1>1, <1>3, <1>5
<1> QED
    BY <1>0, <1>2, <1>6, <1>7

\* The message that packet p carries or releases.
Origin(p) == IF p.body = "release" THEN [p EXCEPT !.body = "data"] ELSE p

LEMMA ReadingShape ==
    ASSUME NEW m \in Readings
    PROVE  /\ m = [line |-> m.line, sensor |-> m.sensor, body |-> "data", seq |-> m.seq, run |-> m.run]
           /\ m.line \in LineSet /\ m.sensor \in SensorSet /\ m.run \in 1..MaxRuns /\ m.body = "data"
           /\ m.sensor # "status"
BY SensorsAssumption DEF Readings, Reading

\* A release differs from its reading in the body only.
LEMMA ReleaseFields ==
    ASSUME NEW m \in Readings
    PROVE  LET r == Release(m)
           IN  /\ r \in Releases /\ r.body = "release" /\ Origin(r) = m
               /\ r.line = m.line /\ r.sensor = m.sensor /\ r.run = m.run /\ QosOf(r) = QosOf(m)
<1>1. m = [line |-> m.line, sensor |-> m.sensor, body |-> "data", seq |-> m.seq, run |-> m.run]
    BY ReadingShape
<1>2. PICK r : r = Release(m)
    OBVIOUS
<1>3. r = [line |-> m.line, sensor |-> m.sensor, body |-> "release", seq |-> m.seq, run |-> m.run]
    BY <1>1, <1>2 DEF Release
<1>4. [r EXCEPT !.body = "data"] = m
    BY <1>1, <1>3
<1>5. r \in Releases
    BY <1>2 DEF Releases
<1>6. QosOf(r) = QosOf(m)
    BY <1>3 DEF QosOf
<1> QED
    BY <1>2, <1>3, <1>4, <1>5, <1>6 DEF Origin

LEMMA StatusShape ==
    ASSUME NEW m \in Statuses
    PROVE  /\ m = Status(m.line, m.body, m.run)
           /\ m.line \in LineSet /\ m.sensor = "status" /\ m.run \in 1..MaxRuns
           /\ m.body \in {"online", "offline"}
BY DEF Statuses, Status

\* A packet is a status, a reading or a release, and its body says which.
LEMMA PacketKinds ==
    ASSUME NEW p \in Packets
    PROVE  /\ p.line \in LineSet /\ p.run \in 1..MaxRuns /\ p.run \in Nat /\ QosOf(p) \in 0..2
           /\ \/ p \in Statuses /\ p.sensor = "status" /\ p.body \in {"online", "offline"}
                 /\ p = Status(p.line, p.body, p.run)
              \/ p \in Readings /\ p.sensor # "status" /\ p.body = "data"
              \/ /\ p \in Releases /\ p.sensor # "status" /\ p.body = "release"
                 /\ Origin(p) \in Readings /\ p = Release(Origin(p))
<1>1. CASE p \in Statuses
    BY <1>1, StatusShape, BoundsAssumption DEF QosOf
<1>2. CASE p \in Readings
    BY <1>2, ReadingShape, QosAssumption, BoundsAssumption DEF QosOf
<1>3. CASE p \in Releases
    <2>1. PICK m \in Readings : p = Release(m)
        BY <1>3 DEF Releases
    <2>2. /\ p.body = "release" /\ Origin(p) = m
          /\ p.line = m.line /\ p.sensor = m.sensor /\ p.run = m.run /\ QosOf(p) = QosOf(m)
        BY <2>1, ReleaseFields
    <2>3. m.line \in LineSet /\ m.run \in 1..MaxRuns /\ m.sensor # "status" /\ m.sensor \in SensorSet
        BY ReadingShape
    <2>4. QosOf(m) \in 0..2
        BY <2>3, QosAssumption DEF QosOf
    <2> QED
        BY <1>3, <2>1, <2>2, <2>3, <2>4, BoundsAssumption
<1> QED
    BY <1>1, <1>2, <1>3 DEF Packets, Messages

\* What client.publish takes and leaves, in terms of types.
LEMMA PublishType ==
    ASSUME TypeOK, NEW m \in Messages, Publish(m)
    PROVE  /\ unacked' \in Seq(Packets) /\ wire' \in Seq(Packets) /\ handed' \subseteq Messages
           /\ ahead' \subseteq LineSet \X (1..MaxRuns)
<1>1. m \in Packets
    BY DEF Packets
<1>2. m.line \in LineSet /\ m.run \in 1..MaxRuns
    BY <1>1, PacketKinds
<1>3. ahead' \subseteq LineSet \X (1..MaxRuns)
    BY <1>2 DEF TypeOK, Publish, Write
<1> QED
    BY <1>1, <1>3 DEF TypeOK, Publish, Write

\* The broker takes the oldest packet off the wire, and what it does with it.
LEMMA Receives ==
    ASSUME TypeOK, BrokerReceives
    PROVE  LET p == Head(wire)
           IN  /\ p \in Packets /\ Reads(p) /\ wire # <<>> /\ wire' = Tail(wire)
               /\ \/ /\ p \in Statuses
                     /\ retained' = [retained EXCEPT ![p.line] = p.body]
                     /\ fired' = (fired /\ ~(p.line = WillLine /\ p.body = "online"))
                     /\ UNCHANGED <<stored, forwarded>>
                  \/ /\ p \in Readings /\ UNCHANGED <<retained, fired>>
                     /\ IF QosOf(p) = 2
                        THEN stored' = stored \cup {p} /\ UNCHANGED forwarded
                        ELSE PassesOn(p) /\ UNCHANGED stored
                  \/ \E m \in Readings :
                        /\ p = Release(m) /\ UNCHANGED <<retained, fired>>
                        /\ stored' = stored \ {m}
                        /\ IF m \in stored THEN PassesOn(m) ELSE UNCHANGED forwarded
<1>1. CASE ReceivesStatus
    <2>1. PICK m \in Statuses :
              /\ Reads(m) /\ UNCHANGED <<stored, forwarded>>
              /\ retained' = [retained EXCEPT ![m.line] = m.body]
              /\ fired' = (fired /\ ~(m.line = WillLine /\ m.body = "online"))
        BY <1>1 DEF ReceivesStatus
    <2>2. m = Head(wire) /\ wire # <<>> /\ wire' = Tail(wire) /\ m \in Packets
        BY <2>1 DEF Reads, Packets, Messages
    <2> QED
        BY <2>1, <2>2
<1>2. CASE ReceivesReading
    <2>1. PICK m \in Readings :
              /\ Reads(m) /\ UNCHANGED <<retained, fired>>
              /\ IF QosOf(m) = 2
                 THEN stored' = stored \cup {m} /\ UNCHANGED forwarded
                 ELSE PassesOn(m) /\ UNCHANGED stored
        BY <1>2 DEF ReceivesReading
    <2>2. m = Head(wire) /\ wire # <<>> /\ wire' = Tail(wire) /\ m \in Packets
        BY <2>1 DEF Reads, Packets, Messages
    <2> QED
        BY <2>1, <2>2
<1>3. CASE ReceivesRelease
    <2>1. PICK m \in Readings :
              /\ Reads(Release(m)) /\ UNCHANGED <<retained, fired>>
              /\ stored' = stored \ {m}
              /\ IF m \in stored THEN PassesOn(m) ELSE UNCHANGED forwarded
        BY <1>3 DEF ReceivesRelease
    <2>2. Release(m) = Head(wire) /\ wire # <<>> /\ wire' = Tail(wire) /\ Release(m) \in Packets
        BY <2>1 DEF Reads, Packets, Releases
    <2> QED
        BY <2>1, <2>2
<1> QED
    BY <1>1, <1>2, <1>3 DEF BrokerReceives

-----------------------------------------------------------------------------
(* Type correctness. *)

LEMMA LoopIndices == /\ \A i \in DOMAIN Lines : Lines[i] \in LineSet
                     /\ \A i \in DOMAIN Sensors : Sensors[i] \in SensorSet
BY DEF LineSet, SensorSet

LEMMA StatusType ==
    ASSUME NEW l \in LineSet, NEW b \in {"online", "offline"}, NEW r \in 1..MaxRuns
    PROVE  Status(l, b, r) \in Messages
BY DEF Messages, Statuses

LEMMA ReadingType ==
    ASSUME NEW l \in LineSet, NEW s \in SensorSet, NEW n \in 1..MaxSeq, NEW r \in 1..MaxRuns
    PROVE  Reading(l, s, n, r) \in Messages
BY DEF Messages, Readings

LEMMA TypeInit == Init => TypeOK
<1> SUFFICES ASSUME Init PROVE TypeOK
    OBVIOUS
<1>1. 1 \in DOMAIN Lines /\ 1 \in DOMAIN Sensors
    BY LinesAssumption, SensorsAssumption
<1>2. seq \in [LineSet \X SensorSet -> 0..MaxSeq]
    BY BoundsAssumption DEF Init
<1>3. run \in 1..MaxRuns /\ faults \in 0..MaxFaults
    BY BoundsAssumption DEF Init
<1>4. forwarded \in [Readings -> Nat] /\ retained \in [LineSet -> {"none", "online", "offline"}]
    BY DEF Init
<1>5. /\ unacked \in Seq(Packets) /\ owed \in Seq(Packets)
      /\ wire \in Seq(Packets) /\ acks \in Seq(Packets)
    BY EmptySeq DEF Init
<1>6. pc \in PCs /\ li \in DOMAIN Lines /\ si \in DOMAIN Sensors /\ link \in Links
    BY <1>1 DEF Init, PCs, Links
<1>7. handed \subseteq Messages /\ stored \subseteq Readings /\ ahead \subseteq LineSet \X (1..MaxRuns)
    BY DEF Init
<1>8. bye \in BOOLEAN /\ session \in BOOLEAN /\ fired \in BOOLEAN
    BY DEF Init
<1> QED
    BY <1>2, <1>3, <1>4, <1>5, <1>6, <1>7, <1>8 DEF TypeOK

LEMMA TypeStep == TypeOK /\ [Next]_vars => TypeOK'
<1> SUFFICES ASSUME TypeOK, [Next]_vars PROVE TypeOK'
    OBVIOUS
<1> USE DEF TypeOK, mainVars, clientVars, wireVars, brokerVars
<1>1. CASE Connect
    BY <1>1 DEF Connect, PCs, Links
<1>2. CASE ConnectRefused
    BY <1>2 DEF ConnectRefused, PCs
<1>3. CASE WaitOver
    BY <1>3, LinesAssumption DEF WaitOver, PCs
<1>4. ASSUME NEW body \in {"online", "offline"}, NEW at, NEW next \in PCs, Announce(body, at, next)
      PROVE  TypeOK'
    <2>1. Status(Lines[li], body, run) \in Messages
        BY StatusType, LoopIndices
    <2>2. /\ unacked' \in Seq(Packets) /\ wire' \in Seq(Packets) /\ handed' \subseteq Messages
          /\ ahead' \subseteq LineSet \X (1..MaxRuns)
        BY <1>4, <2>1, PublishType DEF Announce
    <2>3. li' \in DOMAIN Lines /\ pc' \in PCs
        BY <1>4, LinesAssumption DEF Announce
    <2> QED
        BY <1>4, <2>2, <2>3 DEF Announce
<1>5. CASE PublishReading
    <2> DEFINE topic == <<Lines[li], Sensors[si]>>
    <2>1. topic \in LineSet \X SensorSet /\ seq[topic] \in 0..MaxSeq /\ seq[topic] < MaxSeq
        BY <1>5 DEF PublishReading, LineSet, SensorSet
    <2>2. seq' = [seq EXCEPT ![topic] = @ + 1]
        BY <1>5 DEF PublishReading
    <2>3. seq' \in [LineSet \X SensorSet -> 0..MaxSeq] /\ seq'[topic] \in 1..MaxSeq
        BY <2>1, <2>2, BoundsAssumption
    <2>4. Reading(Lines[li], Sensors[si], seq'[topic], run) \in Messages
        BY <2>3, ReadingType, LoopIndices
    <2>5. Publish(Reading(Lines[li], Sensors[si], seq'[topic], run))
        BY <1>5 DEF PublishReading
    <2>6. /\ unacked' \in Seq(Packets) /\ wire' \in Seq(Packets) /\ handed' \subseteq Messages
          /\ ahead' \subseteq LineSet \X (1..MaxRuns)
        BY <2>4, <2>5, PublishType
    <2>7. si' \in DOMAIN Sensors /\ li' \in DOMAIN Lines
        BY <1>5, LinesAssumption, SensorsAssumption DEF PublishReading
    <2> QED
        BY <1>5, <2>3, <2>6, <2>7 DEF PublishReading
<1>6. CASE Interrupt
    <2> DEFINE topic == <<Lines[li], Sensors[si]>>
    <2>1. seq[topic] \in 0..MaxSeq
        BY DEF LineSet, SensorSet
    <2>2. (IF seq[topic] < MaxSeq THEN seq[topic] + 1 ELSE seq[topic]) \in 0..MaxSeq
        BY <2>1, BoundsAssumption
    <2>3. seq' \in [LineSet \X SensorSet -> 0..MaxSeq]
        BY <1>6, <2>2 DEF Interrupt
    <2> QED
        BY <1>6, <2>3, LinesAssumption DEF Interrupt, PCs
<1>7. CASE LoopStopped
    BY <1>7 DEF LoopStopped, PCs
<1>8. CASE Disconnect
    <2>1. owed' \in Seq(Packets) /\ acks' \in Seq(Packets) /\ bye' \in BOOLEAN
        BY <1>8, EmptySeq DEF Disconnect, Open
    <2> QED
        BY <1>8, <2>1 DEF Disconnect, PCs, Links
<1>9. CASE Die
    <2>1. owed' \in Seq(Packets) /\ acks' \in Seq(Packets)
        BY <1>9, EmptySeq DEF Die
    <2> QED
        BY <1>9, <2>1 DEF Die, PCs, Links
<1>10. CASE Restart
    <2>1. run' \in 1..MaxRuns
        BY <1>10, BoundsAssumption DEF Restart
    <2>2. seq' \in [LineSet \X SensorSet -> 0..MaxSeq]
        BY <1>10, BoundsAssumption DEF Restart
    <2> QED
        BY <1>10, <2>1, <2>2, LinesAssumption, SensorsAssumption, SMTT(30) DEF Restart, PCs
<1>11. CASE Dial
    BY <1>11 DEF Dial, Links
<1>12. CASE DialFails
    BY <1>12 DEF DialFails, Links
<1>13. CASE OpenSocket
    <2>1. retained' \in [LineSet -> {"none", "online", "offline"}] /\ fired' \in BOOLEAN
        BY <1>13, WillAssumption DEF OpenSocket, PublishWill
    <2>2. acks' \in Seq(Packets) /\ wire' \in Seq(Packets) /\ owed' \in Seq(Packets)
        BY <1>13, EmptySeq DEF OpenSocket
    <2> QED
        BY <1>13, <2>1, <2>2 DEF OpenSocket, Links
<1>14. CASE Acked
    <2>1. PICK k \in DOMAIN unacked :
              unacked' = RemoveAt(unacked, k)
        BY <1>14 DEF Acked
    <2>2. unacked' \in Seq(Packets)
        BY <2>1, RemoveOne
    <2>3. acks' \in Seq(Packets)
        BY <1>14 DEF Acked
    <2> QED
        BY <1>14, <2>2, <2>3 DEF Acked
<1>15. CASE Drop
    <2>1. acks' \in Seq(Packets) /\ wire' \in Seq(Packets) /\ owed' \in Seq(Packets)
        BY <1>15, EmptySeq DEF Drop
    <2>2. faults' \in 0..MaxFaults
        BY <1>15, BoundsAssumption DEF Drop
    <2> QED
        BY <1>15, <2>1, <2>2 DEF Drop, Links
<1>16. CASE DetectLoss
    BY <1>16, WillAssumption DEF DetectLoss, PublishWill
<1>17. CASE BrokerReceives
    <2>1. PICK p : p = Head(wire)
        OBVIOUS
    <2>2. p \in Packets /\ Reads(p)
        BY <1>17, <2>1, Receives
    <2>3. acks' \in Seq(Packets) /\ wire' \in Seq(Packets)
        BY <2>2 DEF Reads
    <2>4. /\ stored' \subseteq Readings /\ forwarded' \in [Readings -> Nat]
          /\ retained' \in [LineSet -> {"none", "online", "offline"}] /\ fired' \in BOOLEAN
        <3>1. CASE ReceivesStatus
            <4>1. PICK m \in Statuses :
                      /\ retained' = [retained EXCEPT ![m.line] = m.body]
                      /\ fired' = (fired /\ ~(m.line = WillLine /\ m.body = "online"))
                      /\ UNCHANGED <<stored, forwarded>>
                BY <3>1 DEF ReceivesStatus
            <4>2. m.body \in {"online", "offline"}
                BY StatusShape
            <4>3. retained' \in [LineSet -> {"none", "online", "offline"}]
                BY <4>1, <4>2
            <4>4. fired' \in BOOLEAN
                BY <4>1, ZenonT(20)
            <4>5. stored' \subseteq Readings /\ forwarded' \in [Readings -> Nat]
                BY <4>1
            <4> QED
                BY <4>3, <4>4, <4>5
        <3>2. CASE ReceivesReading
            BY <3>2 DEF ReceivesReading, PassesOn
        <3>3. CASE ReceivesRelease
            <4>1. PICK m \in Readings :
                      /\ stored' = stored \ {m} /\ UNCHANGED <<retained, fired>>
                      /\ forwarded' = [forwarded EXCEPT ![m] = @ + 1] \/ forwarded' = forwarded
                BY <3>3 DEF ReceivesRelease, PassesOn
            <4>2. forwarded \in [Readings -> Nat] /\ forwarded[m] + 1 \in Nat
                OBVIOUS
            <4>3. forwarded' \in [Readings -> Nat]
                BY <4>1, <4>2
            <4> QED
                BY <4>1, <4>3
        <3> QED
            BY <1>17, <3>1, <3>2, <3>3 DEF BrokerReceives
    <2> QED
        BY <2>2, <2>3, <2>4 DEF Reads
<1>22. CASE Redial
    <2>1. acks' \in Seq(Packets) /\ wire' \in Seq(Packets) /\ owed' \in Seq(Packets)
        BY <1>22, EmptySeq DEF Redial
    <2>2. faults' \in 0..MaxFaults
        BY <1>22, BoundsAssumption DEF Redial
    <2> QED
        BY <1>22, <2>1, <2>2 DEF Redial, Links
<1>23. CASE Connected
    <2>1. wire' \in Seq(Packets) /\ owed' \in Seq(Packets)
        BY <1>23, EmptySeq, ConcatProperties DEF Connected
    <2> QED
        BY <1>23, <2>1 DEF Connected, Links
<1>24. CASE Received
    <2>1. PICK p : p = Head(acks)
        OBVIOUS
    <2>2. p \in Packets /\ p.body # "release" /\ QosOf(p) = 2 /\ acks' \in Seq(Packets)
        BY <1>24, <2>1 DEF Received
    <2>3. p \in Readings
        BY <2>2, PacketKinds DEF QosOf
    <2>4. Release(p) \in Packets
        BY <2>3 DEF Packets, Releases
    <2>5. PICK k \in DOMAIN unacked : unacked' = [unacked EXCEPT ![k] = Release(p)]
        BY <1>24, <2>1 DEF Received
    <2>6. unacked' \in Seq(Packets)
        BY <2>4, <2>5
    <2>7. wire' \in Seq(Packets)
        BY <1>24, <2>1, <2>4 DEF Received
    <2> QED
        BY <1>24, <2>2, <2>6, <2>7 DEF Received
<1>18. CASE BrokerDisconnects
    BY <1>18 DEF BrokerDisconnects
<1>19. CASE UNCHANGED vars
    BY <1>19 DEF vars
<1>20. CASE AnnounceOnline
    BY <1>20, <1>4 DEF AnnounceOnline, PCs
<1>21. CASE AnnounceOffline
    BY <1>21, <1>4 DEF AnnounceOffline, PCs
<1> QED
    BY <1>1, <1>2, <1>3, <1>5, <1>6, <1>7, <1>8, <1>9, <1>10, <1>11, <1>12, <1>13, <1>14,
       <1>15, <1>16, <1>17, <1>18, <1>19, <1>20, <1>21, <1>22, <1>23, <1>24
       DEF Next, Main, Network, Broker

\* Type correctness of the publisher, its connection and the broker.
THEOREM TypeCorrect == Spec => []TypeOK
<1>1. Init => TypeOK
    BY TypeInit
<1>2. TypeOK /\ [Next]_vars => TypeOK'
    BY TypeStep
<1> QED
    BY <1>1, <1>2, PTL DEF Spec

-----------------------------------------------------------------------------
(* The inductive invariant behind AnnouncedOnline. *)

\* disconnect() has not begun.
Early == pc \in {"init", "waiting", "announcing", "running"}

\* connect() has announced the j-th line.
Announced(j) == pc = "running" \/ (pc = "announcing" /\ j < li)

Shown(l)  == retained[l] = "online" \/ (l = WillLine /\ fired)
Queued(l) == \E i \in DOMAIN unacked : unacked[i] = Status(l, "online", run)

\* A process without a network thread has no connection, and without a connection
\* nothing is acknowledged.  What waits for CONNACK is the oldest of what paho keeps.
Connections ==
    /\ pc \in {"init", "stopped", "dead"} => link = "off"
    /\ acks # <<>> => Open
    /\ owed # <<>> => link = "opening"
    /\ \A i \in DOMAIN owed : i \in DOMAIN unacked /\ owed[i] = unacked[i]

\* What paho keeps is of this run; so is all that is on the wire of a connection
\* this run has made; nothing is of a later run.
Runs ==
    /\ \A i \in DOMAIN unacked : unacked[i].run = run
    /\ \A i \in DOMAIN wire : wire[i].run <= run
    /\ Open => \A i \in DOMAIN wire : wire[i].run = run

\* Before disconnect() this run has sent no "offline".
NoGoodbye ==
    Early => /\ \A i \in DOMAIN unacked : unacked[i].body # "offline"
             /\ \A i \in DOMAIN wire : wire[i].run = run => wire[i].body # "offline"

\* An "online" the broker is acknowledging has been shown.
AcksShown ==
    Early => \A i \in DOMAIN acks : \A l \in LineSet :
                 acks[i] = Status(l, "online", run) => Shown(l)

\* An announced line is shown or still queued; while the wire holds messages of an
\* earlier run, every announcement is still queued.
ShownOrQueued ==
    \A j \in DOMAIN Lines : Announced(j) =>
        /\ Shown(Lines[j]) \/ Queued(Lines[j])
        /\ (\E i \in DOMAIN wire : wire[i].run # run) => Queued(Lines[j])

Parts == Connections /\ Runs /\ NoGoodbye /\ AcksShown /\ ShownOrQueued
IInv  == TypeOK /\ Parts

LEMMA MessageFields ==
    /\ \A l, b, r : LET m == Status(l, b, r)
                   IN  m.line = l /\ m.body = b /\ m.run = r /\ m.sensor = "status"
    /\ \A l, s, n, r : LET m == Reading(l, s, n, r)
                      IN  m.body = "data" /\ m.run = r
BY DEF Status, Reading

LEMMA AppendElements ==
    ASSUME NEW S, NEW s \in Seq(S), NEW m \in S
    PROVE  /\ \A i \in DOMAIN Append(s, m) :
                Append(s, m)[i] = m \/ (i \in DOMAIN s /\ Append(s, m)[i] = s[i])
           /\ \A i \in DOMAIN s : i \in DOMAIN Append(s, m) /\ Append(s, m)[i] = s[i]
           /\ \E i \in DOMAIN Append(s, m) : Append(s, m)[i] = m
<1>1. /\ Append(s, m) \in Seq(S) /\ Len(Append(s, m)) = Len(s) + 1 /\ Len(s) \in Nat
      /\ \A i \in 1 .. Len(s) : Append(s, m)[i] = s[i]
      /\ Append(s, m)[Len(s) + 1] = m
    BY AppendProperties
<1>2. DOMAIN Append(s, m) = 1 .. (Len(s) + 1) /\ DOMAIN s = 1 .. Len(s)
    BY <1>1
<1> QED
    BY <1>1, <1>2

\* A sequence that has been appended to another, by element.
LEMMA JoinElements ==
    ASSUME NEW S, NEW s \in Seq(S), NEW t \in Seq(S)
    PROVE  \A i \in DOMAIN (s \o t) :
               \/ i \in DOMAIN s /\ (s \o t)[i] = s[i]
               \/ \E j \in DOMAIN t : (s \o t)[i] = t[j]
<1>1. /\ s \o t \in Seq(S) /\ Len(s \o t) = Len(s) + Len(t)
      /\ \A i \in 1 .. (Len(s) + Len(t)) : (s \o t)[i] = IF i <= Len(s) THEN s[i] ELSE t[i - Len(s)]
    BY ConcatProperties
<1>2. /\ DOMAIN (s \o t) = 1 .. (Len(s) + Len(t)) /\ DOMAIN s = 1 .. Len(s) /\ DOMAIN t = 1 .. Len(t)
      /\ Len(s) \in Nat /\ Len(t) \in Nat
    BY <1>1
<1>3. ASSUME NEW i \in 1 .. (Len(s) + Len(t)), ~(i <= Len(s))
      PROVE  i - Len(s) \in 1 .. Len(t) /\ (s \o t)[i] = t[i - Len(s)]
    BY <1>1, <1>2, <1>3
<1>4. ASSUME NEW i \in 1 .. (Len(s) + Len(t)), i <= Len(s)
      PROVE  i \in 1 .. Len(s) /\ (s \o t)[i] = s[i]
    BY <1>1, <1>2, <1>4
<1> QED
    BY <1>2, <1>3, <1>4

\* The same for a sequence that may or may not have been appended to.
LEMMA MaybeAppended ==
    ASSUME NEW S, NEW s \in Seq(S), NEW m \in S, NEW t, t = s \/ t = Append(s, m)
    PROVE  /\ \A i \in DOMAIN t : t[i] = m \/ (i \in DOMAIN s /\ t[i] = s[i])
           /\ \A i \in DOMAIN s : i \in DOMAIN t /\ t[i] = s[i]
<1>1. CASE t = s
    BY <1>1
<1>2. CASE t = Append(s, m)
    BY <1>2, AppendElements
<1> QED
    BY <1>1, <1>2

LEMMA TailElements ==
    ASSUME NEW S, NEW s \in Seq(S), s # <<>>
    PROVE  /\ \A i \in DOMAIN Tail(s) : \E j \in DOMAIN s : Tail(s)[i] = s[j]
           /\ \E j \in DOMAIN s : Head(s) = s[j]
<1>1. /\ Len(s) \in Nat /\ Len(s) >= 1 /\ Head(s) = s[1]
      /\ Tail(s) \in Seq(S) /\ Len(Tail(s)) = Len(s) - 1
      /\ \A i \in 1 .. Len(Tail(s)) : Tail(s)[i] = s[i + 1]
    BY HeadTailProperties, EmptySeq
<1>2. DOMAIN Tail(s) = 1 .. (Len(s) - 1) /\ DOMAIN s = 1 .. Len(s)
    BY <1>1
<1>3. \A i \in 1 .. (Len(s) - 1) : i + 1 \in 1 .. Len(s)
    BY <1>1
<1> QED
    BY <1>1, <1>2, <1>3

\* Giving paho a message of this run, before disconnect(): it is not a goodbye.
LEMMA PublishKeeps ==
    ASSUME IInv, NEW m \in Messages, m.run = run, Publish(m), UNCHANGED <<run, link, owed, acks>>
    PROVE  /\ pc' \notin {"init", "stopped", "dead"} => Connections'
           /\ \A i \in DOMAIN unacked' : unacked'[i].run = run
           /\ \A i \in DOMAIN wire' : wire'[i].run <= run
           /\ Open => \A i \in DOMAIN wire' : wire'[i].run = run
           /\ Early /\ m.body # "offline" =>
                 /\ \A i \in DOMAIN unacked' : unacked'[i].body # "offline"
                 /\ \A i \in DOMAIN wire' : wire'[i].run = run => wire'[i].body # "offline"
           /\ \A i \in DOMAIN unacked : \E j \in DOMAIN unacked' : unacked'[j] = unacked[i]
           /\ QosOf(m) > 0 => \E j \in DOMAIN unacked' : unacked'[j] = m
           /\ (\E i \in DOMAIN wire' : wire'[i].run # run) =>
                 \E i \in DOMAIN wire : wire[i].run # run
<1>1. unacked \in Seq(Packets) /\ wire \in Seq(Packets) /\ run \in Nat /\ m \in Packets
    BY BoundsAssumption DEF IInv, TypeOK, Packets
<1>2. unacked' = unacked \/ unacked' = Append(unacked, m)
    BY DEF Publish
<1>3. wire' = wire \/ wire' = Append(wire, m)
    BY DEF Publish, Write
<1>4. /\ \A i \in DOMAIN unacked' :
             unacked'[i] = m \/ (i \in DOMAIN unacked /\ unacked'[i] = unacked[i])
      /\ \A i \in DOMAIN unacked : i \in DOMAIN unacked' /\ unacked'[i] = unacked[i]
    BY <1>1, <1>2, MaybeAppended
<1>5. \A i \in DOMAIN wire' : wire'[i] = m \/ (i \in DOMAIN wire /\ wire'[i] = wire[i])
    BY <1>1, <1>3, MaybeAppended
<1>6. QosOf(m) > 0 => \E j \in DOMAIN unacked' : unacked'[j] = m
    <2> SUFFICES ASSUME QosOf(m) > 0 PROVE \E j \in DOMAIN unacked' : unacked'[j] = m
        OBVIOUS
    <2>1. unacked' = Append(unacked, m)
        BY DEF Publish
    <2> QED
        BY <1>1, <2>1, AppendElements, SMTT(60)
<1>7. \A i \in DOMAIN unacked' : unacked'[i].run = run
    BY <1>4 DEF IInv, Parts, Runs
<1>8. \A i \in DOMAIN wire' : wire'[i].run <= run
    BY <1>1, <1>5 DEF IInv, Parts, Runs
<1>9. Open => \A i \in DOMAIN wire' : wire'[i].run = run
    BY <1>5 DEF IInv, Parts, Runs
<1>12. pc' \notin {"init", "stopped", "dead"} => Connections'
    BY <1>4 DEF IInv, Parts, Connections, Open
<1>10. Early /\ m.body # "offline" => \A i \in DOMAIN unacked' : unacked'[i].body # "offline"
    BY <1>4 DEF IInv, Parts, NoGoodbye
<1>11. Early /\ m.body # "offline" =>
           \A i \in DOMAIN wire' : wire'[i].run = run => wire'[i].body # "offline"
    BY <1>5 DEF IInv, Parts, NoGoodbye
<1> QED
    BY <1>4, <1>5, <1>6, <1>7, <1>8, <1>9, <1>10, <1>11, <1>12

LEMMA IInvInit == Init => IInv
<1> SUFFICES ASSUME Init PROVE IInv
    OBVIOUS
<1>1. TypeOK
    BY TypeInit
<1>2. DOMAIN unacked = {} /\ DOMAIN wire = {} /\ DOMAIN acks = {} /\ DOMAIN owed = {}
    BY DEF Init
<1> QED
    BY <1>1, <1>2 DEF Init, IInv, Parts, Connections, Runs, NoGoodbye, AcksShown, ShownOrQueued, Announced

\* The broker handling the oldest message on the wire.
LEMMA ReceiveStep == ASSUME IInv, BrokerReceives, TypeOK' PROVE IInv'
<1>0. PICK m : m = Head(wire)
    OBVIOUS
<1>1. m \in Packets /\ run \in Nat /\ run' = run /\ pc' = pc /\ li' = li
      /\ unacked' = unacked /\ link' = link /\ owed' = owed /\ Open' = Open
    BY <1>0, Receives, BoundsAssumption DEF Reads, IInv, TypeOK, mainVars, clientVars, Open
<1>2. /\ \A i \in DOMAIN wire' : \E j \in DOMAIN wire : wire'[i] = wire[j]
      /\ \E j \in DOMAIN wire : m = wire[j]
    <2>1. wire \in Seq(Packets) /\ wire # <<>> /\ wire' = Tail(wire)
        BY Receives DEF IInv, TypeOK
    <2> QED
        BY <1>0, <2>1, TailElements
<1>3. Early' = Early /\ \A j : Announced(j)' = Announced(j)
    BY <1>1 DEF Early, Announced
<1>4. \A l : Queued(l)' = Queued(l)
    BY <1>1 DEF Queued
<1>5. \A i \in DOMAIN acks' :
          \/ acks'[i] = m /\ Open
          \/ i \in DOMAIN acks /\ acks'[i] = acks[i]
    <2>1. acks' = acks \/ (Open /\ acks' = Append(acks, m))
        BY <1>0, Receives DEF Reads, IInv
    <2>2. CASE acks' = acks
        BY <2>2
    <2>3. CASE Open /\ acks' = Append(acks, m)
        <3>1. acks \in Seq(Packets)
            BY DEF IInv, TypeOK
        <3> QED
            BY <1>1, <2>3, <3>1, MaybeAppended
    <2> QED
        BY <2>1, <2>2, <2>3
<1>13. /\ m \in Statuses => /\ retained' = [retained EXCEPT ![m.line] = m.body]
                             /\ fired' = (fired /\ ~(m.line = WillLine /\ m.body = "online"))
       /\ m \notin Statuses => UNCHANGED <<retained, fired>>
       /\ m \in Statuses => m.line \in LineSet /\ m.body \in {"online", "offline"}
       /\ retained \in [LineSet -> {"none", "online", "offline"}]
    <2>1. m \notin Statuses => UNCHANGED <<retained, fired>>
        BY <1>0, Receives, ZenonT(30) DEF IInv
    <2>2. ASSUME m \in Statuses
          PROVE  /\ retained' = [retained EXCEPT ![m.line] = m.body]
                 /\ fired' = (fired /\ ~(m.line = WillLine /\ m.body = "online"))
        <3>1. m \notin Readings /\ \A x \in Readings : m # Release(x)
            BY <2>2, StatusShape, ReadingShape, ReleaseFields
        <3> QED
            BY <1>0, <3>1, Receives, ZenonT(30) DEF IInv
    <2> QED
        BY <2>1, <2>2, StatusShape DEF IInv, TypeOK
<1>6. ASSUME Early, m.run = run, NEW l \in LineSet, Shown(l) PROVE Shown(l)'
    <2>1. m.body # "offline"
        BY <1>2, <1>6 DEF IInv, Parts, NoGoodbye
    <2>2. CASE m \in Statuses
        BY <1>6, <1>13, <2>1, <2>2 DEF Shown
    <2>3. CASE m \notin Statuses
        BY <1>6, <1>13, <2>3 DEF Shown
    <2> QED
        BY <2>2, <2>3
<1>7. ASSUME NEW l \in LineSet, m = Status(l, "online", run) PROVE Shown(l)'
    <2>1. m \in Statuses
        BY <1>7 DEF IInv, TypeOK, Statuses
    <2>2. m.line = l /\ m.body = "online"
        BY <1>7, MessageFields
    <2> QED
        BY <1>13, <2>1, <2>2 DEF Shown
<1>8. Connections'
    <2>1. acks' # <<>> => Open
        BY <1>0, Receives DEF Reads, IInv, Parts, Connections
    <2> QED
        BY <1>1, <2>1 DEF IInv, Parts, Connections
<1>9. Runs'
    BY <1>1, <1>2 DEF IInv, Parts, Runs
<1>10. NoGoodbye'
    BY <1>1, <1>2, <1>3 DEF IInv, Parts, NoGoodbye
<1>11. AcksShown'
    <2> SUFFICES ASSUME Early, NEW i \in DOMAIN acks', NEW l \in LineSet,
                        acks'[i] = Status(l, "online", run)
                 PROVE  Shown(l)'
        BY <1>1, <1>3 DEF AcksShown
    <2>1. CASE acks'[i] = m
        BY <1>7, <2>1
    <2>2. CASE i \in DOMAIN acks /\ acks'[i] = acks[i]
        <3>1. Shown(l)
            BY <2>2 DEF IInv, Parts, AcksShown
        <3>2. Open
            <4>1. acks # <<>>
                BY <2>2
            <4> QED
                BY <4>1 DEF IInv, Parts, Connections
        <3>3. m.run = run
            BY <3>2, <1>2 DEF IInv, Parts, Runs
        <3> QED
            BY <1>6, <3>1, <3>3
    <2> QED
        BY <1>5, <2>1, <2>2
<1>12. ShownOrQueued'
    <2> SUFFICES ASSUME NEW j \in DOMAIN Lines, Announced(j)
                 PROVE  /\ Shown(Lines[j])' \/ Queued(Lines[j])
                        /\ (\E i \in DOMAIN wire' : wire'[i].run # run) => Queued(Lines[j])
        BY <1>1, <1>3, <1>4 DEF ShownOrQueued
    <2>1. Early /\ Lines[j] \in LineSet
        BY LoopIndices DEF Announced, Early
    <2>2. (\E i \in DOMAIN wire : wire[i].run # run) => Queued(Lines[j])
        BY DEF IInv, Parts, ShownOrQueued
    <2>3. Shown(Lines[j]) \/ Queued(Lines[j])
        BY DEF IInv, Parts, ShownOrQueued
    <2>4. CASE m.run = run
        BY <1>2, <1>6, <2>1, <2>2, <2>3, <2>4
    <2>5. CASE m.run # run
        BY <1>2, <2>2, <2>5
    <2> QED
        BY <2>4, <2>5
<1> QED
    BY <1>8, <1>9, <1>10, <1>11, <1>12 DEF IInv, Parts

\* An action that takes the process out of connect() and run()'s loop, or not yet
\* into it, has only to keep connections and runs apart.
LEMMA NotEarly ==
    ASSUME ~Early', TypeOK', Connections', Runs'
    PROVE  IInv'
BY DEF Early, IInv, Parts, NoGoodbye, AcksShown, ShownOrQueued, Announced

\* The will overwrites "online" only where Shown allows for it.
LEMMA WillKeepsShown ==
    ASSUME TypeOK, PublishWill \/ UNCHANGED <<retained, fired>>, NEW l, Shown(l), l \in LineSet
    PROVE  Shown(l)'
BY DEF PublishWill, Shown, TypeOK

LEMMA IInvStep == IInv /\ [Next]_vars => IInv'
<1> SUFFICES ASSUME IInv, [Next]_vars PROVE IInv'
    OBVIOUS
<1>0. TypeOK' /\ run \in Nat
    BY TypeStep, BoundsAssumption DEF IInv, TypeOK
<1> USE DEF mainVars, clientVars, wireVars, brokerVars
<1>1. CASE Connect
    <2>1. acks = <<>> /\ DOMAIN acks = {} /\ owed = <<>> /\ DOMAIN owed = {} /\ ~Open /\ ~Open'
        BY <1>1 DEF Connect, IInv, Parts, Connections, Open
    <2>2. Connections' /\ Runs'
        BY <1>1, <2>1 DEF Connect, IInv, Parts, Connections, Runs
    <2>3. NoGoodbye' /\ AcksShown' /\ ShownOrQueued'
        BY <1>1, <2>1 DEF Connect, IInv, Parts, NoGoodbye, AcksShown, ShownOrQueued, Announced, Early
    <2> QED
        BY <1>0, <2>2, <2>3 DEF IInv, Parts
<1>2. CASE ConnectRefused
    <2>1. Connections' /\ Runs' /\ ~Early'
        BY <1>2 DEF ConnectRefused, IInv, Parts, Connections, Runs, Early, Open
    <2> QED
        BY <1>0, <2>1, NotEarly
<1>3. CASE WaitOver
    <2>1. Connections' /\ Runs' /\ NoGoodbye'
        BY <1>3 DEF WaitOver, IInv, Parts, Connections, Runs, NoGoodbye, Early, Open
    <2>2. AcksShown'
        BY <1>3 DEF WaitOver, IInv, Parts, AcksShown, Early, Shown
    <2>3. \A j \in DOMAIN Lines : ~(j < 1)
        BY LinesAssumption
    <2>4. ShownOrQueued'
        BY <1>3, <2>3 DEF WaitOver, ShownOrQueued, Announced
    <2> QED
        BY <1>0, <2>1, <2>2, <2>4 DEF IInv, Parts
<1>4. CASE AnnounceOnline
    <2> DEFINE m == Status(Lines[li], "online", run)
    <2>1. /\ m \in Messages /\ m.run = run /\ m.body # "offline" /\ QosOf(m) > 0
          /\ Publish(m) /\ run' = run /\ link' = link /\ acks' = acks /\ owed' = owed
          /\ retained' = retained /\ fired' = fired /\ pc = "announcing"
          /\ li \in DOMAIN Lines
        BY <1>4, LoopIndices, StatusType, MessageFields
           DEF AnnounceOnline, Announce, IInv, TypeOK, QosOf
    <2>2. /\ pc' \in {"announcing", "running"}
          /\ \A j \in DOMAIN Lines : Announced(j)' => Announced(j) \/ j = li
        BY <1>4, <2>1, LinesAssumption DEF AnnounceOnline, Announce, Announced
    <2>3. Connections'
        BY <2>1, <2>2, PublishKeeps
    <2>4. Runs'
        BY <2>1, PublishKeeps DEF Runs, Open
    <2>5. NoGoodbye'
        <3>1. Early
            BY <2>1 DEF Early
        <3> QED
            BY <2>1, <3>1, PublishKeeps DEF NoGoodbye
    <2>6. AcksShown'
        BY <2>1 DEF IInv, Parts, AcksShown, Early, Shown
    <2>7. \A l : Queued(l) => Queued(l)'
        BY <2>1, PublishKeeps DEF Queued
    <2>8. ASSUME NEW j \in DOMAIN Lines, j = li PROVE Queued(Lines[j])'
        <3>1. PICK i \in DOMAIN unacked' : unacked'[i] = m
            BY <2>1, PublishKeeps
        <3>2. unacked'[i] = Status(Lines[j], "online", run')
            BY <2>1, <2>8, <3>1
        <3> QED
            BY <3>1, <3>2 DEF Queued
    <2>9. ShownOrQueued'
        <3>1. (\E i \in DOMAIN wire' : wire'[i].run # run) => \E i \in DOMAIN wire : wire[i].run # run
            BY <2>1, PublishKeeps
        <3>2. \A l : Shown(l)' = Shown(l)
            BY <2>1 DEF Shown
        <3> SUFFICES ASSUME NEW j \in DOMAIN Lines, Announced(j)'
                     PROVE  /\ Shown(Lines[j])' \/ Queued(Lines[j])'
                            /\ (\E i \in DOMAIN wire' : wire'[i].run # run) => Queued(Lines[j])'
            BY <2>1 DEF ShownOrQueued
        <3>3. CASE Announced(j)
            BY <2>7, <3>1, <3>2, <3>3 DEF IInv, Parts, ShownOrQueued
        <3>4. CASE j = li
            BY <2>8, <3>4
        <3> QED
            BY <2>2, <3>3, <3>4
    <2> QED
        BY <1>0, <2>3, <2>4, <2>5, <2>6, <2>9 DEF IInv, Parts
<1>5. CASE PublishReading
    <2> DEFINE topic == <<Lines[li], Sensors[si]>>
               m == Reading(Lines[li], Sensors[si], seq'[topic], run)
    <2>1. /\ Publish(m) /\ run' = run /\ link' = link /\ acks' = acks /\ owed' = owed
          /\ retained' = retained /\ fired' = fired /\ pc = "running" /\ pc' = pc
        BY <1>5 DEF PublishReading
    <2>2. m \in Messages
        <3>1. topic \in LineSet \X SensorSet /\ seq[topic] \in 0..MaxSeq /\ seq[topic] < MaxSeq
            BY <1>5 DEF PublishReading, IInv, TypeOK, LineSet, SensorSet
        <3>2. seq'[topic] = seq[topic] + 1
            BY <1>5, <3>1 DEF PublishReading, IInv, TypeOK
        <3>3. seq'[topic] \in 1..MaxSeq
            BY <3>1, <3>2, BoundsAssumption
        <3>4. run \in 1..MaxRuns /\ Lines[li] \in LineSet /\ Sensors[si] \in SensorSet
            BY LoopIndices DEF IInv, TypeOK
        <3> QED
            BY <3>3, <3>4, ReadingType
    <2>3. m.run = run /\ m.body # "offline"
        BY MessageFields
    <2>4. Early /\ Early' /\ \A j : Announced(j) /\ Announced(j)'
        BY <2>1 DEF Early, Announced
    <2>5. Connections'
        BY <2>1, <2>2, <2>3, PublishKeeps
    <2>6. Runs'
        BY <2>1, <2>2, <2>3, PublishKeeps DEF Runs, Open
    <2>7. NoGoodbye'
        BY <2>1, <2>2, <2>3, <2>4, PublishKeeps DEF NoGoodbye
    <2>8. AcksShown'
        BY <2>1, <2>4 DEF IInv, Parts, AcksShown, Shown
    <2>9. ShownOrQueued'
        <3>1. (\E i \in DOMAIN wire' : wire'[i].run # run) => \E i \in DOMAIN wire : wire[i].run # run
            BY <2>1, <2>2, <2>3, PublishKeeps
        <3>2. \A l : Shown(l)' = Shown(l)
            BY <2>1 DEF Shown
        <3>3. \A l : Queued(l) => Queued(l)'
            BY <2>1, <2>2, <2>3, PublishKeeps DEF Queued
        <3> QED
            BY <2>1, <2>4, <3>1, <3>2, <3>3 DEF IInv, Parts, ShownOrQueued
    <2> QED
        BY <1>0, <2>5, <2>6, <2>7, <2>8, <2>9 DEF IInv, Parts
<1>6. CASE Interrupt
    <2>1. Connections' /\ Runs' /\ ~Early'
        BY <1>6 DEF Interrupt, IInv, Parts, Connections, Runs, Early, Open
    <2> QED
        BY <1>0, <2>1, NotEarly
<1>7. CASE AnnounceOffline
    <2> DEFINE m == Status(Lines[li], "offline", run)
    <2>1. /\ m \in Messages /\ m.run = run /\ Publish(m) /\ run' = run
          /\ link' = link /\ acks' = acks /\ owed' = owed /\ pc' \in {"leaving", "draining"}
        BY <1>7, LoopIndices, StatusType, MessageFields
           DEF AnnounceOffline, Announce, IInv, TypeOK
    <2>2. Connections' /\ ~Early'
        BY <2>1, PublishKeeps DEF Early
    <2>3. Runs'
        BY <2>1, PublishKeeps DEF Runs, Open
    <2> QED
        BY <1>0, <2>2, <2>3, NotEarly
<1>8. CASE LoopStopped
    <2>1. Connections' /\ Runs' /\ ~Early'
        BY <1>8 DEF LoopStopped, IInv, Parts, Connections, Runs, Early, Open
    <2> QED
        BY <1>0, <2>1, NotEarly
<1>9. CASE Disconnect
    <2>1. Connections' /\ Runs' /\ ~Early'
        BY <1>9 DEF Disconnect, IInv, Parts, Connections, Runs, Early, Open
    <2> QED
        BY <1>0, <2>1, NotEarly
<1>10. CASE Die
    <2>1. Connections' /\ Runs' /\ ~Early'
        BY <1>10 DEF Die, IInv, Parts, Connections, Runs, Early, Open
    <2> QED
        BY <1>0, <2>1, NotEarly
<1>11. CASE Restart
    <2>1. /\ link = "off" /\ acks = <<>> /\ DOMAIN acks = {} /\ DOMAIN unacked' = {} /\ run' = run + 1
          /\ owed = <<>> /\ DOMAIN owed = {} /\ ~Open /\ ~Open'
        BY <1>11 DEF Restart, IInv, Parts, Connections, Open
    <2>2. \A i \in DOMAIN wire : wire[i].run \in Nat /\ wire[i].run <= run
        <3>1. \A i \in DOMAIN wire : wire[i] \in Packets
            BY DEF IInv, TypeOK
        <3>2. \A x \in Packets : x.run \in Nat
            BY PacketKinds
        <3> QED
            BY <3>1, <3>2 DEF IInv, Parts, Runs
    <2>3. Connections'
        BY <1>11, <2>1 DEF Restart, Connections
    <2>4. Runs'
        BY <1>0, <1>11, <2>1, <2>2 DEF Restart, Runs
    <2>5. NoGoodbye'
        BY <1>0, <1>11, <2>1, <2>2 DEF Restart, NoGoodbye
    <2>6. AcksShown' /\ ShownOrQueued'
        BY <1>11, <2>1 DEF Restart, AcksShown, ShownOrQueued, Announced
    <2> QED
        BY <1>0, <2>3, <2>4, <2>5, <2>6 DEF IInv, Parts
<1>12. ASSUME UNCHANGED <<mainVars, unacked, wireVars, brokerVars>>, Connections', Open' => Open
       PROVE  IInv'
    <2>1. \A l, j : /\ Shown(l)' = Shown(l) /\ Queued(l)' = Queued(l)
                    /\ Early' = Early /\ Announced(j)' = Announced(j)
        BY <1>12 DEF Shown, Queued, Early, Announced
    <2>2. Runs'
        BY <1>12 DEF IInv, Parts, Runs
    <2>3. NoGoodbye' /\ AcksShown' /\ ShownOrQueued'
        BY <1>12, <2>1 DEF IInv, Parts, NoGoodbye, AcksShown, ShownOrQueued
    <2> QED
        BY <1>0, <1>12, <2>2, <2>3 DEF IInv, Parts
<1>13. CASE Dial
    <2>1. ~Open /\ ~Open'
        BY <1>13 DEF Dial, Open
    <2>2. Connections'
        BY <1>13, <2>1 DEF Dial, Terminated, IInv, Parts, Connections
    <2> QED
        BY <1>12, <1>13, <2>1, <2>2 DEF Dial
<1>14. CASE DialFails
    <2>1. ~Open /\ ~Open'
        BY <1>14 DEF DialFails, Open
    <2>2. Connections'
        BY <1>14, <2>1 DEF DialFails, IInv, Parts, Connections
    <2> QED
        BY <1>12, <1>14, <2>1, <2>2 DEF DialFails
<1>15. CASE OpenSocket
    <2>1. /\ pc \notin {"init", "stopped", "dead"} /\ DOMAIN acks' = {} /\ DOMAIN wire' = {}
          /\ unacked' = unacked /\ owed' = unacked /\ run' = run /\ pc' = pc /\ li' = li
          /\ link' = "opening" /\ acks' = <<>>
          /\ PublishWill \/ UNCHANGED <<retained, fired>>
        BY <1>15 DEF OpenSocket, IInv, Parts, Connections
    <2>2. Connections' /\ Runs'
        BY <1>0, <2>1 DEF IInv, Parts, Connections, Runs, Open
    <2>3. NoGoodbye' /\ AcksShown'
        BY <2>1 DEF IInv, Parts, NoGoodbye, AcksShown, Early
    <2>4. ASSUME NEW j \in DOMAIN Lines, Announced(j) PROVE Shown(Lines[j])' \/ Queued(Lines[j])'
        <3>1. CASE Shown(Lines[j])
            BY <2>1, <3>1, WillKeepsShown, LoopIndices DEF IInv
        <3>2. CASE Queued(Lines[j])
            BY <2>1, <3>2 DEF Queued
        <3> QED
            BY <2>4, <3>1, <3>2 DEF IInv, Parts, ShownOrQueued
    <2>5. ShownOrQueued'
        BY <2>1, <2>4 DEF ShownOrQueued, Announced
    <2> QED
        BY <1>0, <2>2, <2>3, <2>5 DEF IInv, Parts
<1>22. CASE Redial
    <2>1. /\ DOMAIN wire' = {} /\ DOMAIN acks' = {} /\ acks' = <<>> /\ owed' = <<>> /\ DOMAIN owed' = {}
          /\ UNCHANGED <<mainVars, unacked, brokerVars>> /\ pc = "waiting"
        BY <1>22 DEF Redial
    <2>2. Connections' /\ Runs'
        BY <2>1 DEF IInv, Parts, Connections, Runs
    <2>3. NoGoodbye' /\ AcksShown'
        BY <2>1 DEF IInv, Parts, NoGoodbye, AcksShown, Early
    <2>4. ShownOrQueued'
        BY <2>1 DEF IInv, Parts, ShownOrQueued, Shown, Queued, Announced
    <2> QED
        BY <1>0, <2>2, <2>3, <2>4 DEF IInv, Parts
<1>23. CASE Connected
    <2>1. /\ UNCHANGED <<mainVars, unacked, acks, brokerVars>>
          /\ owed' = <<>> /\ DOMAIN owed' = {} /\ link' = "up" /\ Open /\ Open'
          /\ wire' = wire \o owed /\ pc \notin {"init", "stopped", "dead"}
        BY <1>23 DEF Connected, IInv, Parts, Connections, Open
    <2>2. wire \in Seq(Packets) /\ owed \in Seq(Packets)
        BY DEF IInv, TypeOK
    <2>3. \A i \in DOMAIN wire' : (\E j \in DOMAIN wire : wire'[i] = wire[j])
                                 \/ (\E j \in DOMAIN unacked : wire'[i] = unacked[j])
        BY <2>1, <2>2, JoinElements DEF IInv, Parts, Connections
    <2>4. \A i \in DOMAIN wire' : wire'[i].run = run
        BY <2>1, <2>3 DEF IInv, Parts, Runs
    <2>5. Connections' /\ Runs'
        BY <1>0, <2>1, <2>4 DEF IInv, Parts, Connections, Runs
    <2>6. NoGoodbye'
        BY <2>1, <2>3 DEF IInv, Parts, NoGoodbye, Early
    <2>7. AcksShown'
        BY <2>1 DEF IInv, Parts, AcksShown, Early, Shown
    <2>8. ShownOrQueued'
        BY <2>1, <2>4 DEF IInv, Parts, ShownOrQueued, Shown, Queued, Announced
    <2> QED
        BY <1>0, <2>5, <2>6, <2>7, <2>8 DEF IInv, Parts
<1>24. CASE Received
    <2>1. PICK p : p = Head(acks)
        OBVIOUS
    <2>2. /\ link = "up" /\ Open /\ Open' /\ owed = <<>> /\ DOMAIN owed = {} /\ acks # <<>> /\ p \in Packets
          /\ UNCHANGED <<mainVars, link, owed, brokerVars>>
          /\ acks' = Tail(acks) /\ wire' = Append(wire, Release(p))
          /\ wire \in Seq(Packets) /\ acks \in Seq(Packets)
        BY <1>24, <2>1 DEF Received, IInv, TypeOK, Parts, Connections, Open
    <2>3. PICK k \in DOMAIN unacked : unacked[k] = p /\ unacked' = [unacked EXCEPT ![k] = Release(p)]
        BY <1>24, <2>1 DEF Received
    <2>4. /\ p \in Readings /\ Release(p) \in Packets /\ Release(p).body = "release" /\ Release(p).run = run
        <3>1. p \in Readings
            BY <1>24, <2>1, <2>2, PacketKinds DEF Received, QosOf
        <3>2. Release(p).run = p.run /\ Release(p) \in Packets /\ Release(p).body = "release"
            BY <3>1, ReleaseFields DEF Packets
        <3> QED
            BY <2>3, <3>1, <3>2 DEF IInv, Parts, Runs
    <2>5. /\ DOMAIN unacked' = DOMAIN unacked
          /\ \A i \in DOMAIN unacked : i # k => unacked'[i] = unacked[i]
          /\ unacked'[k] = Release(p)
        BY <2>3 DEF IInv, TypeOK
    <2>6. \A i \in DOMAIN wire' : wire'[i] = Release(p) \/ (i \in DOMAIN wire /\ wire'[i] = wire[i])
        <3>1. PICK r : r = Release(p)
            OBVIOUS
        <3>2. r \in Packets /\ wire' = Append(wire, r) /\ wire \in Seq(Packets)
            BY <2>2, <2>4, <3>1
        <3> QED
            BY <3>1, <3>2, AppendElements
    <2>7. \A i \in DOMAIN acks' : \E j \in DOMAIN acks : acks'[i] = acks[j]
        BY <2>2, TailElements
    <2>8. Connections'
        BY <2>2 DEF IInv, Parts, Connections
    <2>9. Runs'
        BY <1>0, <2>2, <2>4, <2>5, <2>6 DEF IInv, Parts, Runs
    <2>10. NoGoodbye'
        BY <2>2, <2>4, <2>5, <2>6 DEF IInv, Parts, NoGoodbye, Early
    <2>11. AcksShown'
        BY <2>2, <2>7 DEF IInv, Parts, AcksShown, Early, Shown
    <2>12. \A l : Queued(l) => Queued(l)'
        <3> SUFFICES ASSUME NEW l, NEW i \in DOMAIN unacked, unacked[i] = Status(l, "online", run)
                     PROVE  Queued(l)'
            BY DEF Queued
        <3>1. i # k
            BY <2>3, <2>4, ReadingShape, MessageFields
        <3> QED
            BY <2>2, <2>5, <3>1 DEF Queued
    <2>13. ShownOrQueued'
        BY <2>2, <2>12, <2>9 DEF IInv, Parts, ShownOrQueued, Shown, Announced, Runs
    <2> QED
        BY <1>0, <2>8, <2>9, <2>10, <2>11, <2>13 DEF IInv, Parts
<1>16. CASE Acked
    <2> DEFINE m == Head(acks)
    <2>1. PICK k \in DOMAIN unacked :
              /\ unacked[k] = m
              /\ unacked' = RemoveAt(unacked, k)
        BY <1>16 DEF Acked
    <2>2. /\ \A i \in DOMAIN unacked' : \E j \in DOMAIN unacked : unacked'[i] = unacked[j]
          /\ \A j \in DOMAIN unacked : j # k => \E i \in DOMAIN unacked' : unacked'[i] = unacked[j]
        <3>1. unacked \in Seq(Packets)
            BY DEF IInv, TypeOK
        <3>2. unacked' = RemoveAt(unacked, k)
            BY <2>1
        <3> QED
            BY <3>1, <3>2, RemoveOne
    <2>3. /\ \A i \in DOMAIN acks' : \E j \in DOMAIN acks : acks'[i] = acks[j]
          /\ \E j \in DOMAIN acks : m = acks[j]
        BY <1>16, TailElements DEF Acked, IInv, TypeOK
    <2>4. /\ link = "up" /\ link' = link /\ run' = run /\ pc' = pc /\ li' = li /\ wire' = wire
          /\ retained' = retained /\ fired' = fired
          /\ Open /\ Open' /\ owed = <<>> /\ owed' = owed /\ DOMAIN owed = {}
        BY <1>16 DEF Acked, IInv, Parts, Connections, Open
    <2>5. \A l, j : Shown(l)' = Shown(l) /\ Early' = Early /\ Announced(j)' = Announced(j)
        BY <2>4 DEF Shown, Early, Announced
    <2>6. Connections'
        BY <2>4 DEF IInv, Parts, Connections
    <2>7. Runs'
        BY <2>2, <2>4 DEF IInv, Parts, Runs
    <2>8. NoGoodbye'
        BY <2>2, <2>4, <2>5, ZenonT(60) DEF IInv, Parts, NoGoodbye
    <2>9. AcksShown'
        BY <2>3, <2>4, <2>5 DEF IInv, Parts, AcksShown
    <2>10. ASSUME NEW j \in DOMAIN Lines, Announced(j), Queued(Lines[j])
           PROVE  Shown(Lines[j]) \/ Queued(Lines[j])'
        <3>1. PICK i \in DOMAIN unacked : unacked[i] = Status(Lines[j], "online", run)
            BY <2>10 DEF Queued
        <3>2. CASE i = k
            BY <2>1, <2>3, <2>10, <3>1, <3>2, LoopIndices
               DEF IInv, Parts, AcksShown, Early, Announced
        <3>3. CASE i # k
            BY <2>2, <2>4, <3>1, <3>3 DEF Queued
        <3> QED
            BY <3>2, <3>3
    <2>11. ~ \E i \in DOMAIN wire : wire[i].run # run
        BY <2>4 DEF IInv, Parts, Runs
    <2>12. ShownOrQueued'
        BY <2>4, <2>5, <2>10, <2>11 DEF IInv, Parts, ShownOrQueued
    <2> QED
        BY <1>0, <2>6, <2>7, <2>8, <2>9, <2>12 DEF IInv, Parts
<1>17. CASE Drop
    <2>1. /\ DOMAIN wire' = {} /\ DOMAIN acks' = {} /\ acks' = <<>> /\ owed' = <<>> /\ DOMAIN owed' = {}
          /\ UNCHANGED <<mainVars, unacked, brokerVars>>
          /\ link' = IF Open THEN "down" ELSE link
        BY <1>17 DEF Drop
    <2>2. Connections'
        BY <2>1 DEF IInv, Parts, Connections, Open
    <2>3. Runs'
        BY <2>1 DEF IInv, Parts, Runs
    <2>4. NoGoodbye' /\ AcksShown'
        BY <2>1 DEF IInv, Parts, NoGoodbye, AcksShown, Early
    <2>5. ShownOrQueued'
        BY <2>1 DEF IInv, Parts, ShownOrQueued, Shown, Queued, Announced
    <2> QED
        BY <1>0, <2>2, <2>3, <2>4, <2>5 DEF IInv, Parts
<1>18. CASE DetectLoss
    <2>1. /\ acks = <<>> /\ DOMAIN acks = {} /\ DOMAIN wire = {}
          /\ UNCHANGED <<mainVars, clientVars, wireVars>> /\ PublishWill
        BY <1>18 DEF DetectLoss, IInv, Parts, Connections
    <2>2. Connections' /\ Runs' /\ NoGoodbye' /\ AcksShown'
        BY <2>1 DEF IInv, Parts, Connections, Runs, NoGoodbye, AcksShown, Early, Open
    <2>3. \A j \in DOMAIN Lines : Shown(Lines[j]) => Shown(Lines[j])'
        BY <2>1, WillKeepsShown, LoopIndices DEF IInv
    <2>4. ShownOrQueued'
        BY <2>1, <2>3 DEF IInv, Parts, ShownOrQueued, Queued, Announced
    <2> QED
        BY <1>0, <2>2, <2>4 DEF IInv, Parts
<1>19. CASE BrokerReceives
    BY <1>0, <1>19, ReceiveStep
<1>20. CASE BrokerDisconnects
    <2>1. UNCHANGED <<mainVars, clientVars, wire, acks, retained, fired>>
        BY <1>20 DEF BrokerDisconnects
    <2>2. Connections' /\ Runs' /\ NoGoodbye'
        BY <2>1 DEF IInv, Parts, Connections, Runs, NoGoodbye, Early, Open
    <2>3. AcksShown' /\ ShownOrQueued'
        BY <2>1 DEF IInv, Parts, AcksShown, ShownOrQueued, Early, Shown, Queued, Announced
    <2> QED
        BY <1>0, <2>2, <2>3 DEF IInv, Parts
<1>21. CASE UNCHANGED vars
    <2>1. Connections'
        BY <1>21 DEF vars, IInv, Parts, Connections, Open
    <2> QED
        BY <1>12, <1>21, <2>1 DEF vars, Open
<1> QED
    BY <1>1, <1>2, <1>3, <1>4, <1>5, <1>6, <1>7, <1>8, <1>9, <1>10, <1>11, <1>13, <1>14,
       <1>15, <1>16, <1>17, <1>18, <1>19, <1>20, <1>21, <1>22, <1>23, <1>24
       DEF Next, Main, Network, Broker

\* Once connect() has announced the lines, the broker shows each of them online,
\* paho still holds the announcement, or the will has overwritten its line,
\* through lost connections, redelivery and restarts.
THEOREM AnnouncedAlways == Spec => []AnnouncedOnline
<1>1. Init => IInv
    BY IInvInit
<1>2. IInv /\ [Next]_vars => IInv'
    BY IInvStep
<1>3. IInv => AnnouncedOnline
    <2> SUFFICES ASSUME IInv, pc = "running", NEW l \in LineSet
                 PROVE  Shown(l) \/ Queued(l)
        BY DEF AnnouncedOnline, Shown, Queued
    <2>1. PICK j \in DOMAIN Lines : l = Lines[j]
        BY DEF LineSet
    <2> QED
        BY <2>1 DEF IInv, Parts, ShownOrQueued, Announced
<1> QED
    BY <1>1, <1>2, <1>3, PTL DEF Spec

-----------------------------------------------------------------------------
(* Lemmas about sequences: the elements and their order. *)

LEMMA Appended ==
    ASSUME NEW S, NEW s \in Seq(S), NEW m \in S
    PROVE  LET t == Append(s, m)
           IN  /\ DOMAIN s = 1 .. Len(s) /\ DOMAIN t = 1 .. (Len(s) + 1) /\ Len(s) \in Nat
               /\ \A i \in 1 .. Len(s) : t[i] = s[i]
               /\ t[Len(s) + 1] = m
               /\ Range(t) = Range(s) \cup {m}
               /\ IsInjective(s) /\ m \notin Range(s) => IsInjective(t)
<1> DEFINE t == Append(s, m)
<1>1. /\ t \in Seq(S) /\ Len(t) = Len(s) + 1 /\ Len(s) \in Nat
      /\ \A i \in 1 .. Len(s) : t[i] = s[i]
      /\ t[Len(s) + 1] = m
    BY AppendProperties
<1>2. DOMAIN t = 1 .. (Len(s) + 1) /\ DOMAIN s = 1 .. Len(s)
    BY <1>1
<1> HIDE DEF t
<1>3. Range(t) = Range(s) \cup {m}
    BY <1>1, <1>2 DEF Range
<1>4. ASSUME IsInjective(s), m \notin Range(s) PROVE IsInjective(t)
    <2> SUFFICES ASSUME NEW a \in 1 .. (Len(s) + 1), NEW b \in 1 .. (Len(s) + 1), t[a] = t[b]
                 PROVE  a = b
        BY <1>2 DEF IsInjective
    <2>1. \A i \in 1 .. Len(s) : t[i] # m /\ t[i] = s[i]
        BY <1>1, <1>2, <1>4 DEF Range
    <2>2. \A i \in 1 .. (Len(s) + 1) : i = Len(s) + 1 \/ i \in 1 .. Len(s)
        BY <1>1
    <2> QED
        BY <1>1, <1>2, <1>4, <2>1, <2>2 DEF IsInjective
<1> QED
    BY <1>1, <1>2, <1>3, <1>4 DEF t

LEMMA Shortened ==
    ASSUME NEW S, NEW s \in Seq(S), s # <<>>
    PROVE  LET t == Tail(s)
           IN  /\ DOMAIN s = 1 .. Len(s) /\ DOMAIN t = 1 .. (Len(s) - 1)
               /\ Len(s) \in Nat /\ Len(s) >= 1
               /\ \A i \in 1 .. (Len(s) - 1) : t[i] = s[i + 1]
               /\ Head(s) = s[1]
               /\ Range(s) = Range(t) \cup {Head(s)}
               /\ IsInjective(s) => IsInjective(t) /\ Head(s) \notin Range(t)
<1> DEFINE t == Tail(s)
<1>1. /\ Len(s) \in Nat /\ Len(s) >= 1 /\ Head(s) = s[1]
      /\ t \in Seq(S) /\ Len(t) = Len(s) - 1
      /\ \A i \in 1 .. Len(t) : t[i] = s[i + 1]
    BY HeadTailProperties, EmptySeq
<1>2. DOMAIN t = 1 .. (Len(s) - 1) /\ DOMAIN s = 1 .. Len(s)
    BY <1>1
<1> HIDE DEF t
<1>3. \A i \in 1 .. Len(s) : i = 1 \/ (i - 1 \in 1 .. (Len(s) - 1) /\ s[i] = t[i - 1])
    BY <1>1
<1>4. \A i \in 1 .. (Len(s) - 1) : i + 1 \in 1 .. Len(s) /\ t[i] = s[i + 1]
    BY <1>1
<1>5. 1 \in 1 .. Len(s)
    BY <1>1
<1>6. Range(s) = Range(t) \cup {Head(s)}
    <2>1. ASSUME NEW x \in Range(s) PROVE x \in Range(t) \cup {Head(s)}
        <3>1. PICK i \in 1 .. Len(s) : x = s[i]
            BY <1>2 DEF Range
        <3>2. i = 1 => x = Head(s)
            BY <1>1, <3>1
        <3>3. i # 1 => x \in Range(t)
            BY <1>2, <1>3, <3>1 DEF Range
        <3> QED
            BY <3>2, <3>3
    <2>2. Range(t) \subseteq Range(s)
        BY <1>2, <1>4 DEF Range
    <2>3. Head(s) \in Range(s)
        BY <1>1, <1>2, <1>5 DEF Range
    <2> QED
        BY <2>1, <2>2, <2>3
<1>7. ASSUME IsInjective(s) PROVE IsInjective(t)
    <2> SUFFICES ASSUME NEW a \in 1 .. (Len(s) - 1), NEW b \in 1 .. (Len(s) - 1), t[a] = t[b]
                 PROVE  a = b
        BY <1>2 DEF IsInjective
    <2>1. a + 1 = b + 1
        BY <1>2, <1>4, <1>7 DEF IsInjective
    <2> QED
        BY <1>1, <2>1
<1>8. ASSUME IsInjective(s) PROVE Head(s) \notin Range(t)
    <2> SUFFICES ASSUME NEW a \in 1 .. (Len(s) - 1), t[a] = s[1] PROVE FALSE
        BY <1>1, <1>2 DEF Range
    <2>1. a + 1 = 1
        BY <1>2, <1>4, <1>5, <1>8 DEF IsInjective
    <2> QED
        BY <1>1, <2>1
<1> QED
    BY <1>1, <1>2, <1>6, <1>7, <1>8 DEF t

LEMMA Removed ==
    ASSUME NEW S, NEW s \in Seq(S), NEW k \in DOMAIN s
    PROVE  LET t == RemoveAt(s, k)
           IN  /\ DOMAIN s = 1 .. Len(s) /\ DOMAIN t = 1 .. (Len(s) - 1) /\ Len(s) \in Nat
               /\ \A i \in 1 .. (Len(s) - 1) : t[i] = IF i < k THEN s[i] ELSE s[i + 1]
               /\ Range(t) \subseteq Range(s)
               /\ Range(s) \subseteq Range(t) \cup {s[k]}
               /\ IsInjective(s) => IsInjective(t) /\ Range(t) = Range(s) \ {s[k]}
<1> DEFINE t == RemoveAt(s, k)
<1>1. k \in 1 .. Len(s) /\ Len(s) \in Nat /\ DOMAIN s = 1 .. Len(s)
    OBVIOUS
<1>2. /\ t \in Seq(S) /\ Len(t) = Len(s) - 1
      /\ \A i \in 1 .. (Len(s) - 1) : t[i] = IF i < k THEN s[i] ELSE s[i + 1]
    BY <1>1, RemoveIndexed DEF RemoveAt
<1>3. DOMAIN t = 1 .. (Len(s) - 1)
    BY <1>2
<1> HIDE DEF t
<1>4. \A i \in 1 .. (Len(s) - 1) : i \in 1 .. Len(s) /\ i + 1 \in 1 .. Len(s)
    BY <1>1
<1>5. ASSUME NEW j \in 1 .. Len(s), j # k
      PROVE  \/ j \in 1 .. (Len(s) - 1) /\ t[j] = s[j]
             \/ j - 1 \in 1 .. (Len(s) - 1) /\ t[j - 1] = s[j]
    <2>1. CASE j < k
        BY <1>1, <1>2, <2>1
    <2>2. CASE j > k
        <3>1. j - 1 \in 1 .. (Len(s) - 1) /\ ~(j - 1 < k) /\ (j - 1) + 1 = j
            BY <1>1, <2>2
        <3> QED
            BY <1>2, <3>1
    <2> QED
        BY <1>1, <1>5, <2>1, <2>2
<1>6. Range(t) \subseteq Range(s)
    BY <1>1, <1>2, <1>3, <1>4 DEF Range
<1>7. Range(s) \subseteq Range(t) \cup {s[k]}
    BY <1>1, <1>3, <1>5 DEF Range
<1>8. ASSUME IsInjective(s) PROVE IsInjective(t)
    <2> SUFFICES ASSUME NEW a \in 1 .. (Len(s) - 1), NEW b \in 1 .. (Len(s) - 1), t[a] = t[b]
                 PROVE  a = b
        BY <1>3 DEF IsInjective
    <2> DEFINE from(i) == IF i < k THEN i ELSE i + 1
    <2>1. from(a) \in 1 .. Len(s) /\ from(b) \in 1 .. Len(s)
        BY <1>1
    <2>2. s[from(a)] = s[from(b)]
        BY <1>2
    <2>3. from(a) = from(b)
        BY <1>1, <1>8, <2>1, <2>2 DEF IsInjective
    <2> QED
        BY <1>1, <2>3
<1>9. ASSUME IsInjective(s) PROVE s[k] \notin Range(t)
    <2> SUFFICES ASSUME NEW a \in 1 .. (Len(s) - 1), t[a] = s[k] PROVE FALSE
        BY <1>3 DEF Range
    <2> DEFINE from == IF a < k THEN a ELSE a + 1
    <2>1. from \in 1 .. Len(s) /\ s[from] = s[k] /\ from # k
        BY <1>1, <1>2
    <2> QED
        BY <1>1, <1>9, <2>1 DEF IsInjective
<1>10. IsInjective(s) => IsInjective(t) /\ Range(t) = Range(s) \ {s[k]}
    BY <1>6, <1>7, <1>8, <1>9
<1> QED
    BY <1>1, <1>2, <1>3, <1>6, <1>7, <1>10 DEF t

\* One element replaced by one that was not there.
LEMMA Replaced ==
    ASSUME NEW S, NEW s \in Seq(S), NEW k \in DOMAIN s, NEW x \in S
    PROVE  LET t == [s EXCEPT ![k] = x]
           IN  /\ t \in Seq(S) /\ DOMAIN t = DOMAIN s /\ t[k] = x
               /\ \A i \in DOMAIN s : i # k => t[i] = s[i]
               /\ x \in Range(t) /\ Range(t) \subseteq Range(s) \cup {x}
               /\ Range(s) \subseteq Range(t) \cup {s[k]}
               /\ IsInjective(s) /\ x \notin Range(s) =>
                     IsInjective(t) /\ Range(t) = (Range(s) \ {s[k]}) \cup {x}
<1> DEFINE t == [s EXCEPT ![k] = x]
<1>1. /\ t \in Seq(S) /\ DOMAIN t = DOMAIN s /\ t[k] = x
      /\ \A i \in DOMAIN s : i # k => t[i] = s[i]
    OBVIOUS
<1> HIDE DEF t
<1>2. /\ x \in Range(t) /\ Range(t) \subseteq Range(s) \cup {x}
      /\ Range(s) \subseteq Range(t) \cup {s[k]}
    BY <1>1 DEF Range
<1>3. ASSUME IsInjective(s), x \notin Range(s)
      PROVE  IsInjective(t) /\ Range(t) = (Range(s) \ {s[k]}) \cup {x}
    <2>1. \A i \in DOMAIN s : i # k => t[i] # s[k] /\ t[i] # x
        BY <1>1, <1>3 DEF IsInjective, Range
    <2>2. s[k] # x
        BY <1>3 DEF Range
    <2>3. s[k] \notin Range(t)
        BY <1>1, <2>1, <2>2 DEF Range
    <2>4. IsInjective(t)
        <3> SUFFICES ASSUME NEW a \in DOMAIN s, NEW b \in DOMAIN s, t[a] = t[b] PROVE a = b
            BY <1>1 DEF IsInjective
        <3> QED
            BY <1>1, <1>3, <2>1 DEF IsInjective
    <2> QED
        BY <1>2, <2>3, <2>4
<1> QED
    BY <1>1, <1>2, <1>3 DEF t

\* Two sequences, one behind the other.
LEMMA Joined ==
    ASSUME NEW S, NEW s \in Seq(S), NEW t \in Seq(S)
    PROVE  LET u == s \o t
           IN  /\ u \in Seq(S) /\ DOMAIN s = 1 .. Len(s) /\ DOMAIN t = 1 .. Len(t)
               /\ DOMAIN u = 1 .. (Len(s) + Len(t)) /\ Len(s) \in Nat /\ Len(t) \in Nat
               /\ \A i \in 1 .. Len(s) : u[i] = s[i]
               /\ \A i \in 1 .. Len(t) : u[Len(s) + i] = t[i]
               /\ \A i \in 1 .. (Len(s) + Len(t)) : i \in 1 .. Len(s) \/ i - Len(s) \in 1 .. Len(t)
               /\ Range(u) = Range(s) \cup Range(t)
               /\ IsInjective(s) /\ IsInjective(t) /\ Range(s) \cap Range(t) = {} => IsInjective(u)
<1> DEFINE u == s \o t
<1>1. /\ u \in Seq(S) /\ Len(u) = Len(s) + Len(t)
      /\ \A i \in 1 .. (Len(s) + Len(t)) : u[i] = IF i <= Len(s) THEN s[i] ELSE t[i - Len(s)]
    BY ConcatProperties
<1>2. /\ DOMAIN u = 1 .. (Len(s) + Len(t)) /\ DOMAIN s = 1 .. Len(s) /\ DOMAIN t = 1 .. Len(t)
      /\ Len(s) \in Nat /\ Len(t) \in Nat
    BY <1>1
<1> HIDE DEF u
<1>3. \A i \in 1 .. Len(s) : i \in 1 .. (Len(s) + Len(t)) /\ u[i] = s[i]
    BY <1>1, <1>2
<1>4. ASSUME NEW i \in 1 .. Len(t) PROVE Len(s) + i \in 1 .. (Len(s) + Len(t)) /\ u[Len(s) + i] = t[i]
    <2>1. Len(s) + i \in 1 .. (Len(s) + Len(t)) /\ ~(Len(s) + i <= Len(s)) /\ (Len(s) + i) - Len(s) = i
        BY <1>2
    <2> QED
        BY <1>1, <2>1
<1>5. ASSUME NEW i \in 1 .. (Len(s) + Len(t))
      PROVE  \/ i \in 1 .. Len(s) /\ u[i] = s[i]
             \/ i - Len(s) \in 1 .. Len(t) /\ u[i] = t[i - Len(s)]
    <2>1. CASE i <= Len(s)
        BY <1>1, <1>2, <2>1
    <2>2. CASE ~(i <= Len(s))
        <3>1. i - Len(s) \in 1 .. Len(t)
            BY <1>2, <2>2
        <3> QED
            BY <1>1, <2>2, <3>1
    <2> QED
        BY <2>1, <2>2
<1>6. Range(u) = Range(s) \cup Range(t)
    <2>1. Range(s) \cup Range(t) \subseteq Range(u)
        BY <1>2, <1>3, <1>4 DEF Range
    <2>2. Range(u) \subseteq Range(s) \cup Range(t)
        BY <1>2, <1>5 DEF Range
    <2> QED
        BY <2>1, <2>2
<1>7. ASSUME IsInjective(s), IsInjective(t), Range(s) \cap Range(t) = {} PROVE IsInjective(u)
    <2> SUFFICES ASSUME NEW a \in 1 .. (Len(s) + Len(t)), NEW b \in 1 .. (Len(s) + Len(t)), u[a] = u[b]
                 PROVE  a = b
        BY <1>2 DEF IsInjective
    <2>1. \/ a \in 1 .. Len(s) /\ b \in 1 .. Len(s) /\ s[a] = s[b]
          \/ /\ a - Len(s) \in 1 .. Len(t) /\ b - Len(s) \in 1 .. Len(t)
             /\ t[a - Len(s)] = t[b - Len(s)]
        BY <1>2, <1>5, <1>7 DEF Range
    <2>2. CASE a \in 1 .. Len(s) /\ b \in 1 .. Len(s) /\ s[a] = s[b]
        BY <1>2, <1>7, <2>2 DEF IsInjective
    <2>3. CASE /\ a - Len(s) \in 1 .. Len(t) /\ b - Len(s) \in 1 .. Len(t)
               /\ t[a - Len(s)] = t[b - Len(s)]
        <3>1. a - Len(s) = b - Len(s)
            BY <1>2, <1>7, <2>3 DEF IsInjective
        <3> QED
            BY <1>2, <3>1
    <2> QED
        BY <2>1, <2>2, <2>3
<1> QED
    BY <1>1, <1>2, <1>3, <1>4, <1>5, <1>6, <1>7 DEF u

-----------------------------------------------------------------------------
(* What a run has handed to paho. *)

\* disconnect() has begun, or the process has ended.
Over == pc \in {"leaving", "draining", "closing", "stopped", "dead"}

Topics == LineSet \X SensorSet

\* The numbers of the readings handed to paho on topic t in this run.
GivenOf(t) == {m.seq : m \in {r \in handed \cap Readings :
                                <<r.line, r.sensor>> = t /\ r.run = run}}

\* Every number of every topic has its reading, but for the last of one topic
\* once Ctrl-C has come between the numbering and the publication.
Numbered ==
    /\ \A m \in handed : m.run <= run
    /\ \/ \A t \in Topics : GivenOf(t) = 1 .. seq[t]
       \/ /\ Over
          /\ \E u \in Topics :
               /\ GivenOf(u) = 1 .. (seq[u] - 1)
               /\ \A t \in Topics \ {u} : GivenOf(t) = 1 .. seq[t]

\* The statuses of this run the main thread has still to hand over.
Unsaid ==
    /\ pc \in {"init", "waiting"} => \A m \in handed : m.run = run => m.body # "online"
    /\ pc = "announcing" =>
          \A j \in DOMAIN Lines : j >= li => Status(Lines[j], "online", run) \notin handed
    /\ Early => \A m \in handed : m.run = run => m.body # "offline"
    /\ pc = "leaving" =>
          \A j \in DOMAIN Lines : j >= li => Status(Lines[j], "offline", run) \notin handed

LEMMA StatusIsNoReading == \A l, b, r : Status(l, b, r) \notin Readings
<1> SUFFICES ASSUME NEW l, NEW b, NEW r, Status(l, b, r) \in Readings PROVE FALSE
    OBVIOUS
<1>1. PICK k \in LineSet, s \in SensorSet, n \in 1..MaxSeq, q \in 1..MaxRuns :
          Status(l, b, r) = Reading(k, s, n, q)
    BY DEF Readings
<1>2. Status(l, b, r).sensor = "status" /\ Reading(k, s, n, q).sensor = s
    BY DEF Status, Reading
<1> QED
    BY <1>1, <1>2, SensorsAssumption

LEMMA RunIsNat == \A m \in Messages : m.run \in Nat
BY BoundsAssumption DEF Messages, Statuses, Readings, Status, Reading

LEMMA ReadingFields ==
    \A l, s, n, r : LET m == Reading(l, s, n, r)
                   IN  m.line = l /\ m.sensor = s /\ m.seq = n /\ m.run = r /\ m.body = "data"
BY DEF Reading

\* A status adds no number, a reading its own on its topic.
LEMMA GivenKept ==
    ASSUME NEW m, m \notin Readings, handed' = handed \cup {m}, run' = run, NEW t
    PROVE  GivenOf(t)' = GivenOf(t)
<1>1. handed' \cap Readings = handed \cap Readings
    OBVIOUS
<1> QED
    BY <1>1 DEF GivenOf

LEMMA GivenMore ==
    ASSUME NEW l, NEW s, NEW n, LET m == Reading(l, s, n, run) IN m \in Readings /\ handed' = handed \cup {m},
           run' = run, NEW t
    PROVE  GivenOf(t)' = IF t = <<l, s>> THEN GivenOf(t) \cup {n} ELSE GivenOf(t)
<1> DEFINE m == Reading(l, s, n, run)
           Those(h) == {r \in h \cap Readings : <<r.line, r.sensor>> = t /\ r.run = run}
<1>1. Those(handed') = IF t = <<l, s>> THEN Those(handed) \cup {m} ELSE Those(handed)
    BY ReadingFields
<1>2. GivenOf(t) = {r.seq : r \in Those(handed)} /\ GivenOf(t)' = {r.seq : r \in Those(handed')}
    BY DEF GivenOf
<1>3. m.seq = n
    BY ReadingFields
<1>4. CASE t = <<l, s>>
    <2>1. Those(handed') = Those(handed) \cup {m}
        BY <1>1, <1>4
    <2> HIDE DEF Those, m
    <2>2. {r.seq : r \in Those(handed) \cup {m}} = {r.seq : r \in Those(handed)} \cup {m.seq}
        OBVIOUS
    <2> QED
        BY <1>2, <1>3, <1>4, <2>1, <2>2
<1>5. CASE t # <<l, s>>
    BY <1>1, <1>2, <1>5
<1> QED
    BY <1>4, <1>5

\* What the main thread hands to paho next has not been handed over before.
LEMMA NewNumber ==
    ASSUME IInv, Numbered, PublishReading
    PROVE  LET t == <<Lines[li], Sensors[si]>>
               m == Reading(Lines[li], Sensors[si], seq[t] + 1, run)
           IN  /\ t \in Topics /\ seq[t] \in Nat /\ seq' = [seq EXCEPT ![t] = seq[t] + 1]
               /\ seq'[t] = seq[t] + 1 /\ seq \in [Topics -> 0..MaxSeq]
               /\ m \in Readings /\ m \notin handed /\ Publish(m)
<1> DEFINE t == <<Lines[li], Sensors[si]>>
           m == Reading(Lines[li], Sensors[si], seq[t] + 1, run)
<1>1. t \in Topics /\ seq \in [Topics -> 0..MaxSeq] /\ Lines[li] \in LineSet /\ Sensors[si] \in SensorSet
    BY LoopIndices DEF IInv, TypeOK, Topics
<1>2. seq[t] \in Nat /\ seq[t] < MaxSeq /\ seq' = [seq EXCEPT ![t] = seq[t] + 1]
      /\ Publish(Reading(Lines[li], Sensors[si], seq'[t], run)) /\ pc = "running"
    BY <1>1, SMTT(30), BoundsAssumption DEF PublishReading
<1>3. seq'[t] = seq[t] + 1
    BY <1>1, <1>2
<1>4. seq[t] + 1 \in 1..MaxSeq /\ run \in 1..MaxRuns
    BY <1>2, BoundsAssumption DEF IInv, TypeOK
<1>5. m \in Readings
    BY <1>1, <1>4 DEF Readings
<1>6. GivenOf(t) = 1 .. seq[t]
    BY <1>1, <1>2 DEF Numbered, Over
<1>7. ASSUME m \in handed PROVE seq[t] + 1 \in GivenOf(t)
    BY <1>5, <1>7, ReadingFields DEF GivenOf
<1>8. m \notin handed
    BY <1>2, <1>6, <1>7
<1> QED
    BY <1>1, <1>2, <1>3, <1>5, <1>8

LEMMA NewStatus ==
    ASSUME IInv, Unsaid
    PROVE  /\ AnnounceOnline => Status(Lines[li], "online", run) \notin handed
           /\ AnnounceOffline => Status(Lines[li], "offline", run) \notin handed
<1>1. li \in DOMAIN Lines /\ li >= li
    BY LinesAssumption DEF IInv, TypeOK
<1> QED
    BY <1>1 DEF AnnounceOnline, AnnounceOffline, Announce, Unsaid

LEMMA FreshInit == Init => Numbered /\ Unsaid
<1> SUFFICES ASSUME Init PROVE Numbered /\ Unsaid
    OBVIOUS
<1>1. \A t \in Topics : GivenOf(t) = {} /\ seq[t] = 0
    BY DEF Init, GivenOf, Topics
<1>2. \A t \in Topics : GivenOf(t) = 1 .. seq[t]
    BY <1>1
<1>3. Numbered
    BY <1>2 DEF Init, Numbered
<1>4. Unsaid
    BY DEF Init, Unsaid
<1> QED
    BY <1>3, <1>4

LEMMA NumberedStep == IInv /\ Numbered /\ [Next]_vars => Numbered'
<1> SUFFICES ASSUME IInv, Numbered, [Next]_vars PROVE Numbered'
    OBVIOUS
<1> USE DEF mainVars
<1>0. run \in Nat /\ \A t \in Topics : seq[t] \in Nat
    BY BoundsAssumption DEF IInv, TypeOK, Topics
<1>1. ASSUME handed' = handed, run' = run, seq' = seq, Over => Over' PROVE Numbered'
    <2>1. \A t : GivenOf(t)' = GivenOf(t)
        BY <1>1 DEF GivenOf
    <2> QED
        BY <1>1, <2>1 DEF Numbered
<1>2. ASSUME NEW m \in Statuses, m.run = run, handed' = handed \cup {m}, run' = run, seq' = seq,
             Over => Over'
      PROVE  Numbered'
    <2>1. m \notin Readings
        BY <1>2, StatusIsNoReading DEF Statuses
    <2>2. \A t : GivenOf(t)' = GivenOf(t)
        BY <1>2, <2>1, GivenKept
    <2> QED
        BY <1>0, <1>2, <2>2 DEF Numbered
<1>3. CASE AnnounceOnline
    <2>1. Status(Lines[li], "online", run) \in Statuses
        BY LoopIndices DEF IInv, TypeOK, Statuses
    <2> QED
        BY <1>2, <1>3, <2>1, MessageFields DEF AnnounceOnline, Announce, Publish, Write, Over
<1>4. CASE AnnounceOffline
    <2>1. Status(Lines[li], "offline", run) \in Statuses
        BY LoopIndices DEF IInv, TypeOK, Statuses
    <2> QED
        BY <1>2, <1>4, <2>1, MessageFields DEF AnnounceOffline, Announce, Publish, Write, Over
<1>5. CASE PublishReading
    <2> DEFINE topic == <<Lines[li], Sensors[si]>>
               m == Reading(Lines[li], Sensors[si], seq[topic] + 1, run)
    <2>1. /\ topic \in Topics /\ seq[topic] \in Nat /\ seq' = [seq EXCEPT ![topic] = seq[topic] + 1]
          /\ seq'[topic] = seq[topic] + 1 /\ seq \in [Topics -> 0..MaxSeq]
          /\ m \in Readings /\ Publish(m)
        BY <1>5, NewNumber
    <2>2. run' = run /\ handed' = handed \cup {m} /\ m.run = run /\ pc = "running"
        BY <1>5, <2>1, MessageFields DEF PublishReading, Publish, Write
    <2>3. \A t : GivenOf(t)' = IF t = topic THEN GivenOf(t) \cup {seq[topic] + 1} ELSE GivenOf(t)
        BY <2>1, <2>2, GivenMore
    <2>4. \A t \in Topics : GivenOf(t) = 1 .. seq[t]
        BY <2>2 DEF Numbered, Over
    <2>5. ASSUME NEW t \in Topics PROVE GivenOf(t)' = 1 .. seq'[t]
        <3>1. CASE t = topic
            <4>1. (1 .. seq[topic]) \cup {seq[topic] + 1} = 1 .. (seq[topic] + 1)
                BY <2>1
            <4> QED
                BY <2>1, <2>3, <2>4, <3>1, <4>1
        <3>2. CASE t # topic
            <4>1. seq'[t] = seq[t]
                BY <2>1, <3>2
            <4> QED
                BY <2>3, <2>4, <3>2, <4>1
        <3> QED
            BY <3>1, <3>2
    <2>6. \A x \in handed' : x.run <= run'
        BY <1>0, <2>2 DEF Numbered
    <2> QED
        BY <2>5, <2>6 DEF Numbered
<1>6. CASE Interrupt
    <2>0. PICK u : u = <<Lines[li], Sensors[si]>>
        OBVIOUS
    <2>1. /\ u \in Topics /\ run' = run /\ handed' = handed /\ pc = "running" /\ Over'
          /\ seq' \in {seq, [seq EXCEPT ![u] = IF @ < MaxSeq THEN @ + 1 ELSE @]}
        BY <1>6, <2>0, LoopIndices DEF Interrupt, Topics, IInv, TypeOK, Over
    <2>2. seq \in [Topics -> 0..MaxSeq]
        BY DEF IInv, TypeOK, Topics
    <2>3. \A t \in Topics : GivenOf(t)' = 1 .. seq[t]
        BY <2>1 DEF Numbered, Over, GivenOf
    <2>4. \A x \in handed' : x.run <= run'
        BY <2>1 DEF Numbered
    <2>5. CASE seq' = seq
        BY <2>3, <2>4, <2>5 DEF Numbered
    <2>6. CASE seq' # seq
        <3>1. seq' = [seq EXCEPT ![u] = IF seq[u] < MaxSeq THEN seq[u] + 1 ELSE seq[u]]
            BY <2>1, <2>6
        <3>2. seq[u] < MaxSeq
            BY <2>1, <2>2, <2>6, <3>1
        <3>3. seq'[u] = seq[u] + 1 /\ \A t \in Topics \ {u} : seq'[t] = seq[t]
            BY <2>1, <2>2, <3>1, <3>2
        <3>4. seq'[u] - 1 = seq[u]
            BY <1>0, <2>1, <3>3
        <3>5. GivenOf(u)' = 1 .. (seq'[u] - 1)
            BY <2>1, <2>3, <3>4
        <3>6. \A t \in Topics \ {u} : GivenOf(t)' = 1 .. seq'[t]
            BY <2>3, <3>3
        <3> QED
            BY <2>1, <2>4, <3>5, <3>6 DEF Numbered
    <2> QED
        BY <2>5, <2>6
<1>7. CASE Restart
    <2>1. handed' = handed /\ run' = run + 1 /\ \A t \in Topics : seq'[t] = 0
        BY <1>7 DEF Restart, Topics
    <2>2. \A x \in handed : x.run \in Nat /\ x.run <= run
        BY RunIsNat DEF Numbered, IInv, TypeOK
    <2>3. \A t \in Topics : GivenOf(t)' = {}
        BY <1>0, <2>1, <2>2 DEF GivenOf
    <2>4. \A x \in handed' : x.run <= run'
        BY <1>0, <2>1, <2>2
    <2>5. ASSUME NEW t \in Topics PROVE GivenOf(t)' = 1 .. seq'[t]
        <3>1. 1 .. 0 = {} /\ seq'[t] = 0
            BY <2>1
        <3> QED
            BY <2>3, <3>1
    <2> QED
        BY <2>4, <2>5 DEF Numbered
<1>8. CASE Connect \/ ConnectRefused \/ WaitOver \/ LoopStopped \/ Disconnect \/ Die
    BY <1>1, <1>8 DEF Connect, ConnectRefused, WaitOver, LoopStopped, Disconnect, Die, Over
<1>9. CASE UNCHANGED mainVars
    BY <1>1, <1>9 DEF Over
<1> QED
    BY <1>3, <1>4, <1>5, <1>6, <1>7, <1>8, <1>9
       DEF Next, Main, Network, Broker, vars, Dial, DialFails, OpenSocket, Redial, Connected, Acked,
           Received, Drop, DetectLoss, BrokerReceives, ReceivesStatus, ReceivesReading,
           ReceivesRelease, Reads, BrokerDisconnects

LEMMA UnsaidStep == IInv /\ Numbered /\ Unsaid /\ [Next]_vars => Unsaid'
<1> SUFFICES ASSUME IInv, Numbered, Unsaid, [Next]_vars PROVE Unsaid'
    OBVIOUS
<1> USE DEF mainVars
<1>0. li \in DOMAIN Lines /\ DOMAIN Lines \subseteq Nat /\ DOMAIN Lines = 1 .. Len(Lines)
    BY LinesAssumption DEF IInv, TypeOK
<1>1. CASE Connect \/ ConnectRefused \/ LoopStopped \/ Disconnect \/ Die
    BY <1>1 DEF Connect, ConnectRefused, LoopStopped, Disconnect, Die, Unsaid, Early
<1>2. CASE WaitOver
    <2>1. \A j \in DOMAIN Lines : Status(Lines[j], "online", run) \notin handed
        BY <1>2, MessageFields DEF WaitOver, Unsaid
    <2> QED
        BY <1>2, <2>1 DEF WaitOver, Unsaid, Early
<1>3. ASSUME NEW b \in {"online", "offline"}, NEW at, NEW next, Announce(b, at, next),
             NEW j \in DOMAIN Lines, j >= li', pc' = at,
             \A i \in DOMAIN Lines : i >= li => Status(Lines[i], b, run) \notin handed,
             at # next
      PROVE  Status(Lines[j], b, run') \notin handed'
    <2>1. li' = li + 1 /\ run' = run /\ handed' = handed \cup {Status(Lines[li], b, run)}
        BY <1>3 DEF Announce, Publish, Write
    <2>2. j >= li /\ j # li
        BY <1>0, <1>3, <2>1
    <2>3. Lines[j] # Lines[li]
        BY <1>0, <2>2, LinesDiffer DEF IsInjective
    <2>4. Status(Lines[j], b, run) # Status(Lines[li], b, run)
        BY <2>3, MessageFields
    <2>5. Status(Lines[j], b, run) \notin handed
        BY <1>3, <2>2
    <2> QED
        BY <2>1, <2>4, <2>5
<1>4. CASE AnnounceOnline
    <2>1. Announce("online", "announcing", "running") /\ pc = "announcing" /\ pc' \in {"announcing", "running"}
          /\ handed' = handed \cup {Status(Lines[li], "online", run)} /\ run' = run
        BY <1>4 DEF AnnounceOnline, Announce, Publish, Write
    <2>2. pc' = "announcing" =>
             \A j \in DOMAIN Lines : j >= li' => Status(Lines[j], "online", run') \notin handed'
        BY <1>3, <2>1 DEF Unsaid
    <2>3. \A m \in handed' : m.run = run' => m.body # "offline"
        BY <2>1, MessageFields DEF Unsaid, Early
    <2> QED
        BY <2>1, <2>2, <2>3 DEF Unsaid
<1>5. CASE AnnounceOffline
    <2>1. Announce("offline", "leaving", "draining") /\ pc = "leaving" /\ pc' \in {"leaving", "draining"}
        BY <1>5 DEF AnnounceOffline, Announce
    <2>2. pc' = "leaving" =>
             \A j \in DOMAIN Lines : j >= li' => Status(Lines[j], "offline", run') \notin handed'
        BY <1>3, <2>1 DEF Unsaid
    <2> QED
        BY <2>1, <2>2 DEF Unsaid, Early
<1>6. CASE PublishReading
    <2>1. PICK n : handed' = handed \cup {Reading(Lines[li], Sensors[si], n, run)}
        BY <1>6 DEF PublishReading, Publish, Write
    <2>2. run' = run /\ pc = "running" /\ pc' = pc
        BY <1>6 DEF PublishReading
    <2>3. \A m \in handed' : m.run = run' => m.body # "offline"
        BY <2>1, <2>2, MessageFields DEF Unsaid, Early
    <2> QED
        BY <2>2, <2>3 DEF Unsaid
<1>7. CASE Interrupt
    <2>1. pc' = "leaving" /\ run' = run /\ handed' = handed /\ pc = "running"
        BY <1>7 DEF Interrupt
    <2>2. \A j \in DOMAIN Lines : Status(Lines[j], "offline", run) \notin handed
        BY <2>1, MessageFields DEF Unsaid, Early
    <2> QED
        BY <2>1, <2>2 DEF Unsaid, Early
<1>8. CASE Restart
    <2>1. pc' = "init" /\ run' = run + 1 /\ handed' = handed
        BY <1>8 DEF Restart
    <2>2. \A m \in handed : m.run # run + 1
        <3>1. run \in Nat /\ \A m \in handed : m.run \in Nat /\ m.run <= run
            BY RunIsNat, BoundsAssumption DEF Numbered, IInv, TypeOK
        <3> QED
            BY <3>1
    <2> QED
        BY <2>1, <2>2 DEF Unsaid
<1>9. CASE UNCHANGED mainVars
    BY <1>9 DEF Unsaid, Early
<1> QED
    BY <1>1, <1>2, <1>4, <1>5, <1>6, <1>7, <1>8, <1>9
       DEF Next, Main, Network, Broker, vars, Dial, DialFails, OpenSocket, Redial, Connected, Acked,
           Received, Drop, DetectLoss, BrokerReceives, ReceivesStatus, ReceivesReading,
           ReceivesRelease, Reads, BrokerDisconnects

\* Of all the numbers of a run at most one, the last of one topic, belongs to no
\* reading, and then Ctrl-C came between _simulate_reading and publish.
THEOREM NumbersAreWhole == Spec => []NumbersHaveNoGap
<1>1. Init => IInv /\ Numbered
    BY IInvInit, FreshInit
<1>2. IInv /\ Numbered /\ [Next]_vars => (IInv /\ Numbered)'
    BY IInvStep, NumberedStep
<1>3. IInv /\ Numbered => NumbersHaveNoGap
    <2> SUFFICES ASSUME Numbered,
                        NEW t \in {t \in Topics : GivenOf(t) # 1 .. seq[t]}
                 PROVE  /\ {u \in Topics : GivenOf(u) # 1 .. seq[u]} = {t}
                        /\ GivenOf(t) = 1 .. (seq[t] - 1) /\ Over
        BY DEF NumbersHaveNoGap, GivenOf, Topics, Over
    <2>1. PICK u \in Topics : /\ Over /\ GivenOf(u) = 1 .. (seq[u] - 1)
                              /\ \A v \in Topics \ {u} : GivenOf(v) = 1 .. seq[v]
        BY DEF Numbered
    <2> QED
        BY <2>1
<1> QED
    BY <1>1, <1>2, <1>3, PTL DEF Spec

-----------------------------------------------------------------------------
(* The way of a message: held by paho, on the wire, acknowledged. *)

Ended == pc \in {"stopped", "dead"}

\* The packets under way; those that wait for CONNACK are among the held ones.
Underway == Range(unacked) \cup Range(wire) \cup Range(acks)

\* What is under way, or has arrived, was handed over; QoS 0 is never held, only QoS 2
\* is released or stored, and only packets of this run are acknowledged.
Traced ==
    /\ \A p \in Underway : Origin(p) \in handed /\ (p.body = "release" => QosOf(p) = 2)
    /\ \A p \in Range(unacked) : QosOf(p) > 0
    /\ \A p \in Range(acks) : p.run = run
    /\ \A m \in stored : m \in handed /\ QosOf(m) = 2
    /\ \A m \in Readings : forwarded[m] > 0 => m \in handed

\* No packet is held twice, on the wire twice, or in two places between the client and
\* the broker, and a message that is being released is not under way itself.
Single ==
    /\ IsInjective(unacked) /\ IsInjective(wire) /\ IsInjective(acks)
    /\ Range(acks) \cap Range(wire) = {}
    /\ Range(owed) \cap (Range(wire) \cup Range(acks)) = {}
    /\ \A p, q \in Underway : Origin(p) = Origin(q) => p = q

\* While there is a socket, all that paho holds is on its way, there or back, or
\* waits for CONNACK.
Carried == Open => Range(unacked) \subseteq Range(acks) \cup Range(wire) \cup Range(owed)

\* What is on the wire of a connection the client no longer has, or not yet,
\* was written by an earlier run, unless the process has just ended.
OldWire == ~Ended /\ ~Open => \A m \in Range(wire) : m.run # run

Flow == Traced /\ Single /\ Carried /\ OldWire

\* The steps that hand message m over, for the first time.
Gives(m) ==
    /\ m \in Messages /\ m.run = run /\ m \notin handed /\ Publish(m)
    /\ m.body = "online" => pc = "announcing"
    /\ m.body = "offline" => pc = "leaving"
    /\ m \in Readings => pc = "running" /\ m.line \in LineSet
    /\ ~Ended /\ ~Ended'
    /\ UNCHANGED <<run, link, owed, acks, bye, brokerVars>>

\* The steps that move no message: at most they end the connection with the process.
Quiet ==
    /\ UNCHANGED <<run, handed, unacked, ahead, wire, retained, stored, forwarded, fired>>
    /\ \/ UNCHANGED <<owed, acks>> /\ Open' = Open
       \/ owed' = <<>> /\ acks' = <<>> /\ ~Open' /\ Ended'
    /\ Ended => Ended'

\* The steps that end the connection and lose what is under way.
Severed ==
    /\ wire' = <<>> /\ acks' = <<>> /\ owed' = <<>> /\ ~Open'
    /\ UNCHANGED <<pc, run, handed, unacked, ahead, brokerVars>>

LEMMA Steps ==
    ASSUME IInv, Numbered, Unsaid, [Next]_vars
    PROVE  \/ Quiet \/ (\E m : Gives(m)) \/ OpenSocket \/ Connected \/ Acked \/ Received
           \/ BrokerReceives \/ Restart \/ Severed \/ DetectLoss
<1> USE DEF mainVars, clientVars, wireVars, brokerVars
<1>1. CASE Connect \/ ConnectRefused
    BY <1>1 DEF Connect, ConnectRefused, Quiet, Ended, Open, IInv, Parts, Connections
<1>2. CASE WaitOver \/ Interrupt \/ LoopStopped
    BY <1>2 DEF WaitOver, Interrupt, LoopStopped, Quiet, Ended, Open
<1>3. CASE Disconnect \/ Die
    BY <1>3 DEF Disconnect, Die, Quiet, Ended, Open
<1>4. CASE Dial \/ DialFails \/ BrokerDisconnects \/ UNCHANGED vars
    BY <1>4 DEF Dial, DialFails, BrokerDisconnects, vars, Quiet, Ended, Open
<1>5. CASE AnnounceOnline
    <2> DEFINE m == Status(Lines[li], "online", run)
    <2>1. m \in Messages /\ m.run = run /\ m.body = "online" /\ m \notin handed /\ m \notin Readings
        BY <1>5, NewStatus, LoopIndices, StatusType, StatusIsNoReading, MessageFields DEF IInv, TypeOK
    <2>2. Gives(m)
        BY <1>5, <2>1 DEF AnnounceOnline, Announce, Gives, Ended
    <2> QED
        BY <2>2
<1>6. CASE AnnounceOffline
    <2> DEFINE m == Status(Lines[li], "offline", run)
    <2>1. m \in Messages /\ m.run = run /\ m.body = "offline" /\ m \notin handed /\ m \notin Readings
        BY <1>6, NewStatus, LoopIndices, StatusType, StatusIsNoReading, MessageFields DEF IInv, TypeOK
    <2>2. Gives(m)
        BY <1>6, <2>1 DEF AnnounceOffline, Announce, Gives, Ended
    <2> QED
        BY <2>2
<1>7. CASE PublishReading
    <2> DEFINE m == Reading(Lines[li], Sensors[si], seq[<<Lines[li], Sensors[si]>>] + 1, run)
    <2>1. m \in Readings /\ m \notin handed /\ Publish(m)
        BY <1>7, NewNumber
    <2>2. m.run = run /\ m.body = "data" /\ m.line \in LineSet /\ m \in Messages
        BY <2>1, LoopIndices, ReadingFields DEF Messages, IInv, TypeOK
    <2>3. Gives(m)
        BY <1>7, <2>1, <2>2 DEF PublishReading, Gives, Ended
    <2> QED
        BY <2>3
<1>8. CASE Drop \/ Redial
    BY <1>8 DEF Drop, Redial, Severed, Open
<1> QED
    BY <1>1, <1>2, <1>3, <1>4, <1>5, <1>6, <1>7, <1>8 DEF Next, Main, Network, Broker

LEMMA NothingUnderWay == Range(<<>>) = {} /\ IsInjective(<<>>)
BY DEF Range, IsInjective

\* What waits for CONNACK is held; without a socket, or once it is up, nothing waits.
LEMMA OwedHeld ==
    ASSUME IInv
    PROVE  Range(owed) \subseteq Range(unacked) /\ (link # "opening" => owed = <<>> /\ Range(owed) = {})
BY DEF IInv, Parts, Connections, Range

\* The steps that move a message, by what they do to the sets of packets.
LEMMA GiveRanges ==
    ASSUME IInv, Traced, Single, NEW m, Gives(m)
    PROVE  /\ Range(unacked') = Range(unacked) \cup (IF QosOf(m) = 0 THEN {} ELSE {m})
           /\ Range(wire') = Range(wire) \cup (IF Open THEN {m} ELSE {})
           /\ handed' = handed \cup {m} /\ m \in Messages /\ Origin(m) = m /\ m.body # "release"
           /\ m \notin Underway /\ \A p \in Underway : Origin(p) # m
           /\ IsInjective(unacked') /\ IsInjective(wire')
<1>1. m \in Messages /\ m \in Packets /\ unacked \in Seq(Packets) /\ wire \in Seq(Packets)
    BY DEF Gives, IInv, TypeOK, Packets
<1>2. m.body # "release" /\ Origin(m) = m
    BY <1>1, StatusShape, ReadingShape DEF Messages, Origin
<1>3. m \notin Underway /\ \A p \in Underway : Origin(p) # m
    BY <1>2 DEF Gives, Traced
<1>4. /\ Range(unacked') = Range(unacked) \cup (IF QosOf(m) = 0 THEN {} ELSE {m})
      /\ IsInjective(unacked')
    <2>1. CASE QosOf(m) = 0
        BY <2>1 DEF Gives, Publish, Single
    <2>2. CASE QosOf(m) # 0
        BY <1>1, <1>3, <2>2, Appended DEF Gives, Publish, Single, Underway
    <2> QED
        BY <2>1, <2>2
<1>5. /\ Range(wire') = Range(wire) \cup (IF Open THEN {m} ELSE {})
      /\ IsInjective(wire')
    <2>1. CASE ~Open
        BY <2>1 DEF Gives, Publish, Write, Single
    <2>2. CASE Open
        BY <1>1, <1>3, <2>2, Appended DEF Gives, Publish, Write, Single, Underway
    <2> QED
        BY <2>1, <2>2
<1> QED
    BY <1>1, <1>2, <1>3, <1>4, <1>5 DEF Gives, Publish, Write

LEMMA JoinRanges ==
    ASSUME IInv, Single, Connected
    PROVE  /\ Range(wire') = Range(wire) \cup Range(owed) /\ IsInjective(wire')
           /\ Range(owed') = {}
<1>1. wire \in Seq(Packets) /\ owed \in Seq(Packets) /\ wire' = wire \o owed /\ owed' = <<>>
    BY DEF Connected, IInv, TypeOK
<1>2. IsInjective(owed)
    BY DEF Single, IsInjective, IInv, Parts, Connections
<1>3. Range(wire \o owed) = Range(wire) \cup Range(owed) /\ IsInjective(wire \o owed)
    BY <1>1, <1>2, Joined DEF Single
<1> QED
    BY <1>1, <1>3, NothingUnderWay

LEMMA ReceiveRanges ==
    ASSUME TypeOK, Single, BrokerReceives
    PROVE  /\ Head(wire) \in Packets /\ Range(wire) = Range(wire') \cup {Head(wire)}
           /\ Head(wire) \notin Range(wire') /\ IsInjective(wire')
           /\ Range(acks') = Range(acks) \cup
                               (IF QosOf(Head(wire)) > 0 /\ Open THEN {Head(wire)} ELSE {})
           /\ IsInjective(acks')
           /\ UNCHANGED <<pc, run, handed, link, unacked, owed, ahead>>
<1>1. PICK m : m = Head(wire)
    OBVIOUS
<1>2. wire \in Seq(Packets) /\ wire # <<>> /\ wire' = Tail(wire) /\ acks \in Seq(Packets)
    BY Receives DEF TypeOK
<1>3. m \in Packets /\ Range(wire) = Range(wire') \cup {m} /\ m \notin Range(wire') /\ IsInjective(wire')
    BY <1>1, <1>2, Shortened, Receives DEF Single
<1>4. acks' = (IF QosOf(m) > 0 /\ Open THEN Append(acks, m) ELSE acks) /\ Reads(m)
    BY <1>1, Receives DEF Reads
<1>5. m \notin Range(acks)
    BY <1>3 DEF Single
<1>6. /\ Range(acks') = Range(acks) \cup (IF QosOf(m) > 0 /\ Open THEN {m} ELSE {})
      /\ IsInjective(acks')
    <2>1. CASE QosOf(m) > 0 /\ Open
        BY <1>2, <1>3, <1>4, <1>5, <2>1, Appended DEF Single
    <2>2. CASE ~(QosOf(m) > 0 /\ Open)
        BY <1>4, <2>2 DEF Single
    <2> QED
        BY <2>1, <2>2
<1> QED
    BY <1>1, <1>3, <1>4, <1>6 DEF Reads, mainVars, clientVars

\* What the broker takes and passes on when it reads the oldest packet on the wire.
LEMMA ReceiveTakes ==
    ASSUME TypeOK, BrokerReceives, NEW p, p = Head(wire)
    PROVE  /\ \A x \in Readings : x # Origin(p) =>
                 forwarded'[x] = forwarded[x] /\ (x \in stored' <=> x \in stored)
           /\ p \notin Readings /\ p.body # "release" => stored' = stored /\ forwarded' = forwarded
           /\ p \in Readings =>
                 /\ Origin(p) = p
                 /\ IF QosOf(p) = 2
                    THEN p \in stored' /\ forwarded'[p] = forwarded[p]
                    ELSE forwarded'[p] = forwarded[p] + 1 /\ stored' = stored
           /\ p.body = "release" =>
                 /\ Origin(p) \in Readings /\ p = Release(Origin(p))
                 /\ stored' = stored \ {Origin(p)}
                 /\ forwarded'[Origin(p)] = forwarded[Origin(p)] + (IF Origin(p) \in stored THEN 1 ELSE 0)
<1>0. p \in Packets /\ forwarded \in [Readings -> Nat]
    BY Receives DEF TypeOK
<1>1. CASE p \in Statuses
    <2>1. p \notin Readings /\ p.body # "release" /\ \A x \in Readings : p # Release(x)
        BY <1>1, StatusShape, ReadingShape, ReleaseFields
    <2>2. UNCHANGED <<stored, forwarded>>
        BY <2>1, Receives, ZenonT(30)
    <2> QED
        BY <2>1, <2>2
<1>2. CASE p \in Readings
    <2>1. p \notin Statuses /\ p.body # "release" /\ Origin(p) = p /\ \A x \in Readings : p # Release(x)
        BY <1>2, StatusShape, ReadingShape, ReleaseFields DEF Origin
    <2>2. IF QosOf(p) = 2
          THEN stored' = stored \cup {p} /\ UNCHANGED forwarded
          ELSE PassesOn(p) /\ UNCHANGED stored
        BY <2>1, Receives, ZenonT(30)
    <2> QED
        BY <1>0, <1>2, <2>1, <2>2 DEF PassesOn
<1>3. CASE p \in Releases
    <2>1. p \notin Statuses /\ p \notin Readings /\ p.body = "release"
        BY <1>3, StatusShape, ReadingShape, ReleaseFields DEF Releases
    <2>2. PICK m \in Readings :
              /\ p = Release(m) /\ stored' = stored \ {m}
              /\ IF m \in stored THEN PassesOn(m) ELSE UNCHANGED forwarded
        BY <2>1, Receives, ZenonT(30)
    <2>3. Origin(p) = m
        BY <2>2, ReleaseFields
    <2>4. /\ forwarded'[m] = forwarded[m] + (IF m \in stored THEN 1 ELSE 0)
          /\ \A x \in Readings : x # m => forwarded'[x] = forwarded[x]
        BY <1>0, <2>2 DEF PassesOn
    <2> QED
        BY <2>1, <2>2, <2>3, <2>4
<1> QED
    BY <1>0, <1>1, <1>2, <1>3 DEF Packets, Messages

LEMMA AckRanges ==
    ASSUME TypeOK, Single, Acked
    PROVE  /\ Head(acks) \in Packets /\ Range(acks) = Range(acks') \cup {Head(acks)}
           /\ Head(acks) \notin Range(acks') /\ IsInjective(acks')
           /\ Range(unacked') = Range(unacked) \ {Head(acks)} /\ IsInjective(unacked')
           /\ link = "up" /\ Open /\ Open'
           /\ UNCHANGED <<pc, run, handed, link, owed, ahead, wire, retained, stored, forwarded, fired>>
<1>1. acks \in Seq(Packets) /\ acks # <<>> /\ acks' = Tail(acks) /\ unacked \in Seq(Packets)
    BY DEF Acked, TypeOK
<1>2. /\ Head(acks) \in Packets /\ Range(acks) = Range(acks') \cup {Head(acks)}
      /\ Head(acks) \notin Range(acks') /\ IsInjective(acks')
    BY <1>1, Shortened DEF Single
<1>3. PICK k \in DOMAIN unacked : unacked[k] = Head(acks) /\ unacked' = RemoveAt(unacked, k)
    BY DEF Acked
<1>4. Range(unacked') = Range(unacked) \ {Head(acks)} /\ IsInjective(unacked')
    BY <1>1, <1>3, Removed DEF Single
<1> QED
    BY <1>2, <1>4 DEF Acked, Open, mainVars, brokerVars

LEMMA ReleaseRanges ==
    ASSUME TypeOK, Single, Received, NEW p, p = Head(acks)
    PROVE  /\ p \in Readings /\ QosOf(p) = 2 /\ Origin(p) = p
           /\ Release(p) \in Packets /\ Release(p).body = "release" /\ Origin(Release(p)) = p
           /\ Release(p).run = p.run /\ QosOf(Release(p)) = 2 /\ Release(p) \notin Underway
           /\ Range(acks) = Range(acks') \cup {p} /\ p \notin Range(acks') /\ IsInjective(acks')
           /\ p \in Range(unacked)
           /\ Range(unacked') = (Range(unacked) \ {p}) \cup {Release(p)} /\ IsInjective(unacked')
           /\ Range(wire') = Range(wire) \cup {Release(p)} /\ IsInjective(wire')
           /\ p \notin Range(wire)
           /\ link = "up" /\ Open /\ Open'
           /\ UNCHANGED <<pc, run, handed, link, owed, ahead, retained, stored, forwarded, fired>>
<1>1. /\ acks \in Seq(Packets) /\ acks # <<>> /\ acks' = Tail(acks) /\ unacked \in Seq(Packets)
      /\ wire \in Seq(Packets)
    BY DEF Received, TypeOK
<1>2. /\ p \in Packets /\ Range(acks) = Range(acks') \cup {p}
      /\ p \notin Range(acks') /\ IsInjective(acks')
    BY <1>1, Shortened DEF Single
<1>3. p \in Readings /\ QosOf(p) = 2
    BY <1>2, PacketKinds DEF Received, QosOf
<1>4. PICK r : r = Release(p)
    OBVIOUS
<1>5. r \in Packets /\ r.body = "release" /\ Origin(r) = p /\ r.run = p.run /\ QosOf(r) = 2 /\ Origin(p) = p
    BY <1>3, <1>4, ReleaseFields, ReadingShape DEF Packets, Origin
<1>6. r # p /\ p \in Underway
    BY <1>2, <1>3, <1>5, ReadingShape DEF Underway
<1>7. r \notin Underway
    BY <1>5, <1>6 DEF Single
<1>8. PICK k \in DOMAIN unacked : unacked[k] = p /\ unacked' = [unacked EXCEPT ![k] = r]
    BY <1>4 DEF Received
<1>9. /\ Range(unacked') = (Range(unacked) \ {p}) \cup {r} /\ IsInjective(unacked')
      /\ p \in Range(unacked)
    <2>1. /\ Range(unacked') = (Range(unacked) \ {unacked[k]}) \cup {r} /\ IsInjective(unacked')
        BY <1>1, <1>5, <1>7, <1>8, Replaced DEF Single, Underway
    <2> QED
        BY <1>8, <2>1 DEF Range
<1>10. Range(wire') = Range(wire) \cup {r} /\ IsInjective(wire')
    <2>1. wire' = Append(wire, r)
        BY <1>4 DEF Received
    <2> QED
        BY <1>1, <1>5, <1>7, <2>1, Appended DEF Single, Underway
<1>11. p \notin Range(wire)
    BY <1>2 DEF Single
<1> QED
    BY <1>2, <1>3, <1>4, <1>5, <1>7, <1>9, <1>10, <1>11 DEF Received, Open, mainVars, brokerVars

LEMMA FlowInit == Init => Flow
BY NothingUnderWay, FreshInit DEF Init, Flow, Underway, Traced, Single, Carried, OldWire, Ended, Open

LEMMA FlowStep == IInv /\ Numbered /\ Unsaid /\ Flow /\ [Next]_vars => Flow'
<1> SUFFICES ASSUME IInv, Numbered, Unsaid, Flow, [Next]_vars PROVE Flow'
    OBVIOUS
<1> USE DEF mainVars, clientVars, wireVars, brokerVars
<1>0. TypeOK /\ Traced /\ Single /\ Carried /\ OldWire
    BY DEF IInv, Flow
<1>1. ASSUME UNCHANGED <<run, handed, unacked, stored, forwarded>>,
             wire' \in {wire, <<>>}, acks' \in {acks, <<>>}, owed' \in {owed, <<>>}
      PROVE  Traced' /\ Single'
    <2>1. /\ Range(wire') \subseteq Range(wire) /\ Range(acks') \subseteq Range(acks)
          /\ Range(owed') \subseteq Range(owed) /\ IsInjective(wire') /\ IsInjective(acks')
        BY <1>0, <1>1, NothingUnderWay DEF Single
    <2>2. Underway' \subseteq Underway
        BY <1>1, <2>1 DEF Underway
    <2> QED
        BY <1>0, <1>1, <2>1, <2>2 DEF Traced, Single, QosOf
<1>2. CASE Quiet
    <2>1. Traced' /\ Single'
        BY <1>1, <1>2 DEF Quiet
    <2>2. Carried' /\ OldWire'
        BY <1>0, <1>2 DEF Carried, OldWire, Quiet
    <2> QED
        BY <2>1, <2>2 DEF Flow
<1>3. CASE Severed
    <2>1. Traced' /\ Single'
        BY <1>1, <1>3 DEF Severed
    <2>2. Carried' /\ OldWire'
        BY <1>3, NothingUnderWay DEF Carried, OldWire, Severed
    <2> QED
        BY <2>1, <2>2 DEF Flow
<1>4. CASE DetectLoss
    <2>1. UNCHANGED <<pc, run, handed, link, unacked, owed, wire, acks, stored, forwarded>>
        BY <1>4 DEF DetectLoss
    <2>2. Traced' /\ Single'
        BY <1>1, <2>1
    <2>3. Carried' /\ OldWire'
        BY <1>0, <2>1 DEF Carried, OldWire, Open, Ended
    <2> QED
        BY <2>2, <2>3 DEF Flow
<1>5. CASE OpenSocket
    <2>1. /\ wire' = <<>> /\ acks' = <<>> /\ owed' = unacked /\ Open'
          /\ UNCHANGED <<run, handed, unacked, stored, forwarded>>
        BY <1>5 DEF OpenSocket, Open
    <2>2. /\ Range(wire') = {} /\ Range(acks') = {} /\ Range(owed') = Range(unacked)
          /\ IsInjective(wire') /\ IsInjective(acks') /\ Underway' \subseteq Underway
        BY <2>1, NothingUnderWay DEF Underway
    <2>3. Traced' /\ Single'
        BY <1>0, <2>1, <2>2 DEF Traced, Single, QosOf
    <2>4. Carried' /\ OldWire'
        BY <2>1, <2>2 DEF Carried, OldWire
    <2> QED
        BY <2>3, <2>4 DEF Flow
<1>6. CASE Connected
    <2>1. /\ Range(wire') = Range(wire) \cup Range(owed) /\ IsInjective(wire') /\ Range(owed') = {}
        BY <1>0, <1>6, JoinRanges
    <2>2. /\ UNCHANGED <<run, handed, unacked, acks, stored, forwarded>> /\ Open /\ Open'
          /\ Range(owed) \subseteq Range(unacked)
        BY <1>6, OwedHeld DEF Connected, Open
    <2>3. Underway' = Underway
        BY <2>1, <2>2 DEF Underway
    <2>4. Traced'
        BY <1>0, <2>2, <2>3 DEF Traced, QosOf
    <2>5. Single'
        BY <1>0, <2>1, <2>2, <2>3 DEF Single
    <2>6. Carried' /\ OldWire'
        BY <1>0, <2>1, <2>2 DEF Carried, OldWire
    <2> QED
        BY <2>4, <2>5, <2>6 DEF Flow
<1>7. ASSUME NEW m, Gives(m) PROVE Flow'
    <2>1. /\ Range(unacked') = Range(unacked) \cup (IF QosOf(m) = 0 THEN {} ELSE {m})
          /\ Range(wire') = Range(wire) \cup (IF Open THEN {m} ELSE {})
          /\ handed' = handed \cup {m} /\ m \in Messages /\ Origin(m) = m /\ m.body # "release"
          /\ m \notin Underway /\ \A p \in Underway : Origin(p) # m
          /\ IsInjective(unacked') /\ IsInjective(wire')
        BY <1>0, <1>7, GiveRanges
    <2>2. /\ UNCHANGED <<run, link, owed, acks, stored, forwarded>> /\ ~Ended /\ Open' = Open
          /\ Range(owed) \subseteq Range(unacked) /\ m.run = run
        BY <1>7, OwedHeld DEF Gives, Open
    <2>3. QosOf(m) \in 0 .. 2
        BY <2>1, PacketKinds DEF Packets
    <2>4. Underway' \subseteq Underway \cup {m}
        BY <2>1, <2>2 DEF Underway
    <2>5. Traced'
        BY <1>0, <2>1, <2>2, <2>3, <2>4 DEF Traced, QosOf
    <2>6. Single'
        BY <1>0, <2>1, <2>2, <2>4 DEF Single, Underway
    <2>7. Carried'
        BY <1>0, <2>1, <2>2 DEF Carried
    <2>8. OldWire'
        BY <1>0, <2>1, <2>2 DEF OldWire, Gives
    <2> QED
        BY <2>5, <2>6, <2>7, <2>8 DEF Flow
<1>8. CASE Acked
    <2>1. PICK m : m = Head(acks)
        OBVIOUS
    <2>2. /\ Range(acks) = Range(acks') \cup {m} /\ m \notin Range(acks') /\ IsInjective(acks')
          /\ Range(unacked') = Range(unacked) \ {m} /\ IsInjective(unacked')
          /\ Open /\ Open' /\ UNCHANGED <<pc, run, handed, link, owed, wire, stored, forwarded>>
        BY <1>0, <1>8, <2>1, AckRanges
    <2>3. Underway' \subseteq Underway
        BY <2>2 DEF Underway
    <2>4. Traced'
        BY <1>0, <2>2, <2>3 DEF Traced, QosOf
    <2>5. Single'
        BY <1>0, <2>2, <2>3 DEF Single
    <2>6. Carried' /\ OldWire'
        BY <1>0, <2>2 DEF Carried, OldWire
    <2> QED
        BY <2>4, <2>5, <2>6 DEF Flow
<1>9. CASE Received
    <2>1. PICK p : p = Head(acks)
        OBVIOUS
    <2>2. PICK r : r = Release(p)
        OBVIOUS
    <2>3. /\ p \in Readings /\ QosOf(p) = 2 /\ Origin(p) = p
          /\ r \in Packets /\ r.body = "release" /\ Origin(r) = p /\ r.run = p.run /\ QosOf(r) = 2
          /\ r \notin Underway
          /\ Range(acks) = Range(acks') \cup {p} /\ p \notin Range(acks') /\ IsInjective(acks')
          /\ p \in Range(unacked)
          /\ Range(unacked') = (Range(unacked) \ {p}) \cup {r} /\ IsInjective(unacked')
          /\ Range(wire') = Range(wire) \cup {r} /\ IsInjective(wire')
          /\ p \notin Range(wire)
          /\ link = "up" /\ Open /\ Open'
          /\ UNCHANGED <<pc, run, handed, link, owed, stored, forwarded>>
        BY <1>0, <1>9, <2>1, <2>2, ReleaseRanges
    <2>4. Underway' = (Underway \ {p}) \cup {r}
        BY <2>3 DEF Underway
    <2>5. p \in Underway /\ p \in handed
        <3>1. p \in Underway
            BY <2>3 DEF Underway
        <3> QED
            BY <1>0, <2>3, <3>1 DEF Traced
    <2>6. Traced'
        BY <1>0, <2>3, <2>4, <2>5 DEF Traced, QosOf
    <2>7. \A x, y \in Underway' : Origin(x) = Origin(y) => x = y
        BY <1>0, <2>3, <2>4, <2>5 DEF Single
    <2>8. Range(owed) = {}
        BY <2>3, OwedHeld
    <2>9. Range(acks') \cap Range(wire') = {}
        BY <1>0, <2>3 DEF Single, Underway
    <2>10. Single'
        BY <2>3, <2>7, <2>8, <2>9 DEF Single
    <2>11. Carried' /\ OldWire'
        BY <1>0, <2>3 DEF Carried, OldWire
    <2> QED
        BY <2>6, <2>10, <2>11 DEF Flow
<1>10. CASE BrokerReceives
    <2>1. PICK p : p = Head(wire)
        OBVIOUS
    <2>2. /\ p \in Packets /\ Range(wire) = Range(wire') \cup {p} /\ p \notin Range(wire') /\ IsInjective(wire')
          /\ Range(acks') = Range(acks) \cup (IF QosOf(p) > 0 /\ Open THEN {p} ELSE {})
          /\ IsInjective(acks')
          /\ UNCHANGED <<pc, run, handed, link, unacked, owed>>
        BY <1>0, <1>10, <2>1, ReceiveRanges
    <2>3. Open => p.run = run
        BY <2>2 DEF IInv, Parts, Runs, Range
    <2>4. Underway' \subseteq Underway /\ Open' = Open /\ p \in Underway
        BY <2>2 DEF Underway, Open
    <2>5. /\ \A x \in Readings : forwarded'[x] > 0 => forwarded[x] > 0 \/ x = Origin(p)
          /\ \A x \in stored' : x \in stored \/ (x = Origin(p) /\ QosOf(x) = 2)
        <3>1. forwarded \in [Readings -> Nat] /\ stored' \subseteq Readings
            BY <1>0, TypeStep DEF TypeOK
        <3> QED
            BY <1>0, <1>10, <2>1, <3>1, ReceiveTakes
    <2>6. Traced'
        <3>1. Origin(p) \in handed
            BY <1>0, <2>4 DEF Traced
        <3>2. \A x \in Readings : forwarded'[x] > 0 => x \in handed'
            BY <1>0, <2>2, <2>5, <3>1 DEF Traced
        <3>3. \A x \in stored' : x \in handed' /\ QosOf(x) = 2
            BY <1>0, <2>2, <2>5, <3>1 DEF Traced
        <3>4. \A x \in Range(acks') : x.run = run
            BY <1>0, <2>2, <2>3 DEF Traced
        <3> QED
            BY <1>0, <2>2, <2>4, <3>2, <3>3, <3>4 DEF Traced, QosOf
    <2>7. Single'
        BY <1>0, <2>2, <2>4 DEF Single
    <2>8. Carried'
        BY <1>0, <2>2, <2>4 DEF Carried, Traced
    <2>9. OldWire'
        BY <1>0, <2>2, <2>4 DEF OldWire, Ended
    <2> QED
        BY <2>6, <2>7, <2>8, <2>9 DEF Flow
<1>11. CASE Restart
    <2>1. /\ unacked' = <<>> /\ UNCHANGED <<handed, wire, acks, owed, stored, forwarded, link>>
          /\ run' = run + 1 /\ link = "off" /\ acks = <<>> /\ Range(owed) = {}
        BY <1>11, OwedHeld DEF Restart, IInv, Parts, Connections, Open
    <2>2. Range(unacked') = {} /\ Range(acks') = {} /\ IsInjective(unacked') /\ Underway' \subseteq Underway
        BY <2>1, NothingUnderWay DEF Underway
    <2>3. \A m \in Range(wire) : m.run # run + 1
        <3>1. run \in Nat /\ \A i \in DOMAIN wire : wire[i].run <= run
            BY BoundsAssumption DEF IInv, TypeOK, Parts, Runs
        <3>2. \A i \in DOMAIN wire : wire[i].run \in Nat
            BY <1>0, PacketKinds DEF TypeOK
        <3> QED
            BY <3>1, <3>2 DEF Range
    <2>4. Traced' /\ Single'
        BY <1>0, <2>1, <2>2 DEF Traced, Single, QosOf
    <2>5. Carried' /\ OldWire'
        BY <2>1, <2>2, <2>3 DEF Carried, OldWire
    <2> QED
        BY <2>4, <2>5 DEF Flow
<1> QED
    BY <1>2, <1>3, <1>4, <1>5, <1>6, <1>7, <1>8, <1>9, <1>10, <1>11, Steps

-----------------------------------------------------------------------------
(* Arrival at the broker. *)

\* An acknowledged reading, or one that is being released, is at the broker, and passed
\* on at the latest with the acknowledgement of its release.
Arrived ==
    \A m \in Readings :
        /\ m \in Range(acks) => Taken(m) /\ (QosOf(m) # 2 => forwarded[m] > 0)
        /\ Release(m) \in Underway => Taken(m)
        /\ Release(m) \in Range(acks) => forwarded[m] > 0

\* A QoS 0 reading is on the wire once; a QoS 2 reading is not passed on before its
\* release, and is under way itself no more after that.
AtMostOnce ==
    \A m \in Readings :
        /\ QosOf(m) # 1 => forwarded[m] <= 1
        /\ QosOf(m) = 0 /\ m \in Range(wire) => forwarded[m] = 0
        /\ QosOf(m) = 2 /\ m \in Underway \cup stored => forwarded[m] = 0

\* A reading of QoS 1 or 2 is held by paho, or being released, until the broker has
\* passed it on.
NoneLost ==
    \A m \in handed \cap Readings :
        m.run = run /\ QosOf(m) > 0 =>
            m \in Range(unacked) \/ Release(m) \in Range(unacked) \/ forwarded[m] > 0

Delivery == Arrived /\ AtMostOnce /\ NoneLost

LEMMA DeliveryInit == Init => Delivery
BY NothingUnderWay DEF Init, Delivery, Arrived, AtMostOnce, NoneLost, Underway

LEMMA DeliveryStep == IInv /\ Numbered /\ Unsaid /\ Flow /\ Delivery /\ [Next]_vars => Delivery'
<1> SUFFICES ASSUME IInv, Numbered, Unsaid, Flow, Delivery, [Next]_vars PROVE Delivery'
    OBVIOUS
<1> USE DEF mainVars, clientVars, wireVars, brokerVars
<1>0. /\ TypeOK /\ Traced /\ Single /\ Carried /\ Arrived /\ AtMostOnce /\ NoneLost
      /\ forwarded \in [Readings -> Nat] /\ Flow' /\ TypeOK'
    BY FlowStep, TypeStep DEF IInv, Flow, Delivery, TypeOK
<1>1. ASSUME UNCHANGED <<run, handed, unacked, stored, forwarded>>, Range(acks') \subseteq Range(acks),
             Range(wire') \subseteq Range(wire) \cup Range(unacked)
      PROVE  Delivery'
    <2>1. Underway' \subseteq Underway
        BY <1>1 DEF Underway
    <2>2. \A m : Taken(m)' = Taken(m)
        BY <1>1 DEF Taken
    <2>3. Arrived'
        BY <1>0, <1>1, <2>1, <2>2 DEF Arrived, QosOf
    <2>4. \A m \in Range(unacked) : QosOf(m) > 0
        BY <1>0 DEF Traced
    <2>5. AtMostOnce'
        BY <1>0, <1>1, <2>1, <2>4 DEF AtMostOnce, QosOf
    <2>6. NoneLost'
        BY <1>0, <1>1 DEF NoneLost, QosOf
    <2> QED
        BY <2>3, <2>5, <2>6 DEF Delivery
<1>2. ASSUME NEW m, Gives(m) PROVE Delivery'
    <2>1. /\ Range(unacked') = Range(unacked) \cup (IF QosOf(m) = 0 THEN {} ELSE {m})
          /\ Range(wire') = Range(wire) \cup (IF Open THEN {m} ELSE {})
          /\ handed' = handed \cup {m} /\ m.body # "release"
        BY <1>0, <1>2, GiveRanges
    <2>2. UNCHANGED <<run, acks, stored, forwarded>> /\ m \notin handed
        BY <1>2 DEF Gives
    <2>3. m \in Readings => forwarded[m] = 0 /\ m \notin stored
        BY <1>0, <2>2 DEF Traced
    <2>4. Underway' \subseteq Underway \cup {m} /\ \A x \in Readings : Release(x) # m
        BY <2>1, <2>2, ReleaseFields DEF Underway
    <2>5. \A x : Taken(x)' = Taken(x)
        BY <2>2 DEF Taken
    <2>6. Arrived'
        BY <1>0, <2>2, <2>4, <2>5 DEF Arrived, QosOf
    <2>7. AtMostOnce'
        BY <1>0, <2>1, <2>2, <2>3, <2>4 DEF AtMostOnce, QosOf
    <2>8. NoneLost'
        BY <1>0, <2>1, <2>2 DEF NoneLost, QosOf
    <2> QED
        BY <2>6, <2>7, <2>8 DEF Delivery
<1>3. CASE OpenSocket
    BY <1>1, <1>3, NothingUnderWay DEF OpenSocket
<1>4. CASE Connected
    <2>1. Range(wire') = Range(wire) \cup Range(owed) /\ Range(owed) \subseteq Range(unacked)
        BY <1>0, <1>4, JoinRanges, OwedHeld
    <2> QED
        BY <1>1, <1>4, <2>1 DEF Connected
<1>5. CASE Acked
    <2>1. PICK p : p = Head(acks)
        OBVIOUS
    <2>2. /\ Range(acks) = Range(acks') \cup {p} /\ Range(unacked') = Range(unacked) \ {p} /\ p \in Packets
          /\ UNCHANGED <<run, handed, wire, stored, forwarded>>
        BY <1>0, <1>5, <2>1, AckRanges
    <2>3. QosOf(p) = 2 => p.body = "release"
        BY <1>5, <2>1 DEF Acked
    <2>4. Underway' \subseteq Underway
        BY <2>2 DEF Underway
    <2>5. \A x : Taken(x)' = Taken(x)
        BY <2>2 DEF Taken
    <2>6. Arrived'
        BY <1>0, <2>2, <2>4, <2>5 DEF Arrived, QosOf
    <2>7. AtMostOnce'
        BY <1>0, <2>2, <2>4 DEF AtMostOnce, QosOf
    <2>8. ASSUME NEW m \in handed \cap Readings, m.run = run, QosOf(m) > 0
          PROVE  m \in Range(unacked') \/ Release(m) \in Range(unacked') \/ forwarded[m] > 0
        <3>1. CASE p = m
            BY <1>0, <2>2, <2>3, <2>8, <3>1, ReadingShape DEF Arrived
        <3>2. CASE p = Release(m)
            BY <1>0, <2>2, <3>2 DEF Arrived
        <3>3. CASE p # m /\ p # Release(m)
            BY <1>0, <2>2, <2>8, <3>3 DEF NoneLost
        <3> QED
            BY <3>1, <3>2, <3>3
    <2>9. NoneLost'
        BY <2>2, <2>8 DEF NoneLost, QosOf
    <2> QED
        BY <2>6, <2>7, <2>9 DEF Delivery
<1>6. CASE Received
    <2>1. PICK p : p = Head(acks)
        OBVIOUS
    <2>2. PICK r : r = Release(p)
        OBVIOUS
    <2>3. /\ p \in Readings /\ QosOf(p) = 2 /\ r.body = "release" /\ Origin(r) = p
          /\ Range(acks) = Range(acks') \cup {p}
          /\ Range(unacked') = (Range(unacked) \ {p}) \cup {r}
          /\ Range(wire') = Range(wire) \cup {r}
          /\ p \notin Range(acks') /\ r \notin Underway
          /\ UNCHANGED <<run, handed, stored, forwarded>>
        BY <1>0, <1>6, <2>1, <2>2, ReleaseRanges
    <2>4. Underway' \subseteq Underway \cup {r}
        BY <2>3 DEF Underway
    <2>5. \A x : Taken(x)' = Taken(x)
        BY <2>3 DEF Taken
    <2>6. \A x \in Readings : /\ Release(x) = r => x = p
                              /\ x # r
        BY <2>3, ReleaseFields, ReadingShape
    <2>7. Taken(p) /\ r \notin Range(acks)
        BY <1>0, <2>3 DEF Arrived, Underway
    <2>8. Arrived'
        <3> SUFFICES ASSUME NEW x \in Readings
                     PROVE  /\ x \in Range(acks') => Taken(x) /\ (QosOf(x) # 2 => forwarded[x] > 0)
                            /\ Release(x) \in Underway' => Taken(x)
                            /\ Release(x) \in Range(acks') => forwarded[x] > 0
            BY <2>3, <2>5 DEF Arrived, QosOf
        <3> QED
            BY <1>0, <2>3, <2>4, <2>6, <2>7 DEF Arrived
    <2>9. AtMostOnce'
        BY <1>0, <2>3, <2>4, <2>6 DEF AtMostOnce, QosOf
    <2>10. NoneLost'
        <3> SUFFICES ASSUME NEW x \in handed \cap Readings, x.run = run, QosOf(x) > 0
                     PROVE  x \in Range(unacked') \/ Release(x) \in Range(unacked') \/ forwarded[x] > 0
            BY <2>3 DEF NoneLost, QosOf
        <3>1. x \in Range(unacked) \/ Release(x) \in Range(unacked) \/ forwarded[x] > 0
            BY <1>0 DEF NoneLost
        <3>2. Release(x) # p
            BY <2>3, ReadingShape, ReleaseFields
        <3> QED
            BY <2>2, <2>3, <3>1, <3>2
    <2> QED
        BY <2>8, <2>9, <2>10 DEF Delivery
<1>7. CASE BrokerReceives
    <2>1. PICK p : p = Head(wire)
        OBVIOUS
    <2>2. PICK o : o = Origin(p)
        OBVIOUS
    <2>3. /\ p \in Packets /\ Range(wire) = Range(wire') \cup {p} /\ p \notin Range(wire')
          /\ Range(acks') = Range(acks) \cup (IF QosOf(p) > 0 /\ Open THEN {p} ELSE {})
          /\ UNCHANGED <<run, handed, unacked>>
        BY <1>0, <1>7, <2>1, ReceiveRanges
    <2>4. /\ \A x \in Readings : x # o => forwarded'[x] = forwarded[x] /\ (x \in stored' <=> x \in stored)
          /\ p \notin Readings /\ p.body # "release" => stored' = stored /\ forwarded' = forwarded
          /\ p \in Readings =>
                /\ o = p
                /\ IF QosOf(p) = 2
                   THEN p \in stored' /\ forwarded'[p] = forwarded[p]
                   ELSE forwarded'[p] = forwarded[p] + 1 /\ stored' = stored
          /\ p.body = "release" =>
                /\ o \in Readings /\ p = Release(o)
                /\ stored' = stored \ {o}
                /\ forwarded'[o] = forwarded[o] + (IF o \in stored THEN 1 ELSE 0)
        BY <1>0, <1>7, <2>1, <2>2, ReceiveTakes
    <2>5. Underway' \subseteq Underway /\ p \in Underway
        BY <2>3 DEF Underway
    <2>6. /\ \A x \in Underway : Origin(x) = o => x = p
          /\ \A x \in Readings : Origin(x) = x /\ Origin(Release(x)) = x /\ Release(x) # x
          /\ \A x \in Readings : x.body # "release" /\ Release(x).body = "release"
        BY <1>0, <2>2, <2>5, ReadingShape, ReleaseFields DEF Single, Origin
    <2>7. \A x \in Readings : forwarded[x] \in Nat /\ forwarded'[x] \in Nat
        BY <1>0 DEF TypeOK
    <2>8. ASSUME NEW x \in Readings, Taken(x) PROVE Taken(x)'
        <3>1. CASE x # o
            BY <2>4, <2>8, <3>1 DEF Taken
        <3>2. CASE x = o /\ p \in Readings
            BY <2>4, <2>7, <2>8, <3>2 DEF Taken
        <3>3. CASE x = o /\ p.body = "release"
            BY <2>4, <2>7, <2>8, <3>3 DEF Taken
        <3>4. CASE p \notin Readings /\ p.body # "release"
            BY <2>4, <2>8, <3>4 DEF Taken
        <3> QED
            BY <3>1, <3>2, <3>3, <3>4
    <2>9. \A x \in Readings : forwarded[x] > 0 => forwarded'[x] > 0
        BY <2>4, <2>7
    <2>10. /\ p \in Readings => Taken(p)' /\ (QosOf(p) # 2 => forwarded'[p] > 0)
           /\ p.body = "release" => forwarded'[o] > 0
        <3>1. p \in Readings => Taken(p)' /\ (QosOf(p) # 2 => forwarded'[p] > 0)
            BY <2>4, <2>7 DEF Taken
        <3>2. p.body = "release" => Taken(o)
            BY <1>0, <2>4, <2>5 DEF Arrived
        <3>3. p.body = "release" => forwarded'[o] > 0
            BY <2>4, <2>7, <3>2 DEF Taken
        <3> QED
            BY <3>1, <3>3
    <2>11. Arrived'
        <3> SUFFICES ASSUME NEW x \in Readings
                     PROVE  /\ x \in Range(acks') => Taken(x)' /\ (QosOf(x) # 2 => forwarded'[x] > 0)
                            /\ Release(x) \in Underway' => Taken(x)'
                            /\ Release(x) \in Range(acks') => forwarded'[x] > 0
            BY DEF Arrived, QosOf
        <3>1. x \in Range(acks') => Taken(x)' /\ (QosOf(x) # 2 => forwarded'[x] > 0)
            BY <1>0, <2>3, <2>8, <2>9, <2>10 DEF Arrived
        <3>2. Release(x) \in Underway' => Taken(x)'
            BY <1>0, <2>5, <2>8 DEF Arrived
        <3>3. Release(x) = p => x = o
            BY <2>2, <2>6
        <3>4. Release(x) \in Range(acks') => forwarded'[x] > 0
            BY <1>0, <2>3, <2>6, <2>9, <2>10, <3>3 DEF Arrived
        <3> QED
            BY <3>1, <3>2, <3>4
    <2>12. NoneLost'
        BY <1>0, <2>3, <2>9 DEF NoneLost, QosOf
    <2>13. ASSUME NEW x \in Readings
           PROVE  /\ QosOf(x) # 1 => forwarded'[x] <= 1
                  /\ QosOf(x) = 0 /\ x \in Range(wire') => forwarded'[x] = 0
                  /\ QosOf(x) = 2 /\ x \in Underway' \cup stored' => forwarded'[x] = 0
        <3>0. /\ QosOf(x) # 1 => forwarded[x] <= 1
              /\ QosOf(x) = 0 /\ x \in Range(wire) => forwarded[x] = 0
              /\ QosOf(x) = 2 /\ x \in Underway \cup stored => forwarded[x] = 0
            BY <1>0 DEF AtMostOnce
        <3>1. CASE x # o
            BY <2>3, <2>4, <2>5, <3>0, <3>1
        <3>2. CASE x = o /\ p \in Readings
            <4>1. QosOf(p) \in 0 .. 2 /\ p \in Range(wire)
                BY <2>3, PacketKinds
            <4>2. CASE QosOf(p) = 2
                BY <2>4, <2>5, <3>0, <3>2, <4>2
            <4>3. CASE QosOf(p) # 2
                BY <2>3, <2>4, <2>7, <3>0, <3>2, <4>1, <4>3
            <4> QED
                BY <4>2, <4>3
        <3>3. CASE x = o /\ p.body = "release"
            <4>1. QosOf(x) = 2
                <5>1. QosOf(p) = 2
                    BY <1>0, <2>5, <3>3 DEF Traced
                <5>2. QosOf(p) = QosOf(o)
                    BY <2>4, <3>3, ReleaseFields
                <5> QED
                    BY <3>3, <5>1, <5>2
            <4>2. x \notin Underway' /\ x \notin stored'
                BY <2>4, <2>5, <2>6, <3>3
            <4>3. x \in stored => forwarded[x] = 0
                BY <3>0, <4>1
            <4> QED
                BY <2>4, <2>7, <3>0, <3>3, <4>1, <4>2, <4>3
        <3>4. CASE p \notin Readings /\ p.body # "release"
            BY <2>3, <2>4, <2>5, <3>0, <3>4
        <3> QED
            BY <3>1, <3>2, <3>3, <3>4
    <2>14. AtMostOnce'
        BY <2>13 DEF AtMostOnce, QosOf
    <2> QED
        BY <2>11, <2>12, <2>14 DEF Delivery
<1>8. CASE Restart
    <2>1. unacked' = <<>> /\ UNCHANGED <<handed, wire, acks, stored, forwarded>> /\ run' = run + 1
        BY <1>8 DEF Restart
    <2>2. \A m \in handed : m.run # run + 1
        <3>1. run \in Nat /\ \A m \in handed : m.run \in Nat /\ m.run <= run
            BY RunIsNat, BoundsAssumption DEF Numbered, IInv, TypeOK
        <3> QED
            BY <3>1
    <2>3. Underway' \subseteq Underway
        BY <2>1, NothingUnderWay DEF Underway
    <2>4. \A x : Taken(x)' = Taken(x)
        BY <2>1 DEF Taken
    <2>5. Arrived'
        BY <1>0, <2>1, <2>3, <2>4 DEF Arrived, QosOf
    <2>6. AtMostOnce'
        BY <1>0, <2>1, <2>3 DEF AtMostOnce, QosOf
    <2>7. NoneLost'
        BY <2>1, <2>2 DEF NoneLost
    <2> QED
        BY <2>5, <2>6, <2>7 DEF Delivery
<1>9. CASE Quiet \/ Severed \/ DetectLoss
    BY <1>1, <1>9, NothingUnderWay DEF Quiet, Severed, DetectLoss
<1> QED
    BY <1>2, <1>3, <1>4, <1>5, <1>6, <1>7, <1>8, <1>9, Steps

\* The invariant of the publisher's message flow.
FlowInv == IInv /\ Numbered /\ Unsaid /\ Flow /\ Delivery

LEMMA FlowInvInit == Init => FlowInv
BY IInvInit, FreshInit, FlowInit, DeliveryInit DEF FlowInv

LEMMA FlowInvStep == FlowInv /\ [Next]_vars => FlowInv'
BY IInvStep, NumberedStep, UnsaidStep, FlowStep, DeliveryStep DEF FlowInv

\* However often connections break and paho sends again, the broker passes on a
\* reading of QoS 0 or 2 at most once.
THEOREM NothingTwice == Spec => []NoDuplicateUnlessQos1
<1>1. FlowInv => NoDuplicateUnlessQos1
    BY DEF FlowInv, Delivery, AtMostOnce, NoDuplicateUnlessQos1
<1> QED
    BY <1>1, FlowInvInit, FlowInvStep, PTL DEF Spec
=============================================================================
