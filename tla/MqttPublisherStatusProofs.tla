--------------------- MODULE MqttPublisherStatusProofs ---------------------
(* Theorems about MqttPublisher, for every value of its constants: what the  *)
(* broker shows of a line, against the readings it takes.  A line of which a *)
(* message went ahead of older ones is exempt: see ahead.                    *)
EXTENDS MqttPublisherProofs

-----------------------------------------------------------------------------
(* The order of the statuses of one line. *)

Says(m, l, b) == m.line = l /\ m.body = b

\* In s line l is not online again after it was offline.
NoReturn(s, l) ==
    \A i, j \in DOMAIN s : Says(s[i], l, "offline") /\ Says(s[j], l, "online") => j < i

LEMMA NoReturnAppended ==
    ASSUME NEW S, NEW s \in Seq(S), NEW m \in S, NEW l, NoReturn(s, l),
           \A x \in Range(s) : Says(x, l, "offline") => ~Says(m, l, "online")
    PROVE  NoReturn(Append(s, m), l)
<1> DEFINE t == Append(s, m)
<1>1. /\ DOMAIN s = 1 .. Len(s) /\ DOMAIN t = 1 .. (Len(s) + 1) /\ Len(s) \in Nat
      /\ \A i \in 1 .. Len(s) : t[i] = s[i]
      /\ t[Len(s) + 1] = m
    BY Appended
<1> HIDE DEF t
<1> SUFFICES ASSUME NEW i \in 1 .. (Len(s) + 1), NEW j \in 1 .. (Len(s) + 1),
                    Says(t[i], l, "offline"), Says(t[j], l, "online")
             PROVE  j < i
    BY <1>1 DEF NoReturn, t
<1>2. i # j
    BY DEF Says
<1>3. CASE i = Len(s) + 1
    BY <1>1, <1>2, <1>3
<1>4. CASE i # Len(s) + 1
    <2>1. i \in 1 .. Len(s) /\ t[i] = s[i] /\ s[i] \in Range(s)
        BY <1>1, <1>4 DEF Range
    <2>2. j # Len(s) + 1
        BY <1>1, <2>1
    <2>3. j \in 1 .. Len(s) /\ t[j] = s[j]
        BY <1>1, <2>2
    <2> QED
        BY <1>1, <2>1, <2>3 DEF NoReturn
<1> QED
    BY <1>3, <1>4

LEMMA NoReturnShortened ==
    ASSUME NEW S, NEW s \in Seq(S), s # <<>>, NEW l, NoReturn(s, l)
    PROVE  /\ NoReturn(Tail(s), l)
           /\ Says(Head(s), l, "offline") => \A x \in Range(Tail(s)) : ~Says(x, l, "online")
<1> DEFINE t == Tail(s)
<1>1. /\ DOMAIN s = 1 .. Len(s) /\ DOMAIN t = 1 .. (Len(s) - 1)
      /\ Len(s) \in Nat /\ Len(s) >= 1
      /\ \A i \in 1 .. (Len(s) - 1) : t[i] = s[i + 1]
      /\ Head(s) = s[1]
    BY Shortened
<1> HIDE DEF t
<1>2. \A i \in 1 .. (Len(s) - 1) : i + 1 \in 1 .. Len(s)
    BY <1>1
<1>3. NoReturn(t, l)
    <2> SUFFICES ASSUME NEW i \in 1 .. (Len(s) - 1), NEW j \in 1 .. (Len(s) - 1),
                        Says(t[i], l, "offline"), Says(t[j], l, "online")
                 PROVE  j < i
        BY <1>1 DEF NoReturn
    <2>1. j + 1 < i + 1
        BY <1>1, <1>2 DEF NoReturn
    <2> QED
        BY <2>1
<1>4. ASSUME Says(Head(s), l, "offline"), NEW x \in Range(t), Says(x, l, "online")
      PROVE  FALSE
    <2>1. PICK i \in 1 .. (Len(s) - 1) : x = t[i]
        BY <1>1 DEF Range
    <2>2. i + 1 < 1
        BY <1>1, <1>2, <1>4, <2>1 DEF NoReturn
    <2> QED
        BY <2>2
<1> QED
    BY <1>3, <1>4 DEF t

LEMMA NoReturnRemoved ==
    ASSUME NEW S, NEW s \in Seq(S), NEW k \in DOMAIN s, NEW l, NoReturn(s, l)
    PROVE  NoReturn(RemoveAt(s, k), l)
<1> DEFINE t == RemoveAt(s, k)
<1>1. /\ DOMAIN s = 1 .. Len(s) /\ DOMAIN t = 1 .. (Len(s) - 1) /\ Len(s) \in Nat
      /\ \A i \in 1 .. (Len(s) - 1) : t[i] = IF i < k THEN s[i] ELSE s[i + 1]
    BY Removed
<1> HIDE DEF t
<1> SUFFICES ASSUME NEW i \in 1 .. (Len(s) - 1), NEW j \in 1 .. (Len(s) - 1),
                    Says(t[i], l, "offline"), Says(t[j], l, "online")
             PROVE  j < i
    BY <1>1 DEF NoReturn, t
<1> DEFINE from(n) == IF n < k THEN n ELSE n + 1
<1>2. from(i) \in 1 .. Len(s) /\ from(j) \in 1 .. Len(s)
    BY <1>1
<1>3. from(j) < from(i)
    BY <1>1, <1>2 DEF NoReturn
<1> QED
    BY <1>1, <1>3

\* One packet replaced by one that is no status.
LEMMA NoReturnReplaced ==
    ASSUME NEW S, NEW s \in Seq(S), NEW k \in DOMAIN s, NEW x \in S,
           x.body \notin {"online", "offline"}, NEW l, NoReturn(s, l)
    PROVE  NoReturn([s EXCEPT ![k] = x], l)
<1> DEFINE t == [s EXCEPT ![k] = x]
<1>1. DOMAIN t = DOMAIN s /\ t[k] = x /\ \A i \in DOMAIN s : i # k => t[i] = s[i]
    BY Replaced
<1> HIDE DEF t
<1> SUFFICES ASSUME NEW i \in DOMAIN s, NEW j \in DOMAIN s,
                    Says(t[i], l, "offline"), Says(t[j], l, "online")
             PROVE  j < i
    BY <1>1 DEF NoReturn, t
<1>2. i # k /\ j # k
    BY <1>1 DEF Says
<1> QED
    BY <1>1, <1>2 DEF NoReturn

\* Two sequences of which only one holds packets of line l.
LEMMA NoReturnJoined ==
    ASSUME NEW S, NEW s \in Seq(S), NEW t \in Seq(S), NEW l, NoReturn(s, l), NoReturn(t, l),
           \A x \in Range(s), y \in Range(t) : ~(x.line = l /\ y.line = l)
    PROVE  NoReturn(s \o t, l)
<1> DEFINE u == s \o t
<1>1. /\ DOMAIN s = 1 .. Len(s) /\ DOMAIN t = 1 .. Len(t)
      /\ DOMAIN u = 1 .. (Len(s) + Len(t)) /\ Len(s) \in Nat /\ Len(t) \in Nat
      /\ \A i \in 1 .. Len(s) : u[i] = s[i]
      /\ \A i \in 1 .. Len(t) : u[Len(s) + i] = t[i]
      /\ \A i \in 1 .. (Len(s) + Len(t)) : i \in 1 .. Len(s) \/ i - Len(s) \in 1 .. Len(t)
    BY Joined
<1> HIDE DEF u
<1>2. ASSUME NEW i \in 1 .. (Len(s) + Len(t)), i - Len(s) \in 1 .. Len(t)
      PROVE  u[i] = t[i - Len(s)]
    <2>1. Len(s) + (i - Len(s)) = i
        BY <1>1
    <2> QED
        BY <1>1, <1>2, <2>1
<1> SUFFICES ASSUME NEW i \in 1 .. (Len(s) + Len(t)), NEW j \in 1 .. (Len(s) + Len(t)),
                    Says(u[i], l, "offline"), Says(u[j], l, "online")
             PROVE  j < i
    BY <1>1 DEF NoReturn, u
<1>3. CASE i \in 1 .. Len(s) /\ j \in 1 .. Len(s)
    BY <1>1, <1>3 DEF NoReturn
<1>4. CASE i - Len(s) \in 1 .. Len(t) /\ j - Len(s) \in 1 .. Len(t)
    <2>1. j - Len(s) < i - Len(s)
        BY <1>1, <1>2, <1>4 DEF NoReturn
    <2> QED
        BY <1>1, <2>1
<1>5. ASSUME NEW a \in 1 .. Len(s), NEW b, b - Len(s) \in 1 .. Len(t), b \in 1 .. (Len(s) + Len(t)),
             u[a].line = l, u[b].line = l
      PROVE  FALSE
    <2>1. u[a] = s[a] /\ u[b] = t[b - Len(s)]
        BY <1>1, <1>2, <1>5
    <2>2. s[a] \in Range(s) /\ t[b - Len(s)] \in Range(t)
        BY <1>1, <1>5 DEF Range
    <2> QED
        BY <1>5, <2>1, <2>2
<1> QED
    BY <1>1, <1>3, <1>4, <1>5 DEF Says

-----------------------------------------------------------------------------
(* The goodbyes of disconnect(). *)

\* A message of line l went ahead of older ones in this run.
Late(l) == <<l, run>> \in ahead

\* What waits for CONNACK has no company of its own line, unless that went ahead.
Parted == \A x \in Range(wire) \cup Range(acks), y \in Range(owed) : x.line = y.line => Late(x.line)

\* No line comes back on the way of its messages, to the broker and back.
Ordered ==
    \A l \in LineSet :
        /\ NoReturn(unacked, l)
        /\ Open /\ ~Late(l) =>
             /\ NoReturn(wire, l) /\ NoReturn(acks, l)
             /\ \A m \in Range(acks), x \in Range(wire) : Says(m, l, "offline") => ~Says(x, l, "online")

\* An acknowledged goodbye is shown.
AcksGone == \A m \in Range(acks) : m.body = "offline" /\ ~Late(m.line) => retained[m.line] = "offline"

\* disconnect() has said goodbye for the j-th line.
Said(j) == pc \in {"draining", "closing", "stopped"} \/ (pc = "leaving" /\ j < li)

\* The goodbye of line l is still held, or shown for good.
Closed(l) ==
    \/ Status(l, "offline", run) \in Range(unacked)
    \/ /\ retained[l] = "offline"
       /\ \A m \in Range(wire) \cup Range(unacked) : ~Says(m, l, "online")

Goodbyes == \A j \in DOMAIN Lines : Said(j) /\ ~Late(Lines[j]) => Closed(Lines[j])

\* The DISCONNECT packet follows all that was to be acknowledged.
Ending ==
    /\ pc = "closing" => link \in {"opening", "up", "down"} /\ (Open => unacked = <<>>)
    /\ pc = "stopped" /\ bye => unacked = <<>>

LEMMA OrderInit == Init => Parted /\ Ordered /\ AcksGone /\ Goodbyes /\ Ending
BY NothingUnderWay DEF Init, Parted, Ordered, NoReturn, AcksGone, Goodbyes, Said, Ending, Open

\* What has gone ahead stays so.
LEMMA LateStays ==
    ASSUME FlowInv, [Next]_vars PROVE ahead \subseteq ahead' /\ (~Restart => run' = run)
<1> USE DEF mainVars, clientVars, wireVars, brokerVars
<1>1. CASE Restart
    BY <1>1 DEF Restart
<1>2. CASE BrokerReceives
    BY <1>2, ReceiveRanges DEF FlowInv, Flow, IInv
<1>3. CASE Quiet \/ (\E m : Gives(m)) \/ OpenSocket \/ Connected \/ Acked \/ Received \/ Severed \/ DetectLoss
    BY <1>3 DEF Quiet, Gives, Publish, Write, OpenSocket, Connected, Acked, Received, Severed, DetectLoss
<1> QED
    BY <1>1, <1>2, <1>3, Steps DEF FlowInv

LEMMA PartedStep == FlowInv /\ Parted /\ [Next]_vars => Parted'
<1> SUFFICES ASSUME FlowInv, Parted, [Next]_vars PROVE Parted'
    OBVIOUS
<1> USE DEF mainVars, clientVars, wireVars, brokerVars
<1>0. TypeOK /\ IInv /\ Traced /\ Single /\ owed \in Seq(Packets)
    BY DEF FlowInv, IInv, Flow, TypeOK
<1>1. ASSUME Range(owed') = {} PROVE Parted'
    BY <1>1 DEF Parted
<1>2. ASSUME Range(wire') \cup Range(acks') \subseteq Range(wire) \cup Range(acks), UNCHANGED <<owed, run>>
      PROVE  Parted'
    BY <1>2, LateStays DEF Parted, Late
<1>3. ASSUME NEW m, Gives(m) PROVE Parted'
    <2>1. Range(wire') \subseteq Range(wire) \cup {m}
        BY <1>0, <1>3, GiveRanges
    <2>2. /\ UNCHANGED <<run, owed, acks>> /\ m.run = run /\ ahead \subseteq ahead'
          /\ (\E i \in DOMAIN owed : owed[i].line = m.line) => <<m.line, run>> \in ahead'
        BY <1>3 DEF Gives, Publish, Write
    <2>3. (\E y \in Range(owed) : y.line = m.line) => <<m.line, run>> \in ahead'
        BY <2>2 DEF Range
    <2> QED
        BY <2>1, <2>2, <2>3 DEF Parted, Late
<1>4. CASE OpenSocket \/ Severed \/ Restart
    <2>1. \/ Range(owed') = {} \/ (Range(wire') = {} /\ Range(acks') = {})
        BY <1>0, <1>4, NothingUnderWay, OwedHeld DEF OpenSocket, Severed, Restart, Parts, IInv, Connections
    <2> QED
        BY <2>1 DEF Parted
<1>5. CASE Connected
    BY <1>1, <1>5, NothingUnderWay DEF Connected
<1>6. CASE Acked
    <2>1. Range(acks') \subseteq Range(acks) /\ UNCHANGED <<run, owed, wire>>
        BY <1>0, <1>6, AckRanges
    <2> QED
        BY <1>2, <2>1
<1>7. CASE Received
    <2>1. link = "up" /\ owed' = owed
        BY <1>7 DEF Received
    <2> QED
        BY <1>0, <1>1, <2>1, OwedHeld
<1>8. CASE BrokerReceives
    <2>1. Range(wire') \cup Range(acks') \subseteq Range(wire) \cup Range(acks) /\ UNCHANGED <<run, owed>>
        BY <1>0, <1>8, ReceiveRanges
    <2> QED
        BY <1>2, <2>1
<1>9. CASE Quiet \/ DetectLoss
    BY <1>1, <1>2, <1>9, NothingUnderWay DEF Quiet, DetectLoss
<1> QED
    BY <1>3, <1>4, <1>5, <1>6, <1>7, <1>8, <1>9, Steps DEF FlowInv

\* While this run has said no goodbye, none is on its way.
LEMMA NoGoodbyeYet ==
    ASSUME FlowInv, Early
    PROVE  /\ \A m \in Range(unacked) : m.body # "offline"
           /\ Open => \A m \in Range(wire) : m.body # "offline"
           /\ \A m \in Range(acks) : m.body # "offline"
<1>1. \A m \in handed : m.run = run => m.body # "offline"
    BY DEF FlowInv, Unsaid
<1>2. \A m \in Range(unacked) : m.run = run
    BY DEF FlowInv, IInv, Parts, Runs, Range
<1>3. Open => \A m \in Range(wire) : m.run = run
    BY DEF FlowInv, IInv, Parts, Runs, Range
<1>4. \A m \in Range(acks) : m.run = run
    BY DEF FlowInv, Flow, Traced
<1>5. ASSUME NEW m \in Underway, m.run = run PROVE m.body # "offline"
    BY <1>1, <1>5 DEF FlowInv, Flow, Traced, Origin
<1> QED
    BY <1>2, <1>3, <1>4, <1>5 DEF Underway

\* What the broker does with a packet, by its kind.
LEMMA ReceiveShows ==
    ASSUME TypeOK, BrokerReceives, NEW p, p = Head(wire)
    PROVE  /\ p.line \in LineSet
           /\ p.body \notin {"online", "offline"} => UNCHANGED <<retained, fired>>
           /\ p.body \in {"online", "offline"} =>
                 /\ retained' = [retained EXCEPT ![p.line] = p.body]
                 /\ fired' = (fired /\ ~Says(p, WillLine, "online"))
                 /\ stored' = stored /\ forwarded' = forwarded
<1>0. p \in Packets
    BY Receives
<1>1. CASE p \in Statuses
    <2>1. p \notin Readings /\ \A x \in Readings : p # Release(x)
        BY <1>1, StatusShape, ReadingShape, ReleaseFields
    <2>2. /\ retained' = [retained EXCEPT ![p.line] = p.body]
          /\ fired' = (fired /\ ~(p.line = WillLine /\ p.body = "online"))
          /\ UNCHANGED <<stored, forwarded>>
        BY <2>1, Receives, ZenonT(30)
    <2>3. p.line \in LineSet /\ p.body \in {"online", "offline"}
        BY <1>1, StatusShape
    <2> QED
        BY <2>2, <2>3 DEF Says
<1>2. CASE p \notin Statuses
    <2>1. UNCHANGED <<retained, fired>>
        BY <1>2, Receives, ZenonT(30)
    <2>2. p.line \in LineSet /\ p.body \notin {"online", "offline"}
        BY <1>0, <1>2, PacketKinds
    <2> QED
        BY <2>1, <2>2
<1> QED
    BY <1>1, <1>2

LEMMA OrderedStep == FlowInv /\ Parted /\ Ordered /\ [Next]_vars => Ordered'
<1> SUFFICES ASSUME FlowInv, Parted, Ordered, [Next]_vars, NEW l \in LineSet
             PROVE  /\ NoReturn(unacked', l)
                    /\ Open' /\ ~Late(l)' =>
                         /\ NoReturn(wire', l) /\ NoReturn(acks', l)
                         /\ \A m \in Range(acks'), x \in Range(wire') :
                               Says(m, l, "offline") => ~Says(x, l, "online")
    BY DEF Ordered
<1> USE DEF mainVars, clientVars, wireVars, brokerVars
<1>0. /\ TypeOK /\ IInv /\ Traced /\ Single
      /\ unacked \in Seq(Packets) /\ wire \in Seq(Packets) /\ acks \in Seq(Packets) /\ owed \in Seq(Packets)
      /\ NoReturn(unacked, l) /\ NoReturn(<<>>, l)
    BY DEF FlowInv, IInv, Flow, TypeOK, Ordered, NoReturn
<1>00. ASSUME Open, ~Late(l)
       PROVE  /\ NoReturn(wire, l) /\ NoReturn(acks, l)
              /\ \A m \in Range(acks), x \in Range(wire) : Says(m, l, "offline") => ~Says(x, l, "online")
    BY <1>00 DEF Ordered
<1>01. ~Restart /\ ~Late(l)' => ~Late(l)
    BY LateStays DEF Late
<1>1. CASE OpenSocket \/ Severed
    BY <1>0, <1>1, NothingUnderWay DEF OpenSocket, Severed
<1>2. ASSUME NEW m, Gives(m)
      PROVE  /\ NoReturn(unacked', l)
             /\ Open' /\ ~Late(l) =>
                  /\ NoReturn(wire', l) /\ NoReturn(acks', l)
                  /\ \A y \in Range(acks'), x \in Range(wire') :
                        Says(y, l, "offline") => ~Says(x, l, "online")
    <2>1. m \in Packets /\ acks' = acks /\ (m.body = "online" => Early) /\ Publish(m) /\ Open' = Open
        BY <1>2 DEF Gives, Early, Packets, Open
    <2>2. /\ m.body = "online" => \A x \in Range(unacked) : x.body # "offline"
          /\ Open /\ m.body = "online" => \A x \in Range(wire) : x.body # "offline"
          /\ m.body = "online" => \A x \in Range(acks) : x.body # "offline"
        BY <2>1, NoGoodbyeYet
    <2>3. NoReturn(unacked', l)
        BY <1>0, <2>1, <2>2, NoReturnAppended DEF Publish, Says
    <2>4. Open /\ ~Late(l) => NoReturn(wire', l)
        BY <1>0, <1>00, <2>1, <2>2, NoReturnAppended DEF Publish, Write, Says
    <2>5. Range(wire') \subseteq Range(wire) \cup {m}
        BY <1>0, <1>2, GiveRanges
    <2> QED
        BY <1>00, <2>1, <2>2, <2>3, <2>4, <2>5 DEF Says
<1>3. CASE Connected
    <2>1. /\ wire' = wire \o owed /\ UNCHANGED <<unacked, acks, run, ahead>> /\ Open
          /\ Range(wire') = Range(wire) \cup Range(owed)
        BY <1>0, <1>3, JoinRanges DEF Connected, Open
    <2>2. NoReturn(owed, l)
        BY <1>0 DEF NoReturn, IInv, Parts, Connections
    <2>3. ASSUME ~Late(l), NEW x \in Range(wire) \cup Range(acks), NEW y \in Range(owed)
          PROVE  ~(x.line = l /\ y.line = l)
        BY <2>3 DEF Parted
    <2>4. ~Late(l) => NoReturn(wire', l)
        BY <1>0, <1>00, <2>1, <2>2, <2>3, NoReturnJoined
    <2> QED
        BY <1>0, <1>00, <2>1, <2>3, <2>4 DEF Late, Says
<1>4. CASE Acked
    <2>1. PICK k \in DOMAIN unacked : unacked' = RemoveAt(unacked, k)
        BY <1>4 DEF Acked
    <2>2. NoReturn(unacked', l)
        BY <1>0, <2>1, NoReturnRemoved
    <2>3. acks # <<>> /\ acks' = Tail(acks) /\ UNCHANGED <<wire, run, ahead>> /\ Open
        BY <1>4 DEF Acked, Open
    <2>4. ~Late(l) => NoReturn(acks', l)
        BY <1>0, <1>00, <2>3, NoReturnShortened
    <2>5. Range(acks') \subseteq Range(acks)
        BY <1>0, <2>3, Shortened
    <2> QED
        BY <1>00, <2>2, <2>3, <2>4, <2>5 DEF Late
<1>5. CASE Received
    <2>1. PICK p : p = Head(acks)
        OBVIOUS
    <2>2. PICK r : r = Release(p)
        OBVIOUS
    <2>3. /\ r \in Packets /\ r.body = "release" /\ Open /\ UNCHANGED <<run, ahead>>
          /\ Range(acks') \subseteq Range(acks) /\ Range(wire') = Range(wire) \cup {r}
        BY <1>0, <1>5, <2>1, <2>2, ReleaseRanges
    <2>4. PICK k \in DOMAIN unacked : unacked' = [unacked EXCEPT ![k] = r]
        BY <1>5, <2>1, <2>2 DEF Received
    <2>5. NoReturn(unacked', l)
        BY <1>0, <2>3, <2>4, NoReturnReplaced
    <2>6. wire' = Append(wire, r) /\ acks # <<>> /\ acks' = Tail(acks)
        BY <1>5, <2>1, <2>2 DEF Received
    <2>7. ~Late(l) => NoReturn(wire', l)
        BY <1>0, <1>00, <2>3, <2>6, NoReturnAppended DEF Says
    <2>8. ~Late(l) => NoReturn(acks', l)
        BY <1>0, <1>00, <2>3, <2>6, NoReturnShortened
    <2> QED
        BY <1>00, <2>3, <2>5, <2>7, <2>8 DEF Late, Says
<1>6. CASE BrokerReceives
    <2>1. PICK m : m = Head(wire)
        OBVIOUS
    <2>2. /\ wire # <<>> /\ wire' = Tail(wire) /\ UNCHANGED <<unacked, run, ahead>> /\ Open' = Open
          /\ m \in Packets /\ Range(wire) = Range(wire') \cup {m}
          /\ Range(acks') \subseteq Range(acks) \cup {m}
        BY <1>0, <1>6, <2>1, ReceiveRanges, Receives DEF Open
    <2>3. acks' = acks \/ acks' = Append(acks, m)
        BY <1>0, <1>6, <2>1, Receives DEF Reads
    <2>4. ASSUME Open, ~Late(l)
          PROVE  /\ NoReturn(wire', l)
                 /\ Says(m, l, "offline") => \A x \in Range(wire') : ~Says(x, l, "online")
        BY <1>0, <1>00, <2>1, <2>2, <2>4, NoReturnShortened
    <2>5. ASSUME Open, ~Late(l) PROVE NoReturn(acks', l)
        <3>1. \A x \in Range(acks) : Says(x, l, "offline") => ~Says(m, l, "online")
            BY <1>00, <2>2, <2>5
        <3> QED
            BY <1>0, <1>00, <2>2, <2>3, <2>5, <3>1, NoReturnAppended
    <2> QED
        BY <1>0, <1>00, <2>2, <2>4, <2>5 DEF Late
<1>7. CASE Restart
    <2>1. unacked' = <<>> /\ ~Open'
        BY <1>7 DEF Restart, Open, IInv, FlowInv, Parts, Connections
    <2> QED
        BY <1>0, <2>1
<1>8. CASE Quiet
    BY <1>0, <1>00, <1>8 DEF Quiet, Late
<1>9. CASE DetectLoss
    BY <1>0, <1>9 DEF DetectLoss, Open
<1>10. ASSUME NEW m, Gives(m) PROVE ~Late(l)' => ~Late(l)
    BY <1>01, <1>10 DEF Gives, Restart, Ended
<1>11. CASE \E m : Gives(m)
    <2>1. PICK m : Gives(m)
        BY <1>11
    <2> QED
        BY <1>2, <1>10, <2>1
<1> QED
    BY <1>1, <1>3, <1>4, <1>5, <1>6, <1>7, <1>8, <1>9, <1>11, Steps DEF FlowInv

LEMMA AcksGoneStep == FlowInv /\ Ordered /\ AcksGone /\ [Next]_vars => AcksGone'
<1> SUFFICES ASSUME FlowInv, Ordered, AcksGone, [Next]_vars PROVE AcksGone'
    OBVIOUS
<1> USE DEF mainVars, clientVars, wireVars, brokerVars
<1>0. /\ TypeOK /\ IInv /\ Traced /\ Single /\ acks \in Seq(Packets)
      /\ retained \in [LineSet -> {"none", "online", "offline"}]
    BY DEF FlowInv, IInv, Flow, TypeOK
<1>1. ASSUME Range(acks') \subseteq Range(acks), retained' = retained, run' = run PROVE AcksGone'
    BY <1>1, LateStays DEF AcksGone, Late
<1>2. CASE Acked
    BY <1>0, <1>1, <1>2, AckRanges
<1>3. CASE Received
    <2>1. Range(acks') \subseteq Range(acks) /\ UNCHANGED <<retained, run>>
        BY <1>0, <1>3, ReleaseRanges
    <2> QED
        BY <1>1, <2>1
<1>4. CASE BrokerReceives
    <2>1. PICK m : m = Head(wire)
        OBVIOUS
    <2>2. /\ m \in Packets /\ m \in Range(wire) /\ UNCHANGED <<run, ahead>>
          /\ Range(acks') \subseteq Range(acks) \cup {m}
        BY <1>0, <1>4, <2>1, ReceiveRanges
    <2>3. /\ m.line \in LineSet
          /\ m.body \notin {"online", "offline"} => retained' = retained
          /\ m.body \in {"online", "offline"} => retained' = [retained EXCEPT ![m.line] = m.body]
        BY <1>0, <1>4, <2>1, ReceiveShows
    <2>4. ASSUME NEW x \in Range(acks), x.body = "offline", ~Late(x.line) PROVE retained'[x.line] = "offline"
        <3>1. x \in Packets /\ Open
            BY <1>0 DEF Range, IInv, Parts, Connections
        <3>2. retained[x.line] = "offline" /\ x.line \in LineSet
            BY <2>4, <3>1, PacketKinds DEF AcksGone
        <3>3. ~Says(m, x.line, "online")
            BY <2>2, <2>4, <3>1, <3>2 DEF Ordered, Says
        <3> QED
            BY <1>0, <2>3, <3>2, <3>3 DEF Says
    <2>5. m.body = "offline" => retained'[m.line] = "offline"
        BY <1>0, <2>3
    <2> QED
        BY <2>2, <2>4, <2>5 DEF AcksGone, Late
<1>5. CASE OpenSocket \/ Severed
    BY <1>5, NothingUnderWay DEF OpenSocket, Severed, AcksGone
<1>6. CASE DetectLoss \/ Restart
    <2>1. acks = <<>> /\ acks' = acks
        BY <1>6 DEF DetectLoss, Restart, FlowInv, IInv, Parts, Connections, Open
    <2> QED
        BY <2>1, NothingUnderWay DEF AcksGone
<1>7. CASE Quiet \/ (\E m : Gives(m)) \/ Connected
    BY <1>1, <1>7, NothingUnderWay DEF Quiet, Gives, Connected
<1> QED
    BY <1>2, <1>3, <1>4, <1>5, <1>6, <1>7, Steps DEF FlowInv

\* Once a line is closed it stays closed, until the program is started again.
LEMMA ClosedStays ==
    ASSUME FlowInv, Ordered, AcksGone, [Next]_vars, ~Restart, ~Early,
           NEW l \in LineSet, ~Late(l), Closed(l)
    PROVE  Closed(l)'
<1> USE DEF mainVars, clientVars, wireVars, brokerVars
<1>0. /\ TypeOK /\ IInv /\ Traced /\ Single /\ Carried /\ acks \in Seq(Packets)
      /\ retained \in [LineSet -> {"none", "online", "offline"}]
    BY DEF FlowInv, IInv, Flow, TypeOK
<1>1. ASSUME UNCHANGED <<run, unacked>>, Range(wire') \subseteq Range(wire) \cup Range(unacked),
             retained[l] = "offline" => retained'[l] = "offline"
      PROVE  Closed(l)'
    BY <1>1 DEF Closed
<1>2. PublishWill => (retained[l] = "offline" => retained'[l] = "offline")
    BY <1>0 DEF PublishWill
<1>3. CASE Connected
    <2>1. Range(wire') = Range(wire) \cup Range(owed) /\ Range(owed) \subseteq Range(unacked)
        BY <1>0, <1>3, JoinRanges, OwedHeld
    <2> QED
        BY <1>1, <1>3, <2>1 DEF Connected
<1>4. CASE OpenSocket \/ DetectLoss
    <2>1. Range(wire') \subseteq Range(wire) /\ UNCHANGED <<run, unacked>>
          /\ (PublishWill \/ UNCHANGED retained)
        BY <1>4, NothingUnderWay DEF OpenSocket, DetectLoss
    <2> QED
        BY <1>1, <1>2, <2>1
<1>5. ASSUME NEW m, Gives(m) PROVE Closed(l)'
    <2>1. m.body # "online" /\ run' = run /\ retained' = retained
        BY <1>5 DEF Gives, Early
    <2>2. /\ Range(unacked') \subseteq Range(unacked) \cup {m} /\ Range(unacked) \subseteq Range(unacked')
          /\ Range(wire') \subseteq Range(wire) \cup {m}
        BY <1>0, <1>5, GiveRanges
    <2> QED
        BY <2>1, <2>2 DEF Closed, Says
<1>6. CASE Acked
    <2>1. PICK m : m = Head(acks)
        OBVIOUS
    <2>2. /\ Range(acks) = Range(acks') \cup {m} /\ Range(unacked') = Range(unacked) \ {m}
          /\ link = "up" /\ Open /\ UNCHANGED <<run, wire, retained>>
        BY <1>0, <1>6, <2>1, AckRanges
    <2>3. acks # <<>> /\ acks' = Tail(acks)
        BY <1>6 DEF Acked
    <2>4. CASE m # Status(l, "offline", run)
        BY <2>2, <2>4 DEF Closed
    <2>5. CASE m = Status(l, "offline", run)
        <3>1. Says(m, l, "offline")
            BY <2>5, MessageFields DEF Says
        <3>2. retained[l] = "offline"
            BY <2>2, <3>1 DEF AcksGone, Says
        <3>3. \A x \in Range(wire) : ~Says(x, l, "online")
            BY <2>2, <3>1 DEF Ordered
        <3>4. \A x \in Range(acks') : ~Says(x, l, "online")
            <4>1. NoReturn(acks, l)
                BY <2>2 DEF Ordered
            <4> QED
                BY <1>0, <2>1, <2>3, <3>1, <4>1, NoReturnShortened
        <3>5. \A x \in Range(unacked) : ~Says(x, l, "online")
            <4>1. Range(owed) = {}
                BY <1>0, <2>2, OwedHeld
            <4>2. ~Says(m, l, "online")
                BY <3>1 DEF Says
            <4> QED
                BY <1>0, <2>2, <3>3, <3>4, <4>1, <4>2 DEF Carried
        <3> QED
            BY <2>2, <3>2, <3>3, <3>5 DEF Closed
    <2> QED
        BY <2>4, <2>5
<1>7. CASE Received
    <2>1. PICK p : p = Head(acks)
        OBVIOUS
    <2>2. PICK r : r = Release(p)
        OBVIOUS
    <2>3. /\ p \in Readings /\ r.body = "release" /\ UNCHANGED <<run, retained>>
          /\ Range(unacked') = (Range(unacked) \ {p}) \cup {r} /\ Range(wire') = Range(wire) \cup {r}
        BY <1>0, <1>7, <2>1, <2>2, ReleaseRanges
    <2>4. p # Status(l, "offline", run)
        BY <2>3, StatusIsNoReading
    <2> QED
        BY <2>3, <2>4 DEF Closed, Says
<1>8. CASE BrokerReceives
    <2>1. PICK m : m = Head(wire)
        OBVIOUS
    <2>2. /\ m \in Range(wire) /\ Range(wire') \subseteq Range(wire) /\ UNCHANGED <<run, unacked>>
        BY <1>0, <1>8, <2>1, ReceiveRanges
    <2>3. /\ m.line \in LineSet
          /\ m.body \notin {"online", "offline"} => retained' = retained
          /\ m.body \in {"online", "offline"} => retained' = [retained EXCEPT ![m.line] = m.body]
        BY <1>0, <1>8, <2>1, ReceiveShows
    <2> QED
        BY <1>0, <2>2, <2>3 DEF Closed, Says
<1>9. CASE Quiet \/ Severed
    BY <1>1, <1>9, NothingUnderWay DEF Quiet, Severed
<1> QED
    BY <1>3, <1>4, <1>5, <1>6, <1>7, <1>8, <1>9, Steps DEF FlowInv

\* The step that says a line's goodbye hands it to paho.
LEMMA SaidStep ==
    ASSUME FlowInv, [Next]_vars, NEW j \in DOMAIN Lines, Said(j)'
    PROVE  ~Restart /\ ~Early /\ (Said(j) \/ Closed(Lines[j])')
<1> USE DEF mainVars
<1>0. li \in DOMAIN Lines /\ DOMAIN Lines = 1 .. Len(Lines) /\ Len(Lines) \in Nat
    BY LinesAssumption DEF FlowInv, IInv, TypeOK
<1>1. CASE AnnounceOffline
    <2>1. pc = "leaving" /\ Publish(Status(Lines[li], "offline", run)) /\ run' = run
          /\ (li' = li + 1 \/ (li = Len(Lines) /\ pc' = "draining"))
        BY <1>0, <1>1 DEF AnnounceOffline, Announce
    <2>2. j < li \/ j = li
        BY <1>0, <1>1, <2>1 DEF AnnounceOffline, Announce, Said
    <2>3. CASE j < li
        BY <1>1, <2>1, <2>3 DEF Said, Early, Restart
    <2>4. CASE j = li
        <3>1. Status(Lines[li], "offline", run) \in Packets /\ QosOf(Status(Lines[li], "offline", run)) = 1
              /\ unacked \in Seq(Packets)
            BY LoopIndices, StatusType, MessageFields DEF FlowInv, IInv, TypeOK, QosOf, Packets
        <3>2. unacked' = Append(unacked, Status(Lines[li], "offline", run))
            BY <2>1, <3>1 DEF Publish
        <3>3. Status(Lines[li], "offline", run) \in Range(unacked')
            BY <3>1, <3>2, Appended
        <3> QED
            BY <2>1, <2>4, <3>3 DEF Closed, Early, Restart
    <2> QED
        BY <2>2, <2>3, <2>4
<1>2. CASE Interrupt
    BY <1>0, <1>2 DEF Interrupt, Said
<1>3. CASE LoopStopped \/ Disconnect
    BY <1>3 DEF LoopStopped, Disconnect, Said, Early, Restart
<1>4. CASE Connect \/ ConnectRefused \/ WaitOver \/ AnnounceOnline \/ PublishReading \/ Die \/ Restart
    BY <1>4 DEF Connect, ConnectRefused, WaitOver, AnnounceOnline, Announce, PublishReading, Die,
                Restart, Said
<1>5. CASE UNCHANGED mainVars
    BY <1>5 DEF Said, Early, Restart
<1> QED
    BY <1>1, <1>2, <1>3, <1>4, <1>5
       DEF Next, Main, Network, Broker, vars, Dial, DialFails, OpenSocket, Redial, Connected, Acked,
           Received, Drop, DetectLoss, BrokerReceives, ReceivesStatus, ReceivesReading,
           ReceivesRelease, Reads, BrokerDisconnects

LEMMA GoodbyesStep == FlowInv /\ Ordered /\ AcksGone /\ Goodbyes /\ [Next]_vars => Goodbyes'
<1> SUFFICES ASSUME FlowInv, Ordered, AcksGone, Goodbyes, [Next]_vars,
                    NEW j \in DOMAIN Lines, Said(j)', ~Late(Lines[j])'
             PROVE  Closed(Lines[j])'
    BY DEF Goodbyes
<1>1. ~Restart /\ ~Early /\ (Said(j) \/ Closed(Lines[j])')
    BY SaidStep
<1>2. ~Late(Lines[j])
    BY <1>1, LateStays DEF Late
<1>3. CASE Said(j)
    BY <1>1, <1>2, <1>3, ClosedStays, LoopIndices DEF Goodbyes
<1> QED
    BY <1>1, <1>3

LEMMA EndingStep == FlowInv /\ Ending /\ [Next]_vars => Ending'
<1> SUFFICES ASSUME FlowInv, Ending, [Next]_vars PROVE Ending'
    OBVIOUS
<1> USE DEF mainVars, clientVars, wireVars
<1>1. CASE LoopStopped \/ Disconnect
    BY <1>1 DEF LoopStopped, Disconnect, Ending, Open
<1>2. CASE Connect \/ ConnectRefused \/ WaitOver \/ AnnounceOnline \/ PublishReading
           \/ Interrupt \/ AnnounceOffline \/ Die \/ Restart
    BY <1>2 DEF Connect, ConnectRefused, WaitOver, AnnounceOnline, Announce, PublishReading,
                Interrupt, AnnounceOffline, Die, Restart, Ending
<1>3. CASE Dial \/ DialFails \/ OpenSocket \/ Redial \/ Connected
    BY <1>3 DEF Dial, DialFails, OpenSocket, Redial, Connected, Terminated, Ending, Open, FlowInv, IInv,
                Parts, Connections
<1>4. CASE Acked \/ Received
    BY <1>4 DEF Acked, Received, Ending, Open, FlowInv, IInv, Parts, Connections
<1>5. CASE Drop \/ DetectLoss \/ BrokerDisconnects
    BY <1>5 DEF Drop, DetectLoss, BrokerDisconnects, Ending, Open
<1>6. CASE BrokerReceives
    <2>1. UNCHANGED <<pc, link, unacked, bye>>
        BY <1>6, Receives DEF Reads, FlowInv, IInv
    <2> QED
        BY <2>1 DEF Ending, Open
<1>7. CASE UNCHANGED vars
    BY <1>7 DEF vars, Ending, Open
<1> QED
    BY <1>1, <1>2, <1>3, <1>4, <1>5, <1>6, <1>7 DEF Next, Main, Network, Broker

\* When disconnect() sends DISCONNECT, or nothing is left to be acknowledged, no
\* reading of QoS 1 or 2 of this run is missing and every line is shown offline, unless
\* a message of the line went ahead of older ones.
THEOREM CleanStopShown == Spec => []CleanStopIsVisible
<1> DEFINE StopInv == FlowInv /\ Parted /\ Ordered /\ AcksGone /\ Goodbyes /\ Ending
<1>1. Init => StopInv
    BY FlowInvInit, OrderInit
<1>2. StopInv /\ [Next]_vars => StopInv'
    BY FlowInvStep, PartedStep, OrderedStep, AcksGoneStep, GoodbyesStep, EndingStep
<1>3. StopInv => CleanStopIsVisible
    <2> SUFFICES ASSUME StopInv,
                        \/ pc = "closing" /\ (Open \/ unacked = <<>>)
                        \/ pc = "stopped" /\ (bye \/ unacked = <<>>)
                 PROVE  /\ \A l \in LineSet : retained[l] = "offline" \/ Late(l)
                        /\ \A m \in handed :
                              m \in Readings /\ m.run = run /\ QosOf(m) > 0 => forwarded[m] > 0
        BY DEF CleanStopIsVisible, Late
    <2>1. Range(unacked) = {}
        BY NothingUnderWay DEF Ending
    <2>2. ASSUME NEW l \in LineSet PROVE retained[l] = "offline" \/ Late(l)
        <3>1. PICK j \in DOMAIN Lines : l = Lines[j]
            BY DEF LineSet
        <3> QED
            BY <2>1, <3>1 DEF Goodbyes, Said, Closed
    <2>3. \A m \in handed : m \in Readings /\ m.run = run /\ QosOf(m) > 0 => forwarded[m] > 0
        BY <2>1 DEF FlowInv, Delivery, NoneLost
    <2> QED
        BY <2>2, <2>3
<1> QED
    BY <1>1, <1>2, <1>3, PTL DEF Spec

-----------------------------------------------------------------------------
(* Readings between the "online" and the "offline" of their line. *)

\* In s an "online" of its line comes before m.
Introduced(s, m) ==
    \E i, j \in DOMAIN s : i < j /\ s[j] = m /\ Says(s[i], m.line, "online")

\* In s no "offline" of its line comes before m.
Unclosed(s, m) ==
    \A i, j \in DOMAIN s : i < j /\ s[j] = m => ~Says(s[i], m.line, "offline")

LEMMA PlaceAppended ==
    ASSUME NEW S, NEW s \in Seq(S), NEW m \in S
    PROVE  LET t == Append(s, m)
           IN  /\ \A x : Introduced(s, x) => Introduced(t, x)
               /\ \A x : x # m /\ Unclosed(s, x) => Unclosed(t, x)
               /\ (\E x \in Range(s) : Says(x, m.line, "online")) => Introduced(t, m)
               /\ (\A x \in Range(s) : ~Says(x, m.line, "offline")) => Unclosed(t, m)
<1> DEFINE t == Append(s, m)
<1>1. /\ DOMAIN s = 1 .. Len(s) /\ DOMAIN t = 1 .. (Len(s) + 1) /\ Len(s) \in Nat
      /\ \A i \in 1 .. Len(s) : t[i] = s[i]
      /\ t[Len(s) + 1] = m
    BY Appended
<1> HIDE DEF t
<1>2. \A i \in 1 .. Len(s) : i \in 1 .. (Len(s) + 1) /\ i < Len(s) + 1
    BY <1>1
<1>3. \A i, j \in 1 .. (Len(s) + 1) : i < j => i \in 1 .. Len(s) /\ (j = Len(s) + 1 \/ j \in 1 .. Len(s))
    BY <1>1
<1>4. ASSUME NEW x, Introduced(s, x) PROVE Introduced(t, x)
    BY <1>1, <1>2, <1>4 DEF Introduced
<1>5. ASSUME NEW x, x # m, Unclosed(s, x) PROVE Unclosed(t, x)
    BY <1>1, <1>3, <1>5 DEF Unclosed
<1>6. ASSUME NEW x \in Range(s), Says(x, m.line, "online") PROVE Introduced(t, m)
    <2>1. PICK i \in 1 .. Len(s) : s[i] = x
        BY <1>1 DEF Range
    <2>2. Len(s) + 1 \in 1 .. (Len(s) + 1)
        BY <1>1
    <2> QED
        BY <1>1, <1>2, <1>6, <2>1, <2>2 DEF Introduced
<1>7. ASSUME \A x \in Range(s) : ~Says(x, m.line, "offline") PROVE Unclosed(t, m)
    BY <1>1, <1>3, <1>7 DEF Unclosed, Range
<1> QED
    BY <1>4, <1>5, <1>6, <1>7 DEF t

LEMMA PlaceShortened ==
    ASSUME NEW S, NEW s \in Seq(S), s # <<>>
    PROVE  LET t == Tail(s)
           IN  /\ \A x : Unclosed(s, x) => Unclosed(t, x)
               /\ \A x : Introduced(s, x) /\ ~Says(Head(s), x.line, "online") => Introduced(t, x)
               /\ \A x \in Range(t) : Unclosed(s, x) => ~Says(Head(s), x.line, "offline")
               /\ IsInjective(s) => ~Introduced(s, Head(s))
<1> DEFINE t == Tail(s)
<1>1. /\ DOMAIN s = 1 .. Len(s) /\ DOMAIN t = 1 .. (Len(s) - 1)
      /\ Len(s) \in Nat /\ Len(s) >= 1
      /\ \A i \in 1 .. (Len(s) - 1) : t[i] = s[i + 1]
      /\ Head(s) = s[1]
    BY Shortened
<1> HIDE DEF t
<1>2. \A i \in 1 .. (Len(s) - 1) : i + 1 \in 1 .. Len(s) /\ t[i] = s[i + 1] /\ 1 < i + 1
    BY <1>1
<1>3. \A i \in 1 .. Len(s) : i = 1 \/ (i - 1 \in 1 .. (Len(s) - 1) /\ t[i - 1] = s[i])
    BY <1>1
<1>4. ASSUME NEW x, Unclosed(s, x) PROVE Unclosed(t, x)
    <2> SUFFICES ASSUME NEW i \in 1 .. (Len(s) - 1), NEW j \in 1 .. (Len(s) - 1),
                        i < j, t[j] = x
                 PROVE  ~Says(t[i], x.line, "offline")
        BY <1>1 DEF Unclosed
    <2>1. i + 1 < j + 1
        OBVIOUS
    <2> QED
        BY <1>1, <1>2, <1>4, <2>1 DEF Unclosed
<1>5. ASSUME NEW x, Introduced(s, x), ~Says(Head(s), x.line, "online") PROVE Introduced(t, x)
    <2>1. PICK i \in 1 .. Len(s), j \in 1 .. Len(s) :
              i < j /\ s[j] = x /\ Says(s[i], x.line, "online")
        BY <1>1, <1>5 DEF Introduced
    <2>2. i # 1 /\ j # 1 /\ i - 1 < j - 1
        BY <1>1, <1>5, <2>1
    <2> QED
        BY <1>1, <1>3, <2>1, <2>2 DEF Introduced
<1>6. ASSUME NEW x \in Range(t), Unclosed(s, x) PROVE ~Says(Head(s), x.line, "offline")
    <2>1. PICK j \in 1 .. (Len(s) - 1) : t[j] = x
        BY <1>1 DEF Range
    <2>2. 1 \in 1 .. Len(s)
        BY <1>1
    <2> QED
        BY <1>1, <1>2, <1>6, <2>1, <2>2 DEF Unclosed
<1>7. ASSUME IsInjective(s), Introduced(s, Head(s)) PROVE FALSE
    <2>1. PICK i \in 1 .. Len(s), j \in 1 .. Len(s) : i < j /\ s[j] = s[1]
        BY <1>1, <1>7 DEF Introduced
    <2>2. j = 1
        BY <1>1, <1>7, <2>1 DEF IsInjective
    <2> QED
        BY <1>1, <2>1, <2>2
<1> QED
    BY <1>4, <1>5, <1>6, <1>7 DEF t

LEMMA PlaceRemoved ==
    ASSUME NEW S, NEW s \in Seq(S), NEW k \in DOMAIN s
    PROVE  LET t == RemoveAt(s, k)
           IN  /\ \A x : Unclosed(s, x) => Unclosed(t, x)
               /\ \A x : Introduced(s, x) /\ x # s[k] /\ ~Says(s[k], x.line, "online") => Introduced(t, x)
<1> DEFINE t == RemoveAt(s, k)
<1>1. /\ DOMAIN s = 1 .. Len(s) /\ DOMAIN t = 1 .. (Len(s) - 1) /\ Len(s) \in Nat
      /\ \A i \in 1 .. (Len(s) - 1) : t[i] = IF i < k THEN s[i] ELSE s[i + 1]
    BY Removed
<1> HIDE DEF t
<1> DEFINE from(n) == IF n < k THEN n ELSE n + 1
           to(n)   == IF n < k THEN n ELSE n - 1
<1>2. k \in 1 .. Len(s)
    BY <1>1
<1>3. ASSUME NEW x, Unclosed(s, x) PROVE Unclosed(t, x)
    <2> SUFFICES ASSUME NEW i \in 1 .. (Len(s) - 1), NEW j \in 1 .. (Len(s) - 1),
                        i < j, t[j] = x
                 PROVE  ~Says(t[i], x.line, "offline")
        BY <1>1 DEF Unclosed
    <2>1. from(i) \in 1 .. Len(s) /\ from(j) \in 1 .. Len(s) /\ from(i) < from(j)
        BY <1>1, <1>2
    <2>2. t[i] = s[from(i)] /\ t[j] = s[from(j)]
        BY <1>1
    <2> QED
        BY <1>1, <1>3, <2>1, <2>2 DEF Unclosed
<1>4. ASSUME NEW x, Introduced(s, x), x # s[k], ~Says(s[k], x.line, "online") PROVE Introduced(t, x)
    <2>1. PICK i \in 1 .. Len(s), j \in 1 .. Len(s) :
              i < j /\ s[j] = x /\ Says(s[i], x.line, "online")
        BY <1>1, <1>4 DEF Introduced
    <2>2. i # k /\ j # k
        BY <1>4, <2>1
    <2>3. to(i) \in 1 .. (Len(s) - 1) /\ to(j) \in 1 .. (Len(s) - 1) /\ to(i) < to(j)
        BY <1>1, <1>2, <2>1, <2>2
    <2>4. ASSUME NEW n \in 1 .. Len(s), n # k, to(n) \in 1 .. (Len(s) - 1) PROVE t[to(n)] = s[n]
        <3>1. CASE n < k
            BY <1>1, <2>4, <3>1
        <3>2. CASE ~(n < k)
            <4>1. to(n) = n - 1 /\ ~(n - 1 < k) /\ (n - 1) + 1 = n
                BY <1>1, <1>2, <2>4, <3>2
            <4> QED
                BY <1>1, <2>4, <4>1
        <3> QED
            BY <3>1, <3>2
    <2> QED
        BY <1>1, <2>1, <2>2, <2>3, <2>4 DEF Introduced
<1> QED
    BY <1>3, <1>4 DEF t

\* One packet replaced by one that is no status.
LEMMA PlaceReplaced ==
    ASSUME NEW S, NEW s \in Seq(S), NEW k \in DOMAIN s, NEW r \in S,
           s[k].body \notin {"online", "offline"}, r.body \notin {"online", "offline"}
    PROVE  LET t == [s EXCEPT ![k] = r]
           IN  /\ \A x : x # r /\ Unclosed(s, x) => Unclosed(t, x)
               /\ \A x : Introduced(s, x) /\ x # s[k] => Introduced(t, x)
<1> DEFINE t == [s EXCEPT ![k] = r]
<1>1. DOMAIN t = DOMAIN s /\ t[k] = r /\ \A i \in DOMAIN s : i # k => t[i] = s[i]
    BY Replaced
<1> HIDE DEF t
<1>2. ASSUME NEW x, x # r, Unclosed(s, x) PROVE Unclosed(t, x)
    <2> SUFFICES ASSUME NEW i \in DOMAIN s, NEW j \in DOMAIN s, i < j, t[j] = x,
                        Says(t[i], x.line, "offline")
                 PROVE  FALSE
        BY <1>1 DEF Unclosed
    <2>1. i # k /\ j # k
        BY <1>1, <1>2 DEF Says
    <2> QED
        BY <1>1, <1>2, <2>1 DEF Unclosed
<1>3. ASSUME NEW x, Introduced(s, x), x # s[k] PROVE Introduced(t, x)
    <2>1. PICK i \in DOMAIN s, j \in DOMAIN s : i < j /\ s[j] = x /\ Says(s[i], x.line, "online")
        BY <1>3 DEF Introduced
    <2>2. i # k /\ j # k
        BY <1>3, <2>1 DEF Says
    <2> QED
        BY <1>1, <2>1, <2>2 DEF Introduced
<1> QED
    BY <1>2, <1>3 DEF t

\* Two sequences, one behind the other.
LEMMA PlaceJoined ==
    ASSUME NEW S, NEW s \in Seq(S), NEW t \in Seq(S), Range(s) \cap Range(t) = {}
    PROVE  LET u == s \o t
           IN  \A x : /\ Introduced(s, x) \/ Introduced(t, x) => Introduced(u, x)
                      /\ x \in Range(s) /\ Unclosed(s, x) => Unclosed(u, x)
                      /\ /\ x \in Range(t) /\ Unclosed(t, x)
                         /\ \A y \in Range(s) : y.line # x.line
                         => Unclosed(u, x)
<1> DEFINE u == s \o t
<1>1. /\ DOMAIN s = 1 .. Len(s) /\ DOMAIN t = 1 .. Len(t)
      /\ DOMAIN u = 1 .. (Len(s) + Len(t)) /\ Len(s) \in Nat /\ Len(t) \in Nat
      /\ \A i \in 1 .. Len(s) : u[i] = s[i]
      /\ \A i \in 1 .. Len(t) : u[Len(s) + i] = t[i]
      /\ \A i \in 1 .. (Len(s) + Len(t)) : i \in 1 .. Len(s) \/ i - Len(s) \in 1 .. Len(t)
    BY Joined
<1> HIDE DEF u
<1>2. ASSUME NEW i \in 1 .. (Len(s) + Len(t)), i - Len(s) \in 1 .. Len(t)
      PROVE  u[i] = t[i - Len(s)] /\ t[i - Len(s)] \in Range(t) /\ i > Len(s)
    <2>1. Len(s) + (i - Len(s)) = i
        BY <1>1
    <2>2. i > Len(s)
        BY <1>1, <1>2
    <2>3. u[i] = t[i - Len(s)]
        BY <1>1, <1>2, <2>1
    <2>4. t[i - Len(s)] \in Range(t)
        BY <1>1, <1>2 DEF Range
    <2> QED
        BY <2>2, <2>3, <2>4
<1>3. \A i \in 1 .. Len(s) : u[i] = s[i] /\ s[i] \in Range(s) /\ i \in 1 .. (Len(s) + Len(t))
    BY <1>1 DEF Range
<1>4. ASSUME NEW x, Introduced(s, x) PROVE Introduced(u, x)
    BY <1>1, <1>3, <1>4 DEF Introduced
<1>5. ASSUME NEW x, Introduced(t, x) PROVE Introduced(u, x)
    <2>1. PICK i \in 1 .. Len(t), j \in 1 .. Len(t) : i < j /\ t[j] = x /\ Says(t[i], x.line, "online")
        BY <1>1, <1>5 DEF Introduced
    <2>2. /\ Len(s) + i \in 1 .. (Len(s) + Len(t)) /\ Len(s) + j \in 1 .. (Len(s) + Len(t))
          /\ Len(s) + i < Len(s) + j
        BY <1>1, <2>1
    <2> QED
        BY <1>1, <2>1, <2>2 DEF Introduced
<1>6. ASSUME NEW x \in Range(s), Unclosed(s, x) PROVE Unclosed(u, x)
    <2> SUFFICES ASSUME NEW i \in 1 .. (Len(s) + Len(t)), NEW j \in 1 .. (Len(s) + Len(t)), i < j, u[j] = x
                 PROVE  ~Says(u[i], x.line, "offline")
        BY <1>1 DEF Unclosed
    <2>1. j \in 1 .. Len(s)
        BY <1>1, <1>2, <1>6
    <2>2. i \in 1 .. Len(s)
        BY <1>1, <2>1
    <2> QED
        BY <1>1, <1>3, <1>6, <2>1, <2>2 DEF Unclosed
<1>7. ASSUME NEW x \in Range(t), Unclosed(t, x), \A y \in Range(s) : y.line # x.line PROVE Unclosed(u, x)
    <2> SUFFICES ASSUME NEW i \in 1 .. (Len(s) + Len(t)), NEW j \in 1 .. (Len(s) + Len(t)), i < j, u[j] = x
                 PROVE  ~Says(u[i], x.line, "offline")
        BY <1>1 DEF Unclosed
    <2>1. CASE i \in 1 .. Len(s)
        BY <1>3, <1>7, <2>1 DEF Says
    <2>2. CASE i - Len(s) \in 1 .. Len(t)
        <3>1. j - Len(s) \in 1 .. Len(t) /\ i - Len(s) < j - Len(s)
            BY <1>1, <1>2, <2>2
        <3> QED
            BY <1>1, <1>2, <1>7, <2>2, <3>1 DEF Unclosed
    <2> QED
        BY <1>1, <2>1, <2>2
<1> QED
    BY <1>4, <1>5, <1>6, <1>7 DEF u

\* The beginning of a sequence without repetitions.
LEMMA PlaceBegun ==
    ASSUME NEW S, NEW s \in Seq(S), NEW t \in Seq(S), IsInjective(s),
           \A i \in DOMAIN t : i \in DOMAIN s /\ t[i] = s[i]
    PROVE  \A x \in Range(t) : /\ Introduced(s, x) => Introduced(t, x)
                               /\ Unclosed(s, x) => Unclosed(t, x)
<1> SUFFICES ASSUME NEW k \in DOMAIN t
             PROVE  /\ Introduced(s, t[k]) => Introduced(t, t[k])
                    /\ Unclosed(s, t[k]) => Unclosed(t, t[k])
    BY DEF Range
<1>1. DOMAIN s = 1 .. Len(s) /\ DOMAIN t = 1 .. Len(t) /\ Len(s) \in Nat /\ Len(t) \in Nat
    OBVIOUS
<1>2. ASSUME Introduced(s, t[k]) PROVE Introduced(t, t[k])
    <2>1. PICK i \in DOMAIN s, j \in DOMAIN s : i < j /\ s[j] = t[k] /\ Says(s[i], t[k].line, "online")
        BY <1>2 DEF Introduced
    <2>2. j = k
        BY <2>1 DEF IsInjective
    <2>3. i \in DOMAIN t
        BY <1>1, <2>1, <2>2
    <2> QED
        BY <2>1, <2>2, <2>3 DEF Introduced
<1>3. ASSUME Unclosed(s, t[k]) PROVE Unclosed(t, t[k])
    BY <1>3 DEF Unclosed
<1> QED
    BY <1>2, <1>3

\* A reading the broker has not taken yet.
New(m) == m \in Readings /\ ~Taken(m)

\* A message of its line went ahead of older ones in the run of m.
Ahead(m) == <<m.line, m.run>> \in ahead

\* On the wire a new reading follows its line's "online", if that is not shown,
\* and no "offline".
OnWire ==
    \A m \in Range(wire) : New(m) /\ ~Ahead(m) =>
        /\ Shown(m.line) \/ Introduced(wire, m)
        /\ Unclosed(wire, m)

\* The same of what paho holds; while messages of an earlier run are on the wire,
\* which may turn the line offline, its "online" is still held too.
OnHold ==
    ~Ended => \A m \in Range(unacked) : New(m) /\ ~Ahead(m) =>
        /\ Shown(m.line) \/ Introduced(unacked, m)
        /\ (\E x \in Range(wire) : x.run # run) => Introduced(unacked, m)
        /\ Unclosed(unacked, m)

\* An "online" that is being acknowledged is shown, as long as a new reading of
\* its line is held.
AcksOpen ==
    ~Ended => \A x \in Range(acks) : x.body = "online" =>
        \/ Shown(x.line)
        \/ \A m \in Range(unacked) : New(m) /\ ~Ahead(m) => m.line # x.line

Bracketed == Parted /\ OnWire /\ OnHold /\ AcksOpen

LEMMA BracketedInit == Init => Bracketed
BY NothingUnderWay, OrderInit DEF Init, Bracketed, OnWire, OnHold, AcksOpen

LEMMA LineType == \A m \in Packets : m.line \in LineSet
BY PacketKinds

\* A new reading, published while its line is announced and no goodbye is said.
LEMMA GiveBracketed ==
    ASSUME FlowInv, Bracketed, NEW m, Gives(m), Parted' PROVE Bracketed'
<1>0. /\ TypeOK /\ IInv /\ Traced /\ Single /\ Carried
      /\ unacked \in Seq(Packets) /\ wire \in Seq(Packets) /\ acks \in Seq(Packets)
      /\ m \in Packets /\ Publish(m) /\ m.run = run /\ Open' = Open
      /\ UNCHANGED <<run, link, owed, acks, stored, forwarded, retained, fired>> /\ ~Ended /\ ~Ended'
    BY DEF FlowInv, IInv, Flow, TypeOK, Gives, brokerVars, Packets, Open
<1>1. /\ Range(unacked') = Range(unacked) \cup (IF QosOf(m) = 0 THEN {} ELSE {m})
      /\ Range(wire') = Range(wire) \cup (IF Open THEN {m} ELSE {})
      /\ m \notin Range(unacked) /\ m \notin Range(wire)
    BY <1>0, GiveRanges DEF Underway
<1>2. /\ \A x : New(x)' = New(x) /\ Shown(x)' = Shown(x)
      /\ \A x : ~Ahead(x)' => ~Ahead(x)
    BY <1>0 DEF New, Taken, Shown, Ahead, Publish, Write
<1>3. /\ \A x : Introduced(unacked, x) => Introduced(unacked', x)
      /\ \A x \in Range(unacked) : Unclosed(unacked, x) => Unclosed(unacked', x)
    BY <1>0, <1>1, PlaceAppended DEF Publish
<1>4. /\ \A x : Introduced(wire, x) => Introduced(wire', x)
      /\ \A x \in Range(wire) : Unclosed(wire, x) => Unclosed(wire', x)
    BY <1>0, <1>1, PlaceAppended DEF Publish, Write
<1>5. (\E x \in Range(wire') : x.run # run) => \E x \in Range(wire) : x.run # run
    BY <1>0, <1>1
<1>6. ASSUME New(m), ~Ahead(m)'
      PROVE  /\ Shown(m.line) \/ \E x \in Range(unacked) : Says(x, m.line, "online")
             /\ (\E x \in Range(wire) : x.run # run) => \E x \in Range(unacked) : Says(x, m.line, "online")
             /\ Open => Shown(m.line) \/ \E x \in Range(wire) : Says(x, m.line, "online")
             /\ \A x \in Range(unacked) : ~Says(x, m.line, "offline")
             /\ Open => \A x \in Range(wire) : ~Says(x, m.line, "offline")
    <2>1. pc = "running" /\ m.line \in LineSet /\ Early
        BY <1>6 DEF Gives, New, Early
    <2>2. PICK j \in DOMAIN Lines : Lines[j] = m.line
        BY <2>1 DEF LineSet
    <2>3. /\ Shown(m.line) \/ Queued(m.line)
          /\ (\E x \in Range(wire) : x.run # run) => Queued(m.line)
        BY <2>1, <2>2 DEF FlowInv, IInv, Parts, ShownOrQueued, Announced, Range
    <2>4. Queued(m.line) => Status(m.line, "online", run) \in Range(unacked)
        BY DEF Queued, Range
    <2>5. Says(Status(m.line, "online", run), m.line, "online")
        BY MessageFields DEF Says
    <2>6. Status(m.line, "online", run) \in Range(acks) => Shown(m.line)
        BY <2>1 DEF FlowInv, IInv, Parts, AcksShown, Range
    <2>7. \A y \in Range(owed) : y.line # m.line
        BY <1>0, <1>6 DEF Ahead, Publish, Write, Range
    <2>8. Open => Shown(m.line) \/ Status(m.line, "online", run) \in Range(wire)
        BY <1>0, <2>3, <2>4, <2>5, <2>6, <2>7 DEF Carried, Says
    <2>9. /\ \A x \in Range(unacked) : x.body # "offline"
          /\ Open => \A x \in Range(wire) : x.body # "offline"
        BY <2>1, NoGoodbyeYet
    <2> QED
        BY <2>3, <2>4, <2>5, <2>8, <2>9 DEF Says
<1>7. OnWire'
    <2> SUFFICES ASSUME NEW x \in Range(wire'), New(x), ~Ahead(x)'
                 PROVE  (Shown(x.line) \/ Introduced(wire', x)) /\ Unclosed(wire', x)
        BY <1>2 DEF OnWire
    <2>1. CASE x \in Range(wire)
        BY <1>2, <1>4, <2>1 DEF Bracketed, OnWire
    <2>2. CASE x = m /\ Open
        <3>1. wire' = Append(wire, m)
            BY <2>2 DEF Gives, Publish, Write
        <3> QED
            BY <1>0, <1>6, <2>2, <3>1, PlaceAppended
    <2> QED
        BY <1>1, <2>1, <2>2
<1>8. OnHold'
    <2> SUFFICES ASSUME NEW x \in Range(unacked'), New(x), ~Ahead(x)'
                 PROVE  /\ Shown(x.line) \/ Introduced(unacked', x)
                        /\ (\E y \in Range(wire) : y.run # run) => Introduced(unacked', x)
                        /\ Unclosed(unacked', x)
        BY <1>0, <1>2, <1>5 DEF OnHold
    <2>1. CASE x \in Range(unacked)
        BY <1>0, <1>2, <1>3, <2>1 DEF Bracketed, OnHold
    <2>2. CASE x = m /\ QosOf(m) # 0
        <3>1. unacked' = Append(unacked, m)
            BY <2>2 DEF Gives, Publish
        <3> QED
            BY <1>0, <1>6, <2>2, <3>1, PlaceAppended
    <2> QED
        BY <1>1, <2>1, <2>2
<1>9. AcksOpen'
    <2> SUFFICES ASSUME NEW x \in Range(acks), x.body = "online",
                        NEW y \in Range(unacked'), New(y), ~Ahead(y)', y.line = x.line
                 PROVE  Shown(x.line)
        BY <1>0, <1>2 DEF AcksOpen
    <2>1. CASE y \in Range(unacked)
        BY <1>0, <1>2, <2>1 DEF Bracketed, AcksOpen
    <2>2. CASE y = m
        <3>1. x \in Packets /\ x.run = run /\ Early /\ x.line \in LineSet
            BY <1>0, <2>2, LineType DEF Traced, Gives, New, Early, Range
        <3>2. x = Status(x.line, "online", run)
            BY <3>1, PacketKinds
        <3> QED
            BY <3>1, <3>2 DEF FlowInv, IInv, Parts, AcksShown, Range
    <2> QED
        BY <1>1, <2>1, <2>2
<1> QED
    BY <1>7, <1>8, <1>9 DEF Bracketed

\* The broker forgets no reading it has taken, and takes the oldest packet on the wire.
LEMMA TakenStays ==
    ASSUME FlowInv, BrokerReceives, NEW x \in Readings
    PROVE  /\ Taken(x) => Taken(x)'
           /\ ~Taken(x) /\ Taken(x)' => x = Head(wire)
<1>1. PICK p : p = Head(wire)
    OBVIOUS
<1>2. PICK o : o = Origin(p)
    OBVIOUS
<1>3. TypeOK /\ p \in Packets /\ p \in Range(wire) /\ forwarded \in [Readings -> Nat]
    BY <1>1, ReceiveRanges DEF FlowInv, IInv, Flow, TypeOK
<1>4. /\ \A y \in Readings : y # o => forwarded'[y] = forwarded[y] /\ (y \in stored' <=> y \in stored)
      /\ p \notin Readings /\ p.body # "release" => stored' = stored /\ forwarded' = forwarded
      /\ p \in Readings =>
            /\ o = p
            /\ IF QosOf(p) = 2
               THEN p \in stored' /\ forwarded'[p] = forwarded[p]
               ELSE forwarded'[p] = forwarded[p] + 1 /\ stored' = stored
      /\ p.body = "release" =>
            /\ o \in Readings /\ p = Release(o)
            /\ stored' = stored \ {o}
            /\ forwarded'[o] = forwarded[o] + (IF o \in stored THEN 1 ELSE 0)
    BY <1>1, <1>2, <1>3, ReceiveTakes
<1>5. CASE x # o
    BY <1>4, <1>5 DEF Taken
<1>6. CASE x = o /\ p \in Readings
    BY <1>1, <1>3, <1>4, <1>6 DEF Taken
<1>7. CASE x = o /\ p.body = "release"
    <2>1. Taken(x)
        BY <1>3, <1>4, <1>7 DEF FlowInv, Delivery, Arrived, Underway
    <2>2. Taken(x)'
        BY <1>3, <1>4, <1>7, <2>1 DEF Taken
    <2> QED
        BY <2>1, <2>2
<1>8. CASE p \notin Readings /\ p.body # "release"
    BY <1>4, <1>8 DEF Taken
<1> QED
    BY <1>5, <1>6, <1>7, <1>8

\* The broker takes the oldest packet off the wire: a new reading can only come
\* while its line is shown, and an "offline" only after the line's readings.
LEMMA ReceiveBracketed ==
    ASSUME FlowInv, Bracketed, BrokerReceives, TypeOK', Parted' PROVE Bracketed'
<1> USE DEF mainVars, clientVars, wireVars, brokerVars
<1>0. /\ TypeOK /\ IInv /\ Traced /\ Single /\ Carried /\ OldWire /\ wire \in Seq(Packets) /\ wire # <<>>
      /\ wire' = Tail(wire) /\ IsInjective(wire) /\ acks \in Seq(Packets) /\ unacked \in Seq(Packets)
      /\ retained \in [LineSet -> {"none", "online", "offline"}]
    BY Receives DEF FlowInv, IInv, Flow, TypeOK, Single
<1>1. PICK m : m = Head(wire)
    OBVIOUS
<1>2. /\ m \in Packets /\ Range(wire) = Range(wire') \cup {m} /\ m \notin Range(wire')
      /\ Range(acks') = Range(acks) \cup (IF QosOf(m) > 0 /\ Open THEN {m} ELSE {})
      /\ UNCHANGED <<pc, run, unacked, link, owed, ahead>> /\ Open' = Open /\ Ended' = Ended
    BY <1>0, <1>1, ReceiveRanges DEF Open, Ended
<1>3. /\ m.line \in LineSet
      /\ m.body \notin {"online", "offline"} => UNCHANGED <<retained, fired>>
      /\ m.body \in {"online", "offline"} =>
            /\ retained' = [retained EXCEPT ![m.line] = m.body]
            /\ fired' = (fired /\ ~Says(m, WillLine, "online"))
    BY <1>0, <1>1, ReceiveShows
<1>4. /\ \A x : New(x)' => New(x)
      /\ \A x : Ahead(x)' = Ahead(x)
    BY <1>2, TakenStays DEF New, Ahead
<1>5. ASSUME NEW l \in LineSet, Shown(l), ~Says(m, l, "offline") PROVE Shown(l)'
    BY <1>0, <1>3, <1>5 DEF Shown, Says
<1>6. Says(m, m.line, "online") => Shown(m.line)'
    BY <1>0, <1>3 DEF Shown, Says
<1>7. (\E x \in Range(wire') : x.run # run) => \E x \in Range(wire) : x.run # run
    BY <1>2
<1>8. /\ \A x : Unclosed(wire, x) => Unclosed(wire', x)
      /\ \A x : Introduced(wire, x) /\ ~Says(m, x.line, "online") => Introduced(wire', x)
      /\ \A x \in Range(wire') : Unclosed(wire, x) => ~Says(m, x.line, "offline")
    BY <1>0, <1>1, PlaceShortened
<1>9. OnWire'
    <2> SUFFICES ASSUME NEW x \in Range(wire'), New(x), ~Ahead(x)
                 PROVE  (Shown(x.line)' \/ Introduced(wire', x)) /\ Unclosed(wire', x)
        BY <1>4 DEF OnWire
    <2>1. x.line \in LineSet /\ (Shown(x.line) \/ Introduced(wire, x)) /\ Unclosed(wire, x)
        BY <1>0, <1>2, LineType DEF Bracketed, OnWire, Range
    <2>2. CASE Says(m, x.line, "online")
        BY <1>6, <1>8, <2>1, <2>2 DEF Says
    <2>3. CASE ~Says(m, x.line, "online")
        BY <1>5, <1>8, <2>1, <2>3
    <2> QED
        BY <2>2, <2>3
<1>10. ASSUME Open, NEW x \in Range(unacked), New(x), ~Ahead(x) PROVE ~Says(m, x.line, "offline")
    <2>1. x \notin Range(acks) /\ x.run = run /\ x.body = "data"
        BY <1>10, ReadingShape DEF New, FlowInv, Delivery, Arrived, IInv, Parts, Runs, Range
    <2>2. CASE x \in Range(owed)
        <3>1. m \in Range(wire) /\ (m.line = x.line => Late(x.line))
            BY <1>2, <2>2 DEF Bracketed, Parted
        <3> QED
            BY <1>10, <2>1, <3>1 DEF Ahead, Late, Says
    <2>3. CASE x \in Range(wire) /\ x # m
        <3>1. Unclosed(wire, x) /\ x \in Range(wire')
            BY <1>2, <1>10, <2>3 DEF Bracketed, OnWire
        <3> QED
            BY <1>8, <3>1
    <2>4. CASE x = m
        BY <2>1, <2>4 DEF Says
    <2> QED
        BY <1>0, <1>10, <2>1, <2>2, <2>3, <2>4 DEF Carried
<1>11. OnHold'
    <2> SUFFICES ASSUME ~Ended, NEW x \in Range(unacked), New(x), ~Ahead(x)
                 PROVE  /\ Shown(x.line)' \/ Introduced(unacked, x)
                        /\ (\E y \in Range(wire) : y.run # run) => Introduced(unacked, x)
                        /\ Unclosed(unacked, x)
        BY <1>2, <1>4, <1>7 DEF OnHold
    <2>1. /\ x.line \in LineSet
          /\ Shown(x.line) \/ Introduced(unacked, x)
          /\ (\E y \in Range(wire) : y.run # run) => Introduced(unacked, x)
          /\ Unclosed(unacked, x)
        BY <1>0, LineType DEF Bracketed, OnHold, Range
    <2>2. CASE Open
        BY <1>5, <1>10, <2>1, <2>2
    <2>3. CASE ~Open
        <3>1. m.run # run
            BY <1>0, <1>2, <2>3 DEF OldWire
        <3> QED
            BY <1>2, <2>1, <3>1
    <2> QED
        BY <2>2, <2>3
<1>12. AcksOpen'
    <2> SUFFICES ASSUME ~Ended, NEW x \in Range(acks'), x.body = "online", ~Shown(x.line)',
                        NEW y \in Range(unacked), New(y), ~Ahead(y), y.line = x.line
                 PROVE  FALSE
        BY <1>2, <1>4 DEF AcksOpen
    <2>1. x # m
        BY <1>6 DEF Says
    <2>2. x \in Range(acks) /\ x.line \in LineSet /\ Open
        <3>1. x \in Range(acks)
            BY <1>2, <2>1
        <3>2. acks # <<>> /\ x \in Packets
            BY <1>0, <3>1, NothingUnderWay DEF Range
        <3> QED
            BY <1>0, <3>1, <3>2, LineType DEF IInv, Parts, Connections
    <2>3. Shown(x.line)
        BY <2>2 DEF Bracketed, AcksOpen
    <2>4. Says(m, x.line, "offline")
        BY <1>5, <2>2, <2>3
    <2> QED
        BY <1>10, <2>2, <2>4
<1> QED
    BY <1>9, <1>11, <1>12 DEF Bracketed

LEMMA BracketedStep == FlowInv /\ Bracketed /\ [Next]_vars => Bracketed'
<1> SUFFICES ASSUME FlowInv, Bracketed, [Next]_vars PROVE Bracketed'
    OBVIOUS
<1> USE DEF mainVars, clientVars, wireVars, brokerVars
<1>0. /\ TypeOK /\ TypeOK' /\ IInv /\ Traced /\ Single /\ Carried /\ Parted' /\ ahead \subseteq ahead'
      /\ unacked \in Seq(Packets) /\ wire \in Seq(Packets) /\ acks \in Seq(Packets) /\ owed \in Seq(Packets)
    BY TypeStep, PartedStep, LateStays DEF FlowInv, IInv, Flow, TypeOK, Bracketed
<1>1. \A x \in Range(unacked) \cup Range(wire) \cup Range(acks) : x.line \in LineSet
    BY <1>0, LineType DEF Range
<1>2. \A x : ~Ahead(x)' => ~Ahead(x)
    BY <1>0 DEF Ahead
<1>3. CASE BrokerReceives
    BY <1>0, <1>3, ReceiveBracketed
<1>4. ASSUME UNCHANGED <<run, unacked, stored, forwarded>>, wire' = wire \/ wire' = <<>>,
             Range(acks') \subseteq Range(acks), Ended => Ended',
             \A l \in LineSet : Shown(l) => Shown(l)'
      PROVE  Bracketed'
    <2>1. \A x : New(x)' = New(x)
        BY <1>4 DEF New, Taken
    <2>2. OnWire'
        BY <1>1, <1>2, <1>4, <2>1, NothingUnderWay DEF Bracketed, OnWire
    <2>3. OnHold'
        BY <1>1, <1>2, <1>4, <2>1, NothingUnderWay DEF Bracketed, OnHold
    <2>4. AcksOpen'
        BY <1>1, <1>2, <1>4, <2>1, NothingUnderWay DEF Bracketed, AcksOpen
    <2> QED
        BY <1>0, <2>2, <2>3, <2>4 DEF Bracketed
<1>5. CASE Quiet
    BY <1>4, <1>5, NothingUnderWay DEF Quiet, Shown
<1>6. CASE Severed
    BY <1>4, <1>6, NothingUnderWay DEF Severed, Shown, Ended
<1>7. CASE DetectLoss \/ OpenSocket
    <2>1. \A l \in LineSet : Shown(l) => Shown(l)'
        BY <1>0, <1>7, WillKeepsShown DEF DetectLoss, OpenSocket, Shown
    <2> QED
        BY <1>4, <1>7, <2>1, NothingUnderWay DEF DetectLoss, OpenSocket, Ended
<1>8. CASE \E m : Gives(m)
    BY <1>0, <1>8, GiveBracketed
<1>9. CASE Restart
    <2>1. /\ unacked' = <<>> /\ UNCHANGED <<wire, acks, stored, forwarded, retained, fired>>
          /\ pc \in {"stopped", "dead"}
        BY <1>9 DEF Restart
    <2>2. \A x : New(x)' = New(x) /\ Shown(x)' = Shown(x)
        BY <2>1 DEF New, Taken, Shown
    <2>3. OnWire'
        BY <1>2, <2>1, <2>2 DEF Bracketed, OnWire
    <2>4. OnHold' /\ AcksOpen'
        <3>1. acks' = <<>>
            BY <1>0, <2>1 DEF IInv, Parts, Connections, Open
        <3> QED
            BY <2>1, <3>1, NothingUnderWay DEF OnHold, AcksOpen
    <2> QED
        BY <1>0, <2>3, <2>4 DEF Bracketed
<1>10. CASE Connected
    <2>1. /\ wire' = wire \o owed /\ UNCHANGED <<pc, run, unacked, acks, stored, forwarded, retained, fired, ahead>>
          /\ Open /\ ~Ended /\ ~Ended' /\ Range(owed) \subseteq Range(unacked)
        BY <1>0, <1>10, OwedHeld DEF Connected, Open, Ended, IInv, Parts, Connections
    <2>2. \A x : New(x)' = New(x) /\ Shown(x)' = Shown(x) /\ Ahead(x)' = Ahead(x)
        BY <2>1 DEF New, Taken, Shown, Ahead
    <2>3. /\ \A x \in Range(unacked) : x.run = run
          /\ \A x \in Range(wire) : x.run = run
        BY <2>1 DEF FlowInv, IInv, Parts, Runs, Range
    <2>4. Range(wire') = Range(wire) \cup Range(owed) /\ Range(wire) \cap Range(owed) = {}
        BY <1>0, <1>10, JoinRanges DEF Single
    <2>5. \A x : /\ Introduced(wire, x) \/ Introduced(owed, x) => Introduced(wire', x)
                 /\ x \in Range(wire) /\ Unclosed(wire, x) => Unclosed(wire', x)
                 /\ x \in Range(owed) /\ Unclosed(owed, x) /\ (\A y \in Range(wire) : y.line # x.line)
                       => Unclosed(wire', x)
        BY <1>0, <2>1, <2>4, PlaceJoined
    <2>6. \A x \in Range(owed) : /\ Introduced(unacked, x) => Introduced(owed, x)
                                 /\ Unclosed(unacked, x) => Unclosed(owed, x)
        <3>1. IsInjective(unacked) /\ \A i \in DOMAIN owed : i \in DOMAIN unacked /\ owed[i] = unacked[i]
            BY <1>0 DEF Single, IInv, Parts, Connections
        <3> QED
            BY <1>0, <3>1, PlaceBegun
    <2>7. OnWire'
        <3> SUFFICES ASSUME NEW x \in Range(wire'), New(x), ~Ahead(x)
                     PROVE  (Shown(x.line) \/ Introduced(wire', x)) /\ Unclosed(wire', x)
            BY <2>2 DEF OnWire
        <3>1. CASE x \in Range(wire)
            BY <2>5, <3>1 DEF Bracketed, OnWire
        <3>2. CASE x \in Range(owed)
            <4>1. (Shown(x.line) \/ Introduced(unacked, x)) /\ Unclosed(unacked, x) /\ x.run = run
                BY <2>1, <2>3, <3>2 DEF Bracketed, OnHold
            <4>2. \A y \in Range(wire) : y.line # x.line
                BY <3>2, <4>1 DEF Bracketed, Parted, Late, Ahead
            <4> QED
                BY <2>5, <2>6, <3>2, <4>1, <4>2
        <3> QED
            BY <2>4, <3>1, <3>2
    <2>8. OnHold'
        BY <2>1, <2>2, <2>3, <2>4 DEF Bracketed, OnHold
    <2>9. AcksOpen'
        BY <2>1, <2>2 DEF Bracketed, AcksOpen
    <2> QED
        BY <1>0, <2>7, <2>8, <2>9 DEF Bracketed
<1>11. CASE Acked
    <2>1. PICK m : m = Head(acks)
        OBVIOUS
    <2>2. /\ Range(acks) = Range(acks') \cup {m} /\ Range(unacked') = Range(unacked) \ {m}
          /\ Open /\ UNCHANGED <<pc, run, wire, stored, forwarded, retained, fired, ahead>> /\ Ended' = Ended
        BY <1>0, <1>11, <2>1, AckRanges DEF Ended
    <2>3. PICK k \in DOMAIN unacked : unacked[k] = m /\ unacked' = RemoveAt(unacked, k)
        BY <1>11, <2>1 DEF Acked
    <2>4. /\ \A x : Unclosed(unacked, x) => Unclosed(unacked', x)
          /\ \A x : Introduced(unacked, x) /\ x # m /\ ~Says(m, x.line, "online") => Introduced(unacked', x)
        BY <1>0, <2>3, PlaceRemoved
    <2>5. \A x : New(x)' = New(x) /\ Shown(x)' = Shown(x) /\ Ahead(x)' = Ahead(x)
        BY <2>2 DEF New, Taken, Shown, Ahead
    <2>6. OnWire'
        BY <2>2, <2>5 DEF Bracketed, OnWire
    <2>7. \A x \in Range(wire) : x.run = run
        BY <2>2 DEF FlowInv, IInv, Parts, Runs, Range
    <2>8. OnHold'
        <3> SUFFICES ASSUME ~Ended, NEW x \in Range(unacked'), New(x), ~Ahead(x)
                     PROVE  (Shown(x.line) \/ Introduced(unacked', x)) /\ Unclosed(unacked', x)
            BY <2>2, <2>5, <2>7 DEF OnHold
        <3>1. /\ x \in Range(unacked) /\ x # m
              /\ Shown(x.line) \/ Introduced(unacked, x)
              /\ Unclosed(unacked, x)
            BY <2>2 DEF Bracketed, OnHold
        <3>2. Says(m, x.line, "online") => Shown(x.line)
            BY <2>2, <3>1 DEF Bracketed, AcksOpen, Says
        <3> QED
            BY <2>4, <3>1, <3>2
    <2>9. AcksOpen'
        BY <2>2, <2>5 DEF Bracketed, AcksOpen
    <2> QED
        BY <1>0, <2>6, <2>8, <2>9 DEF Bracketed
<1>12. CASE Received
    <2>1. PICK p : p = Head(acks)
        OBVIOUS
    <2>2. PICK r : r = Release(p)
        OBVIOUS
    <2>3. /\ p \in Readings /\ r \in Packets /\ r.body = "release" /\ r.run = p.run /\ p \in Range(unacked)
          /\ Range(acks) = Range(acks') \cup {p} /\ r \notin Underway
          /\ Range(unacked') = (Range(unacked) \ {p}) \cup {r} /\ IsInjective(unacked')
          /\ Range(wire') = Range(wire) \cup {r}
          /\ Open /\ UNCHANGED <<pc, run, stored, forwarded, retained, fired, ahead>> /\ Ended' = Ended
        BY <1>0, <1>12, <2>1, <2>2, ReleaseRanges DEF Ended
    <2>4. PICK k \in DOMAIN unacked : unacked[k] = p /\ unacked' = [unacked EXCEPT ![k] = r]
        BY <1>12, <2>1, <2>2 DEF Received
    <2>5. wire' = Append(wire, r)
        BY <1>12, <2>1, <2>2 DEF Received
    <2>6. /\ \A x : New(x)' = New(x) /\ Shown(x)' = Shown(x) /\ Ahead(x)' = Ahead(x)
          /\ p.body = "data" /\ p # r /\ r \notin Readings
        BY <2>3, ReadingShape DEF New, Taken, Shown, Ahead
    <2>7. /\ \A x : x # r /\ Unclosed(unacked, x) => Unclosed(unacked', x)
          /\ \A x : Introduced(unacked, x) /\ x # p => Introduced(unacked', x)
        <3>1. unacked[k].body \notin {"online", "offline"} /\ r.body \notin {"online", "offline"}
            BY <2>3, <2>4, <2>6
        <3> QED
            BY <1>0, <2>3, <2>4, <3>1, PlaceReplaced
    <2>8. /\ \A x : Introduced(wire, x) => Introduced(wire', x)
          /\ \A x : x # r /\ Unclosed(wire, x) => Unclosed(wire', x)
        BY <1>0, <2>3, <2>5, PlaceAppended
    <2>9. OnWire'
        <3> SUFFICES ASSUME NEW x \in Range(wire'), New(x), ~Ahead(x)
                     PROVE  (Shown(x.line) \/ Introduced(wire', x)) /\ Unclosed(wire', x)
            BY <2>6 DEF OnWire
        <3>1. x # r /\ x \in Range(wire)
            BY <2>3, <2>6 DEF New
        <3> QED
            BY <2>8, <3>1 DEF Bracketed, OnWire
    <2>10. /\ \A x \in Range(wire) : x.run = run
           /\ p.run = run
        BY <2>3 DEF FlowInv, IInv, Parts, Runs, Range
    <2>11. OnHold'
        <3> SUFFICES ASSUME ~Ended, NEW x \in Range(unacked'), New(x), ~Ahead(x)
                     PROVE  (Shown(x.line) \/ Introduced(unacked', x)) /\ Unclosed(unacked', x)
            BY <2>3, <2>6, <2>10 DEF OnHold
        <3>1. x # r /\ x # p /\ x \in Range(unacked)
            BY <2>3, <2>6 DEF New
        <3> QED
            BY <2>7, <3>1 DEF Bracketed, OnHold
    <2>12. AcksOpen'
        <3> SUFFICES ASSUME ~Ended, NEW x \in Range(acks'), x.body = "online",
                            NEW y \in Range(unacked'), New(y), ~Ahead(y), y.line = x.line
                     PROVE  Shown(x.line)
            BY <2>3, <2>6 DEF AcksOpen
        <3>1. y # r /\ y \in Range(unacked) /\ x \in Range(acks)
            BY <2>3, <2>6 DEF New
        <3> QED
            BY <3>1 DEF Bracketed, AcksOpen
    <2> QED
        BY <1>0, <2>9, <2>11, <2>12 DEF Bracketed
<1> QED
    BY <1>3, <1>5, <1>6, <1>7, <1>8, <1>9, <1>10, <1>11, <1>12, Steps DEF FlowInv

\* The first copy of a reading reaches the broker while its line is shown online, or on
\* the will line after the will has overwritten that, unless a message of the line went
\* ahead of older ones.
THEOREM ReadingsWithinSession == Spec => NewReadingsOnlyWhileOnline
<1> USE DEF mainVars, clientVars, wireVars, brokerVars
<1>1. FlowInv /\ Bracketed /\ [Next]_vars =>
          [\A m \in Readings :
              ~Taken(m) /\ Taken(m)' =>
                  \/ retained[m.line] = "online"
                  \/ m.line = WillLine /\ fired
                  \/ <<m.line, m.run>> \in ahead]_vars
    <2> SUFFICES ASSUME FlowInv, Bracketed, [Next]_vars,
                        NEW x \in Readings, ~Taken(x), Taken(x)'
                 PROVE  Shown(x.line) \/ Ahead(x)
        BY DEF Shown, Ahead
    <2>1. ~(UNCHANGED <<stored, forwarded>>)
        BY DEF Taken
    <2>2. BrokerReceives
        BY <2>1, Steps DEF FlowInv, Quiet, Gives, OpenSocket, Connected, Acked, Received, Restart, Severed,
                          DetectLoss
    <2>3. TypeOK /\ Single /\ wire \in Seq(Packets) /\ wire # <<>> /\ IsInjective(wire)
        BY <2>2, Receives DEF FlowInv, IInv, Flow, TypeOK, Single
    <2>4. Head(wire) \in Range(wire)
        BY <2>2, <2>3, ReceiveRanges
    <2>5. x = Head(wire)
        BY <2>2, TakenStays
    <2>6. ~Introduced(wire, x)
        BY <2>3, <2>5, PlaceShortened
    <2> QED
        BY <2>4, <2>5, <2>6 DEF Bracketed, OnWire, New
<1>2. Init => FlowInv /\ Bracketed
    BY FlowInvInit, BracketedInit
<1>3. FlowInv /\ Bracketed /\ [Next]_vars => (FlowInv /\ Bracketed)'
    BY FlowInvStep, BracketedStep
<1> QED
    BY <1>1, <1>2, <1>3, PTL DEF Spec, NewReadingsOnlyWhileOnline
=============================================================================
