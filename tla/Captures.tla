------------------------------ MODULE Captures ------------------------------
(***************************************************************************)
(* scripts/generate_captures.py: one MQTT exchange over a raw TCP socket,   *)
(* one CoAP exchange with a server in the same process, and for each a pcap *)
(* file made of the packets sent and received.  TCP hands the script the    *)
(* broker's bytes in chunks of its own choice; recv(8) takes what is there. *)
(***************************************************************************)
EXTENDS PacketFormats, FiniteSets, FiniteSetsExt

CONSTANTS
    Lengths,      \* lengths of texts for which the packet formats are compared
    Boundaries,   \* remaining lengths for which the varints are compared
    MaxSplits     \* bound: times recv is handed less than it asked for and was there

ASSUME CapturesAssumption ==
    /\ Lengths \subseteq Short \ {0} /\ Boundaries \subseteq Nat /\ MaxSplits \in Nat

Files == {"mqtt", "coap"}

VARIABLES
    pc,        \* the next step of the script; the two that end it are "done" and "dead"
    link,      \* the connection, as the script's side sees it
    up, down,  \* packets on their way to the broker, bytes on their way back
    splits,    \* counts the chunks that were shorter than they could have been
    frames,    \* frames: what goes into the file being made
    seqC, seqS,  \* seq_c and seq_s
    match,     \* what is printed after "Matches PUBLISH Packet ID"
    server,    \* the CoAP server that capture_coap starts
    net,       \* datagrams under way: requests and answers
    fan,       \* the state of the server's actuator
    changed,   \* what is printed of the answer to PUT: its code
    ok,        \* mqtt_ok and coap_ok
    file,      \* what each file holds
    status,    \* the summary
    taken      \* history: the packets the broker has taken

mqttVars == <<link, up, down, splits, seqC, seqS, match, taken>>
coapVars == <<server, net, fan, changed>>
mainVars == <<ok, file, status>>
vars == <<pc, frames, mqttVars, coapVars, mainVars>>

\* The files of earlier runs are still there, those of interrupted runs included.
Init ==
    /\ pc = "dial" /\ link = "none" /\ up = <<>> /\ down = <<>> /\ splits = 0
    /\ frames = <<>> /\ seqC = 1000 /\ seqS = 5000 /\ match = "none"
    /\ server = "none" /\ net = {} /\ fan = "OFF" /\ changed = "none"
    /\ ok = [f \in Files |-> FALSE] /\ status = [f \in Files |-> "none"]
    /\ file \in [Files -> {"none", "old"}]
    /\ taken = {}

-----------------------------------------------------------------------------
(* capture_mqtt: the packets, as the script's constants make them. *)

ConnectPacket == MqttConnect(Text(26), Text(20), Text(7), 1, TRUE, 60)

PacketOf == [
    connect     |-> ConnectPacket,
    online      |-> MqttPublish(Text(20), Text(6), 0, 0, TRUE),
    temperature |-> MqttPublish(Text(25), Text(131), 1, 1, FALSE),
    vibration   |-> MqttPublish(Text(23), Text(131), 0, 0, FALSE),
    power       |-> MqttPublish(Text(19), Text(124), 2, 2, FALSE),
    pubrel      |-> MqttPubrel(2),
    disconnect  |-> MqttDisconnect]

\* A recorded packet of the client is named, a chunk of the broker kept as it is.
PacketFrame(p, seq, ack) == [from |-> "client", packet |-> p, seq |-> seq, ack |-> ack]
ChunkFrame(c, seq, ack)  == [from |-> "broker", chunk |-> c, seq |-> seq, ack |-> ack]

HandshakeFrame(side, syn, seq, ack) == [from |-> side, syn |-> syn, seq |-> seq, ack |-> ack]

\* The capture begins with a handshake that the script makes up.
Handshake == <<HandshakeFrame("client", TRUE, 999, 0), HandshakeFrame("broker", TRUE, 4999, 1000),
               HandshakeFrame("client", FALSE, 1000, 5000)>>

RecordPacket(p) ==
    /\ frames' = Append(frames, PacketFrame(p, seqC, seqS))
    /\ seqC' = seqC + Len(PacketOf[p]) /\ UNCHANGED seqS

\* Mutated form: the broker's sequence numbers stand still.
RecordChunkInPlace(c) ==
    frames' = Append(frames, ChunkFrame(c, seqS, seqC)) /\ UNCHANGED <<seqC, seqS>>

RecordChunk(c) ==
    /\ frames' = Append(frames, ChunkFrame(c, seqS, seqC))
    /\ seqS' = seqS + Len(c) /\ UNCHANGED seqC

Dial ==
    /\ pc = "dial"
    /\ pc' = "connect" /\ link' = "up" /\ frames' = Handshake
    /\ UNCHANGED <<up, down, splits, seqC, seqS, match, taken, coapVars, mainVars>>

DialFails ==
    /\ pc = "dial"
    /\ pc' = "build"
    /\ UNCHANGED <<frames, mqttVars, coapVars, mainVars>>

\* sendall and rec.  The first packet after the broker has closed is accepted, and
\* answered by a reset.  The socket is closed after DISCONNECT.
Send(p, next) ==
    /\ pc = p /\ link \in {"up", "closed"}
    /\ RecordPacket(p)
    /\ up' = IF link = "up" THEN Append(up, p) ELSE up
    /\ link' \in CASE p = "disconnect" -> {"none"} [] link = "up" -> {"up"}
                  [] OTHER -> {"closed", "reset"}
    /\ pc' = next
    /\ UNCHANGED <<down, splits, match, taken, coapVars, mainVars>>

SendConnect     == Send("connect", "connack")
SendOnline      == Send("online", "temperature")
SendTemperature == Send("temperature", "puback")
SendVibration   == Send("vibration", "power")
SendPower       == Send("power", "pubrec")
\* Mutated form: PUBREL is followed by the wait for PUBREC.
SendPubrelAgain == Send("pubrel", "pubrec")

SendPubrel      == Send("pubrel", "pubcomp")
SendDisconnect  == Send("disconnect", "openMqtt")

\* What recv(8) returns: at least one byte, or nothing once the broker has closed.
\* "reset" is an error that no handler of the script names.
Chunk(c) ==
    /\ link \in {"up", "closed"}
    /\ IF down = <<>>
       THEN link = "closed" /\ c = <<>> /\ UNCHANGED <<down, splits>>
       ELSE LET most == Min({8, Len(down)})
            IN  \E n \in 1..most :
                   /\ n < most => splits < MaxSplits
                   /\ splits' = IF n < most THEN splits + 1 ELSE splits
                   /\ c = SubSeq(down, 1, n)
                   /\ down' = SubSeq(down, n + 1, Len(down))

\* All that can be in the buffer is what Reply puts there: at most two answers.
Chunks == {SubSeq(down, 1, n) : n \in 0..Min({8, Len(down)})}

\* Mutated form: without CONNACK the file is written all the same.
OnConnackSavesAnyway ==
    /\ pc = "connack"
    /\ \E c \in Chunks :
          /\ Chunk(c)
          /\ IF c = <<>> THEN pc' = "openMqtt" /\ UNCHANGED <<frames, seqC, seqS>>
                         ELSE pc' = "online" /\ RecordChunk(c)
    /\ UNCHANGED <<link, up, match, taken, coapVars, mainVars>>

OnConnack ==
    /\ pc = "connack"
    /\ \E c \in Chunks :
          /\ Chunk(c)
          /\ IF c = <<>> \/ Head(c) # 32
             THEN pc' = "build" /\ link' = "none" /\ UNCHANGED <<frames, seqC, seqS>>
             ELSE pc' = "online" /\ UNCHANGED link /\ RecordChunk(c)
    /\ UNCHANGED <<up, match, taken, coapVars, mainVars>>

\* Mutated form: the answer is not looked at.
MatchesAnything(c) == Len(c) >= 2

Matches(c) == Len(c) >= 4 /\ U16At(c, 3) = 1

\* A chunk of one byte is recorded, and then indexed beyond its end.
OnPuback ==
    /\ pc = "puback"
    /\ \E c \in Chunks :
          /\ Chunk(c)
          /\ IF c = <<>> THEN pc' = "vibration" /\ UNCHANGED <<frames, seqC, seqS, match>>
             ELSE /\ RecordChunk(c)
                  /\ IF Len(c) = 1 THEN pc' = "dead" /\ UNCHANGED match
                     ELSE pc' = "vibration" /\ match' = IF Matches(c) THEN "YES" ELSE "NO"
    /\ UNCHANGED <<link, up, taken, coapVars, mainVars>>

\* The two answers of the QoS 2 exchange; what they are is not looked at.
OnAnswer(answer, next) ==
    /\ pc = answer
    /\ \E c \in Chunks :
          /\ Chunk(c)
          /\ IF c = <<>> THEN pc' = "disconnect" /\ UNCHANGED <<frames, seqC, seqS>>
                         ELSE pc' = next /\ RecordChunk(c)
    /\ UNCHANGED <<link, up, match, taken, coapVars, mainVars>>

OnPubrec  == OnAnswer("pubrec", "pubrel")
OnPubcomp == OnAnswer("pubcomp", "disconnect")

\* Mutated form: the socket has no timeout before the QoS 2 exchange.
RecvTimesOutLate ==
    /\ pc \in {"pubrec", "pubcomp"} /\ link = "up" /\ down = <<>>
    /\ pc' = "disconnect"
    /\ UNCHANGED <<frames, mqttVars, coapVars, mainVars>>

\* After five seconds without a byte recv raises socket.timeout, which is caught in
\* the QoS 2 exchange only.
RecvTimesOut ==
    /\ pc \in {"connack", "puback", "pubrec", "pubcomp"} /\ link = "up" /\ down = <<>>
    /\ pc' = IF pc \in {"pubrec", "pubcomp"} THEN "disconnect" ELSE "dead"
    /\ UNCHANGED <<frames, mqttVars, coapVars, mainVars>>

SocketRaises ==
    /\ link = "reset"
    /\ pc \in DOMAIN PacketOf \union {"connack", "puback", "pubrec", "pubcomp"}
    /\ pc' = "dead"
    /\ UNCHANGED <<frames, mqttVars, coapVars, mainVars>>

-----------------------------------------------------------------------------
(* The broker. *)

Replies(p) ==
    CASE p = "connect"     -> {<<32, 2, present, 0>> : present \in {0, 1}}
      [] p = "temperature" -> {<<64, 2, 0, 1>>}
      [] p = "power"       -> {<<80, 2, 0, 2>>}
      [] p = "pubrel"      -> {<<112, 2, 0, 2>>}
      [] OTHER             -> {<<>>}

BrokerTakes ==
    /\ link = "up" /\ up # <<>>
    /\ \E bytes \in Replies(Head(up)) : down' = down \o bytes
    /\ taken' = taken \union {Head(up)} /\ up' = Tail(up)
    /\ UNCHANGED <<pc, link, frames, splits, seqC, seqS, match, coapVars, mainVars>>

\* The script uses the publisher's client id: the broker closes its connection when
\* the publisher connects again.
BrokerCloses ==
    /\ link = "up"
    /\ link' = "closed" /\ up' = <<>>
    /\ UNCHANGED <<pc, frames, down, splits, seqC, seqS, match, taken, coapVars, mainVars>>

-----------------------------------------------------------------------------
(* capture_coap. *)

Asked    == {"get", "manifest", "put"}
Awaiting == [get |-> "getAnswer", manifest |-> "manifestAnswer", put |-> "putAnswer"]

Build ==
    /\ pc = "build"
    /\ server' = "up" /\ frames' = <<>> /\ pc' = "get"
    /\ UNCHANGED <<mqttVars, net, fan, changed, mainVars>>

\* Nothing catches the error of a port in use, or of a name that does not resolve.
BuildFails ==
    /\ pc = "build"
    /\ pc' = "dead"
    /\ UNCHANGED <<frames, mqttVars, coapVars, mainVars>>

\* The request is recorded and sent.
SendRequest ==
    /\ pc \in Asked
    /\ frames' = Append(frames, [from |-> "client", request |-> pc])
    /\ net' = net \union {[kind |-> "request", of |-> pc]}
    /\ pc' = Awaiting[pc]
    /\ UNCHANGED <<mqttVars, server, fan, changed, mainVars>>

\* The next datagram that arrives is the answer, whatever request it answers.
Answered(a) == [kind |-> "answer", of |-> a] \in net
RecordAnswer(a) ==
    /\ frames' = Append(frames, [from |-> "server", answer |-> a])
    /\ net' = net \ {[kind |-> "answer", of |-> a]}

OnGetAnswer ==
    /\ pc = "getAnswer"
    /\ \E a \in Asked : Answered(a) /\ RecordAnswer(a)
    /\ pc' = "manifest"
    /\ UNCHANGED <<mqttVars, server, fan, changed, mainVars>>

OnManifestAnswer ==
    /\ pc = "manifestAnswer"
    /\ \E a \in Asked : Answered(a) /\ RecordAnswer(a)
    /\ pc' = "put"
    /\ UNCHANGED <<mqttVars, server, fan, changed, mainVars>>

\* Mutated form: any answer will do.
VerdictOfAny(a) == "Changed"

CodePrinted == [get |-> <<2, 5>>, manifest |-> <<2, 5>>, put |-> <<2, 4>>]
Verdict(a)  == IF CodePrinted[a] = <<2, 4>> THEN "Changed" ELSE "other"

OnPutAnswer ==
    /\ pc = "putAnswer"
    /\ \E a \in Asked : Answered(a) /\ RecordAnswer(a) /\ changed' = Verdict(a)
    /\ pc' = "closeCoap"
    /\ UNCHANGED <<mqttVars, server, fan, mainVars>>

\* wait_for gives up; the answer, if there is one, stays where it is.
AnswerTimesOut ==
    /\ pc \in Range(Awaiting)
    /\ pc' = CASE pc = "getAnswer" -> "giveUp" [] pc = "manifestAnswer" -> "put"
               [] pc = "putAnswer" -> "closeCoap"
    /\ UNCHANGED <<frames, mqttVars, coapVars, mainVars>>

\* Both ends of the exchange: the socket is closed and the server shut down.
CloseCoap ==
    /\ pc \in {"closeCoap", "giveUp"}
    /\ server' = "down" /\ net' = {}
    /\ pc' = IF pc = "giveUp" THEN "openSynthetic" ELSE "openCoap"
    /\ UNCHANGED <<frames, mqttVars, fan, changed, mainVars>>

Serve ==
    /\ server = "up"
    /\ \E r \in Asked :
          /\ [kind |-> "request", of |-> r] \in net
          /\ net' = (net \ {[kind |-> "request", of |-> r]})
                        \union {[kind |-> "answer", of |-> r]}
          /\ fan' = IF r = "put" THEN "ON" ELSE fan
    /\ UNCHANGED <<pc, frames, mqttVars, server, changed, mainVars>>

Lose ==
    /\ \E d \in net : net' = net \ {d}
    /\ UNCHANGED <<pc, frames, mqttVars, server, fan, changed, mainVars>>

GetToken == <<163, 242, 158, 18, 180, 124, 1, 232>>
PutToken == <<177, 194, 211, 228, 245, 166, 183, 200>>
MsgGet   == 48340
MsgPut   == 48341
TemperaturePath == <<Text(7), Text(5), Text(11)>>
FanPath         == <<Text(8), Text(5), Text(3)>>

\* The packets of the file that is written when the server does not answer.
Synthetic == [
    get |-> <<72, 1, 188, 212>> \o GetToken \o <<183>> \o Text(7) \o <<5>> \o Text(5)
                \o <<11>> \o Text(11),
    answer       |-> <<104, 69, 188, 212>> \o GetToken \o <<193, 50, 255>> \o Text(60),
    notification |-> <<80, 69, 188, 213>> \o GetToken \o <<97, 1, 193, 50, 255>> \o Text(60),
    put          |-> CoapConPut(FanPath, PutToken, MsgPut, Text(15)),
    putAnswer    |-> <<104, 68, 188, 213>> \o PutToken \o <<255>> \o Text(15)]

-----------------------------------------------------------------------------
(* The files, and main. *)

\* What each step that opens a file writes, and where the script goes on.
Writing == [openMqtt      |-> [name |-> "mqtt", as |-> "new", then |-> "build"],
            openCoap      |-> [name |-> "coap", as |-> "new", then |-> "summary"],
            openSynthetic |-> [name |-> "coap", as |-> "synthetic", then |-> "summary"]]

\* open(..., "wb") empties the file.
Open ==
    /\ pc \in DOMAIN Writing /\ file[Writing[pc].name] # "partial"
    /\ file' = [file EXCEPT ![Writing[pc].name] = "partial"]
    /\ UNCHANGED <<pc, frames, mqttVars, coapVars, ok, status>>

Write ==
    /\ pc \in DOMAIN Writing /\ file[Writing[pc].name] = "partial"
    /\ LET w == Writing[pc]
       IN  file' = [file EXCEPT ![w.name] = w.as] /\ ok' = [ok EXCEPT ![w.name] = TRUE]
               /\ pc' = w.then
    /\ UNCHANGED <<frames, mqttVars, coapVars, status>>

\* Mutated form: only the sizes are looked at.
SummaryOfSizes ==
    /\ pc = "summary"
    /\ status' = [f \in Files |-> IF file[f] # "none" THEN "OK" ELSE "FAILED"]
    /\ pc' = "done"
    /\ UNCHANGED <<frames, mqttVars, coapVars, ok, file>>

Summary ==
    /\ pc = "summary"
    /\ status' = [f \in Files |-> IF ok[f] /\ file[f] # "none" THEN "OK" ELSE "FAILED"]
    /\ pc' = "done"
    /\ UNCHANGED <<frames, mqttVars, coapVars, ok, file>>

\* Ctrl-C, or a file that cannot be written: nothing is caught.
Die ==
    /\ pc \notin {"done", "dead"}
    /\ pc' = "dead"
    /\ UNCHANGED <<frames, mqttVars, coapVars, mainVars>>

-----------------------------------------------------------------------------
(* The specification. *)

Script ==
    \/ Dial \/ DialFails \/ SendConnect \/ OnConnack \/ SendOnline
    \/ SendTemperature \/ OnPuback \/ SendVibration
    \/ SendPower \/ OnPubrec \/ SendPubrel \/ OnPubcomp \/ SendDisconnect
    \/ RecvTimesOut \/ SocketRaises
    \/ Build \/ BuildFails \/ SendRequest
    \/ OnGetAnswer \/ OnManifestAnswer \/ OnPutAnswer \/ AnswerTimesOut \/ CloseCoap
    \/ Open \/ Write \/ Summary

Next == Script \/ BrokerTakes \/ BrokerCloses \/ Serve \/ Lose \/ Die

\* The script goes on as long as it can; the broker, the network and the server need
\* not.
Spec == Init /\ [][Next]_vars /\ WF_vars(Script)

-----------------------------------------------------------------------------
(* Properties of the packet formats, looked at before the first step. *)

Option(number, value) == [number |-> number, value |-> value]

\* What a reader of the standard makes of a CoAP packet: the number and the value
\* of each option (RFC 7252, section 3.1).
OptionAfter(pkt, read) ==
    LET i      == read.next
        wide   == IF pkt[i] \div 16 = 13 THEN 1 ELSE 0
        number == read.number + IF wide = 1 THEN 13 + pkt[i + 1] ELSE pkt[i] \div 16
        len    == IF pkt[i] % 16 = 13 THEN 13 + pkt[i + 1 + wide] ELSE pkt[i] % 16
        value  == i + 1 + wide + IF pkt[i] % 16 = 13 THEN 1 ELSE 0
    IN  [next |-> value + len, number |-> number,
         options |-> Append(read.options,
                            Option(number, SubSeq(pkt, value, value + len - 1)))]

OptionsOf(pkt) ==
    LET read[k \in 0..Len(pkt)] ==
          IF k = 0 THEN [next |-> 5 + (pkt[1] % 16), number |-> 0, options |-> <<>>]
          ELSE LET before == read[k - 1]
               IN  IF before.next > Len(pkt) \/ pkt[before.next] = 255 THEN before
                   ELSE OptionAfter(pkt, before)
    IN  read[Len(pkt)].options

PathOptions(path) == [i \in DOMAIN path |-> Option(UriPath, path[i])]

ObserveOptions(observe) ==
    IF observe = -1 THEN <<>>
    ELSE <<Option(Observe, IF observe = 0 THEN <<>> ELSE <<observe>>)>>

\* The greatest remaining length that MQTT allows.
MaxRemaining == 268435455

VarintsReadBack ==
    \A n \in Boundaries :
        /\ VarintAt(Varint(n), 1) = [value |-> n, next |-> Len(Varint(n)) + 1]
        /\ n <= MaxRemaining => Len(Varint(n)) <= 4
        /\ n > 0 => Last(Varint(n)) # 0

PublishesReadBack ==
    \A n, t \in Lengths, q \in 0..2, r \in BOOLEAN :
        LET pkt == MqttPublish(Text(t), Text(n), q, 258, r)
            ann == AnnotatePublish(pkt)
        IN  /\ ann.topic = Text(t) /\ ann.packetId = IF q = 0 THEN 0 ELSE 258
            /\ ann.remaining = Len(pkt) - 1 - Len(Varint(ann.remaining))
            /\ ann.fixed = 48 + 2 * q + (IF r THEN 1 ELSE 0)

ConnectsReadBack ==
    \A c, n \in Lengths, q \in 0..2, r \in BOOLEAN :
        LET pkt == MqttConnect(Text(c), Text(n), Text(7), q, r, 60)
            ann == AnnotateConnect(pkt)
        IN  /\ ann.cid = Text(c) /\ ann.keepalive = 60 /\ ann.version = 4
            /\ ann.remaining = Len(pkt) - 1 - Len(Varint(ann.remaining))
            /\ ann.flags = 4 + 8 * q + (IF r THEN 32 ELSE 0)

FramesReadBack ==
    \A n \in Lengths :
        /\ LET f == EthIpv4TcpFrame(Text(n), 1000, 5000)
           IN  f.ip.length - 20 - f.l4.size = n
        /\ \A f \in {EthIpv4UdpFrame(Text(n)), EthIpv6UdpFrame(Text(n))} :
               LET header    == IF f.ethertype = "IPv4" THEN 20 ELSE 40
                   ipPayload == f.ip.length - IF f.ethertype = "IPv4" THEN header ELSE 0
               IN  /\ ipPayload = f.l4.length /\ f.l4.length - 8 = n
                   /\ PcapRecord(f).captured = 14 + header + ipPayload

\* Every remaining length is read back, from at most four bytes and no more of them
\* than needed; the annotations of CONNECT and PUBLISH name the fields they were
\* built from, and the remaining length reaches exactly to the end of the packet
\* (annotate_connect, annotate_publish).  The payload of a frame is where a dissector
\* looks for it: the IP and UDP lengths, which count different headers for IPv4 and
\* IPv6, leave exactly the payload.
LengthsReadBack ==
    pc = "dial" => VarintsReadBack /\ PublishesReadBack /\ ConnectsReadBack /\ FramesReadBack

GetIsRead(path, observe) ==
    LET get == CoapConGet(path, GetToken, MsgGet, observe)
    IN  /\ OptionsOf(get) = ObserveOptions(observe) \o PathOptions(path)
        /\ AnnotateCoapGet(get) = [ver |-> 1, type |-> 0, tkl |-> 8, code |-> 1,
                                   msgId |-> MsgGet, token |-> GetToken]

PutIsRead(path) ==
    LET put == CoapConPut(path, PutToken, MsgPut, Text(15))
    IN  /\ OptionsOf(put) = Append(PathOptions(path), Option(12, <<50>>))
        /\ AnnotateCoapResponse(put).token = PutToken

SyntheticIsRead ==
    /\ Synthetic.get = CoapConGet(TemperaturePath, GetToken, MsgGet, -1)
    /\ AnnotateCoapResponse(Synthetic.answer) =
          [code |-> <<2, 5>>, msgId |-> AnnotateCoapGet(Synthetic.get).msgId, token |-> GetToken]
    /\ AnnotateCoapResponse(Synthetic.putAnswer) =
          [code |-> <<2, 4>>, msgId |-> AnnotateCoapGet(Synthetic.put).msgId, token |-> PutToken]
    /\ OptionsOf(Synthetic.answer) = <<Option(12, <<50>>)>>

\* A CoAP server reads the options the script meant out of every request whose path
\* segments have at most twelve characters, Observe before Uri-Path before
\* Content-Format; the header is annotated as built.  In the synthetic file the GET is
\* the one that would have been sent, and each answer has its request's token and
\* message id.  Nothing is said of the synthetic notification, whose header counts no
\* token byte (line 600).
RequestsParse ==
    pc = "dial" =>
        /\ \A a, b \in Lengths \intersect 1..12 :
              /\ \A observe \in -1..1 : GetIsRead(<<Text(a), Text(b)>>, observe)
              /\ PutIsRead(<<Text(a), Text(b)>>)
        /\ SyntheticIsRead

-----------------------------------------------------------------------------
(* Properties of the exchanges and of the files. *)

TypeOK ==
    /\ pc \in DOMAIN PacketOf \union Asked \union Range(Awaiting) \union DOMAIN Writing
             \union {"dial", "connack", "puback", "pubrec", "pubcomp", "build", "closeCoap",
                     "giveUp", "summary", "done", "dead"}
    /\ link \in {"none", "up", "closed", "reset"}
    /\ up \in Seq(DOMAIN PacketOf) /\ down \in Seq(0..255) /\ splits \in 0..MaxSplits
    /\ Len(frames) <= 14 /\ seqC \in Nat /\ seqS \in Nat /\ match \in {"none", "YES", "NO"}
    /\ server \in {"none", "up", "down"} /\ fan \in {"OFF", "ON"}
    /\ net \subseteq [kind : {"request", "answer"}, of : Asked]
    /\ changed \in {"none", "Changed", "other"} /\ ok \in [Files -> BOOLEAN]
    /\ file \in [Files -> {"none", "old", "partial", "new", "synthetic"}]
    /\ status \in [Files -> {"none", "OK", "FAILED"}] /\ taken \subseteq DOMAIN PacketOf

\* The bytes a frame takes of its stream; a SYN counts as one.
SizeOf(f) ==
    CASE "syn" \in DOMAIN f    -> IF f.syn THEN 1 ELSE 0
      [] "packet" \in DOMAIN f -> Len(PacketOf[f.packet])
      [] "chunk" \in DOMAIN f  -> Len(f.chunk)

\* The bytes that the first n of the frames fs take of one side's stream.
BytesOf(fs, n, side) ==
    LET sum[k \in 0..n] ==
          IF k = 0 THEN 0
          ELSE sum[k - 1] + (IF fs[k].from = side THEN SizeOf(fs[k]) ELSE 0)
    IN  sum[n]

\* Whatever is received, in whatever chunks, the frames reassemble into two gapless
\* streams, and each acknowledges all that the frames before it carry the other way
\* (rec, capture_mqtt).
StreamsReassemble ==
    server = "none" =>
        \A i \in DOMAIN frames :
            LET sent     == 999 + BytesOf(frames, i - 1, "client")
                received == 4999 + BytesOf(frames, i - 1, "broker")
            IN  <<frames[i].seq, frames[i].ack>> =
                    CASE i = 1                      -> <<sent, 0>>
                      [] frames[i].from = "broker" -> <<received, sent>>
                      [] OTHER                     -> <<sent, received>>

\* "Matches PUBLISH Packet ID: YES" is printed only once the broker has taken that
\* packet, even when recv returns a part of an answer and the rest of it is taken
\* for the next one.
MatchIsGenuine == match = "YES" => "temperature" \in taken

\* "Changed" is printed only if the fan of the server is on, though the datagram that
\* is taken for the answer to PUT may be a late answer to another request.
VerdictIsGenuine == changed = "Changed" => fan = "ON"

\* The summary says OK of the files that this run has written to their end, and of
\* no other, whatever earlier runs have left.
SummaryIsTruthful ==
    pc = "done" =>
        \A f \in Files : status[f] = "OK" <=> file[f] \in {"new", "synthetic"}

\* mqtt.pcap is emptied and written only after the exchange has been carried to its
\* last packet: one that fails leaves the earlier file alone.  coap.pcap is emptied
\* and written after every exchange that ends without an error: with the captured
\* packets when the GET was answered and the PUT has been sent, and otherwise, when
\* nothing answered the GET, with the synthetic ones, over an earlier capture too
\* (lines 515-520).
OnlyWholeExchangesAreSaved ==
    [][/\ file'["mqtt"] # file["mqtt"] =>
             Last(frames) = PacketFrame("disconnect", seqC - 2, seqS)
       /\ file'["coap"] # file["coap"] =>
             \/ file'["coap"] # "new" /\ frames = <<[from |-> "client", request |-> "get"]>>
             \/ /\ file'["coap"] # "synthetic"
                /\ frames[2] = [from |-> "server", answer |-> "get"]
                /\ \E i \in DOMAIN frames : frames[i] = [from |-> "client", request |-> "put"]
      ]_vars

\* The script ends, whatever the broker, the server and the network leave undone:
\* every wait has its bound.
Finishes == <>(pc \in {"done", "dead"})
=============================================================================
