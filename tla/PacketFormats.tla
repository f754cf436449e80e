---------------------------- MODULE PacketFormats ----------------------------
(***************************************************************************)
(* The packets and frames that scripts/generate_captures.py builds byte by  *)
(* byte, and the functions that read them back for the annotations.  A      *)
(* packet is a sequence of bytes, counted from 1; a text only matters by    *)
(* its length.  A frame keeps the fields of its headers that say how long   *)
(* it is and where its bytes stand in the stream.                           *)
(***************************************************************************)
EXTENDS Integers, Sequences, SequencesExt, FiniteSetsExt

\* Python's | and & of two bytes (Bitwise.tla declares its operators RECURSIVE, which
\* would put the modules that build on this one out of the proof system's reach).
Weights      == {1, 2, 4, 8, 16, 32, 64, 128}
Bit(n, w)    == (n \div w) % 2 = 1
ByteOf(bits) ==
    LET worth(w) == IF w \in bits THEN w ELSE 0
    IN  worth(1) + worth(2) + worth(4) + worth(8) + worth(16) + worth(32) + worth(64) + worth(128)
BitOr(a, b)  == ByteOf({w \in Weights : Bit(a, w) \/ Bit(b, w)})
BitAnd(a, b) == ByteOf({w \in Weights : Bit(a, w) /\ Bit(b, w)})

Text(n) == [i \in 1..n |-> 120]

\* What a field of two bytes can count.
Short        == 0..65535
U16(n)       == <<n \div 256, n % 256>>
U16At(pkt, i) == 256 * pkt[i] + pkt[i + 1]

-----------------------------------------------------------------------------
(* MQTT. *)

\* Mutated form: a byte that another one follows is not marked.
VarintUnmarked(n) ==
    LET out[k \in Nat] == IF k < 128 THEN <<k>> ELSE <<k % 128>> \o out[k \div 128]
    IN  out[n]

Varint(n) ==
    LET out[k \in Nat] == IF k < 128 THEN <<k>> ELSE <<BitOr(k % 128, 128)>> \o out[k \div 128]
    IN  out[n]

\* The varint that begins at byte i: its value, and where the next field begins.
VarintAt(pkt, i) ==
    LET last == CHOOSE j \in i..Len(pkt) : pkt[j] < 128 /\ \A k \in i..(j - 1) : pkt[k] >= 128
        rem[j \in i..last] == BitAnd(pkt[j], 127) + IF j = last THEN 0 ELSE 128 * rem[j + 1]
    IN  [value |-> rem[i], next |-> last + 1]

\* A field of variable length, preceded by its length.
Sized(bytes) == U16(Len(bytes)) \o bytes

WithLength(type, body) == <<type>> \o Varint(Len(body)) \o body

MqttConnect(clientId, willTopic, willPayload, willQos, willRetain, keepalive) ==
    LET flags == BitOr(BitOr(4, 8 * BitAnd(willQos, 3)), IF willRetain THEN 32 ELSE 0)
    IN  WithLength(16, Sized(Text(4)) \o <<4, flags>> \o U16(keepalive)
                           \o Sized(clientId) \o Sized(willTopic) \o Sized(willPayload))

MqttPublish(topic, payload, qos, packetId, retain) ==
    WithLength(BitOr(48, BitOr(2 * qos, IF retain THEN 1 ELSE 0)),
               Sized(topic) \o (IF qos > 0 THEN U16(packetId) ELSE <<>>) \o payload)

MqttPubrel(packetId) == <<98, 2>> \o U16(packetId)
MqttDisconnect       == <<224, 0>>

AnnotateConnect(pkt) ==
    LET length == VarintAt(pkt, 2)
        name   == U16At(pkt, length.next)
        ver    == length.next + 2 + name
        cid    == U16At(pkt, ver + 4)
    IN  [fixed |-> pkt[1], remaining |-> length.value, nameLen |-> name, version |-> pkt[ver],
         flags |-> pkt[ver + 1], keepalive |-> U16At(pkt, ver + 2), cidLen |-> cid,
         cid |-> SubSeq(pkt, ver + 6, ver + 5 + cid)]

AnnotatePublish(pkt) ==
    LET length == VarintAt(pkt, 2)
        topic  == U16At(pkt, length.next)
        id     == length.next + 2 + topic
    IN  [fixed |-> pkt[1], remaining |-> length.value, topicLen |-> topic,
         topic |-> SubSeq(pkt, length.next + 2, id - 1),
         packetId |-> IF BitAnd(pkt[1] \div 2, 3) > 0 THEN U16At(pkt, id) ELSE 0]

-----------------------------------------------------------------------------
(* CoAP. *)

Observe == 6
UriPath == 11

\* The head of an option: four bits of delta and four of length.
OptionHead(delta, len) ==
    IF delta <= 12 THEN <<BitOr(16 * delta, len)>> ELSE <<BitOr(208, len), delta - 13>>

\* Mutated form: the number of the option before is not kept.
CoapOptionsAbsolute(segments, observe) ==
    LET value == IF observe > 0 THEN <<observe>> ELSE <<>>
    IN  (IF observe = -1 THEN <<>> ELSE OptionHead(Observe, Len(value)) \o value)
            \o FlattenSeq([i \in DOMAIN segments |->
                              OptionHead(UriPath, Len(segments[i])) \o segments[i]])

\* An observe of -1 stands for None.
CoapOptions(segments, observe) ==
    LET before  == IF observe = -1 THEN 0 ELSE Observe
        value   == IF observe > 0 THEN <<observe>> ELSE <<>>
        path    == [i \in DOMAIN segments |->
                       OptionHead(UriPath - (IF i = 1 THEN before ELSE UriPath),
                                  Len(segments[i])) \o segments[i]]
    IN  (IF observe = -1 THEN <<>> ELSE OptionHead(Observe, Len(value)) \o value)
            \o FlattenSeq(path)

Request(code, token, msgId) == <<BitOr(64, Len(token)), code>> \o U16(msgId) \o token

CoapConGet(path, token, msgId, observe) ==
    Request(1, token, msgId) \o CoapOptions(path, observe)

\* The option after the path is Content-Format 50.
CoapConPut(path, token, msgId, payload) ==
    Request(3, token, msgId) \o CoapOptions(path, -1) \o <<17, 50, 255>> \o payload

AnnotateCoapGet(pkt) ==
    LET tkl == BitAnd(pkt[1], 15)
    IN  [ver |-> BitAnd(pkt[1] \div 64, 3), type |-> BitAnd(pkt[1] \div 16, 3), tkl |-> tkl,
         code |-> pkt[2], msgId |-> U16At(pkt, 3), token |-> SubSeq(pkt, 5, 4 + tkl)]

\* A code is a class and a detail.
CodeOf(pkt) == <<pkt[2] \div 32, BitAnd(pkt[2], 31)>>

AnnotateCoapResponse(pkt) ==
    [code |-> CodeOf(pkt), msgId |-> U16At(pkt, 3), token |-> SubSeq(pkt, 5, 4 + BitAnd(pkt[1], 15))]

-----------------------------------------------------------------------------
(* Frames. *)

Ipv4Hdr(proto, payloadLen) == [version |-> 4, next |-> proto, length |-> 20 + payloadLen]
Ipv6Hdr(next, payloadLen)  == [version |-> 6, next |-> next, length |-> payloadLen]

TcpHdr(seq, ack) == [size |-> 20, seq |-> seq, ack |-> ack]
UdpHdr(payloadLen) == [size |-> 8, length |-> 8 + payloadLen]

EthIpv4TcpFrame(payload, seq, ack) ==
    LET tcp == TcpHdr(seq, ack)
    IN  [ethertype |-> "IPv4", ip |-> Ipv4Hdr(6, tcp.size + Len(payload)), l4 |-> tcp,
         payload |-> payload]

EthIpv4UdpFrame(payload) ==
    LET udp == UdpHdr(Len(payload))
    IN  [ethertype |-> "IPv4", ip |-> Ipv4Hdr(17, udp.size + Len(payload)), l4 |-> udp,
         payload |-> payload]

EthIpv6UdpFrame(payload) ==
    LET udp == UdpHdr(Len(payload))
    IN  [ethertype |-> "IPv6", ip |-> Ipv6Hdr(17, udp.size + Len(payload)), l4 |-> udp,
         payload |-> payload]

FrameSize(f) == 14 + (IF f.ip.version = 4 THEN 20 ELSE 40) + f.l4.size + Len(f.payload)

\* The lengths of the record before the frame in the file: captured and original.
PcapRecord(f) == [captured |-> FrameSize(f), original |-> FrameSize(f), frame |-> f]
=============================================================================
