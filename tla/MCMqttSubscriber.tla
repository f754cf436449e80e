-------------------------- MODULE MCMqttSubscriber --------------------------
(* MqttSubscriber on one line's status, temperature and vibration topics.    *)
EXTENDS MqttSubscriber

Message(t, b, q) == [topic |-> t, body |-> b, qos |-> q, retain |-> t = "status"]

\* "bytes" stands for a payload that is not UTF-8, "null" for one whose value is
\* not a number; any client of the broker may publish them.
MCFeed ==
    {Message("status", "online", 1), Message("temperature", "hot", 1),
     Message("temperature", "null", 1), Message("vibration", "normal", 0),
     Message("vibration", "bytes", 1)}
MCTempTopics   == {"temperature"}
MCStatusTopics == {"status"}
MCCritical     == {"hot"}
MCUndecodable  == {"bytes"}
MCMistyped     == {"null"}
=============================================================================
