-------------------------- MODULE MCMqttPublisher --------------------------
(* MqttPublisher on two small instances.  The statuses have QoS 1.           *)
EXTENDS MqttPublisher

\* Two lines, a sensor of QoS 2: one run of the process.
MCLines   == <<"line1", "line2">>
MCSensors == <<"power">>
MCQos     == [power |-> 2]

\* One line, a sensor of QoS 0 and one of QoS 2, and two starts of the process: what
\* a restart finds at the broker.
MCOneLine    == <<"line1">>
MCTwoSensors == <<"vibration", "power">>
MCTwoQos     == [vibration |-> 0, power |-> 2]
=============================================================================
