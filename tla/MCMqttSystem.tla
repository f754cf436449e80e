---------------------------- MODULE MCMqttSystem ----------------------------
(* MqttSystem with one line and one sensor of QoS 1.                         *)
EXTENDS MqttSystem

MCLines   == <<"line1">>
MCSensors == <<"temperature">>
MCQos     == [temperature |-> 1]
=============================================================================
