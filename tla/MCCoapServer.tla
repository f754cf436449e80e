---------------------------- MODULE MCCoapServer ----------------------------
(* CoapServer with two of its sensors, and with all that it registers.       *)
EXTENDS CoapServer

MCTwoSensors == {<<"line1", "temperature">>, <<"line2", "temperature">>}

\* The pairs of lines 198-207.
MCSensors == {<<"line1", "temperature">>, <<"line1", "vibration">>,
              <<"line1", "power">>, <<"line2", "temperature">>}
=============================================================================
