---------------------------- MODULE MCMqttClient ----------------------------
(***************************************************************************)
(* MqttClient on a small instance: one telemetry message of one byte and   *)
(* one of two, against a cap of two bytes, and a broker statistic.         *)
(***************************************************************************)
EXTENDS MqttClient

MCMessage == {"s", "m", "sys"}
MCPayloadBytes == [s |-> 0, m |-> 1, sys |-> 0]
MCIsBroker == [s |-> FALSE, m |-> FALSE, sys |-> TRUE]
=============================================================================
