---------------------------- MODULE MCSensorNode ----------------------------
(* An instance of SensorNode for TLC. *)
EXTENDS SensorNode

MCOrder == <<"battery", "gps">>
MCInterval == [s \in Sensors |-> IF s = "battery" THEN 1 ELSE 2]
MCFlaky == {"battery"}
=============================================================================
