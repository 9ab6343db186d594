----------------------------- MODULE MCTransport -----------------------------
(* Values for the constants of SensorNetwork.                                *)
EXTENDS SensorNetwork

CONSTANTS m10, temp, setup

\* mote-10 is a temperature sensor.
MCTypeOf == [d \in {m10} |-> temp]
=============================================================================
