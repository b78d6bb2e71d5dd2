--------------------------- MODULE MCInstanceBus --------------------------
(* Two instances, one message for all beside one for the agent, and an      *)
(* agent that moves between the instances.                                  *)
EXTENDS InstanceBus

CONSTANTS i1, i2, m1, m2
=============================================================================
