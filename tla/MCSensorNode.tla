---------------------------- MODULE MCSensorNode ----------------------------
(* Instances of SensorNode for TLC: two files of one channel, one of two,  *)
(* and chunks of three units of the clock or of one and a half, of which   *)
(* the sleep can hold one whole unit.                                      *)
EXTENDS SensorNode

MC_Files ==
  <<[frames |-> 7, channels |-> 1], [frames |-> 12, channels |-> 2], [frames |-> 3, channels |-> 1]>>
=============================================================================
