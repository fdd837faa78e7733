-------------------------- MODULE MCTimeChunkSync --------------------------
(* Instances of TimeChunkSync for TLC: two to four sources that record one *)
(* sample per tick, or two of which the first records two.                 *)
EXTENDS TimeChunkSync

MC_SourcesTwo == 1..2
MC_SourcesThree == 1..3
MC_SourcesFour == 1..4

MC_OneRate == [s \in Sources |-> 1]
MC_TwoRates == [s \in Sources |-> IF s = 1 THEN 2 ELSE 1]
=============================================================================
