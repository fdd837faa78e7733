--------------------------- MODULE MCAudioServer ---------------------------
(* Instances of AudioServer for TLC. *)
EXTENDS AudioServer, TLC

CONSTANTS stereo, mono

MC_Channels == stereo :> 2 @@ mono :> 1
=============================================================================
