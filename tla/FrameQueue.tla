----------------------------- MODULE FrameQueue -----------------------------
(***************************************************************************)
(* What a TCP pair promises for one connection: frames come out as they    *)
(* were put in, in order, each once.  A send that is cut short ends the    *)
(* promise for the frames after it, not for those before.                  *)
(***************************************************************************)
EXTENDS Naturals, Sequences

VARIABLES
  put,     \* frames put in, numbered from one
  sound,   \* how many of them are covered by the promise
  got      \* what came out: the number of a frame, 0 for anything else

queueVars == <<put, sound, got>>

QueueInit == put = 0 /\ sound = 0 /\ got = <<>>

Put == put' = put + 1 /\ sound' = (IF sound = put THEN put' ELSE sound) /\ UNCHANGED got

PutBroken == put' = put + 1 /\ UNCHANGED <<sound, got>>

Get ==
  /\ \E frame \in 0..put :
       /\ Len(got) < sound => frame = Len(got) + 1
       /\ got' = Append(got, frame)
  /\ UNCHANGED <<put, sound>>

QueueNext == Put \/ PutBroken \/ Get

QueueSpec == QueueInit /\ [][QueueNext]_queueVars
=============================================================================
