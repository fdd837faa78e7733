----------------------------- MODULE SoundCard -----------------------------
(***************************************************************************)
(* SoundCardInterfaceModule: sets up a capture device and reads chunks of  *)
(* frames from it.  The device captures a frame with every unit of the     *)
(* clock into a ring; when the ring is full it stops ("overrun").          *)
(*                                                                         *)
(* A frame is the time it was captured at.  Chunks dropped at a full       *)
(* buffer, the conversion of frames to channels and the reporting thread   *)
(* are left out.                                                           *)
(***************************************************************************)
EXTENDS Integers, Sequences

CONSTANTS
  ChunkSize,   \* m_dChunkSize, in frames
  RingSize,    \* buffer_size, in frames
  MaxTime,     \* bound: the clock
  MaxChunks    \* bound: chunks read

VARIABLES
  clock,      \* the system clock
  stage,      \* how far InitALSA is; "run" after it, "exit" when the process ended
  params,     \* m_hw_params: "unset", "allocated", or "freed"
  misused,    \* Cleanup freed what was not allocated
  overrun,    \* the ring is full and the device stopped
  unread,     \* the oldest frame in the ring, when it was or will be captured
  thread,     \* what the thread does next
  stamp,      \* m_u64CurrentTimeStamp
  chunk,      \* m_pTimeChunk: its first frame
  recovered,  \* history: the device was started anew since the last chunk
  sent        \* history: chunks passed on

device == <<overrun, unread>>
setup == <<stage, params, misused>>
reader == <<thread, stamp, chunk, recovered, sent>>
vars == <<clock, setup, device, reader>>

(* The time stamp is not initialised.                                      *)
Unset == -1

Init ==
  /\ clock = 0
  /\ stage = "open" /\ params = "unset" /\ misused = FALSE
  /\ overrun = FALSE /\ unread = 0
  /\ thread = "wait" /\ stamp = Unset /\ chunk = 0 /\ recovered = FALSE /\ sent = <<>>

-----------------------------------------------------------------------------
(* InitALSA.  Nine calls that set parameters stand in it as one.           *)

Stages == <<"open", "allocate", "configure", "free", "prepare", "start", "run">>
Position(s) == CHOOSE i \in 1..Len(Stages) : Stages[i] = s

Start == overrun' = FALSE /\ unread' = clock + 1

Call ==
  /\ stage \notin {"run", "exit"}
  /\ stage' = Stages[Position(stage) + 1]
  /\ params' = CASE stage = "allocate" -> "allocated" [] stage = "free" -> "freed" [] OTHER -> params
  /\ IF stage = "start" THEN Start ELSE UNCHANGED device
  /\ UNCHANGED <<clock, misused, reader>>

(* Cleanup frees the parameters by a pointer that is set only by their     *)
(* allocation and not reset when they are freed.                           *)
Cleanup ==
  CASE params = "unset" -> misused' \in BOOLEAN
    [] params = "allocated" -> misused' = FALSE
    [] params = "freed" -> misused' = TRUE

FailCall ==
  /\ stage \in {"open", "allocate", "configure", "prepare", "start"}
  /\ stage' = "exit"
  /\ IF stage = "start" THEN UNCHANGED <<params, misused>> ELSE Cleanup /\ params' = "freed"
  /\ UNCHANGED <<clock, device, reader>>

-----------------------------------------------------------------------------
(* The device.                                                             *)

Available == clock - unread + 1

Tick ==
  /\ clock < MaxTime /\ clock' = clock + 1
  /\ overrun' = (overrun \/ (stage = "run" /\ Available = RingSize))
  /\ UNCHANGED <<setup, unread, reader>>

-----------------------------------------------------------------------------
(* Process.                                                                *)

(* Mutant: the frames of one chunk are enough.                             *)
EnoughAvailable_Exactly == Available >= ChunkSize

(* More than a chunk must be there.                                        *)
EnoughAvailable == Available > ChunkSize

(* UpdatePCMSamples up to the end of its loop.                             *)
WaitForFrames ==
  /\ stage = "run" /\ thread = "wait"
  /\ ~overrun /\ EnoughAvailable
  /\ thread' = "read"
  /\ UNCHANGED <<clock, setup, device, stamp, chunk, recovered, sent>>

(* An overrun is an error in the loop, and ends the process.               *)
ExitInWait ==
  /\ stage = "run" /\ thread = "wait" /\ overrun
  /\ stage' = "exit"
  /\ UNCHANGED <<clock, params, misused, device, reader>>

ReadFrames ==
  /\ stage = "run" /\ thread = "read" /\ ~overrun /\ Len(sent) < MaxChunks
  /\ chunk' = unread /\ unread' = unread + ChunkSize
  /\ thread' = "stamp"
  /\ UNCHANGED <<clock, setup, overrun, stamp, recovered, sent>>

(* Only in the read itself the device is started anew.                     *)
FailRead ==
  /\ stage = "run" /\ thread = "read" /\ overrun
  /\ Start
  /\ recovered' = TRUE
  /\ thread' = "wait"
  /\ UNCHANGED <<clock, setup, stamp, chunk, sent>>

UpdateTimeStampMetaData == [first |-> chunk, stamp |-> stamp, recovered |-> recovered]

UpdateTimeStamp == stamp' = clock

(* The chunk is passed on with the time stamp taken after the one before.  *)
PassChunk ==
  /\ stage = "run" /\ thread = "stamp"
  /\ sent' = Append(sent, UpdateTimeStampMetaData)
  /\ UpdateTimeStamp
  /\ recovered' = FALSE /\ thread' = "wait"
  /\ UNCHANGED <<clock, setup, device, chunk>>

Next ==
  \/ Call \/ FailCall \/ Tick
  \/ WaitForFrames \/ ExitInWait \/ ReadFrames \/ FailRead \/ PassChunk

Spec == Init /\ [][Next]_vars

-----------------------------------------------------------------------------
Time == 0..MaxTime

TypeOK ==
  /\ clock \in Time /\ stage \in {Stages[i] : i \in 1..Len(Stages)} \cup {"exit"}
  /\ params \in {"unset", "allocated", "freed"} /\ misused \in BOOLEAN
  /\ overrun \in BOOLEAN /\ unread \in 0..MaxTime + 1
  /\ thread \in {"wait", "read", "stamp"}
  /\ stamp \in {Unset} \cup Time /\ chunk \in Time /\ recovered \in BOOLEAN
  /\ sent \in Seq([first : Time, stamp : {Unset} \cup Time, recovered : BOOLEAN])

(* A chunk has the time stamp of the end of the read before it.  That is   *)
(* never before its first frame was captured, because more frames than a   *)
(* chunk's were there, and within a ring's length of it; but the first     *)
(* chunk read after a recovered overrun has one from before the overrun,   *)
(* so that the frames lost show only one chunk later                       *)
(* (SoundCardInterfaceModule.cpp:31-49, 76-94, 112-124).                   *)
StampsCaptured ==
  \A i \in 2..Len(sent) :
    IF sent[i].recovered
      THEN sent[i].stamp < sent[i].first
      ELSE sent[i].stamp - sent[i].first \in 0..RingSize - 1
=============================================================================
