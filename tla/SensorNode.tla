----------------------------- MODULE SensorNode -----------------------------
(***************************************************************************)
(* A node starts its pipeline with a module that makes chunks -- of a      *)
(* simulated signal, a sound card, recorded files or positions --, may     *)
(* have a RateLimitingModule in it and cuts chunks into segments.  These   *)
(* share no state with each other, so a behaviour of this specification is *)
(* one of any of them.                                                     *)
(***************************************************************************)
EXTENDS Integers, Sequences

CONSTANTS ChunkSize, SampleRates, FirstStamp, SleepModulus, RingSize, Files, MaxFixes,
          MaxPositions, Period, Modulus, MaxTime, MaxChunks, MaxReads, MaxSteps,
          HeaderSize, SizeModulus, MaxSize, MaxLength

ASSUME BoundsAssumption ==
  /\ {FirstStamp, MaxFixes, MaxPositions, Period, MaxTime, MaxChunks, MaxReads,
      MaxSteps, HeaderSize, MaxSize, MaxLength} \subseteq Nat
  /\ MaxTime > 0
ASSUME ChunkAssumption ==
  ChunkSize \in Nat \ {0} /\ SampleRates \subseteq Nat \ {0} /\ SleepModulus \in Nat \ {0}
ASSUME RingAssumption == RingSize \in Nat /\ ChunkSize < RingSize
(* A directory without a file ends the process in the constructor.         *)
ASSUME FilesAssumption ==
  Files # <<>> /\ Files \in Seq([frames : Nat, channels : Nat \ {0}])
ASSUME ModulusAssumption == Modulus \in Nat /\ Period <= MaxTime /\ Period + MaxTime < Modulus
ASSUME SizeModulusAssumption == SizeModulus \in Nat \ {0}

VARIABLES
  module,   \* which of them it is
  clock, stamp, sent,
  rate, clockMode, wake,
  stage, params, misused, overrun, unread, thread, chunk, recovered,
  index, current, info, position,
  simulate, connection, reports, fix, locked,
  last, steps, since, trusted,
  transmissionSize, length, transmitted, toTransmit, sessionSize, state

Sim == INSTANCE Simulator
Card == INSTANCE SoundCard
Reader == INSTANCE WAVReader
GPS == INSTANCE GPSInterface
Limiter == INSTANCE RateLimiting
Cutter == INSTANCE Segmenter

simulator == <<rate, clockMode, wake>>
card == <<stage, params, misused, overrun, unread, thread, chunk, recovered>>
reader == <<index, current, info, position>>
gps == <<simulate, connection, reports, fix, locked>>
limiter == <<last, steps, since, trusted>>
segmenter == <<transmissionSize, length, transmitted, toTransmit, sessionSize, state>>
vars == <<module, clock, stamp, sent, simulator, card, reader, gps, limiter, segmenter>>

(* The modules that the node does not have.                                *)
None == "none"
NoSimulator == rate = None /\ clockMode = None /\ wake = None
NoCard ==
  /\ stage = None /\ params = None /\ misused = None /\ overrun = None
  /\ unread = None /\ thread = None /\ chunk = None /\ recovered = None
NoReader == index = None /\ current = None /\ info = None /\ position = None
NoGPS == simulate = None /\ connection = None /\ reports = None /\ fix = None /\ locked = None
NoLimiter == last = None /\ steps = None /\ since = None /\ trusted = None
NoSegmenter ==
  /\ transmissionSize = None /\ length = None /\ transmitted = None
  /\ toTransmit = None /\ sessionSize = None /\ state = None

Init ==
  \/ /\ module = "simulator" /\ Sim!Init
     /\ NoCard /\ NoReader /\ NoGPS /\ NoLimiter /\ NoSegmenter
  \/ /\ module = "card" /\ Card!Init
     /\ NoSimulator /\ NoReader /\ NoGPS /\ NoLimiter /\ NoSegmenter
  \/ /\ module = "reader" /\ Reader!Init
     /\ clock = None /\ stamp = None
     /\ NoSimulator /\ NoCard /\ NoGPS /\ NoLimiter /\ NoSegmenter
  \/ /\ module = "gps" /\ GPS!Init
     /\ clock = None /\ stamp = None
     /\ NoSimulator /\ NoCard /\ NoReader /\ NoLimiter /\ NoSegmenter
  \/ /\ module = "limiter" /\ Limiter!Init
     /\ stamp = None /\ sent = None
     /\ NoSimulator /\ NoCard /\ NoReader /\ NoGPS /\ NoSegmenter
  \/ /\ module = "segmenter" /\ Cutter!Init
     /\ clock = None /\ stamp = None
     /\ NoSimulator /\ NoCard /\ NoReader /\ NoGPS /\ NoLimiter

Simulate ==
  /\ module = "simulator" /\ Sim!Next
  /\ UNCHANGED <<module, card, reader, gps, limiter, segmenter>>

Capture ==
  /\ module = "card" /\ Card!Next
  /\ UNCHANGED <<module, simulator, reader, gps, limiter, segmenter>>

Play ==
  /\ module = "reader" /\ Reader!Next
  /\ UNCHANGED <<module, clock, stamp, simulator, card, gps, limiter, segmenter>>

Locate ==
  /\ module = "gps" /\ GPS!Next
  /\ UNCHANGED <<module, clock, stamp, simulator, card, reader, limiter, segmenter>>

Limit ==
  /\ module = "limiter" /\ Limiter!Next
  /\ UNCHANGED <<module, stamp, sent, simulator, card, reader, gps, segmenter>>

Cut ==
  /\ module = "segmenter" /\ Cutter!Next
  /\ UNCHANGED <<module, clock, stamp, simulator, card, reader, gps, limiter>>

Next == Simulate \/ Capture \/ Play \/ Locate \/ Limit \/ Cut

Spec == Init /\ [][Next]_vars

-----------------------------------------------------------------------------
TypeOK ==
  /\ module = "simulator" => Sim!TypeOK
  /\ module = "card" => Card!TypeOK
  /\ module = "reader" => Reader!TypeOK
  /\ module = "gps" => GPS!TypeOK
  /\ module = "limiter" => Limiter!TypeOK
  /\ module = "segmenter" => Cutter!TypeOK

(* The time stamps of simulated chunks keep to the samples: counted, they  *)
(* fall behind by a fraction of a unit per chunk; by the clock, they are   *)
(* in order, and no chunk after the first overlaps another as long as the  *)
(* sleep's width holds its length (SimulatorModule.cpp:94-113, 169-196).   *)
StampsFollowSamples == module = "simulator" => Sim!StampsFollowSamples

(* The time stamp of a captured chunk is from when its first frame was in  *)
(* the ring, or from before an overrun (SoundCardInterfaceModule.cpp:31-124). *)
StampsCaptured == module = "card" => Card!StampsCaptured

(* Files are played in turn, each from its start and without a gap         *)
(* (WAVReaderModule.cpp:12-44).                                            *)
PlayedInTurn == module = "reader" => Reader!PlayedInTurn

(* Positions called locked come in a fix that is, and positions are never  *)
(* passed on out of order, over failed reads and new connections           *)
(* (GPSInterfaceModule.cpp:69-103).                                        *)
LockedPositionsFixed == module = "gps" => GPS!LockedPositionsFixed

(* As long as the clock is not set, exactly what comes within a period is  *)
(* held; a clock set back behind the last chunk does not hold the next one *)
(* (RateLimitingModule.cpp:8-22).                                          *)
LimitedByTime == module = "limiter" => Limiter!LimitedByTime

(* The segments of a chunk cover its bytes, whatever the lengths, unless   *)
(* the 16 bits of their size leave no room (ChunkToBytesModule.cpp:41-92). *)
SegmentsCover == module = "segmenter" => Cutter!SegmentsCover
=============================================================================
