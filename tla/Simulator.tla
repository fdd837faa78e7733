----------------------------- MODULE Simulator -----------------------------
(***************************************************************************)
(* SimulatorModule: makes a time chunk, gives it the time stamp it keeps,  *)
(* moves that time stamp on, and sleeps for the length of a chunk.         *)
(*                                                                         *)
(* Samples are left out.  A full buffer of the next module changes nothing *)
(* here, and the reporting thread only reads constants.                    *)
(***************************************************************************)
EXTENDS Integers, Sequences

CONSTANTS
  ChunkSize,    \* m_dChunkSize, in samples
  SampleRates,  \* the sample rates configured, in samples per unit of the clock
  FirstStamp,   \* the constant and the start-up delay the stamp starts from
  SleepModulus, \* width of the number the sleep is cast to, in units of the clock
  MaxTime,      \* bound: the clock
  MaxChunks     \* bound: chunks made

VARIABLES
  clock,      \* the system clock
  rate,       \* m_dSampleRate
  clockMode,  \* m_strClockMode
  stamp,      \* m_u64CurrentTimeStamp_us
  wake,       \* when the thread wakes up
  sent        \* history: the chunks, with their time stamp and when each was made

vars == <<clock, rate, clockMode, stamp, wake, sent>>

(* A fraction of a unit is cut off.                                        *)
ChunkPeriod == ChunkSize \div rate

(* A double that the unsigned can hold is cast to itself; the cast of one  *)
(* it cannot hold is undefined, and gives some number of that width.       *)
SleepPeriods ==
  IF ChunkPeriod < SleepModulus THEN {ChunkPeriod} ELSE 0..SleepModulus - 1

(* Any other mode is noticed with the first chunk, and ends the process.   *)
ClockModes == {"Clock", "Counter", "other"}

Init ==
  /\ clock \in 0..1 /\ rate \in SampleRates /\ clockMode \in ClockModes
  /\ stamp = FirstStamp /\ wake = clock /\ sent = <<>>

(* Mutant: the rate is inverted before it is multiplied.                   *)
CountTimestamp_Early == stamp + ChunkSize * (1 \div rate)

CountTimestamp == stamp + ChunkPeriod

GenerateClockTimestamp == clock

(* A turn of the thread, except in another mode.                           *)
Process ==
  /\ clockMode \in {"Clock", "Counter"} /\ wake <= clock /\ Len(sent) < MaxChunks
  /\ sent' = Append(sent, [stamp |-> stamp, at |-> clock])
  /\ stamp' = IF clockMode = "Clock" THEN GenerateClockTimestamp ELSE CountTimestamp
  /\ \E sleep \in SleepPeriods : wake' = clock + sleep
  /\ UNCHANGED <<clock, rate, clockMode>>

Tick == clock < MaxTime /\ clock' = clock + 1 /\ UNCHANGED <<rate, clockMode, stamp, wake, sent>>

Next == Process \/ Tick

Spec == Init /\ [][Next]_vars

-----------------------------------------------------------------------------
TypeOK ==
  /\ clock \in 0..MaxTime /\ rate \in SampleRates /\ clockMode \in ClockModes
  /\ stamp \in Nat /\ wake \in 0..MaxTime + ChunkPeriod
  /\ sent \in Seq([stamp : Nat, at : 0..MaxTime]) /\ Len(sent) <= MaxChunks

(* What a turn sleeps at the least.                                        *)
LeastSleep == IF ChunkPeriod < SleepModulus THEN ChunkPeriod ELSE 0

(* Counted from the first chunk's, the stamps fall behind the samples, by  *)
(* less than a unit for every chunk.  By the clock, the stamp of a chunk   *)
(* after the first is no later than when the chunk was made, and the       *)
(* stamps are in order; while the width of the sleep holds the length of a *)
(* chunk, that is by a chunk's length: the samples of a chunk ended before *)
(* it was made, and no two chunks overlap.  Of the first stamp nothing is  *)
(* said (SimulatorModule.cpp:94-113, 169-196).                             *)
StampsFollowSamples ==
  \A k \in 1..Len(sent) :
    \/ /\ clockMode = "Counter"
       /\ LET behind == (k - 1) * ChunkSize - (sent[k].stamp - sent[1].stamp) * rate
          IN  0 <= behind /\ behind <= (k - 1) * (rate - 1)
    \/ /\ clockMode = "Clock"
       /\ k > 1 => sent[k].stamp + LeastSleep <= sent[k].at
       /\ k > 2 => sent[k - 1].stamp + LeastSleep <= sent[k].stamp
=============================================================================
