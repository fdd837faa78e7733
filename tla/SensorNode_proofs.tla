------------------------- MODULE SensorNode_proofs -------------------------
(***************************************************************************)
(* Theorems about SensorNode, for chunks of any size, any rates, bounds    *)
(* and widths.  Each module has an inductive invariant of its own, about   *)
(* its INSTANCE, which no step of another module is there to disturb.      *)
(***************************************************************************)
EXTENDS SensorNode, SequenceTheorems, TLAPS

LEMMA Constants ==
  /\ ChunkSize \in Nat \ {0} /\ SampleRates \subseteq Nat \ {0} /\ FirstStamp \in Nat
  /\ SleepModulus \in Nat \ {0}
  /\ MaxFixes \in Nat /\ MaxPositions \in Nat /\ MaxTime \in Nat \ {0}
  /\ MaxChunks \in Nat /\ MaxReads \in Nat /\ MaxSteps \in Nat
  /\ Period \in Nat /\ Modulus \in Nat /\ Period <= MaxTime /\ Period + MaxTime < Modulus
  /\ HeaderSize \in Nat /\ SizeModulus \in Nat \ {0} /\ MaxSize \in Nat /\ MaxLength \in Nat
BY BoundsAssumption, ChunkAssumption, ModulusAssumption, SizeModulusAssumption

-----------------------------------------------------------------------------
(* Numbers modulo a width.                                                 *)

LEMMA ModSmall ==
  ASSUME NEW m \in Nat \ {0}, NEW a \in 0..m - 1
  PROVE  a % m = a
OBVIOUS

LEMMA ModNegative ==
  ASSUME NEW m \in Nat \ {0}, NEW a \in Int, -m <= a, a < 0
  PROVE  a % m = a + m
<1>1. a + m \in 0..m - 1
  OBVIOUS
<1>2. a % m = (a + m) % m
  OBVIOUS
<1> QED  BY <1>1, <1>2, ModSmall

-----------------------------------------------------------------------------
(* The limiter.  While nobody sets the clock, the time since the last      *)
(* chunk is the difference of the two times.                               *)

Age == IF clock - last < Period THEN clock - last ELSE Period

LimiterInv ==
  /\ clock \in 0..MaxTime /\ last \in 0..MaxTime
  /\ since \in 0..Period /\ trusted \in BOOLEAN
  /\ trusted => last <= clock /\ since = Age

LEMMA LimiterInit == Limiter!Init => LimiterInv
<1> SUFFICES ASSUME Limiter!Init PROVE LimiterInv
  OBVIOUS
<1>1. clock \in 0..MaxTime /\ last \in 0..MaxTime /\ since \in 0..Period
  BY Constants DEF Limiter!Init
<1>2. ~trusted /\ trusted \in BOOLEAN
  BY Zenon DEF Limiter!Init
<1> QED  BY <1>1, <1>2, Zenon DEF LimiterInv

LEMMA LimiterStep == LimiterInv /\ Limiter!Next => LimiterInv'
<1> SUFFICES ASSUME LimiterInv, Limiter!Next PROVE LimiterInv'
  OBVIOUS
<1>1. CASE Limiter!PassChunk
  <2>1. clock' \in 0..MaxTime /\ last' = clock' /\ since' = 0
    BY Constants, <1>1 DEF LimiterInv, Limiter!PassChunk
  <2>2. trusted' \in BOOLEAN
    BY <1>1, Zenon DEF Limiter!PassChunk
  <2>3. last' \in 0..MaxTime /\ since' \in 0..Period /\ last' <= clock'
    BY Constants, <2>1
  <2>4. since' = Age'
    <3>1. \A c \in 0..MaxTime : (IF c - c < Period THEN c - c ELSE Period) = 0
      BY Constants
    <3> QED  BY <2>1, <3>1, Zenon DEF Age
  <2> QED  BY <2>1, <2>2, <2>3, <2>4, Zenon DEF LimiterInv
<1>2. CASE Limiter!HoldChunk
  BY <1>2 DEF LimiterInv, Age, Limiter!HoldChunk, Limiter!vars
<1>3. CASE Limiter!Tick
  BY Constants, <1>3 DEF LimiterInv, Age, Limiter!Tick
<1>4. CASE Limiter!SetClock
  <2>1. clock' \in 0..MaxTime /\ last' \in 0..MaxTime /\ since' \in 0..Period
    BY Constants, <1>4 DEF LimiterInv, Limiter!SetClock
  <2>2. ~trusted' /\ trusted' \in BOOLEAN
    BY <1>4, Zenon DEF Limiter!SetClock
  <2> QED  BY <2>1, <2>2, Zenon DEF LimiterInv
<1> QED  BY <1>1, <1>2, <1>3, <1>4 DEF Limiter!Next

LEMMA LimiterImplied == LimiterInv => Limiter!LimitedByTime
<1> SUFFICES ASSUME LimiterInv PROVE Limiter!LimitedByTime
  OBVIOUS
<1>1. clock \in Nat /\ last \in Nat /\ clock <= MaxTime /\ last <= MaxTime /\ Modulus \in Nat \ {0}
  BY Constants DEF LimiterInv
<1>2. ASSUME last <= clock PROVE Limiter!Elapsed = clock - last
  <2>1. clock - last \in 0..Modulus - 1
    BY Constants, <1>1, <1>2
  <2> QED  BY <1>1, <2>1, ModSmall DEF Limiter!Elapsed
<1>3. ASSUME clock < last PROVE Limiter!Elapsed = clock - last + Modulus
  <2>1. clock - last \in Int /\ -Modulus <= clock - last /\ clock - last < 0
    BY Constants, <1>1, <1>3
  <2> QED  BY <1>1, <2>1, ModNegative DEF Limiter!Elapsed
<1>4. ASSUME trusted PROVE Limiter!Due <=> since >= Period
  BY Constants, <1>1, <1>2, <1>4 DEF LimiterInv, Age, Limiter!Due
<1>5. ASSUME clock < last PROVE Limiter!Due
  BY Constants, <1>1, <1>3, <1>5 DEF Limiter!Due
<1> QED  BY <1>4, <1>5 DEF Limiter!LimitedByTime

(* For any period: as long as the clock is not set, exactly the chunks     *)
(* that come within a period of the last one passed on are held; and       *)
(* behind a clock set back the next chunk is passed on, so that it never   *)
(* silences a source (RateLimitingModule.cpp:8-22).                        *)
THEOREM AlwaysLimitedByTime == Spec => []LimitedByTime
<1> DEFINE IInv == module = "limiter" => LimiterInv
<1>1. Init => IInv
  BY LimiterInit DEF Init
<1>2. IInv /\ [Next]_vars => IInv'
  <2> SUFFICES ASSUME IInv, [Next]_vars, module' = "limiter" PROVE LimiterInv'
    OBVIOUS
  <2>1. CASE Limit
    BY <2>1, LimiterStep DEF Limit
  <2>2. CASE UNCHANGED vars
    BY <2>2 DEF vars, limiter, LimiterInv, Age
  <2> QED  BY <2>1, <2>2 DEF Next, Simulate, Capture, Play, Locate, Cut
<1>3. IInv => LimitedByTime
  BY LimiterImplied DEF LimitedByTime
<1> QED  BY <1>1, <1>2, <1>3, PTL DEF Spec

-----------------------------------------------------------------------------
(* GPS.  The fix the handler works on is the last one of gpsd, or none.    *)

Positions == [locked : BOOLEAN, number : Nat]

(* No position passed on came after number n.                              *)
Latest(n) == \A m \in 1..Len(sent) : n = 0 \/ sent[m].number <= n

GPSInv ==
  ~simulate =>
    /\ reports \in Seq(BOOLEAN) /\ Len(reports) <= MaxFixes
    /\ fix \in [number : 0..Len(reports), valid : BOOLEAN]
    /\ fix.valid => fix.number > 0 /\ reports[fix.number]
    /\ sent \in Seq(Positions)
    /\ \A n \in 1..Len(sent) :
         /\ sent[n].number <= Len(reports)
         /\ sent[n].locked => sent[n].number > 0 /\ reports[sent[n].number]
         /\ \A m \in 1..n - 1 : sent[n].number = 0 \/ sent[m].number <= sent[n].number
    /\ Latest(fix.number)

LEMMA GPSInit == GPS!Init => GPSInv
BY Constants DEF GPS!Init, GPS!NoFix, GPSInv, Latest

(* What the handler does with a fix that fits gpsd's reports.              *)
LEMMA GPSTransmit ==
  ASSUME GPSInv, simulate' = simulate, NEW f, GPS!Transmit(f),
         reports' \in Seq(BOOLEAN), Len(reports) <= Len(reports'), Len(reports') <= MaxFixes,
         \A n \in 1..Len(reports) : reports'[n] = reports[n],
         f \in [number : 0..Len(reports'), valid : BOOLEAN],
         f.valid => f.number > 0 /\ reports'[f.number],
         ~simulate => Latest(f.number)
  PROVE  GPSInv'
<1> SUFFICES ASSUME ~simulate PROVE GPSInv'
  BY DEF GPSInv
<1>1. /\ reports \in Seq(BOOLEAN) /\ sent \in Seq(Positions) /\ Latest(f.number)
      /\ f.number \in Nat /\ f.valid \in BOOLEAN
  BY DEF GPSInv
<1> DEFINE p == [locked |-> f.valid, number |-> f.number]
<1>2. fix' = f /\ sent' = Append(sent, p)
  BY DEF GPS!Transmit, GPS!Lock
<1>3. p \in Positions /\ p.locked = f.valid /\ p.number = f.number
  BY <1>1 DEF Positions
<1> HIDE DEF p
<1>4. sent' \in Seq(Positions) /\ Len(sent') = Len(sent) + 1 /\ sent'[Len(sent) + 1] = p
  BY <1>1, <1>2, <1>3
<1>5. \A n \in 1..Len(sent) : sent'[n] = sent[n]
  BY <1>1, <1>2
<1>6. Len(sent) \in Nat /\ Len(reports) \in Nat /\ Len(reports') \in Nat
  BY <1>1
<1>7. ASSUME NEW n \in 1..Len(sent')
      PROVE  /\ sent'[n].number <= Len(reports')
             /\ sent'[n].locked => sent'[n].number > 0 /\ reports'[sent'[n].number]
             /\ \A m \in 1..n - 1 : sent'[n].number = 0 \/ sent'[m].number <= sent'[n].number
  <2>1. CASE n = Len(sent) + 1
    <3>1. \A m \in 1..n - 1 : f.number = 0 \/ sent'[m].number <= f.number
      BY <1>1, <1>5, <1>6, <2>1 DEF Latest
    <3> QED  BY <1>3, <1>4, <1>6, <2>1, <3>1
  <2>2. CASE n \in 1..Len(sent)
    <3>1. sent'[n] = sent[n] /\ \A m \in 1..n - 1 : sent'[m] = sent[m]
      BY <1>5, <1>6, <2>2
    <3>2. sent[n] \in Positions
      BY <1>1, <2>2
    <3>3. sent[n].number \in Nat /\ sent[n].number <= Len(reports)
      BY <2>2, <3>2 DEF GPSInv, Positions
    <3>4. sent[n].locked => sent[n].number > 0 /\ reports[sent[n].number]
      BY <2>2 DEF GPSInv
    <3>5. \A m \in 1..n - 1 : sent[n].number = 0 \/ sent[m].number <= sent[n].number
      BY <2>2 DEF GPSInv
    <3>6. sent[n].number > 0 => reports'[sent[n].number] = reports[sent[n].number]
      BY <1>6, <3>3
    <3> QED  BY <1>6, <3>1, <3>3, <3>4, <3>5, <3>6
  <2> QED  BY <1>4, <1>6, <2>1, <2>2
<1>8. Latest(fix.number)'
  BY <1>1, <1>2, <1>3, <1>4, <1>5, <1>6 DEF Latest
<1> QED  BY <1>2, <1>4, <1>7, <1>8 DEF GPSInv

LEMMA GPSStep == GPSInv /\ GPS!Next => GPSInv'
<1> SUFFICES ASSUME GPSInv, GPS!Next PROVE GPSInv'
  OBVIOUS
<1>1. CASE GPS!TryOpenGPSInterface \/ GPS!FailRead
  BY <1>1 DEF GPS!TryOpenGPSInterface, GPS!FailRead, GPSInv, Latest
<1>2. CASE GPS!ReadFix
  <2>1. PICK valid \in BOOLEAN :
          /\ reports' = Append(reports, valid)
          /\ GPS!Transmit([number |-> Len(reports'), valid |-> valid])
    BY <1>2 DEF GPS!ReadFix
  <2>2. /\ ~simulate /\ simulate' = simulate /\ Len(reports) < MaxFixes
        /\ reports \in Seq(BOOLEAN) /\ Len(reports) \in Nat
    BY <1>2 DEF GPS!ReadFix, GPSInv
  <2>3. /\ reports' \in Seq(BOOLEAN) /\ Len(reports') = Len(reports) + 1
        /\ \A n \in 1..Len(reports) : reports'[n] = reports[n]
        /\ reports'[Len(reports')] = valid
    BY <2>1, <2>2
  <2>4. Latest(Len(reports'))
    <3>1. \A m \in 1..Len(sent) : sent[m] \in Positions /\ sent[m].number <= Len(reports)
      BY <2>2 DEF GPSInv
    <3> QED  BY <2>2, <2>3, <3>1 DEF Latest, Positions
  <2> DEFINE f == [number |-> Len(reports'), valid |-> valid]
  <2>5. f \in [number : 0..Len(reports'), valid : BOOLEAN]
    BY <2>2, <2>3
  <2>6. f.number = Len(reports') /\ f.valid = valid
    OBVIOUS
  <2>7. f.valid => f.number > 0 /\ reports'[f.number]
    <3>1. f.number > 0
      BY <2>2, <2>3, <2>6
    <3>2. reports'[f.number] = f.valid
      BY <2>3, <2>6, Zenon
    <3> QED  BY <3>1, <3>2, Zenon
  <2>8. Len(reports) <= Len(reports') /\ Len(reports') <= MaxFixes
    BY Constants, <2>2, <2>3
  <2>9. GPS!Transmit(f) /\ Latest(f.number)
    BY <2>1, <2>4
  <2> HIDE DEF f
  <2> QED  BY <2>2, <2>3, <2>5, <2>7, <2>8, <2>9, GPSTransmit
<1>3. CASE GPS!ReadOther \/ GPS!Reopen
  <2>1. PICK f \in {fix, GPS!NoFix} : GPS!Transmit(f)
    BY <1>3 DEF GPS!ReadOther, GPS!Reopen
  <2>2. reports' = reports /\ simulate' = simulate
    BY <1>3 DEF GPS!ReadOther, GPS!Reopen
  <2>3. CASE ~simulate
    <3>1. reports \in Seq(BOOLEAN) /\ Len(reports) \in Nat /\ Len(reports) <= MaxFixes
      BY <2>3 DEF GPSInv
    <3>2. f \in [number : 0..Len(reports), valid : BOOLEAN]
      <4>1. fix \in [number : 0..Len(reports), valid : BOOLEAN]
        BY <2>3 DEF GPSInv
      <4>2. GPS!NoFix \in [number : 0..Len(reports), valid : BOOLEAN]
        <5>1. 0 \in 0..Len(reports) /\ FALSE \in BOOLEAN
          BY <3>1
        <5> QED  BY <5>1, Zenon DEF GPS!NoFix
      <4> QED  BY <2>1, <4>1, <4>2
    <3>3. Latest(f.number) /\ (f.valid => f.number > 0 /\ reports[f.number])
      BY <2>1, <2>3 DEF GPSInv, GPS!NoFix, Latest
    <3> QED  BY <2>1, <2>2, <2>3, <3>1, <3>2, <3>3, GPSTransmit
  <2>4. CASE simulate
    BY <2>2, <2>4 DEF GPSInv
  <2> QED  BY <2>3, <2>4
<1>4. CASE GPS!TrySimulatedPositionData
  BY <1>4 DEF GPS!TrySimulatedPositionData, GPSInv
<1> QED  BY <1>1, <1>2, <1>3, <1>4 DEF GPS!Next

LEMMA GPSImplied == GPSInv => GPS!LockedPositionsFixed
<1> SUFFICES ASSUME GPSInv, ~simulate, NEW n \in 1..Len(sent)
             PROVE  /\ sent[n].locked => sent[n].number > 0 /\ reports[sent[n].number]
                    /\ \A m \in 1..n - 1 : sent[n].number \in {0} \cup sent[m].number..MaxFixes
  BY DEF GPS!LockedPositionsFixed
<1>1. \A m \in 1..Len(sent) : sent[m].number \in Nat /\ sent[m].number <= MaxFixes
  <2>1. sent \in Seq(Positions) /\ Len(reports) \in Nat /\ Len(reports) <= MaxFixes
    BY DEF GPSInv
  <2>2. ASSUME NEW m \in 1..Len(sent) PROVE sent[m].number \in Nat
    <3>1. sent[m] \in Positions
      BY <2>1
    <3> QED  BY <3>1 DEF Positions
  <2> QED  BY Constants, <2>1, <2>2 DEF GPSInv
<1>2. n \in Nat /\ \A m \in 1..n - 1 : m \in 1..Len(sent)
  BY DEF GPSInv
<1>3. \A m \in 1..n - 1 : sent[n].number = 0 \/ sent[m].number <= sent[n].number
  BY DEF GPSInv
<1>4. \A m \in 1..n - 1 : sent[n].number \in {0} \cup sent[m].number..MaxFixes
  BY Constants, <1>1, <1>2, <1>3
<1> QED  BY <1>4 DEF GPSInv

(* Through failed reads, new connections and messages without a fix, no    *)
(* position is called locked that gpsd did not give one, and none is older *)
(* than one before it (GPSInterfaceModule.cpp:69-103).                     *)
THEOREM LockedPositionsAlwaysFixed == Spec => []LockedPositionsFixed
<1> DEFINE IInv == module = "gps" => GPSInv
<1>1. Init => IInv
  BY GPSInit DEF Init
<1>2. IInv /\ [Next]_vars => IInv'
  <2> SUFFICES ASSUME IInv, [Next]_vars, module' = "gps" PROVE GPSInv'
    OBVIOUS
  <2>1. CASE Locate
    BY <2>1, GPSStep DEF Locate
  <2>2. CASE UNCHANGED vars
    BY <2>2 DEF vars, gps, GPSInv, Latest
  <2> QED  BY <2>1, <2>2 DEF Next, Simulate, Capture, Play, Limit, Cut
<1>3. IInv => LockedPositionsFixed
  BY GPSImplied DEF LockedPositionsFixed
<1> QED  BY <1>1, <1>2, <1>3, PTL DEF Spec

-----------------------------------------------------------------------------
(* The simulator.  A chunk is made no sooner than the sleep of the one     *)
(* before it is over, which is its length if the sleep's width holds that. *)

SimulatedChunks == [stamp : Nat, at : Nat]

CounterStamps ==
  /\ stamp = FirstStamp + Len(sent) * Sim!ChunkPeriod
  /\ \A k \in 1..Len(sent) : sent[k].stamp = FirstStamp + (k - 1) * Sim!ChunkPeriod

ClockStamps ==
  /\ stamp = IF sent = <<>> THEN FirstStamp ELSE sent[Len(sent)].at
  /\ \A k \in 1..Len(sent) : sent[k].stamp = IF k = 1 THEN FirstStamp ELSE sent[k - 1].at

SimulatorInv ==
  /\ clock \in Nat /\ wake \in Nat /\ stamp \in Nat /\ sent \in Seq(SimulatedChunks)
  /\ rate \in Nat \ {0}
  /\ \A k \in 1..Len(sent) :
       sent[k].at + Sim!LeastSleep <= IF k = Len(sent) THEN wake ELSE sent[k + 1].at
  /\ clockMode = "Counter" => CounterStamps
  /\ clockMode = "Clock" => ClockStamps
  /\ clockMode \notin {"Counter", "Clock"} => sent = <<>>

LEMMA ChunkPeriodType ==
  ASSUME rate \in Nat \ {0}
  PROVE  Sim!ChunkPeriod \in Nat /\ Sim!LeastSleep \in Nat
<1>1. Sim!ChunkPeriod \in Nat
  BY Constants DEF Sim!ChunkPeriod
<1> QED  BY <1>1 DEF Sim!LeastSleep

(* The sleep is at the least LeastSleep, whatever an overflow gives.       *)
LEMMA SleepsEnough ==
  ASSUME rate \in Nat \ {0}, NEW sleep \in Sim!SleepPeriods
  PROVE  sleep \in Nat /\ Sim!LeastSleep <= sleep /\ sleep <= Sim!ChunkPeriod
<1>1. Sim!ChunkPeriod \in Nat /\ SleepModulus \in Nat \ {0}
  BY ChunkPeriodType, Constants
<1> QED  BY <1>1 DEF Sim!SleepPeriods, Sim!LeastSleep

LEMMA SameRate ==
  ASSUME rate' = rate
  PROVE  Sim!ChunkPeriod' = Sim!ChunkPeriod /\ Sim!LeastSleep' = Sim!LeastSleep
BY DEF Sim!ChunkPeriod, Sim!LeastSleep

LEMMA SimulatorInit == Sim!Init => SimulatorInv
<1> SUFFICES ASSUME Sim!Init PROVE SimulatorInv
  OBVIOUS
<1>1. sent = <<>> /\ Len(sent) = 0 /\ stamp = FirstStamp
  BY DEF Sim!Init
<1>2. rate \in Nat \ {0}
  BY Constants DEF Sim!Init
<1>3. 0 * Sim!ChunkPeriod = 0
  BY <1>2, ChunkPeriodType
<1>4. CounterStamps /\ ClockStamps
  BY Constants, <1>1, <1>3 DEF CounterStamps, ClockStamps
<1>5. clock \in Nat /\ wake \in Nat /\ stamp \in Nat
  BY Constants DEF Sim!Init
<1> QED  BY <1>2, <1>1, <1>4, <1>5 DEF SimulatorInv

(* What Process appends.                                                   *)
LEMMA SimulatorProcess ==
  ASSUME SimulatorInv, Sim!Process
  PROVE  SimulatorInv'
<1> DEFINE c == [stamp |-> stamp, at |-> clock]
           n == Len(sent)
<1>1. /\ clock \in Nat /\ wake \in Nat /\ stamp \in Nat /\ sent \in Seq(SimulatedChunks)
      /\ n \in Nat /\ rate \in Nat \ {0} /\ wake <= clock
  BY DEF SimulatorInv, Sim!Process
<1>2. Sim!ChunkPeriod \in Nat /\ Sim!LeastSleep \in Nat
  BY <1>1, ChunkPeriodType
<1>3. c \in SimulatedChunks /\ c.stamp = stamp /\ c.at = clock
  BY <1>1 DEF SimulatedChunks
<1>4. sent' = Append(sent, c) /\ UNCHANGED <<clock, rate, clockMode>>
  BY DEF Sim!Process
<1>5. wake' \in Nat /\ clock + Sim!LeastSleep <= wake'
  <2>1. PICK sleep \in Sim!SleepPeriods : wake' = clock + sleep
    BY DEF Sim!Process
  <2> QED  BY <1>2, <1>1, <2>1, SleepsEnough
<1> HIDE DEF c
<1>6. /\ sent' \in Seq(SimulatedChunks) /\ Len(sent') = n + 1 /\ sent'[n + 1] = c
      /\ \A k \in 1..n : sent'[k] = sent[k]
  BY <1>1, <1>3, <1>4
<1>7. \A k \in 1..n : sent[k].at \in Nat /\ sent[k].stamp \in Nat
  <2> SUFFICES ASSUME NEW k \in 1..n PROVE sent[k].at \in Nat /\ sent[k].stamp \in Nat
    OBVIOUS
  <2>1. sent[k] \in SimulatedChunks
    BY <1>1
  <2> QED  BY <2>1 DEF SimulatedChunks
<1>8. ASSUME NEW k \in 1..n + 1
      PROVE  sent'[k].at + Sim!LeastSleep <= IF k = n + 1 THEN wake' ELSE sent'[k + 1].at
  <2>1. CASE k = n + 1
    BY <1>3, <1>6, <1>5, <2>1
  <2>2. CASE k \in 1..n
    <3>1. sent[k].at + Sim!LeastSleep <= IF k = n THEN wake ELSE sent[k + 1].at
      BY <2>2 DEF SimulatorInv
    <3>2. sent'[k + 1] = IF k = n THEN c ELSE sent[k + 1]
      BY <1>1, <1>6, <2>2
    <3> QED  BY <1>2, <1>1, <1>3, <1>6, <1>7, <2>2, <3>1, <3>2
  <2> QED  BY <1>1, <2>1, <2>2
<1>9. ASSUME clockMode = "Counter" PROVE CounterStamps'
  <2>1. CounterStamps /\ stamp' = stamp + Sim!ChunkPeriod
    BY <1>9 DEF SimulatorInv, Sim!Process, Sim!CountTimestamp
  <2>2. (n + 1) * Sim!ChunkPeriod = n * Sim!ChunkPeriod + Sim!ChunkPeriod /\ n * Sim!ChunkPeriod \in Nat
    BY <1>2, <1>1
  <2>3. stamp' = FirstStamp + (n + 1) * Sim!ChunkPeriod
    BY Constants, <1>2, <1>1, <2>1, <2>2 DEF CounterStamps
  <2>4. ASSUME NEW k \in 1..n + 1 PROVE sent'[k].stamp = FirstStamp + (k - 1) * Sim!ChunkPeriod
    <3>1. CASE k = n + 1
      <4>1. k - 1 = n
        BY <1>1, <3>1
      <4> QED  BY <1>3, <1>6, <2>1, <3>1, <4>1 DEF CounterStamps
    <3>2. CASE k \in 1..n
      BY <1>6, <2>1, <3>2 DEF CounterStamps
    <3> QED  BY <1>1, <3>1, <3>2
  <2>5. Sim!ChunkPeriod' = Sim!ChunkPeriod
    BY <1>4, SameRate
  <2> QED  BY <1>6, <2>3, <2>4, <2>5 DEF CounterStamps
<1>10. ASSUME clockMode = "Clock" PROVE ClockStamps'
  <2>1. ClockStamps /\ stamp' = clock
    BY <1>10 DEF SimulatorInv, Sim!Process, Sim!GenerateClockTimestamp
  <2>2. sent' # <<>> /\ stamp' = sent'[Len(sent')].at
    BY <1>1, <1>3, <1>6, <2>1
  <2>3. sent = <<>> <=> n = 0
    BY <1>1
  <2>4. ASSUME NEW k \in 1..n + 1
        PROVE  sent'[k].stamp = IF k = 1 THEN FirstStamp ELSE sent'[k - 1].at
    <3>1. CASE k = n + 1
      <4>1. sent'[k].stamp = IF n = 0 THEN FirstStamp ELSE sent[n].at
        BY <1>3, <1>6, <2>1, <2>3, <3>1 DEF ClockStamps
      <4>2. n # 0 => sent'[k - 1] = sent[n]
        BY <1>1, <1>6, <3>1
      <4>3. k = 1 <=> n = 0
        BY <1>1, <3>1
      <4> QED  BY <4>1, <4>2, <4>3
    <3>2. CASE k \in 1..n
      <4>1. sent'[k].stamp = IF k = 1 THEN FirstStamp ELSE sent[k - 1].at
        BY <1>6, <2>1, <3>2 DEF ClockStamps
      <4>2. k # 1 => sent'[k - 1] = sent[k - 1]
        BY <1>1, <1>6, <3>2
      <4> QED  BY <4>1, <4>2
    <3> QED  BY <1>1, <3>1, <3>2
  <2> QED  BY <1>6, <2>2, <2>4 DEF ClockStamps
<1>11. clockMode' \in {"Clock", "Counter"}
  BY DEF Sim!Process
<1>12. clock' \in Nat /\ stamp' \in Nat /\ rate' \in Nat \ {0}
  BY <1>2, <1>1, <1>4 DEF Sim!Process, Sim!GenerateClockTimestamp, Sim!CountTimestamp
<1>13. Sim!LeastSleep' = Sim!LeastSleep
  BY <1>4, SameRate
<1> HIDE DEF n
<1> QED  BY <1>4, <1>6, <1>8, <1>9, <1>10, <1>11, <1>12, <1>13, <1>5 DEF SimulatorInv

LEMMA SimulatorStep == SimulatorInv /\ Sim!Next => SimulatorInv'
<1> SUFFICES ASSUME SimulatorInv, Sim!Tick PROVE SimulatorInv'
  BY SimulatorProcess DEF Sim!Next
<1>1. clock' \in Nat /\ UNCHANGED <<rate, clockMode, stamp, wake, sent>>
  BY DEF SimulatorInv, Sim!Tick
<1>2. Sim!ChunkPeriod' = Sim!ChunkPeriod /\ Sim!LeastSleep' = Sim!LeastSleep
  BY <1>1, SameRate
<1> QED  BY <1>1, <1>2 DEF SimulatorInv, CounterStamps, ClockStamps

(* What is cut off a chunk's length is less than a unit, each time.        *)
LEMMA CutOff ==
  ASSUME NEW n \in Nat, rate \in Nat \ {0}
  PROVE  LET behind == n * ChunkSize - (n * Sim!ChunkPeriod) * rate
         IN  0 <= behind /\ behind <= n * (rate - 1)
<1> DEFINE rest == ChunkSize - Sim!ChunkPeriod * rate
<1>1. rest \in 0..rate - 1 /\ rate - 1 \in Nat
  BY Constants DEF Sim!ChunkPeriod
<1>2. n * ChunkSize - (n * Sim!ChunkPeriod) * rate = n * rest
  BY Constants, ChunkPeriodType
<1> HIDE DEF rest
<1>3. 0 <= n * rest /\ n * rest <= n * (rate - 1)
  BY <1>1
<1> QED  BY <1>2, <1>3

LEMMA SimulatorImplied == SimulatorInv => Sim!StampsFollowSamples
<1> SUFFICES ASSUME SimulatorInv, NEW k \in 1..Len(sent)
             PROVE
    \/ /\ clockMode = "Counter"
       /\ LET behind == (k - 1) * ChunkSize - (sent[k].stamp - sent[1].stamp) * rate
          IN  0 <= behind /\ behind <= (k - 1) * (rate - 1)
    \/ /\ clockMode = "Clock"
       /\ k > 1 => sent[k].stamp + Sim!LeastSleep <= sent[k].at
       /\ k > 2 => sent[k - 1].stamp + Sim!LeastSleep <= sent[k].stamp
  BY DEF Sim!StampsFollowSamples, Sim!LeastSleep, Sim!ChunkPeriod
<1>1. rate \in Nat \ {0}
  BY DEF SimulatorInv
<1>2. /\ Len(sent) \in Nat /\ Sim!ChunkPeriod \in Nat /\ Sim!LeastSleep \in Nat
      /\ k \in Nat /\ k - 1 \in Nat /\ 1 \in 1..Len(sent)
  BY <1>1, ChunkPeriodType DEF SimulatorInv
<1>3. CASE clockMode = "Counter"
  <2>1. sent[k].stamp = FirstStamp + (k - 1) * Sim!ChunkPeriod
    BY <1>3 DEF SimulatorInv, CounterStamps
  <2>2. sent[1].stamp = FirstStamp
    <3>1. sent[1].stamp = FirstStamp + 0 * Sim!ChunkPeriod
      BY <1>2, <1>3 DEF SimulatorInv, CounterStamps
    <3> QED  BY Constants, <1>2, <3>1
  <2>3. sent[k].stamp - sent[1].stamp = (k - 1) * Sim!ChunkPeriod
    <3>1. (k - 1) * Sim!ChunkPeriod \in Nat
      BY <1>2
    <3> QED  BY Constants, <2>1, <2>2, <3>1
  <2> QED  BY <1>1, <1>2, <1>3, <2>3, CutOff
<1>4. CASE clockMode = "Clock"
  <2>1. \A i \in 1..Len(sent) : sent[i].stamp = IF i = 1 THEN FirstStamp ELSE sent[i - 1].at
    BY <1>4 DEF SimulatorInv, ClockStamps
  <2>2. \A i \in 1..Len(sent) : i # Len(sent) => sent[i].at + Sim!LeastSleep <= sent[i + 1].at
    BY DEF SimulatorInv
  <2>3. k > 1 => k - 1 \in 1..Len(sent) /\ k - 1 # Len(sent) /\ (k - 1) + 1 = k
    BY <1>2
  <2>4. k > 2 => k - 2 \in 1..Len(sent) /\ k - 2 # Len(sent) /\ (k - 2) + 1 = k - 1 /\ (k - 1) - 1 = k - 2
    BY <1>2
  <2>5. k > 1 => sent[k - 1].at + Sim!LeastSleep <= sent[k].at
    BY <2>2, <2>3
  <2>6. k > 2 => sent[k - 2].at + Sim!LeastSleep <= sent[k - 1].at
    BY <2>2, <2>4
  <2>7. k > 2 => sent[k - 1].stamp = sent[k - 2].at
    BY <1>2, <2>1, <2>3, <2>4
  <2>8. k > 1 => sent[k].stamp = sent[k - 1].at
    BY <1>2, <2>1
  <2> QED  BY <1>2, <1>4, <2>1, <2>5, <2>6, <2>7, <2>8
<1>5. clockMode \in {"Counter", "Clock"}
  BY DEF SimulatorInv
<1> QED  BY <1>3, <1>4, <1>5

(* For any chunk size, any rates and any width of the sleep: time stamps   *)
(* counted from the first chunk's fall behind the samples by less than a   *)
(* unit per chunk and never run ahead of them; by the clock, the stamps    *)
(* after the first are in order, and as long as the width holds the length *)
(* of a chunk, none is stamped into the one before it.  The cast of a      *)
(* longer one is undefined and may give any sleep                          *)
(* (SimulatorModule.cpp:94-113, 169-196).                                  *)
THEOREM StampsAlwaysFollow == Spec => []StampsFollowSamples
<1> DEFINE IInv == module = "simulator" => SimulatorInv
<1>1. Init => IInv
  BY SimulatorInit DEF Init
<1>2. IInv /\ [Next]_vars => IInv'
  <2> SUFFICES ASSUME IInv, [Next]_vars, module' = "simulator" PROVE SimulatorInv'
    OBVIOUS
  <2>1. CASE Simulate
    BY <2>1, SimulatorStep DEF Simulate
  <2>2. CASE UNCHANGED vars
    <3>1. /\ UNCHANGED <<module, clock, rate, clockMode, stamp, wake, sent>>
          /\ Sim!ChunkPeriod' = Sim!ChunkPeriod /\ Sim!LeastSleep' = Sim!LeastSleep
      BY <2>2, SameRate DEF vars, simulator
    <3> QED  BY <3>1 DEF SimulatorInv, CounterStamps, ClockStamps
  <2> QED  BY <2>1, <2>2 DEF Next, Capture, Play, Locate, Limit, Cut
<1>3. IInv => StampsFollowSamples
  BY SimulatorImplied DEF StampsFollowSamples
<1> QED  BY <1>1, <1>2, <1>3, PTL DEF Spec

-----------------------------------------------------------------------------
(* The sizes of segments.  Room is what a segment of the size that is left *)
(* of the one asked for holds, and may be negative.                        *)

Overhead == Cutter!Overhead
Room == Cutter!EffectiveSize - Overhead
Segments == [from : Nat, bytes : Nat, size : Nat]

(* The i-th segment, where there is room in one.                           *)
FitSegment(i) ==
  /\ sent[i].from = (i - 1) * Room
  /\ sent[i].bytes = IF i * Room <= length THEN Room ELSE length - (i - 1) * Room
  /\ sent[i].bytes > 0 /\ sent[i].size = sent[i].bytes + Overhead

Fitting ==
  /\ \A i \in 1..Len(sent) : FitSegment(i)
  /\ state \in {"transmitting", "done"}
  /\ state = "transmitting" =>
       /\ toTransmit = Room /\ sessionSize = Cutter!EffectiveSize
       /\ transmitted = Len(sent) * Room /\ transmitted < length
  /\ state = "done" => Len(sent) * Room >= length

Spinning ==
  /\ state = "transmitting" /\ toTransmit = 0 /\ transmitted = 0
  /\ sessionSize = Cutter!EffectiveSize
  /\ \A i \in 1..Len(sent) : sent[i].bytes = 0

SegmenterInv ==
  /\ transmissionSize \in Nat /\ length \in Nat \ {0}
  /\ transmitted \in Nat /\ toTransmit \in Nat /\ sessionSize \in Nat
  /\ sent \in Seq(Segments)
  /\ Room > 0 => Fitting
  /\ Room = 0 => Spinning

LEMMA RoomType ==
  ASSUME transmissionSize \in Nat
  PROVE  /\ Overhead \in Nat /\ Overhead >= 2 /\ Room \in Int
         /\ Cutter!EffectiveSize \in 0..SizeModulus - 1
         /\ Room >= 0 => Room \in 0..SizeModulus - 1
         /\ Cutter!EffectiveSize = Room + Overhead
BY Constants DEF Overhead, Room, Cutter!Overhead, Cutter!SessionDataHeaderSize, Cutter!EffectiveSize

(* The subtraction in 16 bits gives the room, where there is any.          *)
LEMMA RoomFound ==
  ASSUME transmissionSize \in Nat, Room >= 0
  PROVE  (transmissionSize - Overhead) % SizeModulus = Room
<1>1. /\ Overhead \in Nat /\ Room \in 0..SizeModulus - 1 /\ SizeModulus \in Nat \ {0}
  BY Constants, RoomType
<1> DEFINE q == transmissionSize \div SizeModulus
<1>2. q \in Int /\ transmissionSize = q * SizeModulus + (transmissionSize % SizeModulus)
  <2>1. \A m \in Nat \ {0}, a \in Nat : a \div m \in Int /\ a = (a \div m) * m + (a % m)
    OBVIOUS
  <2> QED  BY <1>1, <2>1
<1>3. transmissionSize - Overhead = q * SizeModulus + Room
  BY <1>1, <1>2 DEF Room, Cutter!EffectiveSize
<1>4. (q * SizeModulus + Room) % SizeModulus = Room
  <2> HIDE DEF q
  <2>1. \A m \in Nat \ {0}, r \in Int, k \in Int : r \in 0..m - 1 => (k * m + r) % m = r
    OBVIOUS
  <2> QED  BY <1>1, <1>2, <2>1
<1> QED  BY <1>3, <1>4

LEMMA SegmenterInit == Cutter!Init => SegmenterInv
<1> SUFFICES ASSUME Cutter!Init PROVE SegmenterInv
  OBVIOUS
<1>1. transmissionSize \in Nat /\ length \in Nat \ {0} /\ transmitted = 0 /\ sent = <<>>
      /\ Len(sent) = 0 /\ state = "transmitting"
  BY Constants DEF Cutter!Init
<1>2. /\ toTransmit = (transmissionSize - Overhead) % SizeModulus
      /\ sessionSize = Cutter!EffectiveSize
  BY DEF Cutter!Init, Overhead, Cutter!EffectiveSize
<1>3. toTransmit \in Nat /\ sessionSize \in Nat
  <2>1. \A m \in Nat \ {0}, a \in Int : a % m \in Nat
    OBVIOUS
  <2>2. transmissionSize - Overhead \in Int /\ SizeModulus \in Nat \ {0}
    BY <1>1, Constants, RoomType
  <2>3. Cutter!EffectiveSize \in Nat
    BY <1>1, <2>1, <2>2 DEF Cutter!EffectiveSize
  <2> QED  BY <1>2, <2>1, <2>2, <2>3
<1>4. ASSUME Room >= 0 PROVE toTransmit = Room
  BY <1>1, <1>2, <1>4, RoomFound
<1>5. 0 * Room = 0 /\ Room \in Int
  BY <1>1, RoomType
<1>6. Room > 0 => Fitting
  BY <1>1, <1>2, <1>4, <1>5 DEF Fitting
<1>7. Room = 0 => Spinning
  BY <1>1, <1>2, <1>4, <1>5 DEF Spinning
<1> QED  BY <1>1, <1>3, <1>6, <1>7 DEF SegmenterInv

LEMMA SegmenterStep == SegmenterInv /\ Cutter!Next => SegmenterInv'
<1> SUFFICES ASSUME SegmenterInv, Cutter!Transmit PROVE SegmenterInv'
  BY DEF Cutter!Next
<1> DEFINE n == Len(sent)
           g == [from |-> transmitted, bytes |-> toTransmit', size |-> sessionSize']
<1>1. /\ transmissionSize \in Nat /\ length \in Nat \ {0} /\ transmitted \in Nat
      /\ toTransmit \in Nat /\ sessionSize \in Nat /\ sent \in Seq(Segments) /\ n \in Nat
      /\ SizeModulus \in Nat \ {0}
  BY Constants DEF SegmenterInv
<1>2. /\ Overhead \in Nat /\ Overhead >= 2 /\ Room \in Int
      /\ Cutter!EffectiveSize = Room + Overhead
      /\ Room >= 0 => Room \in 0..SizeModulus - 1 /\ Room + Overhead \in 0..SizeModulus - 1
  BY <1>1, RoomType
<1>3. /\ state = "transmitting" /\ sent' = Append(sent, g)
      /\ toTransmit' = IF Cutter!IsLast THEN (length - transmitted) % SizeModulus ELSE toTransmit
      /\ sessionSize' = IF Cutter!IsLast THEN (toTransmit' + Overhead) % SizeModulus
                        ELSE sessionSize
      /\ transmitted' = transmitted + toTransmit'
      /\ state' = IF toTransmit' + Overhead > sessionSize' THEN "overrun"
                  ELSE IF Cutter!IsLast THEN "done" ELSE "transmitting"
      /\ UNCHANGED <<transmissionSize, length>>
  BY DEF Cutter!Transmit, Overhead
<1>4. toTransmit' \in Nat /\ sessionSize' \in Nat /\ transmitted' \in Nat
  <2>1. \A m \in Nat \ {0}, a \in Int : a % m \in Nat
    OBVIOUS
  <2>2. toTransmit' \in Nat
    BY <1>1, <1>3, <2>1
  <2>3. sessionSize' \in Nat
    BY <1>1, <1>2, <1>3, <2>1, <2>2
  <2> QED  BY <1>1, <1>3, <2>2, <2>3
<1>5. g \in Segments /\ g.from = transmitted /\ g.bytes = toTransmit' /\ g.size = sessionSize'
  BY <1>1, <1>4 DEF Segments
<1>6. Room' = Room /\ Overhead' = Overhead /\ Cutter!EffectiveSize' = Cutter!EffectiveSize
  BY <1>3 DEF Room, Overhead, Cutter!Overhead, Cutter!SessionDataHeaderSize, Cutter!EffectiveSize
<1> HIDE DEF g
<1>7. /\ sent' \in Seq(Segments) /\ Len(sent') = n + 1 /\ sent'[n + 1] = g
      /\ \A i \in 1..n : sent'[i] = sent[i]
  BY <1>1, <1>3, <1>5
<1>8. Cutter!IsLast <=> transmitted + toTransmit >= length
  BY DEF Cutter!IsLast
<1>9. ASSUME Room > 0 PROVE Fitting'
  <2>1. /\ toTransmit = Room /\ sessionSize = Room + Overhead
        /\ transmitted = n * Room /\ transmitted < length
        /\ \A i \in 1..n : FitSegment(i)
    BY <1>2, <1>3, <1>9 DEF SegmenterInv, Fitting
  <2>2. (n + 1) * Room = n * Room + Room /\ n * Room \in Nat
    BY <1>1, <1>2, <1>9
  <2>3. \A i \in 1..n : FitSegment(i)'
    BY <1>3, <1>6, <1>7, <2>1 DEF FitSegment
  <2>4. CASE Cutter!IsLast
    <3>1. length - transmitted \in 0..SizeModulus - 1 /\ length - transmitted > 0
          /\ length - transmitted <= Room
      BY <1>1, <1>2, <1>8, <1>9, <2>1, <2>4
    <3>2. toTransmit' = length - transmitted
      BY <1>1, <1>3, <2>4, <3>1, ModSmall
    <3>3. toTransmit' + Overhead \in 0..SizeModulus - 1
      BY <1>1, <1>2, <1>9, <3>1, <3>2
    <3>4. sessionSize' = toTransmit' + Overhead
      BY <1>1, <1>3, <2>4, <3>3, ModSmall
    <3>5. state' = "done"
      BY <1>2, <1>3, <1>4, <2>4, <3>4
    <3>6. (n + 1) * Room >= length /\ (n + 1) - 1 = n
      BY <1>1, <1>2, <1>8, <2>1, <2>2, <2>4
    <3>7. toTransmit' = IF (n + 1) * Room <= length THEN Room ELSE length - n * Room
      <4> DEFINE before == n * Room
                 after == (n + 1) * Room
      <4>1. after = before + Room /\ before \in Nat /\ transmitted = before /\ after >= length
        BY <2>1, <2>2, <3>6
      <4> HIDE DEF before, after
      <4>2. toTransmit' = IF after <= length THEN Room ELSE length - before
        BY <1>1, <1>2, <3>2, <4>1
      <4> QED  BY <4>2 DEF before, after
    <3>8. ASSUME NEW i, i = n + 1 PROVE FitSegment(i)'
      BY <1>3, <1>5, <1>6, <1>7, <2>1, <3>1, <3>2, <3>4, <3>6, <3>7, <3>8 DEF FitSegment
    <3>9. \A i \in 1..n + 1 : FitSegment(i)'
      BY <1>1, <2>3, <3>8
    <3> HIDE DEF n
    <3> QED  BY <1>3, <1>6, <1>7, <3>5, <3>6, <3>9 DEF Fitting
  <2>5. CASE ~Cutter!IsLast
    <3>1. toTransmit' = Room /\ sessionSize' = Room + Overhead /\ state' = "transmitting"
      BY <1>2, <1>3, <2>1, <2>5
    <3>2. transmitted' = (n + 1) * Room /\ transmitted' < length /\ (n + 1) - 1 = n
      BY <1>1, <1>2, <1>3, <1>8, <2>1, <2>2, <2>5, <3>1
    <3>3. Room = IF (n + 1) * Room <= length THEN Room ELSE length - n * Room
      BY <1>1, <1>2, <2>2, <3>2
    <3>4. ASSUME NEW i, i = n + 1 PROVE FitSegment(i)'
      BY <1>3, <1>5, <1>6, <1>7, <1>9, <2>1, <3>1, <3>2, <3>3, <3>4 DEF FitSegment
    <3>5. \A i \in 1..n + 1 : FitSegment(i)'
      BY <1>1, <2>3, <3>4
    <3> HIDE DEF n
    <3> QED  BY <1>2, <1>3, <1>6, <1>7, <3>1, <3>2, <3>5 DEF Fitting
  <2> QED  BY <2>4, <2>5
<1>10. ASSUME Room = 0 PROVE Spinning'
  <2>1. toTransmit = 0 /\ transmitted = 0 /\ sessionSize = Overhead
        /\ \A i \in 1..n : sent[i].bytes = 0
    BY <1>2, <1>10 DEF SegmenterInv, Spinning
  <2>2. ~Cutter!IsLast
    BY <1>1, <1>8, <2>1
  <2>3. toTransmit' = 0 /\ transmitted' = 0 /\ sessionSize' = Overhead /\ state' = "transmitting"
    BY <1>2, <1>3, <2>1, <2>2
  <2>4. \A i \in 1..n + 1 : sent'[i].bytes = 0
    BY <1>1, <1>5, <1>7, <2>1, <2>3
  <2> QED  BY <1>2, <1>6, <1>7, <1>10, <2>3, <2>4 DEF Spinning
<1> QED  BY <1>1, <1>3, <1>4, <1>6, <1>7, <1>9, <1>10 DEF SegmenterInv

LEMMA SegmenterImplied == SegmenterInv => Cutter!SegmentsCover
<1> SUFFICES ASSUME SegmenterInv PROVE Cutter!SegmentsCover
  OBVIOUS
<1>1. Room \in Int
  BY RoomType DEF SegmenterInv
<1>2. Room > 0 =>
        /\ \A i \in 1..Len(sent) : FitSegment(i)
        /\ state = "done" <=> Len(sent) * Room >= length
        /\ state # "overrun"
  BY <1>1 DEF SegmenterInv, Fitting
<1>3. Room = 0 => state = "transmitting" /\ \A i \in 1..Len(sent) : sent[i].bytes = 0
  BY DEF SegmenterInv, Spinning
<1>4. state = "overrun" => Room < 0
  BY <1>1, <1>2, <1>3
<1> QED
  BY <1>2, <1>3, <1>4 DEF Cutter!SegmentsCover, FitSegment, Room, Overhead

(* For any sizes: where the 16 bits of the transmission size leave room    *)
(* for a byte, segments cover the chunk without gap or overlap and have    *)
(* the size that is written into them; a memcpy beyond the end of a        *)
(* segment takes a size with less room than its own headers               *)
(* (ChunkToBytesModule.cpp:41-92).                                         *)
THEOREM SegmentsAlwaysCover == Spec => []SegmentsCover
<1> DEFINE IInv == module = "segmenter" => SegmenterInv
<1>1. Init => IInv
  BY SegmenterInit DEF Init
<1>2. IInv /\ [Next]_vars => IInv'
  <2> SUFFICES ASSUME IInv, [Next]_vars, module' = "segmenter" PROVE SegmenterInv'
    OBVIOUS
  <2>1. CASE Cut
    BY <2>1, SegmenterStep DEF Cut
  <2>2. CASE UNCHANGED vars
    BY <2>2 DEF vars, segmenter, SegmenterInv, Fitting, FitSegment, Spinning, Room, Overhead,
              Cutter!EffectiveSize, Cutter!Overhead, Cutter!SessionDataHeaderSize
  <2> QED  BY <2>1, <2>2 DEF Next, Simulate, Capture, Play, Locate, Limit
<1>3. IInv => SegmentsCover
  BY SegmenterImplied DEF SegmentsCover
<1> QED  BY <1>1, <1>2, <1>3, PTL DEF Spec

-----------------------------------------------------------------------------
(* The sound card.  The chunk that is read, or will be next, starts at     *)
(* Next first; the stamp it will get is of a time when that frame was in   *)
(* the ring, or from before the device was started anew.                   *)

CapturedChunks == [first : Int, stamp : Int, recovered : BOOLEAN]

Captured(i) ==
  IF sent[i].recovered THEN sent[i].stamp < sent[i].first
  ELSE sent[i].stamp - sent[i].first \in 0..RingSize - 1

(* The chunk being waited for or read.                                     *)
UnreadCaptured ==
  IF recovered THEN stamp < unread
  ELSE stamp >= unread /\ (~overrun => stamp - unread < RingSize)

(* The chunk that was read.                                                *)
ChunkCaptured ==
  IF recovered THEN stamp < chunk ELSE stamp - chunk \in 0..RingSize - 1

Running ==
  /\ ~overrun => Card!Available <= RingSize
  /\ thread = "read" => Card!Available > ChunkSize
  /\ thread = "stamp" => Card!Available > 0
  /\ sent # <<>> => /\ thread \in {"wait", "read"} => UnreadCaptured
                    /\ thread = "stamp" => ChunkCaptured

CardInv ==
  /\ clock \in Nat /\ unread \in Int /\ stamp \in Int /\ chunk \in Int
  /\ stamp <= clock
  /\ recovered \in BOOLEAN /\ overrun \in BOOLEAN
  /\ stage \in {Card!Stages[i] : i \in 1..7} \cup {"exit"}
  /\ thread \in {"wait", "read", "stamp"}
  /\ sent \in Seq(CapturedChunks)
  /\ \A i \in 2..Len(sent) : Captured(i)
  /\ stage = "run" => Running
  /\ stage \notin {"run", "exit"} => thread = "wait" /\ sent = <<>>

(* The last of InitALSA's calls is the one that starts the device.         *)
LEMMA StagesInTurn ==
  ASSUME NEW s \in {Card!Stages[i] : i \in 1..7}, s # "run"
  PROVE  LET after == Card!Stages[Card!Position(s) + 1]
         IN  after \in {Card!Stages[i] : i \in 1..7} /\ (after = "run" => s = "start")
<1>1. PICK j \in 1..7 : s = Card!Stages[j]
  OBVIOUS
<1>2. Len(Card!Stages) = 7 /\ Card!Stages[7] = "run" /\ Card!Stages[6] = "start"
  BY DEF Card!Stages
<1>3. \A i \in 1..7 : Card!Stages[i] = Card!Stages[j] => i = j
  BY DEF Card!Stages
<1>4. Card!Position(s) = j
  BY <1>1, <1>2, <1>3 DEF Card!Position
<1>5. j + 1 \in 1..7
  BY <1>1, <1>2
<1>6. \A i \in 1..7 : Card!Stages[i] = "run" => i = 7
  BY DEF Card!Stages
<1>7. Card!Stages[j + 1] = "run" => j = 6
  BY <1>5, <1>6
<1> QED  BY <1>1, <1>2, <1>4, <1>5, <1>7

LEMMA Ring == RingSize \in Nat /\ ChunkSize \in Nat \ {0} /\ ChunkSize < RingSize
BY RingAssumption, ChunkAssumption

LEMMA CardInit == Card!Init => CardInv
<1> SUFFICES ASSUME Card!Init PROVE CardInv
  OBVIOUS
<1>1. clock = 0 /\ unread = 0 /\ stamp = -1 /\ chunk = 0 /\ sent = <<>> /\ thread = "wait" /\ stage = "open"
  BY DEF Card!Init, Card!Unset
<1>2. recovered \in BOOLEAN /\ overrun \in BOOLEAN
  BY Zenon DEF Card!Init
<1>3. stage \in {Card!Stages[i] : i \in 1..7} /\ stage # "run"
  BY <1>1 DEF Card!Stages
<1>4. clock \in Nat /\ unread \in Int /\ stamp \in Int /\ chunk \in Int /\ stamp <= clock
  BY <1>1
<1>5. sent \in Seq(CapturedChunks) /\ \A i \in 2..Len(sent) : Captured(i)
  BY <1>1
<1> QED  BY <1>1, <1>2, <1>3, <1>4, <1>5 DEF CardInv

(* Up to the end of InitALSA nothing was read.                             *)
LEMMA CardCall == CardInv /\ Card!Call => CardInv'
<1> SUFFICES ASSUME CardInv, Card!Call PROVE CardInv'
  OBVIOUS
<1>1. /\ stage \in {Card!Stages[i] : i \in 1..7} /\ stage # "run"
      /\ thread = "wait" /\ sent = <<>> /\ clock \in Nat /\ unread \in Int
  BY DEF CardInv, Card!Call
<1>2. stage' \in {Card!Stages[i] : i \in 1..7} /\ (stage' = "run" => stage = "start")
  BY <1>1, StagesInTurn DEF Card!Call
<1>3. UNCHANGED <<clock, thread, stamp, chunk, recovered, sent>>
  BY DEF Card!Call, Card!reader
<1>4. stage = "start" => unread' = clock + 1 /\ ~overrun'
  BY Zenon DEF Card!Call, Card!Start
<1>5. unread' \in Int
  BY <1>1 DEF Card!Call, Card!Start, Card!device
<1>6. overrun' \in BOOLEAN
  BY Zenon DEF CardInv, Card!Call, Card!Start, Card!device
<1>7. stage' = "run" => Running'
  BY <1>1, <1>2, <1>3, <1>4, Ring DEF Running, Card!Available
<1> QED  BY <1>1, <1>2, <1>3, <1>5, <1>6, <1>7 DEF CardInv, Captured

(* The process ends: what was captured stays so.                           *)
LEMMA CardExit == CardInv /\ (Card!FailCall \/ Card!ExitInWait) => CardInv'
<1> SUFFICES ASSUME CardInv, Card!FailCall \/ Card!ExitInWait PROVE CardInv'
  OBVIOUS
<1>1. UNCHANGED <<clock, unread, overrun, thread, stamp, chunk, recovered, sent>> /\ stage' = "exit"
  BY DEF Card!FailCall, Card!ExitInWait, Card!device, Card!reader
<1> QED  BY <1>1 DEF CardInv, Captured

LEMMA CardTick == CardInv /\ Card!Tick => CardInv'
<1> SUFFICES ASSUME CardInv, Card!Tick PROVE CardInv'
  OBVIOUS
<1>1. /\ UNCHANGED <<stage, unread, thread, stamp, chunk, recovered, sent>>
      /\ clock' = clock + 1 /\ clock \in Nat /\ unread \in Int /\ stamp \in Int
  BY DEF CardInv, Card!Tick, Card!setup, Card!reader
<1>2. overrun' \in BOOLEAN
  BY Zenon DEF CardInv, Card!Tick
<1>3. Card!Available' = Card!Available + 1 /\ Card!Available \in Int
  BY <1>1 DEF Card!Available
<1>4. ASSUME stage = "run" PROVE Running'
  <2>1. Running
    BY <1>4 DEF CardInv
  <2>2. ~overrun' => ~overrun /\ Card!Available # RingSize
    BY <1>4 DEF Card!Tick
  <2>3. ~overrun' => Card!Available' <= RingSize
    BY <1>3, <2>1, <2>2, Ring DEF Running
  <2>4. /\ thread' = "read" => Card!Available' > ChunkSize
        /\ thread' = "stamp" => Card!Available' > 0
    BY <1>1, <1>3, <2>1, Ring DEF Running
  <2>5. UnreadCaptured => UnreadCaptured'
    BY <1>1, <2>2 DEF UnreadCaptured
  <2>6. ChunkCaptured => ChunkCaptured'
    BY <1>1 DEF ChunkCaptured
  <2> QED  BY <1>1, <2>1, <2>3, <2>4, <2>5, <2>6 DEF Running
<1>5. stamp' <= clock' /\ clock' \in Nat
  BY <1>1 DEF CardInv
<1> QED  BY <1>1, <1>2, <1>4, <1>5 DEF CardInv, Captured

LEMMA CardWait == CardInv /\ Card!WaitForFrames => CardInv'
<1> SUFFICES ASSUME CardInv, Card!WaitForFrames PROVE CardInv'
  OBVIOUS
<1>1. /\ UNCHANGED <<clock, stage, overrun, unread, stamp, chunk, recovered, sent>>
      /\ stage = "run" /\ thread = "wait" /\ thread' = "read" /\ Card!Available > ChunkSize
  BY DEF Card!WaitForFrames, Card!EnoughAvailable, Card!setup, Card!device
<1>2. Running
  BY <1>1 DEF CardInv
<1>3. Running'
  BY <1>1, <1>2 DEF Running, Card!Available, UnreadCaptured
<1> QED  BY <1>1, <1>3 DEF CardInv, Captured

LEMMA CardReadFrames == CardInv /\ Card!ReadFrames => CardInv'
<1> SUFFICES ASSUME CardInv, Card!ReadFrames PROVE CardInv'
  OBVIOUS
<1>1. /\ UNCHANGED <<clock, stage, overrun, stamp, recovered, sent>>
      /\ stage = "run" /\ thread = "read" /\ ~overrun /\ thread' = "stamp"
      /\ chunk' = unread /\ unread' = unread + ChunkSize
  BY DEF Card!ReadFrames, Card!setup
<1>2. clock \in Nat /\ unread \in Int /\ stamp \in Int /\ Running
  BY <1>1 DEF CardInv
<1>3. Card!Available' = Card!Available - ChunkSize /\ Card!Available \in Int
  BY <1>1, <1>2, Ring DEF Card!Available
<1>4. Card!Available' <= RingSize /\ Card!Available' > 0
  BY <1>1, <1>2, <1>3, Ring DEF Running
<1>5. UnreadCaptured => ChunkCaptured'
  <2>1. CASE recovered
    BY <1>1, <2>1 DEF UnreadCaptured, ChunkCaptured
  <2>2. CASE ~recovered
    BY <1>1, <1>2, <2>2, Ring DEF UnreadCaptured, ChunkCaptured
  <2> QED  BY <2>1, <2>2
<1>6. Running'
  BY <1>1, <1>2, <1>4, <1>5 DEF Running
<1>7. unread' \in Int /\ chunk' \in Int
  BY <1>1, <1>2, Ring
<1> QED  BY <1>1, <1>6, <1>7 DEF CardInv, Captured

LEMMA CardFailRead == CardInv /\ Card!FailRead => CardInv'
<1> SUFFICES ASSUME CardInv, Card!FailRead PROVE CardInv'
  OBVIOUS
<1>1. /\ UNCHANGED <<clock, stage, stamp, chunk, sent>>
      /\ stage = "run" /\ thread' = "wait" /\ unread' = clock + 1
  BY DEF Card!FailRead, Card!Start, Card!setup
<1>2. recovered' /\ ~overrun' /\ recovered' \in BOOLEAN /\ overrun' \in BOOLEAN
  BY Zenon DEF Card!FailRead, Card!Start
<1>3. clock \in Nat /\ stamp \in Int /\ stamp <= clock
  BY DEF CardInv
<1>4. UnreadCaptured'
  <2>1. stamp' < unread'
    BY <1>1, <1>3
  <2> QED  BY <1>2, <2>1, Zenon DEF UnreadCaptured
<1>5. Card!Available' <= RingSize
  BY <1>1, <1>3, Ring DEF Card!Available
<1>6. Running'
  BY <1>1, <1>4, <1>5 DEF Running
<1>7. unread' \in Int
  BY <1>1, <1>3
<1> QED  BY <1>1, <1>2, <1>6, <1>7 DEF CardInv, Captured

LEMMA CardPassChunk == CardInv /\ Card!PassChunk => CardInv'
<1> SUFFICES ASSUME CardInv, Card!PassChunk PROVE CardInv'
  OBVIOUS
<1> DEFINE c == [first |-> chunk, stamp |-> stamp, recovered |-> recovered]
           n == Len(sent)
<1>1. /\ UNCHANGED <<clock, stage, overrun, unread, chunk>>
      /\ stage = "run" /\ thread = "stamp" /\ thread' = "wait" /\ stamp' = clock
      /\ sent' = Append(sent, c)
  BY DEF Card!PassChunk, Card!UpdateTimeStamp, Card!UpdateTimeStampMetaData, Card!setup, Card!device
<1>2. ~recovered' /\ recovered' \in BOOLEAN
  BY Zenon DEF Card!PassChunk
<1>3. /\ clock \in Nat /\ unread \in Int /\ stamp \in Int /\ chunk \in Int
      /\ sent \in Seq(CapturedChunks) /\ n \in Nat /\ Running
      /\ recovered \in BOOLEAN
  BY <1>1 DEF CardInv
<1>4. c \in CapturedChunks
  BY <1>3 DEF CapturedChunks
<1>5. c.first = chunk /\ c.stamp = stamp /\ c.recovered = recovered
  OBVIOUS
<1> HIDE DEF c
<1>6. /\ sent' \in Seq(CapturedChunks) /\ Len(sent') = n + 1 /\ sent'[n + 1] = c
      /\ \A i \in 1..n : sent'[i] = sent[i]
  BY <1>1, <1>3, <1>4
<1>7. ASSUME NEW i \in 2..n + 1 PROVE Captured(i)'
  <2>1. CASE i = n + 1
    <3>1. ChunkCaptured
      BY <1>1, <1>3, <2>1 DEF Running
    <3>2. sent'[i] = c
      BY <1>6, <2>1
    <3> QED  BY <1>5, <3>1, <3>2 DEF ChunkCaptured, Captured
  <2>2. CASE i \in 2..n
    <3>1. sent'[i] = sent[i] /\ Captured(i)
      BY <1>3, <1>6, <2>2 DEF CardInv
    <3> QED  BY <3>1 DEF Captured
  <2> QED  BY <1>3, <2>1, <2>2
<1>8. Running'
  <2>1. Card!Available' = Card!Available /\ Card!Available = clock - unread + 1
    BY <1>1 DEF Card!Available
  <2>2. stamp' >= unread'
    BY <1>1, <1>3, <2>1 DEF Running
  <2>3. ~overrun' => stamp' - unread' < RingSize
    BY <1>1, <1>3, <2>1, Ring DEF Running
  <2>4. UnreadCaptured'
    BY <1>2, <2>2, <2>3, Zenon DEF UnreadCaptured
  <2> QED  BY <1>1, <1>3, <2>1, <2>4 DEF Running
<1>9. stamp' <= clock' /\ stamp' \in Int
  BY <1>1, <1>3
<1> HIDE DEF n
<1> QED  BY <1>1, <1>2, <1>3, <1>6, <1>7, <1>8, <1>9 DEF CardInv

LEMMA CardStep == CardInv /\ Card!Next => CardInv'
BY CardCall, CardExit, CardTick, CardWait, CardReadFrames, CardFailRead, CardPassChunk DEF Card!Next

(* For any ring and chunk size: a chunk passed on has the time stamp of a  *)
(* moment when its first frame was in the ring, or, once after each        *)
(* recovered overrun, of one before all of its frames                      *)
(* (SoundCardInterfaceModule.cpp:31-49, 76-94, 112-124).                   *)
THEOREM StampsAlwaysCaptured == Spec => []StampsCaptured
<1> DEFINE IInv == module = "card" => CardInv
<1>1. Init => IInv
  BY CardInit DEF Init
<1>2. IInv /\ [Next]_vars => IInv'
  <2> SUFFICES ASSUME IInv, [Next]_vars, module' = "card" PROVE CardInv'
    OBVIOUS
  <2>1. CASE Capture
    BY <2>1, CardStep DEF Capture
  <2>2. CASE UNCHANGED vars
    BY <2>2 DEF vars, card, CardInv, Running, UnreadCaptured, ChunkCaptured, Captured, Card!Available
  <2> QED  BY <2>1, <2>2 DEF Next, Simulate, Play, Locate, Limit, Cut
<1>3. IInv => StampsCaptured
  BY DEF CardInv, Captured, StampsCaptured, Card!StampsCaptured
<1> QED  BY <1>1, <1>2, <1>3, PTL DEF Spec

-----------------------------------------------------------------------------
(* The WAV reader.  The last chunk says which file is open or comes next.  *)

Reads == [file : 1..Len(Files), from : Int, to : Int, length : Nat]
Infos == [frames : Nat, channels : Nat]
LastRead == sent[Len(sent)]

(* r may come after the chunk q: it goes on with its file, or with the next. *)
Follows(r, q) ==
  \/ r.from = 0 /\ q.to >= q.length /\ r.file = (q.file % Len(Files)) + 1
  \/ r.from = q.to /\ q.to < q.length /\ r.file = q.file

(* Between files, and in the middle of one.                                *)
BetweenFiles ==
  sent # <<>> =>
    /\ LastRead.to >= LastRead.length
    /\ index = LastRead.file % Len(Files) \/ (LastRead.length = 0 /\ index = LastRead.file)

InFile ==
  /\ sent # <<>>
  /\ LastRead.to < LastRead.length
  /\ current = LastRead.file /\ index = current
  /\ position = LastRead.to /\ info.frames = LastRead.length

ReaderInv ==
  /\ index \in 0..Len(Files) /\ current \in Int /\ info \in Infos /\ position \in Int
  /\ sent \in Seq(Reads)
  /\ \A n \in 2..Len(sent) : Follows(sent[n], sent[n - 1])
  /\ current = Reader!NoFile => BetweenFiles
  /\ current \in 1..Len(Files) => InFile
  /\ current = Reader!Wild => sent = <<>>
  /\ current = Reader!Ended /\ sent # <<>> => LastRead.length = 0 /\ LastRead.file = Len(Files)
  /\ sent = <<>> => index = 0

LEMMA FilesType ==
  /\ Len(Files) \in Nat \ {0}
  /\ \A f \in 1..Len(Files) : Files[f] \in Infos
<1> DEFINE FileInfos == [frames : Nat, channels : Nat \ {0}]
<1>1. Files \in Seq(FileInfos) /\ Files # <<>>
  BY FilesAssumption
<1>2. ASSUME NEW f \in 1..Len(Files) PROVE Files[f] \in Infos
  <2>1. Files[f] \in FileInfos
    <3> HIDE DEF FileInfos
    <3> QED  BY <1>1
  <2> QED  BY <2>1 DEF Infos
<1> QED  BY <1>1, <1>2

LEMMA SamplesType ==
  ASSUME NEW i \in Infos, NEW from \in Int
  PROVE  Reader!SamplesRead(i, from) \in Int
<1> DEFINE a == ChunkSize * i.channels
           b == i.frames * i.channels - from
<1>1. a \in Int /\ b \in Int
  <2>1. i.channels \in Nat /\ i.frames \in Nat /\ ChunkSize \in Nat
    BY Constants DEF Infos
  <2> QED  BY <2>1
<1>2. Reader!SamplesRead(i, from) = Reader!Min({a, b})
  BY DEF Reader!SamplesRead
<1> HIDE DEF a, b
<1>3. \E x \in {a, b} : \A y \in {a, b} : x <= y
  BY <1>1
<1>4. Reader!Min({a, b}) \in {a, b}
  BY <1>3, Zenon DEF Reader!Min
<1> QED  BY <1>1, <1>2, <1>4

(* Among the numbers of files.                                             *)
LEMMA NextFile ==
  ASSUME NEW f \in 1..Len(Files)
  PROVE  /\ f % Len(Files) \in 0..Len(Files) - 1
         /\ Reader!AfterLast(f) = f % Len(Files)
         /\ f < Len(Files) => f % Len(Files) = f
<1>1. Len(Files) \in Nat \ {0}
  BY FilesType
<1>2. CASE f < Len(Files)
  <2>1. f \in 0..Len(Files) - 1
    BY <1>1, <1>2
  <2> QED  BY <1>1, <1>2, <2>1, ModSmall DEF Reader!AfterLast
<1>3. CASE f = Len(Files)
  <2>1. \A m \in Nat \ {0} : m % m = 0
    OBVIOUS
  <2> QED  BY <1>1, <1>3, <2>1 DEF Reader!AfterLast
<1> QED  BY <1>1, <1>2, <1>3

LEMMA ReaderInit == Reader!Init => ReaderInv
<1> SUFFICES ASSUME Reader!Init PROVE ReaderInv
  OBVIOUS
<1>1. /\ current \in {0, -1} /\ index = 0 /\ info = [frames |-> 0, channels |-> 0]
      /\ position = 0 /\ sent = <<>>
  BY DEF Reader!Init, Reader!NoFile, Reader!Wild, Reader!NoInfo
<1>2. info \in Infos
  BY <1>1 DEF Infos
<1> QED
  BY <1>1, <1>2, FilesType DEF ReaderInv, BetweenFiles, Reader!NoFile, Reader!Wild, Reader!Ended

(* A chunk that follows the last one is appended.                          *)
LEMMA ReadAppended ==
  ASSUME ReaderInv, NEW r \in Reads, sent' = Append(sent, r),
         sent # <<>> => Follows(r, LastRead)
  PROVE  /\ sent' \in Seq(Reads) /\ sent' # <<>> /\ LastRead' = r
         /\ \A n \in 2..Len(sent') : Follows(sent'[n], sent'[n - 1])
<1>1. sent \in Seq(Reads) /\ Len(sent) \in Nat
  BY DEF ReaderInv
<1>2. /\ sent' \in Seq(Reads) /\ Len(sent') = Len(sent) + 1 /\ sent'[Len(sent) + 1] = r
      /\ \A n \in 1..Len(sent) : sent'[n] = sent[n]
  BY <1>1
<1>3. ASSUME NEW n \in 2..Len(sent') PROVE Follows(sent'[n], sent'[n - 1])
  <2>1. CASE n = Len(sent) + 1
    <3>1. sent # <<>> /\ sent'[n] = r /\ sent'[n - 1] = LastRead
      BY <1>1, <1>2, <2>1 DEF LastRead
    <3> QED  BY <3>1
  <2>2. CASE n \in 2..Len(sent)
    <3>1. sent'[n] = sent[n] /\ sent'[n - 1] = sent[n - 1]
      BY <1>1, <1>2, <2>2
    <3> QED  BY <2>2, <3>1 DEF ReaderInv
  <2> QED  BY <1>1, <1>2, <2>1, <2>2
<1>4. LastRead' = r /\ sent' # <<>>
  BY <1>1, <1>2 DEF LastRead
<1> QED  BY <1>2, <1>3, <1>4

(* Process from the read on, whichever way the file came to be open.       *)
LEMMA ReaderReadChunk ==
  ASSUME ReaderInv, NEW f \in 1..Len(Files), NEW i \in Infos, NEW from \in Int,
         Reader!ReadChunk(f, i, from, f),
         \A to \in Int : sent # <<>> =>
           Follows([file |-> f, from |-> from, to |-> to, length |-> i.frames], LastRead)
  PROVE  ReaderInv'
<1> DEFINE to == from + Reader!SamplesRead(i, from)
           r == [file |-> f, from |-> from, to |-> to, length |-> i.frames]
<1>1. to \in Int /\ i.frames \in Nat
  BY SamplesType DEF Infos
<1>2. /\ info' = i /\ position' = to
      /\ current' = IF to >= i.frames THEN Reader!NoFile ELSE f
      /\ index' = IF to >= i.frames THEN Reader!AfterLast(f) ELSE f
      /\ sent' = Append(sent, r)
  BY Zenon DEF Reader!ReadChunk, Reader!Passed, Reader!IndexAfter
<1>3. r \in Reads /\ (sent # <<>> => Follows(r, LastRead))
  BY <1>1 DEF Reads
<1>4. r.file = f /\ r.to = to /\ r.length = i.frames
  OBVIOUS
<1> HIDE DEF r
<1> HIDE DEF to
<1>5. /\ sent' \in Seq(Reads) /\ sent' # <<>> /\ LastRead' = r
      /\ \A n \in 2..Len(sent') : Follows(sent'[n], sent'[n - 1])
  BY <1>2, <1>3, ReadAppended
<1>6. \A n \in 2..Len(sent') : Follows(sent[n], sent[n - 1])'
  BY <1>5 DEF Follows
<1>7. Len(Files) \in Nat \ {0} /\ f \in Nat /\ f # 0 /\ f # -1 /\ f # -2
  BY FilesType
<1>8. CASE to >= i.frames
  <2>1. index' = f % Len(Files) /\ index' \in 0..Len(Files) /\ current' = 0
    BY <1>2, <1>7, <1>8, NextFile DEF Reader!NoFile
  <2>2. BetweenFiles'
    BY <1>4, <1>5, <1>8, <2>1 DEF BetweenFiles
  <2>3. info' \in Infos /\ position' \in Int
    BY <1>1, <1>2
  <2>4. current' \in Int /\ current' \notin 1..Len(Files)
    BY <1>7, <2>1
  <2> QED
    BY <1>5, <1>6, <2>1, <2>2, <2>3, <2>4 DEF ReaderInv, Reader!NoFile, Reader!Wild, Reader!Ended
<1>9. CASE ~(to >= i.frames)
  <2>1. index' = f /\ current' = f /\ to < i.frames
    BY <1>1, <1>2, <1>9
  <2>2. InFile'
    BY <1>2, <1>4, <1>5, <2>1 DEF InFile
  <2> QED
    BY <1>1, <1>2, <1>5, <1>6, <1>7, <2>1, <2>2, SMTT(30)
    DEF ReaderInv, Reader!NoFile, Reader!Wild, Reader!Ended
<1> QED  BY <1>8, <1>9

(* The file that may be opened is the one after the last.                  *)
LEMMA NextOpened ==
  ASSUME ReaderInv, Reader!MayOpen
  PROVE  /\ index + 1 \in 1..Len(Files) /\ Len(Files) \in Nat \ {0} /\ index \in Nat
         /\ sent # <<>> => /\ LastRead.to >= LastRead.length
                           /\ index + 1 = (LastRead.file % Len(Files)) + 1
<1>1. current = Reader!NoFile /\ index < Len(Files) /\ index \in 0..Len(Files) /\ Len(Files) \in Nat \ {0}
  BY FilesType DEF ReaderInv, Reader!MayOpen
<1>2. BetweenFiles
  BY <1>1 DEF ReaderInv
<1>3. ASSUME sent # <<>> PROVE LastRead.file \in 1..Len(Files)
  <2>1. LastRead \in Reads
    BY <1>3 DEF ReaderInv, LastRead
  <2> QED  BY <2>1 DEF Reads
<1>4. ASSUME sent # <<>> PROVE index = LastRead.file % Len(Files)
  BY <1>1, <1>2, <1>3, <1>4, NextFile DEF BetweenFiles
<1> QED  BY <1>1, <1>2, <1>4 DEF BetweenFiles

LEMMA ReaderOpenFile == ReaderInv /\ Reader!OpenFile => ReaderInv'
<1> SUFFICES ASSUME ReaderInv, Reader!OpenFile PROVE ReaderInv'
  OBVIOUS
<1>1. Reader!MayOpen /\ Reader!ReadChunk(index + 1, Files[index + 1], 0, index + 1)
  BY DEF Reader!OpenFile
<1>2. index + 1 \in 1..Len(Files) /\ Files[index + 1] \in Infos
  BY <1>1, NextOpened, FilesType
<1>3. ASSUME NEW to \in Int, sent # <<>>
      PROVE  Follows([file |-> index + 1, from |-> 0, to |-> to, length |-> Files[index + 1].frames],
                     LastRead)
  BY <1>1, <1>3, NextOpened DEF Follows
<1> DEFINE f == index + 1
           i == Files[index + 1]
<1>4. f \in 1..Len(Files) /\ i \in Infos /\ 0 \in Int /\ Reader!ReadChunk(f, i, 0, f)
  BY <1>1, <1>2
<1>5. \A to \in Int : sent # <<>> =>
        Follows([file |-> f, from |-> 0, to |-> to, length |-> i.frames], LastRead)
  BY <1>3
<1> HIDE DEF f, i
<1> QED  BY <1>4, <1>5, ReaderReadChunk

LEMMA ReaderContinueFile == ReaderInv /\ Reader!ContinueFile => ReaderInv'
<1> SUFFICES ASSUME ReaderInv, Reader!ContinueFile PROVE ReaderInv'
  OBVIOUS
<1>1. current \in 1..Len(Files) /\ Reader!ReadChunk(current, info, position, index)
  BY DEF Reader!ContinueFile
<1>2. InFile /\ info \in Infos /\ position \in Int
  BY <1>1 DEF ReaderInv
<1>3. Reader!ReadChunk(current, info, position, current)
  BY <1>1, <1>2 DEF InFile
<1>4. ASSUME NEW to \in Int, sent # <<>>
      PROVE  Follows([file |-> current, from |-> position, to |-> to, length |-> info.frames], LastRead)
  BY <1>2 DEF InFile, Follows
<1> QED  BY <1>1, <1>2, <1>3, <1>4, ReaderReadChunk

LEMMA ReaderFailOpen == ReaderInv /\ Reader!FailOpen => ReaderInv'
<1> SUFFICES ASSUME ReaderInv, Reader!FailOpen PROVE ReaderInv'
  OBVIOUS
<1> DEFINE f == index + 1
           r == [file |-> f, from |-> 0, to |-> 0, length |-> 0]
<1>1. Reader!MayOpen /\ current = Reader!NoFile /\ current' = current /\ sent' = Append(sent, r)
  BY DEF Reader!FailOpen, Reader!MayOpen, Reader!Passed
<1>2. PICK i \in {info, Reader!NoInfo} :
        /\ info' = i /\ position' = 0
        /\ index' = IF i.frames = 0 THEN Reader!AfterLast(f) ELSE f
  BY DEF Reader!FailOpen, Reader!IndexAfter
<1>3. f \in 1..Len(Files) /\ Len(Files) \in Nat \ {0}
  BY <1>1, NextOpened
<1>4. info' \in Infos
  BY <1>2 DEF ReaderInv, Infos, Reader!NoInfo
<1>5. r \in Reads
  BY <1>3 DEF Reads
<1>6. sent # <<>> => Follows(r, LastRead)
  BY <1>1, NextOpened DEF Follows
<1>7. r.file = f /\ r.to = 0 /\ r.length = 0
  OBVIOUS
<1>8. index' \in 0..Len(Files) /\ (index' = f % Len(Files) \/ index' = f)
  BY <1>2, <1>3, NextFile
<1> HIDE DEF r
<1> HIDE DEF f
<1>9. /\ sent' \in Seq(Reads) /\ sent' # <<>> /\ LastRead' = r
      /\ \A n \in 2..Len(sent') : Follows(sent'[n], sent'[n - 1])
  BY <1>1, <1>5, <1>6, ReadAppended
<1>10. \A n \in 2..Len(sent') : Follows(sent[n], sent[n - 1])'
  BY <1>9 DEF Follows
<1>11. BetweenFiles'
  BY <1>7, <1>8, <1>9 DEF BetweenFiles
<1>12. current' = 0 /\ position' = 0
  BY <1>1, <1>2 DEF Reader!NoFile
<1> QED
  BY <1>4, <1>8, <1>9, <1>10, <1>11, <1>12 DEF ReaderInv, Reader!NoFile, Reader!Wild, Reader!Ended

LEMMA ReaderCrash == ReaderInv /\ Reader!Crash => ReaderInv'
<1> SUFFICES ASSUME ReaderInv, Reader!Crash PROVE ReaderInv'
  OBVIOUS
<1>1. UNCHANGED <<index, info, position, sent>> /\ current' = -2
  BY DEF Reader!Crash, Reader!Ended
<1>2. ASSUME sent # <<>> PROVE LastRead.length = 0 /\ LastRead.file = Len(Files)
  <2>1. current = Reader!NoFile /\ index = Len(Files) /\ BetweenFiles
    BY <1>2 DEF ReaderInv, Reader!Crash
  <2>2. LastRead \in Reads
    BY <1>2 DEF ReaderInv, LastRead
  <2>3. LastRead.file \in 1..Len(Files) /\ Len(Files) \in Nat \ {0}
    BY <2>2, FilesType DEF Reads
  <2>4. LastRead.file % Len(Files) # index
    BY <2>1, <2>3, NextFile
  <2> QED  BY <1>2, <2>1, <2>4 DEF BetweenFiles
<1>3. LastRead' = LastRead
  BY <1>1 DEF LastRead
<1> QED
  BY <1>1, <1>2, <1>3, FilesType DEF ReaderInv, Follows, Reader!NoFile, Reader!Wild, Reader!Ended

LEMMA ReaderImplied == ReaderInv => Reader!PlayedInTurn
<1> SUFFICES ASSUME ReaderInv PROVE Reader!PlayedInTurn
  OBVIOUS
<1>1. \A n \in 2..Len(sent) : Follows(sent[n], sent[n - 1])
  BY DEF ReaderInv
<1>2. current = Reader!Ended /\ sent # <<>> => LastRead.length = 0 /\ LastRead.file = Len(Files)
  BY DEF ReaderInv
<1> QED  BY <1>1, <1>2, Zenon DEF Reader!PlayedInTurn, Follows, LastRead

(* For any directory: files are played in turn, whichever cannot be opened *)
(* and however many channels they have, and only a last file that cannot   *)
(* be opened ends the process (WAVReaderModule.cpp:12-44).                 *)
THEOREM AlwaysPlayedInTurn == Spec => []PlayedInTurn
<1> DEFINE IInv == module = "reader" => ReaderInv
<1>1. Init => IInv
  BY ReaderInit DEF Init
<1>2. IInv /\ [Next]_vars => IInv'
  <2> SUFFICES ASSUME IInv, [Next]_vars, module' = "reader" PROVE ReaderInv'
    OBVIOUS
  <2>1. CASE Play
    BY <2>1, ReaderOpenFile, ReaderFailOpen, ReaderContinueFile, ReaderCrash DEF Play, Reader!Next
  <2>2. CASE UNCHANGED vars
    BY <2>2 DEF vars, reader, ReaderInv, BetweenFiles, InFile, LastRead, Follows
  <2> QED  BY <2>1, <2>2 DEF Next, Simulate, Capture, Locate, Limit, Cut
<1>3. IInv => PlayedInTurn
  BY ReaderImplied DEF PlayedInTurn
<1> QED  BY <1>1, <1>2, <1>3, PTL DEF Spec

-----------------------------------------------------------------------------
(* The types of the modules' states.                                       *)

LEMMA LimiterTyped ==
  /\ Limiter!Init => Limiter!TypeOK
  /\ LimiterInv /\ LimiterInv' /\ Limiter!TypeOK /\ Limiter!Next => Limiter!TypeOK'
<1>1. ASSUME Limiter!Init PROVE Limiter!TypeOK
  <2>1. LimiterInv /\ steps \in 0..MaxSteps
    BY <1>1, LimiterInit, Constants DEF Limiter!Init
  <2> QED  BY <2>1, Zenon DEF LimiterInv, Limiter!TypeOK
<1>2. ASSUME LimiterInv', Limiter!TypeOK, Limiter!Next PROVE Limiter!TypeOK'
  <2>1. steps' \in 0..MaxSteps
    BY <1>2, Constants
    DEF Limiter!TypeOK, Limiter!Next, Limiter!PassChunk, Limiter!HoldChunk, Limiter!Tick,
        Limiter!SetClock, Limiter!vars
  <2> QED  BY <1>2, <2>1, Zenon DEF LimiterInv, Limiter!TypeOK
<1> QED  BY <1>1, <1>2

LEMMA SimulatorTyped ==
  /\ Sim!Init => Sim!TypeOK
  /\ Sim!TypeOK /\ Sim!Next => Sim!TypeOK'
<1>1. ASSUME Sim!Init PROVE Sim!TypeOK
  <2>1. rate \in SampleRates /\ rate \in Nat \ {0}
    BY <1>1, Constants DEF Sim!Init
  <2>2. Sim!ChunkPeriod \in Nat
    BY <2>1, ChunkPeriodType
  <2> QED  BY <1>1, <2>1, <2>2, Constants DEF Sim!Init, Sim!TypeOK
<1>2. ASSUME Sim!TypeOK, Sim!Tick PROVE Sim!TypeOK'
  <2>1. clock' \in 0..MaxTime /\ UNCHANGED <<rate, clockMode, stamp, wake, sent>>
    BY <1>2, Constants DEF Sim!TypeOK, Sim!Tick
  <2> QED  BY <1>2, <2>1 DEF Sim!TypeOK, Sim!ClockModes, Sim!ChunkPeriod
<1>3. ASSUME Sim!TypeOK, Sim!Process PROVE Sim!TypeOK'
  <2> DEFINE c == [stamp |-> stamp, at |-> clock]
             Made == [stamp : Nat, at : 0..MaxTime]
  <2>1. /\ clock \in 0..MaxTime /\ stamp \in Nat /\ sent \in Seq(Made)
        /\ Len(sent) < MaxChunks /\ clockMode \in Sim!ClockModes /\ rate \in SampleRates
    BY <1>3 DEF Sim!TypeOK, Sim!Process
  <2>2. rate \in Nat \ {0} /\ Sim!ChunkPeriod \in Nat
    BY <2>1, Constants, ChunkPeriodType
  <2>3. sent' = Append(sent, c) /\ UNCHANGED <<clock, rate, clockMode>>
    BY <1>3 DEF Sim!Process
  <2>4. stamp' \in Nat
    BY <1>3, <2>1, <2>2 DEF Sim!Process, Sim!GenerateClockTimestamp, Sim!CountTimestamp
  <2>5. c \in Made
    BY <2>1
  <2> HIDE DEF c, Made
  <2>6. sent' \in Seq(Made) /\ Len(sent') = Len(sent) + 1 /\ Len(sent) \in Nat
    BY <2>1, <2>3, <2>5
  <2>7. wake' \in 0..MaxTime + Sim!ChunkPeriod /\ Len(sent') <= MaxChunks
    <3>1. PICK sleep \in Sim!SleepPeriods : wake' = clock + sleep
      BY <1>3 DEF Sim!Process
    <3>2. sleep \in Nat /\ sleep <= Sim!ChunkPeriod
      BY <2>2, <3>1, SleepsEnough
    <3> QED  BY <2>1, <2>6, <2>2, <3>1, <3>2, Constants
  <2>8. Sim!ChunkPeriod' = Sim!ChunkPeriod /\ Sim!ClockModes' = Sim!ClockModes
    BY <2>3, SameRate DEF Sim!ClockModes
  <2> QED  BY <2>1, <2>3, <2>4, <2>6, <2>7, <2>8 DEF Sim!TypeOK, Made
<1> QED  BY <1>1, <1>2, <1>3 DEF Sim!Next

LEMMA GPSTyped ==
  /\ GPS!Init => GPS!TypeOK
  /\ GPS!TypeOK /\ GPS!Next => GPS!TypeOK'
<1> DEFINE Passed == [locked : BOOLEAN, number : 0..MaxFixes]
           Fixes(n) == [number : 0..n, valid : BOOLEAN]
<1>0. ASSUME NEW n \in Nat PROVE GPS!NoFix \in Fixes(n)
  <2>1. 0 \in 0..n /\ FALSE \in BOOLEAN
    OBVIOUS
  <2> QED  BY <2>1, Zenon DEF GPS!NoFix
<1>1. ASSUME GPS!Init PROVE GPS!TypeOK
  <2>1. /\ simulate \in BOOLEAN /\ locked \in BOOLEAN
    BY <1>1, Zenon DEF GPS!Init
  <2>2. reports = <<>> /\ sent = <<>> /\ fix = GPS!NoFix /\ connection \in {"opening", "open"}
    BY <1>1 DEF GPS!Init
  <2>3. Len(reports) = 0 /\ reports \in Seq(BOOLEAN) /\ sent \in Seq(Passed)
    BY <2>2
  <2>4. fix \in Fixes(Len(reports))
    BY <1>0, <2>2, <2>3
  <2> QED  BY <2>1, <2>2, <2>3, <2>4, Constants DEF GPS!TypeOK
(* A position passed on with a fix that fits.                              *)
<1>2. ASSUME GPS!TypeOK, NEW f, GPS!Transmit(f), simulate' = simulate,
             connection' \in {"opening", "open", "reopening"},
             reports' \in Seq(BOOLEAN), Len(reports') <= MaxFixes, f \in Fixes(Len(reports'))
      PROVE  GPS!TypeOK'
  <2>1. Len(reports') \in Nat /\ f.number \in 0..MaxFixes /\ f.valid \in BOOLEAN
    <3>1. Len(reports') \in Nat
      BY <1>2
    <3>2. f.number \in 0..Len(reports') /\ f.valid \in BOOLEAN
      BY <1>2
    <3> QED  BY <1>2, <3>1, <3>2, Constants
  <2> DEFINE p == [locked |-> f.valid, number |-> f.number]
  <2>2. fix' = f /\ locked' = f.valid /\ sent' = Append(sent, p)
    BY <1>2, Zenon DEF GPS!Transmit, GPS!Lock
  <2>3. p \in Passed
    BY <2>1
  <2>4. sent \in Seq(Passed)
    BY <1>2 DEF GPS!TypeOK
  <2> HIDE DEF p, Passed
  <2>5. sent' \in Seq(Passed)
    BY <2>2, <2>3, <2>4
  <2>6. simulate' \in BOOLEAN /\ locked' \in BOOLEAN /\ fix' \in Fixes(Len(reports'))
    BY <1>2, <2>1, <2>2, Zenon DEF GPS!TypeOK
  <2> QED  BY <1>2, <2>5, <2>6, Zenon DEF GPS!TypeOK, Passed
<1>3. ASSUME GPS!TypeOK, GPS!ReadFix PROVE GPS!TypeOK'
  <2>1. PICK valid \in BOOLEAN :
          /\ reports' = Append(reports, valid)
          /\ GPS!Transmit([number |-> Len(reports'), valid |-> valid])
    BY <1>3 DEF GPS!ReadFix
  <2>2. reports \in Seq(BOOLEAN) /\ Len(reports) < MaxFixes /\ Len(reports) \in Nat
    BY <1>3 DEF GPS!TypeOK, GPS!ReadFix
  <2>3. reports' \in Seq(BOOLEAN) /\ Len(reports') = Len(reports) + 1
    BY <2>1, <2>2
  <2>4. PICK f : f = [number |-> Len(reports'), valid |-> valid]
    OBVIOUS
  <2>5. Len(reports') \in 0..Len(reports') /\ Len(reports') <= MaxFixes
    BY <2>2, <2>3, Constants
  <2>6. f \in Fixes(Len(reports'))
    BY <2>1, <2>4, <2>5
  <2>7. simulate' = simulate /\ connection' = connection
    BY <1>3 DEF GPS!ReadFix
  <2>8. connection' \in {"opening", "open", "reopening"}
    BY <1>3, <2>7 DEF GPS!TypeOK
  <2>9. GPS!Transmit(f)
    BY <2>1, <2>4
  <2> HIDE DEF Fixes
  <2> QED  BY <1>2, <1>3, <2>3, <2>5, <2>6, <2>7, <2>8, <2>9
<1>4. ASSUME GPS!TypeOK, GPS!ReadOther \/ GPS!Reopen PROVE GPS!TypeOK'
  <2>1. PICK f \in {fix, GPS!NoFix} : GPS!Transmit(f)
    BY <1>4 DEF GPS!ReadOther, GPS!Reopen
  <2>2. reports' = reports /\ simulate' = simulate /\ connection' \in {"opening", "open", "reopening"}
    BY <1>4 DEF GPS!ReadOther, GPS!Reopen
  <2>3. reports \in Seq(BOOLEAN) /\ Len(reports) <= MaxFixes /\ fix \in Fixes(Len(reports))
    BY <1>4 DEF GPS!TypeOK
  <2>4. Len(reports) \in Nat
    BY <2>3
  <2>5. f \in Fixes(Len(reports))
    BY <1>0, <2>1, <2>3, <2>4
  <2> HIDE DEF Fixes
  <2> QED  BY <1>2, <1>4, <2>1, <2>2, <2>3, <2>5
<1>5. ASSUME GPS!TypeOK, GPS!TryOpenGPSInterface \/ GPS!FailRead PROVE GPS!TypeOK'
  <2>1. UNCHANGED <<simulate, reports, fix, locked, sent>> /\ connection' \in {"open", "reopening"}
    BY <1>5 DEF GPS!TryOpenGPSInterface, GPS!FailRead
  <2> QED  BY <1>5, <2>1 DEF GPS!TypeOK
<1>6. ASSUME GPS!TypeOK, GPS!TrySimulatedPositionData PROVE GPS!TypeOK'
  <2> DEFINE p == [locked |-> locked, number |-> 0]
  <2>1. UNCHANGED <<simulate, connection, reports, fix, locked>> /\ sent' = Append(sent, p)
    BY <1>6 DEF GPS!TrySimulatedPositionData
  <2>2. locked \in BOOLEAN /\ sent \in Seq(Passed)
    BY <1>6 DEF GPS!TypeOK
  <2>3. p \in Passed
    BY <2>2, Constants
  <2> HIDE DEF p, Passed
  <2>4. sent' \in Seq(Passed)
    BY <2>1, <2>2, <2>3
  <2> QED  BY <1>6, <2>1, <2>4 DEF GPS!TypeOK, Passed
<1> QED  BY <1>1, <1>3, <1>4, <1>5, <1>6 DEF GPS!Next

(* A remainder is below its divisor, and no more than what it is left of.  *)
LEMMA ModBounds ==
  ASSUME NEW m \in Nat \ {0}
  PROVE  /\ \A a \in Int : a % m \in 0..m - 1
         /\ \A a \in Nat : a % m <= a
<1>1. \A a \in Int : a % m \in 0..m - 1
  OBVIOUS
<1>2. \A a \in Nat : a % m <= a
  <2> SUFFICES ASSUME NEW a \in Nat PROVE a % m <= a
    OBVIOUS
  <2>1. CASE a < m
    BY <2>1, ModSmall
  <2>2. CASE a >= m
    BY <1>1, <2>2
  <2> QED  BY <2>1, <2>2
<1> QED  BY <1>1, <1>2

LEMMA SegmenterTyped ==
  /\ Cutter!Init => Cutter!TypeOK
  /\ Cutter!TypeOK /\ Cutter!Next => Cutter!TypeOK'
<1>1. ASSUME Cutter!Init PROVE Cutter!TypeOK
  <2>1. /\ transmissionSize \in 1..MaxSize /\ length \in 1..MaxLength
        /\ transmitted = 0 /\ state = "transmitting" /\ sent = <<>>
        /\ toTransmit = (transmissionSize - Overhead) % SizeModulus
        /\ sessionSize = transmissionSize % SizeModulus
    BY <1>1 DEF Cutter!Init, Overhead
  <2>2. transmissionSize \in Nat /\ transmissionSize - Overhead \in Int
    <3>1. transmissionSize \in Nat
      BY <2>1, Constants
    <3> QED  BY <3>1, RoomType
  <2>3. toTransmit \in Cutter!Size /\ sessionSize \in Cutter!Size
    <3>1. \A a \in Int : a % SizeModulus \in Cutter!Size
      BY Constants, ModBounds DEF Cutter!Size
    <3>2. transmissionSize \in Int
      BY <2>1, Constants
    <3> QED  BY <2>1, <2>2, <3>1, <3>2
  <2>4. transmitted \in 0..length
    BY <2>1
  <2>5. sent \in Seq([from : 0..length, bytes : Cutter!Size, size : Cutter!Size])
    BY <2>1
  <2> QED  BY <2>1, <2>3, <2>4, <2>5 DEF Cutter!TypeOK
<1>2. ASSUME Cutter!TypeOK, Cutter!Transmit PROVE Cutter!TypeOK'
  <2> DEFINE g == [from |-> transmitted, bytes |-> toTransmit', size |-> sessionSize']
             Cuts == [from : 0..length, bytes : Cutter!Size, size : Cutter!Size]
  <2>1. /\ transmitted \in 0..length /\ toTransmit \in Cutter!Size /\ sessionSize \in Cutter!Size
        /\ length \in Nat /\ transmissionSize \in Nat /\ sent \in Seq(Cuts)
    <3>1. transmissionSize \in 1..MaxSize /\ length \in 1..MaxLength
      BY <1>2 DEF Cutter!TypeOK
    <3> QED  BY <1>2, <3>1, Constants DEF Cutter!TypeOK
  <2>2. /\ sent' = Append(sent, g)
        /\ toTransmit' = IF Cutter!IsLast THEN (length - transmitted) % SizeModulus ELSE toTransmit
        /\ sessionSize' = IF Cutter!IsLast THEN (toTransmit' + Overhead) % SizeModulus
                          ELSE sessionSize
        /\ transmitted' = transmitted + toTransmit'
        /\ UNCHANGED <<transmissionSize, length>>
    BY <1>2 DEF Cutter!Transmit, Overhead
  <2>3. state' \in {"transmitting", "done", "overrun"}
    BY <1>2 DEF Cutter!Transmit
  <2>4. length - transmitted \in Nat
    BY <2>1
  <2>5. toTransmit' \in Cutter!Size
    <3>1. \A a \in Int : a % SizeModulus \in Cutter!Size
      BY Constants, ModBounds DEF Cutter!Size
    <3>2. length - transmitted \in Int
      BY <2>4
    <3> QED  BY <2>1, <2>2, <3>1, <3>2
  <2>6. toTransmit' + Overhead \in Int
    BY <2>1, <2>5, Constants, RoomType DEF Cutter!Size
  <2>7. sessionSize' \in Cutter!Size
    BY <2>1, <2>2, <2>6, Constants, ModBounds DEF Cutter!Size
  <2>8. transmitted' \in 0..length
    <3>1. transmitted \in Nat /\ toTransmit \in Nat /\ toTransmit' \in Nat
      BY <2>1, <2>5, Constants DEF Cutter!Size
    <3>2. CASE Cutter!IsLast
      <4>1. toTransmit' <= length - transmitted
        BY <2>2, <2>4, <3>2, Constants, ModBounds
      <4> QED  BY <2>1, <2>2, <3>1, <4>1
    <3>3. CASE ~Cutter!IsLast
      BY <2>1, <2>2, <3>1, <3>3 DEF Cutter!IsLast
    <3> QED  BY <3>2, <3>3
  <2>9. g \in Cuts
    BY <2>1, <2>5, <2>7
  <2>10. UNCHANGED <<transmissionSize, length>> /\ Cutter!Size' = Cutter!Size
    BY <2>2 DEF Cutter!Size
  <2> HIDE DEF g, Cuts
  <2>11. sent' \in Seq(Cuts)
    BY <2>1, <2>2, <2>9
  <2> QED  BY <1>2, <2>3, <2>5, <2>7, <2>8, <2>10, <2>11 DEF Cutter!TypeOK, Cuts
<1> QED  BY <1>1, <1>2 DEF Cutter!Next

LEMMA CardTyped ==
  /\ Card!Init => Card!TypeOK
  /\ CardInv /\ Card!TypeOK /\ Card!Next => Card!TypeOK'
<1> DEFINE Names == {Card!Stages[i] : i \in 1..Len(Card!Stages)} \cup {"exit"}
           Captures == [first : Card!Time, stamp : {Card!Unset} \cup Card!Time, recovered : BOOLEAN]
<1>0. Len(Card!Stages) = 7 /\ {Card!Stages[i] : i \in 1..7} \cup {"exit"} = Names
  BY DEF Card!Stages
<1>1. ASSUME Card!Init PROVE Card!TypeOK
  <2>1. CardInv
    BY <1>1, CardInit
  <2>2. /\ clock = 0 /\ params = "unset" /\ unread = 0 /\ thread = "wait"
        /\ stamp = Card!Unset /\ chunk = 0 /\ sent = <<>>
    BY <1>1 DEF Card!Init
  <2>3. misused \in BOOLEAN /\ overrun \in BOOLEAN /\ recovered \in BOOLEAN
    BY <1>1, Zenon DEF Card!Init
  <2>4. clock \in Card!Time /\ chunk \in Card!Time /\ unread \in 0..MaxTime + 1
    BY <2>2, Constants DEF Card!Time
  <2>5. stage \in Names
    BY <1>0, <2>1 DEF CardInv
  <2>6. sent \in Seq(Captures)
    BY <2>2
  <2> QED  BY <2>2, <2>3, <2>4, <2>5, <2>6 DEF Card!TypeOK
(* What is common to all steps: the stages, and what is true or false.     *)
<1>2. ASSUME CardInv', Card!TypeOK,
             clock' \in Card!Time, params' \in {"unset", "allocated", "freed"}, misused' \in BOOLEAN,
             unread' \in 0..MaxTime + 1, stamp' \in {Card!Unset} \cup Card!Time,
             chunk' \in Card!Time, sent' \in Seq(Captures)
      PROVE  Card!TypeOK'
  <2>1. stage' \in Names /\ thread' \in {"wait", "read", "stamp"}
    BY <1>0, <1>2 DEF CardInv
  <2>2. overrun' \in BOOLEAN /\ recovered' \in BOOLEAN
    BY <1>2, Zenon DEF CardInv
  <2>3. Card!Time' = Card!Time /\ Card!Unset' = Card!Unset /\ Card!Stages' = Card!Stages
    BY DEF Card!Time, Card!Unset, Card!Stages
  <2> QED  BY <1>2, <2>1, <2>2, <2>3, Zenon DEF Card!TypeOK
<1>3. ASSUME Card!TypeOK
      PROVE  /\ clock \in Card!Time /\ params \in {"unset", "allocated", "freed"} /\ misused \in BOOLEAN
             /\ unread \in 0..MaxTime + 1 /\ stamp \in {Card!Unset} \cup Card!Time
             /\ chunk \in Card!Time /\ sent \in Seq(Captures) /\ clock \in 0..MaxTime
             /\ clock + 1 \in 0..MaxTime + 1
  <2>1. clock \in 0..MaxTime
    BY <1>3 DEF Card!TypeOK, Card!Time
  <2>2. clock + 1 \in 0..MaxTime + 1
    BY <2>1, Constants
  <2> QED  BY <1>3, <2>1, <2>2, Zenon DEF Card!TypeOK
<1> SUFFICES ASSUME CardInv, Card!TypeOK, Card!Next PROVE Card!TypeOK'
  BY <1>1
<1>4. CardInv'
  BY CardStep
<1> HIDE DEF Names, Captures
<1>5. CASE Card!Call
  <2>1. UNCHANGED <<clock, misused, stamp, chunk, sent>>
    BY <1>5 DEF Card!Call, Card!reader
  <2>2. unread' \in 0..MaxTime + 1
    BY <1>3, <1>5 DEF Card!Call, Card!Start, Card!device
  <2>3. params' \in {"unset", "allocated", "freed"}
    BY <1>3, <1>5 DEF Card!Call
  <2> QED  BY <1>2, <1>3, <1>4, <2>1, <2>2, <2>3
<1>6. CASE Card!FailCall
  <2>1. UNCHANGED <<clock, unread, stamp, chunk, sent>>
    BY <1>6 DEF Card!FailCall, Card!reader, Card!device
  <2>2. params' \in {"unset", "allocated", "freed"}
    BY <1>3, <1>6 DEF Card!FailCall
  <2>3. misused' \in BOOLEAN
    <3>1. CASE stage = "start"
      BY <1>3, <1>6, <3>1 DEF Card!FailCall
    <3>2. CASE stage # "start"
      <4>1. Card!Cleanup
        BY <1>6, <3>2 DEF Card!FailCall
      <4>2. params = "unset" => misused' \in BOOLEAN
        BY <4>1 DEF Card!Cleanup
      <4>3. params = "allocated" => misused' = FALSE
        BY <4>1 DEF Card!Cleanup
      <4>4. params = "freed" => misused' = TRUE
        BY <4>1 DEF Card!Cleanup
      <4> QED  BY <1>3, <4>2, <4>3, <4>4
    <3> QED  BY <3>1, <3>2
  <2> QED  BY <1>2, <1>3, <1>4, <2>1, <2>2, <2>3
<1>7. CASE Card!Tick
  <2>1. UNCHANGED <<params, misused, unread, stamp, chunk, sent>> /\ clock < MaxTime /\ clock' = clock + 1
    BY <1>7 DEF Card!Tick, Card!setup, Card!reader
  <2>2. clock' \in Card!Time
    BY <1>3, <2>1, Constants DEF Card!Time
  <2> QED  BY <1>2, <1>3, <1>4, <2>1, <2>2
<1>8. CASE Card!WaitForFrames \/ Card!ExitInWait
  <2>1. UNCHANGED <<clock, params, misused, unread, stamp, chunk, sent>>
    BY <1>8 DEF Card!WaitForFrames, Card!ExitInWait, Card!setup, Card!reader, Card!device
  <2> QED  BY <1>2, <1>3, <1>4, <2>1
<1>9. CASE Card!ReadFrames
  <2>1. /\ UNCHANGED <<clock, params, misused, stamp, sent>>
        /\ chunk' = unread /\ unread' = unread + ChunkSize /\ stage = "run" /\ thread = "read"
    BY <1>9 DEF Card!ReadFrames, Card!setup
  <2>2. clock - unread + 1 > ChunkSize
    BY <2>1 DEF CardInv, Running, Card!Available
  <2>3. unread \in Nat /\ clock \in Nat /\ clock <= MaxTime
    BY <1>3, Constants
  <2>4. chunk' \in Card!Time /\ unread' \in 0..MaxTime + 1
    BY <2>1, <2>2, <2>3, Constants DEF Card!Time
  <2> QED  BY <1>2, <1>3, <1>4, <2>1, <2>4
<1>10. CASE Card!FailRead
  <2>1. UNCHANGED <<clock, params, misused, stamp, chunk, sent>> /\ unread' = clock + 1
    BY <1>10 DEF Card!FailRead, Card!Start, Card!setup
  <2> QED  BY <1>2, <1>3, <1>4, <2>1
<1>11. CASE Card!PassChunk
  <2> DEFINE c == [first |-> chunk, stamp |-> stamp, recovered |-> recovered]
  <2>1. UNCHANGED <<clock, params, misused, unread, chunk>> /\ stamp' = clock /\ sent' = Append(sent, c)
    BY <1>11 DEF Card!PassChunk, Card!UpdateTimeStamp, Card!UpdateTimeStampMetaData,
                 Card!setup, Card!device
  <2>2. recovered \in BOOLEAN
    BY Zenon DEF CardInv
  <2>3. c \in Captures
    BY <1>3, <2>2 DEF Captures
  <2> HIDE DEF c
  <2>4. sent' \in Seq(Captures)
    BY <1>3, <2>1, <2>3
  <2> QED  BY <1>2, <1>3, <1>4, <2>1, <2>4
<1> QED
  BY <1>5, <1>6, <1>7, <1>8, <1>9, <1>10, <1>11 DEF Card!Next

(* The file that is open is the one info is of, and no position in it is   *)
(* beyond its end.                                                         *)
OpenInfo == current \in 1..Len(Files) => info = Files[current]

(* From a position up to the end samples are read, never a negative number. *)
LEMMA SamplesPositive ==
  ASSUME NEW i \in Infos, NEW from \in Nat, from <= i.frames * i.channels
  PROVE  from + Reader!SamplesRead(i, from) \in Nat
<1> DEFINE a == ChunkSize * i.channels
           b == i.frames * i.channels - from
<1>1. a \in Nat /\ b \in Nat
  <2>1. i.channels \in Nat /\ i.frames \in Nat /\ ChunkSize \in Nat
    BY Constants DEF Infos
  <2> QED  BY <2>1
<1>2. Reader!SamplesRead(i, from) = Reader!Min({a, b})
  BY DEF Reader!SamplesRead
<1> HIDE DEF a, b
<1>3. \E x \in {a, b} : \A y \in {a, b} : x <= y
  BY <1>1
<1>4. Reader!Min({a, b}) \in {a, b}
  BY <1>3, Zenon DEF Reader!Min
<1> QED  BY <1>1, <1>2, <1>4

LEMMA FilesPlayed ==
  ASSUME NEW f \in 1..Len(Files), NEW from \in Nat, from = 0 \/ from < Files[f].frames
  PROVE  from <= Files[f].frames * Files[f].channels
<1> DEFINE FileInfos == [frames : Nat, channels : Nat \ {0}]
<1>1. Files \in Seq(FileInfos)
  BY FilesAssumption
<1>2. Files[f] \in FileInfos
  <2> HIDE DEF FileInfos
  <2> QED  BY <1>1
<1>3. PICK a \in Nat, c \in Nat \ {0} : a = Files[f].frames /\ c = Files[f].channels
  BY <1>2
<1>4. a <= a * c /\ 0 <= a * c
  BY <1>3
<1> QED  BY <1>3, <1>4

LEMMA ReaderTyped ==
  /\ Reader!Init => Reader!TypeOK /\ OpenInfo
  /\ ReaderInv /\ Reader!TypeOK /\ OpenInfo /\ Reader!Next => Reader!TypeOK' /\ OpenInfo'
<1> DEFINE Chunks == [file : 1..Len(Files), from : Nat, to : Nat, length : Nat]
(* The last conjunct of the type: a list that was run through to its end.  *)
<1>1. ASSUME ReaderInv, current = Reader!NoFile, index = Len(Files) PROVE sent[Len(sent)].length = 0
  <2>1. sent # <<>> /\ BetweenFiles
    BY <1>1, FilesType DEF ReaderInv
  <2>2. LastRead \in Reads
    BY <1>1, <2>1 DEF ReaderInv, LastRead
  <2>3. LastRead.file \in 1..Len(Files)
    BY <2>2 DEF Reads
  <2>4. LastRead.file % Len(Files) \in 0..Len(Files) - 1 /\ Len(Files) \in Nat
    BY <2>3, NextFile, FilesType
  <2>5. index # LastRead.file % Len(Files)
    BY <1>1, <2>4
  <2> QED  BY <2>1, <2>5 DEF BetweenFiles, LastRead
<1>2. ASSUME ReaderInv, current \in Reader!Ended..Len(Files), position \in Nat, sent \in Seq(Chunks)
      PROVE  Reader!TypeOK
  <2>1. index \in 0..Len(Files) /\ info \in [frames : Nat, channels : Nat]
    BY <1>2 DEF ReaderInv, Infos
  <2> QED  BY <1>1, <1>2, <2>1, Zenon DEF Reader!TypeOK
<1>3. ASSUME ReaderInv', current' \in Reader!Ended..Len(Files), position' \in Nat, sent' \in Seq(Chunks)
      PROVE  Reader!TypeOK'
  <2>1. index' \in 0..Len(Files) /\ info' \in [frames : Nat, channels : Nat]
    BY <1>3 DEF ReaderInv, Infos
  <2>2. ASSUME current' = Reader!NoFile, index' = Len(Files) PROVE sent'[Len(sent')].length = 0
    <3>1. sent' # <<>> /\ BetweenFiles'
      BY <1>3, <2>2, FilesType DEF ReaderInv, Reader!NoFile
    <3>2. LastRead' \in Reads
      BY <1>3, <3>1 DEF ReaderInv, LastRead
    <3>3. LastRead'.file \in 1..Len(Files)
      BY <3>2 DEF Reads
    <3>4. LastRead'.file % Len(Files) \in 0..Len(Files) - 1 /\ Len(Files) \in Nat
      BY <3>3, NextFile, FilesType
    <3>5. index' # LastRead'.file % Len(Files)
      BY <2>2, <3>4
    <3> QED  BY <3>1, <3>5 DEF BetweenFiles, LastRead
  <2>3. Reader!NoFile' = Reader!NoFile /\ Reader!Ended' = Reader!Ended
    BY DEF Reader!NoFile, Reader!Ended
  <2> QED  BY <1>3, <2>1, <2>2, <2>3, Zenon DEF Reader!TypeOK
<1>4. ASSUME Reader!Init PROVE Reader!TypeOK /\ OpenInfo
  <2>1. ReaderInv
    BY <1>4, ReaderInit
  <2>2. current \in {0, -1} /\ position = 0 /\ sent = <<>>
    BY <1>4 DEF Reader!Init, Reader!NoFile, Reader!Wild
  <2>3. current \in Reader!Ended..Len(Files) /\ current \notin 1..Len(Files)
    BY <2>2, FilesType DEF Reader!Ended
  <2>4. sent \in Seq(Chunks) /\ position \in Nat
    BY <2>2
  <2> HIDE DEF Chunks
  <2> QED  BY <1>2, <2>1, <2>3, <2>4 DEF OpenInfo
(* A chunk read of the file f.                                             *)
<1>5. ASSUME ReaderInv', Reader!TypeOK, NEW f \in 1..Len(Files), NEW from \in Nat,
             from = 0 \/ from < Files[f].frames, Reader!ReadChunk(f, Files[f], from, f)
      PROVE  Reader!TypeOK' /\ OpenInfo'
  <2>1. PICK to : to = from + Reader!SamplesRead(Files[f], from)
    OBVIOUS
  <2>2. to \in Nat
    BY <1>5, <2>1, FilesType, FilesPlayed, SamplesPositive
  <2> DEFINE r == [file |-> f, from |-> from, to |-> to, length |-> Files[f].frames]
  <2>3. /\ info' = Files[f] /\ position' = to /\ current' \in {Reader!NoFile, f}
        /\ sent' = Append(sent, r)
    BY <1>5, <2>1 DEF Reader!ReadChunk, Reader!Passed
  <2>4. Files[f].frames \in Nat
    BY FilesType DEF Infos
  <2>5. r \in Chunks
    BY <2>2, <2>4
  <2>6. sent \in Seq(Chunks)
    BY <1>5 DEF Reader!TypeOK
  <2>7. current' \in Reader!Ended..Len(Files) /\ (current' \in 1..Len(Files) => current' = f)
    BY <2>3, FilesType DEF Reader!NoFile, Reader!Ended
  <2> HIDE DEF r, Chunks
  <2>8. sent' \in Seq(Chunks)
    BY <2>3, <2>5, <2>6
  <2>9. OpenInfo'
    BY <2>3, <2>7 DEF OpenInfo
  <2> QED  BY <1>3, <1>5, <2>2, <2>3, <2>7, <2>8, <2>9
<1> SUFFICES ASSUME ReaderInv, Reader!TypeOK, OpenInfo, Reader!Next
             PROVE  Reader!TypeOK' /\ OpenInfo'
  BY <1>4
<1>6. ReaderInv'
  BY ReaderOpenFile, ReaderFailOpen, ReaderContinueFile, ReaderCrash DEF Reader!Next
<1>7. current \in Reader!Ended..Len(Files) /\ position \in Nat /\ sent \in Seq(Chunks)
  BY DEF Reader!TypeOK
<1>8. CASE Reader!OpenFile
  <2>1. PICK f : f = index + 1
    OBVIOUS
  <2>2. f \in 1..Len(Files) /\ Reader!ReadChunk(f, Files[f], 0, f)
    BY <1>8, <2>1, NextOpened DEF Reader!OpenFile
  <2> QED  BY <1>5, <1>6, <2>2
<1>9. CASE Reader!ContinueFile
  <2>1. /\ current \in 1..Len(Files) /\ InFile /\ info = Files[current]
        /\ Reader!ReadChunk(current, info, position, index)
    BY <1>9 DEF Reader!ContinueFile, ReaderInv, OpenInfo
  <2>2. index = current /\ position < info.frames
    BY <2>1 DEF InFile
  <2>3. PICK f, from : f = current /\ from = position
    OBVIOUS
  <2>4. /\ f \in 1..Len(Files) /\ from \in Nat /\ from < Files[f].frames
        /\ Reader!ReadChunk(f, Files[f], from, f)
    BY <1>7, <2>1, <2>2, <2>3
  <2> QED  BY <1>5, <1>6, <2>4
<1>10. CASE Reader!FailOpen
  <2> DEFINE r == [file |-> index + 1, from |-> 0, to |-> 0, length |-> 0]
  <2>1. Reader!MayOpen /\ current = Reader!NoFile /\ current' = current /\ position' = 0
        /\ sent' = Append(sent, r)
    BY <1>10 DEF Reader!FailOpen, Reader!MayOpen, Reader!Passed
  <2>2. r \in Chunks
    BY <2>1, NextOpened
  <2> HIDE DEF r, Chunks
  <2>3. sent' \in Seq(Chunks) /\ position' \in Nat /\ current' \in Reader!Ended..Len(Files)
    BY <1>7, <2>1, <2>2
  <2>4. current' \notin 1..Len(Files)
    BY <2>1 DEF Reader!NoFile
  <2> QED  BY <1>3, <1>6, <2>3, <2>4 DEF OpenInfo
<1>11. CASE Reader!Crash
  <2>1. UNCHANGED <<index, info, position, sent>> /\ current' = Reader!Ended
    BY <1>11 DEF Reader!Crash
  <2>2. current' \in Reader!Ended..Len(Files) /\ current' \notin 1..Len(Files)
    BY <2>1, FilesType DEF Reader!Ended
  <2> HIDE DEF Chunks
  <2> QED  BY <1>3, <1>6, <1>7, <2>1, <2>2 DEF OpenInfo
<1> QED  BY <1>8, <1>9, <1>10, <1>11 DEF Reader!Next

(* Whatever the node is made of, its state has its type: a captured chunk  *)
(* starts with a frame that was there, a segment lies within its chunk, a  *)
(* file is never read beyond its end (WAVReaderModule.cpp:12-44).          *)
THEOREM TypeCorrect == Spec => []TypeOK
<1> DEFINE LimiterPart == module = "limiter" => LimiterInv /\ Limiter!TypeOK
           SimulatorPart == module = "simulator" => Sim!TypeOK
           GPSPart == module = "gps" => GPS!TypeOK
           SegmenterPart == module = "segmenter" => Cutter!TypeOK
           CardPart == module = "card" => CardInv /\ Card!TypeOK
           ReaderPart == module = "reader" => ReaderInv /\ Reader!TypeOK /\ OpenInfo
           IInv == /\ LimiterPart /\ SimulatorPart /\ GPSPart
                   /\ SegmenterPart /\ CardPart /\ ReaderPart
<1>1. Init => IInv
  BY LimiterInit, LimiterTyped, SimulatorTyped, GPSTyped, SegmenterTyped,
     CardInit, CardTyped, ReaderInit, ReaderTyped DEF Init
<1>2. IInv /\ [Next]_vars => IInv'
  <2> SUFFICES ASSUME IInv, [Next]_vars PROVE IInv'
    OBVIOUS
  <2>1. CASE Simulate
    BY <2>1, SimulatorTyped DEF Simulate
  <2>2. CASE Capture
    BY <2>2, CardStep, CardTyped DEF Capture
  <2>3. CASE Play
    <3>1. ReaderInv /\ Reader!Next => ReaderInv'
      BY ReaderOpenFile, ReaderFailOpen, ReaderContinueFile, ReaderCrash DEF Reader!Next
    <3> QED  BY <2>3, <3>1, ReaderTyped DEF Play
  <2>4. CASE Locate
    BY <2>4, GPSTyped DEF Locate
  <2>5. CASE Limit
    BY <2>5, LimiterStep, LimiterTyped DEF Limit
  <2>6. CASE Cut
    BY <2>6, SegmenterTyped DEF Cut
  <2>7. CASE UNCHANGED vars
    <3>1. LimiterPart'
      BY <2>7 DEF vars, limiter, LimiterInv, Age, Limiter!TypeOK
    <3>2. SimulatorPart'
      BY <2>7 DEF vars, simulator, Sim!TypeOK, Sim!ChunkPeriod, Sim!ClockModes
    <3>3. GPSPart'
      BY <2>7 DEF vars, gps, GPS!TypeOK
    <3>4. SegmenterPart'
      BY <2>7 DEF vars, segmenter, Cutter!TypeOK, Cutter!Size
    <3>5. CardPart'
      BY <2>7 DEF vars, card, CardInv, Running, UnreadCaptured, ChunkCaptured, Captured,
                  Card!Available, Card!TypeOK, Card!Time, Card!Stages, Card!Unset
    <3>6. ReaderPart'
      BY <2>7 DEF vars, reader, ReaderInv, BetweenFiles, InFile, LastRead, Follows, OpenInfo,
                  Reader!TypeOK, Reader!NoFile, Reader!Wild, Reader!Ended
    <3> QED  BY <3>1, <3>2, <3>3, <3>4, <3>5, <3>6
  <2> QED  BY <2>1, <2>2, <2>3, <2>4, <2>5, <2>6, <2>7 DEF Next
<1>3. IInv => TypeOK
  BY DEF TypeOK
<1> QED  BY <1>1, <1>2, <1>3, PTL DEF Spec
==============================================================================
