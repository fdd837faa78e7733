--------------------------- MODULE TimeChunkSync ---------------------------
(***************************************************************************)
(* TimeChunkSynchronisationModule: gathers the time chunks and the GPS     *)
(* positions of several sensors and emits TDOA chunks, one fixed stretch   *)
(* of samples of every sensor, for multilateration.                        *)
(*                                                                         *)
(* The handlers Process_TimeChunk and Process_GPSChunk run on one thread   *)
(* and are atomic.  Around them stand the sensors: each owns a sample      *)
(* clock, may lose chunks on its way to the module, and may reboot with    *)
(* another clock reading and another number of channels.                   *)
(*                                                                         *)
(* Units: time is counted in ticks, both wall clock and chunk timestamps;  *)
(* a source records Rate[s] samples of every channel per tick.  The        *)
(* channels of a source are filled and erased together, so its queues are  *)
(* one sequence of samples with a channel count; a sample is known by the  *)
(* time it was taken and the channel layout it was taken with.             *)
(***************************************************************************)
EXTENDS Integers, Sequences, FiniteSets

CONSTANTS
  Sources,       \* source identifiers; numbers, for the order of std::map
  Rate,          \* sample rate of each source, in samples per tick
  ChunkTicks,    \* duration of a time chunk
  ErrBound,      \* i64ErrorBound_us: largest tolerated timestamp error
  TDOALength,    \* m_TDOALength_s: duration of an emitted stretch
  SyncInterval,  \* m_u64SyncInterval_ns
  ChannelTimeout,\* m_u64ChannelTimoutThreshold_us
  MinSources,    \* the 3 of CheckQueuesHaveDataForMultilateration
  Layouts,       \* channel counts a source may boot with
  MaxBoot,       \* bound: latest first sample time of a source
  MaxFaults,     \* bound: chunks lost and reboots together
  MaxTime        \* bound: ticks of the wall clock

ASSUME SourcesAssumption == Sources \subseteq Nat /\ IsFiniteSet(Sources)
ASSUME RateAssumption == Rate \in [Sources -> Nat \ {0}]
ASSUME DurationsAssumption ==
  /\ ChunkTicks \in Nat \ {0} /\ TDOALength \in Nat \ {0}
  /\ ErrBound \in Nat /\ SyncInterval \in Nat /\ ChannelTimeout \in Nat
ASSUME LimitsAssumption ==
  /\ MinSources \in Nat \ {0} /\ Layouts \subseteq Nat \ {0}
  /\ MaxBoot \in Nat /\ MaxFaults \in Nat /\ MaxTime \in Nat

VARIABLES
  now,        \* the wall clock, also the steady clock
  clock,      \* clock[s]: time of the next sample source s will send
  layout,     \* layout[s]: channel count source s currently runs with
  faults,     \* chunks lost and reboots so far
  oldest,     \* m_OldestSourceTimestampMap
  recent,     \* m_MostRecentSourceTimestamp
  timeData,   \* m_TimeDataSourceMap: channel count and queued samples
  sampleRate, \* m_dSampleRate_hz
  lastSync,   \* m_tpLastSyncAttempt
  gps,        \* m_dSourceLatitudesMap and m_dSourceLongitudesMap
  tdoa,       \* the last TDOA chunk passed on
  history     \* per stored source: stretches taken, any timestamp jump

sensors == <<clock, layout, faults>>
store   == <<oldest, recent, timeData>>
vars    == <<now, sensors, store, sampleRate, lastSync, gps, tdoa, history>>

-----------------------------------------------------------------------------
(* Maps, as std::map: the keys are the domain.                             *)

EmptyMap == [s \in {} |-> 0]
Put(f, s, v) == [x \in DOMAIN f \cup {s} |-> IF x = s THEN v ELSE f[x]]
IsMapInto(f, V) == DOMAIN f \subseteq Sources /\ f \in [DOMAIN f -> V]

Abs(n) == IF n < 0 THEN -n ELSE n

Sample == [t : Nat, layout : Layouts]
Queue  == [channels : Layouts, samples : Seq(Sample)]
Position == {"received", "zero"}
NoChunk == [at |-> -1]

(* The time chunk source s sends next.                                     *)
NextChunk(s) ==
  [src |-> s, ts |-> clock[s], rate |-> Rate[s], channels |-> layout[s],
   samples |-> [i \in 1..ChunkTicks * Rate[s] |->
                  [t |-> clock[s] + ((i - 1) \div Rate[s]), layout |-> layout[s]]]]

-----------------------------------------------------------------------------
(* The steps of Process_TimeChunk.  Each takes the maps as the steps       *)
(* before it left them.                                                    *)

InitialisedData(c) ==
  IF c.src \in DOMAIN timeData THEN timeData
  ELSE Put(timeData, c.src, [channels |-> c.channels, samples |-> <<>>])

InitialisedRecent(c) ==
  IF c.src \in DOMAIN timeData THEN recent ELSE Put(recent, c.src, c.ts)

(* Mutant: takes the timestamp for the end of the chunk.                   *)
InitialisedOldest_EndStamped(c) ==
  IF c.src \in DOMAIN oldest THEN oldest ELSE Put(oldest, c.src, c.ts - ChunkTicks)

InitialisedOldest(c) ==
  IF c.src \in DOMAIN oldest THEN oldest ELSE Put(oldest, c.src, c.ts)

(* Mutant: forgets the absolute value.                                     *)
IsDataContinuous_OneSided(mostRecent, c) ==
  c.src \in DOMAIN mostRecent =>
    c.ts - (mostRecent[c.src] + (Len(c.samples) \div c.rate)) <= ErrBound

(* The expected time is one NEW chunk's duration after the last timestamp, *)
(* for the first chunk of a source too.                                    *)
IsDataContinuous(mostRecent, c) ==
  c.src \in DOMAIN mostRecent =>
    Abs(c.ts - (mostRecent[c.src] + (Len(c.samples) \div c.rate))) <= ErrBound

(* Mutant: never compares.                                                 *)
IsChannelCountTheSame_Always(data, c) == TRUE

IsChannelCountTheSame(data, c) == data[c.src].channels = c.channels

StoredData(data, c) ==
  [data EXCEPT ![c.src].samples = @ \o c.samples]

(* Mutant: off by one.                                                     *)
CheckQueuesHaveDataForMultilateration_OneLess(data) ==
  Cardinality(DOMAIN data) >= MinSources - 1

CheckQueuesHaveDataForMultilateration(data) == Cardinality(DOMAIN data) >= MinSources

(* Two counts are compared, not the sources they count.                    *)
CheckWeHaveEnoughGPSData(old) ==
  gps # EmptyMap /\ Cardinality(DOMAIN old) = Cardinality(DOMAIN gps)

ShouldWeTrySynchronise == now - lastSync > SyncInterval
(* Mutant: an attempt leaves the interval running.                         *)
LastSyncAfterAttempt_NotReset == lastSync

LastSyncAfterAttempt == IF ShouldWeTrySynchronise THEN now ELSE lastSync

SamplesRequired(rate) == TDOALength * rate

(* Mutant: lets an emission take everything.                               *)
CheckQueuesHaveEnoughData_Exactly(data, rate) ==
  \A s \in DOMAIN data : Len(data[s].samples) >= SamplesRequired(rate)

CheckQueuesHaveEnoughData(data, rate) ==
  \A s \in DOMAIN data : Len(data[s].samples) > SamplesRequired(rate)

(* SynchronizeChannels: drop what every source recorded before the start   *)
(* of the source that started last, unless that would empty its queue.     *)
LatestStart(old) ==
  CHOOSE t \in {old[s] : s \in DOMAIN old} : \A s \in DOMAIN old : old[s] <= t

SamplesToRemove(old, rate, s) == rate * (LatestStart(old) - old[s])

MayTrim(data, old, rate, s) ==
  SamplesToRemove(old, rate, s) \in 1..Len(data[s].samples) - 1

TrimmedData(data, old, rate) ==
  [s \in DOMAIN data |->
     IF MayTrim(data, old, rate, s)
     THEN [data[s] EXCEPT !.samples =
             SubSeq(@, SamplesToRemove(old, rate, s) + 1, Len(@))]
     ELSE data[s]]

(* Mutant: drops samples and leaves their timestamp.                       *)
TrimmedOldest_Unmoved(data, old, rate) == old

TrimmedOldest(data, old, rate) ==
  [s \in DOMAIN old |->
     IF MayTrim(data, old, rate, s) THEN LatestStart(old) ELSE old[s]]

(* CreateSynchronizedTimeChunk: the timestamp is that of the first source  *)
(* in map order, and operator[] on the position maps makes up a position   *)
(* (0,0) for a source that has none.                                       *)
FirstSource(old) == CHOOSE s \in DOMAIN old : \A r \in DOMAIN old : s <= r

PositionsAfterRead(data) ==
  [s \in DOMAIN gps \cup DOMAIN data |-> IF s \in DOMAIN gps THEN gps[s] ELSE "zero"]

(* Mutant: every source is cut at its own rate.                            *)
CreateSynchronizedTimeChunk_OwnRates(data, old, rate) ==
  [at |-> now,
   stamp |-> old[FirstSource(old)],
   segments |-> [s \in DOMAIN data |->
                   SubSeq(data[s].samples, 1, SamplesRequired(Rate[s]))],
   positions |-> [s \in DOMAIN data |-> PositionsAfterRead(data)[s]]]

CreateSynchronizedTimeChunk(data, old, rate) ==
  [at |-> now,
   stamp |-> old[FirstSource(old)],
   segments |-> [s \in DOMAIN data |->
                   SubSeq(data[s].samples, 1, SamplesRequired(rate))],
   positions |-> [s \in DOMAIN data |-> PositionsAfterRead(data)[s]]]

(* Mutant: erases one sample too few.                                      *)
RemainingData_OneMore(data, rate) ==
  [s \in DOMAIN data |->
     [data[s] EXCEPT !.samples = SubSeq(@, SamplesRequired(rate), Len(@))]]

RemainingData(data, rate) ==
  [s \in DOMAIN data |->
     [data[s] EXCEPT !.samples = SubSeq(@, SamplesRequired(rate) + 1, Len(@))]]

-----------------------------------------------------------------------------
(* History kept for the properties only.                                   *)

Remember(c) ==
  IF c.src \in DOMAIN history
  THEN [history EXCEPT ![c.src].jumped =
          @ \/ c.ts # recent[c.src] + ChunkTicks]
  ELSE Put(history, c.src, [taken |-> 0, jumped |-> FALSE])

CountTaken(h) == [s \in DOMAIN h |-> [h[s] EXCEPT !.taken = @ + 1]]

-----------------------------------------------------------------------------
(* The handlers.                                                           *)

ClearState ==
  /\ oldest' = EmptyMap /\ recent' = EmptyMap /\ timeData' = EmptyMap
  /\ gps' = EmptyMap
  /\ sampleRate' = 0
  /\ lastSync' = now
  /\ history' = EmptyMap

(* The chunk breaks its source's timeline or channel layout: everything    *)
(* gathered of every source is dropped, with the chunk.                    *)
RejectTimeChunk(c) ==
  /\ \/ ~IsDataContinuous(InitialisedRecent(c), c)
     \/ ~IsChannelCountTheSame(InitialisedData(c), c)
  /\ ClearState
  /\ UNCHANGED tdoa

(* The chunk is stored and the three conditions are evaluated.  The        *)
(* "return" under them has no semicolon: it returns the value of the call  *)
(* SynchronizeChannels(), which so runs only when nothing can be emitted.  *)
AcceptTimeChunk(c) ==
  LET data  == StoredData(InitialisedData(c), c)
      old   == InitialisedOldest(c)
      rate  == c.rate
      mayEmit == /\ CheckQueuesHaveDataForMultilateration(data)
                 /\ CheckWeHaveEnoughGPSData(old)
                 /\ ShouldWeTrySynchronise
  IN /\ IsDataContinuous(InitialisedRecent(c), c)
     /\ IsChannelCountTheSame(InitialisedData(c), c)
     /\ recent' = Put(recent, c.src, c.ts)
     /\ sampleRate' = rate
     /\ lastSync' = LastSyncAfterAttempt
     /\ \/ /\ ~mayEmit
           /\ timeData' = TrimmedData(data, old, rate)
           /\ oldest' = TrimmedOldest(data, old, rate)
           /\ history' = Remember(c)
           /\ UNCHANGED <<gps, tdoa>>
        \/ /\ mayEmit
           /\ ~CheckQueuesHaveEnoughData(data, rate)
           /\ timeData' = data
           /\ oldest' = old
           /\ history' = Remember(c)
           /\ UNCHANGED <<gps, tdoa>>
        \/ /\ mayEmit
           /\ CheckQueuesHaveEnoughData(data, rate)
           /\ tdoa' = CreateSynchronizedTimeChunk(data, old, rate)
           /\ timeData' = RemainingData(data, rate)
           /\ oldest' = old
           /\ gps' = PositionsAfterRead(data)
           /\ history' = CountTaken(Remember(c))

Process_TimeChunk(s) ==
  /\ clock[s] + ChunkTicks <= now
  /\ RejectTimeChunk(NextChunk(s)) \/ AcceptTimeChunk(NextChunk(s))
  /\ clock' = [clock EXCEPT ![s] = @ + ChunkTicks]
  /\ UNCHANGED <<now, layout, faults>>

(* Whether the receiver had a lock is not looked at.                       *)
Process_GPSChunk(s) ==
  /\ gps' = Put(gps, s, "received")
  /\ UNCHANGED <<now, sensors, store, sampleRate, lastSync, tdoa, history>>

-----------------------------------------------------------------------------
(* The surroundings.                                                       *)

(* A chunk is dropped on its way: a full input buffer, a broken link.      *)
LoseChunk(s) ==
  /\ faults < MaxFaults
  /\ clock[s] + ChunkTicks <= now
  /\ clock' = [clock EXCEPT ![s] = @ + ChunkTicks]
  /\ faults' = faults + 1
  /\ UNCHANGED <<now, layout, store, sampleRate, lastSync, gps, tdoa, history>>

Reboot(s) ==
  /\ faults < MaxFaults
  /\ \E t \in 0..now, n \in Layouts :
       /\ clock' = [clock EXCEPT ![s] = t]
       /\ layout' = [layout EXCEPT ![s] = n]
  /\ faults' = faults + 1
  /\ UNCHANGED <<now, store, sampleRate, lastSync, gps, tdoa, history>>

Tick ==
  /\ now < MaxTime
  /\ now' = now + 1
  /\ UNCHANGED <<sensors, store, sampleRate, lastSync, gps, tdoa, history>>

(* m_dSampleRate_hz is not initialised by the constructor; StoreData       *)
(* writes it before anything reads it.                                     *)
Init ==
  /\ now = 0
  /\ clock \in [Sources -> 0..MaxBoot]
  /\ layout \in [Sources -> Layouts]
  /\ faults = 0
  /\ oldest = EmptyMap /\ recent = EmptyMap /\ timeData = EmptyMap
  /\ sampleRate \in {0} \cup {Rate[s] : s \in Sources}
  /\ lastSync = 0
  /\ gps = EmptyMap
  /\ tdoa = NoChunk
  /\ history = EmptyMap

Next ==
  \/ Tick
  \/ \E s \in Sources :
       \/ Process_TimeChunk(s)
       \/ Process_GPSChunk(s)
       \/ LoseChunk(s)
       \/ Reboot(s)

Spec == Init /\ [][Next]_vars

-----------------------------------------------------------------------------
(* Properties.                                                             *)

(* Every state component has its type; in particular the maps only ever    *)
(* hold sources, and the queues samples.                                   *)
TypeOK ==
  /\ now \in Nat /\ faults \in Nat /\ lastSync \in Nat /\ sampleRate \in Nat
  /\ clock \in [Sources -> Nat] /\ layout \in [Sources -> Layouts]
  /\ IsMapInto(oldest, Nat) /\ IsMapInto(recent, Nat)
  /\ IsMapInto(timeData, Queue)
  /\ IsMapInto(gps, Position)
  /\ tdoa # NoChunk => /\ tdoa.at \in Nat /\ tdoa.stamp \in Nat
                      /\ IsMapInto(tdoa.segments, Seq(Sample))
                      /\ IsMapInto(tdoa.positions, Position)
  /\ IsMapInto(history, [taken : Nat, jumped : BOOLEAN])

(* Between two handlers the three maps know the same sources: an early     *)
(* return never leaves a source half entered, so no operator[] of a later  *)
(* step makes up an entry.  Nor does trimming or emitting ever empty a     *)
(* queue, or a reboot slip samples of another channel count into it.       *)
StoresAgree ==
  /\ DOMAIN oldest = DOMAIN timeData /\ DOMAIN recent = DOMAIN timeData
  /\ \A s \in DOMAIN timeData :
       /\ timeData[s].samples # <<>>
       /\ \A i \in 1..Len(timeData[s].samples) :
            timeData[s].samples[i].layout = timeData[s].channels

(* Neighbours in a queue were taken at most the tolerated error apart from *)
(* where the sample clock puts them, whatever was lost or rebooted, and    *)
(* also across the seam an emission or a trim leaves.                      *)
GapsBounded ==
  \A s \in DOMAIN timeData : \A i \in 1..Len(timeData[s].samples) - 1 :
    timeData[s].samples[i + 1].t - timeData[s].samples[i].t \in -ErrBound..ErrBound + 1

SameRate == \A r, s \in Sources : Rate[r] = Rate[s]

(* What m_OldestSourceTimestampMap really says about a queue whose source  *)
(* never jumped: its first sample was taken exactly TDOALength later for   *)
(* every stretch already taken from it, for trimming moves the timestamp   *)
(* with the samples and emitting does not.  Two queues with equal entries  *)
(* are therefore aligned only when equally many stretches were taken.      *)
HeadLag ==
  SameRate =>
    \A s \in DOMAIN timeData : ~history[s].jumped =>
      timeData[s].samples[1].t = oldest[s] + TDOALength * history[s].taken

(* A TDOA chunk carries enough sources to multilaterate, with a position   *)
(* for each and equally long stretches, each within one channel layout     *)
(* and with no gap beyond the tolerated one.                               *)
TDOAWellFormed ==
  tdoa # NoChunk =>
    /\ Cardinality(DOMAIN tdoa.segments) >= MinSources
    /\ DOMAIN tdoa.positions = DOMAIN tdoa.segments
    /\ \E n \in {TDOALength * Rate[s] : s \in DOMAIN tdoa.segments} :
         \A s \in DOMAIN tdoa.segments : Len(tdoa.segments[s]) = n
    /\ \A s \in DOMAIN tdoa.segments : \A i \in 1..Len(tdoa.segments[s]) - 1 :
         /\ tdoa.segments[s][i + 1].layout = tdoa.segments[s][i].layout
         /\ tdoa.segments[s][i + 1].t - tdoa.segments[s][i].t \in -ErrBound..ErrBound + 1

(* Two emissions lie more than the sync interval apart, also when the      *)
(* state was cleared or an attempt failed in between.                      *)
EmissionsSpaced ==
  [][tdoa' # tdoa /\ tdoa # NoChunk => tdoa'.at - tdoa.at > SyncInterval]_vars

(* While nothing goes wrong no sample of a source is emitted twice: every  *)
(* stretch starts after the end of the one before it.                      *)
EmissionsAdvance ==
  [][tdoa' # tdoa /\ tdoa # NoChunk /\ faults = 0 =>
       \A s \in DOMAIN tdoa.segments \cap DOMAIN tdoa'.segments :
         tdoa'.segments[s][1].t > tdoa.segments[s][Len(tdoa.segments[s])].t]_vars

(* tests/TestTimeChunkSynchronisationModule.cpp:83: before emitting, a GPS *)
(* position was received from each source in the chunk.                    *)
PositionsReceived ==
  tdoa # NoChunk => \A s \in DOMAIN tdoa.positions : tdoa.positions[s] = "received"

(* TimeChunkSynchronisationModule.h:122: the emitted data of all sources   *)
(* is synchronized, here: starts at the same time, as no chunk was lost.   *)
ChunkSynchronized ==
  tdoa # NoChunk /\ faults = 0 =>
    \A r, s \in DOMAIN tdoa.segments : tdoa.segments[r][1].t = tdoa.segments[s][1].t

(* HasChannelTimeoutOccured, whose call in Process_TimeChunk is commented  *)
(* out.                                                                    *)
HasChannelTimeoutOccured ==
  \E s \in DOMAIN recent : now - recent[s] > ChannelTimeout

(* TimeChunkSynchronisationModule.h:81: when a time chunk has been         *)
(* handled, no source that went silent for longer than the threshold is    *)
(* still in the state.                                                     *)
SilentSourceCleared ==
  [][recent' # recent => ~HasChannelTimeoutOccured']_vars

=============================================================================
