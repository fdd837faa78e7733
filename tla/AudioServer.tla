---------------------------- MODULE AudioServer ----------------------------
(***************************************************************************)
(* What a server does with the time chunks of several sources: RouterModule *)
(* gives a copy of each to every module registered for them.  One copy     *)
(* goes through TimeToWAVModule, WAVAccumulator and WAVWriterModule to a   *)
(* file, one through FFTModule, EnergyDetectionModule and                  *)
(* DirectionFindingModule to a direction.  Every module has a thread and   *)
(* an input buffer of its own; a chunk passed to a full buffer is dropped. *)
(*                                                                         *)
(* A chunk is its kind and the number of the time chunk it was made from;  *)
(* samples, spectra and bins are left out.  So is the passing on of kinds  *)
(* that no later module takes.                                             *)
(***************************************************************************)
EXTENDS Integers, Sequences, FiniteSets, SequencesExt, FiniteSetsExt

CONSTANTS
  Sources,     \* where time chunks come from
  Channels,    \* Channels[s]: channels of the chunks of source s
  Period,      \* RecordingPeriod, in lengths of a chunk
  MaxInput,    \* bound: time chunks
  MaxLost,     \* bound: chunks dropped
  MaxSecond    \* bound: seconds of the clock that file names are made from

ASSUME ChannelsAssumption == Channels \in [Sources -> Nat \ {0}]
ASSUME BoundsAssumption == {Period, MaxInput, MaxLost, MaxSecond} \subseteq Nat

VARIABLES
  routes,      \* instances registered for time chunks, in order
  magnitude,   \* m_bGenerateMagnitudeData
  source,      \* source[n]: source of the n-th time chunk
  input,       \* input[m]: input buffer of module m
  bins,        \* m_vvu16DetectionBins: the chunk they were detected in
  bare,        \* history: chunks transformed while magnitude was off
  directions,  \* direction chunks made: the chunk, and the chunk of its bins
  undefined,   \* the detection bins of a channel that has none were read
  accumulated, \* m_mAccumulatedWAVChunks: the chunks joined into one
  passedOn,    \* accumulated chunks passed on, in order
  disk,        \* files by name
  second,      \* the clock
  lost         \* chunks dropped, with the module that would have had them

detection == <<magnitude, bare, bins, directions, undefined>>
recording == <<accumulated, passedOn, disk, second>>
vars == <<routes, source, input, detection, recording, lost>>

(* Two instances of the FFT module stand for a second registration.        *)
Instances == {"wav", "fft", "spare fft"}
TypeName(i) == IF i = "spare fft" THEN "fft" ELSE i
Modules == Instances \cup {"accumulator", "writer", "energy", "direction"}
NoChunk == 0
Numbers == 1..MaxInput

Init ==
  /\ routes = <<>> /\ magnitude = FALSE /\ bare = {}
  /\ source = <<>> /\ input = [m \in Modules |-> <<>>]
  /\ bins = NoChunk /\ directions = {} /\ undefined = FALSE
  /\ accumulated = <<>> /\ passedOn = <<>> /\ disk = <<>> /\ second = 0
  /\ lost = {}

-----------------------------------------------------------------------------
(* BaseModule.                                                             *)

Chunk(kind, n) == [kind |-> kind, n |-> n]

(* What may be left of two chunks or fewer that are passed to a buffer: it *)
(* is full, or fills up or is emptied between them.                        *)
MayKeep(chunks) ==
  {kept \in {<<>>, chunks} \cup {<<c>> : c \in ToSet(chunks)} :
     Cardinality(lost) + Cardinality(ToSet(chunks) \ ToSet(kept)) <= MaxLost}

Lost(next, chunks, kept) ==
  lost \cup {<<next, c>> : c \in ToSet(chunks) \ ToSet(kept)}

(* A turn of m's thread: a chunk taken, and chunks passed to next.         *)
TakeAndPass(m, next, chunks) ==
  \E kept \in MayKeep(chunks) :
    /\ input' = [input EXCEPT ![m] = Tail(@), ![next] = @ \o kept]
    /\ lost' = Lost(next, chunks, kept)

Take(m) == input' = [input EXCEPT ![m] = Tail(@)] /\ UNCHANGED lost

Has(m, kind) == ~undefined /\ input[m] # <<>> /\ Head(input[m]).kind = kind

-----------------------------------------------------------------------------
(* RouterModule.                                                           *)

(* Mutant: the types that are registered are not compared.                 *)
RegisterOutputModule_Unchecked(i) ==
  /\ source = <<>> /\ Len(routes) < Cardinality(Instances)
  /\ routes' = Append(routes, i)
  /\ UNCHANGED <<source, input, detection, recording, lost>>

(* An instance of a type that is registered already "replaces" it in a     *)
(* copy of the list, which is then given up.                               *)
RegisterOutputModule(i) ==
  /\ source = <<>>
  /\ ~ \E k \in 1..Len(routes) : TypeName(routes[k]) = TypeName(i)
  /\ routes' = Append(routes, i)
  /\ UNCHANGED <<source, input, detection, recording, lost>>

(* A time chunk of s arrives and RouteChunk copies it.                     *)
RouteChunk(s) ==
  /\ ~undefined /\ routes # <<>> /\ Len(source) < MaxInput
  /\ source' = Append(source, s)
  /\ LET c == Chunk("time", Len(source'))
     IN  \E missed \in SUBSET ToSet(routes) :
           /\ Cardinality(lost) + Cardinality(missed) <= MaxLost
           /\ input' = [m \in Modules |->
                          IF m \in ToSet(routes) \ missed THEN Append(input[m], c) ELSE input[m]]
           /\ lost' = lost \cup {<<m, c>> : m \in missed}
  /\ UNCHANGED <<routes, detection, recording>>

-----------------------------------------------------------------------------
(* FFTModule, EnergyDetectionModule and DirectionFindingModule.            *)

SetGenerateMagnitudeData ==
  /\ magnitude' = ~magnitude
  /\ UNCHANGED <<routes, source, input, bare, bins, directions, undefined, recording, lost>>

(* Mutant: the spectrum before its magnitude.                              *)
Spectra_SpectrumFirst(n) ==
  IF magnitude THEN <<Chunk("fft", n), Chunk("magnitude", n)>> ELSE <<Chunk("fft", n)>>

Spectra(n) ==
  IF magnitude THEN <<Chunk("magnitude", n), Chunk("fft", n)>> ELSE <<Chunk("fft", n)>>

(* FFTModule's handler of time chunks: the magnitude before the spectrum.  *)
Transform(i) ==
  /\ TypeName(i) = "fft" /\ Has(i, "time")
  /\ TakeAndPass(i, "energy", Spectra(Head(input[i]).n))
  /\ bare' = IF magnitude THEN bare ELSE bare \cup {Head(input[i]).n}
  /\ UNCHANGED <<routes, source, magnitude, bins, directions, undefined, recording>>

(* EnergyDetectionModule.  It handles magnitudes; spectra pass through.    *)
Process_FFTMagnitudeChunk ==
  /\ Has("energy", "magnitude")
  /\ TakeAndPass("energy", "direction", <<Chunk("detection", Head(input["energy"]).n)>>)
  /\ UNCHANGED <<routes, source, detection, recording>>

PassSpectrum ==
  /\ Has("energy", "fft")
  /\ TakeAndPass("energy", "direction", <<Head(input["energy"])>>)
  /\ UNCHANGED <<routes, source, detection, recording>>

(* DirectionFindingModule.  It keeps the bins detected last, of any source. *)
ProcessDetectionBinChunk ==
  /\ Has("direction", "detection")
  /\ bins' = Head(input["direction"]).n
  /\ Take("direction")
  /\ UNCHANGED <<routes, source, magnitude, bare, directions, undefined, recording>>

BinChannels == IF bins = NoChunk THEN 0 ELSE Channels[source[bins]]

(* A spectrum of one channel is only passed on.                            *)
PassMonoSpectrum ==
  /\ Has("direction", "fft") /\ Channels[source[Head(input["direction"]).n]] = 1
  /\ Take("direction")
  /\ UNCHANGED <<routes, source, detection, recording>>

(* Of any other the first two channels are used, with the bins of two      *)
(* channels, whether or not there are as many.                             *)
ProcessFFTChunk ==
  /\ Has("direction", "fft")
  /\ LET n == Head(input["direction"]).n
     IN  /\ Channels[source[n]] > 1
         /\ undefined' = (BinChannels < 2)
         /\ directions' = IF undefined' THEN directions ELSE directions \cup {<<n, bins>>}
  /\ Take("direction")
  /\ UNCHANGED <<routes, source, magnitude, bare, bins, recording>>

-----------------------------------------------------------------------------
(* TimeToWAVModule, WAVAccumulator and WAVWriterModule.                    *)

(* The source identifier is not copied: all WAV chunks have the same, and  *)
(* the accumulator's map has one entry.                                    *)
ConvertTimeToWAV ==
  /\ Has("wav", "time")
  /\ TakeAndPass("wav", "accumulator", <<Chunk("wav", Head(input["wav"]).n)>>)
  /\ UNCHANGED <<routes, source, detection, recording>>

Samples(chunks) == MapThenSumSet(LAMBDA n : Channels[source[n]], ToSet(chunks))

(* The length of what was accumulated, by the header of its first chunk.   *)
CheckMaxTimeThreshold(chunks) == Samples(chunks) > Period * Channels[source[chunks[1]]]

(* Mutant: the chunk that makes it full is left out.                       *)
PassFile_WithoutLast(chunks) ==
  /\ accumulated' = <<>>
  /\ passedOn' = Append(passedOn, accumulated)
  /\ TakeAndPass("accumulator", "writer", <<Chunk("file", Len(passedOn'))>>)

(* A file is passed to the writer by the number it has in passedOn.        *)
PassFile(chunks) ==
  /\ accumulated' = <<>>
  /\ passedOn' = Append(passedOn, chunks)
  /\ TakeAndPass("accumulator", "writer", <<Chunk("file", Len(passedOn'))>>)

(* AccumulateWAVChunk.  A chunk is joined "if data is continuous and       *)
(* unchanged", but unchanged is always true and joined to the first by an  *)
(* or, so that the test fails for none.                                    *)
AccumulateWAVChunk ==
  /\ Has("accumulator", "wav")
  /\ LET joined == Append(accumulated, Head(input["accumulator"]).n)
         full == accumulated # <<>> /\ CheckMaxTimeThreshold(joined)
     IN  \/ full /\ PassFile(joined)
         \/ ~full /\ accumulated' = joined /\ Take("accumulator") /\ UNCHANGED passedOn
  /\ UNCHANGED <<routes, source, detection, disk, second>>

FileName(chunks) == <<Channels[source[chunks[1]]], second>>

(* WriteWAVFile, when there is space: a file of that name is written over. *)
WriteWAVFile ==
  /\ Has("writer", "file")
  /\ LET f == Head(input["writer"]).n
         name == FileName(passedOn[f])
     IN  disk' = [x \in DOMAIN disk \cup {name} |-> IF x = name THEN f ELSE disk[x]]
  /\ Take("writer")
  /\ UNCHANGED <<routes, source, detection, accumulated, passedOn, second>>

(* No space: "data lost".                                                  *)
RefuseWAVFile ==
  /\ Has("writer", "file") /\ Cardinality(lost) < MaxLost
  /\ lost' = lost \cup {<<"disk", Head(input["writer"])>>}
  /\ input' = [input EXCEPT !["writer"] = Tail(@)]
  /\ UNCHANGED <<routes, source, detection, recording>>

Tick ==
  /\ second < MaxSecond /\ second' = second + 1
  /\ UNCHANGED <<routes, source, input, detection, accumulated, passedOn, disk, lost>>

-----------------------------------------------------------------------------
Next ==
  \/ \E i \in Instances : RegisterOutputModule(i) \/ Transform(i)
  \/ \E s \in Sources : RouteChunk(s)
  \/ SetGenerateMagnitudeData
  \/ Process_FFTMagnitudeChunk \/ PassSpectrum
  \/ ProcessDetectionBinChunk \/ PassMonoSpectrum \/ ProcessFFTChunk
  \/ ConvertTimeToWAV \/ AccumulateWAVChunk
  \/ WriteWAVFile \/ RefuseWAVFile \/ Tick

Spec == Init /\ [][Next]_vars

-----------------------------------------------------------------------------
Kind == {"time", "wav", "file", "magnitude", "fft", "detection"}
ChunkType == [kind : Kind, n : Numbers]

(* The router lists no type of module twice.                               *)
TypeOK ==
  /\ routes \in Seq(Instances)
  /\ \A i, k \in 1..Len(routes) : i # k => TypeName(routes[i]) # TypeName(routes[k])
  /\ magnitude \in BOOLEAN /\ undefined \in BOOLEAN
  /\ source \in Seq(Sources) /\ Len(source) <= MaxInput
  /\ input \in [Modules -> Seq(ChunkType)]
  /\ bins \in {NoChunk} \cup Numbers /\ bare \subseteq Numbers
  /\ directions \subseteq Numbers \X Numbers
  /\ accumulated \in Seq(Numbers) /\ passedOn \in Seq(Seq(Numbers))
  /\ second \in 0..MaxSecond
  /\ \A x \in DOMAIN disk : x[2] \in 0..second /\ disk[x] \in 1..Len(passedOn)
  /\ lost \subseteq (Modules \cup {"disk"}) \X ChunkType /\ Cardinality(lost) <= MaxLost

(* The detections of chunk n did not reach the direction finder.           *)
DetectionMissing(n) ==
  n \in bare \/ \E x \in lost : x[2].n = n /\ x[2].kind \in {"magnitude", "detection"}

(* Detections and spectra travel separately through three threads and are  *)
(* matched by nothing but their order, with those of other sources between *)
(* them: a direction is that of its own chunk's bins unless those never    *)
(* came, and then of an earlier chunk's; and bins that are not there are   *)
(* read only after such a loss (DirectionFindingModule.cpp:37-104,         *)
(* FFTModule.cpp:47-63).                                                   *)
DirectionsMatched ==
  /\ \A d \in directions : d[2] = d[1] \/ (d[2] < d[1] /\ DetectionMissing(d[1]))
  /\ undefined => \E n \in 1..Len(source) : DetectionMissing(n)

Recorded(m) == [i \in 1..Len(input[m]) |-> input[m][i].n]
LostBefore(ms) == {x[2].n : x \in {y \in lost : y[1] \in ms}}

(* The recordings, finished ones first, and what is on its way to one.     *)
Line == passedOn \o <<accumulated, Recorded("accumulator"), Recorded("wav")>>

(* Every time chunk the recording modules found room for is in one         *)
(* recording, or on its way to one, and in the order they arrived: none is *)
(* dropped or repeated where one recording ends and the next begins        *)
(* (WAVAccumulator.cpp:109-144).                                           *)
RecordingsComplete ==
  "wav" \in ToSet(routes) =>
    /\ UNION {ToSet(Line[f]) : f \in 1..Len(Line)}
         = (1..Len(source)) \ LostBefore({"wav", "accumulator"})
    /\ \A f, g \in 1..Len(Line) : \A i \in 1..Len(Line[f]), k \in 1..Len(Line[g]) :
         f < g \/ (f = g /\ i < k) => Line[f][i] < Line[g][k]

(* "Map of accumulated WAV chunks as a function of string mac addr"        *)
(* (WAVAccumulator.h:35): a recording is of one source.  TimeToWAVModule   *)
(* leaves the source identifier out.                                       *)
OneSourcePerRecording ==
  \A f \in 1..Len(passedOn) : \A m, n \in ToSet(passedOn[f]) : source[m] = source[n]
=============================================================================
