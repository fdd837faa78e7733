# Sense-Scape Generic Modules: models, checks and proofs

This directory holds TLA+ specifications of the processing modules in
`src/source` and `src/include`, the TLC configurations that check them on small
instances, and theorems about them checked by the TLA+ proof system. Every
definition is a translation of the C++ code; `PROJECT.json` gives, for each, the
lines it stands for.

## 1. The system

A program built from this library is a pipeline. Each *module* runs a thread that
takes *chunks* (shared pointers to typed data) out of its bounded input buffer,
processes them and passes results to the next module's buffer with `TryPassChunk`,
which drops the chunk when that buffer is full. Sensors run one pipeline (sound
card or simulator, GPS, conversion to bytes, TCP) and a server another (TCP,
reassembly, synchronisation, detection, WAV files, HTTP).

The base class of all modules, `BaseModule`, and the chunk classes are git
submodules whose directories are not in the repository. They are modelled only from
how the modules use them.

### Components

| Component | State it keeps | Operations | Talks to |
|---|---|---|---|
| TimeChunkSynchronisationModule | per source: oldest and most recent timestamp, queue of samples per channel, position; last sync attempt; sample rate | `Process_TimeChunk`, `Process_GPSChunk`, report loop | takes time and GPS chunks of all sensors, emits TDOA chunks |
| ChunkToBytesModule | per source and chunk type a `SessionController` (session and sequence number) | `Process`: cut a chunk into segments | next module's buffer, then TCP |
| SessionProcModule | per source and chunk type the previous header and the bytes gathered so far | `Process_ByteChunk`, report loop | passes rebuilt chunks on |
| LinuxMultiClientTCPTxModule | `m_bTCPConnected`, one detached thread per connection | ask for a port, connect to it, send buffer contents | the Rx module below |
| LinuxMultiClientTCPRxModule | count of connections ever made, one detached thread per client with its unread bytes | accept, allocate a port, listen on it, cut frames out of the stream | passes byte chunks to SessionProcModule |
| TCPTxModule, TCPRxModule | `m_bTCPConnected`, detached connection threads | connect or listen, send, cut frames | as above, one port |
| TimeToWAVModule, WAVAccumulator, WAVWriterModule | accumulated WAV chunk and last timestamp per source | convert, accumulate while continuous, pass on, write | files |
| WAVReaderModule, SimulatorModule, SoundCardInterfaceModule | file or sample position, next timestamp | produce stamped time chunks | next module |
| GPSInterfaceModule | last fix, lock flag | read, report, reopen | GPS chunks |
| RouterModule | modules per chunk type | register, route copies | several next modules |
| RateLimitingModule | last pass time per source and type | pass or drop | next module |
| JSONStateAccumulatorModule | JSON document per source | merge, send periodically from a second thread | next module |
| HTTPPostModule | curl handle | post, up to three attempts | HTTP server |
| DirectionFindingModule, EnergyDetectionModule, FFTModule | detection bins (the first only) | numerics on one chunk | next module |
| ToJSONModule, TracerModule | none | convert, log | next module |

### What is hard in it

* **Loss.** Buffers drop chunks when full, sends fail, connections break. What
  arrives must still be whole (session layer) and aligned in time (synchroniser).
* **Restarts.** A sensor or the server starts again with fresh numbers and clocks
  while the other end keeps its state.
* **Order of statements.** Handlers mix early returns, insertion through
  `std::map::operator[]` and updates of several maps; the state must agree again
  when the handler ends, whichever way it ended.
* **Threads.** Connection threads are detached, share flags with the thread that
  started them, and refer to its local variables.
* **Boundaries.** A queue's length against samples required and samples to trim;
  16-bit sizes and ports; clocks of different machines.

`PROJECT.json` lists each such hazard at its line, with the properties that watch it.

### What makes each component correct

* Synchroniser: its maps know the same sources; no queue is empty or mixes channel
  layouts; an emitted chunk holds the same stretch of time of enough sources, in
  order, never the same sample twice, with positions that were received;
  emissions are spaced.
* Session layer: only whole chunks are passed on, in order, at most once; a loss
  costs only the chunk it hits.
* TCP pairs: frames are cut where they were put together; one thread serves a
  connection and its flag says so; a broken connection is built again; ports in use are
  not given out.
* Audio pipelines: a recording holds every chunk it was given, once and in order, of one
  source; a direction is made of the spectrum and the detections of one chunk.
* Delivery: the server is never set back to an older state, and a merged state gets there.
* Sources of chunks: a time stamp says when the samples were taken; files are played in
  turn; a position said to be locked came in a fix.
* Limiter: one chunk per period.

## 2. The modules here

| Module | What it is |
|---|---|
| `TimeChunkSync` | the synchroniser with the sensors around it |
| `MCTimeChunkSync` | its instances for TLC |
| `TimeChunkSync_proofs` | theorems about it |
| `ChunkRelay` | what the session layer promises (abstract) |
| `SessionTransport` | ChunkToBytesModule, SessionProcModule and the lossy channel between them; implements `ChunkRelay` |
| `SessionTransport_proofs` | theorems about it, with the refinement |
| `FrameQueue` | what a TCP pair promises for one connection (abstract) |
| `ByteStream` | how both TCP pairs put frames into a byte stream and cut them out; implements `FrameQueue` |
| `ByteStream_proofs` | theorems about it, with the refinement; induction over the numbers |
| `TCPPair` | TCPTxModule and TCPRxModule: loops, threads, flag and sockets, in both modes |
| `TCPPair_proofs` | theorems about it |
| `MultiClientTCP` | LinuxMultiClientTCPTxModule on several sensors and LinuxMultiClientTCPRxModule on the server |
| `MultiClientTCP_proofs` | theorems about it |
| `AudioServer`, `MCAudioServer` | RouterModule with two pipelines behind it: TimeToWAV, WAVAccumulator and WAVWriter; FFT, EnergyDetection and DirectionFinding |
| `AudioServer_proofs` | theorems about it |
| `JSONDelivery` | JSONStateAccumulatorModule with its two threads, and HTTPPostModule |
| `JSONDelivery_proofs` | theorems about it |
| `Simulator`, `SoundCard`, `WAVReader`, `GPSInterface` | the modules that make chunks |
| `RateLimiting` | RateLimitingModule |
| `Segmenter` | the 16-bit sizes of ChunkToBytesModule's segments |
| `SensorNode`, `MCSensorNode` | the six modules above as one specification, for one run |
| `SensorNode_proofs` | theorems about each of the six |

### TimeChunkSync

`Process_TimeChunk(s)` is one call of the handler for the chunk source `s` sends
next. The handler is atomic: one thread runs it and nobody else writes its state.
Its two outcomes are `RejectTimeChunk` (time line or channel count broken:
`ClearState`) and `AcceptTimeChunk`. Under the three conditions of an emission the
code says `return` without a semicolon, and the next statement is the call
`SynchronizeChannels();`. The call is therefore what is returned: queues are trimmed
exactly when the conditions do *not* hold. The model says so: the first disjunct of
`AcceptTimeChunk` (conditions false) trims, the other two do not.

| Variable | Code |
|---|---|
| `oldest`, `recent` | `m_OldestSourceTimestampMap`, `m_MostRecentSourceTimestamp` |
| `timeData` | `m_TimeDataSourceMap`; the channels of a source are filled and erased together, so one queue with a channel count |
| `sampleRate`, `lastSync` | `m_dSampleRate_hz`, `m_tpLastSyncAttempt` |
| `gps` | the latitude and longitude maps, written together; `"zero"` is the entry `operator[]` makes up |
| `tdoa` | the last chunk emitted |
| `clock`, `layout`, `faults` | the sensors: next sample's time, channel count, faults so far |
| `history` | for the properties only |

A sample is the time it was taken and the channel layout it was taken with; its
amplitude is left out. A tick is the unit of both clocks and timestamps. The
clocks are those of one world: a sensor never sends a chunk before its samples were
taken (`clock[s] + ChunkTicks <= now`). Chunks of different sensors arrive in every
order and with every delay, those of one sensor in order. A reboot sets the sensor's
clock to any time up to now, backwards too, and its channel count to any layout.
Left out: the report loop and the counters it reads.

### SessionTransport

`TransmitSegment` is one turn of the loop in `ChunkToBytesModule::Process`;
`Process_ByteChunk` is one call of the receiver's handler, with one disjunct per
branch. The state is that of one source identifier and chunk type: both modules keep
everything in maps keyed by the two, so streams do not meet. Between them stands one
queue of `ChannelSize` segments, for the input buffers and the connection: it drops
and never reorders or duplicates, as TCP and the buffers do. `SenderRestart` and
`ReceiverRestart` end a process and begin it with fresh state; a receiver takes the
segments it held with it.

The data of a segment is the number of its chunk and of the piece. Session and
sequence numbers are unbounded: their width is set by `SessionController`, which is
not in the repository, and the bounds of the instances stay far below any width.
Left out: byte sizes, chunks that pass through as JSON, reports.

### MultiClientTCP

A *turn* of a client is one pass of its main loop (`Process`) that gets as far as the
second connect. Each turn makes one socket and one detached thread, and both are known
by the number of the turn.

| Variable | Code |
|---|---|
| `loop[c]` | where `Process` of client `c` is; every point at which another thread can come in between is a value |
| `connected[c]` | `m_bTCPConnected` |
| `reply[c]`, `port[c]` | what `recv` finds on the allocating socket, `u16AllocatedPortNumber` |
| `sockets[c]`, `threads[c]` | the socket of each turn, and how far its `RunClientThread` is |
| `server` | where `Process` of the server is; `"dead"` after an uncaught `throw` |
| `backlog` | connections to the base port, in order, not yet answered; the first one is accepted |
| `count` | `m_u16LifeTimeConnectionCount`, `% PortCount` where the code has 16 bits |
| `handlers` | the server's `StartClientThread` threads: port, progress, backlog and client |
| `requests` | counts requests, for the bound |

`Process` reads the flag twice, before and after the first connect; a thread of an
earlier turn may clear it in between, and the request is then given up with its socket
left open (`CheckConnected`; the answer goes to `Nobody`). The second connect sets the
flag according to its result, and the thread is started whatever it was.

The thread's lambda takes `AllocatedServerSocket` by reference, a variable of a scope
the loop leaves at once. Reading it afterwards is undefined behaviour; what a build
gives is its old contents, those of the next turn's variable in the same
place, or something else. `Referred` is this choice, made anew at each use: the
thread's own socket, the newest one, or none. Likewise `ReadPort` after a failed
`recv` copies two bytes from an empty vector: any port, other than the base port, which
is a bound (a client connected to the base port as if to a port of its own adds
only a request nobody waits for).

Taken from TCP, not from the code: a connect succeeds when somebody listens on the
port, also before `accept`; a bind fails when somebody listens there
(`SO_REUSEADDR` is set, so nothing else stands in the way); closing a listening socket
resets the connections in its backlog; a send to a peer that closed succeeds once and
draws a reset. `StopServing` stands for every way out of the server's read
loop: error, end of the connection, ten seconds of silence. Left out: the bytes and how
they are framed, `socket()` or `listen()` failing, shut-down.

### FrameQueue and ByteStream

One connection of either pair, as bytes. The `k`-th frame is the bytes `<<k, 1>>`,
`<<k, 2>>`, ...; its first two hold its size, which counts themselves
(`ChunkToBytesModule`). Two bytes taken from anywhere else hold any size (`SizesAt`).
The receivers pass on `size` bytes from the third on, two of which belong to whatever
follows; `SessionProcModule` drops the last two. `passed` records what it makes of each
chunk: the number of the frame, or 0.

| Action | Code |
|---|---|
| `SendFrame`, `SendPart`, `SenderCloses` | a turn of `RunClientThread`: all of a frame sent, part of it (the send timeout of the multi-client module), or none |
| `SingleTurn` | a turn of `TCPRxModule::RunServerThread`: one `recv`, at most one frame |
| `MultiRead`, `MultiCut` | a `recv` in the inner loop of `StartClientThread`, with the cut that follows the last; a turn that needs no `recv` |
| `EndOfStream`, `Silence` | end of the stream seen by `recv`; the timeouts of the multi-client thread |

The single receiver compares the size with what it holds; the multi-client one does not:
it cuts as soon as 512 bytes are there (`ReadSize`). A frame beyond that length reads past
the end of its vector or throws (`CutFrom`). The promise is therefore made for frames up to
the first one that was cut short or does not fit (`sound`, `Fits`). `FrameQueue` states it:
frames come out as they went in. What the single receiver does *not* promise: a frame whose
two look-ahead bytes have not come is not passed on, and with one frame per read a backlog
stays; the last frame before a pause waits for the next.

### TCPPair

`TCPTxModule` and `TCPRxModule` have the same two modes; `sending` says at which end the
sender is, so both combinations are in each run. `peer`, `open`, `broken` and `data`
describe the connections, `thread[n][e]` the detached thread at end `e` of the `n`-th, and
`connected[p]` is `m_bTCPConnected`. `SendChunk` is a turn of `RunClientThread`, up to where
its `send` waits for room (`SendRest` goes on with it), and `ReceiveChunk` is one `recv` of
`RunServerThread` with the cut that follows; `CloseSocket` and `ClearFlag` end both.
`Referred` is what a thread finds in the socket variable it holds by reference: in "Connect"
mode the variable's scope was left (its own socket or none), in "Listen" mode it is a
variable of the running loop, which the next `accept` overwrites (its own socket as long as
it is kept in a register, the latest client's, or none). A thread may thus read another
client's socket and close it at its end.

Threads that share a socket split its frames. A chunk is therefore two pieces (`Halves`),
the first of which begins with the size. `Put` puts as many into the connection as there is
room for, and another thread's `send` may come in between; a `recv` takes any number of
what is there, and each thread adds it to bytes of its own (`held[n]`, the vector
`vcAccumulatedBytes`), whichever socket they came from. As long as those begin with a
frame (`InStep`) the cut passes on that frame, when something is there behind it. Bytes that
do not begin with one have any size: `CutFrom` then passes on what is no chunk, and leaves
any end of them, possibly with a piece torn in two (`Remains`). Left out: the framing of
whole connections byte by byte, which is `ByteStream`, errors of `socket()` and
`accept()`, shut-down.

### AudioServer

A chunk is its kind and the number of the time chunk it was made from; every module has
an input buffer, and any chunk may be dropped where it is passed on. One action is one
call of a handler.

| Variable | Code |
|---|---|
| `routes` | `m_ChunkTypeModuleMap` for time chunks: `RegisterOutputModule` appends, except that an instance of a type already there is written to a copy of the list and so ignored |
| `magnitude` | `m_bGenerateMagnitudeData`, switched at any time |
| `bins` | `m_vvu16DetectionBins`; `undefined` is set when bins of a channel that has none are read, after which the model stops |
| `accumulated` | `m_mAccumulatedWAVChunks`: one entry, because `ConvertTimeToWAV` does not copy the source identifier |
| `passedOn`, `disk` | recordings passed to the writer; files by name. A name has the seconds of the clock, so a second recording in a second overwrites the first (`WriteWAVFile`) |

`bWAVHeaderChanged` is the negation of a function that returns `false`, so the condition
`bChunkContinuous || bWAVHeaderChanged` is always true: every chunk is joined, the branch
that passes data on early is unreachable, and `VerifyTimeContinuity` changes nothing. The
model has no such branch. The length of a recording is computed with the header of its first
chunk and the samples of all (`CheckMaxTimeThreshold`). Left out: samples, spectra, the
correlation (including the exception it throws on spectra of zeros), and kinds of chunks
that no later module takes.

### JSONDelivery

`ReceiveDocument` and `AssignField` are `Process_JSONChunk`, one field at a time; `Wake`
and `CopyField` the sending thread's turn, one field at a time and between any two
steps of the other. There is no lock: a field that is being assigned may be read half
replaced (`Torn`), fields may be missed while another is inserted, and memory that was
freed may be read (`CopyFreed`, which ends the process and its state). `TakeDocument` and
the four outcomes of `SendBody` are `HTTPPostModule`: success, an error, an answer that got
lost after the server took the document, and a timeout after which the server may still
take it. A value is the number of the document it came in. One source: its document is
one entry of the map, and sources do not meet except in the map itself. Periods and
back-off times are left out: every order of the threads is allowed.

### Modules that make chunks, the limiter and the sizes of segments

`SensorNode` is any one of six specifications; they share no state in the code.

* `Simulator`: the stamp given to a chunk is the one kept before it; `stamp` then moves on by
  the clock or by a count. The length of a chunk in microseconds is truncated each time. The
  sleep is cast to a 32-bit number of nanoseconds: `SleepPeriods` is the length of the chunk
  if that fits (below 4.29 s), and any number of that width if it does not, as the cast of a
  double out of range is undefined. `rate` is the configured sample rate. Products of doubles
  are taken as exact. The start-up delay is over when the model begins.
* `SoundCard`: `Call`/`FailCall` are the calls of `InitALSA` in order (those that set
  parameters as one), with `Cleanup`; then `WaitForFrames`, `ReadFrames` and `PassChunk` are
  a turn of `Process`. The device captures a frame per unit of time into a ring and stops
  when it is full. An overrun ends the process when it is found in the wait, and restarts
  the device when it is found in the read.
* `WAVReader`: `OpenFile`/`ContinueFile` are a call of `Process` with and without an open
  file. `sf_read_short` counts samples of all channels and the position is compared with
  frames. `m_CurrentWAVFile` is uninitialised: a pointer to nothing, or null by chance
  (`Init`). A file that cannot be opened gives an empty chunk (`FailOpen`).
* `GPSInterface`: `ReadFix`, `ReadOther` (a message without a fix), `FailRead` and `Reopen`
  are the ways through `TryTransmitPositionData`. What is in `gpsData` after a reopen is
  the library's choice: kept or cleared.
* `RateLimiting`: `PassChunk` and `HoldChunk`; the clock advances and can be set, and the
  elapsed time is taken modulo `Modulus`, for 64 bits. The clock reads at least a period
  when the module starts (`Period <= MaxTime` is assumed), as the time since 1970 does.
  `MaxTime` is positive, for the simulator's clock may start between two units.
* `Segmenter`: `Transmit` is a turn of the loop in `ChunkToBytesModule::Process`, with the
  arithmetic that `SessionTransport` leaves out; 16-bit sizes are taken modulo
  `SizeModulus`. A transmission size beyond 64 KiB acts as its lower 16 bits; one that is,
  modulo 64 KiB, the size of the headers makes empty segments forever, and a smaller one
  copies beyond the segment's vector (`"overrun"`, where the model stops).

## 3. What TLC checks

| Run | Properties | Question |
|---|---|---|
| `sync_faults` | `TypeOK`, `StoresAgree`, `GapsBounded`, `TDOAWellFormed`, `EmissionsSpaced` | do lost chunks and reboots leave the state consistent and the emissions well formed, also when one rate is applied to queues of different rates? |
| `sync_join` | `HeadLag`, `EmissionsAdvance` | do sources that join late shift or repeat anybody's samples? |
| `sync_aligned` | `ChunkSynchronized` | violated: finding 1 |
| `session_lossy` | `DeliveredWhole`, `IInv` (with `TypeOK` in it), `RefinesRelay` | does the session layer implement the relay under loss? |
| `session_restarts` | `PiecesConsecutive`, `IntactDelivered` | with restarts of both ends: is a piece ever skipped or repeated inside of what is passed on, and is every chunk sent without loss delivered? |
| `stream_pairs` | `TypeOK`, `StreamAccounted`, `DiesOfBrokenFrame`, `RefinesQueue`, `StreamEnds`, `FrameFlows` | do both framings implement a queue of frames, whatever the lengths of reads and frames, up to the first frame cut short; does only a broken frame end the receiver; is the end seen, and a backlog worked off? |
| `pair_threads` | `TypeOK`, `FlagTruthful`, `ChunksTracked`, `DeadNoticed` | can the flag of a connecting module be trusted, do threads that share buffers and socket variables double chunks, does an undisturbed pair with one accepted client lose any, in sends and reads of a part at a time, and is a dead connection noticed? |
| `tcp_recovery` | `TypeOK`, `ThreadsAccounted`, `ConnectedHasThread`, `RequestsEnd`, `DeadSocketNoticed` | do the loop and its threads, which share a flag without a lock, keep to one connection, and does a client get out of every wait and every dead connection, also when the server's process ends? |
| `audio_pipelines` | `TypeOK`, `DirectionsMatched`, `RecordingsComplete` | is every chunk in exactly one recording or on its way to one, in order, and is a direction made of one chunk, with two sources and losses? |
| `audio_sources` | `OneSourcePerRecording` | violated: finding 2 |
| `json_period` | `TypeOK`, `ServerNotSetBack`, `StateArrives` | does a merged state reach the server, and does the server ever go back? |
| `sensor_modules` | `TypeOK`, `StampsFollowSamples`, `StampsCaptured`, `PlayedInTurn`, `LockedPositionsFixed`, `LimitedByTime`, `SegmentsCover` | are chunks stamped, ordered, limited and cut as their samples, files, clocks and sizes say? |

Five further configurations belong to no run above; TLC finds each of their properties
violated, which documents what the code does: `TimeChunkSync_positions` and
`TimeChunkSync_silent` (MCTimeChunkSync), `SessionTransport_reboot`, and
`MultiClientTCP_garbage` and `MultiClientTCP_flag`. They are disagreements 3 to 7 below.

**Bounds.** The synchroniser's instances have two to four sources with chunks of one
tick, an error bound of one tick and stretches of one tick. `MinSources` is the
literal 3 of the code; it is 2 where two sources already show the interaction, which
keeps the runs small, and 3 in the runs of disagreements 1 and 3. Four or five ticks are
enough for: a source to start late, an emission, a trim, a loss, a
second emission; two faults are enough for a gap followed by another and for a
clear followed by a new beginning. The session layer's instances have three chunks
of one to three segments, so that first, middle and last segments occur, and a
mixture of three chunks; a channel of two forces drops; one restart of each end.
The multi-client instance has two clients, so that one is answered while the other waits at
the base port, and two requests in all: a stale thread needs one turn
before the connection it disturbs. Ports have two values instead of 65,536, so that the
wrap of the count happens at once: the second port allocated is the base port itself, whose
bind fails and ends the server in some behaviours.

The stream's instance has frames one below, at and one above the length of a read, so
that a frame fits, fits exactly and does not fit, room for one frame and a half, so that
sends are cut short, and four frames. `TCPPair` has two connecting modules that make two
connections, of which both may be of one module, and room for one piece, so that every
send of a chunk waits for room for its second; two chunks can be told apart, and those
after them still fail in `send`.
`AudioServer` has a stereo and a mono source, three time chunks, so that a recording of two
ends and another begins, and one loss, at any buffer. `JSONDelivery` has two fields, two
updates, a buffer of one document and one retry, so that documents are dropped at the
buffer and after the last attempt, and one late post. The simulator's chunks last one and a
half units, so that truncation shows, or three, which the width of the sleep (two) does not
hold; the sound card's ring holds two chunks and a frame;
files have one channel, two channels, and are shorter than, as long as and longer than what
a read takes; a clock is set twice, forward or back. Sizes of transmissions wrap twice (four
bits instead of sixteen), and chunks fill their segments exactly, nearly, or just not.

**Fairness** is assumed in five runs. Every thread of the code is a loop
`while (!m_bShutDown)` that waits for data, a socket or a clock for a bounded time, so an
enabled step is not postponed forever; that chunks keep coming is what a sensor does.

* `session_restarts`: weak fairness of a turn of the sender's loop and of the receiver's
  handler. A drop is always possible, and no fairness says that a segment is *not* dropped:
  the property speaks of chunks none of whose segments was.
* `tcp_recovery`: weak fairness of the server's loop, of each client's loop and of each
  client's thread. Nothing is assumed of the server's handlers: one may wait for good
  for a client that was refused.
* `stream_pairs`: weak fairness of the receiver, and nothing of the sender.
* `pair_threads`: weak fairness of the loops and threads of the connecting modules, and
  nothing of the listening one, which may not even be there.
* `json_period`: weak fairness of the three threads, and strong fairness of a post that
  succeeds: a server that is asked again and again answers at some time. The freed read
  is not among the fair steps.

**Deadlock** is checked in the runs of `TimeChunkSync`, where GPS chunks can always arrive,
and of `AudioServer`, where the magnitude can always be switched. It is off in the
others: those of `SessionTransport`, `ByteStream`, `TCPPair`, `MultiClientTCP` and
`JSONDelivery` end when all bounded chunks, frames, connections or requests have been
made and handled, and in `SensorNode` a process may end (the sound card's `exit`, the
reader's crash) or has made all its bounded chunks.

### Findings

Two disagreements of the code with its own documentation have a run each.

1. *Queues are not synchronised before an emission* (`sync_aligned`): the missing
   semicolon. With no fault at all, a third source that starts one tick later
   completes the conditions, and the stretches of the chunk start at different times.
2. *Recordings mix sources* (`audio_sources`): the WAV chunk has no source identifier, so
   the accumulator's "map of accumulated WAV chunks as a function of string mac addr" has
   one entry.

Others are stated as properties, with the configurations named above, or are visible in
the actions of the model:

3. *Positions are counted, not matched* (`PositionsReceived`). Data of sources 1, 2, 3
   and positions of 1, 2, 4 satisfy the check; source 3 is emitted at (0, 0). The made
   up entry also makes the two counts differ from then on, which blocks emission until
   a clear.
4. *A silent source is never cleared* (`SilentSourceCleared`): the call of the timeout check
   is commented out.
5. *A restarted sender's session 0 continues any session* (`DeliveredWhole` with
   `SessionTransport_reboot`): pieces of two chunks are delivered as one.
6. *A reset while waiting for the port yields a made-up port* (`PortWasAllocated`). Two
   clients are enough: the server answers one connection and closes the base port on the
   other.
7. *The multi-client flag says unconnected while a connection is in use* (`FlagTruthful` of
   `MultiClientTCP`): the thread of a refused connection clears it late. The loop then makes
   a further connection, and two threads take the segments of one chunk from one buffer.
   `ThreadsAccounted` says how many there can be. It begins with the allocated port, which
   is sent before the detached thread has bound it (a comment says otherwise), so that a
   quick client is refused. In `TCPPair` the flag can be trusted.
8. Since the count of connections never falls and a handler never closes the socket it
   listens on, allocated ports wrap into ports in use; the bind that fails is answered by a
   `throw` without an exception, which ends the server's process (`Terminate`).
9. A listening thread of `TCPTxModule` or `TCPRxModule` may read from, send on and close
   another client's socket (`Referred`). Two threads that read one socket each keep their
   own bytes: the halves of a frame may go to both, and the frame is lost, without a reset
   and without a thread that gives up; what both hold no longer begins with a frame
   (`CutFrom`). `ChunksTracked` therefore promises that no chunk is doubled in all
   cases, and that none is lost only while one client was accepted (`Alone`).
10. The multi-client receiver throws or reads past its vector on a frame beyond 512 bytes,
    and passes on empty chunks forever when it takes a size of zero out of a stream
    that lost its framing (`CutFrom`).
11. The router's replacement of a module is written to a copy of the list
    (`RegisterOutputModule`). Recordings of one second overwrite each other
    (`WriteWAVFile`). The accumulator's condition is always true.
12. The simulator's stamps "start from 0" (a comment and a test) but begin with a constant
    in both modes; the exception for an unknown ADC mode is built but not
    thrown when the module is configured, and so only with its first chunk.
    `StampsFollowSamples` says nothing of the first stamp for that reason. With a sample rate
    below 120 Hz a chunk of 512 samples is longer than what the sleep's 32 bits hold
    (`SleepPeriods`), and chunks stamped by the clock may overlap.
13. The first chunk after a recovered overrun has a stamp from before it (`StampsCaptured`
    says exactly that), an overrun found while waiting ends the process, and `Cleanup` frees
    the hardware parameters a second time (`misused`).
14. The WAV reader plays half of a file of two channels, runs past its list when the last
    file cannot be opened (`Crash`), and gives its chunks no time stamp.
15. `SetChunkRateLimitInUsec` takes microseconds and compares with nanoseconds; a clock set
    back behind the last chunk lets the next chunk pass early, once: its time is stored, and
    later chunks are limited as before (`LimitedByTime`).

## 4. What is proved

All theorems hold for every value of the constants that satisfies the named
assumptions: any finite set of sources, any rates, durations and bounds. Where a theorem
has a hypothesis of its own (a sender that does not restart, one rate for all sources), it is
named below with the reason. Every safety property
the passing runs check is stated by one of them, the two refinements included.

`TimeChunkSync_proofs`

* `TypeCorrect`, `StoresAlwaysAgree`: `Spec => []TypeOK` and `[]StoresAgree`. The
  inductive invariant `MapsInv` joins the two with the fact that the history knows the
  same sources. The argument goes through the steps of the handler: storing a chunk that
  passed the channel check keeps a queue good and not empty (`StoredGood`); trimming
  leaves at least one sample because of the strict bound in `MayTrim`
  (`TrimmedGood`); emitting does because `CheckQueuesHaveEnoughData` asks for more than
  it takes (`RemainingGood`). `SequenceTheorems` and `FiniteSetTheorems` are cited.
* `EmissionsAlwaysSpaced`: from `AttemptInv`, the last emission is no later than
  the last attempt, and the attempt no later than now. It is needed since a clear moves
  the attempt without an emission.
* `HeadAlwaysLags`: with one rate for all sources the head of each queue whose source
  never jumped lies at `oldest` plus one stretch per emission. The invariant
  (`LinesInv`) describes the whole queue: its samples fill the time from its head to the
  end of the most recent chunk, `rate` of them per tick; trims and emissions cut a
  whole number of ticks (`LineSuffix`) and a chunk is appended at the end
  (`LineConcat`).

* `GapsAlwaysBounded` and `TDOAAlwaysWellFormed`, for sources of any rates, through losses
  and reboots. `GapsInv` adds to `GapsBounded` where a queue ends: one tick before the end
  of the last chunk. That is the time `IsDataContinuous` compares with, so the seam of a
  new chunk is within the tolerated error (`StoredGaps`, `GapsConcat`); what trims and
  emissions leave is a suffix (`GapsSuffix`). Stretches are equally long since one rate
  is applied to all queues (`EmittedWellFormed`), the rate of the chunk that triggered it.
* `EmissionsAlwaysAdvance`, with one rate for all sources: `AdvanceInv` says that before
  the first fault every queue ends at its source's clock, and that what was emitted of a
  source ends before the head of its queue or, where a clear forgot the queue, before the
  clock. Trims and clears move heads only forward (`AcceptMovesHeads`).

`SessionTransport_proofs`

* `SessionInvariant`: `IInv` is inductive when the sender does not restart
  (`MaxSenderRestarts = 0`; disagreement 5 is why the assumption is needed). It says that
  session and sequence numbers identify chunk and piece; that
  segments under way are in order, behind the sender and ahead of the last one handled;
  that the receiver's header is that of the last segment it handled or fresh;
  and that its buffer is a beginning of that segment's chunk, or is empty and can
  no longer be continued. The last part (`BufferPrefix`) is what `DeliveredWhole`
  needs: a last segment that is accepted completes the buffer.
* `ChunksWhole` follows from it.
* `TypeCorrect` and `PiecesAlwaysConsecutive` need no such assumption. With a sender that
  restarts, session numbers repeat and say nothing, and a buffer may be continued with
  another chunk's end. `RestartInv` leaves them out and keeps the sequence numbers: a
  segment's is the number of its piece less one (`Placed`), chunks never come against
  their order, also across restarts (`ChannelPlaces`), and the pieces held are consecutive
  up to the number in the receiver's header (`BufferRun`). `SequenceContinuous` alone then
  makes the next piece fit (`CopiedRun`). `TypeOK` needs it too: that a lost segment's chunk
  was offered is a fact about the segments under way.
* `SessionImplementsRelay`: every step maps to a step of `ChunkRelay` or leaves it
  alone. `DeliveredBehind` is needed for the order of deliveries.

`ByteStream_proofs`

* The bytes of the frames still to come are a recursive function, and what such a function
  computes is a matter of induction. The library's theorems of induction take a
  predicate as a parameter, which the provers cannot instantiate; `SetInduction` is the
  same principle for a *set* of numbers, and follows from the pigeonhole principle for
  finite sets. With it `FramesFromExists` shows that the function's equation has a
  solution, and further lemmas that a frame sent extends it at the end.
* `StreamCorrect`: `StreamInv` says that what is under way begins with the frames due
  (`Begins`), and is exactly those as long as every frame sent was sound. The second part is
  needed for a later frame to follow them. A read moves bytes inside of what is under
  way (`UnderWay`), a cut takes the first frame off both sides (`BeginsCut`), and one that
  takes anything else comes after the frames due.
* `DeathExplained`: the multi-client thread meets its exception only behind a frame that
  was cut short or does not fit, after every frame before was passed on. It is part of
  `StreamInv`, for a cut of frames due never throws.
* `PairIsQueue`: both pairs implement `FrameQueue`; every turn appends the frame that is
  next, or comes after the first broken one (`PassedOn`).
* `TypeCorrect` needs `BytesTyped`: a size is read only from bytes that are there.

`MultiClientTCP_proofs`

* `TypeCorrect`: `[]TypeOK`, for any clients, port width and number of requests. The
  strengthening `Answering` says that the server answers only while somebody is in the
  backlog. `SocketsKept` collects what all steps but the second connect leave alone:
  how many sockets there are and which were refused, wherever the dangling reference
  leads.
* `ThreadsAlwaysAccounted`: the invariant `Balanced` counts, for each place of the loop,
  live threads against refused connections: while a port is asked for there is no thread
  to spare, whatever the flag says; from the second connect on, the flag pays for
  the thread about to start; a thread that ends takes itself and the flag away.
  `FiniteSetTheorems` gives the cardinalities.
* `ConnectedAlwaysHasThread`: the newest thread outlives the flag (`HasThread`).

`TCPPair_proofs`

* `TypeCorrect`: `[]TypeOK`, for any number of connections and chunks and both modes.
* `FlagAlwaysTruthful`: `OneThread(p)` is inductive: the flag of a connecting module is set
  exactly when one of its threads has not ended, and then only one. `Connect` runs only
  while the flag is not set, so it starts the first thread, and `ClearFlag` is taken by the
  only one. Which socket a thread's reference leads to does not matter to it. (The
  module of the multi-client pair starts threads on refused connections too; there a
  property of the same name fails, with the configuration `MultiClientTCP_flag`.)
* `ChunksAlwaysTracked`: every place a piece can be is a line of one function (`Store`: what
  senders have in hand, what is in connections, what receivers hold), and every step moves
  the front of one line to the end of another (`Moved`), drops a part of a line (`Dropped`),
  passes on a frame (`Released`) or adds a new chunk (`Filled`). `OnePlace` says of each
  half of a chunk that it is in one place of one line and was not passed on, or passed on
  once and in none, or in neither, and that one not yet taken is nowhere, without which the
  next one taken might already be under way. A thread that cuts bytes which no longer begin
  with a frame passes on no chunk, so nothing is doubled however frames were split. That
  none is missing needs more: while nothing was reset, no thread gave up and one client was
  accepted, `Shape` keeps every thread to its own socket, and then what its receiver holds,
  what is in the connection and what its sender has in hand are, in this order, a line of
  whole frames (`FramedInv`). So every cut begins with a frame and only passes it on.
  `ChunkInv` joins these; the number of places follows at the end (`OnePlaceCounted`).

`AudioServer_proofs`

`Inductive` joins the types, `Unregistered` (a module that is not registered has an empty
buffer, so that a registration repeats nothing) and two invariants:

* `DirectionsAlwaysMatched`: in `DetectionInv` the chunks in each buffer of the detection have
  an order (`Rank`: detections of a chunk before its spectrum), and so do the buffers, the
  one further on first (`DetectionOrder`). Every spectrum on its way has its detections before
  it, or they are the ones kept, or they are missing (`Preceded`). A handler that takes one
  chunk and passes on one or two keeps this wherever either is dropped.
* `RecordingsAlwaysComplete`: in `RecordingInv` the recordings, the one being gathered and the
  two buffers before it are one ascending line (`RecordingOrder`), together with what was
  lost before the accumulator they are all chunks received, and the two do not meet. That
  the recordings' line ascends is why a chunk cannot be repeated where one ends.
* `TypeCorrect`: that the number of losses stays within its bound needs the losses to be a
  finite set, and that a file on the disk was passed on needs the writer's buffer to hold
  only such files (the last part of `RecordingInv`).

`JSONDelivery_proofs`

* `TypeCorrect`: the strengthening `TypeInv` says that the copies on their way hold
  only values that were received.
* `ServerOnlySetBackLate`: the values of a field get older along the way
  document, copy, buffer, post, late post and server (`InOrder`). Every step moves one
  place of that line to the next: a copy is put at the end of the buffer, a retry is posted
  again before anything behind it. Only a post given up
  as timed out may arrive behind a newer one, and the property makes exactly that
  exception.

`SensorNode_proofs`

One inductive invariant for each of the first six, about one INSTANCE each; the node has one
module, and steps of the others are not there to disturb it.

* `AlwaysLimitedByTime` (`LimiterInv`): while the clock is not set, the time since the
  last chunk is the difference of the two times, cut at the period.
* `LockedPositionsAlwaysFixed` (`GPSInv`): the fix kept is that of a report, and no position
  sent is newer than it.
* `StampsAlwaysFollow` (`SimulatorInv`): chunks are a sleep apart, which is at least their
  length if the width of the sleep holds that and at least nothing if it does not
  (`SleepsEnough`), and a counted stamp is the first one plus as many rounded-down periods
  as chunks.
* `SegmentsAlwaysCover` (`SegmenterInv`): while segments have room for a byte, those cut so
  far cover the beginning of the chunk (`Fitting`); without room none ever is last
  (`Spinning`).
* `StampsAlwaysCaptured` (`CardInv`): while it runs, how much of the ring is unread bounds
  how long ago the first unread frame came; a recovered overrun is remembered until
  the chunk it spoils is sent.
* `AlwaysPlayedInTurn` (`ReaderInv`): the position within the open file continues the
  last read, and the index is behind the open file.
* `TypeCorrect`: one lemma per module (`LimiterTyped`, `SimulatorTyped`, `CardTyped`, ...). Most
  types are inductive by themselves; the limiter's and the card's need the invariant of their
  property, and the reader's needs, besides that, that `info` is that of the open file
  (`OpenInfo`): a read stops at the length of that file.

Only model-checked: the liveness properties `IntactDelivered`, `RequestsEnd`,
`DeadSocketNoticed`, `StreamEnds`, `FrameFlows`, `DeadNoticed` and `StateArrives`, which are
beyond the prover, as is everything about fairness and `ENABLED`. That the code does *not* have
a property (the findings) is shown by TLC's counterexamples.

## 5. Plan, and what is not modelled

What is left to do, in this order:

1. Steps that the liveness properties rest on, as safety facts that can be proved: that a
   chunk transmitted without a loss is in the channel, in the buffer or delivered
   (`IntactDelivered`), that a request which has not ended has an answer, a reset or its
   place in the backlog (`RequestsEnd`).
2. `HeadAlwaysLags` and `EmissionsAlwaysAdvance` for sources of different rates, where the
   double product of rate and time is rounded.
3. The 32-bit cast of the synchroniser's samples to remove, which wraps for clocks that
   differ by days.

Not modelled:

* `ToJSONModule` and `TracerModule` keep no state and have no order to get wrong.
* Floating-point numerics (FFT, thresholds, correlation, simulated signals) are beyond
  the checker; the modules around them are modelled up to which chunk they are applied to.
* `BaseModule` and the chunk classes: their source is not in the repository. The
  processing loop and the bounded buffer appear as the modules use them.
* Report threads, which only read counters, and shut-down, which most destructors leave
  to the base class.
