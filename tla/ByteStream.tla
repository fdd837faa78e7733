----------------------------- MODULE ByteStream -----------------------------
(***************************************************************************)
(* How frames are put into the byte stream of one connection and cut out   *)
(* of it again, by TCPTxModule and TCPRxModule ("single") and by           *)
(* LinuxMultiClientTCPTxModule and LinuxMultiClientTCPRxModule ("multi").  *)
(*                                                                         *)
(* A frame begins with its size, which counts itself.  The receivers pass  *)
(* on size bytes from the third, and so take two bytes of what follows the *)
(* frame; SessionProcModule drops the last two.  The k-th frame sent       *)
(* consists of the bytes <<k, 1>>, <<k, 2>>, ...; the first two hold the   *)
(* size, and two bytes taken from anywhere else hold any size.             *)
(***************************************************************************)
EXTENDS Integers, Sequences, FiniteSets

CONSTANTS
  Sizes,       \* sizes of the frames ChunkToBytesModule makes
  ReadSize,    \* bytes asked for in one recv, and wanted by "multi" before a cut
  Room,        \* bytes the connection holds
  MaxFrames    \* bound: frames sent

ASSUME SizesAssumption == Sizes \subseteq Nat \ 0..2 /\ IsFiniteSet(Sizes)
ASSUME ReadAssumption == ReadSize \in Nat \ 0..1
ASSUME RoomAssumption == Room \in Nat /\ \A n \in Sizes : n <= Room
ASSUME FramesAssumption == MaxFrames \in Nat

VARIABLES
  pair,       \* which pair of modules
  frames,     \* frames[k]: size of the k-th frame given to send
  sound,      \* frames sent before the first that was cut short or did not fit
  channel,    \* bytes sent and not yet received
  held,       \* vcAccumulatedBytes
  passed,     \* frames passed on, 0 for one that is not a frame
  sender,     \* "open", or "closed"
  receiver    \* "reading", "ended", or "dead"

vars == <<pair, frames, sound, channel, held, passed, sender, receiver>>

SizeBytes == 2
Junk == <<0, 0>>

FrameBytes(k, n) == [j \in 1..n |-> <<k, j>>]

(* "multi" cuts when ReadSize bytes are there; a longer frame does not fit. *)
Fits(n) == pair = "single" \/ n <= ReadSize

Init ==
  /\ pair \in {"single", "multi"}
  /\ frames = <<>> /\ sound = 0
  /\ channel = <<>> /\ held = <<>> /\ passed = <<>>
  /\ sender = "open" /\ receiver = "reading"

-----------------------------------------------------------------------------
(* The sender: RunClientThread of both modules.                            *)

CanSend == sender = "open" /\ Len(frames) < MaxFrames

FreeRoom == Room - Len(channel)

(* A send that takes the whole frame.                                      *)
SendFrame(n) ==
  /\ CanSend /\ receiver = "reading" /\ n <= FreeRoom
  /\ frames' = Append(frames, n)
  /\ sound' = IF sound = Len(frames) /\ Fits(n) THEN sound + 1 ELSE sound
  /\ channel' = channel \o FrameBytes(Len(frames'), n)
  /\ UNCHANGED <<pair, held, passed, sender, receiver>>

(* SO_SNDTIMEO is set for connect and holds for send as well.  A send that *)
(* got part of the frame out returns its length, and the thread goes on.   *)
SendPart(n) ==
  /\ CanSend /\ receiver = "reading" /\ pair = "multi"
  /\ FreeRoom \in 1..n - 1
  /\ frames' = Append(frames, n)
  /\ channel' = channel \o SubSeq(FrameBytes(Len(frames'), n), 1, FreeRoom)
  /\ UNCHANGED <<pair, sound, held, passed, sender, receiver>>

(* A send that got nothing out, in time or at all, ends the thread; so do  *)
(* an exception and the shut-down.                                         *)
SenderCloses ==
  /\ sender = "open"
  /\ sender' = "closed"
  /\ UNCHANGED <<pair, frames, sound, channel, held, passed, receiver>>

-----------------------------------------------------------------------------
(* The receivers.                                                          *)

(* u16SessionTransmissionSize.                                             *)
SizesAt(bytes) ==
  IF bytes[1][1] # 0 /\ bytes[1][2] = 1 /\ bytes[2] = <<bytes[1][1], 2>>
  THEN {frames[bytes[1][1]]}
  ELSE 0..Room

DataBytes(k) == SubSeq(FrameBytes(k, frames[k]), SizeBytes + 1, frames[k])

(* What SessionProcModule makes of the bytes of a ByteChunk.               *)
FrameOf(bytes) ==
  LET data == SubSeq(bytes, 1, Len(bytes) - SizeBytes)
      matches == {k \in 1..Len(frames) : DataBytes(k) = data}
  IN  IF matches = {} THEN 0 ELSE CHOOSE k \in matches : TRUE

(* vcCompleteClassByteVector and vcReducedAccumulatedBytes.                *)
Taken(bytes, size) == SubSeq(bytes, SizeBytes + 1, SizeBytes + size)

(* Mutant: the size is taken not to count itself.                          *)
Reduced_Past(bytes, size) == SubSeq(bytes, SizeBytes + size + 1, Len(bytes))

Reduced(bytes, size) == SubSeq(bytes, size + 1, Len(bytes))

(* An empty chunk carries nothing and is not recorded.                     *)
PassOn(bytes) == passed' = IF bytes = <<>> THEN passed ELSE Append(passed, FrameOf(bytes))

RunEnds(state) ==
  /\ receiver' = state /\ held' = <<>>
  /\ UNCHANGED <<pair, frames, sound, channel, passed, sender>>

(* Mutant: what follows the frame is thrown away.                          *)
CutFrom_Flush(bytes) ==
  \E size \in SizesAt(bytes) :
    IF size > Len(bytes)
    THEN receiver' = "dead" /\ held' = <<>> /\ UNCHANGED passed
    ELSE /\ PassOn(Taken(bytes \o <<Junk, Junk>>, size))
         /\ held' = <<>>
         /\ UNCHANGED receiver

(* "multi" cuts without comparing the size with the bytes it holds.  Two   *)
(* bytes beyond them are what the vector held before; a range that begins  *)
(* beyond them is an exception nobody catches.                             *)
CutFrom(bytes) ==
  \E size \in SizesAt(bytes) :
    IF size > Len(bytes)
    THEN /\ receiver' = "dead" /\ held' = <<>>
         /\ UNCHANGED passed
    ELSE /\ PassOn(Taken(bytes \o <<Junk, Junk>>, size))
         /\ held' = Reduced(bytes, size)
         /\ UNCHANGED receiver

(* Mutant: a frame is cut without comparing its size with the bytes held.  *)
SingleTurn_Unchecked ==
  /\ pair = "single" /\ receiver = "reading" /\ channel # <<>>
  /\ \E n \in 1..ReadSize :
       /\ n <= Len(channel)
       /\ channel' = SubSeq(channel, n + 1, Len(channel))
       /\ LET bytes == held \o SubSeq(channel, 1, n)
          IN  IF Len(bytes) < SizeBytes
              THEN held' = bytes /\ UNCHANGED <<passed, receiver>>
              ELSE CutFrom(bytes)
  /\ UNCHANGED <<pair, frames, sound, sender>>

(* One turn of RunServerThread: one recv, and at most one frame.           *)
SingleTurn ==
  /\ pair = "single" /\ receiver = "reading" /\ channel # <<>>
  /\ \E n \in 1..ReadSize :
       /\ n <= Len(channel)
       /\ channel' = SubSeq(channel, n + 1, Len(channel))
       /\ LET bytes == held \o SubSeq(channel, 1, n)
          IN  IF Len(bytes) < SizeBytes
              THEN held' = bytes /\ UNCHANGED passed
              ELSE \E size \in SizesAt(bytes) :
                     IF Len(bytes) < SizeBytes + size
                     THEN held' = bytes /\ UNCHANGED passed
                     ELSE /\ PassOn(Taken(bytes, size))
                          /\ held' = Reduced(bytes, size)
  /\ UNCHANGED <<pair, frames, sound, sender, receiver>>

(* Mutant: a read of one byte less than is wanted is enough for a cut.     *)
MultiRead_Early ==
  /\ pair = "multi" /\ receiver = "reading"
  /\ Len(held) < ReadSize /\ channel # <<>>
  /\ \E n \in 1..ReadSize :
       /\ n <= Len(channel)
       /\ channel' = SubSeq(channel, n + 1, Len(channel))
       /\ LET bytes == held \o SubSeq(channel, 1, n)
          IN  IF Len(bytes) < ReadSize - 1
              THEN held' = bytes /\ UNCHANGED <<passed, receiver>>
              ELSE CutFrom(bytes)
  /\ UNCHANGED <<pair, frames, sound, sender>>

(* One recv of StartClientThread's inner loop, with the cut that follows   *)
(* the last one.                                                           *)
MultiRead ==
  /\ pair = "multi" /\ receiver = "reading"
  /\ Len(held) < ReadSize /\ channel # <<>>
  /\ \E n \in 1..ReadSize :
       /\ n <= Len(channel)
       /\ channel' = SubSeq(channel, n + 1, Len(channel))
       /\ LET bytes == held \o SubSeq(channel, 1, n)
          IN  IF Len(bytes) < ReadSize
              THEN held' = bytes /\ UNCHANGED <<passed, receiver>>
              ELSE CutFrom(bytes)
  /\ UNCHANGED <<pair, frames, sound, sender>>

AtEnd == channel = <<>> /\ sender = "closed"

(* Mutant: a turn with enough bytes waits for the end of the stream.       *)
MultiCut_AtEnd ==
  /\ pair = "multi" /\ receiver = "reading"
  /\ Len(held) >= ReadSize /\ AtEnd
  /\ CutFrom(held)
  /\ UNCHANGED <<pair, frames, sound, channel, sender>>

(* A turn with enough bytes in hand reads nothing, but begins only when    *)
(* select finds the socket readable: bytes, or its end.                    *)
MultiCut ==
  /\ pair = "multi" /\ receiver = "reading"
  /\ Len(held) >= ReadSize /\ (channel # <<>> \/ AtEnd)
  /\ CutFrom(held)
  /\ UNCHANGED <<pair, frames, sound, channel, sender>>

(* Mutant: a recv of no bytes is not an error, and the thread goes on.     *)
EndOfStream_Unseen == receiver = "reading" /\ AtEnd /\ UNCHANGED vars

(* CheckForSocketReadErrors: recv finds the end of the stream.  An error   *)
(* is reported as -1, which as a size_t exceeds every length.              *)
EndOfStream ==
  /\ receiver = "reading" /\ AtEnd
  /\ pair = "single" \/ Len(held) < ReadSize
  /\ RunEnds("ended")

(* "multi" gives up after ten seconds in select, five in recv.             *)
Silence ==
  /\ pair = "multi" /\ receiver = "reading" /\ channel = <<>> /\ sender = "open"
  /\ RunEnds("ended")

Receive == SingleTurn \/ MultiRead \/ MultiCut \/ EndOfStream

Next ==
  \/ \E n \in Sizes : SendFrame(n) \/ SendPart(n)
  \/ SenderCloses
  \/ SingleTurn \/ MultiRead \/ MultiCut
  \/ EndOfStream \/ Silence

Spec == Init /\ [][Next]_vars

(* The receiving thread has nothing else to do.                            *)
FairSpec == Spec /\ WF_vars(Receive)

-----------------------------------------------------------------------------
Byte == (0..MaxFrames) \X (0..Room)

(* The connection never holds more than it has room for, and only the      *)
(* multi-client thread can end its process.                                *)
TypeOK ==
  /\ pair \in {"single", "multi"}
  /\ frames \in Seq(Sizes) /\ Len(frames) <= MaxFrames /\ sound \in 0..Len(frames)
  /\ channel \in Seq(Byte) /\ Len(channel) <= Room
  /\ held \in Seq(Byte) /\ passed \in Seq(0..MaxFrames)
  /\ sender \in {"open", "closed"}
  /\ receiver \in {"reading", "ended", "dead"} /\ (pair = "single" => receiver # "dead")

(* What is under way, in the receiver's vector and in the connection, is   *)
(* where the next frame to be passed on begins and all frames after it, as *)
(* long as none was cut short: nothing is skipped, repeated or split       *)
(* wrongly by the two look-ahead bytes, the reads of any length and the    *)
(* cut (TCPRxModule.cpp:127-144, LinuxMultiClientTCPRxModule.cpp:223-256). *)
BytesFrom(k) ==
  LET bytes[i \in 1..sound + 1] ==
        IF i > sound THEN <<>> ELSE FrameBytes(i, frames[i]) \o bytes[i + 1]
  IN  bytes[k]

StreamAccounted ==
  receiver = "reading" /\ Len(passed) <= sound =>
    LET due == BytesFrom(Len(passed) + 1)
        stream == held \o channel
    IN  Len(due) <= Len(stream) /\ SubSeq(stream, 1, Len(due)) = due

(* The exception nobody catches is not met while the frames fit and are    *)
(* sent whole: the cut that finds a size beyond its bytes comes after the  *)
(* last of these was passed on, and something was sent behind it           *)
(* (LinuxMultiClientTCPRxModule.cpp:223-256).                              *)
DiesOfBrokenFrame ==
  receiver = "dead" => sound < Len(frames) /\ Len(passed) >= sound

(* The pair keeps the promise of a queue of frames, up to the first frame  *)
(* that a send cut short.                                                  *)
Queue == INSTANCE FrameQueue WITH put <- Len(frames), sound <- sound, got <- passed
RefinesQueue == Queue!QueueSpec

(* A sender that stops is noticed: the thread ends instead of spinning on  *)
(* reads of nothing.  It is not claimed once a frame was cut short: a size *)
(* of zero found in the data makes the multi-client thread pass on empty   *)
(* chunks forever.                                                         *)
StreamEnds ==
  (sender = "closed" /\ sound = Len(frames)) ~> (receiver # "reading")

(* The multi-client thread passes a frame on as soon as two reads' worth   *)
(* of bytes have followed from its beginning, whatever the sizes of the    *)
(* frames and of the reads; a backlog in its vector is worked off.  The    *)
(* single one, with one frame per read, makes no such promise.             *)
FrameFlows ==
  \A k \in 1..MaxFrames :
    (pair = "multi" /\ k <= sound /\ Len(BytesFrom(k)) >= 2 * ReadSize)
      ~> (Len(passed) >= k \/ receiver # "reading")
=============================================================================
