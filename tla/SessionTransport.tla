-------------------------- MODULE SessionTransport --------------------------
(***************************************************************************)
(* The session layer: ChunkToBytesModule::Process cuts a chunk into        *)
(* segments numbered by a session and a sequence number, and               *)
(* SessionProcModule::Process_ByteChunk puts them together again.  Both    *)
(* keep one SessionController per source identifier and chunk type, and    *)
(* never mix two of them; this is one such stream.                         *)
(*                                                                         *)
(* Between the two stand the bounded input buffers of the modules and a    *)
(* TCP connection: segments arrive in order, but TryPassChunk drops those  *)
(* that find a full buffer, and a broken connection loses some.  Either    *)
(* end may restart and then begins with fresh session state.               *)
(*                                                                         *)
(* The data of a segment is the number of the chunk and of the piece it    *)
(* carries; the bytes of a chunk are its pieces in order.                  *)
(***************************************************************************)
EXTENDS Integers, Sequences

CONSTANTS
  MaxPieces,            \* bound: segments a chunk is cut into
  ChannelSize,          \* size of the input buffer between the two ends
  MaxChunks,            \* bound: chunks handed to the sender
  MaxSenderRestarts,    \* bound
  MaxReceiverRestarts   \* bound

ASSUME SizesAssumption == MaxPieces \in Nat \ {0} /\ ChannelSize \in Nat \ {0}
ASSUME BoundsAssumption ==
  MaxChunks \in Nat /\ MaxSenderRestarts \in Nat /\ MaxReceiverRestarts \in Nat

VARIABLES
  offered,      \* pieces of each chunk handed to the sender so far
  sending,      \* Process is in its transmission loop
  transmitted,  \* uDataBytesTransmitted, in pieces
  session,      \* m_uSessionNumber of the sender's SessionController
  sequence,     \* m_uSequenceNumber of the sender's SessionController
  channel,      \* segments on their way
  previous,     \* the receiver's entry of m_mSessionModesStatesMap
  hasBuffer,    \* the receiver's entry of m_mSessionBytes is not null
  buffer,       \* the bytes it holds, empty while it is null
  delivered,    \* chunks deserialised and passed on
  taken,        \* history: data of the last segment the receiver handled
  damaged,      \* history: chunks some segment of which was lost
  senderRestarts, receiverRestarts

senderVars   == <<sending, transmitted, session, sequence>>
receiverVars == <<previous, hasBuffer, buffer, delivered, taken>>
restarts     == <<senderRestarts, receiverRestarts>>
vars == <<offered, senderVars, channel, receiverVars, damaged, restarts>>

Piece   == [id : Nat \ {0}, piece : 1..MaxPieces]
Segment == [session : Nat, sequence : Nat, last : BOOLEAN, data : Piece]
FreshState == [session |-> 0, sequence |-> 0]   \* a new SessionController
Nothing == [id |-> 0, piece |-> 0]

-----------------------------------------------------------------------------
(* The sender.                                                             *)

current == Len(offered)   \* number of the chunk being sent, or sent last

(* Mutant: notices the end of the data one segment late.                   *)
LastTransmission_Late == transmitted >= offered[current]

LastTransmission == transmitted + 1 >= offered[current]

NextSegment ==
  [session |-> session, sequence |-> sequence, last |-> LastTransmission,
   data |-> [id |-> current, piece |-> transmitted + 1]]

(* Process is called: the chunk is serialised and the loop entered.        *)
BeginChunk ==
  /\ ~sending /\ current < MaxChunks
  /\ \E n \in 1..MaxPieces : offered' = Append(offered, n)
  /\ sending' = TRUE /\ transmitted' = 0
  /\ UNCHANGED <<session, sequence, channel, receiverVars, damaged, restarts>>

(* One turn of the loop.  The result of TryPassChunk is not looked at, the *)
(* sequence number moves on either way; after the last segment the loop    *)
(* ends and IncrementSession starts the next session at sequence 0.        *)
TransmitSegment ==
  /\ sending
  /\ \/ /\ Len(channel) < ChannelSize
        /\ channel' = Append(channel, NextSegment)
        /\ UNCHANGED damaged
     \/ /\ damaged' = damaged \cup {current}
        /\ UNCHANGED channel
  /\ transmitted' = transmitted + 1
  /\ sending' = ~LastTransmission
  /\ session' = IF LastTransmission THEN session + 1 ELSE session
  /\ sequence' = IF LastTransmission THEN 0 ELSE sequence + 1
  /\ UNCHANGED <<offered, receiverVars, restarts>>

-----------------------------------------------------------------------------
(* The receiver: Process_ByteChunk for segment h.                          *)

StartSequence(h) == h.sequence = 0

(* Mutant: any later segment continues the sequence.                       *)
SequenceContinuous_Gap(h) == h.sequence > previous.sequence

SequenceContinuous(h) == h.sequence = previous.sequence + 1

(* Mutant: the session number is not compared.                             *)
SameSession_Any(h) == TRUE

SameSession(h) == h.session = previous.session \/ h.session = 0

Continues(h) == SameSession(h) /\ SequenceContinuous(h)

Copied(h) == IF hasBuffer THEN Append(buffer, h.data) ELSE buffer

(* Mutant: the sequence number is not written back.                        *)
UpdatePreviousSessionState_SessionOnly(h) == [session |-> h.session, sequence |-> 0]

UpdatePreviousSessionState(h) == [session |-> h.session, sequence |-> h.sequence]

(* The whole chunk in one segment.                                         *)
TakeOnlySegment(h) ==
  /\ StartSequence(h) /\ h.last
  /\ delivered' = Append(delivered, <<h.data>>)
  /\ hasBuffer' = TRUE /\ buffer' = <<>>
  /\ previous' = UpdatePreviousSessionState(h)

TakeFirstSegment(h) ==
  /\ StartSequence(h) /\ ~h.last
  /\ hasBuffer' = TRUE /\ buffer' = <<h.data>>
  /\ previous' = UpdatePreviousSessionState(h)
  /\ UNCHANGED delivered

TakeMiddleSegment(h) ==
  /\ ~StartSequence(h) /\ ~h.last /\ Continues(h)
  /\ buffer' = Copied(h)
  /\ previous' = UpdatePreviousSessionState(h)
  /\ UNCHANGED <<hasBuffer, delivered>>

(* Without a buffer the client was met in the middle of a transmission.    *)
TakeLastSegment(h) ==
  /\ ~StartSequence(h) /\ h.last /\ Continues(h)
  /\ \/ /\ ~hasBuffer
        /\ UNCHANGED <<buffer, delivered>>
     \/ /\ hasBuffer
        /\ delivered' = Append(delivered, Copied(h))
        /\ buffer' = <<>>
  /\ previous' = UpdatePreviousSessionState(h)
  /\ UNCHANGED hasBuffer

(* Mutant: the bytes gathered so far stay.                                 *)
MissSegment_KeepsBytes(h) ==
  /\ ~StartSequence(h) /\ ~Continues(h)
  /\ hasBuffer' = TRUE /\ buffer' = buffer
  /\ previous' = FreshState
  /\ UNCHANGED delivered

(* A segment was missed: the header is replaced by a default one, so that  *)
(* the state forgets the session, and an empty buffer is put in place.     *)
MissSegment(h) ==
  /\ ~StartSequence(h) /\ ~Continues(h)
  /\ hasBuffer' = TRUE /\ buffer' = <<>>
  /\ previous' = FreshState
  /\ UNCHANGED delivered

Process_ByteChunk ==
  /\ channel # <<>>
  /\ LET h == Head(channel)
     IN /\ \/ TakeOnlySegment(h) \/ TakeFirstSegment(h) \/ TakeMiddleSegment(h)
           \/ TakeLastSegment(h) \/ MissSegment(h)
        /\ taken' = h.data
  /\ channel' = Tail(channel)
  /\ UNCHANGED <<offered, senderVars, damaged, restarts>>

-----------------------------------------------------------------------------
(* The sensor's process dies and comes back: the chunk it was sending      *)
(* stays unfinished and sessions count from 0 again.  Segments it passed   *)
(* to the network still arrive.                                            *)
SenderRestart ==
  /\ senderRestarts < MaxSenderRestarts
  /\ senderRestarts' = senderRestarts + 1
  /\ damaged' = IF sending THEN damaged \cup {current} ELSE damaged
  /\ sending' = FALSE /\ transmitted' = 0 /\ session' = 0 /\ sequence' = 0
  /\ UNCHANGED <<offered, channel, receiverVars, receiverRestarts>>

(* The server's process dies and comes back, losing what its buffers held. *)
ReceiverRestart ==
  /\ receiverRestarts < MaxReceiverRestarts
  /\ receiverRestarts' = receiverRestarts + 1
  /\ damaged' = damaged \cup {channel[i].data.id : i \in 1..Len(channel)}
                        \cup (IF taken.id = 0 THEN {} ELSE {taken.id})
  /\ channel' = <<>>
  /\ previous' = FreshState /\ hasBuffer' = FALSE /\ buffer' = <<>>
  /\ UNCHANGED <<offered, senderVars, delivered, taken, senderRestarts>>

Init ==
  /\ offered = <<>> /\ sending = FALSE
  /\ transmitted = 0 /\ session = 0 /\ sequence = 0
  /\ channel = <<>>
  /\ previous = FreshState /\ hasBuffer = FALSE /\ buffer = <<>>
  /\ delivered = <<>> /\ taken = Nothing /\ damaged = {}
  /\ senderRestarts = 0 /\ receiverRestarts = 0

Next ==
  \/ BeginChunk \/ TransmitSegment \/ Process_ByteChunk
  \/ SenderRestart \/ ReceiverRestart

Spec == Init /\ [][Next]_vars

(* Both module threads loop on their input buffer; the receiver's waits    *)
(* for data at most a millisecond at a time.                               *)
FairSpec == Spec /\ WF_vars(TransmitSegment) /\ WF_vars(Process_ByteChunk)

-----------------------------------------------------------------------------
(* Properties.                                                             *)

(* Every state component has its type; the damaged chunks were offered.    *)
TypeOK ==
  /\ offered \in Seq(1..MaxPieces) /\ sending \in BOOLEAN
  /\ transmitted \in 0..MaxPieces /\ session \in Nat /\ sequence \in Nat
  /\ channel \in Seq(Segment)
  /\ previous \in [session : Nat, sequence : Nat]
  /\ hasBuffer \in BOOLEAN /\ buffer \in Seq(Piece)
  /\ delivered \in Seq(Seq(Piece))
  /\ taken \in Piece \cup {Nothing}
  /\ damaged \subseteq 1..Len(offered)
  /\ senderRestarts \in Nat /\ receiverRestarts \in Nat

Relay == INSTANCE ChunkRelay WITH offered <- offered, delivered <- delivered

(* Every chunk the receiver passes on is one chunk that was handed over,   *)
(* with all its pieces once and in order: nothing truncated, and nothing   *)
(* of another chunk spliced in, whichever segments were dropped.           *)
DeliveredWhole ==
  \A i \in 1..Len(delivered) :
    \E id \in 1..Len(offered) : delivered[i] = Relay!Whole(id)

(* The session layer implements the relay: whole chunks, at most once each *)
(* and in order.                                                           *)
RefinesRelay == Relay!RelaySpec

(* Pieces that come one after the other, of one chunk or of later ones.    *)
Consecutive(d) ==
  \A k \in 1..Len(d) - 1 : d[k + 1].piece = d[k].piece + 1 /\ d[k].id <= d[k + 1].id

(* When the sender's process dies its sessions count from 0 again, and a   *)
(* beginning that is held may be continued with another chunk's end, or an *)
(* end be passed on without its beginning; but whatever is lost and        *)
(* whichever end restarts, no piece is ever skipped or repeated inside of  *)
(* what is passed on, its last one is the last of its chunk, and chunks    *)
(* are not put together against their order (SessionProcModule.cpp:30-115). *)
PiecesConsecutive ==
  \A i \in 1..Len(delivered) :
    LET d == delivered[i]
    IN  /\ d # <<>> /\ Consecutive(d)
        /\ d[Len(d)].piece = offered[d[Len(d)].id]

(* A loss costs only the chunks it hits: one that was transmitted entirely *)
(* is delivered, whatever happened to the chunks before it, unless the     *)
(* receiver's process dies with it.                                        *)
SentIntact(id) ==
  /\ id \in 1..Len(offered) \ damaged
  /\ id < current \/ ~sending

IntactDelivered ==
  \A id \in 1..MaxChunks :
    SentIntact(id) ~> /\ id \in 1..Len(offered)
                      /\ \/ \E i \in 1..Len(delivered) : delivered[i] = Relay!Whole(id)
                         \/ id \in damaged

-----------------------------------------------------------------------------
(* The inductive invariant behind DeliveredWhole, without sender restarts. *)

Before(a, b) == a.id < b.id \/ (a.id = b.id /\ a.piece < b.piece)

(* The sender numbers the chunks by session and their pieces by sequence.  *)
SenderNumbers ==
  /\ session = IF sending THEN current - 1 ELSE current
  /\ sending => /\ current > 0 /\ sequence = transmitted
                /\ transmitted < offered[current]
  /\ ~sending => sequence = 0

(* So do the segments on their way.                                        *)
WellNumbered(h) ==
  /\ h.data.id \in 1..current /\ h.data.piece \in 1..offered[h.data.id]
  /\ h.session = h.data.id - 1 /\ h.sequence = h.data.piece - 1
  /\ h.last <=> h.data.piece = offered[h.data.id]

(* A piece not yet sent lies ahead of d.                                   *)
BehindSender(d) ==
  \/ d.id < current
  \/ d.id = current /\ (sending => d.piece <= transmitted)

ChannelNumbers ==
  \A i \in 1..Len(channel) :
    /\ WellNumbered(channel[i])
    /\ BehindSender(channel[i].data)
    /\ Before(taken, channel[i].data)
    /\ \A j \in 1..Len(channel) : i < j => Before(channel[i].data, channel[j].data)

(* The receiver's state is that of the last segment it handled, or fresh.  *)
TakenNumbers ==
  /\ BehindSender(taken)
  /\ taken # Nothing => taken.id \in 1..current /\ taken.piece \in 1..offered[taken.id]
  /\ \/ previous = FreshState
     \/ previous = [session |-> taken.id - 1, sequence |-> taken.piece - 1]

(* A buffer that holds data holds a proper beginning of the chunk of the   *)
(* last segment; an empty one is never continued, for what could continue  *)
(* it has already gone by.                                                 *)
BufferPrefix ==
  IF ~hasBuffer THEN buffer = <<>> ELSE
    \/ /\ buffer # <<>> /\ taken # Nothing
       /\ previous = [session |-> taken.id - 1, sequence |-> taken.piece - 1]
       /\ taken.piece < offered[taken.id]
       /\ buffer = [p \in 1..taken.piece |-> [id |-> taken.id, piece |-> p]]
    \/ /\ buffer = <<>> /\ taken # Nothing
       /\ \/ previous = FreshState /\ (taken.id > 1 \/ taken.piece > 2)
          \/ /\ previous = [session |-> taken.id - 1, sequence |-> taken.piece - 1]
             /\ taken.piece = offered[taken.id]

(* What was passed on lies behind the last segment, so nothing that still  *)
(* arrives belongs to it.                                                  *)
DeliveredBehind ==
  \A i \in 1..Len(delivered) :
    \/ delivered[i][1].id < taken.id
    \/ delivered[i][1].id = taken.id /\ taken.piece = offered[taken.id]

(* IInv is what every step of the two ends keeps, and implies that chunks  *)
(* arrive whole, at most once and in order.                                *)
IInv ==
  /\ TypeOK
  /\ SenderNumbers /\ ChannelNumbers /\ TakenNumbers /\ BufferPrefix
  /\ DeliveredWhole /\ DeliveredBehind

=============================================================================
