----------------------------- MODULE Segmenter -----------------------------
(***************************************************************************)
(* The sizes ChunkToBytesModule computes when it cuts the bytes of a chunk *)
(* into segments.  The size of a transmission is an unsigned number, the   *)
(* sizes computed from it are 16 bits wide, and the count of bytes         *)
(* transmitted is 64.  Which bytes a segment holds, as opposed to how      *)
(* many and from where, is left out; so is what becomes of the segments,   *)
(* the subject of SessionTransport.                                        *)
(***************************************************************************)
EXTENDS Integers, Sequences

CONSTANTS
  HeaderSize,   \* of a SessionController
  SizeModulus,  \* 2^16
  MaxSize,      \* bound: m_uTransmissionSize
  MaxLength     \* bound: bytes of the chunk, and segments made of it

VARIABLES
  transmissionSize,  \* m_uTransmissionSize
  length,            \* u32TransmittableDataBytes
  transmitted,       \* uDataBytesTransmitted
  toTransmit,        \* uDataBytesToTransmit
  sessionSize,       \* uSessionTransmissionSize
  state,             \* "transmitting", "done", or "overrun" by a memcpy
  sent               \* history: the segments

vars == <<transmissionSize, length, transmitted, toTransmit, sessionSize, state, sent>>

SessionDataHeaderSize == 2
Overhead == SessionDataHeaderSize + HeaderSize

(* Process up to its loop.                                                 *)
Init ==
  /\ transmissionSize \in 1..MaxSize /\ length \in 1..MaxLength
  /\ transmitted = 0
  /\ toTransmit = (transmissionSize - Overhead) % SizeModulus
  /\ sessionSize = transmissionSize % SizeModulus
  /\ state = "transmitting" /\ sent = <<>>

(* Mutant: a chunk that fills its segments exactly gets one more.          *)
IsLast_Beyond == transmitted + toTransmit > length

(* The rest of the chunk fits.                                             *)
IsLast == transmitted + toTransmit >= length

(* A turn of the loop.  A segment that has more bytes than its size is     *)
(* copied beyond the end of its vector.                                    *)
Transmit ==
  /\ state = "transmitting" /\ Len(sent) < MaxLength
  /\ toTransmit' = IF IsLast THEN (length - transmitted) % SizeModulus ELSE toTransmit
  /\ sessionSize' = IF IsLast THEN (toTransmit' + Overhead) % SizeModulus ELSE sessionSize
  /\ transmitted' = transmitted + toTransmit'
  /\ sent' = Append(sent, [from |-> transmitted, bytes |-> toTransmit', size |-> sessionSize'])
  /\ state' = IF toTransmit' + Overhead > sessionSize' THEN "overrun"
              ELSE IF IsLast THEN "done" ELSE "transmitting"
  /\ UNCHANGED <<transmissionSize, length>>

Next == Transmit

Spec == Init /\ [][Next]_vars

-----------------------------------------------------------------------------
Size == 0..SizeModulus - 1

TypeOK ==
  /\ transmissionSize \in 1..MaxSize /\ length \in 1..MaxLength
  /\ transmitted \in 0..length /\ toTransmit \in Size /\ sessionSize \in Size
  /\ state \in {"transmitting", "done", "overrun"}
  /\ sent \in Seq([from : 0..length, bytes : Size, size : Size])

(* The size that the 16 bits leave of the one asked for.                   *)
EffectiveSize == transmissionSize % SizeModulus

(* Whenever that size has room for the overhead and a byte, the segments   *)
(* cover the bytes of the chunk without gap, overlap or empty segment, all *)
(* but the last are full, and the size written into each is the one it     *)
(* has; with less room bytes may be copied beyond the vector, and with     *)
(* none to spare the loop goes on for ever with empty segments             *)
(* (ChunkToBytesModule.cpp:41-92).                                         *)
SegmentsCover ==
  LET n == Len(sent)
      room == EffectiveSize - Overhead
      empty == \A i \in 1..n : sent[i].bytes = 0
  IN  /\ room > 0 =>
           /\ \A i \in 1..n :
                /\ sent[i].from = (i - 1) * room
                /\ sent[i].bytes = IF i * room <= length THEN room ELSE length - (i - 1) * room
                /\ sent[i].bytes > 0 /\ sent[i].size = sent[i].bytes + Overhead
           /\ state = "done" <=> n * room >= length
      /\ room = 0 => state = "transmitting" /\ empty
      /\ state = "overrun" => room < 0
=============================================================================
