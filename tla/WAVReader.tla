----------------------------- MODULE WAVReader -----------------------------
(***************************************************************************)
(* WAVReaderModule: plays the WAV files of a directory as time chunks, one *)
(* after the other and over again.  A file that cannot be opened gives one *)
(* chunk without samples.  What the samples are, and which of them goes to *)
(* which channel, is left out.                                             *)
(***************************************************************************)
EXTENDS Integers, Sequences, FiniteSetsExt

CONSTANTS
  Files,      \* m_vsFileList: frames and channels of each
  ChunkSize,  \* m_u32ChunkSize, in frames
  MaxReads    \* bound: chunks made

VARIABLES
  index,     \* m_u16FilePlaybackIndex
  current,   \* number of the file that is open, or NoFile
  info,      \* m_sfinfo
  position,  \* m_CurrentReadPosition
  sent       \* history: what was read for each chunk

vars == <<index, current, info, position, sent>>

NoFile == 0
Wild == -1    \* a pointer to nothing
Ended == -2   \* the process ended
NoInfo == [frames |-> 0, channels |-> 0]

(* m_CurrentWAVFile is not initialised.                                    *)
Init ==
  /\ current \in {NoFile, Wild}
  /\ index = 0 /\ info = NoInfo /\ position = 0 /\ sent = <<>>

-----------------------------------------------------------------------------
(* sf_read_short counts samples of all channels, and so does the position, *)
(* which is then compared with frames.                                     *)
SamplesRead(i, from) == Min({ChunkSize * i.channels, i.frames * i.channels - from})

(* Mutant: one file too late.                                              *)
AfterLast_Late(next) == IF next > Len(Files) THEN 0 ELSE next

AfterLast(next) == IF next >= Len(Files) THEN 0 ELSE next

IndexAfter(finished, next) == IF finished THEN AfterLast(next) ELSE next

Passed(f, from, to, length) ==
  sent' = Append(sent, [file |-> f, from |-> from, to |-> to, length |-> length])

(* Process from the read on, of file f from a position, the index at next. *)
ReadChunk(f, i, from, next) ==
  LET to == from + SamplesRead(i, from)
      finished == to >= i.frames
  IN  /\ info' = i /\ position' = to
      /\ current' = IF finished THEN NoFile ELSE f
      /\ index' = IndexAfter(finished, next)
      /\ Passed(f, from, to, i.frames)

MayOpen == current = NoFile /\ index < Len(Files) /\ Len(sent) < MaxReads

(* Mutant: the position of the file before is kept.                        *)
OpenFile_Anywhere ==
  /\ MayOpen
  /\ ReadChunk(index + 1, Files[index + 1], position, index + 1)

OpenFile ==
  /\ MayOpen
  /\ ReadChunk(index + 1, Files[index + 1], 0, index + 1)

(* The next file cannot be opened: m_sfinfo is cleared, or as it was.      *)
FailOpen ==
  /\ MayOpen
  /\ \E i \in {info, NoInfo} :
       /\ info' = i /\ position' = 0
       /\ index' = IndexAfter(i.frames = 0, index + 1)
  /\ Passed(index + 1, 0, 0, 0)
  /\ UNCHANGED current

ContinueFile ==
  /\ current \in 1..Len(Files) /\ Len(sent) < MaxReads
  /\ ReadChunk(current, info, position, index)

(* A name is read from beyond the list, or samples from a wild pointer.    *)
Crash ==
  /\ current = Wild \/ (current = NoFile /\ index = Len(Files))
  /\ current' = Ended
  /\ UNCHANGED <<index, info, position, sent>>

Next == OpenFile \/ FailOpen \/ ContinueFile \/ Crash

Spec == Init /\ [][Next]_vars

-----------------------------------------------------------------------------
TypeOK ==
  /\ index \in 0..Len(Files)
  /\ current \in Ended..Len(Files)
  /\ info \in [frames : Nat, channels : Nat] /\ position \in Nat
  /\ sent \in Seq([file : 1..Len(Files), from : Nat, to : Nat, length : Nat])
  /\ current = NoFile /\ index = Len(Files) => sent[Len(sent)].length = 0

(* The files are played in turn and over again: a chunk goes on where the  *)
(* one before it ended, or starts the next file when as many samples were  *)
(* read as the last one has frames -- all of a file of one channel, half   *)
(* of a file of two -- or it could not be opened; and once a file was      *)
(* played, the process ends only when the last one in the list could not   *)
(* be opened (WAVReaderModule.cpp:12-44).                                  *)
PlayedInTurn ==
  /\ \A n \in 2..Len(sent) :
       LET before == sent[n - 1]
       IN  \/ /\ sent[n].from = 0 /\ before.to >= before.length
              /\ sent[n].file = (before.file % Len(Files)) + 1
           \/ /\ sent[n].from = before.to /\ before.to < before.length
              /\ sent[n].file = before.file
  /\ current = Ended /\ sent # <<>> =>
       sent[Len(sent)].length = 0 /\ sent[Len(sent)].file = Len(Files)
=============================================================================
