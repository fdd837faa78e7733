-------------------------- MODULE ByteStream_proofs --------------------------
(***************************************************************************)
(* Theorems about ByteStream: for any frame sizes, reads, room in the      *)
(* connection and number of frames, the state has its type, the bytes      *)
(* under way are the frames still to be passed on, and the pair of modules *)
(* implements FrameQueue.                                                  *)
(***************************************************************************)
EXTENDS ByteStream, SequenceTheorems, FiniteSetTheorems, TLAPS

-----------------------------------------------------------------------------
(* Induction.  The induction theorems of the library have a predicate for  *)
(* a parameter, which is beyond the provers; this one has a set.  Would a  *)
(* number be missing from it, the successor would map the finite set of    *)
(* the members below that number one to one into itself without zero.      *)

LEMMA SetInduction ==
  ASSUME NEW S, 0 \in S, \A n \in Nat : n \in S => n + 1 \in S
  PROVE  Nat \subseteq S
<1> SUFFICES ASSUME NEW missing \in Nat, missing \notin S PROVE FALSE
  OBVIOUS
<1> DEFINE below == {n \in 0..missing : n \in S}
           rest == below \ {0}
           successor == [n \in below |-> n + 1]
<1>1. IsFiniteSet(0..missing)
  BY FS_Interval, 0 \in Int, missing \in Int
<1>2. IsFiniteSet(below)
  BY <1>1, FS_Subset, below \subseteq 0..missing
<1>3. IsFiniteSet(rest) /\ Cardinality(rest) = Cardinality(below) - 1
  BY <1>2, FS_RemoveElement, 0 \in below
<1>4. Cardinality(below) \in Nat
  BY <1>2, FS_CardinalityType
<1>5. successor \in [below -> rest]
  OBVIOUS
<1>6. Cardinality(rest) < Cardinality(below)
  BY <1>3, <1>4
<1>7. \E x, y \in below : x # y /\ successor[x] = successor[y]
  <2> HIDE DEF rest, successor, below
  <2> QED BY <1>2, <1>3, <1>5, <1>6, FS_PigeonHole
<1> QED
  BY <1>7

-----------------------------------------------------------------------------
(* The bytes of the frames from the i-th to the s-th of fs, for every i.   *)

FramesFrom(fs, s) ==
  LET bytes[i \in 1..s + 1] ==
        IF i > s THEN <<>> ELSE FrameBytes(i, fs[i]) \o bytes[i + 1]
  IN  bytes

LEMMA BytesFromFrames == \A k : BytesFrom(k) = FramesFrom(frames, sound)[k]
BY DEF BytesFrom, FramesFrom

(* The equation that defines it, for the last m frames, has a solution.    *)
SolvesLast(f, fs, s, m) ==
  f = [i \in (s + 1) - m..s + 1 |-> IF i > s THEN <<>> ELSE FrameBytes(i, fs[i]) \o f[i + 1]]

LEMMA FramesFromExists ==
  ASSUME NEW fs, NEW s \in Nat
  PROVE  \E f : SolvesLast(f, fs, s, s)
<1> DEFINE Solved == {m \in Nat : \E f : SolvesLast(f, fs, s, m)}
<1>1. 0 \in Solved
  <2> DEFINE f == [i \in s + 1..s + 1 |-> <<>>]
  <2>1. \A i \in (s + 1) - 0..s + 1 : i > s
    OBVIOUS
  <2>2. s + 1..s + 1 = (s + 1) - 0..s + 1
    OBVIOUS
  <2>3. SolvesLast(f, fs, s, 0)
    BY <2>1, <2>2 DEF SolvesLast
  <2> QED BY <2>3
<1>2. ASSUME NEW m \in Nat, m \in Solved PROVE m + 1 \in Solved
  <2> PICK f : SolvesLast(f, fs, s, m)
    BY <1>2
  <2> DEFINE g == [i \in (s + 1) - (m + 1)..s + 1 |->
                     IF i = s - m THEN FrameBytes(i, fs[i]) \o f[i + 1] ELSE f[i]]
  <2>1. \A i \in (s + 1) - m..s + 1 : f[i] = IF i > s THEN <<>> ELSE FrameBytes(i, fs[i]) \o f[i + 1]
    BY DEF SolvesLast
  <2>2. \A i \in (s + 1) - (m + 1)..s + 1 :
          g[i] = IF i > s THEN <<>> ELSE FrameBytes(i, fs[i]) \o g[i + 1]
    BY <2>1
  <2>3. g = [i \in (s + 1) - (m + 1)..s + 1 |-> g[i]]
    OBVIOUS
  <2> HIDE DEF g
  <2>4. SolvesLast(g, fs, s, m + 1)
    BY <2>2, <2>3 DEF SolvesLast
  <2> QED BY <2>4
<1>3. \A n \in Nat : n \in Solved => n + 1 \in Solved
  BY <1>2
<1>4. s \in Solved
  <2> HIDE DEF Solved
  <2>1. Nat \subseteq Solved
    BY <1>1, <1>3, SetInduction
  <2> QED BY <2>1
<1> QED
  BY <1>4

(* The function at the end, and at a frame.                                *)
LEMMA FramesFromValues ==
  ASSUME NEW fs, NEW s \in Nat
  PROVE  /\ FramesFrom(fs, s)[s + 1] = <<>>
         /\ \A k \in 1..s : FramesFrom(fs, s)[k] = FrameBytes(k, fs[k]) \o FramesFrom(fs, s)[k + 1]
<1> DEFINE f == FramesFrom(fs, s)
<1>1. (s + 1) - s = 1
  OBVIOUS
<1>2. \E h : h = [i \in 1..s + 1 |-> IF i > s THEN <<>> ELSE FrameBytes(i, fs[i]) \o h[i + 1]]
  <2> PICK h : SolvesLast(h, fs, s, s)
    BY FramesFromExists
  <2> QED BY <1>1 DEF SolvesLast
<1>3. f = [i \in 1..s + 1 |-> IF i > s THEN <<>> ELSE FrameBytes(i, fs[i]) \o f[i + 1]]
  BY <1>2 DEF FramesFrom
<1> HIDE DEF f
<1>4. \A i \in 1..s + 1 : f[i] = IF i > s THEN <<>> ELSE FrameBytes(i, fs[i]) \o f[i + 1]
  BY <1>3
<1>5. f[s + 1] = <<>> /\ \A k \in 1..s : f[k] = FrameBytes(k, fs[k]) \o f[k + 1]
  <2>1. s + 1 \in 1..s + 1 /\ s + 1 > s
    OBVIOUS
  <2>2. ASSUME NEW k \in 1..s PROVE k \in 1..s + 1 /\ ~(k > s)
    OBVIOUS
  <2> QED BY <1>4, <2>1, <2>2
<1> QED
  BY <1>5 DEF f

LEMMA FrameBytesProperties ==
  ASSUME NEW k \in Nat, NEW n \in Nat
  PROVE  /\ FrameBytes(k, n) \in Seq(Nat \X Nat) /\ Len(FrameBytes(k, n)) = n
         /\ \A j \in 1..n : FrameBytes(k, n)[j] = <<k, j>>
BY DEF FrameBytes

(* Induction from the last frame down to the k-th.                         *)
LEMMA FramesDown ==
  ASSUME NEW S, NEW s \in Nat, s + 1 \in S, \A k \in 1..s : k + 1 \in S => k \in S
  PROVE  1..s + 1 \subseteq S
<1> DEFINE steps == {m \in Nat : m <= s => (s + 1) - m \in S}
<1>1. 0 \in steps
  OBVIOUS
<1>2. ASSUME NEW m \in Nat, m \in steps PROVE m + 1 \in steps
  <2> SUFFICES ASSUME m + 1 <= s PROVE (s + 1) - (m + 1) \in S
    OBVIOUS
  <2>1. (s + 1) - m \in S
    BY <1>2
  <2>2. (s + 1) - m = (s - m) + 1 /\ s - m \in 1..s /\ (s + 1) - (m + 1) = s - m
    OBVIOUS
  <2> QED BY <2>1, <2>2
<1>3. Nat \subseteq steps
  <2> HIDE DEF steps
  <2> QED BY <1>1, <1>2, SetInduction
<1>4. SUFFICES ASSUME NEW k \in 1..s + 1 PROVE k \in S
  OBVIOUS
<1>5. (s + 1) - k \in Nat /\ (s + 1) - k <= s /\ (s + 1) - ((s + 1) - k) = k
  OBVIOUS
<1> QED
  BY <1>3, <1>5

LEMMA FramesFromType ==
  ASSUME NEW fs, NEW s \in Nat, \A k \in 1..s : fs[k] \in Nat
  PROVE  \A k \in 1..s + 1 : FramesFrom(fs, s)[k] \in Seq(Nat \X Nat)
<1> DEFINE S == {k \in 1..s + 1 : FramesFrom(fs, s)[k] \in Seq(Nat \X Nat)}
<1>1. s + 1 \in S
  <2>1. s + 1 \in 1..s + 1
    OBVIOUS
  <2>2. FramesFrom(fs, s)[s + 1] = <<>>
    BY FramesFromValues
  <2>3. <<>> \in Seq(Nat \X Nat)
    BY EmptySeq
  <2> QED BY <2>1, <2>2, <2>3
<1>2. ASSUME NEW k \in 1..s, k + 1 \in S PROVE k \in S
  <2>1. FramesFrom(fs, s)[k] = FrameBytes(k, fs[k]) \o FramesFrom(fs, s)[k + 1]
    BY FramesFromValues
  <2>2. FramesFrom(fs, s)[k + 1] \in Seq(Nat \X Nat)
    BY <1>2
  <2>3. FrameBytes(k, fs[k]) \in Seq(Nat \X Nat)
    BY FrameBytesProperties, k \in Nat, fs[k] \in Nat
  <2>4. FramesFrom(fs, s)[k] \in Seq(Nat \X Nat)
    BY <2>1, <2>2, <2>3, ConcatProperties
  <2> QED BY <2>4
<1>3. 1..s + 1 \subseteq S
  <2> HIDE DEF S
  <2> QED BY <1>1, <1>2, FramesDown
<1> QED
  BY <1>3

(* One more frame, within what is counted and beyond it.                   *)
LEMMA FramesFromLonger ==
  ASSUME NEW fs, NEW gs, NEW s \in Nat, \A k \in 1..s : fs[k] \in Nat /\ gs[k] = fs[k],
         gs[s + 1] \in Nat
  PROVE  \A k \in 1..s + 1 :
           FramesFrom(gs, s + 1)[k] = FramesFrom(fs, s)[k] \o FrameBytes(s + 1, gs[s + 1])
<1>0. s + 1 \in Nat
  OBVIOUS
<1> DEFINE last == FrameBytes(s + 1, gs[s + 1])
           S == {k \in 1..s + 1 : FramesFrom(gs, s + 1)[k] = FramesFrom(fs, s)[k] \o last}
<1>1. last \in Seq(Nat \X Nat)
  BY FrameBytesProperties, <1>0
<1> HIDE DEF last
<1>2. s + 1 \in S
  <2>1. FramesFrom(gs, s + 1)[s + 1] = last \o FramesFrom(gs, s + 1)[(s + 1) + 1]
    BY FramesFromValues, s + 1 \in Nat, s + 1 \in 1..s + 1 DEF last
  <2>2. FramesFrom(gs, s + 1)[(s + 1) + 1] = <<>>
    BY FramesFromValues, s + 1 \in Nat
  <2>3. FramesFrom(fs, s)[s + 1] = <<>>
    BY FramesFromValues
  <2>4. last \o <<>> = last /\ <<>> \o last = last
    BY <1>1, ConcatEmptySeq
  <2> QED BY <2>1, <2>2, <2>3, <2>4, SMTT(30)
<1>3. ASSUME NEW k \in 1..s, k + 1 \in S PROVE k \in S
  <2> DEFINE f == FramesFrom(fs, s)
             g == FramesFrom(gs, s + 1)
             this == FrameBytes(k, fs[k])
  <2>1. g[k] = FrameBytes(k, gs[k]) \o g[k + 1]
    BY FramesFromValues, s + 1 \in Nat, k \in 1..s + 1
  <2>2. g[k + 1] = f[k + 1] \o last
    BY <1>3
  <2>3. f[k] = this \o f[k + 1]
    BY FramesFromValues
  <2>4. f[k + 1] \in Seq(Nat \X Nat)
    BY FramesFromType, k + 1 \in 1..s + 1
  <2>5. this \in Seq(Nat \X Nat)
    BY FrameBytesProperties, k \in Nat, fs[k] \in Nat
  <2>6. gs[k] = fs[k]
    OBVIOUS
  <2> HIDE DEF f, g, this
  <2>7. g[k] = this \o (f[k + 1] \o last)
    BY <2>1, <2>2, <2>6 DEF this
  <2>8. this \o (f[k + 1] \o last) = (this \o f[k + 1]) \o last
    <3> DEFINE rest == f[k + 1]
    <3>1. rest \in Seq(Nat \X Nat)
      BY <2>4
    <3> HIDE DEF rest
    <3>2. (this \o rest) \o last = this \o (rest \o last)
      BY ONLY <1>1, <2>5, <3>1, ConcatAssociative, SMTT(30)
    <3> QED BY <3>2 DEF rest
  <2>9. g[k] = f[k] \o last
    BY <2>3, <2>7, <2>8
  <2> QED BY <2>9 DEF f, g
<1>4. 1..s + 1 \subseteq S
  <2> HIDE DEF S
  <2> QED BY <1>2, <1>3, FramesDown
<1> QED
  BY <1>4 DEF last

LEMMA FramesFromSame ==
  ASSUME NEW fs, NEW gs, NEW s \in Nat, \A k \in 1..s : gs[k] = fs[k]
  PROVE  \A k \in 1..s + 1 : FramesFrom(gs, s)[k] = FramesFrom(fs, s)[k]
<1> DEFINE S == {k \in 1..s + 1 : FramesFrom(gs, s)[k] = FramesFrom(fs, s)[k]}
<1>1. s + 1 \in S
  <2>1. s + 1 \in 1..s + 1
    OBVIOUS
  <2> QED BY <2>1, FramesFromValues
<1>2. ASSUME NEW k \in 1..s, k + 1 \in S PROVE k \in S
  <2>1. FramesFrom(gs, s)[k] = FrameBytes(k, gs[k]) \o FramesFrom(gs, s)[k + 1]
    BY FramesFromValues
  <2>2. FramesFrom(fs, s)[k] = FrameBytes(k, fs[k]) \o FramesFrom(fs, s)[k + 1]
    BY FramesFromValues
  <2>3. FramesFrom(gs, s)[k + 1] = FramesFrom(fs, s)[k + 1]
    BY <1>2
  <2>4. FramesFrom(gs, s)[k] = FramesFrom(fs, s)[k]
    BY <2>1, <2>2, <2>3
  <2> QED BY <2>4
<1>3. 1..s + 1 \subseteq S
  <2> HIDE DEF S
  <2> QED BY <1>1, <1>2, FramesDown
<1> QED
  BY <1>3

-----------------------------------------------------------------------------
(* The inductive invariant.                                                *)

(* A byte of a frame that was sent.                                        *)
SentByte == (0..Len(frames)) \X (0..Room)

BytesTyped ==
  /\ held \in Seq(SentByte) /\ channel \in Seq(SentByte)
  /\ passed \in Seq(0..Len(frames))

(* s begins with t.                                                        *)
Begins(s, t) == Len(t) <= Len(s) /\ \A i \in 1..Len(t) : s[i] = t[i]

(* The frames counted as sound are not longer than what is cut.            *)
SoundFit == \A k \in 1..sound : Fits(frames[k])

(* What is under way begins with the frames due; as long as every frame    *)
(* sent is sound, it is nothing more, and no frame beyond them was passed  *)
(* on.  Without this second part a frame sent later would not follow the   *)
(* ones before it.                                                         *)
Ordered(fs, s, n, stream) ==
  LET due == FramesFrom(fs, s)[n + 1]
  IN  /\ n <= s => Begins(stream, due)
      /\ s = Len(fs) => n <= s /\ Len(stream) = Len(due)

InOrder == Ordered(frames, sound, Len(passed), held \o channel)

StreamInv ==
  /\ TypeOK /\ BytesTyped /\ SoundFit /\ DiesOfBrokenFrame
  /\ receiver = "reading" => InOrder

-----------------------------------------------------------------------------
(* Sequences of bytes.                                                     *)

Pairs == Nat \X Nat

LEMMA BeginsConcat ==
  ASSUME NEW s \in Seq(Pairs), NEW t \in Seq(Pairs), NEW u \in Seq(Pairs), Begins(s, t)
  PROVE  /\ Begins(s \o u, t)
         /\ Len(s) = Len(t) => Begins(s \o u, t \o u) /\ Len(s \o u) = Len(t \o u)
<1>1. Len(s) \in Nat /\ Len(t) \in Nat /\ Len(u) \in Nat
  BY LenProperties
<1>2. /\ Len(s \o u) = Len(s) + Len(u)
      /\ \A i \in 1..Len(s) + Len(u) : (s \o u)[i] = IF i <= Len(s) THEN s[i] ELSE u[i - Len(s)]
  BY ConcatProperties
<1>3. /\ Len(t \o u) = Len(t) + Len(u)
      /\ \A i \in 1..Len(t) + Len(u) : (t \o u)[i] = IF i <= Len(t) THEN t[i] ELSE u[i - Len(t)]
  BY ConcatProperties
<1> DEFINE su == s \o u
           tu == t \o u
<1> HIDE DEF su, tu
<1>4. Begins(su, t)
  BY <1>1, <1>2 DEF Begins, su
<1>5. Len(s) = Len(t) => Begins(su, tu) /\ Len(su) = Len(tu)
  BY <1>1, <1>2, <1>3 DEF Begins, su, tu
<1> QED
  BY <1>4, <1>5 DEF su, tu

(* The bytes of this, at the beginning of both, are taken away.            *)
CutLeaves(bytes, rest, this, t) ==
  LET left == SubSeq(bytes, Len(this) + 1, Len(bytes)) \o rest
  IN  /\ Begins(left, t)
      /\ Len(bytes \o rest) = Len(this \o t) => Len(left) = Len(t)
      /\ \A j \in 1..Len(this) : bytes[j] = this[j]

LEMMA BeginsCut ==
  ASSUME NEW bytes \in Seq(Pairs), NEW rest \in Seq(Pairs), NEW this \in Seq(Pairs), NEW t \in Seq(Pairs),
         Begins(bytes \o rest, this \o t), Len(this) <= Len(bytes)
  PROVE  CutLeaves(bytes, rest, this, t)
<1> DEFINE n == Len(this)
           b == Len(bytes)
           kept == SubSeq(bytes, n + 1, b)
           all == bytes \o rest
           due == this \o t
           left == kept \o rest
<1>1. n \in Nat /\ b \in Nat /\ Len(rest) \in Nat /\ Len(t) \in Nat /\ n <= b
  BY LenProperties
<1>2. \A i \in n + 1..b : bytes[i] \in Pairs
  BY <1>1, ElementOfSeq
<1>3. /\ kept \in Seq(Pairs) /\ Len(kept) = b - n
      /\ \A i \in 1..b - n : kept[i] = bytes[n + i]
  <2>1. /\ SubSeq(bytes, n + 1, b) \in Seq(Pairs)
        /\ Len(SubSeq(bytes, n + 1, b)) = IF n + 1 <= b THEN (b - (n + 1)) + 1 ELSE 0
        /\ \A i \in 1..((b - (n + 1)) + 1) : SubSeq(bytes, n + 1, b)[i] = bytes[((n + 1) + i) - 1]
    <3> HIDE DEF n, b
    <3>1. n + 1 \in Int /\ b \in Int
      BY <1>1
    <3> QED BY <1>2, <3>1, SubSeqProperties
  <2> HIDE DEF n, b
  <2> QED BY <1>1, <2>1 DEF kept
<1>4. /\ Len(all) = b + Len(rest)
      /\ \A i \in 1..b + Len(rest) : all[i] = IF i <= b THEN bytes[i] ELSE rest[i - b]
  BY ConcatProperties
<1>5. /\ Len(due) = n + Len(t)
      /\ \A i \in 1..n + Len(t) : due[i] = IF i <= n THEN this[i] ELSE t[i - n]
  BY ConcatProperties
<1>6. /\ Len(left) = (b - n) + Len(rest)
      /\ \A i \in 1..(b - n) + Len(rest) : left[i] = IF i <= b - n THEN kept[i] ELSE rest[i - (b - n)]
  <2>1. kept \in Seq(Pairs) /\ Len(kept) = b - n
    BY <1>3
  <2> HIDE DEF kept, n, b
  <2>2. /\ Len(kept \o rest) = Len(kept) + Len(rest)
        /\ \A i \in 1..Len(kept) + Len(rest) :
             (kept \o rest)[i] = IF i <= Len(kept) THEN kept[i] ELSE rest[i - Len(kept)]
    BY <2>1, ConcatProperties
  <2> QED BY <2>1, <2>2
<1>7. Len(due) <= Len(all) /\ \A i \in 1..Len(due) : all[i] = due[i]
  BY DEF Begins
<1> HIDE DEF n, b, kept, all, due, left
<1>8. Len(t) <= Len(left)
  BY <1>1, <1>4, <1>5, <1>6, <1>7
<1>9. ASSUME NEW i \in 1..Len(t) PROVE left[i] = t[i]
  <2>1. n + i \in 1..Len(due) /\ n + i > n /\ (n + i) - n = i
    BY <1>1, <1>5
  <2>2. all[n + i] = t[i]
    BY <1>1, <1>5, <1>7, <2>1
  <2>3. CASE i <= b - n
    <3>1. i \in 1..b - n /\ n + i <= b /\ n + i \in 1..b + Len(rest)
      BY <1>1, <2>3
    <3>2. left[i] = bytes[n + i]
      BY <1>1, <1>3, <1>6, <3>1
    <3> QED BY <1>4, <2>2, <3>1, <3>2
  <2>4. CASE i > b - n
    <3>1. /\ i \in 1..(b - n) + Len(rest) /\ ~(i <= b - n) /\ i - (b - n) = (n + i) - b
          /\ n + i \in 1..b + Len(rest) /\ ~(n + i <= b)
      BY <1>1, <1>6, <1>8, <2>4
    <3> QED BY <1>4, <1>6, <2>2, <3>1
  <2> QED BY <1>1, <2>3, <2>4
<1>10. Len(all) = Len(due) => Len(left) = Len(t)
  <2>1. Len(all) = b + Len(rest) /\ Len(due) = n + Len(t) /\ Len(left) = (b - n) + Len(rest)
    BY <1>4, <1>5, <1>6
  <2> QED BY <1>1, <2>1, SMTT(30)
<1>11. ASSUME NEW j \in 1..n PROVE bytes[j] = this[j]
  <2>1. Len(due) = n + Len(t)
    BY <1>5
  <2>2. j \in 1..Len(due) /\ j \in 1..n + Len(t) /\ j \in 1..b + Len(rest) /\ j <= b /\ j <= n
    BY <1>1, <2>1
  <2>3. all[j] = due[j]
    BY <1>7, <2>2
  <2>4. all[j] = bytes[j]
    BY <1>4, <2>2
  <2>5. due[j] = this[j]
    BY <1>5, <2>2
  <2> QED BY <2>3, <2>4, <2>5
<1> QED
  BY <1>8, <1>9, <1>10, <1>11 DEF CutLeaves, Begins, n, b, kept, all, due, left

-----------------------------------------------------------------------------
(* What the state's type says of the frames and of their bytes.            *)

LEMMA Facts ==
  ASSUME StreamInv
  PROVE  /\ frames \in Seq(Nat) /\ Len(frames) \in Nat /\ sound \in 0..Len(frames)
         /\ Len(frames) <= MaxFrames
         /\ \A k \in 1..Len(frames) : frames[k] \in Sizes
         /\ \A n \in Sizes : n \in Nat /\ n >= 3 /\ n <= Room
         /\ passed \in Seq(Nat) /\ Len(passed) \in Nat
         /\ held \in Seq(Pairs) /\ channel \in Seq(Pairs)
         /\ Len(held) \in Nat /\ Len(channel) \in Nat
<1>1. \A n \in Sizes : n \in Nat /\ n >= 3 /\ n <= Room
  BY SizesAssumption, RoomAssumption
<1>2. frames \in Seq(Sizes) /\ sound \in 0..Len(frames) /\ Len(frames) <= MaxFrames
  BY DEF StreamInv, TypeOK
<1>3. frames \in Seq(Nat) /\ Len(frames) \in Nat
  BY <1>1, <1>2, LenProperties, SeqMonotonic, Sizes \subseteq Nat
<1>4. \A k \in 1..Len(frames) : frames[k] \in Sizes
  BY <1>2, ElementOfSeq
<1>5. passed \in Seq(0..Len(frames)) /\ held \in Seq(SentByte) /\ channel \in Seq(SentByte)
  BY DEF StreamInv, BytesTyped
<1>6. 0..Len(frames) \subseteq Nat /\ SentByte \subseteq Pairs
  BY <1>3, RoomAssumption DEF SentByte, Pairs
<1>7. passed \in Seq(Nat) /\ held \in Seq(Pairs) /\ channel \in Seq(Pairs)
  BY <1>5, <1>6, SeqMonotonic
<1> QED
  BY <1>1, <1>2, <1>3, <1>4, <1>7, LenProperties

LEMMA DueType ==
  ASSUME StreamInv, NEW k \in 1..sound + 1
  PROVE  LET due == FramesFrom(frames, sound)
         IN  /\ due[k] \in Seq(Pairs) /\ Len(due[k]) \in Nat
             /\ k = sound + 1 => due[k] = <<>>
             /\ k <= sound => /\ k + 1 \in 1..sound + 1
                              /\ due[k] = FrameBytes(k, frames[k]) \o due[k + 1]
<1>1. sound \in Nat /\ \A i \in 1..sound : frames[i] \in Nat
  BY Facts
<1>2. \A i \in 1..sound + 1 : FramesFrom(frames, sound)[i] \in Seq(Pairs)
  BY <1>1, FramesFromType DEF Pairs
<1>3. k = sound + 1 => FramesFrom(frames, sound)[k] = <<>>
  BY <1>1, FramesFromValues
<1>4. ASSUME k <= sound
      PROVE  /\ k + 1 \in 1..sound + 1
             /\ FramesFrom(frames, sound)[k] = FrameBytes(k, frames[k]) \o FramesFrom(frames, sound)[k + 1]
  <2>1. k \in 1..sound /\ k + 1 \in 1..sound + 1
    BY <1>1, <1>4
  <2> QED BY <1>1, <2>1, FramesFromValues
<1> QED
  BY <1>2, <1>3, <1>4, LenProperties

(* The size found at the beginning of some bytes.                          *)
LEMMA SizesAtType ==
  ASSUME StreamInv, NEW bytes \in Seq(SentByte), 1 <= Len(bytes), NEW size \in SizesAt(bytes)
  PROVE  size \in 0..Room
<1>1. 1 \in 1..Len(bytes)
  BY LenProperties
<1>2. bytes[1] \in SentByte
  BY <1>1, ElementOfSeq
<1>3. bytes[1][1] \in 0..Len(frames)
  BY <1>2 DEF SentByte
<1>4. CASE bytes[1][1] # 0
  <2>1. frames[bytes[1][1]] \in 0..Room
    BY <1>3, <1>4, Facts
  <2> QED BY <2>1 DEF SizesAt
<1>5. CASE bytes[1][1] = 0
  BY <1>5 DEF SizesAt
<1> QED
  BY <1>4, <1>5

LEMMA FrameOfType == StreamInv => \A bytes : FrameOf(bytes) \in 0..Len(frames)
<1> SUFFICES ASSUME StreamInv, NEW bytes PROVE FrameOf(bytes) \in 0..Len(frames)
  OBVIOUS
<1> DEFINE matches == {k \in 1..Len(frames) :
                         DataBytes(k) = SubSeq(bytes, 1, Len(bytes) - SizeBytes)}
<1>1. FrameOf(bytes) = IF matches = {} THEN 0 ELSE CHOOSE k \in matches : TRUE
  BY DEF FrameOf
<1>2. matches # {} => (CHOOSE k \in matches : TRUE) \in matches
  OBVIOUS
<1>3. Len(frames) \in Nat
  BY Facts
<1> QED
  BY <1>1, <1>2, <1>3

(* What is taken from bytes that begin with a frame is that frame: its     *)
(* data tells it from the others.                                          *)
LEMMA FrameOfTaken ==
  ASSUME StreamInv, NEW k \in 1..Len(frames), NEW bytes \in Seq(Pairs),
         frames[k] + SizeBytes <= Len(bytes),
         \A j \in 1..frames[k] : bytes[j] = <<k, j>>
  PROVE  Taken(bytes, frames[k]) # <<>> /\ FrameOf(Taken(bytes, frames[k])) = k
<1> DEFINE n == frames[k]
           taken == Taken(bytes, n)
           body == SubSeq(taken, 1, Len(taken) - SizeBytes)
<1>1. n \in Nat /\ n >= 3 /\ Len(frames) \in Nat
  BY Facts
<1>2. Len(bytes) \in Nat /\ n + 2 <= Len(bytes)
  BY LenProperties DEF SizeBytes
<1>3. /\ taken \in Seq(Pairs) /\ Len(taken) = n
      /\ \A i \in 1..n : taken[i] = bytes[i + 2]
  <2> HIDE DEF n
  <2>1. \A i \in 3..n + 2 : bytes[i] \in Pairs
    BY <1>1, <1>2, ElementOfSeq
  <2>2. 3 \in Int /\ n + 2 \in Int
    BY <1>1
  <2>3. /\ SubSeq(bytes, 3, n + 2) \in Seq(Pairs)
        /\ Len(SubSeq(bytes, 3, n + 2)) = IF 3 <= n + 2 THEN ((n + 2) - 3) + 1 ELSE 0
        /\ \A i \in 1..((n + 2) - 3) + 1 : SubSeq(bytes, 3, n + 2)[i] = bytes[(3 + i) - 1]
    BY <2>1, <2>2, SubSeqProperties
  <2>4. SizeBytes + 1 = 3 /\ SizeBytes + n = n + 2
    BY <1>1 DEF SizeBytes
  <2>5. taken = SubSeq(bytes, 3, n + 2)
    BY <2>4 DEF Taken
  <2> QED BY <1>1, <2>3, <2>5
<1>4. Len(body) = n - 2 /\ \A i \in 1..n - 2 : body[i] = <<k, i + 2>>
  <2> HIDE DEF taken
  <2>1. Len(taken) - SizeBytes = n - 2 /\ 1 \in Int /\ n - 2 \in Int
    BY <1>1, <1>3 DEF SizeBytes
  <2>2. \A i \in 1..n - 2 : taken[i] \in Pairs
    BY <1>1, <1>3, ElementOfSeq
  <2>3. /\ Len(SubSeq(taken, 1, n - 2)) = IF 1 <= n - 2 THEN ((n - 2) - 1) + 1 ELSE 0
        /\ \A i \in 1..((n - 2) - 1) + 1 : SubSeq(taken, 1, n - 2)[i] = taken[(1 + i) - 1]
    <3> HIDE DEF n
    <3> QED BY <2>1, <2>2, SubSeqProperties
  <2>4. body = SubSeq(taken, 1, n - 2)
    BY <2>1
  <2> HIDE DEF body
  <2>5. Len(body) = n - 2
    BY <1>1, <2>3, <2>4
  <2>6. ASSUME NEW i \in 1..n - 2 PROVE body[i] = <<k, i + 2>>
    <3>1. body[i] = taken[i]
      BY <1>1, <2>3, <2>4
    <3>2. taken[i] = bytes[i + 2] /\ i + 2 \in 1..n
      BY <1>1, <1>3
    <3> QED BY <3>1, <3>2
  <2> QED BY <2>5, <2>6
<1>5. ASSUME NEW m \in 1..Len(frames)
      PROVE  /\ DataBytes(m) \in Seq(Pairs) /\ Len(DataBytes(m)) = frames[m] - 2
             /\ \A i \in 1..frames[m] - 2 : DataBytes(m)[i] = <<m, i + 2>>
  <2> DEFINE size == frames[m]
             frame == FrameBytes(m, size)
  <2>1. size \in Nat /\ size >= 3
    BY Facts
  <2>2. frame \in Seq(Pairs) /\ Len(frame) = size /\ \A j \in 1..size : frame[j] = <<m, j>>
    BY <2>1, FrameBytesProperties, m \in Nat DEF Pairs
  <2> HIDE DEF size, frame
  <2>3. \A j \in 3..size : frame[j] \in Pairs
    BY <2>1, <2>2, ElementOfSeq
  <2>4. /\ SubSeq(frame, 3, size) \in Seq(Pairs)
        /\ Len(SubSeq(frame, 3, size)) = IF 3 <= size THEN (size - 3) + 1 ELSE 0
        /\ \A i \in 1..(size - 3) + 1 : SubSeq(frame, 3, size)[i] = frame[(3 + i) - 1]
    BY <2>1, <2>3, SubSeqProperties, 3 \in Int, size \in Int
  <2>5. SizeBytes + 1 = 3
    BY DEF SizeBytes
  <2>6. DataBytes(m) = SubSeq(frame, 3, size)
    BY <2>5 DEF DataBytes, frame, size
  <2>7. \A i \in 1..size - 2 : DataBytes(m)[i] = frame[i + 2] /\ i + 2 \in 1..size
    BY <2>1, <2>4, <2>6
  <2> QED BY <2>1, <2>2, <2>4, <2>6, <2>7 DEF size
<1> DEFINE matches == {m \in 1..Len(frames) : DataBytes(m) = body}
<1>6. k \in matches
  <2>1. /\ DataBytes(k) \in Seq(Pairs) /\ Len(DataBytes(k)) = n - 2
        /\ \A i \in 1..n - 2 : DataBytes(k)[i] = <<k, i + 2>>
    BY <1>5
  <2>2. body \in Seq(Pairs)
    <3>1. /\ taken \in Seq(Pairs) /\ 1 \in Int /\ Len(taken) - SizeBytes \in Int
          /\ \A i \in 1..Len(taken) - SizeBytes : taken[i] \in Pairs
      BY <1>1, <1>3, ElementOfSeq DEF SizeBytes
    <3> HIDE DEF taken
    <3> QED BY <3>1, SubSeqProperties
  <2> HIDE DEF body, n
  <2>3. DataBytes(k) = body
    BY <1>1, <1>4, <2>1, <2>2, SeqEqual
  <2> QED BY <2>3
<1>7. ASSUME NEW m \in matches PROVE m = k
  <2> HIDE DEF body
  <2>1. m \in 1..Len(frames) /\ frames[m] \in Nat /\ frames[m] >= 3
    BY Facts
  <2>2. DataBytes(m)[1] = <<m, 1 + 2>>
    BY <1>5, <2>1
  <2>3. body[1] = <<k, 1 + 2>>
    BY <1>1, <1>4
  <2> QED BY <2>2, <2>3
<1>8. FrameOf(taken) = IF matches = {} THEN 0 ELSE CHOOSE m \in matches : TRUE
  BY DEF FrameOf
<1>9. taken # <<>>
  <2> HIDE DEF taken
  <2> QED BY <1>1, <1>3, EmptySeq
<1>10. FrameOf(taken) = k
  <2> HIDE DEF matches, taken
  <2> QED BY <1>6, <1>7, <1>8
<1> QED
  BY <1>9, <1>10

-----------------------------------------------------------------------------
(* What a receiver finds and cuts.  Its bytes and the rest of the channel  *)
(* are all that is under way.                                              *)

UnderWay(bytes, rest) ==
  /\ bytes \in Seq(SentByte) /\ rest \in Seq(SentByte)
  /\ bytes \o rest = held \o channel

LEMMA UnderWayPairs ==
  ASSUME StreamInv, NEW bytes, NEW rest, UnderWay(bytes, rest)
  PROVE  /\ bytes \in Seq(Pairs) /\ rest \in Seq(Pairs)
         /\ Len(bytes) \in Nat /\ Len(rest) \in Nat
         /\ Len(bytes \o rest) = Len(bytes) + Len(rest)
<1>1. SentByte \subseteq Pairs
  BY Facts, RoomAssumption DEF SentByte, Pairs
<1>2. bytes \in Seq(Pairs) /\ rest \in Seq(Pairs)
  BY <1>1, SeqMonotonic DEF UnderWay
<1> QED
  BY <1>2, LenProperties, ConcatProperties

(* While a sound frame is due, its size is read.                           *)
LEMMA SoundSize ==
  ASSUME StreamInv, InOrder, NEW bytes, NEW rest, UnderWay(bytes, rest), SizeBytes <= Len(bytes),
         Len(passed) < sound
  PROVE  SizesAt(bytes) = {frames[Len(passed) + 1]}
<1> DEFINE k == Len(passed) + 1
           n == frames[k]
           this == FrameBytes(k, n)
           next == FramesFrom(frames, sound)[k + 1]
           stream == bytes \o rest
           due == this \o next
<1>1. Len(passed) \in Nat /\ sound \in Nat /\ k \in 1..sound /\ k \in 1..Len(frames) /\ Len(passed) <= sound
  BY Facts
<1>2. n \in Nat /\ n >= 3
  BY <1>1, Facts
<1>3. next \in Seq(Pairs) /\ FramesFrom(frames, sound)[k] = due
  <2>1. k \in 1..sound + 1 /\ k + 1 \in 1..sound + 1 /\ k <= sound
    BY <1>1
  <2> HIDE DEF k
  <2> QED BY <2>1, DueType
<1>4. this \in Seq(Pairs) /\ Len(this) = n /\ \A j \in 1..n : this[j] = <<k, j>>
  <2>1. k \in Nat
    BY <1>1
  <2> HIDE DEF k, n
  <2> QED BY <1>2, <2>1, FrameBytesProperties DEF Pairs
<1>5. Begins(stream, due)
  BY <1>1, <1>3 DEF InOrder, Ordered, UnderWay
<1>6. bytes \in Seq(Pairs) /\ rest \in Seq(Pairs) /\ Len(bytes) \in Nat /\ 2 <= Len(bytes) /\ Len(rest) \in Nat
  BY UnderWayPairs DEF SizeBytes
<1>7. \A i \in 1..2 : stream[i] = bytes[i]
  BY <1>6, ConcatProperties
<1>8. /\ Len(due) = n + Len(next) /\ Len(next) \in Nat
      /\ \A i \in 1..n : due[i] = this[i]
  <2> HIDE DEF this, next, n, k
  <2>1. /\ Len(due) = Len(this) + Len(next) /\ Len(next) \in Nat
        /\ \A i \in 1..Len(this) + Len(next) : due[i] = IF i <= Len(this) THEN this[i] ELSE next[i - Len(this)]
    BY <1>3, <1>4, ConcatProperties, LenProperties
  <2> QED BY <1>2, <1>4, <2>1
<1> HIDE DEF k, n, this, next, stream, due
<1>9. \A i \in 1..2 : bytes[i] = <<k, i>>
  <2> SUFFICES ASSUME NEW i \in 1..2 PROVE bytes[i] = <<k, i>>
    OBVIOUS
  <2>1. i \in 1..n /\ i \in 1..Len(due)
    BY <1>2, <1>8
  <2>2. stream[i] = due[i]
    BY <1>5, <2>1 DEF Begins
  <2> QED BY <1>4, <1>7, <1>8, <2>1, <2>2
<1>10. bytes[1] = <<k, 1>> /\ bytes[2] = <<k, 2>>
  BY <1>9
<1>11. k # 0
  BY <1>1
<1>12. SizesAt(bytes) = {frames[k]}
  BY <1>10, <1>11 DEF SizesAt
<1> QED
  BY <1>12 DEF k

(* A frame is put in front of what is passed on, or the end of a frame     *)
(* that was cut short, but while a sound one is due it is that one.        *)
PassedOn ==
  \/ passed' = passed
  \/ \E frame \in 0..Len(frames) :
       /\ Len(passed) < sound => frame = Len(passed) + 1
       /\ passed' = Append(passed, frame)

LEMMA CutInOrder ==
  ASSUME StreamInv, InOrder, NEW bytes, NEW rest, UnderWay(bytes, rest), SizeBytes <= Len(bytes),
         NEW size \in SizesAt(bytes), size <= Len(bytes),
         NEW ext \in Seq(Pairs), size + SizeBytes <= Len(ext), \A i \in 1..size : ext[i] = bytes[i],
         PassOn(Taken(ext, size)), held' = Reduced(bytes, size), channel' = rest,
         UNCHANGED <<frames, sound>>
  PROVE  /\ InOrder' /\ PassedOn
         /\ held' \in Seq(SentByte) /\ channel' \in Seq(SentByte)
<1>1. /\ bytes \in Seq(Pairs) /\ rest \in Seq(Pairs) /\ Len(bytes) \in Nat /\ 2 <= Len(bytes)
      /\ Len(rest) \in Nat /\ Len(bytes \o rest) = Len(bytes) + Len(rest)
  BY UnderWayPairs DEF SizeBytes
<1>2. size \in Nat
  <2>1. bytes \in Seq(SentByte) /\ 1 <= Len(bytes)
    BY <1>1 DEF UnderWay
  <2>2. size \in 0..Room
    BY ONLY StreamInv, <2>1, SizesAtType, size \in SizesAt(bytes)
  <2> QED BY <2>2
<1>3. held' \in Seq(SentByte) /\ channel' \in Seq(SentByte)
  <2>1. \A i \in size + 1..Len(bytes) : bytes[i] \in SentByte
    <3>1. size + 1..Len(bytes) \subseteq 1..Len(bytes)
      BY <1>2
    <3> QED BY <3>1, ElementOfSeq DEF UnderWay
  <2>2. SubSeq(bytes, size + 1, Len(bytes)) \in Seq(SentByte)
    BY <1>1, <1>2, <2>1, SubSeqProperties, size + 1 \in Int, Len(bytes) \in Int
  <2> QED BY <2>2 DEF Reduced, UnderWay
<1>4. CASE Len(passed) < sound
  <2> DEFINE k == Len(passed) + 1
             next == FramesFrom(frames, sound)[k + 1]
             this == FrameBytes(k, frames[k])
  <2>1. /\ Len(passed) \in Nat /\ passed \in Seq(Nat) /\ sound \in Nat /\ k \in 1..sound
        /\ k \in 1..Len(frames) /\ Len(passed) <= sound /\ k \in Nat
    BY <1>4, Facts
  <2>2. size = frames[k]
    BY <1>4, SoundSize
  <2>3. next \in Seq(Pairs) /\ FramesFrom(frames, sound)[k] = this \o next
    <3>1. k \in 1..sound + 1 /\ k + 1 \in 1..sound + 1 /\ k <= sound
      BY <2>1
    <3> HIDE DEF k
    <3> QED BY <3>1, DueType
  <2>4. this \in Seq(Pairs) /\ Len(this) = size /\ \A j \in 1..size : this[j] = <<k, j>>
    BY <1>2, <2>1, <2>2, FrameBytesProperties DEF Pairs
  <2>5. Begins(bytes \o rest, this \o next)
    BY <2>1, <2>3 DEF InOrder, Ordered, UnderWay
  <2>6. sound = Len(frames) => Len(bytes \o rest) = Len(this \o next)
    BY <2>1, <2>3 DEF InOrder, Ordered, UnderWay
  <2> HIDE DEF next, this
  <2>7. /\ Begins(held' \o channel', next)
        /\ Len(bytes \o rest) = Len(this \o next) => Len(held' \o channel') = Len(next)
        /\ \A j \in 1..size : bytes[j] = this[j]
    <3>1. /\ bytes \in Seq(Pairs) /\ rest \in Seq(Pairs) /\ this \in Seq(Pairs) /\ next \in Seq(Pairs)
          /\ Begins(bytes \o rest, this \o next) /\ Len(this) <= Len(bytes)
      BY <1>1, <2>3, <2>4, <2>5
    <3>2. CutLeaves(bytes, rest, this, next)
      BY ONLY <3>1, BeginsCut
    <3>3. held' \o channel' = SubSeq(bytes, Len(this) + 1, Len(bytes)) \o rest
      BY <2>4 DEF Reduced
    <3> QED BY <2>4, <3>2, <3>3 DEF CutLeaves
  <2>8. \A j \in 1..size : ext[j] = <<k, j>>
    BY <2>4, <2>7
  <2>9. Taken(ext, size) # <<>> /\ FrameOf(Taken(ext, size)) = k
    BY <2>1, <2>2, <2>8, FrameOfTaken
  <2>10. passed' = Append(passed, k)
    BY <2>9 DEF PassOn
  <2>11. Len(passed') = k
    BY <2>1, <2>10, AppendProperties
  <2>12. PassedOn
    BY <2>1, <2>10 DEF PassedOn
  <2>13. Ordered(frames, sound, k, held' \o channel')
    BY <2>1, <2>6, <2>7 DEF Ordered, next
  <2>14. InOrder'
    BY <2>11, <2>13 DEF InOrder
  <2> QED BY <1>3, <2>12, <2>14
<1>5. CASE ~(Len(passed) < sound)
  <2>1. Len(passed) \in Nat /\ sound \in Nat /\ Len(passed) >= sound /\ passed \in Seq(Nat)
    BY <1>5, Facts
  <2>2. sound # Len(frames)
    <3> SUFFICES ASSUME sound = Len(frames) PROVE FALSE
      OBVIOUS
    <3>1. Len(passed) <= sound /\ Len(held \o channel) = Len(FramesFrom(frames, sound)[Len(passed) + 1])
      BY DEF InOrder, Ordered
    <3>2. Len(passed) + 1 = sound + 1 /\ sound + 1 \in 1..sound + 1
      BY <2>1, <3>1
    <3>3. FramesFrom(frames, sound)[sound + 1] = <<>>
      BY <3>2, DueType
    <3>4. Len(held \o channel) = 0
      BY <3>1, <3>2, <3>3
    <3> QED BY <1>1, <3>4 DEF UnderWay
  <2>3. PassedOn
    BY <1>5, FrameOfType DEF PassedOn, PassOn
  <2>4. Len(passed') >= Len(passed) /\ Len(passed') \in Nat
    <3>1. CASE passed' = passed
      BY <2>1, <3>1
    <3>2. ASSUME NEW frame \in 0..Len(frames), passed' = Append(passed, frame)
          PROVE  Len(passed') >= Len(passed) /\ Len(passed') \in Nat
      <4>1. frame \in Nat
        BY Facts
      <4>2. Len(passed') = Len(passed) + 1
        BY <2>1, <3>2, <4>1, AppendProperties
      <4> QED BY <2>1, <4>2
    <3> QED BY <2>3, <3>1, <3>2 DEF PassedOn
  <2>5. Len(passed') <= sound => Begins(held' \o channel', FramesFrom(frames, sound)[Len(passed') + 1])
    <3> SUFFICES ASSUME Len(passed') <= sound
                 PROVE  Begins(held' \o channel', FramesFrom(frames, sound)[Len(passed') + 1])
      OBVIOUS
    <3>1. Len(passed') = sound /\ sound + 1 \in 1..sound + 1
      BY <2>1, <2>4
    <3>2. FramesFrom(frames, sound)[sound + 1] = <<>>
      BY <3>1, DueType
    <3>3. Len(held' \o channel') \in Nat
      BY <1>3, ConcatProperties, LenProperties
    <3>4. Begins(held' \o channel', <<>>)
      BY <3>3, Len(<<>>) = 0 DEF Begins
    <3> QED BY <3>1, <3>2, <3>4
  <2>6. InOrder'
    BY <2>2, <2>5 DEF InOrder, Ordered
  <2> QED BY <1>3, <2>3, <2>6
<1> QED
  BY <1>4, <1>5

(* What is received and not cut is still under way.                        *)
LEMMA Received ==
  ASSUME StreamInv, NEW n \in 1..Len(channel)
  PROVE  UnderWay(held \o SubSeq(channel, 1, n), SubSeq(channel, n + 1, Len(channel)))
<1> DEFINE front == SubSeq(channel, 1, n)
           back == SubSeq(channel, n + 1, Len(channel))
<1>1. held \in Seq(SentByte) /\ channel \in Seq(SentByte) /\ Len(channel) \in Nat
  BY Facts DEF StreamInv, BytesTyped
<1>2. \A i \in 1..Len(channel) : channel[i] \in SentByte
  BY <1>1, ElementOfSeq
<1>3. front \in Seq(SentByte)
  BY <1>1, <1>2, SubSeqProperties, 1 \in Int, n \in Int, 1..n \subseteq 1..Len(channel)
<1>4. back \in Seq(SentByte)
  BY <1>1, <1>2, SubSeqProperties, n + 1 \in Int, Len(channel) \in Int,
     n + 1..Len(channel) \subseteq 1..Len(channel)
<1>5. front \o back = channel
  <2>1. /\ 1 \in 1..Len(channel) + 1 /\ n \in 1 - 1..Len(channel)
        /\ Len(channel) \in n..Len(channel)
    BY <1>1
  <2>2. front \o back = SubSeq(channel, 1, Len(channel))
    BY <1>1, <2>1, ConcatAdjacentSubSeq
  <2> QED BY <1>1, <2>2, SubSeqFull
<1> HIDE DEF front, back
<1>6. (held \o front) \o back = held \o (front \o back)
  <2>1. held \in Seq(SentByte)
    BY <1>1
  <2> QED BY ONLY <2>1, <1>3, <1>4, ConcatAssociative, SMTT(30)
<1>7. held \o front \in Seq(SentByte)
  BY <1>1, <1>3, ConcatProperties
<1>8. UnderWay(held \o front, back)
  BY <1>4, <1>5, <1>6, <1>7 DEF UnderWay
<1> QED
  BY <1>8 DEF front, back

LEMMA ChannelShorter ==
  ASSUME StreamInv, NEW n \in 1..Len(channel)
  PROVE  Len(SubSeq(channel, n + 1, Len(channel))) <= Room
<1>1. channel \in Seq(Pairs) /\ Len(channel) \in Nat /\ Len(channel) <= Room /\ Room \in Nat
  BY Facts, RoomAssumption DEF StreamInv, TypeOK
<1>2. \A i \in n + 1..Len(channel) : channel[i] \in Pairs
  BY <1>1, ElementOfSeq
<1>3. Len(SubSeq(channel, n + 1, Len(channel))) =
        IF n + 1 <= Len(channel) THEN (Len(channel) - (n + 1)) + 1 ELSE 0
  BY <1>1, <1>2, SubSeqProperties, n + 1 \in Int, Len(channel) \in Int
<1> QED
  BY <1>1, <1>3

LEMMA KeptInOrder ==
  ASSUME StreamInv, InOrder, NEW bytes, NEW rest, UnderWay(bytes, rest),
         held' = bytes, channel' = rest, UNCHANGED <<frames, sound, passed>>
  PROVE  InOrder'
BY DEF InOrder, UnderWay

(* A frame or a part of one is sent.                                       *)
LEMMA SentInOrder ==
  ASSUME StreamInv, InOrder, NEW n \in Sizes, NEW part \in Seq(Pairs),
         frames' = Append(frames, n), channel' = channel \o part, UNCHANGED <<held, passed>>,
         \/ sound' = sound
         \/ sound = Len(frames) /\ sound' = sound + 1 /\ part = FrameBytes(Len(frames) + 1, n)
  PROVE  InOrder'
<1> DEFINE stream == held \o channel
           k == Len(passed) + 1
<1>1. /\ frames \in Seq(Nat) /\ Len(frames) \in Nat /\ sound \in 0..Len(frames) /\ n \in Nat
      /\ held \in Seq(Pairs) /\ channel \in Seq(Pairs) /\ Len(passed) \in Nat
      /\ \A i \in 1..Len(frames) : frames[i] \in Nat
  BY Facts, ElementOfSeq
<1>2. /\ Len(frames') = Len(frames) + 1 /\ frames'[Len(frames) + 1] = n
      /\ \A i \in 1..Len(frames) : frames'[i] = frames[i]
  BY <1>1, AppendProperties
<1>3. stream \in Seq(Pairs)
  BY <1>1, ConcatProperties
<1>4. held' \o channel' = stream \o part
  <2>1. (held \o channel) \o part = held \o (channel \o part)
    BY ONLY <1>1, part \in Seq(Pairs), ConcatAssociative, SMTT(30)
  <2> QED BY <2>1
<1>5. CASE sound' = sound
  <2>1. sound' # Len(frames')
    BY <1>1, <1>2, <1>5
  <2>2. ASSUME Len(passed) <= sound PROVE Begins(stream \o part, FramesFrom(frames', sound)[k])
    <3>1. k \in 1..sound + 1 /\ sound \in Nat /\ \A i \in 1..sound : frames'[i] = frames[i]
      BY <1>1, <1>2, <2>2
    <3> HIDE DEF k
    <3>2. FramesFrom(frames', sound)[k] = FramesFrom(frames, sound)[k]
      BY <3>1, FramesFromSame
    <3>3. FramesFrom(frames, sound)[k] \in Seq(Pairs)
      BY <3>1, DueType
    <3>4. Begins(stream, FramesFrom(frames, sound)[k])
      BY <2>2 DEF InOrder, Ordered, k
    <3> HIDE DEF stream
    <3>5. Begins(stream \o part, FramesFrom(frames, sound)[k])
      BY <1>3, <3>3, <3>4, BeginsConcat
    <3> QED BY <3>2, <3>5
  <2>3. Ordered(frames', sound', Len(passed'), stream \o part)
    BY <1>5, <2>1, <2>2 DEF Ordered
  <2> QED BY <1>4, <2>3 DEF InOrder
<1>6. CASE sound = Len(frames) /\ sound' = sound + 1 /\ part = FrameBytes(Len(frames) + 1, n)
  <2> DEFINE due == FramesFrom(frames, sound)[k]
             dueNext == FramesFrom(frames', sound + 1)[k]
  <2>1. Len(passed) <= sound /\ Len(stream) = Len(due) /\ Begins(stream, due)
    BY <1>6 DEF InOrder, Ordered
  <2>2. k \in 1..sound + 1 /\ sound \in Nat
    BY <1>1, <2>1
  <2>3. dueNext = due \o part
    <3>1. /\ \A i \in 1..sound : frames[i] \in Nat /\ frames'[i] = frames[i]
          /\ frames'[sound + 1] \in Nat /\ frames'[sound + 1] = n /\ Len(frames) + 1 = sound + 1
      BY <1>1, <1>2, <1>6
    <3> HIDE DEF k
    <3>2. \A j \in 1..sound + 1 :
            FramesFrom(frames', sound + 1)[j] =
              FramesFrom(frames, sound)[j] \o FrameBytes(sound + 1, frames'[sound + 1])
      <4> DEFINE gs == frames'
      <4>1. sound \in Nat
        BY <2>2
      <4>2. \A i \in 1..sound : frames[i] \in Nat /\ gs[i] = frames[i]
        BY <3>1
      <4>3. gs[sound + 1] \in Nat
        BY <3>1
      <4> HIDE DEF gs
      <4>4. \A j \in 1..sound + 1 :
              FramesFrom(gs, sound + 1)[j] =
                FramesFrom(frames, sound)[j] \o FrameBytes(sound + 1, gs[sound + 1])
        BY ONLY <4>1, <4>2, <4>3, FramesFromLonger, ZenonT(30)
      <4> QED BY <4>4 DEF gs
    <3> QED BY <1>6, <2>2, <3>1, <3>2
  <2>4. due \in Seq(Pairs)
    <3> HIDE DEF k
    <3> QED BY <2>2, DueType
  <2> HIDE DEF due, dueNext, stream
  <2>5. Begins(stream \o part, due \o part) /\ Len(stream \o part) = Len(due \o part)
    BY <1>3, <2>1, <2>4, BeginsConcat
  <2>6. Len(passed) <= sound + 1
    BY <1>1, <2>1
  <2>7. Ordered(frames', sound', Len(passed'), stream \o part)
    BY <1>6, <2>3, <2>5, <2>6 DEF Ordered, dueNext
  <2> QED BY <1>4, <2>7 DEF InOrder, stream
<1> QED
  BY <1>5, <1>6

-----------------------------------------------------------------------------
(* The invariant holds, and every step is one of FrameQueue.               *)

(* The bytes have the type of the model's bytes.                           *)
LEMMA BytesWiden ==
  ASSUME NEW m \in Nat, NEW k \in Nat, m <= k
  PROVE  /\ \A s \in Seq((0..m) \X (0..Room)) : s \in Seq((0..k) \X (0..Room))
         /\ \A s \in Seq(0..m) : s \in Seq(0..k)
<1>1. (0..m) \X (0..Room) \subseteq (0..k) \X (0..Room) /\ 0..m \subseteq 0..k
  OBVIOUS
<1> QED
  BY <1>1, SeqMonotonic

(* A receiver that dies has found a size beyond its bytes.                 *)
LEMMA DeadAfterSound ==
  ASSUME StreamInv, InOrder, NEW bytes, NEW rest, UnderWay(bytes, rest), SizeBytes <= Len(bytes),
         pair = "multi" => ReadSize <= Len(bytes),
         NEW size \in SizesAt(bytes), size > Len(bytes), pair = "multi"
  PROVE  sound < Len(frames) /\ Len(passed) >= sound
<1>1. /\ Len(passed) \in Nat /\ sound \in Nat /\ Len(frames) \in Nat /\ sound <= Len(frames)
      /\ Len(bytes) \in Nat /\ Len(rest) \in Nat /\ Len(bytes) >= 2 /\ ReadSize \in Nat
      /\ Len(bytes \o rest) = Len(bytes) + Len(rest) /\ ReadSize <= Len(bytes)
  BY Facts, UnderWayPairs, ReadAssumption DEF SizeBytes
<1>2. Len(passed) >= sound
  <2> SUFFICES ASSUME Len(passed) < sound PROVE FALSE
    BY <1>1
  <2> DEFINE k == Len(passed) + 1
  <2>1. size = frames[k]
    BY SoundSize
  <2>2. k \in 1..sound /\ frames[k] \in Nat
    BY <1>1, Facts, SMTT(30)
  <2>3. frames[k] <= ReadSize
    BY <2>2 DEF StreamInv, SoundFit, Fits
  <2> QED BY <1>1, <2>1, <2>2, <2>3
<1>3. sound # Len(frames)
  <2> SUFFICES ASSUME sound = Len(frames) PROVE FALSE
    OBVIOUS
  <2>1. Len(passed) <= sound /\ Len(held \o channel) = Len(FramesFrom(frames, sound)[Len(passed) + 1])
    BY DEF InOrder, Ordered
  <2>2. Len(passed) + 1 = sound + 1 /\ sound + 1 \in 1..sound + 1
    BY <1>1, <1>2, <2>1
  <2>3. FramesFrom(frames, sound)[sound + 1] = <<>>
    BY <2>2, DueType
  <2>4. Len(held \o channel) = 0
    BY <2>1, <2>2, <2>3
  <2> QED BY <1>1, <2>4 DEF UnderWay
<1> QED
  BY <1>1, <1>2, <1>3

LEMMA InitInv == Init => StreamInv
<1> SUFFICES ASSUME Init PROVE StreamInv
  OBVIOUS
<1>1. /\ frames = <<>> /\ sound = 0 /\ channel = <<>> /\ held = <<>> /\ passed = <<>>
      /\ Len(frames) = 0 /\ Len(passed) = 0
  BY DEF Init
<1>2. TypeOK
  BY <1>1, FramesAssumption, RoomAssumption, EmptySeq DEF Init, TypeOK
<1>3. BytesTyped /\ SoundFit
  BY <1>1, EmptySeq DEF BytesTyped, SoundFit
<1>4. InOrder
  <2>1. FramesFrom(frames, 0)[0 + 1] = <<>>
    BY FramesFromValues
  <2>2. held \o channel = <<>>
    BY <1>1
  <2> QED BY <1>1, <2>1, <2>2 DEF InOrder, Ordered, Begins
<1> QED
  BY <1>2, <1>3, <1>4 DEF StreamInv, DiesOfBrokenFrame, Init

(* Every send puts some bytes of the frame behind those under way.         *)
LEMMA SendStep ==
  ASSUME StreamInv, NEW n \in Sizes, SendFrame(n) \/ SendPart(n)
  PROVE  StreamInv'
<1> DEFINE k == Len(frames) + 1
           frame == FrameBytes(k, n)
<1>1. /\ frames \in Seq(Sizes) /\ Len(frames) \in Nat /\ sound \in 0..Len(frames)
      /\ n \in Nat /\ n >= 3 /\ n <= Room /\ Len(frames) < MaxFrames /\ MaxFrames \in Nat
      /\ Room \in Nat /\ Len(channel) \in Nat /\ Len(channel) <= Room
  BY Facts, FramesAssumption, RoomAssumption DEF StreamInv, TypeOK, SendFrame, SendPart, CanSend
<1>2. /\ frame \in Seq(Pairs) /\ frame \in Seq((0..k) \X (0..Room)) /\ Len(frame) = n
      /\ \A j \in 1..n : frame[j] \in (0..k) \X (0..Room)
  <2>1. k \in Nat /\ frame = [j \in 1..n |-> <<k, j>>]
    BY <1>1 DEF FrameBytes
  <2> HIDE DEF k
  <2> QED BY <1>1, <2>1 DEF Pairs
<1>3. PICK part \in Seq((0..k) \X (0..Room)) :
        /\ channel' = channel \o part /\ Len(part) <= Room - Len(channel)
        /\ \/ sound' = sound
           \/ sound = Len(frames) /\ Fits(n) /\ sound' = sound + 1 /\ part = frame
  <2>1. CASE SendFrame(n)
    <3>1. Len(frame) <= Room - Len(channel)
      BY <1>2, <2>1 DEF SendFrame, FreeRoom
    <3>2. frames' = Append(frames, n) /\ Len(frames') = k
      BY <1>1, <2>1 DEF SendFrame
    <3>3. channel' = channel \o frame
      BY <2>1, <3>2 DEF SendFrame
    <3> HIDE DEF k, frame
    <3> QED BY <1>2, <2>1, <3>1, <3>3 DEF SendFrame
  <2>2. CASE SendPart(n)
    <3> DEFINE part == SubSeq(frame, 1, FreeRoom)
    <3>1. FreeRoom \in 1..n - 1
      BY <2>2 DEF SendPart
    <3>2. frames' = Append(frames, n) /\ Len(frames') = k
      BY <1>1, <2>2 DEF SendPart
    <3>3. channel' = channel \o part /\ sound' = sound
      BY <2>2, <3>2 DEF SendPart
    <3>4. part \in Seq((0..k) \X (0..Room)) /\ Len(part) = FreeRoom
      <4> HIDE DEF frame, k
      <4>1. 1 \in Int /\ FreeRoom \in Int /\ \A j \in 1..FreeRoom : frame[j] \in (0..k) \X (0..Room)
        BY <1>1, <1>2, <3>1
      <4>2. /\ part \in Seq((0..k) \X (0..Room))
            /\ Len(part) = IF 1 <= FreeRoom THEN (FreeRoom - 1) + 1 ELSE 0
        BY <4>1, SubSeqProperties
      <4> QED BY <3>1, <4>2
    <3>5. Len(part) <= Room - Len(channel)
      BY <1>1, <3>1, <3>4 DEF FreeRoom
    <3> HIDE DEF part
    <3> QED BY <3>3, <3>4, <3>5
  <2> QED BY <2>1, <2>2
<1>4. /\ frames' = Append(frames, n) /\ receiver = "reading"
      /\ UNCHANGED <<pair, held, passed, sender, receiver>>
  BY DEF SendFrame, SendPart
<1>5. frames' \in Seq(Sizes) /\ Len(frames') = k /\ frames'[k] = n
      /\ \A i \in 1..Len(frames) : frames'[i] = frames[i]
  BY <1>1, <1>4, AppendProperties
<1>6. part \in Seq(Pairs)
  <2>1. (0..k) \X (0..Room) \subseteq Pairs
    BY <1>1 DEF Pairs
  <2> QED BY <2>1, SeqMonotonic
<1>7. Len(part) \in Nat
  BY <1>6, LenProperties
<1> HIDE DEF frame
<1>8. held' \in Seq((0..k) \X (0..Room)) /\ channel' \in Seq((0..k) \X (0..Room)) /\ passed' \in Seq(0..k)
  <2>1. Len(frames) <= k /\ k \in Nat
    BY <1>1
  <2>2. held \in Seq((0..Len(frames)) \X (0..Room)) /\ channel \in Seq((0..Len(frames)) \X (0..Room))
        /\ passed \in Seq(0..Len(frames))
    BY DEF StreamInv, BytesTyped, SentByte
  <2> HIDE DEF k
  <2>3. held \in Seq((0..k) \X (0..Room)) /\ channel \in Seq((0..k) \X (0..Room)) /\ passed \in Seq(0..k)
    BY <1>1, <2>1, <2>2, BytesWiden
  <2>4. channel \o part \in Seq((0..k) \X (0..Room))
    BY <2>3, ConcatProperties
  <2> QED BY <1>3, <1>4, <2>3, <2>4
<1>9. BytesTyped'
  BY <1>5, <1>8 DEF BytesTyped, SentByte
<1>10. sound' \in 0..k
  BY <1>1, <1>3
<1>11. Len(channel') <= Room
  <2>1. Len(channel') = Len(channel) + Len(part)
    BY <1>3, <1>6, Facts, ConcatProperties
  <2> QED BY <1>1, <1>3, <1>7, <2>1
<1>12. TypeOK'
  <2>1. k \in Nat /\ k <= MaxFrames
    BY <1>1
  <2> HIDE DEF k
  <2>2. /\ held' \in Seq((0..MaxFrames) \X (0..Room)) /\ channel' \in Seq((0..MaxFrames) \X (0..Room))
        /\ passed' \in Seq(0..MaxFrames)
    BY <1>1, <1>8, <2>1, BytesWiden
  <2>3. /\ pair' \in {"single", "multi"} /\ sender' \in {"open", "closed"}
        /\ receiver' \in {"reading", "ended", "dead"} /\ (pair' = "single" => receiver' # "dead")
    BY <1>4 DEF StreamInv, TypeOK
  <2> QED BY <1>5, <1>10, <1>11, <2>1, <2>2, <2>3 DEF TypeOK, Byte
<1>13. SoundFit'
  <2> SUFFICES ASSUME NEW i \in 1..sound' PROVE pair' = "single" \/ frames'[i] <= ReadSize
    BY DEF SoundFit, Fits
  <2>1. CASE i \in 1..sound
    <3>1. frames'[i] = frames[i] /\ Fits(frames[i])
      BY <1>1, <1>5, <2>1 DEF StreamInv, SoundFit
    <3> QED BY <1>4, <3>1 DEF Fits
  <2>2. CASE i \notin 1..sound
    <3>1. i = k /\ Fits(n)
      BY <1>1, <1>3, <2>2
    <3> QED BY <1>4, <1>5, <3>1 DEF Fits
  <2> QED BY <2>1, <2>2
<1>14. InOrder'
  <2>1. InOrder
    BY <1>4 DEF StreamInv
  <2>2. \/ sound' = sound
        \/ sound = Len(frames) /\ sound' = sound + 1 /\ part = FrameBytes(Len(frames) + 1, n)
    BY <1>3 DEF frame
  <2> QED BY <1>3, <1>4, <1>6, <2>1, <2>2, SentInOrder
<1> QED
  BY <1>4, <1>9, <1>12, <1>13, <1>14 DEF StreamInv, DiesOfBrokenFrame

(* What all turns of the receivers leave alone; what is under way is only  *)
(* received, cut or dropped.                                               *)
LEMMA TurnStep ==
  ASSUME StreamInv, UNCHANGED <<pair, frames, sound, sender>>,
         held' \in Seq(SentByte) /\ channel' \in Seq(SentByte) /\ Len(channel') <= Room, PassedOn,
         receiver' \in {"reading", "ended", "dead"} /\ (pair = "single" => receiver' # "dead"),
         receiver' = "reading" => InOrder',
         receiver' = "dead" => sound < Len(frames) /\ Len(passed') >= sound
  PROVE  StreamInv'
<1>1. Len(frames) \in Nat /\ MaxFrames \in Nat /\ Len(frames) <= MaxFrames
  BY Facts, FramesAssumption
<1>2. passed \in Seq(0..Len(frames))
  BY DEF StreamInv, BytesTyped
<1>3. passed' \in Seq(0..Len(frames))
  <2>1. \A frame \in 0..Len(frames) : Append(passed, frame) \in Seq(0..Len(frames))
    BY <1>2, AppendProperties
  <2> QED BY <1>2, <2>1 DEF PassedOn
<1>4. BytesTyped'
  BY <1>3 DEF BytesTyped, SentByte
<1>5. /\ held' \in Seq((0..MaxFrames) \X (0..Room)) /\ channel' \in Seq((0..MaxFrames) \X (0..Room))
      /\ passed' \in Seq(0..MaxFrames)
  BY <1>1, <1>3, BytesWiden DEF SentByte
<1>6. TypeOK'
  BY <1>5 DEF StreamInv, TypeOK, Byte
<1>7. SoundFit'
  BY DEF StreamInv, SoundFit, Fits
<1> QED
  BY <1>4, <1>6, <1>7 DEF StreamInv, DiesOfBrokenFrame

LEMMA SingleTurnStep == StreamInv /\ SingleTurn => StreamInv' /\ PassedOn
<1> SUFFICES ASSUME StreamInv, SingleTurn PROVE StreamInv' /\ PassedOn
  OBVIOUS
<1>1. /\ pair = "single" /\ receiver = "reading" /\ UNCHANGED <<pair, frames, sound, sender, receiver>>
      /\ InOrder /\ Len(channel) \in Nat
  BY Facts DEF SingleTurn, StreamInv
<1>2. PICK n \in 1..ReadSize :
        /\ n <= Len(channel)
        /\ channel' = SubSeq(channel, n + 1, Len(channel))
        /\ LET bytes == held \o SubSeq(channel, 1, n)
           IN  IF Len(bytes) < SizeBytes
               THEN held' = bytes /\ UNCHANGED passed
               ELSE \E size \in SizesAt(bytes) :
                      IF Len(bytes) < SizeBytes + size
                      THEN held' = bytes /\ UNCHANGED passed
                      ELSE /\ PassOn(Taken(bytes, size))
                           /\ held' = Reduced(bytes, size)
  BY DEF SingleTurn
<1> DEFINE bytes == held \o SubSeq(channel, 1, n)
<1>3. UnderWay(bytes, channel')
  BY <1>1, <1>2, Received, ReadAssumption
<1>4. Len(channel') <= Room
  BY <1>1, <1>2, <1>3, ChannelShorter DEF StreamInv, TypeOK
<1>5. \/ held' = bytes /\ UNCHANGED passed
      \/ /\ SizeBytes <= Len(bytes)
         /\ \E size \in SizesAt(bytes) : /\ SizeBytes + size <= Len(bytes)
                                         /\ PassOn(Taken(bytes, size)) /\ held' = Reduced(bytes, size)
  <2>1. Len(bytes) \in Nat /\ bytes \in Seq(SentByte)
    BY <1>3, UnderWayPairs DEF UnderWay
  <2> HIDE DEF bytes
  <2>2. 1 <= Len(bytes) => \A size \in SizesAt(bytes) : size \in Nat
    BY <2>1, SizesAtType, RoomAssumption
  <2> QED BY <1>2, <2>1, <2>2 DEF bytes, SizeBytes
<1> HIDE DEF bytes
<1>6. held' \in Seq(SentByte) /\ channel' \in Seq(SentByte) /\ InOrder' /\ PassedOn
  <2>1. CASE held' = bytes /\ UNCHANGED passed
    BY <1>1, <1>3, <2>1, KeptInOrder DEF PassedOn, UnderWay
  <2>2. ASSUME SizeBytes <= Len(bytes), NEW size \in SizesAt(bytes), SizeBytes + size <= Len(bytes),
               PassOn(Taken(bytes, size)), held' = Reduced(bytes, size)
        PROVE  held' \in Seq(SentByte) /\ channel' \in Seq(SentByte) /\ InOrder' /\ PassedOn
    <3>1. bytes \in Seq(Pairs) /\ Len(bytes) \in Nat /\ bytes \in Seq(SentByte)
      BY <1>3, UnderWayPairs DEF UnderWay
    <3>2. size \in Nat
      BY <2>2, <3>1, SizesAtType, RoomAssumption DEF SizeBytes
    <3>3. size <= Len(bytes) /\ size + SizeBytes <= Len(bytes) /\ \A i \in 1..size : bytes[i] = bytes[i]
      BY <2>2, <3>1, <3>2 DEF SizeBytes
    <3> QED BY <1>1, <1>3, <2>2, <3>1, <3>3, CutInOrder
  <2> QED BY <1>5, <2>1, <2>2
<1> QED
  BY <1>1, <1>4, <1>6, TurnStep

(* The cut of the multi-client thread, with two bytes of what the vector   *)
(* held before behind it.                                                  *)
LEMMA CutFromStep ==
  ASSUME StreamInv, InOrder, NEW bytes, UnderWay(bytes, channel'), ReadSize <= Len(bytes),
         pair = "multi", receiver = "reading", Len(channel') <= Room,
         CutFrom(bytes), UNCHANGED <<pair, frames, sound, sender>>
  PROVE  StreamInv' /\ PassedOn
<1>1. /\ bytes \in Seq(Pairs) /\ Len(bytes) \in Nat /\ bytes \in Seq(SentByte) /\ channel' \in Seq(SentByte)
      /\ SizeBytes <= Len(bytes) /\ 1 <= Len(bytes)
  <2>1. bytes \in Seq(Pairs) /\ Len(bytes) \in Nat
    BY UnderWayPairs
  <2>2. bytes \in Seq(SentByte) /\ channel' \in Seq(SentByte)
    BY DEF UnderWay
  <2> QED BY <2>1, <2>2, ReadAssumption DEF SizeBytes
<1>2. PICK size \in SizesAt(bytes) :
        IF size > Len(bytes)
        THEN /\ receiver' = "dead" /\ held' = <<>>
             /\ UNCHANGED passed
        ELSE /\ PassOn(Taken(bytes \o <<Junk, Junk>>, size))
             /\ held' = Reduced(bytes, size)
             /\ UNCHANGED receiver
  BY DEF CutFrom
<1>3. size \in Nat
  BY <1>1, SizesAtType, RoomAssumption
<1>4. CASE size > Len(bytes)
  <2>1. sound < Len(frames) /\ Len(passed) >= sound
    BY <1>1, <1>4, DeadAfterSound
  <2>2. receiver' = "dead" /\ held' = <<>> /\ passed' = passed
    BY <1>2, <1>4
  <2>3. held' \in Seq(SentByte)
    BY <2>2, EmptySeq
  <2>4. PassedOn
    BY <2>2 DEF PassedOn
  <2> QED BY <1>1, <2>1, <2>2, <2>3, <2>4, TurnStep
<1>5. CASE ~(size > Len(bytes))
  <2> DEFINE ext == bytes \o <<Junk, Junk>>
  <2>1. PassOn(Taken(ext, size)) /\ held' = Reduced(bytes, size) /\ receiver' = receiver
    BY <1>2, <1>5
  <2>2. size <= Len(bytes)
    BY <1>1, <1>3, <1>5
  <2>3. ext \in Seq(Pairs) /\ size + SizeBytes <= Len(ext) /\ \A i \in 1..size : ext[i] = bytes[i]
    <3> DEFINE junk == <<Junk, Junk>>
    <3>1. junk \in Seq(Pairs) /\ Len(junk) = 2
      BY DEF Junk, Pairs
    <3> HIDE DEF junk
    <3>2. /\ ext \in Seq(Pairs) /\ Len(ext) = Len(bytes) + 2
          /\ \A i \in 1..Len(bytes) + 2 : ext[i] = IF i <= Len(bytes) THEN bytes[i] ELSE junk[i - Len(bytes)]
      BY <1>1, <3>1, ConcatProperties DEF junk
    <3> HIDE DEF ext
    <3> QED BY <1>1, <1>3, <2>2, <3>2 DEF SizeBytes
  <2> HIDE DEF ext
  <2>4. InOrder' /\ PassedOn /\ held' \in Seq(SentByte)
    BY <1>1, <2>1, <2>2, <2>3, CutInOrder
  <2> QED BY <1>1, <2>1, <2>4, TurnStep
<1> QED
  BY <1>4, <1>5

LEMMA MultiReadStep == StreamInv /\ MultiRead => StreamInv' /\ PassedOn
<1> SUFFICES ASSUME StreamInv, MultiRead PROVE StreamInv' /\ PassedOn
  OBVIOUS
<1>1. /\ pair = "multi" /\ receiver = "reading" /\ UNCHANGED <<pair, frames, sound, sender>>
      /\ InOrder /\ Len(channel) \in Nat
  BY Facts DEF MultiRead, StreamInv
<1>2. PICK n \in 1..ReadSize :
        /\ n <= Len(channel)
        /\ channel' = SubSeq(channel, n + 1, Len(channel))
        /\ LET bytes == held \o SubSeq(channel, 1, n)
           IN  IF Len(bytes) < ReadSize
               THEN held' = bytes /\ UNCHANGED <<passed, receiver>>
               ELSE CutFrom(bytes)
  BY DEF MultiRead
<1> DEFINE bytes == held \o SubSeq(channel, 1, n)
<1>3. UnderWay(bytes, channel')
  BY <1>1, <1>2, Received, ReadAssumption
<1>4. Len(channel') <= Room
  BY <1>1, <1>2, ChannelShorter, ReadAssumption
<1>5. IF Len(bytes) < ReadSize THEN held' = bytes /\ UNCHANGED <<passed, receiver>> ELSE CutFrom(bytes)
  BY <1>2
<1>6. Len(bytes) \in Nat
  BY <1>3, UnderWayPairs
<1> HIDE DEF bytes
<1>7. CASE Len(bytes) < ReadSize
  <2>1. held' = bytes /\ passed' = passed /\ receiver' = receiver
    BY <1>5, <1>7
  <2>2. InOrder' /\ PassedOn /\ held' \in Seq(SentByte) /\ channel' \in Seq(SentByte)
    BY <1>1, <1>3, <2>1, KeptInOrder DEF PassedOn, UnderWay
  <2> QED BY <1>1, <1>4, <2>1, <2>2, TurnStep
<1>8. CASE ReadSize <= Len(bytes)
  <2>1. CutFrom(bytes)
    BY <1>5, <1>6, <1>8, ReadAssumption
  <2> QED BY <1>1, <1>3, <1>4, <1>8, <2>1, CutFromStep
<1> QED
  BY <1>6, <1>7, <1>8, ReadAssumption

LEMMA MultiCutStep == StreamInv /\ MultiCut => StreamInv' /\ PassedOn
<1> SUFFICES ASSUME StreamInv, MultiCut PROVE StreamInv' /\ PassedOn
  OBVIOUS
<1>1. /\ pair = "multi" /\ receiver = "reading" /\ UNCHANGED <<pair, frames, sound, sender>>
      /\ channel' = channel /\ CutFrom(held) /\ ReadSize <= Len(held) /\ InOrder
  BY Facts, ReadAssumption DEF MultiCut, StreamInv
<1>2. UnderWay(held, channel') /\ Len(channel') <= Room
  BY <1>1 DEF StreamInv, TypeOK, BytesTyped, UnderWay
<1> QED
  BY <1>1, <1>2, CutFromStep

(* The thread ends, or the sender does.                                    *)
LEMMA EndStep ==
  ASSUME StreamInv, EndOfStream \/ Silence \/ SenderCloses
  PROVE  StreamInv' /\ UNCHANGED <<frames, sound, passed>>
<1>1. /\ UNCHANGED <<pair, frames, sound, channel, passed>> /\ sender' \in {"open", "closed"}
      /\ \/ receiver' = "ended" /\ held' = <<>>
         \/ receiver' = receiver /\ held' = held
  BY DEF EndOfStream, Silence, SenderCloses, RunEnds, StreamInv, TypeOK
<1>2. held' \in Seq(SentByte) /\ held' \in Seq(Byte)
  BY <1>1, EmptySeq DEF StreamInv, BytesTyped, TypeOK
<1>3. TypeOK' /\ BytesTyped' /\ SoundFit'
  BY <1>1, <1>2 DEF StreamInv, TypeOK, BytesTyped, SoundFit, Fits, SentByte, Byte
<1>4. receiver' = "reading" => InOrder'
  BY <1>1 DEF StreamInv, InOrder
<1> QED
  BY <1>1, <1>3, <1>4 DEF StreamInv, DiesOfBrokenFrame

LEMMA NextInv == StreamInv /\ [Next]_vars => StreamInv'
<1> SUFFICES ASSUME StreamInv, [Next]_vars PROVE StreamInv'
  OBVIOUS
<1>1. ASSUME NEW n \in Sizes, SendFrame(n) \/ SendPart(n) PROVE StreamInv'
  BY <1>1, SendStep
<1>2. CASE SingleTurn
  BY <1>2, SingleTurnStep
<1>3. CASE MultiRead
  BY <1>3, MultiReadStep
<1>4. CASE MultiCut
  BY <1>4, MultiCutStep
<1>5. CASE EndOfStream \/ Silence \/ SenderCloses
  BY <1>5, EndStep
<1>6. CASE UNCHANGED vars
  BY <1>6 DEF vars, StreamInv, TypeOK, BytesTyped, SoundFit, Fits, SentByte, Byte, InOrder, DiesOfBrokenFrame
<1> QED
  BY <1>1, <1>2, <1>3, <1>4, <1>5, <1>6 DEF Next

(* The state of a connection's byte stream has its type.                   *)
THEOREM TypeCorrect == Spec => []TypeOK
<1>1. StreamInv => TypeOK
  BY DEF StreamInv
<1> QED
  BY <1>1, InitInv, NextInv, PTL DEF Spec

(* What is under way in a receiver's vector and in its connection is the   *)
(* sound frames it has not passed on, from the first byte of the next one, *)
(* whatever the sizes of the frames, of the reads and of the connection.   *)
THEOREM StreamCorrect == Spec => []StreamAccounted
<1>1. ASSUME StreamInv PROVE StreamAccounted
  <2> DEFINE k == Len(passed) + 1
             due == FramesFrom(frames, sound)[k]
             stream == held \o channel
  <2> SUFFICES ASSUME receiver = "reading", Len(passed) <= sound
               PROVE  Len(due) <= Len(stream) /\ SubSeq(stream, 1, Len(due)) = due
    BY BytesFromFrames DEF StreamAccounted
  <2>1. Begins(stream, due)
    BY <1>1 DEF StreamInv, InOrder, Ordered
  <2>2. k \in 1..sound + 1
    BY <1>1, Facts
  <2>3. due \in Seq(Pairs) /\ Len(due) \in Nat
    <3> HIDE DEF k
    <3> QED BY <1>1, <2>2, DueType
  <2>4. stream \in Seq(Pairs)
    BY <1>1, Facts, ConcatProperties
  <2> HIDE DEF due, stream
  <2>5. Len(due) <= Len(stream) /\ Len(stream) \in Nat /\ \A i \in 1..Len(due) : stream[i] = due[i]
    BY <2>1, <2>4, LenProperties DEF Begins
  <2>6. \A i \in 1..Len(due) : stream[i] \in Pairs
    BY <2>3, <2>4, <2>5, ElementOfSeq
  <2>7. /\ SubSeq(stream, 1, Len(due)) \in Seq(Pairs)
        /\ Len(SubSeq(stream, 1, Len(due))) = IF 1 <= Len(due) THEN (Len(due) - 1) + 1 ELSE 0
        /\ \A i \in 1..(Len(due) - 1) + 1 : SubSeq(stream, 1, Len(due))[i] = stream[(1 + i) - 1]
    BY <2>3, <2>6, SubSeqProperties, 1 \in Int, Len(due) \in Int
  <2>8. Len(SubSeq(stream, 1, Len(due))) = Len(due)
    BY <2>3, <2>7
  <2>9. \A i \in 1..Len(due) : SubSeq(stream, 1, Len(due))[i] = due[i]
    BY <2>3, <2>5, <2>7
  <2>10. SubSeq(stream, 1, Len(due)) = due
    BY <2>3, <2>7, <2>8, <2>9, SeqEqual
  <2> QED BY <2>5, <2>10
<1> QED
  BY <1>1, InitInv, NextInv, PTL DEF Spec

(* The multi-client thread ends its process only when a frame was cut      *)
(* short or did not fit, and every frame before that one was passed on.    *)
THEOREM DeathExplained == Spec => []DiesOfBrokenFrame
<1>1. StreamInv => DiesOfBrokenFrame
  BY DEF StreamInv
<1> QED
  BY <1>1, InitInv, NextInv, PTL DEF Spec

(* The initial states are those of an empty queue.                         *)
LEMMA InitRefines == Init => Queue!QueueInit
BY DEF Init, Queue!QueueInit

(* A send is a Put, or a PutBroken when the frame or one before it was cut *)
(* short or does not fit; a cut is a Get; nothing else shows.              *)
LEMMA StepRefines == StreamInv /\ [Next]_vars => [Queue!QueueNext]_(Queue!queueVars)
<1> SUFFICES ASSUME StreamInv, [Next]_vars PROVE [Queue!QueueNext]_(Queue!queueVars)
  OBVIOUS
<1> USE DEF Queue!QueueNext, Queue!queueVars
<1>1. ASSUME NEW n \in Sizes, SendFrame(n) \/ SendPart(n) PROVE Queue!QueueNext
  <2>1. frames' = Append(frames, n) /\ passed' = passed
    BY <1>1 DEF SendFrame, SendPart
  <2>2. Len(frames') = Len(frames) + 1
    BY <2>1, Facts, AppendProperties
  <2>3. \/ sound' = sound
        \/ sound = Len(frames) /\ sound' = sound + 1
    BY <1>1 DEF SendFrame, SendPart
  <2>4. CASE sound' = sound
    BY <2>1, <2>2, <2>4 DEF Queue!PutBroken
  <2>5. CASE sound = Len(frames) /\ sound' = sound + 1
    BY <2>1, <2>2, <2>5 DEF Queue!Put
  <2> QED BY <2>3, <2>4, <2>5
<1>2. CASE SingleTurn \/ MultiRead \/ MultiCut
  <2>1. PassedOn /\ UNCHANGED <<frames, sound>>
    BY <1>2, SingleTurnStep, MultiReadStep, MultiCutStep DEF SingleTurn, MultiRead, MultiCut
  <2> QED BY <2>1 DEF PassedOn, Queue!Get
<1>3. CASE EndOfStream \/ Silence \/ SenderCloses
  BY <1>3, EndStep
<1>4. CASE UNCHANGED vars
  BY <1>4 DEF vars
<1> QED
  BY <1>1, <1>2, <1>3, <1>4 DEF Next

(* A TCP pair implements a queue of frames: they come out as they were     *)
(* put in, in order, each once, up to the first that was cut short or does *)
(* not fit, through reads of any length and both ways of cutting.          *)
THEOREM PairIsQueue == Spec => RefinesQueue
BY InitInv, NextInv, InitRefines, StepRefines, PTL DEF Spec, RefinesQueue, Queue!QueueSpec
==============================================================================
