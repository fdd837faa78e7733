-------------------------- MODULE AudioServer_proofs --------------------------
(***************************************************************************)
(* Theorems about AudioServer: for any sources and channels, recording     *)
(* period, numbers of chunks and of losses, the state has its type, every  *)
(* direction is that of its own chunk's bins or comes after a loss, and    *)
(* no time chunk is lost or repeated between two recordings.               *)
(***************************************************************************)
EXTENDS AudioServer, SequenceTheorems, FiniteSetTheorems, TLAPS

-----------------------------------------------------------------------------
(* The inductive invariant.                                                *)

In(m) == ToSet(input[m])
Received == 1..Len(source)

FFTs == {"fft", "spare fft"}

(* Where a chunk stands among those made from the time chunks: its own     *)
(* detections go before its spectrum.                                      *)
Rank(c) == IF c.kind = "fft" THEN 2 * c.n + 1 ELSE 2 * c.n

Ordered(s) == \A i, k \in 1..Len(s) : i < k => Rank(s[i]) < Rank(s[k])

Unregistered == \A i \in Instances : i \notin ToSet(routes) => input[i] = <<>>

(* No stage of the detection holds a chunk from before one further on.     *)
DetectionOrder ==
  /\ \A m \in FFTs \cup {"energy", "direction"} :
       Ordered(input[m]) /\ \A c \in In(m) : c.n \in Received /\ 2 * bins < Rank(c)
  /\ \A c \in In("direction"), d \in In("energy") : Rank(c) < Rank(d)
  /\ \A i \in FFTs : \A t \in In(i) :
       t.kind = "time" /\ \A c \in In("energy") \cup In("direction") : c.n < t.n
  /\ bins = NoChunk \/ bins \in Received

(* Every spectrum has its detections before it, or they are missing.       *)
Preceded ==
  /\ \A c \in In("direction") :
       c.kind = "fft" => \/ Chunk("detection", c.n) \in In("direction")
                         \/ bins = c.n
                         \/ DetectionMissing(c.n)
  /\ \A c \in In("energy") :
       c.kind = "fft" => \/ Chunk("magnitude", c.n) \in In("energy")
                         \/ Chunk("detection", c.n) \in In("direction")
                         \/ bins = c.n
                         \/ DetectionMissing(c.n)

DetectionInv == DetectionOrder /\ Preceded /\ DirectionsMatched

(* The numbers a stage of the recording holds, and their order.            *)
Ascending(s) == \A i, k \in 1..Len(s) : i < k => s[i] < s[k]
Below(S, T) == \A x \in S, y \in T : x < y
Finished == UNION {ToSet(passedOn[f]) : f \in 1..Len(passedOn)}
Coming(m) == {c.n : c \in In(m)}
Joining == ToSet(accumulated)

RecordingOrder ==
  /\ \A f \in 1..Len(passedOn) :
       Ascending(passedOn[f]) /\ passedOn[f] # <<>> /\ \A x \in ToSet(passedOn[f]) : f <= x
  /\ \A f, g \in 1..Len(passedOn) : f < g => Below(ToSet(passedOn[f]), ToSet(passedOn[g]))
  /\ Below(Finished, Joining \cup Coming("accumulator") \cup Coming("wav"))
  /\ Ascending(accumulated) /\ Below(Joining, Coming("accumulator") \cup Coming("wav"))
  /\ Ordered(input["accumulator"]) /\ Below(Coming("accumulator"), Coming("wav"))
  /\ Ordered(input["wav"])

InLine == Finished \cup Joining \cup Coming("accumulator") \cup Coming("wav")

RecordingInv ==
  /\ RecordingOrder
  /\ \A c \in In("wav") \cup In("accumulator") : c.kind # "fft"
  /\ InLine \cup LostBefore({"wav", "accumulator"}) \subseteq Received
  /\ InLine \cap LostBefore({"wav", "accumulator"}) = {}
  /\ "wav" \in ToSet(routes) => Received \subseteq InLine \cup LostBefore({"wav", "accumulator"})
  /\ \A c \in In("writer") : c.n \in 1..Len(passedOn)

-----------------------------------------------------------------------------
(* Sequences.                                                              *)

LEMMA Elements ==
  ASSUME NEW S, NEW s \in Seq(S)
  PROVE  /\ ToSet(s) = {s[i] : i \in 1..Len(s)} /\ ToSet(s) \subseteq S
         /\ Len(s) \in Nat /\ s \in [1..Len(s) -> S]
         /\ \A x \in ToSet(s) : \E i \in 1..Len(s) : x = s[i]
         /\ \A i \in 1..Len(s) : s[i] \in ToSet(s)
BY LenProperties, ElementOfSeq DEF ToSet

LEMMA NoElements == ToSet(<<>>) = {}
BY DEF ToSet

LEMMA OneElement ==
  ASSUME NEW x
  PROVE  ToSet(<<x>>) = {x}
BY DEF ToSet

LEMMA TwoElements ==
  ASSUME NEW x, NEW y
  PROVE  ToSet(<<x, y>>) = {x, y}
BY DEF ToSet

LEMMA AppendElements ==
  ASSUME NEW S, NEW s \in Seq(S), NEW x \in S
  PROVE  Append(s, x) \in Seq(S) /\ ToSet(Append(s, x)) = ToSet(s) \cup {x}
<1> DEFINE t == Append(s, x)
<1>1. /\ t \in Seq(S) /\ Len(t) = Len(s) + 1 /\ Len(s) \in Nat
      /\ \A i \in 1..Len(s) : t[i] = s[i]
      /\ t[Len(s) + 1] = x
  BY AppendProperties, LenProperties
<1> HIDE DEF t
<1>2. ToSet(t) = {t[i] : i \in 1..Len(s) + 1} /\ ToSet(s) = {s[i] : i \in 1..Len(s)}
  BY <1>1, Elements
<1>3. ToSet(t) \subseteq ToSet(s) \cup {x}
  <2> SUFFICES ASSUME NEW i \in 1..Len(s) + 1 PROVE t[i] \in ToSet(s) \cup {x}
    BY <1>2
  <2> QED BY <1>1, <1>2
<1>4. ToSet(s) \cup {x} \subseteq ToSet(t)
  <2>1. x \in ToSet(t)
    <3>1. Len(s) + 1 \in 1..Len(s) + 1
      BY <1>1
    <3> QED BY <1>1, <1>2, <3>1
  <2>2. ASSUME NEW i \in 1..Len(s) PROVE s[i] \in ToSet(t)
    <3>1. i \in 1..Len(s) + 1
      BY <1>1
    <3> QED BY <1>1, <1>2, <3>1
  <2> QED BY <1>2, <2>1, <2>2
<1> QED
  BY <1>1, <1>3, <1>4 DEF t

LEMMA TailElements ==
  ASSUME NEW S, NEW s \in Seq(S), s # <<>>
  PROVE  /\ Head(s) \in S /\ Tail(s) \in Seq(S)
         /\ ToSet(s) = {Head(s)} \cup ToSet(Tail(s))
<1> DEFINE t == Tail(s)
<1>1. /\ Head(s) \in S /\ t \in Seq(S) /\ Len(t) = Len(s) - 1 /\ Len(s) \in Nat /\ Len(s) >= 1
      /\ Head(s) = s[1] /\ \A i \in 1..Len(t) : t[i] = s[i + 1]
  BY HeadTailProperties, LenProperties, EmptySeq
<1> HIDE DEF t
<1>2. ToSet(t) = {t[i] : i \in 1..Len(t)} /\ ToSet(s) = {s[i] : i \in 1..Len(s)}
  BY <1>1, Elements
<1>3. {Head(s)} \cup ToSet(t) \subseteq ToSet(s)
  <2>1. ASSUME NEW i \in 1..Len(t) PROVE t[i] \in ToSet(s)
    <3>1. i + 1 \in 1..Len(s)
      BY <1>1
    <3> QED BY <1>1, <1>2, <3>1
  <2>2. Head(s) \in ToSet(s)
    <3>1. 1 \in 1..Len(s)
      BY <1>1
    <3> QED BY <1>1, <1>2, <3>1
  <2> QED BY <1>2, <2>1, <2>2
<1>4. ToSet(s) \subseteq {Head(s)} \cup ToSet(t)
  <2> SUFFICES ASSUME NEW i \in 1..Len(s) PROVE s[i] \in {Head(s)} \cup ToSet(t)
    BY <1>2
  <2>1. CASE i = 1
    BY <1>1, <2>1
  <2>2. CASE i # 1
    <3>1. i - 1 \in 1..Len(t) /\ (i - 1) + 1 = i
      BY <1>1, <2>2
    <3>2. t[i - 1] = s[i]
      BY <1>1, <3>1
    <3> QED BY <1>2, <3>1, <3>2
  <2> QED BY <2>1, <2>2
<1> QED
  BY <1>1, <1>3, <1>4 DEF t

LEMMA AppendOne ==
  ASSUME NEW S, NEW s \in Seq(S), NEW x \in S
  PROVE  s \o <<x>> = Append(s, x)
BY AppendIsConcat

LEMMA AppendTwo ==
  ASSUME NEW S, NEW s \in Seq(S), NEW x \in S, NEW y \in S
  PROVE  s \o <<x, y>> = Append(Append(s, x), y)
<1> DEFINE t == <<x, y>>
           u == Append(s, x)
           v == Append(u, y)
<1>1. t \in Seq(S) /\ Len(t) = 2 /\ t[1] = x /\ t[2] = y /\ Len(s) \in Nat
  BY LenProperties
<1>2. u \in Seq(S) /\ Len(u) = Len(s) + 1 /\ u[Len(s) + 1] = x /\ \A i \in 1..Len(s) : u[i] = s[i]
  BY AppendProperties
<1> HIDE DEF t, u
<1>3. v \in Seq(S) /\ Len(v) = Len(u) + 1 /\ v[Len(u) + 1] = y /\ \A i \in 1..Len(u) : v[i] = u[i]
  BY <1>2, AppendProperties
<1>4. /\ s \o t \in Seq(S) /\ Len(s \o t) = Len(s) + 2
      /\ \A i \in 1..Len(s) + 2 : (s \o t)[i] = IF i <= Len(s) THEN s[i] ELSE t[i - Len(s)]
  <2>1. /\ s \o t \in Seq(S) /\ Len(s \o t) = Len(s) + Len(t)
        /\ \A i \in 1..Len(s) + Len(t) : (s \o t)[i] = IF i <= Len(s) THEN s[i] ELSE t[i - Len(s)]
    BY ONLY <1>1, s \in Seq(S), ConcatProperties
  <2> QED BY <1>1, <2>1
<1> HIDE DEF v
<1>5. ASSUME NEW i \in 1..Len(s) + 2 PROVE (s \o t)[i] = v[i]
  <2>1. CASE i \in 1..Len(s)
    BY <1>1, <1>2, <1>3, <1>4, <2>1
  <2>2. CASE i = Len(s) + 1
    <3>1. i - Len(s) = 1 /\ ~(i <= Len(s)) /\ i \in 1..Len(u)
      BY <1>1, <1>2, <2>2
    <3>2. (s \o t)[i] = x
      BY <1>1, <1>4, <3>1
    <3> QED BY <1>2, <1>3, <2>2, <3>1, <3>2
  <2>3. CASE i = Len(s) + 2
    <3>1. i - Len(s) = 2 /\ ~(i <= Len(s)) /\ i = Len(u) + 1
      BY <1>1, <1>2, <2>3
    <3>2. (s \o t)[i] = y
      BY <1>1, <1>4, <3>1
    <3> QED BY <1>3, <3>1, <3>2
  <2>4. i \in 1..Len(s) \/ i = Len(s) + 1 \/ i = Len(s) + 2
    BY <1>1
  <2> QED BY <2>1, <2>2, <2>3, <2>4
<1>6. Len(v) = Len(s) + 2
  BY <1>1, <1>2, <1>3
<1>7. s \o t = v
  BY <1>3, <1>4, <1>5, <1>6, SeqEqual
<1> QED
  BY <1>7 DEF t, u, v

LEMMA OrderedTail ==
  ASSUME NEW s \in Seq(ChunkType), s # <<>>, Ordered(s)
  PROVE  Ordered(Tail(s)) /\ \A c \in ToSet(Tail(s)) : Rank(Head(s)) < Rank(c)
<1> DEFINE t == Tail(s)
<1>1. /\ t \in Seq(ChunkType) /\ Len(t) = Len(s) - 1 /\ Len(s) \in Nat /\ Len(s) >= 1
      /\ Head(s) = s[1] /\ \A i \in 1..Len(t) : t[i] = s[i + 1]
  BY HeadTailProperties, LenProperties, EmptySeq
<1> HIDE DEF t
<1>2. ASSUME NEW i \in 1..Len(t) PROVE i + 1 \in 1..Len(s) /\ 1 \in 1..Len(s) /\ 1 < i + 1
  BY <1>1
<1>3. ASSUME NEW i \in 1..Len(t), NEW k \in 1..Len(t), i < k PROVE Rank(t[i]) < Rank(t[k])
  <2>1. i + 1 < k + 1
    BY <1>1, <1>3
  <2> QED BY <1>1, <1>2, <2>1 DEF Ordered
<1>4. ASSUME NEW i \in 1..Len(t) PROVE Rank(Head(s)) < Rank(t[i])
  BY <1>1, <1>2 DEF Ordered
<1>5. \A c \in ToSet(t) : \E i \in 1..Len(t) : c = t[i]
  BY <1>1, Elements
<1> QED
  BY <1>3, <1>4, <1>5 DEF Ordered, t

LEMMA OrderedAppend ==
  ASSUME NEW s \in Seq(ChunkType), NEW x \in ChunkType, Ordered(s),
         \A c \in ToSet(s) : Rank(c) < Rank(x)
  PROVE  Ordered(Append(s, x))
<1> DEFINE t == Append(s, x)
<1>1. /\ t \in Seq(ChunkType) /\ Len(t) = Len(s) + 1 /\ Len(s) \in Nat
      /\ \A i \in 1..Len(s) : t[i] = s[i]
      /\ t[Len(s) + 1] = x
  BY AppendProperties, LenProperties
<1> HIDE DEF t
<1> SUFFICES ASSUME NEW i \in 1..Len(t), NEW k \in 1..Len(t), i < k PROVE Rank(t[i]) < Rank(t[k])
  BY DEF Ordered, t
<1>2. i \in 1..Len(s) /\ t[i] = s[i] /\ s[i] \in ToSet(s)
  BY <1>1, Elements
<1>3. CASE k = Len(s) + 1
  BY <1>1, <1>2, <1>3
<1>4. CASE k \in 1..Len(s)
  BY <1>1, <1>2, <1>4 DEF Ordered
<1> QED
  BY <1>1, <1>3, <1>4

LEMMA AscendingAppend ==
  ASSUME NEW s \in Seq(Numbers), NEW x \in Numbers, Ascending(s), \A y \in ToSet(s) : y < x
  PROVE  Ascending(Append(s, x))
<1> DEFINE t == Append(s, x)
<1>1. /\ t \in Seq(Numbers) /\ Len(t) = Len(s) + 1 /\ Len(s) \in Nat
      /\ \A i \in 1..Len(s) : t[i] = s[i]
      /\ t[Len(s) + 1] = x
  BY AppendProperties, LenProperties
<1> HIDE DEF t
<1> SUFFICES ASSUME NEW i \in 1..Len(t), NEW k \in 1..Len(t), i < k PROVE t[i] < t[k]
  BY DEF Ascending, t
<1>2. i \in 1..Len(s) /\ t[i] = s[i] /\ s[i] \in ToSet(s)
  BY <1>1, Elements
<1>3. CASE k = Len(s) + 1
  BY <1>1, <1>2, <1>3
<1>4. CASE k \in 1..Len(s)
  BY <1>1, <1>2, <1>4 DEF Ascending
<1> QED
  BY <1>1, <1>3, <1>4

-----------------------------------------------------------------------------
(* What a turn of a module's thread does to the buffers.                   *)

BuffersTyped ==
  /\ input \in [Modules -> Seq(ChunkType)]
  /\ lost \subseteq (Modules \cup {"disk"}) \X ChunkType /\ Cardinality(lost) <= MaxLost
  /\ IsFiniteSet(lost)

OthersKept(m, next) == \A o \in Modules : o # m /\ o # next => input'[o] = input[o]

LEMMA LossesBounded ==
  ASSUME IsFiniteSet(lost), NEW next, NEW S, IsFiniteSet(S),
         Cardinality(lost) + Cardinality(S) <= MaxLost
  PROVE  LET after == lost \cup {<<next, c>> : c \in S}
         IN  IsFiniteSet(after) /\ Cardinality(after) <= MaxLost
<1> DEFINE new == {<<next, c>> : c \in S}
           pair == [c \in S |-> <<next, c>>]
<1>1. pair \in Surjection(S, new)
  BY DEF Surjection
<1> HIDE DEF new, pair
<1>3. IsFiniteSet(new) /\ Cardinality(new) <= Cardinality(S)
  BY <1>1, FS_Surjection
<1>4. /\ IsFiniteSet(lost \cup new)
      /\ Cardinality(lost \cup new) = Cardinality(lost) + Cardinality(new) - Cardinality(lost \cap new)
  BY <1>3, FS_Union
<1>5. IsFiniteSet(lost \cap new)
  BY <1>3, FS_Intersection
<1>6. /\ Cardinality(lost) \in Nat /\ Cardinality(new) \in Nat /\ Cardinality(S) \in Nat
      /\ Cardinality(lost \cap new) \in Nat
  BY <1>3, <1>5, FS_CardinalityType
<1>7. Cardinality(lost \cup new) <= MaxLost
  BY <1>3, <1>4, <1>6, BoundsAssumption
<1> QED
  BY <1>4, <1>7 DEF new

LEMMA LossesTyped ==
  ASSUME BuffersTyped, NEW next \in Modules, NEW S, IsFiniteSet(S), S \subseteq ChunkType,
         Cardinality(lost) + Cardinality(S) <= MaxLost,
         lost' = lost \cup {<<next, c>> : c \in S}
  PROVE  /\ lost' \subseteq (Modules \cup {"disk"}) \X ChunkType /\ Cardinality(lost') <= MaxLost
         /\ IsFiniteSet(lost')
<1>1. IsFiniteSet(lost') /\ Cardinality(lost') <= MaxLost
  BY LossesBounded DEF BuffersTyped
<1>2. \A c \in S : <<next, c>> \in (Modules \cup {"disk"}) \X ChunkType
  OBVIOUS
<1>3. lost' \subseteq (Modules \cup {"disk"}) \X ChunkType
  BY <1>2 DEF BuffersTyped
<1> QED
  BY <1>1, <1>3

LEMMA ElementsFinite ==
  ASSUME NEW S, NEW s \in Seq(S), NEW T
  PROVE  IsFiniteSet(ToSet(s) \ T)
<1>1. ToSet(s) = {s[i] : i \in 1..Len(s)} /\ Len(s) \in Nat
  BY Elements
<1>2. IsFiniteSet(1..Len(s))
  BY <1>1, FS_Interval, 1 \in Int, Len(s) \in Int
<1>3. [i \in 1..Len(s) |-> s[i]] \in Surjection(1..Len(s), ToSet(s))
  BY <1>1 DEF Surjection
<1>4. IsFiniteSet(ToSet(s))
  BY <1>2, <1>3, FS_Surjection DEF ExistsSurjection
<1> QED
  BY <1>4, FS_Subset

LEMMA TurnTaken ==
  ASSUME BuffersTyped, NEW m \in Modules, NEW next \in Modules, m # next, input[m] # <<>>,
         NEW chunks \in Seq(ChunkType), TakeAndPass(m, next, chunks)
  PROVE  /\ BuffersTyped'
         /\ input'[m] = Tail(input[m]) /\ OthersKept(m, next)
         /\ \E kept \in {<<>>, chunks} \cup {<<c>> : c \in ToSet(chunks)} :
              /\ input'[next] = input[next] \o kept
              /\ lost' = Lost(next, chunks, kept)
<1>1. PICK kept \in MayKeep(chunks) :
        /\ input' = [input EXCEPT ![m] = Tail(@), ![next] = @ \o kept]
        /\ lost' = Lost(next, chunks, kept)
  BY DEF TakeAndPass
<1>2. /\ kept \in {<<>>, chunks} \cup {<<c>> : c \in ToSet(chunks)}
      /\ Cardinality(lost) + Cardinality(ToSet(chunks) \ ToSet(kept)) <= MaxLost
  BY DEF MayKeep
<1>3. ToSet(chunks) \subseteq ChunkType /\ <<>> \in Seq(ChunkType)
  BY Elements
<1>4. kept \in Seq(ChunkType)
  <2>1. \A c \in ToSet(chunks) : <<c>> \in Seq(ChunkType)
    BY <1>3
  <2> QED BY <1>2, <1>3, <2>1
<1>5. input \in [Modules -> Seq(ChunkType)]
  BY DEF BuffersTyped
<1>6. input[next] \in Seq(ChunkType) /\ input[m] \in Seq(ChunkType)
  BY <1>5
<1>7. Tail(input[m]) \in Seq(ChunkType)
  BY <1>6, TailElements
<1> DEFINE more == input[next] \o kept
           rest == Tail(input[m])
<1>8. more \in Seq(ChunkType)
  BY <1>4, <1>6, ConcatProperties
<1>9. input' = [[input EXCEPT ![m] = rest] EXCEPT ![next] = more]
  BY <1>1, <1>5
<1> HIDE DEF more, rest
<1>10. /\ input' \in [Modules -> Seq(ChunkType)] /\ input'[m] = rest /\ input'[next] = more
       /\ \A o \in Modules : o # m /\ o # next => input'[o] = input[o]
  BY <1>5, <1>7, <1>8, <1>9 DEF rest
<1>11. IsFiniteSet(ToSet(chunks) \ ToSet(kept))
  BY ElementsFinite
<1>12. BuffersTyped'
  BY <1>1, <1>2, <1>3, <1>10, <1>11, LossesTyped DEF BuffersTyped, Lost
<1> QED
  BY <1>1, <1>2, <1>10, <1>12 DEF OthersKept, more, rest

(* One chunk passed is found at the end of the next buffer, or lost.       *)
PassedOne(next, c) ==
  \/ input'[next] = Append(input[next], c) /\ lost' = lost
  \/ input'[next] = input[next] /\ lost' = lost \cup {<<next, c>>}

LEMMA TurnWithOne ==
  ASSUME BuffersTyped, NEW m \in Modules, NEW next \in Modules, m # next, input[m] # <<>>,
         NEW c \in ChunkType, TakeAndPass(m, next, <<c>>)
  PROVE  /\ BuffersTyped'
         /\ input'[m] = Tail(input[m]) /\ OthersKept(m, next)
         /\ PassedOne(next, c)
<1>1. <<c>> \in Seq(ChunkType) /\ ToSet(<<c>>) = {c} /\ ToSet(<<>>) = {}
  BY OneElement, NoElements
<1>2. /\ BuffersTyped' /\ input'[m] = Tail(input[m]) /\ OthersKept(m, next)
      /\ \E kept \in {<<>>, <<c>>} \cup {<<x>> : x \in ToSet(<<c>>)} :
              /\ input'[next] = input[next] \o kept
              /\ lost' = Lost(next, <<c>>, kept)
  BY <1>1, TurnTaken
<1>3. PICK kept \in {<<>>, <<c>>} : input'[next] = input[next] \o kept /\ lost' = Lost(next, <<c>>, kept)
  BY <1>1, <1>2
<1>4. input[next] \in Seq(ChunkType)
  BY DEF BuffersTyped
<1>5. CASE kept = <<>>
  <2>1. input'[next] = input[next]
    BY <1>3, <1>4, <1>5, ConcatEmptySeq
  <2>2. lost' = lost \cup {<<next, c>>}
    BY <1>1, <1>3, <1>5 DEF Lost
  <2> QED BY <1>2, <2>1, <2>2 DEF PassedOne
<1>6. CASE kept = <<c>>
  <2>1. input'[next] = Append(input[next], c)
    BY <1>3, <1>4, <1>6, AppendOne
  <2>2. lost' = lost
    BY <1>1, <1>3, <1>6 DEF Lost
  <2> QED BY <1>2, <2>1, <2>2 DEF PassedOne
<1> QED
  BY <1>3, <1>5, <1>6

(* Of two, both, one or none are found at the end.                         *)
PassedTwo(next, c, d) ==
  \/ input'[next] = Append(Append(input[next], c), d) /\ lost' = lost
  \/ input'[next] = Append(input[next], c) /\ lost' = lost \cup {<<next, d>>}
  \/ input'[next] = Append(input[next], d) /\ lost' = lost \cup {<<next, c>>}
  \/ input'[next] = input[next] /\ lost' = lost \cup {<<next, c>>, <<next, d>>}

LEMMA TurnWithTwo ==
  ASSUME BuffersTyped, NEW m \in Modules, NEW next \in Modules, m # next, input[m] # <<>>,
         NEW c \in ChunkType, NEW d \in ChunkType, c # d, TakeAndPass(m, next, <<c, d>>)
  PROVE  /\ BuffersTyped'
         /\ input'[m] = Tail(input[m]) /\ OthersKept(m, next)
         /\ PassedTwo(next, c, d)
<1>1. /\ <<c, d>> \in Seq(ChunkType) /\ ToSet(<<c, d>>) = {c, d}
      /\ ToSet(<<c>>) = {c} /\ ToSet(<<d>>) = {d} /\ ToSet(<<>>) = {}
  <2>1. <<c, d>> \in Seq(ChunkType)
    OBVIOUS
  <2> QED BY ONLY <2>1, OneElement, TwoElements, NoElements
<1>2. /\ BuffersTyped' /\ input'[m] = Tail(input[m]) /\ OthersKept(m, next)
      /\ \E kept \in {<<>>, <<c, d>>} \cup {<<x>> : x \in ToSet(<<c, d>>)} :
              /\ input'[next] = input[next] \o kept
              /\ lost' = Lost(next, <<c, d>>, kept)
  BY <1>1, TurnTaken
<1>3. PICK kept \in {<<>>, <<c, d>>, <<c>>, <<d>>} :
        input'[next] = input[next] \o kept /\ lost' = Lost(next, <<c, d>>, kept)
  BY <1>1, <1>2
<1>4. input[next] \in Seq(ChunkType)
  BY DEF BuffersTyped
<1>5. CASE kept = <<>>
  <2>1. input'[next] = input[next]
    BY <1>3, <1>4, <1>5, ConcatEmptySeq
  <2>2. lost' = lost \cup {<<next, c>>, <<next, d>>}
    BY <1>1, <1>3, <1>5 DEF Lost
  <2> QED BY <1>2, <2>1, <2>2 DEF PassedTwo
<1>6. CASE kept = <<c, d>>
  <2>1. input'[next] = Append(Append(input[next], c), d)
    BY <1>3, <1>4, <1>6, AppendTwo
  <2>2. lost' = lost
    BY <1>1, <1>3, <1>6 DEF Lost
  <2> QED BY <1>2, <2>1, <2>2 DEF PassedTwo
<1>7. CASE kept = <<c>>
  <2>1. input'[next] = Append(input[next], c)
    BY <1>3, <1>4, <1>7, AppendOne
  <2>2. lost' = lost \cup {<<next, d>>}
    BY <1>1, <1>3, <1>7 DEF Lost
  <2> QED BY <1>2, <2>1, <2>2 DEF PassedTwo
<1>8. CASE kept = <<d>>
  <2>1. input'[next] = Append(input[next], d)
    BY <1>3, <1>4, <1>8, AppendOne
  <2>2. lost' = lost \cup {<<next, c>>}
    BY <1>1, <1>3, <1>8 DEF Lost
  <2> QED BY <1>2, <2>1, <2>2 DEF PassedTwo
<1> QED
  BY <1>3, <1>5, <1>6, <1>7, <1>8

(* A chunk only taken.                                                     *)
LEMMA TurnWithNone ==
  ASSUME BuffersTyped, NEW m \in Modules, input[m] # <<>>, input' = [input EXCEPT ![m] = Tail(@)]
  PROVE  /\ input' \in [Modules -> Seq(ChunkType)]
         /\ input'[m] = Tail(input[m]) /\ OthersKept(m, m)
<1>1. input \in [Modules -> Seq(ChunkType)] /\ input[m] \in Seq(ChunkType)
  BY DEF BuffersTyped
<1>2. Tail(input[m]) \in Seq(ChunkType)
  BY <1>1, TailElements
<1> QED
  BY <1>1, <1>2 DEF OthersKept

-----------------------------------------------------------------------------
(* Types.                                                                  *)

RestTyped ==
  /\ routes \in Seq(Instances)
  /\ \A i, k \in 1..Len(routes) : i # k => TypeName(routes[i]) # TypeName(routes[k])
  /\ magnitude \in BOOLEAN /\ undefined \in BOOLEAN
  /\ source \in Seq(Sources) /\ Len(source) <= MaxInput
  /\ bins \in {NoChunk} \cup Numbers /\ bare \subseteq Numbers
  /\ directions \subseteq Numbers \X Numbers
  /\ accumulated \in Seq(Numbers) /\ passedOn \in Seq(Seq(Numbers))
  /\ second \in 0..MaxSecond
  /\ \A x \in DOMAIN disk : x[2] \in 0..second /\ disk[x] \in 1..Len(passedOn)

LEMMA TypeParts == (TypeOK /\ IsFiniteSet(lost)) <=> (RestTyped /\ BuffersTyped)
BY DEF TypeOK, RestTyped, BuffersTyped

LEMMA TypePartsNext == RestTyped' /\ BuffersTyped' => TypeOK' /\ IsFiniteSet(lost')
BY DEF TypeOK, RestTyped, BuffersTyped

LEMMA HeadOf ==
  ASSUME BuffersTyped, NEW m \in Modules, input[m] # <<>>
  PROVE  /\ Head(input[m]) \in ChunkType /\ Head(input[m]).n \in Numbers /\ Head(input[m]).kind \in Kind
         /\ In(m) = {Head(input[m])} \cup ToSet(Tail(input[m]))
         /\ In(m) \subseteq ChunkType /\ input[m] \in Seq(ChunkType) /\ Tail(input[m]) \in Seq(ChunkType)
<1>1. input[m] \in Seq(ChunkType)
  BY DEF BuffersTyped
<1>2. /\ Head(input[m]) \in ChunkType /\ Tail(input[m]) \in Seq(ChunkType)
      /\ ToSet(input[m]) = {Head(input[m])} \cup ToSet(Tail(input[m]))
  BY <1>1, TailElements
<1>3. ToSet(input[m]) \subseteq ChunkType
  BY <1>1, Elements
<1>4. Head(input[m]).n \in Numbers /\ Head(input[m]).kind \in Kind
  BY <1>2 DEF ChunkType
<1> QED
  BY <1>1, <1>2, <1>3, <1>4 DEF In

LEMMA ChunkTyped ==
  ASSUME NEW kind \in Kind, NEW n \in Numbers
  PROVE  Chunk(kind, n) \in ChunkType /\ Chunk(kind, n).kind = kind /\ Chunk(kind, n).n = n
BY DEF Chunk, ChunkType

LEMMA ModuleNames ==
  /\ Instances \subseteq Modules /\ FFTs \subseteq Instances
  /\ {"wav", "fft", "spare fft", "accumulator", "writer", "energy", "direction"} = Modules
  /\ \A i \in Instances : TypeName(i) = "fft" <=> i \in FFTs
BY DEF Instances, Modules, FFTs, TypeName

LEMMA KindNames == {"time", "wav", "file", "magnitude", "fft", "detection"} = Kind
BY DEF Kind

LEMMA RoutesElements ==
  ASSUME RestTyped
  PROVE  /\ ToSet(routes) \subseteq Instances /\ IsFiniteSet(ToSet(routes))
         /\ \A i, k \in ToSet(routes) : TypeName(i) = TypeName(k) => i = k
<1>1. routes \in Seq(Instances)
  BY DEF RestTyped
<1>2. ToSet(routes) \ {} = ToSet(routes)
  OBVIOUS
<1>3. IsFiniteSet(ToSet(routes))
  BY <1>1, <1>2, ElementsFinite
<1>4. ToSet(routes) \subseteq Instances /\ \A x \in ToSet(routes) : \E i \in 1..Len(routes) : x = routes[i]
  BY <1>1, Elements
<1>5. ASSUME NEW i \in ToSet(routes), NEW k \in ToSet(routes), TypeName(i) = TypeName(k) PROVE i = k
  <2>1. PICK a \in 1..Len(routes), b \in 1..Len(routes) : i = routes[a] /\ k = routes[b]
    BY <1>4
  <2> QED BY <1>5, <2>1 DEF RestTyped
<1> QED
  BY <1>3, <1>4, <1>5

LEMMA TypeRegister ==
  ASSUME RestTyped, BuffersTyped, NEW i \in Instances, RegisterOutputModule(i)
  PROVE  RestTyped' /\ BuffersTyped'
<1>1. /\ UNCHANGED <<magnitude, undefined, source, bins, bare, directions, accumulated, passedOn, second, disk, input, lost>>
      /\ routes' = Append(routes, i) /\ routes \in Seq(Instances)
      /\ \A k \in 1..Len(routes) : TypeName(routes[k]) # TypeName(i)
  BY DEF RegisterOutputModule, RestTyped, detection, recording
<1>2. /\ routes' \in Seq(Instances) /\ Len(routes') = Len(routes) + 1 /\ Len(routes) \in Nat
      /\ routes'[Len(routes) + 1] = i /\ \A k \in 1..Len(routes) : routes'[k] = routes[k]
  BY <1>1, AppendProperties, LenProperties
<1>3. ASSUME NEW j \in 1..Len(routes'), NEW k \in 1..Len(routes'), j # k
      PROVE  TypeName(routes'[j]) # TypeName(routes'[k])
  <2>1. CASE j \in 1..Len(routes) /\ k \in 1..Len(routes)
    BY <1>2, <1>3, <2>1 DEF RestTyped
  <2>2. CASE j = Len(routes) + 1 /\ k \in 1..Len(routes)
    BY <1>1, <1>2, <2>2
  <2>3. CASE k = Len(routes) + 1 /\ j \in 1..Len(routes)
    BY <1>1, <1>2, <2>3
  <2> QED BY <1>2, <1>3, <2>1, <2>2, <2>3
<1> QED
  BY <1>1, <1>2, <1>3 DEF RestTyped, BuffersTyped

LEMMA RouteEffect ==
  ASSUME RestTyped, BuffersTyped, NEW s \in Sources, RouteChunk(s)
  PROVE  /\ RestTyped' /\ BuffersTyped'
         /\ source' = Append(source, s) /\ Len(source') = Len(source) + 1 /\ Len(source') \in Numbers
         /\ Len(source) \in Nat
         /\ \E missed \in SUBSET ToSet(routes) :
              /\ lost' = lost \cup {<<m, Chunk("time", Len(source'))>> : m \in missed}
              /\ \A m \in Modules :
                   input'[m] = IF m \in ToSet(routes) \ missed
                                 THEN Append(input[m], Chunk("time", Len(source'))) ELSE input[m]
<1>1. /\ UNCHANGED <<routes, magnitude, undefined, bins, bare, directions, accumulated, passedOn, second, disk>>
      /\ source' = Append(source, s) /\ source \in Seq(Sources) /\ Len(source) < MaxInput
  BY DEF RouteChunk, RestTyped, detection, recording
<1>2. source' \in Seq(Sources) /\ Len(source') = Len(source) + 1 /\ Len(source) \in Nat
  BY <1>1, AppendProperties, LenProperties
<1>3. Len(source') \in Numbers /\ Len(source') <= MaxInput
  BY <1>1, <1>2, BoundsAssumption DEF Numbers
<1>4. RestTyped'
  BY <1>1, <1>2, <1>3 DEF RestTyped
<1> DEFINE number == Len(source')
           c == Chunk("time", number)
<1>5. PICK missed \in SUBSET ToSet(routes) :
         /\ Cardinality(lost) + Cardinality(missed) <= MaxLost
         /\ input' = [m \in Modules |->
                        IF m \in ToSet(routes) \ missed THEN Append(input[m], c) ELSE input[m]]
         /\ lost' = lost \cup {<<m, c>> : m \in missed}
  BY DEF RouteChunk
<1>6. c \in ChunkType
  BY <1>3, KindNames, ChunkTyped
<1> HIDE DEF c
<1>7. input' \in [Modules -> Seq(ChunkType)]
  <2>1. \A m \in Modules : input[m] \in Seq(ChunkType) /\ Append(input[m], c) \in Seq(ChunkType)
    BY <1>6, AppendElements DEF BuffersTyped
  <2> QED BY <1>5, <2>1
<1>8. missed \subseteq Instances /\ IsFiniteSet(missed)
  BY RoutesElements, FS_Subset
<1> DEFINE new == {<<m, c>> : m \in missed}
           pair == [m \in missed |-> <<m, c>>]
<1>9. pair \in Surjection(missed, new)
  BY DEF Surjection
<1>10. new \subseteq (Modules \cup {"disk"}) \X ChunkType
  <2>1. \A m \in missed : m \in Modules \cup {"disk"}
    BY <1>8, ModuleNames
  <2> QED BY <1>6, <2>1
<1>11. lost' = lost \cup new
  BY <1>5
<1> HIDE DEF new, pair
<1>12. IsFiniteSet(new) /\ Cardinality(new) <= Cardinality(missed)
  BY <1>8, <1>9, FS_Surjection
<1>13. IsFiniteSet(lost)
  BY DEF BuffersTyped
<1>14. /\ IsFiniteSet(lost \cup new)
       /\ Cardinality(lost \cup new) = Cardinality(lost) + Cardinality(new) - Cardinality(lost \cap new)
  BY <1>12, <1>13, FS_Union
<1>15. IsFiniteSet(lost \cap new)
  BY <1>12, FS_Intersection
<1>16. /\ Cardinality(lost) \in Nat /\ Cardinality(new) \in Nat /\ Cardinality(missed) \in Nat
       /\ Cardinality(lost \cap new) \in Nat
  BY <1>8, <1>12, <1>13, <1>15, FS_CardinalityType
<1>17. Cardinality(lost \cup new) <= MaxLost
  BY <1>5, <1>12, <1>14, <1>16, BoundsAssumption
<1>18. BuffersTyped'
  BY <1>7, <1>10, <1>11, <1>14, <1>17 DEF BuffersTyped
<1> QED
  BY <1>1, <1>2, <1>3, <1>4, <1>5, <1>18 DEF c

(* The actions of one module's thread.                                     *)
LEMMA TypeTransform ==
  ASSUME RestTyped, BuffersTyped, NEW i \in Instances, Transform(i)
  PROVE  RestTyped' /\ BuffersTyped'
<1> DEFINE n == Head(input[i]).n
<1>1. /\ UNCHANGED <<routes, source, magnitude, bins, directions, undefined, recording>>
      /\ input[i] # <<>> /\ i \in FFTs /\ TakeAndPass(i, "energy", Spectra(n))
      /\ bare' = IF magnitude THEN bare ELSE bare \cup {n}
  BY ModuleNames DEF Transform, Has
<1>2. i \in Modules /\ "energy" \in Modules /\ i # "energy"
  BY <1>1, ModuleNames DEF FFTs
<1>3. n \in Numbers
  BY <1>1, <1>2, HeadOf
<1> HIDE DEF n
<1>4. Spectra(n) \in Seq(ChunkType)
  <2>1. Chunk("magnitude", n) \in ChunkType /\ Chunk("fft", n) \in ChunkType
    BY <1>3, KindNames, ChunkTyped
  <2> QED BY <2>1 DEF Spectra
<1>5. BuffersTyped'
  BY <1>1, <1>2, <1>4, TurnTaken
<1>6. RestTyped'
  BY <1>1, <1>3 DEF RestTyped, recording
<1> QED
  BY <1>5, <1>6

LEMMA TypeEnergy ==
  ASSUME RestTyped, BuffersTyped, Process_FFTMagnitudeChunk \/ PassSpectrum
  PROVE  RestTyped' /\ BuffersTyped'
<1> DEFINE h == Head(input["energy"])
           d == Chunk("detection", h.n)
<1>1. /\ UNCHANGED <<routes, source, detection, recording>> /\ input["energy"] # <<>>
      /\ TakeAndPass("energy", "direction", <<d>>) \/ TakeAndPass("energy", "direction", <<h>>)
  BY DEF Process_FFTMagnitudeChunk, PassSpectrum, Has
<1>2. "energy" \in Modules /\ "direction" \in Modules
  BY ModuleNames
<1>3. h \in ChunkType /\ h.n \in Numbers
  BY <1>1, <1>2, HeadOf
<1>4. d \in ChunkType
  BY <1>3, KindNames, ChunkTyped
<1> HIDE DEF h, d
<1>5. BuffersTyped'
  BY <1>1, <1>2, <1>3, <1>4, TurnWithOne
<1>6. RestTyped'
  BY <1>1 DEF RestTyped, detection, recording
<1> QED
  BY <1>5, <1>6

LEMMA TypeDirection ==
  ASSUME RestTyped, BuffersTyped, ProcessDetectionBinChunk \/ PassMonoSpectrum \/ ProcessFFTChunk
  PROVE  RestTyped' /\ BuffersTyped'
<1> DEFINE h == Head(input["direction"])
<1>1. /\ UNCHANGED <<routes, source, magnitude, bare, recording, lost>> /\ input["direction"] # <<>>
      /\ input' = [input EXCEPT !["direction"] = Tail(@)]
  BY DEF ProcessDetectionBinChunk, PassMonoSpectrum, ProcessFFTChunk, Has, Take, detection
<1>2. "direction" \in Modules
  BY ModuleNames
<1>3. h.n \in Numbers
  BY <1>1, <1>2, HeadOf
<1>4. BuffersTyped'
  BY <1>1, <1>2, TurnWithNone DEF BuffersTyped
<1>5. /\ bins' \in {NoChunk} \cup Numbers
      /\ directions' \subseteq Numbers \X Numbers
      /\ undefined' \in BOOLEAN
  <2>1. CASE ProcessDetectionBinChunk
    BY <1>3, <2>1 DEF ProcessDetectionBinChunk, RestTyped
  <2>2. CASE PassMonoSpectrum
    BY <2>2 DEF PassMonoSpectrum, RestTyped, detection
  <2>3. CASE ProcessFFTChunk
    <3>1. /\ bins' = bins /\ undefined' = (BinChannels < 2)
          /\ directions' = IF undefined' THEN directions ELSE directions \cup {<<h.n, bins>>}
      BY <2>3 DEF ProcessFFTChunk
    <3>2. ~undefined' => bins \in Numbers
      <4> SUFFICES ASSUME bins = NoChunk PROVE BinChannels < 2
        BY <3>1 DEF RestTyped
      <4> QED BY DEF BinChannels
    <3>3. undefined' \in BOOLEAN
      BY <3>1
    <3> QED BY <1>3, <3>1, <3>2, <3>3 DEF RestTyped
  <2> QED BY <2>1, <2>2, <2>3
<1>6. RestTyped'
  BY <1>1, <1>5 DEF RestTyped, recording
<1> QED
  BY <1>4, <1>6

LEMMA TypeConvert ==
  ASSUME RestTyped, BuffersTyped, ConvertTimeToWAV
  PROVE  RestTyped' /\ BuffersTyped'
<1> DEFINE d == Chunk("wav", Head(input["wav"]).n)
<1>1. /\ UNCHANGED <<routes, source, detection, recording>> /\ input["wav"] # <<>>
      /\ TakeAndPass("wav", "accumulator", <<d>>)
  BY DEF ConvertTimeToWAV, Has
<1>2. "wav" \in Modules /\ "accumulator" \in Modules
  BY ModuleNames
<1>3. Head(input["wav"]).n \in Numbers
  BY <1>1, <1>2, HeadOf
<1>4. d \in ChunkType
  BY <1>3, KindNames, ChunkTyped
<1> HIDE DEF d
<1>5. BuffersTyped'
  BY <1>1, <1>2, <1>4, TurnWithOne
<1>6. RestTyped'
  BY <1>1 DEF RestTyped, detection, recording
<1> QED
  BY <1>5, <1>6

LEMMA TypeWriter ==
  ASSUME RestTyped, BuffersTyped, RecordingInv, WriteWAVFile \/ RefuseWAVFile
  PROVE  RestTyped' /\ BuffersTyped'
<1> DEFINE h == Head(input["writer"])
<1>1. /\ UNCHANGED <<routes, source, detection, accumulated, passedOn, second>> /\ input["writer"] # <<>>
      /\ input' = [input EXCEPT !["writer"] = Tail(@)]
  BY DEF WriteWAVFile, RefuseWAVFile, Has, Take, recording
<1>2. "writer" \in Modules
  BY ModuleNames
<1>3. h \in ChunkType /\ h \in In("writer")
  BY <1>1, <1>2, HeadOf
<1>4. h.n \in 1..Len(passedOn)
  BY <1>3 DEF RecordingInv
<1>5. input' \in [Modules -> Seq(ChunkType)]
  BY <1>1, <1>2, TurnWithNone
<1>6. CASE WriteWAVFile
  <2> DEFINE name == FileName(passedOn[h.n])
  <2>1. /\ UNCHANGED lost /\ disk' = [x \in DOMAIN disk \cup {name} |-> IF x = name THEN h.n ELSE disk[x]]
    BY <1>6 DEF WriteWAVFile, Take
  <2>2. name[2] = second
    BY DEF FileName
  <2> HIDE DEF name
  <2>3. second \in 0..second
    BY BoundsAssumption DEF RestTyped
  <2>4. \A x \in DOMAIN disk' : x[2] \in 0..second' /\ disk'[x] \in 1..Len(passedOn')
    BY <1>1, <1>4, <2>1, <2>2, <2>3 DEF RestTyped
  <2>5. RestTyped'
    BY <1>1, <2>4 DEF RestTyped, detection
  <2> QED BY <1>5, <2>1, <2>5 DEF BuffersTyped
<1>7. CASE RefuseWAVFile
  <2>1. lost' = lost \cup {<<"disk", h>>} /\ Cardinality(lost) < MaxLost /\ disk' = disk
    BY <1>7 DEF RefuseWAVFile, recording
  <2>2. IsFiniteSet(lost) /\ Cardinality(lost) \in Nat
    BY FS_CardinalityType DEF BuffersTyped
  <2>3. /\ IsFiniteSet(lost \cup {<<"disk", h>>})
        /\ Cardinality(lost \cup {<<"disk", h>>}) <= Cardinality(lost) + 1
    <3>1. /\ IsFiniteSet(lost \cup {<<"disk", h>>})
          /\ Cardinality(lost \cup {<<"disk", h>>})
               = IF <<"disk", h>> \in lost THEN Cardinality(lost) ELSE Cardinality(lost) + 1
      BY <2>2, FS_AddElement
    <3> QED BY <2>2, <3>1
  <2>4. IsFiniteSet(lost') /\ Cardinality(lost') <= MaxLost
    <3>1. Cardinality(lost') \in Nat
      BY <2>1, <2>3, FS_CardinalityType
    <3> QED BY <2>1, <2>2, <2>3, <3>1, BoundsAssumption
  <2>5. <<"disk", h>> \in (Modules \cup {"disk"}) \X ChunkType
    BY <1>3
  <2>6. BuffersTyped'
    BY <1>5, <2>1, <2>4, <2>5 DEF BuffersTyped
  <2>7. RestTyped'
    BY <1>1, <2>1 DEF RestTyped, detection
  <2> QED BY <2>6, <2>7
<1> QED
  BY <1>6, <1>7

(* A recording that is passed on has a chunk of its own, so that there are *)
(* as many recordings as chunks at most.                                   *)
LEMMA RecordingsCounted ==
  ASSUME RestTyped, RecordingInv, NEW x \in Numbers, Below(Finished, {x})
  PROVE  Len(passedOn) \in Nat /\ Len(passedOn) + 1 \in Numbers /\ Len(passedOn) + 1 <= x
<1>1. passedOn \in Seq(Seq(Numbers)) /\ Len(passedOn) \in Nat
  BY LenProperties DEF RestTyped
<1>2. x \in Nat /\ 1 <= x /\ x <= MaxInput /\ MaxInput \in Nat
  BY BoundsAssumption DEF Numbers
<1>3. Len(passedOn) + 1 <= x
  <2>1. CASE Len(passedOn) = 0
    BY <1>2, <2>1
  <2>2. CASE Len(passedOn) # 0
    <3> DEFINE L == Len(passedOn)
    <3>1. L \in 1..Len(passedOn)
      BY <1>1, <2>2
    <3>2. passedOn[L] \in Seq(Numbers) /\ passedOn[L] # <<>> /\ \A y \in ToSet(passedOn[L]) : L <= y
      BY <1>1, <3>1, ElementOfSeq DEF RecordingInv, RecordingOrder
    <3>3. /\ Head(passedOn[L]) \in ToSet(passedOn[L]) /\ Head(passedOn[L]) \in Numbers
      BY <3>2, TailElements
    <3>4. Head(passedOn[L]) \in Finished
      BY <3>1, <3>3 DEF Finished
    <3>5. Head(passedOn[L]) < x /\ L <= Head(passedOn[L])
      BY <3>2, <3>3, <3>4 DEF Below
    <3> QED BY <1>1, <1>2, <3>3, <3>5 DEF Numbers
  <2> QED BY <2>1, <2>2
<1> QED
  BY <1>1, <1>2, <1>3 DEF Numbers

LEMMA TypeAccumulate ==
  ASSUME RestTyped, BuffersTyped, RecordingInv, AccumulateWAVChunk
  PROVE  RestTyped' /\ BuffersTyped'
<1> DEFINE n == Head(input["accumulator"]).n
           joined == Append(accumulated, n)
           d == Chunk("file", Len(passedOn) + 1)
<1>1. /\ UNCHANGED <<routes, source, detection, disk, second>> /\ input["accumulator"] # <<>>
      /\ \/ PassFile(joined)
         \/ accumulated' = joined /\ Take("accumulator") /\ UNCHANGED passedOn
  BY DEF AccumulateWAVChunk, Has
<1>2. "writer" \in Modules /\ "accumulator" \in Modules
  BY ModuleNames
<1>3. n \in Numbers /\ n \in Coming("accumulator")
  BY <1>1, <1>2, HeadOf DEF Coming
<1>4. joined \in Seq(Numbers)
  BY <1>3, AppendElements DEF RestTyped
<1>5. Len(passedOn) \in Nat /\ Len(passedOn) + 1 \in Numbers
  <2>1. Below(Finished, {n})
    BY <1>3 DEF RecordingInv, RecordingOrder, Below
  <2> QED BY <1>3, <2>1, RecordingsCounted
<1>6. d \in ChunkType
  BY <1>5, KindNames, ChunkTyped
<1> HIDE DEF n, joined
<1>7. CASE PassFile(joined)
  <2>1. /\ accumulated' = <<>> /\ passedOn' = Append(passedOn, joined)
        /\ TakeAndPass("accumulator", "writer", <<Chunk("file", Len(passedOn'))>>)
    BY <1>7 DEF PassFile
  <2>2. passedOn \in Seq(Seq(Numbers))
    BY DEF RestTyped
  <2>3. passedOn' \in Seq(Seq(Numbers)) /\ Len(passedOn') = Len(passedOn) + 1
    BY <1>4, <2>1, <2>2, AppendProperties
  <2>4. TakeAndPass("accumulator", "writer", <<d>>)
    BY <2>1, <2>3
  <2> HIDE DEF d
  <2>5. BuffersTyped'
    BY <1>1, <1>2, <1>6, <2>4, TurnWithOne
  <2>6. 1..Len(passedOn) \subseteq 1..Len(passedOn')
    BY <1>5, <2>3
  <2>7. accumulated' \in Seq(Numbers)
    BY <2>1
  <2>8. RestTyped'
    BY <1>1, <2>3, <2>6, <2>7 DEF RestTyped, detection
  <2> QED BY <2>5, <2>8
<1>8. CASE accumulated' = joined /\ Take("accumulator") /\ UNCHANGED passedOn
  <2>1. BuffersTyped'
    BY <1>1, <1>2, <1>8, TurnWithNone DEF BuffersTyped, Take
  <2>2. RestTyped'
    BY <1>1, <1>4, <1>8 DEF RestTyped, detection
  <2> QED BY <2>1, <2>2
<1> QED
  BY <1>1, <1>7, <1>8

LEMMA TypeStep ==
  ASSUME RestTyped, BuffersTyped, RecordingInv, [Next]_vars
  PROVE  RestTyped' /\ BuffersTyped'
<1>1. CASE UNCHANGED vars
  BY <1>1 DEF vars, detection, recording, RestTyped, BuffersTyped
<1>2. CASE SetGenerateMagnitudeData
  BY <1>2 DEF SetGenerateMagnitudeData, recording, RestTyped, BuffersTyped
<1>3. CASE Tick
  <2>1. /\ UNCHANGED <<routes, source, input, detection, accumulated, passedOn, disk, lost>>
        /\ second < MaxSecond /\ second' = second + 1 /\ second \in Nat
    BY <1>3, BoundsAssumption DEF Tick, RestTyped
  <2>2. second' \in 0..MaxSecond
    BY <2>1, BoundsAssumption
  <2>3. \A x \in DOMAIN disk : x[2] \in 0..second'
    <3> SUFFICES ASSUME NEW x \in DOMAIN disk PROVE x[2] \in 0..second'
      OBVIOUS
    <3>1. x[2] \in 0..second
      BY DEF RestTyped
    <3> QED BY <2>1, <3>1
  <2> QED BY <2>1, <2>2, <2>3 DEF RestTyped, BuffersTyped, detection
<1>4. ASSUME NEW i \in Instances, RegisterOutputModule(i) \/ Transform(i) PROVE RestTyped' /\ BuffersTyped'
  BY <1>4, TypeRegister, TypeTransform
<1>5. ASSUME NEW s \in Sources, RouteChunk(s) PROVE RestTyped' /\ BuffersTyped'
  BY <1>5, RouteEffect
<1>6. CASE Process_FFTMagnitudeChunk \/ PassSpectrum
  BY <1>6, TypeEnergy
<1>7. CASE ProcessDetectionBinChunk \/ PassMonoSpectrum \/ ProcessFFTChunk
  BY <1>7, TypeDirection
<1>8. CASE ConvertTimeToWAV
  BY <1>8, TypeConvert
<1>9. CASE AccumulateWAVChunk
  BY <1>9, TypeAccumulate
<1>10. CASE WriteWAVFile \/ RefuseWAVFile
  BY <1>10, TypeWriter
<1> QED
  BY <1>1, <1>2, <1>3, <1>4, <1>5, <1>6, <1>7, <1>8, <1>9, <1>10 DEF Next

-----------------------------------------------------------------------------
(* Buffers of modules that are not registered.                             *)

LEMMA UnregisteredTurn ==
  ASSUME Unregistered, UNCHANGED routes, NEW m \in Modules, input[m] # <<>>,
         NEW next, next = m \/ next \notin Instances, OthersKept(m, next)
  PROVE  Unregistered'
<1> SUFFICES ASSUME NEW i \in Instances, i \notin ToSet(routes) PROVE input'[i] = <<>>
  BY DEF Unregistered
<1>1. input[i] = <<>>
  BY DEF Unregistered
<1> QED
  BY <1>1, ModuleNames DEF OthersKept

LEMMA UnregisteredStep ==
  ASSUME RestTyped, BuffersTyped, Unregistered, RecordingInv, [Next]_vars
  PROVE  Unregistered'
<1>1. CASE UNCHANGED vars \/ SetGenerateMagnitudeData \/ Tick
  BY <1>1 DEF vars, SetGenerateMagnitudeData, Tick, Unregistered
<1>2. ASSUME NEW i \in Instances, RegisterOutputModule(i) PROVE Unregistered'
  <2>1. routes' = Append(routes, i) /\ routes \in Seq(Instances) /\ input' = input
    BY <1>2 DEF RegisterOutputModule, RestTyped
  <2>2. ToSet(routes) \subseteq ToSet(routes')
    BY <2>1, AppendElements
  <2> QED BY <2>1, <2>2 DEF Unregistered
<1>3. ASSUME NEW s \in Sources, RouteChunk(s) PROVE Unregistered'
  <2>1. UNCHANGED routes
    BY <1>3 DEF RouteChunk
  <2>2. ASSUME NEW i \in Instances, i \notin ToSet(routes) PROVE input'[i] = input[i]
    BY <1>3, <2>2, RouteEffect, ModuleNames
  <2> QED BY <2>1, <2>2 DEF Unregistered
<1>4. ASSUME NEW m \in Modules, NEW next \in Modules \ Instances, m # next, NEW chunks \in Seq(ChunkType),
             input[m] # <<>>, TakeAndPass(m, next, chunks), UNCHANGED routes
      PROVE  Unregistered'
  BY <1>4, TurnTaken, UnregisteredTurn
<1>5. ASSUME NEW m \in Modules, input[m] # <<>>, input' = [input EXCEPT ![m] = Tail(@)], UNCHANGED routes
      PROVE  Unregistered'
  BY <1>5, TurnWithNone, UnregisteredTurn
<1>13. ASSUME NEW m \in Modules, NEW next \in Modules \ Instances, m # next, NEW c \in ChunkType,
              input[m] # <<>>, TakeAndPass(m, next, <<c>>), UNCHANGED routes
       PROVE  Unregistered'
  BY <1>13, TurnWithOne, UnregisteredTurn
<1>6. {"accumulator", "writer", "energy", "direction"} \subseteq Modules \ Instances
      /\ {"wav", "fft", "spare fft"} \subseteq Modules
  BY DEF Modules, Instances
<1>7. ASSUME NEW i \in Instances, Transform(i) PROVE Unregistered'
  <2>1. i \in Modules /\ i # "energy" /\ input[i] # <<>> /\ UNCHANGED routes
    BY <1>7, <1>6 DEF Modules, Transform, Has
  <2>2. Head(input[i]).n \in Numbers
    BY <2>1, HeadOf
  <2> DEFINE n == Head(input[i]).n
  <2>3. Spectra(n) \in Seq(ChunkType) /\ TakeAndPass(i, "energy", Spectra(n))
    <3> HIDE DEF n
    <3>1. n \in Numbers /\ TakeAndPass(i, "energy", Spectra(n))
      BY <1>7, <2>2 DEF Transform, n
    <3>2. Chunk("magnitude", n) \in ChunkType /\ Chunk("fft", n) \in ChunkType
      BY <3>1, KindNames, ChunkTyped
    <3> QED BY <3>1, <3>2 DEF Spectra
  <2> QED BY <1>4, <1>6, <2>1, <2>3
<1>8. CASE Process_FFTMagnitudeChunk \/ PassSpectrum
  <2>1. /\ UNCHANGED routes /\ input["energy"] # <<>>
        /\ TakeAndPass("energy", "direction", <<Chunk("detection", Head(input["energy"]).n)>>)
           \/ TakeAndPass("energy", "direction", <<Head(input["energy"])>>)
    BY <1>8 DEF Process_FFTMagnitudeChunk, PassSpectrum, Has
  <2>2. Chunk("detection", Head(input["energy"]).n) \in ChunkType /\ Head(input["energy"]) \in ChunkType
    BY <1>6, <2>1, HeadOf, ChunkTyped, KindNames
  <2> QED BY <1>13, <1>6, <2>1, <2>2
<1>9. CASE ProcessDetectionBinChunk \/ PassMonoSpectrum \/ ProcessFFTChunk
  <2>1. /\ UNCHANGED routes /\ input["direction"] # <<>>
        /\ input' = [input EXCEPT !["direction"] = Tail(@)]
    BY <1>9 DEF ProcessDetectionBinChunk, PassMonoSpectrum, ProcessFFTChunk, Has, Take
  <2> QED BY <1>5, <1>6, <2>1
<1>10. CASE ConvertTimeToWAV
  <2>1. /\ UNCHANGED routes /\ input["wav"] # <<>>
        /\ TakeAndPass("wav", "accumulator", <<Chunk("wav", Head(input["wav"]).n)>>)
    BY <1>10 DEF ConvertTimeToWAV, Has
  <2>2. Chunk("wav", Head(input["wav"]).n) \in ChunkType
    BY <1>6, <2>1, HeadOf, ChunkTyped, KindNames
  <2> QED BY <1>13, <1>6, <2>1, <2>2
<1>11. CASE AccumulateWAVChunk
  <2>1. UNCHANGED routes /\ input["accumulator"] # <<>>
    BY <1>11 DEF AccumulateWAVChunk, Has
  <2>2. ASSUME NEW i \in Instances PROVE input'[i] = input[i]
    <3>1. i \in Modules /\ i # "accumulator" /\ i # "writer"
      BY <1>6 DEF Modules
    <3>2. CASE Take("accumulator")
      BY <1>6, <2>1, <3>1, <3>2, TurnWithNone DEF Take, OthersKept
    <3>3. CASE \E chunks : PassFile(chunks)
      BY <3>1, <3>3 DEF PassFile, TakeAndPass, BuffersTyped
    <3> QED BY <1>11, <3>2, <3>3 DEF AccumulateWAVChunk
  <2> QED BY <2>1, <2>2 DEF Unregistered
<1>12. CASE WriteWAVFile \/ RefuseWAVFile
  <2>1. /\ UNCHANGED routes /\ input["writer"] # <<>>
        /\ input' = [input EXCEPT !["writer"] = Tail(@)]
    BY <1>12 DEF WriteWAVFile, RefuseWAVFile, Has, Take
  <2> QED BY <1>5, <1>6, <2>1
<1> QED
  BY <1>1, <1>2, <1>3, <1>7, <1>8, <1>9, <1>10, <1>11, <1>12 DEF Next

-----------------------------------------------------------------------------
(* The detection.                                                          *)

Stages == FFTs \cup {"energy", "direction"}

LEMMA StageNames ==
  /\ Stages \subseteq Modules /\ Stages = {"fft", "spare fft", "energy", "direction"}
  /\ "energy" \notin Instances /\ "direction" \notin Instances
BY DEF Stages, FFTs, Modules, Instances

LEMMA Ranks ==
  ASSUME NEW c \in ChunkType
  PROVE  /\ c.n \in Nat /\ c.n >= 1 /\ Rank(c) \in Nat /\ 2 * c.n <= Rank(c) /\ Rank(c) <= 2 * c.n + 1
         /\ c.kind = "fft" => Rank(c) = 2 * c.n + 1
         /\ c.kind # "fft" => Rank(c) = 2 * c.n
         /\ Rank(Chunk("detection", c.n)) = 2 * c.n /\ Rank(Chunk("magnitude", c.n)) = 2 * c.n
         /\ Rank(Chunk("time", c.n)) = 2 * c.n /\ Rank(Chunk("fft", c.n)) = 2 * c.n + 1
BY BoundsAssumption DEF ChunkType, Numbers, Rank, Chunk

LEMMA MissingStays ==
  ASSUME bare \subseteq bare', lost \subseteq lost', NEW n, DetectionMissing(n)
  PROVE  DetectionMissing(n)'
BY DEF DetectionMissing

LEMMA MatchedStays ==
  ASSUME DirectionsMatched, bare \subseteq bare', lost \subseteq lost', Received \subseteq Received',
         UNCHANGED <<directions, undefined>>
  PROVE  DirectionsMatched'
<1>1. \A n : DetectionMissing(n) => DetectionMissing(n)'
  BY MissingStays
<1>2. \A n \in 1..Len(source) : n \in 1..Len(source')
  BY DEF Received
<1> QED
  BY <1>1, <1>2 DEF DirectionsMatched

LEMMA DetectionUntouched ==
  ASSUME DetectionInv, \A m \in Stages : input'[m] = input[m], UNCHANGED <<bins, directions, undefined>>,
         bare \subseteq bare', lost \subseteq lost', Received \subseteq Received'
  PROVE  DetectionInv'
<1>1. \A m \in Stages : In(m)' = In(m)
  BY DEF In
<1>2. FFTs \subseteq Stages /\ "energy" \in Stages /\ "direction" \in Stages
  BY DEF Stages
<1>3. \A n : DetectionMissing(n) => DetectionMissing(n)'
  BY MissingStays
<1>4. DirectionsMatched'
  BY MatchedStays DEF DetectionInv
<1>5. DetectionOrder'
  BY <1>1, <1>2 DEF DetectionInv, DetectionOrder, Stages
<1>6. Preceded'
  BY <1>1, <1>2, <1>3 DEF DetectionInv, Preceded
<1> QED
  BY <1>4, <1>5, <1>6 DEF DetectionInv

(* What an energy or direction buffer contributes to the order.            *)
LEMMA DetectionRoute ==
  ASSUME RestTyped, BuffersTyped, Unregistered, DetectionInv, NEW s \in Sources, RouteChunk(s)
  PROVE  DetectionInv'
<1> DEFINE n == Len(source')
           t == Chunk("time", n)
<1>1. PICK missed \in SUBSET ToSet(routes) :
        /\ lost' = lost \cup {<<m, t>> : m \in missed}
        /\ \A m \in Modules : input'[m] = IF m \in ToSet(routes) \ missed THEN Append(input[m], t) ELSE input[m]
  BY RouteEffect
<1>2. /\ n = Len(source) + 1 /\ n \in Numbers /\ Len(source) \in Nat
      /\ UNCHANGED <<bins, bare, directions, undefined>>
  BY RouteEffect DEF RouteChunk, detection
<1>3. t \in ChunkType /\ t.kind = "time" /\ t.n = n /\ Rank(t) = 2 * n
  <2>1. t \in ChunkType /\ t.kind = "time" /\ t.n = n
    BY <1>2, ChunkTyped, KindNames
  <2> QED BY <2>1, Ranks
<1>4. /\ Received' = 1..n /\ Received \subseteq Received' /\ n \in Received'
      /\ \A k \in Received : k < n
  BY <1>2 DEF Received
<1> HIDE DEF n, t
<1>5. /\ input'["energy"] = input["energy"] /\ input'["direction"] = input["direction"]
      /\ In("energy")' = In("energy") /\ In("direction")' = In("direction")
  BY <1>1, StageNames, RoutesElements DEF In
<1>6. \A c \in ChunkType : c.n \in Nat /\ Rank(c) \in Nat /\ Rank(c) <= 2 * c.n + 1
                           /\ (c.kind # "fft" => Rank(c) = 2 * c.n)
  BY Ranks
<1>7. lost \subseteq lost' /\ bare \subseteq bare'
  BY <1>1, <1>2
<1>8. \A k : DetectionMissing(k) => DetectionMissing(k)'
  BY <1>7, MissingStays
<1>9. DirectionsMatched'
  BY <1>2, <1>4, <1>7, MatchedStays DEF DetectionInv
<1>10. Preceded'
  BY <1>2, <1>5, <1>8 DEF DetectionInv, Preceded
<1>11. \A c \in In("energy") \cup In("direction") : c.n \in Received
  BY DEF DetectionInv, DetectionOrder
<1>12. bins < n /\ bins \in Nat
  BY <1>2, <1>4 DEF DetectionInv, DetectionOrder, Received, NoChunk
<1>13. ASSUME NEW i \in FFTs
       PROVE  /\ Ordered(input'[i])
              /\ \A c \in In(i)' : /\ c.n \in Received' /\ 2 * bins < Rank(c) /\ c.kind = "time"
                                   /\ \A d \in In("energy") \cup In("direction") : d.n < c.n
  <2>1. /\ Ordered(input[i]) /\ i \in Modules /\ input[i] \in Seq(ChunkType)
        /\ \A c \in In(i) : /\ c.n \in Received /\ 2 * bins < Rank(c) /\ c.kind = "time"
                            /\ \A d \in In("energy") \cup In("direction") : d.n < c.n
    BY ModuleNames DEF DetectionInv, DetectionOrder, BuffersTyped
  <2>2. CASE input'[i] = input[i]
    BY <1>4, <2>1, <2>2 DEF In
  <2>3. CASE input'[i] = Append(input[i], t)
    <3>1. In(i)' = In(i) \cup {t} /\ In(i) \subseteq ChunkType
      BY <1>3, <2>1, <2>3, AppendElements, Elements DEF In
    <3>2. \A c \in In(i) : Rank(c) < Rank(t)
      <4> SUFFICES ASSUME NEW c \in In(i) PROVE Rank(c) < Rank(t)
        OBVIOUS
      <4>1. c.n \in Nat /\ Rank(c) = 2 * c.n /\ c.n < n
        BY <1>4, <1>6, <2>1, <3>1
      <4>2. n \in Nat
        BY <1>2
      <4> QED BY <1>3, <4>1, <4>2
    <3>3. Ordered(input'[i])
      BY <1>3, <2>1, <2>3, <3>2, OrderedAppend DEF In
    <3>4. 2 * bins < Rank(t)
      BY <1>2, <1>3, <1>12 DEF Numbers
    <3>5. \A d \in In("energy") \cup In("direction") : d.n < t.n
      BY <1>3, <1>4, <1>11
    <3> QED BY <1>3, <1>4, <2>1, <3>1, <3>3, <3>4, <3>5
  <2> QED BY <1>1, <2>1, <2>2, <2>3
<1>14. DetectionOrder'
  <2>1. bins' = bins /\ (bins = NoChunk \/ bins \in Received')
    BY <1>2, <1>4 DEF DetectionInv, DetectionOrder
  <2>2. \A m \in {"energy", "direction"} : Ordered(input'[m]) /\ \A c \in In(m)' : c.n \in Received' /\ 2 * bins < Rank(c)
    BY <1>4, <1>5 DEF DetectionInv, DetectionOrder
  <2>3. \A c \in In("direction")', d \in In("energy")' : Rank(c) < Rank(d)
    BY <1>5 DEF DetectionInv, DetectionOrder
  <2> QED BY <1>5, <1>13, <2>1, <2>2, <2>3 DEF DetectionOrder
<1> QED
  BY <1>9, <1>10, <1>14 DEF DetectionInv

(* The spectrum of a chunk goes to the end of the next buffer, behind its  *)
(* magnitude when there is one.                                            *)
SpectraPassed(n) ==
  \E new \in SUBSET {Chunk("magnitude", n), Chunk("fft", n)} :
    /\ In("energy")' = In("energy") \cup new
    /\ Chunk("fft", n) \in new => Chunk("magnitude", n) \in new \/ DetectionMissing(n)'

LEMMA TransformEffect ==
  ASSUME RestTyped, BuffersTyped, NEW i \in Instances, Transform(i),
         NEW n, n = Head(input[i]).n,
         Ordered(input["energy"]), \A c \in In("energy") : Rank(c) < 2 * n
  PROVE  /\ i \in FFTs /\ input[i] # <<>> /\ OthersKept(i, "energy") /\ input'[i] = Tail(input[i])
         /\ Ordered(input'["energy"]) /\ input'["energy"] \in Seq(ChunkType)
         /\ SpectraPassed(n)
         /\ lost \subseteq lost' /\ bare \subseteq bare'
<1> DEFINE a == Chunk("magnitude", n)
           b == Chunk("fft", n)
<1>1. /\ input[i] # <<>> /\ i \in FFTs /\ TakeAndPass(i, "energy", Spectra(n))
      /\ bare' = IF magnitude THEN bare ELSE bare \cup {n}
      /\ i \in Modules /\ "energy" \in Modules /\ i # "energy"
  BY ModuleNames DEF Transform, Has, FFTs
<1>2. n \in Numbers /\ Head(input[i]) \in ChunkType
  BY <1>1, HeadOf
<1>3. /\ a \in ChunkType /\ b \in ChunkType /\ a # b /\ Rank(a) = 2 * n /\ Rank(b) = 2 * n + 1
      /\ a.n = n /\ a.kind = "magnitude"
  <2>1. a \in ChunkType /\ a.kind = "magnitude" /\ a.n = n /\ b \in ChunkType /\ b.kind = "fft" /\ b.n = n
    BY <1>2, ChunkTyped, KindNames
  <2>2. Rank(a) = 2 * n /\ Rank(b) = 2 * n + 1
    BY <1>2, Ranks
  <2> QED BY <2>1, <2>2
<1>4. \A c \in In("energy") : Rank(c) < 2 * n
  OBVIOUS
<1> HIDE DEF a, b
<1>5. n \in Nat /\ input["energy"] \in Seq(ChunkType) /\ In("energy") \subseteq ChunkType
  BY <1>1, <1>2, Elements DEF Numbers, BuffersTyped, In
<1>6. \A c \in In("energy") : Rank(c) < Rank(a) /\ Rank(c) < Rank(b)
  <2>1. \A c \in In("energy") : Rank(c) \in Nat
    BY <1>5, Ranks
  <2> QED BY <1>3, <1>4, <1>5, <2>1
<1> DEFINE q == input["energy"]
           qa == Append(q, a)
           qb == Append(q, b)
           qab == Append(qa, b)
<1>7. /\ qa \in Seq(ChunkType) /\ qb \in Seq(ChunkType)
      /\ ToSet(qa) = In("energy") \cup {a} /\ ToSet(qb) = In("energy") \cup {b}
  BY <1>3, <1>5, AppendElements DEF In
<1>8. Ordered(qa) /\ Ordered(qb)
  BY <1>3, <1>5, <1>6, OrderedAppend DEF In
<1>9. \A c \in ToSet(qa) : Rank(c) < Rank(b)
  BY <1>3, <1>5, <1>6, <1>7
<1> HIDE DEF qa, qb
<1>10. qab \in Seq(ChunkType) /\ ToSet(qab) = In("energy") \cup {a, b} /\ Ordered(qab)
  <2>1. qab \in Seq(ChunkType) /\ ToSet(qab) = ToSet(qa) \cup {b}
    BY <1>3, <1>7, AppendElements
  <2>2. Ordered(qab)
    BY <1>3, <1>7, <1>8, <1>9, OrderedAppend
  <2> QED BY <1>7, <2>1, <2>2
<1> HIDE DEF qab
<1>11. CASE magnitude
  <2>1. Spectra(n) = <<a, b>>
    BY <1>11 DEF Spectra, a, b
  <2>2. /\ input'[i] = Tail(input[i]) /\ OthersKept(i, "energy") /\ PassedTwo("energy", a, b)
    BY <1>1, <1>3, <2>1, TurnWithTwo
  <2>3. /\ \/ input'["energy"] = qab
           \/ input'["energy"] = qa
           \/ input'["energy"] = qb /\ <<"energy", a>> \in lost'
           \/ input'["energy"] = q
        /\ lost \subseteq lost'
    BY <2>2 DEF PassedTwo, qa, qb, qab
  <2>4. input'["energy"] \in Seq(ChunkType) /\ Ordered(input'["energy"])
    BY <1>5, <1>7, <1>8, <1>10, <2>3
  <2>5. SpectraPassed(n)
    <3>1. CASE input'["energy"] = qab
      BY <1>10, <3>1 DEF SpectraPassed, In, a, b
    <3>2. CASE input'["energy"] = qa
      BY <1>3, <1>7, <3>2 DEF SpectraPassed, In, a, b
    <3>3. CASE input'["energy"] = qb /\ <<"energy", a>> \in lost'
      <4>1. DetectionMissing(n)'
        BY <1>3, <3>3 DEF DetectionMissing
      <4>2. In("energy")' = In("energy") \cup {Chunk("fft", n)}
        BY <1>7, <3>3 DEF In, b
      <4> QED BY <4>1, <4>2 DEF SpectraPassed
    <3>4. CASE input'["energy"] = q
      <4>1. PICK none \in SUBSET {a, b} : none = {}
        OBVIOUS
      <4>2. In("energy")' = In("energy") \cup none /\ b \notin none
        BY <3>4, <4>1 DEF In
      <4> QED BY <4>2 DEF SpectraPassed, a, b
    <3> QED BY <2>3, <3>1, <3>2, <3>3, <3>4
  <2> QED BY <1>1, <1>11, <2>2, <2>3, <2>4, <2>5
<1>12. CASE ~magnitude
  <2>1. Spectra(n) = <<b>>
    BY <1>12 DEF Spectra, b
  <2>2. /\ input'[i] = Tail(input[i]) /\ OthersKept(i, "energy") /\ PassedOne("energy", b)
    BY <1>1, <1>3, <2>1, TurnWithOne
  <2>3. (input'["energy"] = qb \/ input'["energy"] = q) /\ lost \subseteq lost'
    BY <2>2 DEF PassedOne, qb
  <2>4. input'["energy"] \in Seq(ChunkType) /\ Ordered(input'["energy"])
    BY <1>5, <1>7, <1>8, <2>3
  <2>5. DetectionMissing(n)'
    BY <1>1, <1>12 DEF DetectionMissing
  <2>6. In("energy")' = In("energy") \cup {Chunk("fft", n)} \/ In("energy")' = In("energy") \cup {}
    BY <1>7, <2>3 DEF In, b
  <2>7. SpectraPassed(n)
    BY <2>5, <2>6 DEF SpectraPassed
  <2> QED BY <1>1, <1>12, <2>2, <2>3, <2>4, <2>7
<1> QED
  BY <1>11, <1>12

LEMMA DetectionTransform ==
  ASSUME RestTyped, BuffersTyped, Unregistered, DetectionInv, NEW i \in Instances, Transform(i)
  PROVE  DetectionInv'
<1>1. PICK n \in Numbers : n = Head(input[i]).n
  BY HeadOf, ModuleNames DEF Transform, Has
<1>2. /\ i \in FFTs /\ i \in Modules /\ input[i] # <<>> /\ Head(input[i]).kind = "time"
      /\ UNCHANGED <<routes, source, bins, directions, undefined>>
  BY ModuleNames DEF Transform, Has
<1>3. /\ Head(input[i]) \in ChunkType /\ Head(input[i]) \in In(i)
      /\ In(i) = {Head(input[i])} \cup ToSet(Tail(input[i])) /\ In(i) \subseteq ChunkType
      /\ input[i] \in Seq(ChunkType) /\ Tail(input[i]) \in Seq(ChunkType)
  BY <1>2, HeadOf
<1>4. /\ n \in Received /\ 2 * bins < 2 * n
      /\ \A c \in In("energy") \cup In("direction") : c.n < n
  <2>1. Rank(Head(input[i])) = 2 * n
    BY <1>1, <1>2, <1>3, Ranks
  <2> QED BY <1>1, <1>2, <1>3, <2>1 DEF DetectionInv, DetectionOrder
<1>5. /\ In("energy") \subseteq ChunkType /\ In("direction") \subseteq ChunkType
      /\ Ordered(input["energy"]) /\ Ordered(input["direction"]) /\ Ordered(input[i])
  <2>1. input["energy"] \in Seq(ChunkType) /\ input["direction"] \in Seq(ChunkType)
    BY StageNames DEF BuffersTyped
  <2>2. In("energy") \subseteq ChunkType /\ In("direction") \subseteq ChunkType
    BY <2>1, Elements DEF In
  <2> QED BY <1>2, <2>2 DEF DetectionInv, DetectionOrder
<1>6. \A c \in In("energy") \cup In("direction") : Rank(c) < 2 * n /\ Rank(c) \in Nat
  <2> SUFFICES ASSUME NEW c \in In("energy") \cup In("direction") PROVE Rank(c) < 2 * n /\ Rank(c) \in Nat
    OBVIOUS
  <2>1. c.n \in Nat /\ Rank(c) \in Nat /\ Rank(c) <= 2 * c.n + 1 /\ n \in Nat /\ c.n < n
    BY <1>4, <1>5, Ranks DEF Numbers
  <2> QED BY <2>1
<1>7. /\ OthersKept(i, "energy") /\ input'[i] = Tail(input[i])
      /\ Ordered(input'["energy"]) /\ SpectraPassed(n)
      /\ lost \subseteq lost' /\ bare \subseteq bare'
  BY <1>1, <1>5, <1>6, TransformEffect
<1>8. PICK new \in SUBSET {Chunk("magnitude", n), Chunk("fft", n)} :
        /\ In("energy")' = In("energy") \cup new
        /\ Chunk("fft", n) \in new => Chunk("magnitude", n) \in new \/ DetectionMissing(n)'
  BY <1>7 DEF SpectraPassed
<1>9. \A c \in new : /\ c.n = n /\ 2 * n <= Rank(c) /\ Rank(c) \in Nat
                     /\ c \in ChunkType /\ (c.kind = "fft" => c = Chunk("fft", n))
  <2>1. /\ Chunk("magnitude", n) \in ChunkType /\ Chunk("magnitude", n).n = n /\ Chunk("magnitude", n).kind = "magnitude"
        /\ Chunk("fft", n) \in ChunkType /\ Chunk("fft", n).n = n
    BY <1>1, ChunkTyped, KindNames
  <2>2. \A c \in new : c.n = n /\ c \in ChunkType /\ (c.kind = "fft" => c = Chunk("fft", n))
    BY <2>1
  <2>3. \A c \in new : 2 * c.n <= Rank(c) /\ Rank(c) \in Nat
    BY <2>2, Ranks
  <2> QED BY <2>2, <2>3
<1>10. In("direction")' = In("direction") /\ input'["direction"] = input["direction"]
  <2>1. "direction" \in Modules /\ "direction" # i /\ "direction" # "energy"
    BY <1>2, StageNames, ModuleNames
  <2> QED BY <1>7, <2>1 DEF OthersKept, In
<1>11. Received' = Received
  BY <1>2 DEF Received
<1>12. \A k : DetectionMissing(k) => DetectionMissing(k)'
  BY <1>7, MissingStays
<1>13. DirectionsMatched'
  BY <1>2, <1>7, <1>11, MatchedStays DEF DetectionInv
<1>14. Preceded'
  <2>1. \A c \in In("direction") :
          c.kind = "fft" => \/ Chunk("detection", c.n) \in In("direction")'
                            \/ bins' = c.n
                            \/ DetectionMissing(c.n)'
    BY <1>2, <1>10, <1>12 DEF DetectionInv, Preceded
  <2>2. \A c \in In("energy") :
          c.kind = "fft" => \/ Chunk("magnitude", c.n) \in In("energy")'
                            \/ Chunk("detection", c.n) \in In("direction")'
                            \/ bins' = c.n
                            \/ DetectionMissing(c.n)'
    BY <1>2, <1>8, <1>10, <1>12 DEF DetectionInv, Preceded
  <2>3. ASSUME NEW c \in new, NEW k, k = c.n, c.kind = "fft"
        PROVE  Chunk("magnitude", k) \in In("energy")' \/ DetectionMissing(k)'
    BY <1>8, <1>9, <2>3
  <2> QED BY <1>8, <1>10, <2>1, <2>2, <2>3 DEF Preceded
<1>15. \A t \in ToSet(Tail(input[i])) : t \in In(i) /\ n < t.n /\ t.kind = "time"
  <2> SUFFICES ASSUME NEW t \in ToSet(Tail(input[i])) PROVE t \in In(i) /\ n < t.n /\ t.kind = "time"
    OBVIOUS
  <2>1. t \in In(i) /\ t \in ChunkType /\ t.kind = "time"
    BY <1>2, <1>3 DEF DetectionInv, DetectionOrder
  <2>2. Rank(Head(input[i])) < Rank(t)
    BY <1>2, <1>3, <1>5, OrderedTail
  <2>3. Rank(t) = 2 * t.n /\ Rank(Head(input[i])) = 2 * n /\ t.n \in Nat /\ n \in Nat
    BY <1>1, <1>2, <1>3, <2>1, Ranks
  <2> QED BY <2>1, <2>2, <2>3
<1>16. Ordered(Tail(input[i]))
  BY <1>2, <1>3, <1>5, OrderedTail
<1>17. ASSUME NEW m \in FFTs
       PROVE  /\ Ordered(input'[m])
              /\ \A t \in In(m)' : /\ t.n \in Received /\ 2 * bins < Rank(t) /\ t.kind = "time" /\ n < t.n
                                   /\ \A c \in In("energy") \cup In("direction") : c.n < t.n
  <2>1. CASE m = i
    <3>1. In(m)' = ToSet(Tail(input[i]))
      BY <1>7, <2>1 DEF In
    <3> QED BY <1>2, <1>7, <1>15, <1>16, <2>1, <3>1 DEF DetectionInv, DetectionOrder
  <2>2. CASE m # i
    <3>1. m \in Instances /\ i \in ToSet(routes) /\ TypeName(m) = TypeName(i)
      BY <1>2, ModuleNames DEF Unregistered
    <3>2. m \notin ToSet(routes)
      BY <2>2, <3>1, RoutesElements
    <3>3. input[m] = <<>>
      BY <3>1, <3>2 DEF Unregistered
    <3>4. input'[m] = <<>>
      BY <1>7, <2>2, <3>1, <3>3, ModuleNames, StageNames DEF OthersKept
    <3>5. In(m)' = {} /\ Ordered(<<>>)
      BY <3>4, NoElements DEF In, Ordered
    <3> QED BY <3>4, <3>5
  <2> QED BY <2>1, <2>2
<1>18. DetectionOrder'
  <2>1. bins' = bins /\ (bins = NoChunk \/ bins \in Received)
    BY <1>2 DEF DetectionInv, DetectionOrder
  <2>2. Ordered(input'["direction"]) /\ \A c \in In("direction")' : c.n \in Received /\ 2 * bins < Rank(c)
    BY <1>10 DEF DetectionInv, DetectionOrder
  <2>3. Ordered(input'["energy"]) /\ \A c \in In("energy")' : c.n \in Received /\ 2 * bins < Rank(c)
    <3>1. \A c \in In("energy") : c.n \in Received /\ 2 * bins < Rank(c)
      BY DEF DetectionInv, DetectionOrder
    <3>2. bins \in Nat /\ n \in Nat
      BY DEF RestTyped, Numbers, NoChunk
    <3>3. \A c \in new : c.n \in Received /\ 2 * bins < Rank(c)
      BY <1>4, <1>9, <3>2
    <3> QED BY <1>7, <1>8, <3>1, <3>3
  <2>4. \A c \in In("direction")', d \in In("energy")' : Rank(c) < Rank(d)
    <3>1. \A c \in In("direction"), d \in In("energy") : Rank(c) < Rank(d)
      BY DEF DetectionInv, DetectionOrder
    <3>2. \A c \in In("direction"), d \in new : Rank(c) < Rank(d)
      <4> SUFFICES ASSUME NEW c \in In("direction"), NEW d \in new PROVE Rank(c) < Rank(d)
        OBVIOUS
      <4>1. Rank(c) < 2 * n /\ Rank(c) \in Nat /\ 2 * n <= Rank(d) /\ Rank(d) \in Nat /\ n \in Nat
        BY <1>6, <1>9 DEF Numbers
      <4> QED BY <4>1
    <3> QED BY <1>8, <1>10, <3>1, <3>2
  <2>5. \A m \in FFTs : \A t \in In(m)' :
          t.kind = "time" /\ \A c \in In("energy")' \cup In("direction")' : c.n < t.n
    BY <1>8, <1>9, <1>10, <1>17
  <2> QED BY <1>11, <1>17, <2>1, <2>2, <2>3, <2>4, <2>5 DEF DetectionOrder
<1> QED
  BY <1>13, <1>14, <1>18 DEF DetectionInv

(* EnergyDetectionModule: a magnitude becomes detections of the same rank. *)
LEMMA EnergyEffect ==
  ASSUME RestTyped, BuffersTyped, DetectionInv, Process_FFTMagnitudeChunk \/ PassSpectrum
  PROVE  \E h, d \in ChunkType :
           /\ h \in In("energy") /\ In("energy") = {h} \cup In("energy")'
           /\ \A c \in In("energy")' : Rank(h) < Rank(c)
           /\ Ordered(input'["energy"]) /\ Ordered(input'["direction"]) /\ OthersKept("energy", "direction")
           /\ d.n = h.n /\ Rank(d) = Rank(h)
           /\ \/ h.kind = "magnitude" /\ h = Chunk("magnitude", h.n) /\ d = Chunk("detection", h.n)
              \/ h.kind = "fft" /\ d = h
           /\ \/ In("direction")' = In("direction") \cup {d}
              \/ In("direction")' = In("direction") /\ <<"direction", d>> \in lost'
           /\ lost \subseteq lost'
<1> DEFINE h == Head(input["energy"])
           d == IF h.kind = "fft" THEN h ELSE Chunk("detection", h.n)
<1>1. /\ input["energy"] # <<>> /\ h.kind \in {"fft", "magnitude"}
      /\ TakeAndPass("energy", "direction", <<d>>)
  BY DEF Process_FFTMagnitudeChunk, PassSpectrum, Has
<1>2. "energy" \in Modules /\ "direction" \in Modules
  BY StageNames
<1>3. /\ h \in ChunkType /\ h \in In("energy") /\ In("energy") = {h} \cup ToSet(Tail(input["energy"]))
      /\ input["energy"] \in Seq(ChunkType) /\ h.n \in Numbers
  BY <1>1, <1>2, HeadOf
<1>4. d \in ChunkType /\ d.n = h.n
  BY <1>3, ChunkTyped, KindNames
<1>5. Rank(d) = Rank(h)
  <2>1. CASE h.kind = "fft"
    BY <2>1
  <2>2. CASE h.kind # "fft"
    <3>1. Rank(h) = 2 * h.n /\ Rank(Chunk("detection", h.n)) = 2 * h.n
      BY <1>3, <2>2, Ranks
    <3> QED BY <2>2, <3>1
  <2> QED BY <2>1, <2>2
<1>6. h.kind = "magnitude" => h = Chunk("magnitude", h.n)
  BY <1>3 DEF ChunkType, Chunk
<1>14. h.kind # "fft" => d = Chunk("detection", h.n)
  OBVIOUS
<1>15. h.kind = "fft" => d = h
  OBVIOUS
<1> HIDE DEF h, d
<1>7. \/ h.kind = "magnitude" /\ h = Chunk("magnitude", h.n) /\ d = Chunk("detection", h.n)
      \/ h.kind = "fft" /\ d = h
  <2>1. CASE h.kind = "fft"
    BY <1>15, <2>1
  <2>2. CASE h.kind = "magnitude"
    <3>1. h.kind # "fft"
      BY <2>2
    <3> QED BY <1>6, <1>14, <2>2, <3>1
  <2> QED BY <1>1, <2>1, <2>2
<1>8. /\ input'["energy"] = Tail(input["energy"]) /\ OthersKept("energy", "direction")
      /\ PassedOne("direction", d)
  BY <1>1, <1>2, <1>4, TurnWithOne
<1>9. In("energy")' = ToSet(Tail(input["energy"]))
  BY <1>8 DEF In
<1>10. /\ Ordered(Tail(input["energy"]))
       /\ \A c \in ToSet(Tail(input["energy"])) : Rank(h) < Rank(c)
  <2>1. Ordered(input["energy"])
    BY DEF DetectionInv, DetectionOrder
  <2> QED BY <1>1, <1>3, <2>1, OrderedTail DEF h
<1>11. /\ Ordered(input["direction"]) /\ input["direction"] \in Seq(ChunkType)
       /\ \A c \in In("direction") : Rank(c) < Rank(d)
  BY <1>2, <1>3, <1>5 DEF DetectionInv, DetectionOrder, BuffersTyped
<1>12. /\ Ordered(input'["direction"]) /\ lost \subseteq lost'
       /\ \/ In("direction")' = In("direction") \cup {d}
          \/ In("direction")' = In("direction") /\ <<"direction", d>> \in lost'
  <2>1. CASE input'["direction"] = Append(input["direction"], d) /\ lost' = lost
    BY <1>4, <1>11, <2>1, OrderedAppend, AppendElements DEF In
  <2>2. CASE input'["direction"] = input["direction"] /\ lost' = lost \cup {<<"direction", d>>}
    BY <1>11, <2>2 DEF In
  <2> QED BY <1>8, <2>1, <2>2 DEF PassedOne
<1>13. \E x, y \in ChunkType : x = h /\ y = d
  BY <1>3, <1>4
<1>16. PICK x \in ChunkType, y \in ChunkType : x = h /\ y = d
  BY <1>13
<1> QED
  BY <1>3, <1>4, <1>5, <1>7, <1>8, <1>9, <1>10, <1>12, <1>16

LEMMA DetectionEnergy ==
  ASSUME RestTyped, BuffersTyped, DetectionInv, Process_FFTMagnitudeChunk \/ PassSpectrum
  PROVE  DetectionInv'
<1>1. PICK h \in ChunkType, d \in ChunkType :
        /\ h \in In("energy") /\ In("energy") = {h} \cup In("energy")'
        /\ \A c \in In("energy")' : Rank(h) < Rank(c)
        /\ Ordered(input'["energy"]) /\ Ordered(input'["direction"]) /\ OthersKept("energy", "direction")
        /\ d.n = h.n /\ Rank(d) = Rank(h)
        /\ \/ h.kind = "magnitude" /\ h = Chunk("magnitude", h.n) /\ d = Chunk("detection", h.n)
           \/ h.kind = "fft" /\ d = h
        /\ \/ In("direction")' = In("direction") \cup {d}
           \/ In("direction")' = In("direction") /\ <<"direction", d>> \in lost'
        /\ lost \subseteq lost'
  BY EnergyEffect
<1>2. UNCHANGED <<routes, source, magnitude, bare, bins, directions, undefined>> /\ Received' = Received
  BY DEF Process_FFTMagnitudeChunk, PassSpectrum, detection, Received
<1>3. \A i \in FFTs : input'[i] = input[i] /\ In(i)' = In(i)
  <2>1. \A i \in FFTs : i \in Modules /\ i # "energy" /\ i # "direction"
    BY DEF FFTs, Modules, Instances
  <2> QED BY <1>1, <2>1 DEF OthersKept, In
<1>4. In("energy") \subseteq ChunkType /\ In("direction") \subseteq ChunkType
  <2>1. input["energy"] \in Seq(ChunkType) /\ input["direction"] \in Seq(ChunkType)
    BY StageNames DEF BuffersTyped
  <2> QED BY <2>1, Elements DEF In
<1>5. \A k : DetectionMissing(k) => DetectionMissing(k)'
  BY <1>1, <1>2, MissingStays
<1>6. DirectionsMatched'
  BY <1>1, <1>2, MatchedStays DEF DetectionInv
<1>7. In("direction") \subseteq In("direction")' /\ In("energy")' \subseteq In("energy")
      /\ \A c \in In("direction")' : c \in In("direction") \/ c = d
  BY <1>1
<1>8. DetectionOrder'
  <2>1. bins' = bins /\ (bins = NoChunk \/ bins \in Received)
    BY <1>2 DEF DetectionInv, DetectionOrder
  <2>2. \A c \in In("direction") \cup In("energy") : c.n \in Received /\ 2 * bins < Rank(c)
    BY DEF DetectionInv, DetectionOrder
  <2>3. \A c \in In("direction")' \cup In("energy")' : c.n \in Received /\ 2 * bins < Rank(c)
    BY <1>1, <1>7, <2>2
  <2>4. \A c \in In("direction")', e \in In("energy")' : Rank(c) < Rank(e)
    <3> SUFFICES ASSUME NEW c \in In("direction")', NEW e \in In("energy")' PROVE Rank(c) < Rank(e)
      OBVIOUS
    <3>1. CASE c \in In("direction")
      BY <1>7, <3>1 DEF DetectionInv, DetectionOrder
    <3>2. CASE c = d
      BY <1>1, <3>2
    <3> QED BY <1>7, <3>1, <3>2
  <2>5. ASSUME NEW i \in FFTs
        PROVE  /\ Ordered(input'[i])
               /\ \A t \in In(i)' : /\ t.n \in Received /\ 2 * bins < Rank(t) /\ t.kind = "time"
                                    /\ \A c \in In("energy")' \cup In("direction")' : c.n < t.n
    <3>1. \A t \in In(i) : \A c \in In("energy")' \cup In("direction")' : c.n < t.n
      BY <1>1, <1>7 DEF DetectionInv, DetectionOrder
    <3> QED BY <1>3, <3>1 DEF DetectionInv, DetectionOrder
  <2> QED BY <1>1, <1>2, <2>1, <2>3, <2>4, <2>5 DEF DetectionOrder
<1>9. Preceded'
  <2>1. d.kind = "fft" => d = h /\ h.kind = "fft"
    <3>1. Chunk("detection", h.n).kind = "detection"
      BY DEF Chunk
    <3> QED BY <1>1, <3>1
  <2>2. ASSUME h.kind = "fft"
        PROVE  \/ Chunk("detection", h.n) \in In("direction")
               \/ bins = h.n
               \/ DetectionMissing(h.n)
    <3> DEFINE a == Chunk("magnitude", h.n)
    <3>1. CASE a \in In("energy")
      <4>1. Rank(a) = 2 * h.n /\ Rank(h) = 2 * h.n + 1 /\ h.n \in Nat
        BY <2>2, Ranks
      <4>2. a # h /\ a \in In("energy")'
        BY <1>1, <3>1, <4>1
      <4>3. Rank(h) < Rank(a)
        BY <1>1, <4>2
      <4> QED BY <4>1, <4>3
    <3> QED BY <1>1, <2>2, <3>1 DEF DetectionInv, Preceded
  <2>3. ASSUME NEW c \in In("direction")', NEW k, k = c.n, c.kind = "fft"
        PROVE  \/ Chunk("detection", k) \in In("direction")'
               \/ bins' = k
               \/ DetectionMissing(k)'
    <3>1. CASE c \in In("direction")
      BY <1>2, <1>5, <1>7, <2>3, <3>1 DEF DetectionInv, Preceded
    <3>2. CASE c = d
      BY <1>2, <1>5, <1>7, <2>1, <2>2, <2>3, <3>2
    <3> QED BY <1>7, <3>1, <3>2
  <2>4. ASSUME NEW c \in In("energy")', NEW k, k = c.n, c.kind = "fft"
        PROVE  \/ Chunk("magnitude", k) \in In("energy")'
               \/ Chunk("detection", k) \in In("direction")'
               \/ bins' = k
               \/ DetectionMissing(k)'
    <3>1. \/ Chunk("magnitude", k) \in In("energy")
          \/ Chunk("detection", k) \in In("direction")
          \/ bins = k
          \/ DetectionMissing(k)
      BY <1>7, <2>4 DEF DetectionInv, Preceded
    <3>2. CASE Chunk("magnitude", k) = h
      <4>1. h.n = k /\ h.kind = "magnitude" /\ d = Chunk("detection", k)
        BY <1>1, <3>2 DEF Chunk
      <4>2. CASE <<"direction", d>> \in lost'
        <5>1. <<"direction", d>>[2].n = k /\ <<"direction", d>>[2].kind = "detection"
          BY <4>1 DEF Chunk
        <5>2. DetectionMissing(k)'
          BY <4>2, <5>1 DEF DetectionMissing
        <5> QED BY <5>2
      <4> QED BY <1>1, <4>1, <4>2
    <3> QED BY <1>1, <1>2, <1>5, <1>7, <3>1, <3>2
  <2> QED BY <2>3, <2>4 DEF Preceded
<1> QED
  BY <1>6, <1>8, <1>9 DEF DetectionInv

(* DirectionFindingModule takes one chunk.                                 *)
LEMMA DirectionEffect ==
  ASSUME BuffersTyped, DetectionInv, input["direction"] # <<>>, input' = [input EXCEPT !["direction"] = Tail(@)]
  PROVE  LET h == Head(input["direction"])
         IN  /\ h \in ChunkType /\ h \in In("direction") /\ In("direction") = {h} \cup In("direction")'
             /\ In("direction")' \subseteq ChunkType
             /\ \A c \in In("direction")' \cup In("energy") : Rank(h) < Rank(c)
             /\ Ordered(input'["direction"])
             /\ \A m \in FFTs \cup {"energy"} : input'[m] = input[m] /\ In(m)' = In(m)
<1> DEFINE h == Head(input["direction"])
<1>1. "direction" \in Modules
  BY StageNames
<1>2. /\ h \in ChunkType /\ h \in In("direction") /\ In("direction") = {h} \cup ToSet(Tail(input["direction"]))
      /\ input["direction"] \in Seq(ChunkType) /\ In("direction") \subseteq ChunkType
  BY <1>1, HeadOf
<1>3. input'["direction"] = Tail(input["direction"]) /\ OthersKept("direction", "direction")
  BY <1>1, TurnWithNone
<1>4. In("direction")' = ToSet(Tail(input["direction"]))
  BY <1>3 DEF In
<1>5. /\ Ordered(Tail(input["direction"]))
      /\ \A c \in ToSet(Tail(input["direction"])) : Rank(h) < Rank(c)
  <2>1. Ordered(input["direction"])
    BY DEF DetectionInv, DetectionOrder
  <2> QED BY <1>2, <2>1, OrderedTail
<1>6. \A c \in In("energy") : Rank(h) < Rank(c)
  BY <1>2 DEF DetectionInv, DetectionOrder
<1>7. \A m \in FFTs \cup {"energy"} : input'[m] = input[m] /\ In(m)' = In(m)
  <2>1. \A m \in FFTs \cup {"energy"} : m \in Modules /\ m # "direction"
    BY DEF FFTs, Modules, Instances
  <2> QED BY <1>3, <2>1 DEF OthersKept, In
<1> QED
  BY <1>2, <1>3, <1>4, <1>5, <1>6, <1>7

LEMMA DetectionBins ==
  ASSUME RestTyped, BuffersTyped, DetectionInv, ProcessDetectionBinChunk
  PROVE  DetectionInv'
<1>1. /\ input["direction"] # <<>> /\ Head(input["direction"]).kind = "detection"
      /\ input' = [input EXCEPT !["direction"] = Tail(@)]
      /\ bins' = Head(input["direction"]).n
      /\ UNCHANGED <<source, bare, directions, undefined, lost>>
  BY DEF ProcessDetectionBinChunk, Has, Take
<1>2. PICK h \in ChunkType : h = Head(input["direction"])
  BY <1>1, DirectionEffect
<1>3. /\ h \in In("direction") /\ In("direction") = {h} \cup In("direction")'
      /\ In("direction")' \subseteq ChunkType
      /\ \A c \in In("direction")' \cup In("energy") : Rank(h) < Rank(c)
      /\ Ordered(input'["direction"])
      /\ \A m \in FFTs \cup {"energy"} : input'[m] = input[m] /\ In(m)' = In(m)
  BY <1>1, <1>2, DirectionEffect
<1>4. bins' = h.n /\ h.kind = "detection" /\ h = Chunk("detection", h.n)
  BY <1>1, <1>2 DEF Chunk, ChunkType
<1>5. h.n \in Nat /\ Rank(h) = 2 * h.n /\ h.n \in Received /\ 2 * bins < 2 * h.n /\ bins \in Nat
  <2>1. h.n \in Nat /\ Rank(h) = 2 * h.n
    BY <1>4, Ranks
  <2>2. h.n \in Received /\ 2 * bins < Rank(h)
    BY <1>3 DEF DetectionInv, DetectionOrder
  <2>3. bins \in Nat
    BY DEF RestTyped, Numbers, NoChunk
  <2> QED BY <2>1, <2>2, <2>3
<1>6. In("energy") \subseteq ChunkType
  <2>1. input["energy"] \in Seq(ChunkType)
    BY StageNames DEF BuffersTyped
  <2> QED BY <2>1, Elements DEF In
<1>7. \A c \in In("direction")' \cup In("energy") : c.n \in Received /\ 2 * h.n < Rank(c) /\ c \in ChunkType
  BY <1>3, <1>5, <1>6 DEF DetectionInv, DetectionOrder
<1>8. Received' = Received /\ \A k : DetectionMissing(k) => DetectionMissing(k)'
  BY <1>1, MissingStays DEF Received
<1>9. DirectionsMatched'
  BY <1>1, <1>8, MatchedStays DEF DetectionInv
<1>10. DetectionOrder'
  <2>1. \A c \in In("direction")', d \in In("energy")' : Rank(c) < Rank(d)
    BY <1>3 DEF DetectionInv, DetectionOrder
  <2>2. ASSUME NEW i \in FFTs
        PROVE  /\ Ordered(input'[i])
               /\ \A t \in In(i)' : /\ t.n \in Received' /\ 2 * bins' < Rank(t) /\ t.kind = "time"
                                    /\ \A c \in In("energy")' \cup In("direction")' : c.n < t.n
    <3>1. input'[i] = input[i] /\ In(i)' = In(i) /\ In("energy")' = In("energy")
      BY <1>3
    <3>2. input[i] \in Seq(ChunkType)
      BY ModuleNames DEF BuffersTyped
    <3>3. In(i) \subseteq ChunkType
      BY <3>2, Elements DEF In
    <3>4. \A t \in In(i) : /\ t.n \in Received /\ t.kind = "time" /\ h.n < t.n
                           /\ \A c \in In("energy") \cup In("direction")' : c.n < t.n
      BY <1>3 DEF DetectionInv, DetectionOrder
    <3>5. \A t \in In(i) : 2 * h.n < Rank(t)
      <4> SUFFICES ASSUME NEW t \in In(i) PROVE 2 * h.n < Rank(t)
        OBVIOUS
      <4>1. h.n < t.n /\ t.n \in Nat /\ 2 * t.n <= Rank(t) /\ Rank(t) \in Nat
        BY <3>3, <3>4, Ranks
      <4> QED BY <1>5, <4>1
    <3>6. Ordered(input[i])
      BY DEF DetectionInv, DetectionOrder
    <3> QED BY <1>4, <1>8, <3>1, <3>4, <3>5, <3>6
  <2>3. Ordered(input'["energy"])
    BY <1>3 DEF DetectionInv, DetectionOrder
  <2>4. \A m \in {"energy", "direction"} : \A c \in In(m)' : c.n \in Received' /\ 2 * bins' < Rank(c)
    BY <1>3, <1>4, <1>7, <1>8
  <2>5. bins' = NoChunk \/ bins' \in Received'
    BY <1>4, <1>5, <1>8
  <2> QED BY <1>3, <2>1, <2>2, <2>3, <2>4, <2>5 DEF DetectionOrder
<1>11. Preceded'
  <2>1. ASSUME NEW c \in In("direction")' \cup In("energy"), c.kind = "fft"
        PROVE  bins # c.n
    <3>1. Rank(c) = 2 * c.n + 1 /\ c.n \in Nat /\ 2 * h.n < Rank(c)
      BY <1>7, <2>1, Ranks
    <3> QED BY <1>5, <3>1
  <2>2. ASSUME NEW k, Chunk("detection", k) \in In("direction")
        PROVE  Chunk("detection", k) \in In("direction")' \/ bins' = k
    <3>1. CASE Chunk("detection", k) = h
      BY <1>4, <3>1 DEF Chunk
    <3> QED BY <1>3, <2>2, <3>1
  <2>3. ASSUME NEW c \in In("direction")', NEW k, k = c.n, c.kind = "fft"
        PROVE  \/ Chunk("detection", k) \in In("direction")'
               \/ bins' = k
               \/ DetectionMissing(k)'
    BY <1>3, <1>8, <2>1, <2>2, <2>3 DEF DetectionInv, Preceded
  <2>4. ASSUME NEW c \in In("energy")', NEW k, k = c.n, c.kind = "fft"
        PROVE  \/ Chunk("magnitude", k) \in In("energy")'
               \/ Chunk("detection", k) \in In("direction")'
               \/ bins' = k
               \/ DetectionMissing(k)'
    BY <1>3, <1>8, <2>1, <2>2, <2>4 DEF DetectionInv, Preceded
  <2> QED BY <2>3, <2>4 DEF Preceded
<1> QED
  BY <1>9, <1>10, <1>11 DEF DetectionInv

(* A spectrum is used with the bins kept.                                  *)
LEMMA DetectionSpectrum ==
  ASSUME RestTyped, BuffersTyped, DetectionInv, PassMonoSpectrum \/ ProcessFFTChunk
  PROVE  DetectionInv'
<1>1. /\ input["direction"] # <<>> /\ Head(input["direction"]).kind = "fft" /\ ~undefined
      /\ input' = [input EXCEPT !["direction"] = Tail(@)]
      /\ UNCHANGED <<source, bare, bins, lost>>
  BY DEF PassMonoSpectrum, ProcessFFTChunk, Has, Take, detection
<1>2. PICK h \in ChunkType : h = Head(input["direction"])
  BY <1>1, DirectionEffect
<1>3. /\ h \in In("direction") /\ In("direction") = {h} \cup In("direction")'
      /\ \A c \in In("direction")' \cup In("energy") : Rank(h) < Rank(c)
      /\ Ordered(input'["direction"])
      /\ \A m \in FFTs \cup {"energy"} : input'[m] = input[m] /\ In(m)' = In(m)
  BY <1>1, <1>2, DirectionEffect
<1>4. h.kind = "fft" /\ h.n \in Nat /\ Rank(h) = 2 * h.n + 1 /\ h.n \in Received /\ 2 * bins < Rank(h) /\ bins \in Nat
  <2>1. h.n \in Nat /\ Rank(h) = 2 * h.n + 1
    BY <1>1, <1>2, Ranks
  <2>2. h.n \in Received /\ 2 * bins < Rank(h)
    BY <1>3 DEF DetectionInv, DetectionOrder
  <2>3. bins \in Nat
    BY DEF RestTyped, Numbers, NoChunk
  <2> QED BY <1>1, <1>2, <2>1, <2>2, <2>3
<1>5. bins = h.n \/ (bins < h.n /\ DetectionMissing(h.n))
  <2>1. bins <= h.n
    BY <1>4
  <2>2. Chunk("detection", h.n) \notin In("direction")
    <3>1. Rank(Chunk("detection", h.n)) = 2 * h.n
      BY Ranks
    <3>2. Chunk("detection", h.n) # h
      BY <1>4, <3>1
    <3>3. ~(Rank(h) < Rank(Chunk("detection", h.n)))
      BY <1>4, <3>1
    <3> QED BY <1>3, <3>2, <3>3
  <2>3. bins = h.n \/ DetectionMissing(h.n)
    BY <1>3, <1>4, <2>2 DEF DetectionInv, Preceded
  <2> QED BY <1>4, <2>1, <2>3
<1>6. Received' = Received /\ \A k : DetectionMissing(k) <=> DetectionMissing(k)'
  BY <1>1 DEF Received, DetectionMissing
<1>7. DirectionsMatched'
  <2>1. CASE PassMonoSpectrum
    <3>1. UNCHANGED <<directions, undefined>>
      BY <2>1 DEF PassMonoSpectrum, detection
    <3> QED BY <1>1, <1>6, <3>1, MatchedStays DEF DetectionInv
  <2>2. CASE ProcessFFTChunk
    <3>1. /\ Channels[source[h.n]] > 1 /\ undefined' = (BinChannels < 2)
          /\ directions' = IF undefined' THEN directions ELSE directions \cup {<<h.n, bins>>}
      BY <1>2, <2>2 DEF ProcessFFTChunk
    <3>2. \A d \in directions' : d[2] = d[1] \/ (d[2] < d[1] /\ DetectionMissing(d[1]))
      <4>1. \A d \in directions : d[2] = d[1] \/ (d[2] < d[1] /\ DetectionMissing(d[1]))
        BY DEF DetectionInv, DirectionsMatched
      <4>2. \A d \in directions' : d \in directions \/ d = <<h.n, bins>>
        BY <3>1
      <4>3. ASSUME NEW d, d = <<h.n, bins>> PROVE d[2] = d[1] \/ (d[2] < d[1] /\ DetectionMissing(d[1]))
        BY <1>5, <4>3
      <4> QED BY <4>1, <4>2, <4>3
    <3>3. undefined' => DetectionMissing(h.n)
      <4> SUFFICES ASSUME bins = h.n, BinChannels < 2 PROVE FALSE
        BY <1>5, <3>1
      <4>1. bins # NoChunk
        BY <1>4 DEF Received, NoChunk
      <4>2. BinChannels = Channels[source[h.n]]
        BY <4>1 DEF BinChannels
      <4>3. source[h.n] \in Sources
        BY <1>4, ElementOfSeq DEF RestTyped, Received
      <4>4. Channels[source[h.n]] \in Nat
        BY <4>3, ChannelsAssumption
      <4> QED BY <3>1, <4>2, <4>4
    <3>4. undefined' => \E n \in Received : DetectionMissing(n)
      BY <1>4, <3>3
    <3>5. \A d \in directions' : d[2] = d[1] \/ (d[2] < d[1] /\ DetectionMissing(d[1])')
      <4>1. \A d : DetectionMissing(d[1]) => DetectionMissing(d[1])'
        BY <1>6
      <4> QED BY <3>2, <4>1
    <3> QED BY <1>6, <3>4, <3>5 DEF DirectionsMatched, Received
  <2> QED BY <2>1, <2>2
<1>8. DetectionOrder'
  BY <1>1, <1>3, <1>6 DEF DetectionInv, DetectionOrder
<1>9. Preceded'
  <2>1. ASSUME NEW k, Chunk("detection", k) \in In("direction") PROVE Chunk("detection", k) \in In("direction")'
    <3>1. Chunk("detection", k) # h
      BY <1>4 DEF Chunk
    <3> QED BY <1>3, <2>1, <3>1
  <2>2. In("energy")' = In("energy") /\ In("direction")' \subseteq In("direction")
    BY <1>3
  <2>3. ASSUME NEW c \in In("direction")', NEW k, k = c.n, c.kind = "fft"
        PROVE  \/ Chunk("detection", k) \in In("direction")'
               \/ bins' = k
               \/ DetectionMissing(k)'
    BY <1>1, <1>6, <2>1, <2>2, <2>3 DEF DetectionInv, Preceded
  <2>4. ASSUME NEW c \in In("energy")', NEW k, k = c.n, c.kind = "fft"
        PROVE  \/ Chunk("magnitude", k) \in In("energy")'
               \/ Chunk("detection", k) \in In("direction")'
               \/ bins' = k
               \/ DetectionMissing(k)'
    BY <1>1, <1>6, <2>1, <2>2, <2>4 DEF DetectionInv, Preceded
  <2> QED BY <2>3, <2>4 DEF Preceded
<1> QED
  BY <1>7, <1>8, <1>9 DEF DetectionInv

-----------------------------------------------------------------------------
(* The recording.                                                          *)

LEMMA LostBeforeIs ==
  ASSUME NEW ms, NEW n
  PROVE  n \in LostBefore(ms) <=> \E y \in lost : y[1] \in ms /\ y[2].n = n
BY DEF LostBefore

LostOnWay == LostBefore({"wav", "accumulator"})

LEMMA LostElsewhere ==
  ASSUME NEW S, lost' = lost \cup S, \A y \in S : y[1] \notin {"wav", "accumulator"}
  PROVE  LostOnWay' = LostOnWay
BY DEF LostOnWay, LostBefore

LEMMA LostAtOther ==
  ASSUME NEW m, m \notin {"wav", "accumulator"}, NEW c, lost' = lost \cup {<<m, c>>}
  PROVE  LostOnWay' = LostOnWay
<1>1. \A y : y \in lost' <=> y \in lost \/ y = <<m, c>>
  OBVIOUS
<1>2. <<m, c>>[1] = m
  OBVIOUS
<1>3. ASSUME NEW n PROVE n \in LostOnWay' <=> n \in LostOnWay
  BY <1>1, <1>2 DEF LostOnWay, LostBefore
<1> QED
  BY <1>3

LEMMA LostThere ==
  ASSUME NEW m \in {"wav", "accumulator"}, NEW c, lost' = lost \cup {<<m, c>>}
  PROVE  LostOnWay' = LostOnWay \cup {c.n}
<1>1. \A y : y \in lost' <=> y \in lost \/ y = <<m, c>>
  OBVIOUS
<1>2. <<m, c>>[1] = m /\ <<m, c>>[2] = c
  OBVIOUS
<1>3. ASSUME NEW n PROVE n \in LostOnWay' <=> n \in LostOnWay \/ n = c.n
  BY <1>1, <1>2 DEF LostOnWay, LostBefore
<1> QED
  BY <1>3

LEMMA RecordingUntouched ==
  ASSUME RecordingInv, input'["wav"] = input["wav"], input'["accumulator"] = input["accumulator"],
         In("writer")' \subseteq In("writer"), UNCHANGED <<accumulated, passedOn, source>>,
         ToSet(routes') = ToSet(routes) \/ Received = {}, LostOnWay' = LostOnWay
  PROVE  RecordingInv'
<1>1. /\ Coming("wav")' = Coming("wav") /\ Coming("accumulator")' = Coming("accumulator")
      /\ In("wav")' = In("wav") /\ In("accumulator")' = In("accumulator")
      /\ Finished' = Finished /\ Joining' = Joining /\ Received' = Received
  BY DEF Coming, In, Finished, Joining, Received
<1>2. RecordingOrder'
  BY <1>1 DEF RecordingInv, RecordingOrder
<1>3. InLine' = InLine
  BY <1>1 DEF InLine
<1> QED
  BY <1>1, <1>2, <1>3 DEF RecordingInv, LostOnWay

LEMMA ReceivedNat == \A n \in Received : n \in Nat /\ n >= 1
BY DEF Received

LEMMA RecordingRoute ==
  ASSUME RestTyped, BuffersTyped, RecordingInv, NEW s \in Sources, RouteChunk(s)
  PROVE  RecordingInv'
<1>1. PICK n : n = Len(source')
  OBVIOUS
<1>2. PICK t : t = Chunk("time", n)
  OBVIOUS
<1>3. PICK missed \in SUBSET ToSet(routes) :
        /\ lost' = lost \cup {<<m, t>> : m \in missed}
        /\ \A m \in Modules : input'[m] = IF m \in ToSet(routes) \ missed THEN Append(input[m], t) ELSE input[m]
  <2>1. PICK missed \in SUBSET ToSet(routes) :
          /\ lost' = lost \cup {<<m, Chunk("time", Len(source'))>> : m \in missed}
          /\ \A m \in Modules :
               input'[m] = IF m \in ToSet(routes) \ missed
                             THEN Append(input[m], Chunk("time", Len(source'))) ELSE input[m]
    BY RouteEffect
  <2>2. Chunk("time", Len(source')) = t
    BY <1>1, <1>2
  <2> QED BY <2>1, <2>2, SMTT(30)
<1>4. /\ n = Len(source) + 1 /\ n \in Numbers /\ Len(source) \in Nat
      /\ UNCHANGED <<routes, accumulated, passedOn>>
  BY <1>1, RouteEffect DEF RouteChunk, recording
<1>5. t \in ChunkType /\ t.kind = "time" /\ t.n = n /\ Rank(t) = 2 * n
  <2>1. t \in ChunkType /\ t.kind = "time" /\ t.n = n
    BY <1>2, <1>4, ChunkTyped, KindNames
  <2> QED BY <2>1, Ranks
<1>6. /\ Received' = Received \cup {n} /\ n \notin Received /\ n \in Nat
      /\ \A k \in Received : k < n
  BY <1>1, <1>4 DEF Received
<1>7. ToSet(routes) \subseteq Instances
  BY RoutesElements
<1>8. \A m \in {"accumulator", "writer"} : input'[m] = input[m]
  BY <1>3, <1>7 DEF Instances, Modules
<1>9. /\ In("accumulator")' = In("accumulator") /\ Coming("accumulator")' = Coming("accumulator")
      /\ In("writer")' = In("writer") /\ Finished' = Finished /\ Joining' = Joining
  BY <1>4, <1>8 DEF In, Coming, Finished, Joining
<1>10. "wav" \in Modules /\ input["wav"] \in Seq(ChunkType) /\ In("wav") \subseteq ChunkType
  <2>1. "wav" \in Modules
    BY ModuleNames
  <2>2. input["wav"] \in Seq(ChunkType)
    BY <2>1 DEF BuffersTyped
  <2> QED BY <2>1, <2>2, Elements DEF In
<1>11. LostOnWay' = LostOnWay \cup (IF "wav" \in missed THEN {n} ELSE {})
  <2>1. "accumulator" \notin missed
    BY <1>7 DEF Instances
  <2>2. \A y : y \in lost' <=> y \in lost \/ \E m \in missed : y = <<m, t>>
    BY <1>3
  <2>3. \A k : k \in LostOnWay <=> \E y \in lost : y[1] \in {"wav", "accumulator"} /\ y[2].n = k
    BY DEF LostOnWay, LostBefore
  <2>4. \A k : k \in LostOnWay' <=> \E y \in lost' : y[1] \in {"wav", "accumulator"} /\ y[2].n = k
    BY DEF LostOnWay, LostBefore
  <2>5. ASSUME NEW k PROVE k \in LostOnWay' <=> k \in LostOnWay \/ ("wav" \in missed /\ k = n)
    <3>1. ASSUME k \in LostOnWay PROVE k \in LostOnWay'
      BY <2>2, <2>3, <2>4, <3>1
    <3>2. ASSUME "wav" \in missed, k = n PROVE k \in LostOnWay'
      <4>1. <<"wav", t>> \in lost' /\ <<"wav", t>>[1] = "wav" /\ <<"wav", t>>[2].n = k
        BY <1>5, <2>2, <3>2
      <4> QED BY <2>4, <4>1
    <3>3. ASSUME k \in LostOnWay' PROVE k \in LostOnWay \/ ("wav" \in missed /\ k = n)
      <4>1. PICK y \in lost' : y[1] \in {"wav", "accumulator"} /\ y[2].n = k
        BY <2>4, <3>3
      <4>2. CASE y \in lost
        BY <2>3, <4>1, <4>2
      <4>3. CASE \E m \in missed : y = <<m, t>>
        BY <1>5, <2>1, <4>1, <4>3
      <4> QED BY <2>2, <4>2, <4>3
    <3> QED BY <3>1, <3>2, <3>3
  <2> QED BY <2>5
<1>12. \A k \in InLine \cup LostOnWay : k \in Received /\ k < n
  BY <1>6 DEF RecordingInv, LostOnWay
<1>13. CASE input'["wav"] = Append(input["wav"], t) /\ "wav" \notin missed
  <2>1. In("wav")' = In("wav") \cup {t} /\ Coming("wav")' = Coming("wav") \cup {n}
    BY <1>5, <1>10, <1>13, AppendElements DEF In, Coming
  <2>2. Ordered(input'["wav"])
    <3>1. Ordered(input["wav"])
      BY DEF RecordingInv, RecordingOrder
    <3>2. ASSUME NEW c \in In("wav") PROVE Rank(c) < Rank(t)
      <4>1. c \in ChunkType /\ c.kind # "fft" /\ c.n < n
        BY <1>10, <1>12 DEF RecordingInv, InLine, Coming
      <4>2. Rank(c) = 2 * c.n /\ c.n \in Nat
        BY <4>1, Ranks
      <4> QED BY <1>5, <1>6, <4>1, <4>2
    <3> QED BY <1>5, <1>10, <1>13, <3>1, <3>2, OrderedAppend DEF In
  <2>3. RecordingOrder'
    <3>1. \A k \in Finished \cup Joining \cup Coming("accumulator") : k < n
      BY <1>12 DEF InLine
    <3> QED BY <1>4, <1>8, <1>9, <2>1, <2>2, <3>1 DEF RecordingInv, RecordingOrder, Below
  <2>4. InLine' = InLine \cup {n} /\ LostOnWay' = LostOnWay
    BY <1>9, <1>11, <1>13, <2>1 DEF InLine
  <2>5. n \notin LostOnWay
    BY <1>6, <1>12
  <2>6. t.kind # "fft"
    BY <1>5
  <2> QED BY <1>4, <1>6, <1>9, <2>1, <2>3, <2>4, <2>5, <2>6 DEF RecordingInv, LostOnWay
<1>14. CASE input'["wav"] = input["wav"] /\ ("wav" \in missed \/ "wav" \notin ToSet(routes))
  <2>1. In("wav")' = In("wav") /\ Coming("wav")' = Coming("wav")
    BY <1>14 DEF In, Coming
  <2>2. RecordingOrder'
    BY <1>4, <1>8, <1>9, <1>14, <2>1 DEF RecordingInv, RecordingOrder
  <2>3. InLine' = InLine /\ n \notin InLine
    BY <1>6, <1>9, <1>12, <2>1 DEF InLine
  <2>4. LostOnWay \subseteq LostOnWay' /\ LostOnWay' \subseteq LostOnWay \cup {n}
        /\ ("wav" \in ToSet(routes) => n \in LostOnWay')
    BY <1>11, <1>14
  <2> QED BY <1>4, <1>6, <1>9, <2>1, <2>2, <2>3, <2>4 DEF RecordingInv, LostOnWay
<1> QED
  BY <1>3, <1>10, <1>13, <1>14

LEMMA OrderedComing ==
  ASSUME NEW m, NEW c, In(m) = {c} \cup In(m)'
  PROVE  Coming(m) = {c.n} \cup Coming(m)'
BY DEF Coming

(* The head of a recording buffer has the lowest number in it.             *)
LEMMA RecordingHead ==
  ASSUME BuffersTyped, RecordingInv, NEW m \in {"wav", "accumulator"}, input[m] # <<>>,
         input'[m] = Tail(input[m])
  PROVE  /\ Head(input[m]) \in ChunkType /\ Head(input[m]) \in In(m)
         /\ In(m) = {Head(input[m])} \cup In(m)'
         /\ Coming(m) = {Head(input[m]).n} \cup Coming(m)'
         /\ \A k \in Coming(m)' : Head(input[m]).n < k
         /\ Ordered(input'[m])
<1>1. m \in Modules
  BY ModuleNames
<1>2. /\ Head(input[m]) \in ChunkType /\ Head(input[m]) \in In(m)
      /\ In(m) = {Head(input[m])} \cup ToSet(Tail(input[m])) /\ In(m) \subseteq ChunkType
      /\ input[m] \in Seq(ChunkType)
  BY <1>1, HeadOf
<1>3. In(m)' = ToSet(Tail(input[m]))
  BY DEF In
<1>4. Coming(m) = {Head(input[m]).n} \cup Coming(m)'
  BY <1>2, <1>3, OrderedComing
<1>5. Ordered(Tail(input[m])) /\ \A c \in ToSet(Tail(input[m])) : Rank(Head(input[m])) < Rank(c)
  <2>1. Ordered(input[m])
    BY DEF RecordingInv, RecordingOrder
  <2> QED BY <1>2, <2>1, OrderedTail
<1>6. ASSUME NEW c \in In(m)' PROVE Head(input[m]).n < c.n
  <2>1. c \in In(m) /\ c \in ChunkType /\ c.kind # "fft" /\ Head(input[m]).kind # "fft"
    BY <1>2, <1>3 DEF RecordingInv
  <2>2. Rank(c) = 2 * c.n /\ Rank(Head(input[m])) = 2 * Head(input[m]).n /\ c.n \in Nat /\ Head(input[m]).n \in Nat
    BY <1>2, <2>1, Ranks
  <2>3. Rank(Head(input[m])) < Rank(c)
    BY <1>3, <1>5
  <2> QED BY <2>2, <2>3
<1>7. \A k \in Coming(m)' : Head(input[m]).n < k
  BY <1>6 DEF Coming
<1> QED
  BY <1>2, <1>3, <1>4, <1>5, <1>7

LEMMA RecordingConvert ==
  ASSUME RestTyped, BuffersTyped, RecordingInv, ConvertTimeToWAV
  PROVE  RecordingInv'
<1>1. PICK n : n = Head(input["wav"]).n
  OBVIOUS
<1>2. PICK d : d = Chunk("wav", n)
  OBVIOUS
<1>3. /\ UNCHANGED <<routes, source, accumulated, passedOn>> /\ input["wav"] # <<>>
      /\ TakeAndPass("wav", "accumulator", <<d>>)
  BY <1>1, <1>2 DEF ConvertTimeToWAV, Has, recording
<1>4. "wav" \in Modules /\ "accumulator" \in Modules /\ "writer" \in Modules
  BY ModuleNames
<1>5. n \in Numbers /\ d \in ChunkType /\ d.kind = "wav" /\ d.n = n /\ Rank(d) = 2 * n /\ n \in Nat
  <2>1. n \in Numbers
    BY <1>1, <1>3, <1>4, HeadOf
  <2>2. d \in ChunkType /\ d.kind = "wav" /\ d.n = n
    BY <1>2, <2>1, ChunkTyped, KindNames
  <2> QED BY <2>1, <2>2, Ranks
<1>6. /\ input'["wav"] = Tail(input["wav"]) /\ OthersKept("wav", "accumulator")
      /\ PassedOne("accumulator", d)
  BY <1>3, <1>4, <1>5, TurnWithOne
<1>7. /\ In("wav") = {Head(input["wav"])} \cup In("wav")' /\ n \in Coming("wav")
      /\ Coming("wav") = {n} \cup Coming("wav")' /\ \A k \in Coming("wav")' : n < k
      /\ Ordered(input'["wav"])
  BY <1>1, <1>3, <1>6, RecordingHead DEF Coming
<1>8. /\ In("writer")' = In("writer") /\ Finished' = Finished /\ Joining' = Joining /\ Received' = Received
  BY <1>3, <1>4, <1>6 DEF OthersKept, In, Finished, Joining, Received
<1>9. /\ \A k \in Finished \cup Joining \cup Coming("accumulator") : k < n
      /\ n \in Received /\ n \notin LostOnWay
  BY <1>7 DEF RecordingInv, RecordingOrder, Below, InLine, LostOnWay
<1>10. n \notin Finished \cup Joining \cup Coming("accumulator") \cup Coming("wav")'
  BY <1>5, <1>7, <1>9
<1>11. /\ input["accumulator"] \in Seq(ChunkType) /\ In("accumulator") \subseteq ChunkType
       /\ Ordered(input["accumulator"])
  <2>1. input["accumulator"] \in Seq(ChunkType)
    BY <1>4 DEF BuffersTyped
  <2> QED BY <2>1, Elements DEF In, RecordingInv, RecordingOrder
<1>12. CASE input'["accumulator"] = Append(input["accumulator"], d) /\ lost' = lost
  <2>1. In("accumulator")' = In("accumulator") \cup {d} /\ Coming("accumulator")' = Coming("accumulator") \cup {n}
    BY <1>5, <1>11, <1>12, AppendElements DEF In, Coming
  <2>2. ASSUME NEW c \in In("accumulator") PROVE Rank(c) < Rank(d)
    <3>1. c \in ChunkType /\ c.kind # "fft" /\ c.n < n
      BY <1>9, <1>11 DEF RecordingInv, Coming
    <3>2. Rank(c) = 2 * c.n /\ c.n \in Nat
      BY <3>1, Ranks
    <3> QED BY <1>5, <3>1, <3>2
  <2>3. Ordered(input'["accumulator"])
    BY <1>5, <1>11, <1>12, <2>2, OrderedAppend DEF In
  <2>4. RecordingOrder'
    BY <1>3, <1>7, <1>8, <1>9, <2>1, <2>3 DEF RecordingInv, RecordingOrder, Below
  <2>5. InLine' = InLine
    BY <1>7, <1>8, <2>1 DEF InLine
  <2>6. LostOnWay' = LostOnWay
    BY <1>12 DEF LostOnWay, LostBefore
  <2>7. d.kind # "fft"
    BY <1>5
  <2> QED BY <1>3, <1>7, <1>8, <2>1, <2>4, <2>5, <2>6, <2>7 DEF RecordingInv, LostOnWay
<1>13. CASE input'["accumulator"] = input["accumulator"] /\ lost' = lost \cup {<<"accumulator", d>>}
  <2>1. In("accumulator")' = In("accumulator") /\ Coming("accumulator")' = Coming("accumulator")
    BY <1>13 DEF In, Coming
  <2>2. RecordingOrder'
    BY <1>3, <1>7, <1>8, <1>13, <2>1 DEF RecordingInv, RecordingOrder, Below
  <2>3. InLine = InLine' \cup {n} /\ n \notin InLine'
    BY <1>7, <1>8, <1>10, <2>1 DEF InLine
  <2>4. LostOnWay' = LostOnWay \cup {n}
    BY <1>5, <1>13, LostThere
  <2> QED BY <1>3, <1>7, <1>8, <1>9, <2>1, <2>2, <2>3, <2>4 DEF RecordingInv, LostOnWay
<1> QED
  BY <1>6, <1>12, <1>13 DEF PassedOne

(* A chunk joins the others, and may make the recording full.              *)
LEMMA RecordingAccumulate ==
  ASSUME RestTyped, BuffersTyped, RecordingInv, AccumulateWAVChunk
  PROVE  RecordingInv'
<1>1. PICK n : n = Head(input["accumulator"]).n
  OBVIOUS
<1>2. PICK joined : joined = Append(accumulated, n)
  OBVIOUS
<1>3. /\ UNCHANGED <<routes, source>> /\ input["accumulator"] # <<>>
      /\ \/ PassFile(joined)
         \/ accumulated' = joined /\ Take("accumulator") /\ UNCHANGED passedOn
  BY <1>1, <1>2 DEF AccumulateWAVChunk, Has
<1>4. "wav" \in Modules /\ "accumulator" \in Modules /\ "writer" \in Modules
  BY ModuleNames
<1>5. n \in Numbers /\ n \in Nat /\ n \in Coming("accumulator")
  BY <1>1, <1>3, <1>4, HeadOf DEF Numbers, Coming
<1>6. accumulated \in Seq(Numbers) /\ passedOn \in Seq(Seq(Numbers)) /\ Len(passedOn) \in Nat
  BY LenProperties DEF RestTyped
<1>7. /\ \A k \in Finished \cup Joining : k < n
      /\ \A k \in Coming("wav") : n < k
      /\ Below(Finished, Joining)
  BY <1>5 DEF RecordingInv, RecordingOrder, Below
<1>8. joined \in Seq(Numbers) /\ ToSet(joined) = Joining \cup {n} /\ Ascending(joined) /\ joined # <<>>
  <2>1. Ascending(accumulated)
    BY DEF RecordingInv, RecordingOrder
  <2>2. joined \in Seq(Numbers) /\ ToSet(joined) = Joining \cup {n}
    BY <1>2, <1>5, <1>6, AppendElements DEF Joining
  <2>3. Ascending(joined)
    BY <1>2, <1>5, <1>6, <1>7, <2>1, AscendingAppend DEF Joining
  <2>4. joined # <<>>
    BY <1>2, <1>5, <1>6, AppendProperties
  <2> QED BY <2>2, <2>3, <2>4
<1>9. CASE accumulated' = joined /\ Take("accumulator") /\ UNCHANGED passedOn
  <2>1. /\ input'["accumulator"] = Tail(input["accumulator"]) /\ OthersKept("accumulator", "accumulator")
        /\ lost' = lost
    BY <1>3, <1>4, <1>9, TurnWithNone DEF Take
  <2>2. /\ In("accumulator") = {Head(input["accumulator"])} \cup In("accumulator")'
        /\ Coming("accumulator") = {n} \cup Coming("accumulator")' /\ \A k \in Coming("accumulator")' : n < k
        /\ Ordered(input'["accumulator"])
    BY <1>1, <1>3, <2>1, RecordingHead
  <2>3. /\ In("writer")' = In("writer") /\ In("wav")' = In("wav") /\ Coming("wav")' = Coming("wav")
        /\ input'["wav"] = input["wav"]
        /\ Finished' = Finished /\ Joining' = Joining \cup {n} /\ Received' = Received
    BY <1>3, <1>4, <1>8, <1>9, <2>1 DEF OthersKept, In, Coming, Finished, Joining, Received
  <2>4. RecordingOrder'
    <3>1. Below(Finished, Joining \cup {n} \cup Coming("accumulator")' \cup Coming("wav"))
      BY <1>7, <2>2 DEF RecordingInv, RecordingOrder, Below
    <3>2. Below(Joining \cup {n}, Coming("accumulator")' \cup Coming("wav"))
      BY <1>7, <2>2 DEF RecordingInv, RecordingOrder, Below
    <3>3. Below(Coming("accumulator")', Coming("wav"))
      BY <2>2 DEF RecordingInv, RecordingOrder, Below
    <3>4. Ascending(accumulated')
      BY <1>8, <1>9
    <3> QED BY <1>9, <2>2, <2>3, <3>1, <3>2, <3>3, <3>4 DEF RecordingInv, RecordingOrder
  <2>5. InLine' = InLine
    BY <2>2, <2>3 DEF InLine
  <2>6. LostOnWay' = LostOnWay
    BY <2>1 DEF LostOnWay, LostBefore
  <2> QED BY <1>3, <1>9, <2>2, <2>3, <2>4, <2>5, <2>6 DEF RecordingInv, LostOnWay
<1>10. CASE PassFile(joined)
  <2>1. PICK L \in Nat : L = Len(passedOn)
    BY <1>6
  <2>2. /\ accumulated' = <<>> /\ passedOn' = Append(passedOn, joined)
        /\ TakeAndPass("accumulator", "writer", <<Chunk("file", Len(passedOn'))>>)
    BY <1>10 DEF PassFile
  <2>3. /\ passedOn' \in Seq(Seq(Numbers)) /\ Len(passedOn') = L + 1
        /\ passedOn'[L + 1] = joined /\ \A f \in 1..L : passedOn'[f] = passedOn[f]
    BY <1>6, <1>8, <2>1, <2>2, AppendProperties
  <2>4. Below(Finished, {n})
    BY <1>7 DEF Below
  <2>5. L + 1 \in Numbers
    BY <1>5, <2>1, <2>4, RecordingsCounted
  <2>6. ASSUME NEW x \in ToSet(joined) PROVE L + 1 <= x
    <3>1. x \in Numbers
      BY <1>8, Elements
    <3>2. Below(Finished, {x})
      BY <1>7, <1>8 DEF Below
    <3> QED BY <2>1, <3>1, <3>2, RecordingsCounted
  <2>7. PICK d : d = Chunk("file", L + 1)
    OBVIOUS
  <2>8. d \in ChunkType /\ d.n = L + 1 /\ TakeAndPass("accumulator", "writer", <<d>>)
    BY <2>2, <2>3, <2>5, <2>7, ChunkTyped, KindNames
  <2>9. /\ input'["accumulator"] = Tail(input["accumulator"]) /\ OthersKept("accumulator", "writer")
        /\ PassedOne("writer", d)
    BY <1>3, <1>4, <2>8, TurnWithOne
  <2>10. /\ In("accumulator") = {Head(input["accumulator"])} \cup In("accumulator")'
         /\ Coming("accumulator") = {n} \cup Coming("accumulator")' /\ \A k \in Coming("accumulator")' : n < k
         /\ Ordered(input'["accumulator"])
    BY <1>1, <1>3, <2>9, RecordingHead
  <2>11. /\ In("wav")' = In("wav") /\ Coming("wav")' = Coming("wav") /\ input'["wav"] = input["wav"]
         /\ Joining' = {} /\ Received' = Received
    BY <1>3, <1>4, <2>2, <2>9, NoElements DEF OthersKept, In, Coming, Joining, Received
  <2>12. Finished' = Finished \cup ToSet(joined)
    <3>1. ASSUME NEW x PROVE x \in Finished' <=> \E f \in 1..L + 1 : x \in ToSet(passedOn'[f])
      BY <2>3 DEF Finished
    <3>2. ASSUME NEW x PROVE x \in Finished <=> \E f \in 1..L : x \in ToSet(passedOn[f])
      BY <2>1 DEF Finished
    <3>3. \A f : f \in 1..L + 1 <=> f \in 1..L \/ f = L + 1
      OBVIOUS
    <3> QED BY <2>3, <3>1, <3>2, <3>3
  <2>13. InLine' = InLine
    BY <1>8, <2>10, <2>11, <2>12 DEF InLine
  <2>14. LostOnWay' = LostOnWay
    <3>1. CASE lost' = lost
      BY <3>1 DEF LostOnWay, LostBefore
    <3>2. CASE lost' = lost \cup {<<"writer", d>>}
      <4>1. "writer" \notin {"wav", "accumulator"}
        OBVIOUS
      <4> QED BY <3>2, <4>1, LostAtOther
    <3> QED BY <2>9, <3>1, <3>2 DEF PassedOne
  <2>15. \A c \in In("writer")' : c \in In("writer") \/ c = d
    <3>1. input["writer"] \in Seq(ChunkType)
      BY <1>4 DEF BuffersTyped
    <3>2. CASE input'["writer"] = Append(input["writer"], d)
      BY <2>8, <3>1, <3>2, AppendElements DEF In
    <3>3. CASE input'["writer"] = input["writer"]
      BY <3>3 DEF In
    <3> QED BY <2>9, <3>2, <3>3 DEF PassedOne
  <2>16. \A c \in In("writer")' : c.n \in 1..Len(passedOn')
    <3>1. \A c \in In("writer") : c.n \in 1..L
      BY <2>1 DEF RecordingInv
    <3> QED BY <2>3, <2>8, <2>15, <3>1
  <2>17. RecordingOrder'
    <3>1. ASSUME NEW f \in 1..L + 1
          PROVE  Ascending(passedOn'[f]) /\ passedOn'[f] # <<>> /\ \A x \in ToSet(passedOn'[f]) : f <= x
      <4>1. CASE f \in 1..L
        BY <2>1, <2>3, <4>1 DEF RecordingInv, RecordingOrder
      <4>2. CASE f = L + 1
        BY <1>8, <2>3, <2>6, <4>2
      <4> QED BY <4>1, <4>2
    <3>2. ASSUME NEW f \in 1..L + 1, NEW g \in 1..L + 1, f < g
          PROVE  Below(ToSet(passedOn'[f]), ToSet(passedOn'[g]))
      <4>1. f \in 1..L /\ passedOn'[f] = passedOn[f]
        BY <2>3, <3>2
      <4>2. CASE g \in 1..L
        BY <2>1, <2>3, <3>2, <4>1, <4>2 DEF RecordingInv, RecordingOrder
      <4>3. CASE g = L + 1
        <5>1. ToSet(passedOn[f]) \subseteq Finished
          BY <2>1, <4>1 DEF Finished
        <5>2. Below(Finished, ToSet(joined))
          BY <1>7, <1>8 DEF Below
        <5> QED BY <2>3, <4>1, <4>3, <5>1, <5>2 DEF Below
      <4> QED BY <4>2, <4>3
    <3>3. Below(Finished', Coming("accumulator")' \cup Coming("wav"))
      <4> SUFFICES ASSUME NEW x \in Finished \cup Joining \cup {n}, NEW y \in Coming("accumulator")' \cup Coming("wav")
                   PROVE  x < y
        BY <1>8, <2>12 DEF Below
      <4>1. y \in Coming("accumulator") \cup Coming("wav") /\ n < y
        BY <1>7, <2>10
      <4>2. CASE x \in Finished \cup Joining
        BY <4>1, <4>2 DEF RecordingInv, RecordingOrder, Below
      <4> QED BY <4>1, <4>2
    <3>4. Ascending(<<>>) /\ <<>> = accumulated'
      BY <2>2 DEF Ascending
    <3>5. Below(Coming("accumulator")', Coming("wav"))
      BY <2>10 DEF RecordingInv, RecordingOrder, Below
    <3>6. Ordered(input'["wav"])
      BY <2>11 DEF RecordingInv, RecordingOrder
    <3>7. Below({}, Coming("accumulator")' \cup Coming("wav"))
      BY DEF Below
    <3>8. Joining' \cup Coming("accumulator")' \cup Coming("wav")' = Coming("accumulator")' \cup Coming("wav")
      BY <2>11
    <3> QED BY <2>3, <2>10, <2>11, <3>1, <3>2, <3>3, <3>4, <3>5, <3>6, <3>7, <3>8 DEF RecordingOrder
  <2> QED BY <1>3, <2>10, <2>11, <2>13, <2>14, <2>16, <2>17 DEF RecordingInv, LostOnWay
<1> QED
  BY <1>3, <1>9, <1>10

-----------------------------------------------------------------------------
(* Every step.                                                             *)

LEMMA WriterKeeps ==
  ASSUME RestTyped, BuffersTyped, RecordingInv, DetectionInv, WriteWAVFile \/ RefuseWAVFile
  PROVE  RecordingInv' /\ DetectionInv'
<1>1. /\ UNCHANGED <<routes, source, detection, accumulated, passedOn>> /\ input["writer"] # <<>>
      /\ input' = [input EXCEPT !["writer"] = Tail(@)]
  BY DEF WriteWAVFile, RefuseWAVFile, Has, Take, recording
<1>2. "writer" \in Modules /\ "wav" \in Modules /\ "accumulator" \in Modules
  BY ModuleNames
<1>3. input'["writer"] = Tail(input["writer"]) /\ OthersKept("writer", "writer")
  BY <1>1, <1>2, TurnWithNone
<1>4. In("writer") = {Head(input["writer"])} \cup ToSet(Tail(input["writer"]))
  BY <1>1, <1>2, HeadOf
<1>5. In("writer")' \subseteq In("writer")
  BY <1>3, <1>4 DEF In
<1>6. lost \subseteq lost' /\ LostOnWay' = LostOnWay
  <2>1. CASE WriteWAVFile
    BY <2>1 DEF WriteWAVFile, Take, LostOnWay, LostBefore
  <2>2. CASE RefuseWAVFile
    <3>1. PICK h : lost' = lost \cup {<<"disk", h>>}
      BY <2>2 DEF RefuseWAVFile
    <3>2. "disk" \notin {"wav", "accumulator"}
      OBVIOUS
    <3> QED BY <3>1, <3>2, LostAtOther
  <2> QED BY <2>1, <2>2
<1>7. input'["wav"] = input["wav"] /\ input'["accumulator"] = input["accumulator"]
  BY <1>2, <1>3 DEF OthersKept
<1>8. \A m \in Stages : input'[m] = input[m]
  BY <1>3, StageNames DEF OthersKept
<1>9. Received \subseteq Received' /\ UNCHANGED <<bins, bare, directions, undefined>> /\ ToSet(routes') = ToSet(routes)
  BY <1>1 DEF Received, detection
<1> QED
  BY <1>1, <1>5, <1>6, <1>7, <1>8, <1>9, RecordingUntouched, DetectionUntouched

(* The steps of the detection leave the recording alone.                   *)
LEMMA DetectionApart ==
  ASSUME RestTyped, BuffersTyped, RecordingInv, DetectionInv,
         \/ \E i \in Instances : Transform(i)
         \/ Process_FFTMagnitudeChunk \/ PassSpectrum
         \/ ProcessDetectionBinChunk \/ PassMonoSpectrum \/ ProcessFFTChunk
  PROVE  RecordingInv'
<1>1. UNCHANGED <<routes, source, accumulated, passedOn>>
  BY DEF Transform, Process_FFTMagnitudeChunk, PassSpectrum, ProcessDetectionBinChunk,
         PassMonoSpectrum, ProcessFFTChunk, recording
<1>2. {"wav", "accumulator", "writer"} \subseteq Modules \ Stages /\ Stages \subseteq Modules
      /\ FFTs \cup {"energy", "direction"} = Stages
  BY StageNames, ModuleNames DEF Stages
<1>3. ASSUME NEW m \in Stages, NEW next \in Stages, m # next, NEW chunks \in Seq(ChunkType),
             input[m] # <<>>, TakeAndPass(m, next, chunks)
      PROVE  (\A o \in Modules \ Stages : input'[o] = input[o]) /\ LostOnWay' = LostOnWay
  <2>1. /\ OthersKept(m, next)
        /\ \E kept : lost' = Lost(next, chunks, kept)
    <3>1. m \in Modules /\ next \in Modules
      BY <1>2
    <3> QED BY <1>3, <3>1, TurnTaken
  <2>2. PICK kept : lost' = lost \cup {<<next, c>> : c \in ToSet(chunks) \ ToSet(kept)}
    BY <2>1 DEF Lost
  <2>3. next \notin {"wav", "accumulator"}
    BY <1>2
  <2>4. \A y \in {<<next, c>> : c \in ToSet(chunks) \ ToSet(kept)} : y[1] \notin {"wav", "accumulator"}
    BY <2>3
  <2>5. LostOnWay' = LostOnWay
    BY <2>2, <2>4, LostElsewhere
  <2> QED BY <2>1, <2>5 DEF OthersKept
<1>4. (\A o \in Modules \ Stages : input'[o] = input[o]) /\ LostOnWay' = LostOnWay
  <2>1. ASSUME NEW i \in Instances, Transform(i)
        PROVE  (\A o \in Modules \ Stages : input'[o] = input[o]) /\ LostOnWay' = LostOnWay
    <3>1. PICK n : n = Head(input[i]).n
      OBVIOUS
    <3>2. i \in Stages /\ "energy" \in Stages /\ i # "energy" /\ input[i] # <<>> /\ TakeAndPass(i, "energy", Spectra(n))
          /\ i \in Modules
      BY <2>1, <3>1, ModuleNames, StageNames DEF Transform, Has, Stages
    <3>3. n \in Numbers
      BY <3>1, <3>2, HeadOf
    <3>4. Chunk("magnitude", n) \in ChunkType /\ Chunk("fft", n) \in ChunkType
      BY <3>3, KindNames, ChunkTyped
    <3>5. Spectra(n) \in Seq(ChunkType)
      BY <3>4 DEF Spectra
    <3> QED BY <1>3, <3>2, <3>5
  <2>2. CASE Process_FFTMagnitudeChunk \/ PassSpectrum
    <3>1. PICK h, d : h = Head(input["energy"]) /\ d = Chunk("detection", h.n)
      OBVIOUS
    <3>2. /\ input["energy"] # <<>>
          /\ TakeAndPass("energy", "direction", <<d>>) \/ TakeAndPass("energy", "direction", <<h>>)
      BY <2>2, <3>1 DEF Process_FFTMagnitudeChunk, PassSpectrum, Has
    <3>3. h \in ChunkType /\ h.n \in Numbers /\ "energy" \in Stages /\ "direction" \in Stages
      BY <3>1, <3>2, HeadOf, StageNames
    <3>4. d \in ChunkType
      BY <3>1, <3>3, KindNames, ChunkTyped
    <3>5. <<d>> \in Seq(ChunkType) /\ <<h>> \in Seq(ChunkType)
      BY <3>3, <3>4
    <3> QED BY <1>3, <3>2, <3>3, <3>5
  <2>3. CASE ProcessDetectionBinChunk \/ PassMonoSpectrum \/ ProcessFFTChunk
    <3>1. /\ input["direction"] # <<>> /\ lost' = lost
          /\ input' = [input EXCEPT !["direction"] = Tail(@)]
      BY <2>3 DEF ProcessDetectionBinChunk, PassMonoSpectrum, ProcessFFTChunk, Has, Take
    <3>2. OthersKept("direction", "direction") /\ "direction" \in Stages
      BY <3>1, StageNames, TurnWithNone
    <3>3. LostOnWay' = LostOnWay
      BY <3>1 DEF LostOnWay, LostBefore
    <3> QED BY <3>2, <3>3 DEF OthersKept
  <2> QED BY <2>1, <2>2, <2>3
<1>5. /\ input'["wav"] = input["wav"] /\ input'["accumulator"] = input["accumulator"]
      /\ In("writer")' \subseteq In("writer")
  BY <1>2, <1>4 DEF In
<1> QED
  BY <1>1, <1>4, <1>5, RecordingUntouched

(* And those of the recording the detection.                               *)
LEMMA RecordingApart ==
  ASSUME RestTyped, BuffersTyped, RecordingInv, DetectionInv, ConvertTimeToWAV \/ AccumulateWAVChunk
  PROVE  DetectionInv'
<1>1. UNCHANGED <<source, bins, bare, directions, undefined>>
  BY DEF ConvertTimeToWAV, AccumulateWAVChunk, detection
<1>2. {"wav", "accumulator", "writer"} \subseteq Modules \ Stages /\ Stages \subseteq Modules
  BY StageNames, ModuleNames DEF Stages
<1>3. ASSUME NEW m \in Modules \ Stages, NEW next \in Modules \ Stages, m # next, NEW c \in ChunkType,
             input[m] # <<>>, TakeAndPass(m, next, <<c>>)
      PROVE  (\A o \in Stages : input'[o] = input[o]) /\ lost \subseteq lost'
  <2>1. OthersKept(m, next) /\ PassedOne(next, c)
    BY <1>3, TurnWithOne
  <2> QED BY <1>2, <2>1 DEF OthersKept, PassedOne
<1>4. (\A o \in Stages : input'[o] = input[o]) /\ lost \subseteq lost'
  <2>1. CASE ConvertTimeToWAV
    <3>1. PICK d : d = Chunk("wav", Head(input["wav"]).n)
      OBVIOUS
    <3>2. input["wav"] # <<>> /\ TakeAndPass("wav", "accumulator", <<d>>)
      BY <2>1, <3>1 DEF ConvertTimeToWAV, Has
    <3>3. d \in ChunkType
      BY <1>2, <3>1, <3>2, HeadOf, ChunkTyped, KindNames
    <3> QED BY <1>2, <1>3, <3>2, <3>3
  <2>2. CASE AccumulateWAVChunk
    <3>1. PICK n : n = Head(input["accumulator"]).n
      OBVIOUS
    <3>2. PICK joined : joined = Append(accumulated, n)
      OBVIOUS
    <3>3. input["accumulator"] # <<>> /\ (PassFile(joined) \/ Take("accumulator"))
      BY <2>2, <3>1, <3>2 DEF AccumulateWAVChunk, Has
    <3>4. CASE Take("accumulator")
      <4>1. OthersKept("accumulator", "accumulator") /\ lost' = lost
        BY <1>2, <3>3, <3>4, TurnWithNone DEF Take
      <4> QED BY <1>2, <4>1 DEF OthersKept
    <3>5. CASE PassFile(joined)
      <4>1. n \in Numbers /\ n \in Coming("accumulator")
        BY <1>2, <3>1, <3>3, HeadOf DEF Coming
      <4>2. Below(Finished, {n})
        BY <4>1 DEF RecordingInv, RecordingOrder, Below
      <4>3. Len(passedOn) + 1 \in Numbers
        BY <4>1, <4>2, RecordingsCounted
      <4>4. accumulated \in Seq(Numbers) /\ passedOn \in Seq(Seq(Numbers))
        BY DEF RestTyped
      <4>5. joined \in Seq(Numbers)
        BY <3>2, <4>1, <4>4, AppendElements
      <4>6. Len(Append(passedOn, joined)) = Len(passedOn) + 1
        BY <4>4, <4>5, AppendProperties
      <4>7. PICK d : d = Chunk("file", Len(passedOn) + 1)
        OBVIOUS
      <4>8. d \in ChunkType
        BY <4>3, <4>7, ChunkTyped, KindNames
      <4>9. TakeAndPass("accumulator", "writer", <<d>>)
        BY <3>5, <4>6, <4>7 DEF PassFile
      <4> QED BY <1>2, <1>3, <3>3, <4>8, <4>9
    <3> QED BY <3>3, <3>4, <3>5
  <2> QED BY <2>1, <2>2
<1> QED
  BY <1>1, <1>4, DetectionUntouched DEF Received

LEMMA PipelinesStep ==
  ASSUME RestTyped, BuffersTyped, Unregistered, RecordingInv, DetectionInv, [Next]_vars
  PROVE  RecordingInv' /\ DetectionInv'
<1>1. CASE UNCHANGED vars \/ SetGenerateMagnitudeData \/ Tick
  <2>1. UNCHANGED <<routes, source, input, bare, bins, directions, undefined, accumulated, passedOn, lost>>
    BY <1>1 DEF vars, SetGenerateMagnitudeData, Tick, detection, recording
  <2>2. In("writer")' = In("writer") /\ LostOnWay' = LostOnWay /\ Received' = Received
    BY <2>1 DEF In, LostOnWay, LostBefore, Received
  <2> QED BY <2>1, <2>2, RecordingUntouched, DetectionUntouched
<1>2. ASSUME NEW i \in Instances, RegisterOutputModule(i) PROVE RecordingInv' /\ DetectionInv'
  <2>1. UNCHANGED <<source, input, bare, bins, directions, undefined, accumulated, passedOn, lost>> /\ source = <<>>
    BY <1>2 DEF RegisterOutputModule, detection, recording
  <2>2. In("writer")' = In("writer") /\ LostOnWay' = LostOnWay /\ Received' = Received /\ Received = {}
    BY <2>1 DEF In, LostOnWay, LostBefore, Received
  <2> QED BY <2>1, <2>2, RecordingUntouched, DetectionUntouched
<1>3. ASSUME NEW s \in Sources, RouteChunk(s) PROVE RecordingInv' /\ DetectionInv'
  BY <1>3, RecordingRoute, DetectionRoute
<1>4. ASSUME NEW i \in Instances, Transform(i) PROVE RecordingInv' /\ DetectionInv'
  BY <1>4, DetectionApart, DetectionTransform
<1>5. CASE Process_FFTMagnitudeChunk \/ PassSpectrum
  BY <1>5, DetectionApart, DetectionEnergy
<1>6. CASE ProcessDetectionBinChunk \/ PassMonoSpectrum \/ ProcessFFTChunk
  BY <1>6, DetectionApart, DetectionBins, DetectionSpectrum
<1>7. CASE ConvertTimeToWAV \/ AccumulateWAVChunk
  BY <1>7, RecordingConvert, RecordingAccumulate, RecordingApart
<1>8. CASE WriteWAVFile \/ RefuseWAVFile
  BY <1>8, WriterKeeps
<1> QED
  BY <1>1, <1>2, <1>3, <1>4, <1>5, <1>6, <1>7, <1>8 DEF Next

Inductive == RestTyped /\ BuffersTyped /\ Unregistered /\ RecordingInv /\ DetectionInv

LEMMA InductiveInit == Init => Inductive
<1> SUFFICES ASSUME Init PROVE Inductive
  OBVIOUS
<1>1. /\ routes = <<>> /\ source = <<>> /\ accumulated = <<>> /\ passedOn = <<>> /\ disk = <<>>
      /\ bins = NoChunk /\ directions = {} /\ bare = {} /\ lost = {} /\ second = 0
      /\ undefined = FALSE /\ magnitude = FALSE
      /\ \A m \in Modules : input[m] = <<>>
      /\ input = [m \in Modules |-> <<>>]
  BY DEF Init
<1>2. RestTyped
  <2>1. \A S : <<>> \in Seq(S)
    BY EmptySeq
  <2>2. Len(<<>>) = 0 /\ DOMAIN <<>> = {} /\ \A i : i \notin 1..0
    OBVIOUS
  <2>3. /\ routes \in Seq(Instances) /\ source \in Seq(Sources)
        /\ accumulated \in Seq(Numbers) /\ passedOn \in Seq(Seq(Numbers))
    BY <1>1, <2>1
  <2>4. Len(routes) = 0 /\ Len(source) = 0 /\ Len(passedOn) = 0 /\ DOMAIN disk = {}
    BY <1>1, <2>2
  <2>5. Len(source) <= MaxInput /\ second \in 0..MaxSecond
    BY <1>1, <2>4, BoundsAssumption
  <2>6. magnitude \in BOOLEAN /\ undefined \in BOOLEAN
    BY <1>1
  <2>7. bins \in {NoChunk} \cup Numbers /\ bare \subseteq Numbers /\ directions \subseteq Numbers \X Numbers
    BY <1>1
  <2>8. \A i, k \in 1..Len(routes) : i # k => TypeName(routes[i]) # TypeName(routes[k])
    BY <2>2, <2>4
  <2>9. \A x \in DOMAIN disk : x[2] \in 0..second /\ disk[x] \in 1..Len(passedOn)
    BY <2>4
  <2> QED BY <2>3, <2>5, <2>6, <2>7, <2>8, <2>9 DEF RestTyped
<1>3. IsFiniteSet({}) /\ Cardinality({}) = 0
  BY FS_EmptySet
<1>4. BuffersTyped
  BY <1>1, <1>3, BoundsAssumption DEF BuffersTyped
<1>5. Unregistered
  BY <1>1, ModuleNames DEF Unregistered
<1>6. \A m \in Modules : In(m) = {} /\ Coming(m) = {} /\ Ordered(input[m])
  BY <1>1, NoElements DEF In, Coming, Ordered
<1>7. Finished = {} /\ Joining = {} /\ Received = {} /\ LostBefore({"wav", "accumulator"}) = {}
  BY <1>1, NoElements DEF Finished, Joining, Received, LostBefore
<1>8. "wav" \in Modules /\ "accumulator" \in Modules /\ "writer" \in Modules /\ Stages \subseteq Modules
  BY ModuleNames, StageNames
<1>9. RecordingInv
  BY <1>1, <1>6, <1>7, <1>8 DEF RecordingInv, RecordingOrder, InLine, Below, Ascending
<1>10. DetectionInv
  <2>1. DetectionOrder /\ Preceded
    BY <1>1, <1>6, <1>8 DEF DetectionOrder, Preceded, Stages
  <2>2. DirectionsMatched
    BY <1>1 DEF DirectionsMatched
  <2> QED BY <2>1, <2>2 DEF DetectionInv
<1> QED
  BY <1>2, <1>4, <1>5, <1>9, <1>10 DEF Inductive

LEMMA InductiveStep == Inductive /\ [Next]_vars => Inductive'
BY TypeStep, UnregisteredStep, PipelinesStep DEF Inductive

(* The state of the server has its type; the router lists no type of       *)
(* module twice, and no file is named that was not passed on.              *)
THEOREM TypeCorrect == Spec => []TypeOK
<1>1. Inductive => TypeOK
  BY TypeParts DEF Inductive
<1> QED
  BY <1>1, InductiveInit, InductiveStep, PTL DEF Spec

(* A direction is that of its own chunk's bins, or of an earlier chunk's   *)
(* after the loss of its own; without a loss no bins are missing.          *)
THEOREM DirectionsAlwaysMatched == Spec => []DirectionsMatched
<1>1. Inductive => DirectionsMatched
  BY DEF Inductive, DetectionInv
<1> QED
  BY <1>1, InductiveInit, InductiveStep, PTL DEF Spec

-----------------------------------------------------------------------------
(* The line of recordings as the property has it.                          *)

LEMMA RecordedProperties ==
  ASSUME BuffersTyped, NEW m \in Modules
  PROVE  /\ Recorded(m) \in Seq(Numbers) /\ Len(Recorded(m)) = Len(input[m])
         /\ \A i \in 1..Len(input[m]) : Recorded(m)[i] = input[m][i].n
         /\ ToSet(Recorded(m)) = Coming(m)
<1>1. input[m] \in Seq(ChunkType) /\ Len(input[m]) \in Nat
  BY LenProperties DEF BuffersTyped
<1>2. \A i \in 1..Len(input[m]) : input[m][i] \in ChunkType /\ input[m][i].n \in Numbers
  <2>1. \A c \in ChunkType : c.n \in Numbers
    BY DEF ChunkType
  <2> QED BY <1>1, <2>1, ElementOfSeq
<1>3. Recorded(m) \in Seq(Numbers) /\ Len(Recorded(m)) = Len(input[m])
  <2>1. Recorded(m) \in [1..Len(input[m]) -> Numbers]
    BY <1>2 DEF Recorded
  <2> QED BY <1>1, <2>1, IsASeq, LenProperties
<1>4. \A i \in 1..Len(input[m]) : Recorded(m)[i] = input[m][i].n
  BY DEF Recorded
<1>5. ToSet(Recorded(m)) = {Recorded(m)[i] : i \in 1..Len(input[m])}
  BY <1>3, Elements
<1>6. In(m) = {input[m][i] : i \in 1..Len(input[m])}
  BY <1>1, Elements DEF In
<1>7. ToSet(Recorded(m)) = Coming(m)
  BY <1>4, <1>5, <1>6 DEF Coming
<1> QED
  BY <1>3, <1>4, <1>7

LEMMA LineParts ==
  ASSUME RestTyped, BuffersTyped, NEW L, L = Len(passedOn)
  PROVE  /\ L \in Nat /\ Len(Line) = L + 3
         /\ \A f \in 1..L : Line[f] = passedOn[f]
         /\ Line[L + 1] = accumulated /\ Line[L + 2] = Recorded("accumulator")
         /\ Line[L + 3] = Recorded("wav")
<1>1. passedOn \in Seq(Seq(Numbers)) /\ L \in Nat
  BY LenProperties DEF RestTyped
<1>2. /\ accumulated \in Seq(Numbers)
      /\ Recorded("accumulator") \in Seq(Numbers) /\ Recorded("wav") \in Seq(Numbers)
  BY RecordedProperties, ModuleNames DEF RestTyped
<1>3. PICK rest : rest = <<accumulated, Recorded("accumulator"), Recorded("wav")>>
  OBVIOUS
<1>4. /\ rest \in Seq(Seq(Numbers)) /\ Len(rest) = 3
      /\ rest[1] = accumulated /\ rest[2] = Recorded("accumulator") /\ rest[3] = Recorded("wav")
  BY <1>2, <1>3
<1>5. Line = passedOn \o rest
  BY <1>3 DEF Line
<1>6. /\ Len(passedOn \o rest) = Len(passedOn) + Len(rest)
      /\ \A i \in 1..Len(passedOn) + Len(rest) :
           (passedOn \o rest)[i] = IF i <= Len(passedOn) THEN passedOn[i] ELSE rest[i - Len(passedOn)]
  BY ONLY <1>1, <1>4, ConcatProperties
<1>7. Len(Line) = L + 3 /\ \A i \in 1..L + 3 : Line[i] = IF i <= L THEN passedOn[i] ELSE rest[i - L]
  BY <1>4, <1>5, <1>6
<1>8. \A f \in 1..L : f \in 1..L + 3 /\ f <= L
  BY <1>1
<1>9. /\ L + 1 \in 1..L + 3 /\ ~(L + 1 <= L) /\ (L + 1) - L = 1
      /\ L + 2 \in 1..L + 3 /\ ~(L + 2 <= L) /\ (L + 2) - L = 2
      /\ L + 3 \in 1..L + 3 /\ ~(L + 3 <= L) /\ (L + 3) - L = 3
  BY <1>1
<1>10. Line[L + 1] = rest[1] /\ Line[L + 2] = rest[2] /\ Line[L + 3] = rest[3]
  BY <1>7, <1>9
<1> QED
  BY <1>1, <1>4, <1>7, <1>8, <1>10

(* Where an index of the line lies.                                        *)
LEMMA LineIndex ==
  ASSUME NEW L \in Nat, NEW f \in 1..L + 3
  PROVE  f \in 1..L \/ f = L + 1 \/ f = L + 2 \/ f = L + 3
OBVIOUS

LEMMA LineElements ==
  ASSUME RestTyped, BuffersTyped
  PROVE  UNION {ToSet(Line[f]) : f \in 1..Len(Line)} = InLine
<1>1. PICK L : L = Len(passedOn)
  OBVIOUS
<1>2. /\ L \in Nat /\ Len(Line) = L + 3
      /\ \A f \in 1..L : Line[f] = passedOn[f]
      /\ Line[L + 1] = accumulated /\ Line[L + 2] = Recorded("accumulator")
      /\ Line[L + 3] = Recorded("wav")
  BY <1>1, LineParts
<1>3. /\ ToSet(Line[L + 1]) = Joining /\ ToSet(Line[L + 2]) = Coming("accumulator")
      /\ ToSet(Line[L + 3]) = Coming("wav")
  BY <1>2, RecordedProperties, ModuleNames DEF Joining
<1>4. L + 1 \in 1..L + 3 /\ L + 2 \in 1..L + 3 /\ L + 3 \in 1..L + 3 /\ 1..L \subseteq 1..L + 3
  BY <1>2
<1>5. ASSUME NEW x PROVE x \in Finished <=> \E f \in 1..L : x \in ToSet(Line[f])
  BY <1>1, <1>2 DEF Finished
<1>6. ASSUME NEW x
      PROVE  x \in InLine <=> \E f \in 1..L + 3 : x \in ToSet(Line[f])
  <2>1. ASSUME x \in InLine PROVE \E f \in 1..L + 3 : x \in ToSet(Line[f])
    <3>1. CASE x \in Finished
      BY <1>4, <1>5, <3>1
    <3>2. CASE x \in Joining \cup Coming("accumulator") \cup Coming("wav")
      BY <1>3, <1>4, <3>2
    <3> QED BY <2>1, <3>1, <3>2 DEF InLine
  <2>2. ASSUME NEW f \in 1..L + 3, x \in ToSet(Line[f]) PROVE x \in InLine
    <3>1. CASE f \in 1..L
      BY <1>5, <2>2, <3>1 DEF InLine
    <3>2. CASE f = L + 1 \/ f = L + 2 \/ f = L + 3
      BY <1>3, <2>2, <3>2 DEF InLine
    <3> QED BY <1>2, <3>1, <3>2, LineIndex
  <2> QED BY <2>1, <2>2
<1> QED
  BY <1>2, <1>6

(* What comes through the buffers of the recording comes in order.         *)
LEMMA RecordedAscending ==
  ASSUME BuffersTyped, NEW m \in Modules, Ordered(input[m]), \A c \in In(m) : c.kind # "fft"
  PROVE  Ascending(Recorded(m))
<1>1. input[m] \in Seq(ChunkType)
  BY DEF BuffersTyped
<1>2. Len(Recorded(m)) = Len(input[m]) /\ \A i \in 1..Len(input[m]) : Recorded(m)[i] = input[m][i].n
  BY RecordedProperties
<1> SUFFICES ASSUME NEW i \in 1..Len(input[m]), NEW k \in 1..Len(input[m]), i < k
             PROVE  Recorded(m)[i] < Recorded(m)[k]
  BY <1>2 DEF Ascending
<1>3. input[m][i] \in In(m) /\ input[m][k] \in In(m) /\ input[m][i] \in ChunkType /\ input[m][k] \in ChunkType
  BY <1>1, Elements, ElementOfSeq DEF In
<1>4. PICK a \in ChunkType, b \in ChunkType : a = input[m][i] /\ b = input[m][k]
  BY <1>3
<1>5. a.kind # "fft" /\ b.kind # "fft" /\ Rank(a) < Rank(b)
  BY <1>3, <1>4 DEF Ordered
<1>6. a.n \in Int /\ b.n \in Int
  BY DEF ChunkType, Numbers
<1>7. 2 * a.n < 2 * b.n
  BY <1>5 DEF Rank
<1> QED
  BY <1>2, <1>4, <1>6, <1>7

LEMMA LineOrder ==
  ASSUME RestTyped, BuffersTyped, RecordingInv
  PROVE  /\ \A f \in 1..Len(Line) : Ascending(Line[f])
         /\ \A f, g \in 1..Len(Line) : f < g => Below(ToSet(Line[f]), ToSet(Line[g]))
<1>1. PICK L : L = Len(passedOn)
  OBVIOUS
<1>2. /\ L \in Nat /\ Len(Line) = L + 3
      /\ \A f \in 1..L : Line[f] = passedOn[f]
      /\ Line[L + 1] = accumulated /\ Line[L + 2] = Recorded("accumulator")
      /\ Line[L + 3] = Recorded("wav")
  BY <1>1, LineParts
<1>3. /\ ToSet(Line[L + 1]) = Joining /\ ToSet(Line[L + 2]) = Coming("accumulator")
      /\ ToSet(Line[L + 3]) = Coming("wav")
  BY <1>2, RecordedProperties, ModuleNames DEF Joining
<1>4. RecordingOrder
  BY DEF RecordingInv
<1>5. Ascending(Line[L + 1]) /\ Ascending(Line[L + 2]) /\ Ascending(Line[L + 3])
  <2>1. Ordered(input["accumulator"]) /\ Ordered(input["wav"]) /\ Ascending(accumulated)
    BY <1>4 DEF RecordingOrder
  <2>2. \A c \in In("wav") \cup In("accumulator") : c.kind # "fft"
    BY DEF RecordingInv
  <2> QED BY <1>2, <2>1, <2>2, RecordedAscending, ModuleNames
<1>6. \A f \in 1..L : Ascending(Line[f])
  BY <1>1, <1>2, <1>4 DEF RecordingOrder
<1>7. ASSUME NEW f \in 1..L + 3 PROVE Ascending(Line[f])
  BY <1>2, <1>5, <1>6, LineIndex
<1>8. ASSUME NEW f \in 1..L PROVE ToSet(Line[f]) \subseteq Finished
  BY <1>1, <1>2 DEF Finished
<1>9. /\ Below(Finished, Joining \cup Coming("accumulator") \cup Coming("wav"))
      /\ Below(Joining, Coming("accumulator") \cup Coming("wav"))
      /\ Below(Coming("accumulator"), Coming("wav"))
  BY <1>4 DEF RecordingOrder
<1>10. ASSUME NEW f \in 1..L + 3, NEW g \in 1..L + 3, f < g
       PROVE  Below(ToSet(Line[f]), ToSet(Line[g]))
  <2>1. CASE f \in 1..L /\ g \in 1..L
    BY <1>1, <1>2, <1>4, <1>10, <2>1 DEF RecordingOrder
  <2>2. CASE f \in 1..L /\ g \notin 1..L
    <3>1. g = L + 1 \/ g = L + 2 \/ g = L + 3
      BY <1>2, <2>2, LineIndex
    <3>2. ToSet(Line[g]) \subseteq Joining \cup Coming("accumulator") \cup Coming("wav")
      BY <1>3, <3>1
    <3> QED BY <1>8, <1>9, <2>2, <3>2 DEF Below
  <2>3. CASE f \notin 1..L
    <3>1. (f = L + 1 /\ (g = L + 2 \/ g = L + 3)) \/ (f = L + 2 /\ g = L + 3)
      BY <1>2, <1>10, <2>3
    <3>2. CASE f = L + 1 /\ (g = L + 2 \/ g = L + 3)
      <4>1. ToSet(Line[f]) = Joining /\ ToSet(Line[g]) \subseteq Coming("accumulator") \cup Coming("wav")
        BY <1>3, <3>2
      <4> QED BY <1>9, <4>1 DEF Below
    <3>3. CASE f = L + 2 /\ g = L + 3
      BY <1>3, <1>9, <3>3
    <3> QED BY <3>1, <3>2, <3>3
  <2> QED BY <2>1, <2>2, <2>3
<1> QED
  BY <1>2, <1>7, <1>10

(* Once the recording is registered, every time chunk it found room for is *)
(* in one recording or on its way to one, in the order they arrived,       *)
(* whatever the period and wherever chunks are dropped.                    *)
THEOREM RecordingsAlwaysComplete == Spec => []RecordingsComplete
<1>1. Inductive => RecordingsComplete
  <2> SUFFICES ASSUME Inductive, "wav" \in ToSet(routes)
               PROVE  /\ UNION {ToSet(Line[f]) : f \in 1..Len(Line)}
                           = (1..Len(source)) \ LostBefore({"wav", "accumulator"})
                      /\ \A f, g \in 1..Len(Line) : \A i \in 1..Len(Line[f]), k \in 1..Len(Line[g]) :
                           f < g \/ (f = g /\ i < k) => Line[f][i] < Line[g][k]
    BY DEF RecordingsComplete
  <2>1. RestTyped /\ BuffersTyped /\ RecordingInv
    BY DEF Inductive
  <2>2. UNION {ToSet(Line[f]) : f \in 1..Len(Line)} = (1..Len(source)) \ LostBefore({"wav", "accumulator"})
    <3>1. /\ InLine \cup LostBefore({"wav", "accumulator"}) \subseteq Received
          /\ InLine \cap LostBefore({"wav", "accumulator"}) = {}
          /\ Received \subseteq InLine \cup LostBefore({"wav", "accumulator"})
      BY <2>1 DEF RecordingInv
    <3>2. InLine = Received \ LostBefore({"wav", "accumulator"})
      BY <3>1
    <3>3. UNION {ToSet(Line[f]) : f \in 1..Len(Line)} = InLine
      BY <2>1, LineElements
    <3> QED BY <3>2, <3>3 DEF Received
  <2>3. ASSUME NEW f \in 1..Len(Line), NEW g \in 1..Len(Line),
               NEW i \in 1..Len(Line[f]), NEW k \in 1..Len(Line[g]), f < g \/ (f = g /\ i < k)
        PROVE  Line[f][i] < Line[g][k]
    <3>1. /\ \A h \in 1..Len(Line) : Ascending(Line[h])
          /\ \A h, j \in 1..Len(Line) : h < j => Below(ToSet(Line[h]), ToSet(Line[j]))
      BY <2>1, LineOrder
    <3>2. CASE f < g
      <4>1. Line[f][i] \in ToSet(Line[f]) /\ Line[g][k] \in ToSet(Line[g])
        BY DEF ToSet
      <4> QED BY <3>1, <3>2, <4>1 DEF Below
    <3>3. CASE f = g /\ i < k
      BY <3>1, <3>3 DEF Ascending
    <3> QED BY <2>3, <3>2, <3>3
  <2> QED BY <2>2, <2>3
<1> QED
  BY <1>1, InductiveInit, InductiveStep, PTL DEF Spec
==============================================================================
