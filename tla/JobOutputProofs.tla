--------------------------- MODULE JobOutputProofs ---------------------------
(***************************************************************************)
(* Theorems about JobOutput, for every set of streams, every ceiling and    *)
(* every size of pipe and chunk.                                            *)
(***************************************************************************)
EXTENDS JobOutput, FiniteSetTheorems, TLAPS

\* A chunk about to be appended was taken from its stream.
ChunksWereTaken ==
    \A s \in Stream : /\ taken[s] \in Nat
                      /\ pump[s].chunk <= taken[s]

\* Only a pump about to append has a chunk.
ChunksOnlyToAppend == \A s \in Stream : pump[s].pc # "append" => pump[s].chunk = 0

\* What a client was answered, what it is being answered and the buffer's text go on from
\* each other.
AnswersBehind ==
    /\ GoesOnFrom(answer.output, Lossy(output))
    /\ reading.begun => /\ GoesOnFrom(answer.output, reading.output)
                        /\ GoesOnFrom(reading.output, Lossy(output))
    /\ answer.status = "Ended" => status = "Ended"

IInv ==
    /\ TypeOK
    /\ taken \in [Stream -> Int]
    /\ ChunksWereTaken
    /\ BoundedOutput
    /\ AnswersBehind
    /\ ChunksOnlyToAppend
    /\ PrefixOfEachStream
    /\ NothingLostBelowCeiling

\* The lossy text of a buffer within the ceiling is one.
LEMMA Decoded ==
  ASSUME NEW b \in Seq(Unit), Len(b) <= MaxOutput
  PROVE  IsText(Lossy(b)) /\ DOMAIN Lossy(b) = Begins(b)
  <1>1. /\ Begins(b) \subseteq 1 .. Len(b) /\ Len(b) \in Nat /\ MaxOutput \in Nat
        /\ Trail \in [Unit -> 0 .. 3]
    BY OutputAssumption DEF Begins
  <1>2. Begins(b) \subseteq 1 .. MaxOutput
    BY <1>1
  <1>3. ASSUME NEW i \in Begins(b)
        PROVE  Lossy(b)[i] \in Seq(Unit)
    <2>1. i \in 1 .. Len(b) /\ b[i] \in Unit /\ Trail[b[i]] \in 0 .. 3
      BY <1>1
    <2>2. CASE IsWhole(b, i)
      <3>1. i + Trail[b[i]] <= Len(b)
        BY <2>2 DEF IsWhole
      <3> DEFINE last == i + Trail[b[i]]
      <3>2. last \in Int /\ last <= Len(b)
        BY <2>1, <3>1
      <3> HIDE DEF last
      <3>3. SubSeq(b, i, last) \in Seq(Unit)
        BY <1>1, <2>1, <3>2
      <3> QED
        BY <2>2, <3>3 DEF Lossy, last
    <2>3. CASE ~IsWhole(b, i)
      BY <2>3 DEF Lossy, Replacement
    <2> QED
      BY <2>2, <2>3
  <1>4. Lossy(b) = [i \in Begins(b) |-> Lossy(b)[i]] /\ DOMAIN Lossy(b) = Begins(b)
    BY DEF Lossy
  <1>5. Lossy(b) \in [Begins(b) -> Seq(Unit)]
    BY <1>3, <1>4
  <1> QED
    BY <1>2, <1>4, <1>5 DEF IsText

LEMMA GoesOnFromItself ==
  ASSUME NEW t
  PROVE  GoesOnFrom(t, t)
  BY DEF GoesOnFrom

LEMMA GoesOnTransitive ==
  ASSUME NEW t, NEW u, NEW v, GoesOnFrom(t, u), GoesOnFrom(u, v)
  PROVE  GoesOnFrom(t, v)
  <1>1. DOMAIN t \subseteq DOMAIN v
    BY DEF GoesOnFrom
  <1>2. \A i \in DOMAIN t, j \in DOMAIN v \ DOMAIN t : i < j
    BY DEF GoesOnFrom
  <1>3. ASSUME NEW i \in DOMAIN t, v[i] # t[i]
        PROVE  t[i] = Replacement /\ \A j \in DOMAIN t : j <= i
    <2>1. i \in DOMAIN u /\ DOMAIN t \subseteq DOMAIN u
      BY DEF GoesOnFrom
    <2>2. CASE u[i] # t[i]
      BY <2>2 DEF GoesOnFrom
    <2>3. CASE u[i] = t[i]
      <3>1. u[i] = Replacement /\ \A j \in DOMAIN u : j <= i
        BY <1>3, <2>1, <2>3 DEF GoesOnFrom
      <3> QED
        BY <2>1, <2>3, <3>1
    <2> QED
      BY <2>2, <2>3
  <1> QED
    BY <1>1, <1>2, <1>3 DEF GoesOnFrom

\* More bytes at the end change no character that was whole, nor a replacement that another
\* character came after.
LEMMA LossyGrows ==
  ASSUME NEW b \in Seq(Unit), NEW t \in Seq(Unit)
  PROVE  GoesOnFrom(Lossy(b), Lossy(b \o t))
  <1> DEFINE c == b \o t
  <1>1. /\ Len(b) \in Nat /\ Len(c) \in Nat /\ Len(b) <= Len(c) /\ c \in Seq(Unit)
        /\ \A i \in 1 .. Len(b) : c[i] = b[i] /\ b[i] \in Unit
        /\ DOMAIN b = 1 .. Len(b) /\ DOMAIN c = 1 .. Len(c)
    OBVIOUS
  <1>2. \A i \in 1 .. Len(b) : Trail[b[i]] \in 0 .. 3
    BY <1>1, OutputAssumption
  <1> HIDE DEF c
  <1>3. \A i \in 1 .. Len(b), j \in 1 .. Len(b) : OneCharacter(c, i, j) <=> OneCharacter(b, i, j)
    <2> SUFFICES ASSUME NEW i \in 1 .. Len(b), NEW j \in 1 .. Len(b)
                 PROVE  OneCharacter(c, i, j) <=> OneCharacter(b, i, j)
      OBVIOUS
    <2>1. \A k \in i + 1 .. j : k \in 1 .. Len(b)
      BY <1>1
    <2> QED
      BY <1>1, <2>1 DEF OneCharacter
  <1>4. \A j \in 1 .. Len(b) : j \in Begins(c) <=> j \in Begins(b)
    <2> SUFFICES ASSUME NEW j \in 1 .. Len(b)
                 PROVE  j \in Begins(c) <=> j \in Begins(b)
      OBVIOUS
    <2>1. \A i \in 1 .. j - 1 : i \in 1 .. Len(b)
      BY <1>1
    <2>2. j \in 1 .. Len(c)
      BY <1>1
    <2> QED
      BY <1>1, <1>3, <2>1, <2>2 DEF Begins
  <1>5. Begins(b) \subseteq 1 .. Len(b) /\ Begins(c) \subseteq 1 .. Len(c)
    BY <1>1 DEF Begins
  <1>6. Begins(b) \subseteq Begins(c)
    BY <1>4, <1>5
  <1>7. \A i \in Begins(b), j \in Begins(c) \ Begins(b) : i < j
    <2> SUFFICES ASSUME NEW i \in Begins(b), NEW j \in Begins(c), j \notin Begins(b)
                 PROVE  i < j
      OBVIOUS
    <2>1. j \notin 1 .. Len(b) /\ j \in 1 .. Len(c) /\ i \in 1 .. Len(b)
      BY <1>4, <1>5
    <2> QED
      BY <1>1, <2>1
  <1>8. ASSUME NEW i \in Begins(b), Lossy(c)[i] # Lossy(b)[i]
        PROVE  Lossy(b)[i] = Replacement /\ \A j \in Begins(b) : j <= i
    <2> DEFINE n == Trail[b[i]]
    <2>1. i \in 1 .. Len(b) /\ n \in 0 .. 3 /\ c[i] = b[i]
      BY <1>1, <1>2, <1>5
    <2>2. /\ Lossy(b)[i] = IF IsWhole(b, i) THEN SubSeq(b, i, i + n) ELSE Replacement
          /\ Lossy(c)[i] = IF IsWhole(c, i) THEN SubSeq(c, i, i + n) ELSE Replacement
      BY <1>6, <2>1 DEF Lossy
    <2>3. /\ IsWhole(b, i) <=> i + n <= Len(b) /\ OneCharacter(b, i, i + n)
          /\ IsWhole(c, i) <=> i + n <= Len(c) /\ OneCharacter(c, i, i + n)
      BY <2>1 DEF IsWhole
    <2> HIDE DEF n
    <2>4. CASE i + n <= Len(b)
      <3>1. i + n \in 1 .. Len(b) /\ i + n <= Len(c)
        BY <1>1, <2>1, <2>4
      <3>2. IsWhole(c, i) <=> IsWhole(b, i)
        BY <1>3, <2>1, <2>3, <2>4, <3>1
      <3>3. SubSeq(c, i, i + n) = SubSeq(b, i, i + n)
        <4> DEFINE m == i + n
        <4>1. m \in 1 .. Len(b) /\ m <= Len(c)
          BY <3>1
        <4> HIDE DEF m
        <4>2. SubSeq(b, i, m) = [k \in 1 .. m - i + 1 |-> b[i + k - 1]]
          BY <1>1, <2>1, <4>1
        <4>3. SubSeq(c, i, m) = [k \in 1 .. m - i + 1 |-> c[i + k - 1]]
          BY <1>1, <2>1, <4>1
        <4>4. \A k \in 1 .. m - i + 1 : c[i + k - 1] = b[i + k - 1]
          BY <1>1, <2>1, <4>1
        <4> QED
          BY <4>2, <4>3, <4>4 DEF m
      <3>4. CASE IsWhole(b, i)
        <4>1. Lossy(b)[i] = SubSeq(b, i, i + n) /\ Lossy(c)[i] = SubSeq(c, i, i + n)
          BY <2>2, <3>2, <3>4
        <4> QED
          BY <1>8, <3>3, <4>1
      <3>5. CASE ~IsWhole(b, i)
        BY <1>8, <2>2, <3>2, <3>5
      <3> QED
        BY <3>4, <3>5
    <2>5. CASE i + n > Len(b)
      <3>1. ~IsWhole(b, i) /\ Lossy(b)[i] = Replacement
        BY <1>1, <2>1, <2>2, <2>3, <2>5
      <3>2. IsWhole(c, i)
        BY <1>8, <2>2, <3>1
      <3>3. OneCharacter(c, i, i + n)
        BY <2>3, <3>2
      <3>4. ASSUME NEW j \in Begins(b), j > i
            PROVE  FALSE
        <4>1. j \in 1 .. Len(b) /\ i \in 1 .. j - 1
          BY <1>5, <2>1, <3>4
        <4>2. j <= i + n
          BY <1>1, <2>1, <2>5, <4>1
        <4>3. OneCharacter(c, i, j)
          <5>1. \A k \in i + 1 .. j : k \in i + 1 .. i + n
            BY <2>1, <4>1, <4>2
          <5> QED
            BY <2>1, <3>3, <4>2, <5>1 DEF OneCharacter, n
        <4>4. OneCharacter(b, i, j)
          BY <1>3, <2>1, <4>1, <4>3
        <4> QED
          BY <4>1, <4>4 DEF Begins
      <3> QED
        BY <1>5, <2>1, <3>1, <3>4
    <2> QED
      BY <1>1, <2>1, <2>4, <2>5
  <1>9. DOMAIN Lossy(b) = Begins(b) /\ DOMAIN Lossy(c) = Begins(c)
    BY DEF Lossy
  <1>10. GoesOnFrom(Lossy(b), Lossy(c))
    BY <1>6, <1>7, <1>8, <1>9 DEF GoesOnFrom
  <1> QED
    BY <1>10 DEF c

\* The buffer only grows at its end, and an end once recorded stays: what clients were
\* answered stays behind.
LEMMA StaysBehind ==
  ASSUME IInv, UNCHANGED pollVars,
         output' = output \/ (\E t \in Seq(Unit) : output' = output \o t),
         status = "Ended" => status' = "Ended"
  PROVE  AnswersBehind'
  <1>1. output \in Seq(Unit) /\ AnswersBehind
    BY DEF IInv, TypeOK
  <1>2. GoesOnFrom(Lossy(output), Lossy(output)')
    <2>1. CASE output' = output
      <3>1. Lossy(output)' = Lossy(output)
        BY <2>1 DEF Lossy, Begins, IsWhole, OneCharacter
      <3> QED
        BY <3>1, GoesOnFromItself
    <2>2. ASSUME NEW t \in Seq(Unit), output' = output \o t
          PROVE  <1>2
      <3>1. Lossy(output)' = Lossy(output \o t)
        BY <2>2 DEF Lossy, Begins, IsWhole, OneCharacter
      <3> QED
        BY <1>1, <3>1, LossyGrows
    <2> QED
      BY <2>1, <2>2
  <1>3. answer' = answer /\ reading' = reading
    BY DEF pollVars
  <1>4. GoesOnFrom(answer.output, Lossy(output)')
    BY <1>1, <1>2, GoesOnTransitive DEF AnswersBehind
  <1>5. reading.begun => GoesOnFrom(reading.output, Lossy(output)')
    BY <1>1, <1>2, GoesOnTransitive DEF AnswersBehind
  <1>6. /\ reading.begun => GoesOnFrom(answer.output, reading.output)
        /\ answer.status = "Ended" => status' = "Ended"
    BY <1>1 DEF AnswersBehind
  <1> QED
    BY <1>3, <1>4, <1>5, <1>6 DEF AnswersBehind

LEMMA PumpFields ==
  ASSUME NEW p \in Pumping
  PROVE  /\ p.pc \in {"read", "append", "ended"}
         /\ p.chunk \in 0 .. ChunkCap
         /\ [p EXCEPT !.pc = "ended"] \in Pumping
         /\ [p EXCEPT !.pc = "ended"].chunk = p.chunk
  BY DEF Pumping

LEMMA Bounds ==
  ASSUME IInv, NEW s \in Stream
  PROVE  /\ written[s] \in 0 .. MaxWritten
         /\ taken[s] \in Nat
         /\ taken[s] <= written[s]
         /\ pump[s] \in Pumping
         /\ pump[s].chunk \in 0 .. ChunkCap
         /\ pump[s].chunk <= taken[s]
         /\ MaxOutput \in Nat /\ PipeCap \in Nat /\ ChunkCap \in Nat /\ MaxWritten \in Nat
         /\ 1 <= PipeCap
  <1>1. MaxOutput \in Nat /\ PipeCap \in Nat /\ ChunkCap \in Nat /\ MaxWritten \in Nat
        /\ PipeCap # 0
    BY OutputAssumption
  <1>2. /\ written[s] \in 0 .. MaxWritten /\ taken[s] \in Nat
        /\ written[s] - taken[s] \in 0 .. PipeCap
        /\ pump[s] \in Pumping /\ pump[s].chunk <= taken[s]
    BY DEF IInv, TypeOK, ChunksWereTaken, InPipe
  <1>3. taken[s] <= written[s]
    BY <1>1, <1>2
  <1>4. pump[s].chunk \in 0 .. ChunkCap
    BY <1>2, PumpFields
  <1> QED
    BY <1>1, <1>2, <1>3, <1>4

\* What is kept of a chunk is made of units of its stream, and fits in the room left.
LEMMA KeptFits ==
  ASSUME IInv, NEW s \in Stream, Len(output) < MaxOutput
  PROVE  /\ Kept(s) \in Seq(Unit)
         /\ Len(Kept(s)) <= Room
  <1> DEFINE n == pump[s].chunk
             k == IF n < Room THEN n ELSE Room
             chunk == [i \in 1 .. n |-> <<s, taken[s] - n + i>>]
  <1>1. /\ n \in Nat /\ n <= taken[s] /\ taken[s] \in Nat /\ taken[s] <= MaxWritten
        /\ MaxWritten \in Nat
    BY Bounds
  <1>2. Room \in Nat /\ k \in 0 .. n /\ k <= Room
    BY <1>1, OutputAssumption DEF IInv, TypeOK, Room
  <1>3. \A i \in 1 .. n : <<s, taken[s] - n + i>> \in Unit
    BY <1>1 DEF Unit
  <1>4. chunk \in Seq(Unit) /\ Len(chunk) = n
    BY <1>1, <1>3
  <1>5. Kept(s) = SubSeq(chunk, 1, k)
    BY DEF Kept, Fitting, Chunk
  <1> HIDE DEF chunk, k
  <1>6. SubSeq(chunk, 1, k) \in Seq(Unit) /\ Len(SubSeq(chunk, 1, k)) = k
    BY <1>1, <1>2, <1>4
  <1> QED
    BY <1>2, <1>5, <1>6

\* How many of the units kept are of a stream, when units of one stream are appended.
CountIn(seq, s, i) == Cardinality({k \in 1 .. i : seq[k][1] = s})

LEMMA CountOfPart ==
  ASSUME NEW q \in Seq(Unit), NEW t \in Seq(Unit), NEW s, NEW i \in 0 .. Len(q)
  PROVE  CountIn(q \o t, s, i) = CountIn(q, s, i)
  <1>1. \A k \in 1 .. i : (q \o t)[k] = q[k]
    OBVIOUS
  <1>2. {k \in 1 .. i : (q \o t)[k][1] = s} = {k \in 1 .. i : q[k][1] = s}
    BY <1>1
  <1> QED
    BY <1>2 DEF CountIn

LEMMA CountIsNat ==
  ASSUME NEW q \in Seq(Unit), NEW s, NEW i \in Nat
  PROVE  /\ IsFiniteSet({k \in 1 .. i : q[k][1] = s})
         /\ CountIn(q, s, i) \in Nat
  <1>1. IsFiniteSet(1 .. i)
    BY FS_Interval
  <1>2. {k \in 1 .. i : q[k][1] = s} \in SUBSET (1 .. i)
    OBVIOUS
  <1>3. IsFiniteSet({k \in 1 .. i : q[k][1] = s})
    BY <1>1, <1>2, FS_Subset
  <1> QED
    BY <1>3, FS_CardinalityType DEF CountIn

LEMMA CountOfOwn ==
  ASSUME NEW q \in Seq(Unit), NEW t \in Seq(Unit), NEW s,
         \A j \in 1 .. Len(t) : t[j][1] = s, NEW i \in 0 .. Len(t)
  PROVE  CountIn(q \o t, s, Len(q) + i) = CountIn(q, s, Len(q)) + i
  <1> DEFINE n == Len(q)
             Old == {k \in 1 .. n : q[k][1] = s}
             Added == (n + 1) .. (n + i)
             All == {k \in 1 .. (n + i) : (q \o t)[k][1] = s}
  <1>1. n \in Nat /\ i \in Nat /\ i <= Len(t)
    OBVIOUS
  <1>2. \A k \in 1 .. n : (q \o t)[k] = q[k]
    OBVIOUS
  <1>3. \A k \in Added : (q \o t)[k] = t[k - n] /\ k - n \in 1 .. Len(t)
    BY <1>1
  <1>4. All = Old \cup Added
    <2>1. \A k \in 1 .. (n + i) : k \in 1 .. n \/ k \in Added
      BY <1>1
    <2>2. \A k \in Added : k \in 1 .. (n + i) /\ (q \o t)[k][1] = s
      BY <1>1, <1>3
    <2>3. \A k \in 1 .. n : k \in 1 .. (n + i)
      BY <1>1
    <2> QED
      BY <1>2, <2>1, <2>2, <2>3
  <1>5. Old \cap Added = {}
    BY <1>1
  <1>6. IsFiniteSet(Old) /\ Cardinality(Old) \in Nat /\ Cardinality(Old) = CountIn(q, s, n)
    BY <1>1, CountIsNat DEF CountIn
  <1>7. IsFiniteSet(Added) /\ Cardinality(Added) = i
    <2>1. n + 1 \in Int /\ n + i \in Int
      BY <1>1
    <2>2. /\ IsFiniteSet(Added)
          /\ Cardinality(Added) = IF n + 1 > n + i THEN 0 ELSE (n + i) - (n + 1) + 1
      BY <2>1, FS_Interval
    <2> QED
      BY <1>1, <2>2
  <1>8. CountIn(q \o t, s, n + i) = Cardinality(All)
    BY DEF CountIn
  <1> HIDE DEF Old, Added, All
  <1>9. Cardinality(Old \cup Added) = Cardinality(Old) + Cardinality(Added) - Cardinality({})
    BY <1>5, <1>6, <1>7, FS_Union
  <1>10. Cardinality({}) = 0
    BY FS_EmptySet
  <1>11. Cardinality(All) = CountIn(q, s, n) + i
    BY <1>1, <1>4, <1>6, <1>7, <1>9, <1>10
  <1> QED
    BY <1>8, <1>11

LEMMA CountOfOther ==
  ASSUME NEW q \in Seq(Unit), NEW t \in Seq(Unit),
         NEW s \in Stream, NEW u \in Stream \ {s},
         \A j \in 1 .. Len(t) : t[j][1] = s
  PROVE  CountIn(q \o t, u, Len(q \o t)) = CountIn(q, u, Len(q))
  <1> DEFINE n == Len(q)
  <1>1. n \in Nat /\ Len(t) \in Nat /\ Len(q \o t) = n + Len(t)
    OBVIOUS
  <1>2. \A k \in 1 .. n : (q \o t)[k] = q[k]
    OBVIOUS
  <1>3. \A k \in (n + 1) .. (n + Len(t)) : (q \o t)[k][1] = s
    <2>1. \A k \in (n + 1) .. (n + Len(t)) : (q \o t)[k] = t[k - n] /\ k - n \in 1 .. Len(t)
      BY <1>1
    <2> QED
      BY <2>1
  <1>4. \A k \in 1 .. (n + Len(t)) : k \in 1 .. n \/ k \in (n + 1) .. (n + Len(t))
    BY <1>1
  <1>5. \A k \in 1 .. n : k \in 1 .. (n + Len(t))
    BY <1>1
  <1>6. {k \in 1 .. (n + Len(t)) : (q \o t)[k][1] = u} = {k \in 1 .. n : q[k][1] = u}
    BY <1>2, <1>3, <1>4, <1>5
  <1> QED
    BY <1>1, <1>6 DEF CountIn

\* Where nothing is read or appended, what is kept is still the beginning of each stream.
LEMMA SameKept ==
  ASSUME IInv, output' = output, taken' = taken,
         \A s \in Stream : pump'[s].chunk = pump[s].chunk
  PROVE  PrefixOfEachStream' /\ NothingLostBelowCeiling'
  <1>1. \A s, i : Count(s, i)' = Count(s, i)
    BY DEF Count
  <1> QED
    BY <1>1 DEF IInv, PrefixOfEachStream, NothingLostBelowCeiling

LEMMA InitInv == Init => IInv
  <1> SUFFICES ASSUME Init PROVE IInv
    OBVIOUS
  <1>1. /\ MaxOutput \in Nat /\ 0 \in 0 .. MaxWritten /\ 0 \in 0 .. PipeCap
        /\ 0 \in 0 .. ChunkCap /\ 0 - 0 = 0
    BY OutputAssumption
  <1>2. [pc |-> "read", chunk |-> 0] \in Pumping
    BY <1>1 DEF Pumping
  <1>3. output = <<>> /\ Len(output) = 0 /\ output \in Seq(Unit)
    BY DEF Init
  <1>4. \A s \in Stream : written[s] = 0 /\ taken[s] = 0 /\ pump[s].chunk = 0
    BY DEF Init
  <1>5. ChunksWereTaken /\ BoundedOutput /\ taken \in [Stream -> Int]
    BY <1>1, <1>3, <1>4 DEF Init, ChunksWereTaken, BoundedOutput
  <1>6. \A s \in Stream : InPipe(s) \in 0 .. PipeCap
    BY <1>1, <1>4 DEF InPipe
  <1>7. /\ reading.begun = FALSE /\ reading.output = <<>>
        /\ answer.output = <<>> /\ answer.status = "Running"
    BY DEF Init, NotReading
  <1>8. AnswersBehind
    <2>1. DOMAIN answer.output = {}
      BY <1>7
    <2>2. GoesOnFrom(answer.output, Lossy(output))
      BY <2>1 DEF GoesOnFrom
    <2> QED
      BY <1>7, <2>2 DEF AnswersBehind
  <1>9. /\ DOMAIN reading = {"begun", "output"} /\ DOMAIN answer = {"output", "status"}
        /\ reading.begun \in BOOLEAN /\ IsText(reading.output)
        /\ IsText(answer.output) /\ answer.status \in {"Running", "Ended"}
    <2>1. IsText(<<>>)
      BY DEF IsText
    <2> QED
      BY <1>7, <2>1 DEF Init, NotReading
  <1>10. ChunksOnlyToAppend /\ PrefixOfEachStream
    BY <1>3, <1>4 DEF ChunksOnlyToAppend, PrefixOfEachStream
  <1>11. NothingLostBelowCeiling
    <2>1. \A s : {k \in 1 .. Len(output) : output[k][1] = s} = {}
      BY <1>3
    <2>2. \A s : Count(s, Len(output)) = 0
      BY <2>1, FS_EmptySet DEF Count
    <2> QED
      BY <1>4, <2>2 DEF NothingLostBelowCeiling
  <1> QED
    BY <1>1, <1>2, <1>3, <1>5, <1>6, <1>8, <1>9, <1>10, <1>11 DEF Init, IInv, TypeOK

\* The command touches nothing but the pipes and itself.
LEMMA CommandStep ==
  ASSUME IInv, Command \/ SetsStatus \/ UNCHANGED vars
  PROVE  IInv'
  <1>1. taken' = taken /\ pump' = pump /\ output' = output /\ UNCHANGED pollVars
    BY DEF Command, SetsStatus, vars, pollVars, Write, LeaderForks, LeaderExits, BroodExits
  <1>2. leader' \in {"running", "over"} /\ brood' \in BOOLEAN /\ status' \in {"Running", "Ended"}
    BY DEF IInv, TypeOK, Command, SetsStatus, vars, Write, LeaderForks, LeaderExits, BroodExits
  <1>3. /\ written' \in [Stream -> 0 .. MaxWritten]
        /\ \A s \in Stream : written'[s] - taken[s] \in 0 .. PipeCap
    <2>1. CASE written' = written
      BY <2>1 DEF IInv, TypeOK, InPipe
    <2>2. ASSUME NEW s \in Stream, Write(s) PROVE <1>3
      <3>1. /\ written' = [written EXCEPT ![s] = written[s] + 1]
            /\ written[s] < MaxWritten /\ written[s] - taken[s] < PipeCap
        BY <2>2 DEF Write, InPipe
      <3>2. /\ written' \in [Stream -> 0 .. MaxWritten]
            /\ written'[s] = written[s] + 1
            /\ \A u \in Stream \ {s} : written'[u] = written[u]
        <4>1. written \in [Stream -> 0 .. MaxWritten]
          BY DEF IInv, TypeOK
        <4>2. written[s] + 1 \in 0 .. MaxWritten
          BY <3>1, <4>1, Bounds
        <4> QED
          BY <3>1, <4>1, <4>2
      <3>3. written'[s] - taken[s] \in 0 .. PipeCap
        BY <3>1, <3>2, Bounds
      <3> QED
        BY <3>2, <3>3 DEF IInv, TypeOK, InPipe
    <2> QED
      BY <2>1, <2>2 DEF Command, SetsStatus, vars, LeaderForks, LeaderExits, BroodExits
  <1>4. status = "Ended" => status' = "Ended"
    BY DEF Command, SetsStatus, vars, Write, LeaderForks, LeaderExits, BroodExits
  <1>5. AnswersBehind'
    BY <1>1, <1>4, StaysBehind
  <1>6. PrefixOfEachStream' /\ NothingLostBelowCeiling' /\ ChunksOnlyToAppend'
    BY <1>1, SameKept DEF IInv, ChunksOnlyToAppend
  <1> QED
    BY <1>1, <1>2, <1>3, <1>5, <1>6
    DEF IInv, TypeOK, ChunksWereTaken, BoundedOutput, InPipe, pollVars

LEMMA ReadStep ==
  ASSUME IInv, NEW s \in Stream, Read(s)
  PROVE  IInv'
  <1>1. PICK n \in 1 .. ChunkCap :
           /\ n <= written[s] - taken[s]
           /\ taken' = [taken EXCEPT ![s] = taken[s] + n]
           /\ pump' = [pump EXCEPT ![s] = [pc |-> "append", chunk |-> n]]
    BY DEF Read, InPipe
  <1>2. UNCHANGED <<written, output, leader, brood, status, pollVars>>
    BY DEF Read
  <1>3. [pc |-> "append", chunk |-> n] \in Pumping
    BY <1>1, Bounds DEF Pumping
  <1>4. /\ taken'[s] = taken[s] + n /\ pump'[s].chunk = n
        /\ \A u \in Stream \ {s} : taken'[u] = taken[u] /\ pump'[u] = pump[u]
    BY <1>1 DEF IInv, TypeOK
  <1>5. taken' \in [Stream -> Int] /\ pump' \in [Stream -> Pumping]
    BY <1>1, <1>3, Bounds DEF IInv, TypeOK
  <1>6. /\ written[s] - taken'[s] \in 0 .. PipeCap
        /\ taken'[s] \in Nat /\ n <= taken'[s]
    <2>1. /\ n \in Nat /\ taken[s] \in Nat /\ written[s] \in Nat /\ PipeCap \in Nat
          /\ written[s] - taken[s] \in 0 .. PipeCap
      BY <1>1, Bounds DEF IInv, TypeOK, InPipe
    <2> QED
      BY <2>1, <1>1, <1>4
  <1>7. \A u \in Stream : /\ written[u] - taken'[u] \in 0 .. PipeCap
                          /\ taken'[u] \in Nat /\ pump'[u].chunk <= taken'[u]
    BY <1>4, <1>6, Bounds DEF IInv, TypeOK, InPipe
  <1>8. AnswersBehind'
    BY <1>2, StaysBehind
  <1>9. /\ pump[s].chunk = 0 /\ pump'[s].pc = "append"
        /\ \A u \in Stream \ {s} : pump'[u] = pump[u]
    BY <1>1 DEF Read, IInv, TypeOK, ChunksOnlyToAppend
  <1>10. ChunksOnlyToAppend'
    BY <1>9 DEF IInv, ChunksOnlyToAppend
  <1>11. PrefixOfEachStream' /\ NothingLostBelowCeiling'
    <2>1. \A u, i : Count(u, i)' = Count(u, i)
      BY <1>2 DEF Count
    <2>2. PrefixOfEachStream'
      BY <2>1, <1>2 DEF IInv, PrefixOfEachStream
    <2>3. ASSUME Len(output) < MaxOutput, NEW u \in Stream
          PROVE  Count(u, Len(output)) + pump'[u].chunk = taken'[u]
      <3>1. Count(u, Len(output)) + pump[u].chunk = taken[u]
        BY <2>3 DEF IInv, NothingLostBelowCeiling
      <3>2. CASE u = s
        <4>1. Count(s, Len(output)) \in Nat
          <5>1. output \in Seq(Unit) /\ Len(output) \in Nat
            BY DEF IInv, TypeOK, Unit
          <5> QED
            BY <5>1, CountIsNat DEF Count, CountIn
        <4>2. n \in Nat /\ taken[s] \in Nat
          BY <1>1, Bounds
        <4>3. Count(s, Len(output)) + 0 = taken[s]
          BY <3>1, <3>2, <1>9
        <4> QED
          BY <3>2, <4>1, <4>2, <4>3, <1>4
      <3>3. CASE u # s
        BY <3>1, <3>3, <1>4
      <3> QED
        BY <3>2, <3>3
    <2> QED
      BY <2>1, <2>2, <2>3, <1>2 DEF NothingLostBelowCeiling
  <1> QED
    BY <1>2, <1>5, <1>7, <1>8, <1>10, <1>11
    DEF IInv, TypeOK, ChunksWereTaken, BoundedOutput, InPipe, pollVars

LEMMA EofStep ==
  ASSUME IInv, NEW s \in Stream, Eof(s)
  PROVE  IInv'
  <1>1. pump' = [pump EXCEPT ![s] = [pump[s] EXCEPT !.pc = "ended"]]
    BY DEF Eof
  <1>2. UNCHANGED <<written, taken, output, leader, brood, status, pollVars>>
    BY DEF Eof
  <1>3. pump' \in [Stream -> Pumping] /\ \A u \in Stream : pump'[u].chunk = pump[u].chunk
    BY <1>1, PumpFields DEF IInv, TypeOK
  <1>4. AnswersBehind'
    BY <1>2, StaysBehind
  <1>5. PrefixOfEachStream' /\ NothingLostBelowCeiling'
    BY <1>2, <1>3, SameKept
  <1>6. ChunksOnlyToAppend'
    <2>1. pump[s].pc = "read"
      BY DEF Eof
    <2>2. \A u \in Stream \ {s} : pump'[u] = pump[u]
      BY <1>1 DEF IInv, TypeOK
    <2> QED
      BY <1>3, <2>1, <2>2 DEF IInv, ChunksOnlyToAppend
  <1> QED
    BY <1>2, <1>3, <1>4, <1>5, <1>6
    DEF IInv, TypeOK, ChunksWereTaken, BoundedOutput, InPipe, pollVars

\* The units kept of a chunk carry on from where their stream stood; what is left of the
\* chunk is lost only when the buffer is full.
LEMMA AppendedKept ==
  ASSUME IInv, NEW s \in Stream, pump[s].pc = "append", Len(output) < MaxOutput,
         output' = output \o Kept(s), taken' = taken, pump'[s].chunk = 0,
         \A u \in Stream \ {s} : pump'[u] = pump[u]
  PROVE  PrefixOfEachStream' /\ NothingLostBelowCeiling'
  <1> DEFINE n == pump[s].chunk
             c == taken[s] - n
             k == IF n < Room THEN n ELSE Room
             chunk == [i \in 1 .. n |-> <<s, c + i>>]
             t == Kept(s)
  <1>1. /\ n \in Nat /\ n <= taken[s] /\ taken[s] \in Nat /\ MaxOutput \in Nat
        /\ output \in Seq(Unit) /\ Len(output) \in Nat
    BY Bounds DEF IInv, TypeOK, Unit
  <1>2. Room \in Nat /\ Room = MaxOutput - Len(output) /\ k \in 0 .. n /\ k <= Room /\ c \in Nat
    BY <1>1 DEF Room
  <1>3. t = SubSeq(chunk, 1, k)
    BY DEF Kept, Fitting, Chunk
  <1>4. t \in Seq(Unit)
    BY KeptFits
  <1>5. Len(t) = k /\ \A i \in 1 .. k : t[i] = <<s, c + i>>
    <2>a. c \in Nat /\ n \in Nat
      BY <1>1, <1>2
    <2> HIDE DEF c, n
    <2>b. \A i \in 1 .. n : <<s, c + i>> \in Stream \X Nat
      BY <2>a
    <2>1. chunk \in Seq(Stream \X Nat) /\ Len(chunk) = n /\ \A i \in 1 .. n : chunk[i] = <<s, c + i>>
      <3>1. chunk \in [1 .. n -> Stream \X Nat]
        BY <2>b
      <3>2. chunk \in Seq(Stream \X Nat)
        BY <2>a, <3>1
      <3>3. Len(chunk) = n
        BY <2>a, <3>2
      <3> QED
        BY <3>2, <3>3
    <2> HIDE DEF chunk
    <2>2. Len(SubSeq(chunk, 1, k)) = k /\ \A i \in 1 .. k : SubSeq(chunk, 1, k)[i] = chunk[i]
      BY <1>1, <1>2, <2>1
    <2> HIDE DEF k, c
    <2> QED
      BY <1>2, <1>3, <2>1, <2>2
  <1>6. \A i \in 1 .. Len(t) : t[i][1] = s /\ t[i][2] = c + i
    BY <1>5
  <1>7. CountIn(output, s, Len(output)) = c
    <2>1. CountIn(output, s, Len(output)) + n = taken[s]
      BY DEF IInv, NothingLostBelowCeiling, Count, CountIn
    <2>2. CountIn(output, s, Len(output)) \in Nat
      BY <1>1, CountIsNat
    <2> QED
      BY <1>1, <2>1, <2>2
  <1> HIDE DEF t, k, c, chunk
  <1>8. /\ output' = output \o t /\ Len(output') = Len(output) + k
        /\ k \in Nat
    BY <1>1, <1>2, <1>4, <1>5 DEF t
  <1>9. PrefixOfEachStream'
    <2>1. SUFFICES ASSUME NEW i \in 1 .. Len(output')
                   PROVE  output'[i][2] = CountIn(output', output'[i][1], i)
      BY DEF PrefixOfEachStream, Count, CountIn
    <2>2. CASE i <= Len(output)
      <3>1. i \in 1 .. Len(output) /\ i \in 0 .. Len(output)
        BY <1>1, <1>8, <2>2
      <3>2. output'[i] = output[i]
        BY <1>1, <1>4, <1>8, <3>1
      <3>3. output[i][2] = CountIn(output, output[i][1], i)
        BY <3>1 DEF IInv, PrefixOfEachStream, Count, CountIn
      <3>4. CountIn(output \o t, output[i][1], i) = CountIn(output, output[i][1], i)
        BY <1>1, <1>4, <3>1, CountOfPart
      <3> QED
        BY <1>8, <3>2, <3>3, <3>4
    <2>3. CASE i > Len(output)
      <3> DEFINE j == i - Len(output)
      <3>1. j \in 1 .. Len(t) /\ j \in 0 .. Len(t) /\ i = Len(output) + j /\ i \in Nat
        BY <1>1, <1>5, <1>8, <2>3
      <3>2. output'[i] = t[j]
        BY <1>1, <1>4, <1>8, <3>1
      <3> HIDE DEF j
      <3>3. output'[i][1] = s /\ output'[i][2] = c + j
        BY <1>6, <3>1, <3>2
      <3>4. CountIn(output \o t, s, Len(output) + j) = CountIn(output, s, Len(output)) + j
        <4>1. output \in Seq(Unit) /\ t \in Seq(Unit) /\ j \in 0 .. Len(t)
          BY <1>1, <1>4, <3>1
        <4>2. \A l \in 1 .. Len(t) : t[l][1] = s
          BY <1>6
        <4> QED
          BY <4>1, <4>2, CountOfOwn
      <3> QED
        BY <1>7, <1>8, <3>1, <3>3, <3>4
    <2> QED
      BY <1>1, <1>8, <2>2, <2>3
  <1>10. NothingLostBelowCeiling'
    <2>1. SUFFICES ASSUME Len(output') < MaxOutput, NEW u \in Stream
                   PROVE  CountIn(output', u, Len(output')) + pump'[u].chunk = taken[u]
      BY DEF NothingLostBelowCeiling, Count, CountIn
    <2>2. CASE u = s
      <3>1. k = n
        BY <1>1, <1>2, <1>8, <2>1 DEF k
      <3>2. n \in 0 .. Len(t) /\ Len(t) = n
        BY <1>1, <1>5, <3>1
      <3>3. CountIn(output \o t, s, Len(output) + n) = CountIn(output, s, Len(output)) + n
        <4>1. output \in Seq(Unit) /\ t \in Seq(Unit) /\ n \in 0 .. Len(t)
          BY <1>1, <1>4, <3>2
        <4>2. \A j \in 1 .. Len(t) : t[j][1] = s
          BY <1>6
        <4> HIDE DEF n
        <4> QED
          BY <4>1, <4>2, CountOfOwn
      <3>4. c + n + 0 = taken[s]
        BY <1>1 DEF c
      <3> QED
        BY <1>7, <1>8, <2>2, <3>1, <3>3, <3>4
    <2>3. CASE u # s
      <3>0. \A i \in 1 .. Len(t) : t[i][1] = s
        BY <1>6
      <3>1. CountIn(output \o t, u, Len(output \o t)) = CountIn(output, u, Len(output))
        <4>1. output \in Seq(Unit) /\ t \in Seq(Unit) /\ u \in Stream \ {s}
          BY <1>1, <1>4, <2>3
        <4> HIDE DEF n
        <4> QED
          BY <3>0, <4>1, CountOfOther
      <3>2. CountIn(output, u, Len(output)) + pump[u].chunk = taken[u]
        BY DEF IInv, NothingLostBelowCeiling, Count, CountIn
      <3> QED
        BY <1>8, <2>3, <3>1, <3>2
    <2> QED
      BY <2>2, <2>3
  <1> QED
    BY <1>9, <1>10

LEMMA AppendStep ==
  ASSUME IInv, NEW s \in Stream, AppendChunk(s)
  PROVE  IInv'
  <1>1. /\ pump' = [pump EXCEPT ![s] = [pc |-> "read", chunk |-> 0]]
        /\ UNCHANGED <<written, taken, leader, brood, status, pollVars>>
    BY DEF AppendChunk, AfterAppend
  <1>2. [pc |-> "read", chunk |-> 0] \in Pumping
    BY OutputAssumption DEF Pumping
  <1>0. pump[s].pc = "append"
    BY DEF AppendChunk
  <1>3. /\ pump' \in [Stream -> Pumping]
        /\ pump'[s].chunk = 0
        /\ \A u \in Stream \ {s} : pump'[u] = pump[u]
    BY <1>1, <1>2 DEF IInv, TypeOK
  <1>4. ChunksWereTaken'
    BY <1>1, <1>3, Bounds DEF ChunksWereTaken
  <1>5. output' \in Seq(Unit) /\ Len(output') <= MaxOutput
    <2>1. output \in Seq(Unit) /\ Len(output) <= MaxOutput /\ Len(output) \in Nat
      BY DEF IInv, TypeOK, BoundedOutput, Unit
    <2>2. CASE output' = output
      BY <2>1, <2>2
    <2>3. CASE Len(output) < MaxOutput /\ output' = output \o Kept(s)
      <3>1. Kept(s) \in Seq(Unit) /\ Len(Kept(s)) <= MaxOutput - Len(output)
        BY <2>3, KeptFits DEF Room
      <3> QED
        BY <2>1, <2>3, <3>1, OutputAssumption
    <2> QED
      BY <2>2, <2>3 DEF AppendChunk
  <1>6. output' = output \/ \E t \in Seq(Unit) : output' = output \o t
    BY KeptFits DEF AppendChunk
  <1>7. AnswersBehind'
    BY <1>1, <1>6, StaysBehind
  <1>8. ChunksOnlyToAppend'
    BY <1>3 DEF IInv, ChunksOnlyToAppend
  <1>9. PrefixOfEachStream' /\ NothingLostBelowCeiling'
    <2>1. CASE Len(output) >= MaxOutput /\ output' = output
      <3>1. \A u, i : Count(u, i)' = Count(u, i)
        BY <2>1 DEF Count
      <3>2. ~(Len(output') < MaxOutput)
        BY <2>1, OutputAssumption DEF IInv, TypeOK
      <3> QED
        BY <2>1, <3>1, <3>2 DEF IInv, PrefixOfEachStream, NothingLostBelowCeiling
    <2>2. CASE Len(output) < MaxOutput /\ output' = output \o Kept(s)
      BY <1>0, <1>1, <1>3, <2>2, AppendedKept
    <2> QED
      BY <2>1, <2>2 DEF AppendChunk
  <1> QED
    BY <1>1, <1>3, <1>4, <1>5, <1>7, <1>8, <1>9
    DEF IInv, TypeOK, BoundedOutput, InPipe, Unit, pollVars

\* The job is left alone by a snapshot; each of its two reads keeps the order.
LEMMA SnapshotStep ==
  ASSUME IInv, Snapshot
  PROVE  /\ IInv'
         /\ GoesOnFrom(answer.output, answer'.output)
         /\ answer.status = "Ended" => answer'.status = "Ended"
  <1>1. /\ output \in Seq(Unit) /\ Len(output) <= MaxOutput
        /\ IsText(answer.output) /\ IsText(reading.output) /\ IsText(Lossy(output))
        /\ AnswersBehind /\ status \in {"Running", "Ended"}
    BY Decoded DEF IInv, TypeOK, BoundedOutput
  <1>2. UNCHANGED jobVars
    BY DEF Snapshot, ReadsOutput, ReadsStatus
  <1>5. PrefixOfEachStream' /\ NothingLostBelowCeiling'
    BY <1>2, SameKept DEF jobVars
  <1>3. CASE ReadsOutput
    <2>1. /\ reading'.begun = TRUE /\ reading'.output = Lossy(output) /\ answer' = answer
          /\ DOMAIN reading' = {"begun", "output"}
      BY <1>1, <1>3 DEF ReadsOutput
    <2>2. GoesOnFrom(Lossy(output), Lossy(output)) /\ GoesOnFrom(answer.output, answer.output)
      BY GoesOnFromItself
    <2>3. AnswersBehind'
      <3>1. Lossy(output)' = Lossy(output)
        BY <1>2 DEF jobVars, Lossy, Begins, IsWhole, OneCharacter
      <3> QED
        BY <1>1, <1>2, <2>1, <2>2, <3>1 DEF AnswersBehind, jobVars
    <2>4. IsText(reading'.output) /\ IsText(answer'.output)
      BY <1>1, <2>1
    <2>5. TypeOK'
      BY <1>2, <2>1, <2>4 DEF IInv, TypeOK, IsText, InPipe, jobVars
    <2> QED
      BY <1>2, <1>5, <2>1, <2>2, <2>3, <2>5
      DEF IInv, ChunksWereTaken, BoundedOutput, jobVars, ChunksOnlyToAppend
  <1>4. CASE ReadsStatus
    <2>1. /\ answer'.output = reading.output /\ answer'.status = status
          /\ reading'.begun = FALSE /\ reading.begun /\ reading'.output = <<>>
          /\ DOMAIN reading' = {"begun", "output"} /\ DOMAIN answer' = {"output", "status"}
      BY <1>1, <1>4 DEF ReadsStatus, NotReading
    <2>2. AnswersBehind'
      <3>1. Lossy(output)' = Lossy(output)
        BY <1>2 DEF jobVars, Lossy, Begins, IsWhole, OneCharacter
      <3> QED
        BY <1>1, <1>2, <2>1, <3>1 DEF AnswersBehind, jobVars
    <2>4. IsText(reading'.output) /\ IsText(answer'.output)
      BY <1>1, <2>1 DEF IsText
    <2>5. TypeOK'
      BY <1>1, <1>2, <2>1, <2>4 DEF IInv, TypeOK, IsText, InPipe, jobVars
    <2>3. /\ GoesOnFrom(answer.output, answer'.output)
          /\ answer.status = "Ended" => answer'.status = "Ended"
      BY <1>1, <2>1 DEF AnswersBehind
    <2> QED
      BY <1>2, <1>5, <2>1, <2>2, <2>3, <2>5
      DEF IInv, ChunksWereTaken, BoundedOutput, jobVars, ChunksOnlyToAppend
  <1> QED
    BY <1>3, <1>4 DEF Snapshot

LEMMA NextInv ==
  ASSUME IInv, [Next]_vars
  PROVE  IInv'
  <1>1. CASE Command \/ SetsStatus \/ UNCHANGED vars BY <1>1, CommandStep
  <1>2. ASSUME NEW s \in Stream, Read(s) PROVE IInv' BY <1>2, ReadStep
  <1>3. ASSUME NEW s \in Stream, Eof(s) PROVE IInv' BY <1>3, EofStep
  <1>4. ASSUME NEW s \in Stream, AppendChunk(s) PROVE IInv' BY <1>4, AppendStep
  <1>5. CASE Snapshot BY <1>5, SnapshotStep
  <1> QED
    BY <1>1, <1>2, <1>3, <1>4, <1>5 DEF Next, Pump

\* The invariant that carries the theorems below.
THEOREM Invariance == Spec => []IInv
  <1>1. Init => IInv
    BY InitInv
  <1>2. IInv /\ [Next]_vars => IInv'
    BY NextInv
  <1> QED
    BY <1>1, <1>2, PTL DEF Spec

\* Every variable keeps its type: above all, no pump takes more than its pipe holds.
THEOREM TypeCorrect == Spec => []TypeOK
  <1>1. IInv => TypeOK
    BY DEF IInv
  <1> QED
    BY <1>1, Invariance, PTL

\* The two pumps together never pass the ceiling, whatever its relation to the size of their
\* chunks (exec_ops.rs:63-70).
THEOREM NeverPastCeiling == Spec => []BoundedOutput
  <1>1. IInv => BoundedOutput
    BY DEF IInv
  <1> QED
    BY <1>1, Invariance, PTL

\* What is kept of a stream is its beginning, whatever the sizes (exec_ops.rs:66-70).
THEOREM KeepsBeginnings == Spec => []PrefixOfEachStream
  <1>1. IInv => PrefixOfEachStream
    BY DEF IInv
  <1> QED
    BY <1>1, Invariance, PTL

\* Below the ceiling nothing that was read is lost (exec_ops.rs:63-71).
THEOREM LosesNothing == Spec => []NothingLostBelowCeiling
  <1>1. IInv => NothingLostBelowCeiling
    BY DEF IInv
  <1> QED
    BY <1>1, Invariance, PTL

\* A client that asks again never sees less, whatever the bytes decode to: nothing it has seen
\* changes but a character that was cut off at the end of an answer. And it never sees an ended
\* job running again, although the two fields of an answer are read at different moments
\* (exec_ops.rs:111-119).
THEOREM NeverSeesLess == Spec => AnswersGrow
  <1> DEFINE Grows == /\ GoesOnFrom(answer.output, answer'.output)
                      /\ answer.status = "Ended" => answer'.status = "Ended"
  <1>1. IInv /\ [Next]_vars => [Grows]_vars
    <2> SUFFICES ASSUME IInv, Next PROVE Grows
      BY DEF vars
    <2>1. CASE Snapshot
      BY <2>1, SnapshotStep
    <2>2. CASE answer' = answer
      BY <2>2, GoesOnFromItself
    <2> QED
      BY <2>1, <2>2 DEF Next, Command, SetsStatus, Pump, Write, LeaderForks, LeaderExits,
                        BroodExits, Read, Eof, AppendChunk, pollVars
  <1>2. Spec => [][Grows]_vars
    BY <1>1, Invariance, PTL DEF Spec
  <1> QED
    BY <1>2 DEF AnswersGrow
=============================================================================
