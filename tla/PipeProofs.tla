------------------------------- MODULE PipeProofs -------------------------------
(***************************************************************************)
(* A pipe is a first-in first-out stream of Size - 1 bytes, for every size *)
(* of the buffer, every number of writers and readers and every length of  *)
(* their reads and writes.                                                 *)
(***************************************************************************)
EXTENDS Pipe, SequenceTheorems, TLAPS

\* A thread is in a call only while it has its descriptor, and a free Pipe has no
\* descriptors left.
CallsOpen ==
  /\ free => ends = {}
  /\ \A w \in Writers : sending[w] # <<>> => w \in ends
  /\ \A r \in Readers : asking[r] # NoCall => r \in ends

PInv == TypeOK /\ CallsOpen
-------------------------------------------------------------------------------
\* The remainder by which _Read and _Write wrap a position, for the positions
\* they meet.
LEMMA Wrap ==
  ASSUME NEW x \in Nat, x < 2 * Size
  PROVE  x % Size = IF x < Size THEN x ELSE x - Size
  BY PipeAssumption

\* What a write carries, or has left, is a sequence.
LEMMA DataSeq ==
  /\ \A d \in Data \cup {<<>>} : d \in Seq(Byte) /\ Len(d) \in 0 .. MaxWrite
  /\ \A d \in Seq(Byte) : Len(d) \in 0 .. MaxWrite => d \in Data \cup {<<>>}
<1> USE PipeAssumption
<1>1. \A n \in 1 .. MaxWrite : \A d \in [1 .. n -> Byte] : d \in Seq(Byte) /\ Len(d) = n
  OBVIOUS
<1>2. \A d \in Data \cup {<<>>} : d \in Seq(Byte) /\ Len(d) \in 0 .. MaxWrite
  <2>1. \A d \in Data : \E n \in 1 .. MaxWrite : d \in [1 .. n -> Byte]
    BY DEF Data
  <2>2. <<>> \in Seq(Byte) /\ Len(<<>>) \in 0 .. MaxWrite
    OBVIOUS
  <2>3. \A d \in Data : d \in Seq(Byte) /\ Len(d) \in 0 .. MaxWrite
    BY <1>1, <2>1
  <2> QED
    BY <2>2, <2>3, Zenon
<1>3. ASSUME NEW d \in Seq(Byte), Len(d) \in 0 .. MaxWrite
      PROVE  d \in Data \cup {<<>>}
  <2>1. CASE Len(d) = 0
    BY <2>1
  <2>2. CASE Len(d) # 0
    BY <1>3, <2>2 DEF Data
  <2> QED
    BY <2>1, <2>2
<1> QED
  BY <1>2, <1>3
-------------------------------------------------------------------------------
\* The number of bytes in the ring.
Used == IF readPos <= writePos THEN writePos - readPos
                               ELSE Size - readPos + writePos

\* The place of the i-th byte.
Place(i) == IF readPos + i - 1 < Size THEN readPos + i - 1 ELSE readPos + i - 1 - Size

\* Content lists the bytes of the ring.
LEMMA ContentSeq ==
  TypeOK =>
         /\ Used \in 0 .. Size - 1
         /\ Content \in Seq(Byte) /\ Len(Content) = Used
         /\ \A i \in 1 .. Used : Place(i) \in Index /\ Content[i] = buffer[Place(i)]
<1> SUFFICES ASSUME TypeOK
             PROVE  /\ Used \in 0 .. Size - 1
                    /\ Content \in Seq(Byte) /\ Len(Content) = Used
                    /\ \A i \in 1 .. Used : Place(i) \in Index /\ Content[i] = buffer[Place(i)]
  OBVIOUS
<1> USE PipeAssumption DEF TypeOK, Index
<1>1. Used \in 0 .. Size - 1
  BY DEF Used
<1>2. Content = [i \in 1 .. Used |-> buffer[(readPos + i - 1) % Size]]
  BY DEF Content, Used
<1>3. ASSUME NEW i \in 1 .. Used
      PROVE  Place(i) = (readPos + i - 1) % Size /\ Place(i) \in Index
  <2> DEFINE x == readPos + i - 1
  <2>1. x \in Nat /\ x < 2 * Size /\ (x < Size => x \in Index)
                  /\ (~(x < Size) => x - Size \in Index)
    BY <1>1
  <2>2. Place(i) = IF x < Size THEN x ELSE x - Size
    BY DEF Place
  <2> HIDE DEF x
  <2>3. x % Size = Place(i)
    BY <2>1, <2>2, Wrap
  <2> QED
    BY <2>1, <2>2, <2>3 DEF x
<1>4. \A i \in 1 .. Used : Content[i] = buffer[Place(i)]
  BY <1>2, <1>3
<1>5. Content \in [1 .. Used -> Byte]
  BY <1>2, <1>3
<1> QED
  BY <1>1, <1>3, <1>4, <1>5

\* The same in the next state.
LEMMA ContentNext ==
  TypeOK' =>
         /\ Used' \in 0 .. Size - 1
         /\ Content' \in Seq(Byte) /\ Len(Content') = Used'
         /\ \A i \in 1 .. Used' : Place(i)' \in Index /\ Content'[i] = buffer'[Place(i)']
<1>1. (TypeOK => /\ Used \in 0 .. Size - 1
                 /\ Content \in Seq(Byte) /\ Len(Content) = Used
                 /\ \A i \in 1 .. Used : Place(i) \in Index /\ Content[i] = buffer[Place(i)])'
  BY ContentSeq, PTL
<1> QED
  BY <1>1

\* _Write finds all the room there is.
LEMMA WriteRoom ==
  ASSUME TypeOK, NEW n \in Nat
  PROVE  LET c == WriteChunks(n)
         IN  /\ c[1] \in Nat /\ c[2] \in Nat
             /\ c[1] + c[2] = Least(Size - 1 - Used, n)
             /\ writePos + c[1] <= Size
             /\ c[2] > 0 => /\ writePos + c[1] = Size
                            /\ readPos > 0 /\ readPos <= writePos
             /\ readPos = 0 => writePos + c[1] < Size
             /\ c[1] = IF readPos > 0 /\ readPos <= writePos
                         THEN Least(Size - writePos, n) ELSE c[1] + c[2]
<1> USE PipeAssumption DEF TypeOK, Index, Used
<1>1. CASE writePos < readPos
  BY <1>1 DEF WriteChunks, Chunks, Least
<1>2. CASE ~(writePos < readPos) /\ readPos > 0
  BY <1>2 DEF WriteChunks, Chunks, Least
<1>3. CASE ~(writePos < readPos) /\ readPos = 0
  BY <1>3 DEF WriteChunks, Chunks, Least
<1> QED
  BY <1>1, <1>2, <1>3

\* _Read finds all the bytes there are.
LEMMA ReadAll ==
  ASSUME TypeOK, NEW n \in Nat
  PROVE  LET c == ReadChunks(n)
         IN  /\ c[1] \in Nat /\ c[2] \in Nat
             /\ c[1] + c[2] = Least(Used, n)
             /\ readPos + c[1] <= Size
             /\ c[2] > 0 => readPos + c[1] = Size
<1> USE PipeAssumption DEF TypeOK, Index, Used
<1>1. CASE readPos <= writePos
  BY <1>1 DEF ReadChunks, Chunks, Least
<1>2. CASE ~(readPos <= writePos)
  BY <1>2 DEF ReadChunks, Chunks, Least
<1> QED
  BY <1>1, <1>2

\* _Write copies into the room behind writePos, and never over a byte that is
\* still to be read, wherever the copy stops.
LEMMA CopyKeeps ==
  ASSUME TypeOK, NEW d \in Seq(Byte), NEW m \in Nat,
         m <= WriteChunks(Len(d))[1] + WriteChunks(Len(d))[2]
  PROVE  /\ CopyIn(d, WriteChunks(Len(d))[1], m) \in [Index -> Byte]
         /\ \A i \in 1 .. Used :
              CopyIn(d, WriteChunks(Len(d))[1], m)[Place(i)] = buffer[Place(i)]
<1> USE PipeAssumption
<1> DEFINE a == WriteChunks(Len(d))[1]
           b == WriteChunks(Len(d))[2]
           f == CopyIn(d, a, m)
<1>1. /\ a \in Nat /\ b \in Nat /\ m <= a + b /\ a + b <= Size - 1 - Used
      /\ a + b <= Len(d)
      /\ writePos + a <= Size
      /\ b > 0 => writePos + a = Size /\ readPos > 0 /\ readPos <= writePos
  <2>1. Len(d) \in Nat /\ Used \in 0 .. Size - 1
    BY ContentSeq
  <2>2. a \in Nat /\ b \in Nat /\ a + b = Least(Size - 1 - Used, Len(d))
    BY <2>1, WriteRoom
  <2>3. writePos + a <= Size /\ (b > 0 => writePos + a = Size /\ readPos > 0 /\ readPos <= writePos)
    BY <2>1, WriteRoom
  <2> QED
    BY <2>1, <2>2, <2>3 DEF Least
<1>2. readPos \in Index /\ writePos \in Index /\ buffer \in [Index -> Byte]
  BY DEF TypeOK
<1>3. Used \in 0 .. Size - 1 /\ \A i \in 1 .. Used : Place(i) \in Index
  BY ContentSeq
<1>4. f = [i \in Index |->
             IF i - writePos \in 0 .. Least(a, m) - 1 THEN d[i - writePos + 1]
             ELSE IF a + i < m THEN d[a + i + 1]
             ELSE buffer[i]]
  BY DEF CopyIn
<1> HIDE DEF a, b, f
<1>5. f \in [Index -> Byte]
  <2> SUFFICES ASSUME NEW i \in Index
               PROVE  f[i] \in Byte
    BY <1>4
  <2>1. CASE i - writePos \in 0 .. Least(a, m) - 1
    BY <1>1, <1>2, <1>4, <2>1 DEF Least, Index
  <2>2. CASE i - writePos \notin 0 .. Least(a, m) - 1 /\ a + i < m
    BY <1>1, <1>2, <1>4, <2>2 DEF Index
  <2>3. CASE i - writePos \notin 0 .. Least(a, m) - 1 /\ ~(a + i < m)
    BY <1>2, <1>4, <2>3
  <2> QED
    BY <2>1, <2>2, <2>3
<1>6. ASSUME NEW i \in 1 .. Used
      PROVE  f[Place(i)] = buffer[Place(i)]
  <2>1. Place(i) - writePos \notin 0 .. Least(a, m) - 1 /\ ~(a + Place(i) < m)
    BY <1>1, <1>2, <1>3 DEF Least, Index, Used, Place
  <2> QED
    BY <1>3, <1>4, <2>1
<1> QED
  BY <1>5, <1>6 DEF f, a

\* A copy that is complete continues the ring with the bytes of the writer, also
\* where it wraps.
LEMMA CopyAppends ==
  ASSUME TypeOK, NEW d \in Seq(Byte),
         NEW j \in 1 .. WriteChunks(Len(d))[1] + WriteChunks(Len(d))[2]
  PROVE  /\ Place(Used + j) \in Index
         /\ CopyIn(d, WriteChunks(Len(d))[1],
                   WriteChunks(Len(d))[1] + WriteChunks(Len(d))[2])[Place(Used + j)] = d[j]
<1> USE PipeAssumption
<1> DEFINE a == WriteChunks(Len(d))[1]
           b == WriteChunks(Len(d))[2]
           f == CopyIn(d, a, a + b)
<1>1. /\ a \in Nat /\ b \in Nat /\ a + b <= Size - 1 - Used /\ a + b <= Len(d)
      /\ writePos + a <= Size
      /\ b > 0 => writePos + a = Size /\ readPos > 0 /\ readPos <= writePos
      /\ Used \in 0 .. Size - 1 /\ j \in 1 .. a + b
  <2>1. Len(d) \in Nat /\ Used \in 0 .. Size - 1
    BY ContentSeq
  <2>2. a \in Nat /\ b \in Nat /\ a + b = Least(Size - 1 - Used, Len(d))
    BY <2>1, WriteRoom
  <2>3. writePos + a <= Size /\ (b > 0 => writePos + a = Size /\ readPos > 0 /\ readPos <= writePos)
    BY <2>1, WriteRoom
  <2> QED
    BY <2>1, <2>2, <2>3 DEF Least
<1>2. readPos \in Index /\ writePos \in Index
  BY DEF TypeOK
<1>3. f = [i \in Index |->
             IF i - writePos \in 0 .. Least(a, a + b) - 1 THEN d[i - writePos + 1]
             ELSE IF a + i < a + b THEN d[a + i + 1]
             ELSE buffer[i]]
  BY DEF CopyIn
<1> HIDE DEF a, b, f
<1>4. Place(Used + j) = IF j <= a THEN writePos + j - 1 ELSE j - a - 1
  BY <1>1, <1>2 DEF Place, Used, Index
<1>5. Place(Used + j) \in Index
  BY <1>1, <1>2, <1>4 DEF Index
<1>6. CASE j <= a
  <2>1. Place(Used + j) - writePos \in 0 .. Least(a, a + b) - 1
    BY <1>1, <1>2, <1>4, <1>6 DEF Least, Index
  <2>2. Place(Used + j) - writePos + 1 = j
    BY <1>1, <1>2, <1>4, <1>6 DEF Index
  <2> QED
    BY <1>3, <1>5, <2>1, <2>2 DEF f, a, b
<1>7. CASE j > a
  <2>1. Place(Used + j) - writePos \notin 0 .. Least(a, a + b) - 1 /\ a + Place(Used + j) < a + b
    BY <1>1, <1>2, <1>4, <1>7 DEF Least, Index
  <2>2. a + Place(Used + j) + 1 = j
    BY <1>1, <1>4, <1>7
  <2> QED
    BY <1>3, <1>5, <2>1, <2>2 DEF f, a, b
<1> QED
  BY <1>1, <1>6, <1>7
-------------------------------------------------------------------------------
\* The Pipe that PipeFS makes.
LEMMA PipeInit == Init => PInv
BY PipeAssumption DEF Init, PInv, TypeOK, CallsOpen, Index, NoCall

\* Every step of a call keeps the positions inside the buffer, and the calls to
\* those who have a descriptor.
LEMMA PipeStep ==
  ASSUME PInv, [Next]_vars
  PROVE  PInv'
<1> USE PipeAssumption DEF PInv, CallsOpen
<1>1. CASE CreateNode
  <2>1. TypeOK'
    <3>1. 0 \in Index /\ free' = FALSE
      BY <1>1 DEF CreateNode, Index
    <3> QED
      BY <1>1, <3>1, Zenon DEF CreateNode, TypeOK
  <2>2. CallsOpen'
    BY <1>1, Zenon DEF CreateNode
  <2> QED
    BY <2>1, <2>2
<1>2. ASSUME NEW p \in Writers \cup Readers, Close(p)
      PROVE  PInv'
  <2>1. TypeOK'
    BY <1>2 DEF Close, TypeOK
  <2>2. \A w \in Writers : w # p \/ sending[w] = <<>>
    BY <1>2 DEF Close
  <2>3. \A r \in Readers : r # p \/ asking[r] = NoCall
    BY <1>2 DEF Close
  <2> QED
    BY <1>2, <2>1, <2>2, <2>3 DEF Close
<1>3. ASSUME NEW w \in Writers, NEW d \in Data, WriteNodeData(w, d)
      PROVE  PInv'
  BY <1>3 DEF WriteNodeData, TypeOK
<1>4. ASSUME NEW w \in Writers, Write(w)
      PROVE  PInv'
  <2> DEFINE d == sending[w]
             c == WriteChunks(Len(d))
             n == c[1] + c[2]
  <2>1. d \in Seq(Byte) /\ Len(d) \in 0 .. MaxWrite /\ d # <<>>
    BY <1>4, DataSeq DEF Write, TypeOK
  <2>2. c[1] \in Nat /\ c[2] \in Nat /\ n \in 0 .. Len(d)
    <3>1. c[1] \in Nat /\ c[2] \in Nat /\ n = Least(Size - 1 - Used, Len(d))
      BY <2>1, WriteRoom
    <3>2. Used \in 0 .. Size - 1 /\ Len(d) \in Nat
      BY <2>1, ContentSeq
    <3> HIDE DEF c, d
    <3> QED
      BY <3>1, <3>2 DEF Least
  <2>3. buffer' \in [Index -> Byte]
    <3>1. buffer' = CopyIn(d, c[1], n)
      BY <1>4 DEF Write
    <3>2. n \in Nat /\ n <= WriteChunks(Len(d))[1] + WriteChunks(Len(d))[2]
      BY <2>2
    <3> QED
      BY <2>1, <3>1, <3>2, CopyKeeps
  <2>4. writePos' \in Index
    <3>1. writePos' = IF writePos < readPos \/ readPos = 0
                         THEN writePos + n ELSE (writePos + n) % Size
      BY <1>4 DEF Write
    <3>2. n <= Size - 1 - Used /\ writePos \in Index /\ readPos \in Index
      BY <2>1, ContentSeq, WriteRoom DEF Least, TypeOK
    <3> HIDE DEF n
    <3>3. CASE writePos < readPos \/ readPos = 0
      BY <2>2, <3>1, <3>2, <3>3 DEF Used, Index
    <3>4. CASE ~(writePos < readPos \/ readPos = 0)
      BY <2>2, <3>1, <3>2, <3>4 DEF Used, Index
    <3> QED
      BY <3>3, <3>4
  <2>5. sending' = [sending EXCEPT ![w] = SubSeq(d, n + 1, Len(d))]
    BY <1>4 DEF Write
  <2>6. SubSeq(d, n + 1, Len(d)) \in Data \cup {<<>>}
    <3>1. SubSeq(d, n + 1, Len(d)) \in Seq(Byte) /\ Len(SubSeq(d, n + 1, Len(d))) \in 0 .. MaxWrite
      BY <2>1, <2>2
    <3> QED
      BY <3>1, DataSeq
  <2> QED
    BY <1>4, <2>1, <2>3, <2>4, <2>5, <2>6 DEF Write, TypeOK
<1>5. ASSUME NEW w \in Writers, WriteFault(w)
      PROVE  PInv'
  <2> DEFINE d == sending[w]
             c == WriteChunks(Len(d))
  <2>1. d \in Seq(Byte) /\ Len(d) \in Nat
    BY <1>5, DataSeq DEF TypeOK
  <2>2. c[1] \in Nat /\ c[2] \in Nat
    BY <2>1, WriteRoom
  <2>3. buffer' \in [Index -> Byte]
    BY <1>5, <2>1, <2>2, CopyKeeps DEF WriteFault
  <2> QED
    BY <1>5, <2>3 DEF WriteFault, TypeOK
<1>6. ASSUME NEW r \in Readers, NEW n \in 0 .. MaxRead, ReadNodeData(r, n)
      PROVE  PInv'
  BY <1>6 DEF ReadNodeData, TypeOK, NoCall
<1>7. ASSUME NEW r \in Readers, Read(r)
      PROVE  PInv'
  <2> DEFINE c == ReadChunks(asking[r])
             n == c[1] + c[2]
             g == [i \in 1 .. n |-> IF i <= c[1] THEN buffer[readPos + i - 1]
                                                 ELSE buffer[i - c[1] - 1]]
  <2>1. asking[r] \in Nat /\ readPos \in Index /\ writePos \in Index /\ buffer \in [Index -> Byte]
    BY <1>7 DEF Read, TypeOK, NoCall
  <2>2. Used \in 0 .. Size - 1
    BY ContentSeq
  <2>3. /\ c[1] \in Nat /\ c[2] \in Nat /\ n <= Used /\ readPos + c[1] <= Size
        /\ c[2] > 0 => readPos + c[1] = Size
    BY <2>1, <2>2, ReadAll DEF Least
  <2>4. readPos' = IF readPos < writePos THEN readPos + n ELSE (readPos + n) % Size
    BY <1>7 DEF Read
  <2>5. got' = [got EXCEPT ![r] = g]
    BY <1>7 DEF Read
  <2>6. g \in Seq(Byte)
    <3> HIDE DEF c
    <3>0. c[2] < Size /\ n \in Nat
      BY <2>1, <2>3 DEF Used, Index
    <3>1. ASSUME NEW i \in 1 .. n
          PROVE  IF i <= c[1] THEN readPos + i - 1 \in Index ELSE i - c[1] - 1 \in Index
      BY <2>1, <2>3, <3>0 DEF Index
    <3> HIDE DEF n
    <3>2. g \in [1 .. n -> Byte]
      BY <2>1, <3>1
    <3> QED
      BY <3>0, <3>2
  <2>7. readPos' \in Index
    <3>1. n \in Nat
      BY <2>3
    <3> HIDE DEF c, n
    <3>2. CASE readPos < writePos
      BY <2>1, <2>3, <2>4, <3>1, <3>2 DEF Used, Index
    <3>3. CASE ~(readPos < writePos)
      <4> DEFINE x == readPos + n
      <4>1. x \in Nat /\ readPos' = x % Size
        BY <2>1, <2>4, <3>1, <3>3 DEF Index
      <4> HIDE DEF x
      <4> QED
        BY <4>1 DEF Index
    <3> QED
      BY <3>2, <3>3
  <2> QED
    BY <1>7, <2>5, <2>6, <2>7 DEF Read, TypeOK, NoCall
<1>8. ASSUME NEW r \in Readers, ReadFault(r)
      PROVE  PInv'
  BY <1>8 DEF ReadFault, TypeOK, NoCall
<1>9. CASE UNCHANGED vars
  BY <1>9 DEF vars, TypeOK
<1> QED
  BY <1>1, <1>2, <1>3, <1>4, <1>5, <1>6, <1>7, <1>8, <1>9 DEF Next

\* PInv is an inductive invariant of the pipe.
THEOREM PipeInductive == Spec => []PInv
<1>1. PInv /\ [Next]_vars => PInv'
  BY PipeStep
<1> QED
  BY <1>1, PipeInit, PTL DEF Spec

\* Positions stay inside the buffer and a call never has more to do than it was
\* given, for every size of the buffer (_Read, _Write).
THEOREM PipeTypeCorrect == Spec => []TypeOK
<1>1. PInv => TypeOK
  BY DEF PInv
<1> QED
  BY <1>1, PipeInductive, PTL

\* The pipe is a first-in first-out stream: what _Write copies in is what _Read
\* copies out, in order, once, also where a chunk wraps, where a copy faults
\* half-way and where a Pipe is used again.
THEOREM PipeRefines == Spec => ImplementsStream
<1> USE PipeAssumption
<1> DEFINE stream == IF free THEN <<>> ELSE Content
<1>1. Init => B!Init
  BY DEF Init, B!Init, NoCall, B!NoCall
<1>2. PInv /\ PInv' /\ [Next]_vars => [B!Next]_(B!all)
  <2> SUFFICES ASSUME PInv, PInv', [Next]_vars PROVE [B!Next]_(B!all)
    OBVIOUS
  <2>0. TypeOK /\ TypeOK' /\ CallsOpen
    BY DEF PInv
  <2>1. CASE CreateNode
    <3>1. Content' = <<>>
      BY <2>1 DEF CreateNode, Content
    <3>2. stream = <<>> /\ stream' = <<>> /\ ends = {}
      BY <2>0, <2>1, <3>1 DEF CreateNode, CallsOpen
    <3>3. B!Open
      BY <2>1, <3>2 DEF CreateNode, B!Open
    <3> QED
      BY <3>3 DEF B!Next
  <2>2. ASSUME NEW p \in Writers \cup Readers, Close(p)
        PROVE  B!Close(p)
    <3>1. ~free /\ (free' <=> ends' = {}) /\ Content' = Content
      BY <2>0, <2>2 DEF Close, CallsOpen, Content
    <3>2. stream' = IF ends' = {} THEN <<>> ELSE stream
      BY <3>1
    <3> QED
      BY <2>2, <3>2 DEF Close, B!Close
  <2>3. ASSUME NEW w \in Writers, NEW d \in Data, WriteNodeData(w, d)
        PROVE  B!Write(w, d)
    <3>1. stream' = stream
      BY <2>3 DEF WriteNodeData, Content
    <3> QED
      BY <2>3, <3>1 DEF WriteNodeData, B!Write
  <2>4. ASSUME NEW w \in Writers, Write(w)
        PROVE  B!Put(w)
    <3> DEFINE d == sending[w]
               c == WriteChunks(Len(d))
               n == c[1] + c[2]
    <3>1. ~free /\ ~free' /\ d \in Seq(Byte) /\ Len(d) \in Nat
      BY <2>0, <2>4, DataSeq DEF Write, TypeOK, CallsOpen
    <3>2. /\ Used \in 0 .. Size - 1
          /\ Content \in Seq(Byte) /\ Len(Content) = Used
          /\ \A i \in 1 .. Used : Place(i) \in Index /\ Content[i] = buffer[Place(i)]
      BY <2>0, ContentSeq
    <3>3. /\ Used' \in 0 .. Size - 1
          /\ Content' \in Seq(Byte) /\ Len(Content') = Used'
          /\ \A i \in 1 .. Used' : Content'[i] = buffer'[Place(i)']
      BY <2>0, ContentNext
    <3>4. n = Least(Size - 1 - Used, Len(d)) /\ n \in Nat
      BY <2>0, <3>1, <3>2, WriteRoom DEF Least
    <3>5. readPos' = readPos /\ Used' = Used + n
      <4>1. readPos \in Index /\ writePos \in Index /\ readPos' = readPos
        BY <2>0, <2>4 DEF TypeOK, Write
      <4>2. writePos' = IF writePos < readPos \/ readPos = 0
                           THEN writePos + n ELSE (writePos + n) % Size
        BY <2>4 DEF Write
      <4> HIDE DEF n
      <4>3. n <= Size - 1 - Used
        BY <3>1, <3>2, <3>4 DEF Least
      <4>4. CASE writePos < readPos \/ readPos = 0
        BY <3>4, <4>1, <4>2, <4>3, <4>4 DEF Used, Index
      <4>5. CASE ~(writePos < readPos \/ readPos = 0)
        <5> DEFINE x == writePos + n
        <5>1. x \in Nat /\ x < 2 * Size
          BY <3>2, <3>4, <4>1, <4>3 DEF Index
        <5>2. writePos' = x % Size
          BY <4>2, <4>5
        <5> HIDE DEF x
        <5>3. writePos' = IF x < Size THEN x ELSE x - Size
          BY <5>1, <5>2, Wrap
        <5> QED
          BY <3>4, <4>1, <4>3, <4>5, <5>3 DEF Used, Index, x
      <4> QED
        BY <4>4, <4>5
    <3>6. \A i : Place(i)' = Place(i)
      BY <3>5 DEF Place
    <3>7. buffer' = CopyIn(d, c[1], n) /\ sending' = [sending EXCEPT ![w] = SubSeq(d, n + 1, Len(d))]
      BY <2>4 DEF Write
    <3>8. \A i \in 1 .. Used : buffer'[Place(i)] = Content[i]
      BY <2>0, <3>1, <3>2, <3>4, <3>7, CopyKeeps
    <3>9. \A j \in 1 .. n : buffer'[Place(Used + j)] = d[j]
      BY <2>0, <3>1, <3>7, CopyAppends
    <3>10. n <= Len(d)
      BY <3>1, <3>2, <3>4 DEF Least
    <3> DEFINE t == SubSeq(d, 1, n)
    <3>11. t \in Seq(Byte) /\ Len(t) = n /\ \A j \in 1 .. n : t[j] = d[j]
      BY <3>1, <3>4, <3>10
    <3> HIDE DEF n, c, d, t
    <3>12. Content \o t \in Seq(Byte) /\ Len(Content \o t) = Used + n
      BY <3>2, <3>11, ConcatProperties
    <3>13. ASSUME NEW i \in 1 .. Used + n
           PROVE  Content'[i] = (Content \o t)[i]
      <4>1. Content'[i] = buffer'[Place(i)]
        BY <3>3, <3>5, <3>6
      <4>2. CASE i <= Used
        BY <3>2, <3>4, <3>8, <3>11, <4>1, <4>2
      <4>3. CASE i > Used
        <5>1. i - Used \in 1 .. n /\ Used + (i - Used) = i
          BY <3>2, <3>4, <4>3
        <5>2. Content'[i] = t[i - Used]
          BY <3>9, <3>11, <4>1, <5>1
        <5> QED
          BY <3>2, <3>4, <3>11, <4>3, <5>2
      <4>4. i <= Used \/ i > Used
        BY <3>2, <3>4
      <4> QED
        BY <4>2, <4>3, <4>4, Zenon
    <3>14. Content' = Content \o t
      BY <3>3, <3>5, <3>12, <3>13, SeqEqual
    <3>15. stream' = stream \o t /\ Len(stream) = Used
      BY <3>1, <3>2, <3>14
    <3>16. B!Least(Size - 1 - Len(stream), Len(sending[w])) = n
      BY <3>4, <3>15 DEF Least, B!Least, d
    <3>17. UNCHANGED <<ends, asking, got>>
      BY <2>4 DEF Write
    <3> HIDE DEF stream
    <3> QED
      BY <3>7, <3>15, <3>16, <3>17 DEF B!Put, B!Take, B!Drop, stream, t, d
  <2>5. ASSUME NEW w \in Writers, WriteFault(w)
        PROVE  B!Abandon(w)
    <3> DEFINE d == sending[w]
               c == WriteChunks(Len(d))
    <3>1. ~free /\ ~free' /\ d \in Seq(Byte) /\ Len(d) \in Nat
      BY <2>0, <2>5, DataSeq DEF WriteFault, TypeOK, CallsOpen
    <3>2. c[1] \in Nat /\ c[2] \in Nat
      BY <2>0, <3>1, WriteRoom
    <3>3. PICK n \in 0 .. c[1] + c[2] - 1 : buffer' = CopyIn(d, c[1], n)
      BY <2>5 DEF WriteFault
    <3>4. n \in Nat /\ n <= c[1] + c[2]
      BY <3>2
    <3>5. \A i \in 1 .. Used : buffer'[Place(i)] = buffer[Place(i)]
      BY <2>0, <3>1, <3>3, <3>4, CopyKeeps
    <3>6. UNCHANGED <<readPos, writePos>>
      BY <2>5 DEF WriteFault
    <3>7. Used' = Used /\ \A i : Place(i)' = Place(i)
      BY <3>6 DEF Used, Place
    <3>8. /\ Content \in Seq(Byte) /\ Len(Content) = Used
          /\ \A i \in 1 .. Used : Content[i] = buffer[Place(i)]
      BY <2>0, ContentSeq
    <3>9. /\ Content' \in Seq(Byte) /\ Len(Content') = Used'
          /\ \A i \in 1 .. Used' : Content'[i] = buffer'[Place(i)']
      BY <2>0, ContentNext
    <3>10. Content' = Content
      BY <3>5, <3>7, <3>8, <3>9, SeqEqual
    <3>11. stream' = stream
      BY <3>1, <3>10
    <3> QED
      BY <2>5, <3>11 DEF WriteFault, B!Abandon
  <2>6. ASSUME NEW r \in Readers, NEW n \in 0 .. MaxRead, ReadNodeData(r, n)
        PROVE  B!Read(r, n)
    <3>1. stream' = stream
      BY <2>6 DEF ReadNodeData, Content
    <3> QED
      BY <2>6, <3>1 DEF ReadNodeData, B!Read, NoCall, B!NoCall
  <2>7. ASSUME NEW r \in Readers, Read(r)
        PROVE  B!Get(r)
    <3> DEFINE c == ReadChunks(asking[r])
               n == c[1] + c[2]
               g == [i \in 1 .. n |-> IF i <= c[1] THEN buffer[readPos + i - 1]
                                                   ELSE buffer[i - c[1] - 1]]
    <3>1. /\ ~free /\ ~free' /\ asking[r] \in Nat
          /\ readPos \in Index /\ writePos \in Index
      BY <2>0, <2>7 DEF Read, TypeOK, CallsOpen, NoCall
    <3>2. /\ Used \in 0 .. Size - 1
          /\ Content \in Seq(Byte) /\ Len(Content) = Used
          /\ \A i \in 1 .. Used : Place(i) \in Index /\ Content[i] = buffer[Place(i)]
      BY <2>0, ContentSeq
    <3>3. /\ Used' \in 0 .. Size - 1
          /\ Content' \in Seq(Byte) /\ Len(Content') = Used'
          /\ \A i \in 1 .. Used' : Content'[i] = buffer'[Place(i)']
      BY <2>0, ContentNext
    <3>4. /\ c[1] \in Nat /\ c[2] \in Nat /\ n = Least(Used, asking[r]) /\ n > 0
          /\ readPos + c[1] <= Size /\ (c[2] > 0 => readPos + c[1] = Size)
      BY <2>0, <2>7, <3>1, ReadAll DEF Read
    <3>5. /\ got' = [got EXCEPT ![r] = g]
          /\ readPos' = IF readPos < writePos THEN readPos + n ELSE (readPos + n) % Size
          /\ asking' = [asking EXCEPT ![r] = NoCall]
          /\ UNCHANGED <<writePos, buffer, ends, sending>>
      BY <2>7 DEF Read
    <3> DEFINE a == c[1]
    <3>6. n \in 1 .. Used /\ n <= asking[r] /\ a \in 0 .. n
      BY <3>1, <3>2, <3>4 DEF Least
    <3>7. g = [i \in 1 .. n |-> IF i <= a THEN buffer[readPos + i - 1] ELSE buffer[i - a - 1]]
      OBVIOUS
    <3>8. a < n => readPos + a = Size
      BY <3>4
    <3>9. readPos + a <= Size /\ n = Least(Used, asking[r])
      BY <3>4
    <3> HIDE DEF c, n, g, a
    <3>10. \A i \in 1 .. n : g[i] = buffer[Place(i)]
      BY <3>1, <3>2, <3>6, <3>7, <3>8, <3>9 DEF Place, Index
    <3>11. g \in Seq(Byte) /\ Len(g) = n
      <4>1. \A i \in 1 .. n : g[i] \in Byte
        BY <2>0, <3>2, <3>6, <3>10 DEF TypeOK
      <4> QED
        BY <3>2, <3>6, <3>7, <4>1
    <3>12. g = SubSeq(Content, 1, n)
      <4>1. /\ SubSeq(Content, 1, n) \in Seq(Byte) /\ Len(SubSeq(Content, 1, n)) = n
            /\ \A i \in 1 .. n : SubSeq(Content, 1, n)[i] = Content[i]
        BY <3>2, <3>6
      <4>2. \A i \in 1 .. n : g[i] = SubSeq(Content, 1, n)[i]
        BY <3>2, <3>6, <3>10, <4>1
      <4> QED
        BY <3>11, <4>1, <4>2, SeqEqual
    <3>13. readPos' = IF readPos + n < Size THEN readPos + n ELSE readPos + n - Size
      <4>1. CASE readPos < writePos
        BY <3>1, <3>2, <3>5, <3>6, <4>1 DEF Used, Index
      <4>2. CASE ~(readPos < writePos)
        <5> DEFINE x == readPos + n
        <5>1. x \in Nat /\ x < 2 * Size
          BY <3>1, <3>2, <3>6 DEF Index
        <5>2. readPos' = x % Size
          BY <3>5, <4>2
        <5> HIDE DEF x
        <5>3. readPos' = IF x < Size THEN x ELSE x - Size
          BY <5>1, <5>2, Wrap
        <5> QED
          BY <3>1, <3>2, <3>6, <5>3 DEF x, Index
      <4> QED
        BY <4>1, <4>2
    <3>14. Used' = Used - n
      <4>1. writePos' = writePos
        BY <3>5
      <4>2. CASE readPos <= writePos
        BY <3>1, <3>6, <3>13, <4>1, <4>2 DEF Used, Index
      <4>3. CASE ~(readPos <= writePos)
        BY <3>1, <3>6, <3>13, <4>1, <4>3 DEF Used, Index
      <4> QED
        BY <4>2, <4>3
    <3>15. \A i \in 1 .. Used - n : Place(i)' = Place(n + i)
      BY <3>1, <3>2, <3>6, <3>13 DEF Place, Index, Used
    <3>16. Content' = SubSeq(Content, n + 1, Len(Content))
      <4> DEFINE s == SubSeq(Content, n + 1, Len(Content))
      <4>1. /\ s \in Seq(Byte) /\ Len(s) = Used - n
            /\ \A i \in 1 .. Used - n : s[i] = Content[n + i]
        BY <3>2, <3>6
      <4>2. ASSUME NEW i \in 1 .. Used - n
            PROVE  Content'[i] = s[i]
        <5>1. n + i \in 1 .. Used
          BY <3>2, <3>6
        <5>2. Content'[i] = buffer[Place(n + i)]
          BY <3>3, <3>5, <3>14, <3>15
        <5> QED
          BY <3>2, <4>1, <5>1, <5>2
      <4> HIDE DEF s
      <4>3. Content' = s
        BY <3>3, <3>14, <4>1, <4>2, SeqEqual
      <4> QED
        BY <4>3 DEF s
    <3>17. /\ stream = Content /\ Len(stream) = Used
           /\ stream' = SubSeq(stream, n + 1, Len(stream)) /\ g = SubSeq(stream, 1, n)
      BY <3>1, <3>2, <3>12, <3>16
    <3>18. B!Least(Len(stream), asking[r]) = n /\ n > 0
      BY <3>6, <3>9, <3>17 DEF Least, B!Least
    <3>19. asking[r] # NoCall
      BY <2>7 DEF Read
    <3> HIDE DEF stream
    <3> QED
      BY <3>5, <3>17, <3>18, <3>19 DEF B!Get, B!Take, B!Drop, NoCall, B!NoCall, stream
  <2>8. ASSUME NEW r \in Readers, ReadFault(r)
        PROVE  B!GiveUp(r)
    <3>1. stream' = stream
      BY <2>8 DEF ReadFault, Content
    <3> QED
      BY <2>8, <3>1 DEF ReadFault, B!GiveUp, NoCall, B!NoCall
  <2>9. CASE UNCHANGED vars
    <3>1. stream' = stream
      BY <2>9 DEF vars, Content
    <3> QED
      BY <2>9, <3>1 DEF vars, B!all
  <2> QED
    BY <2>1, <2>2, <2>3, <2>4, <2>5, <2>6, <2>7, <2>8, <2>9 DEF Next, B!Next
<1> QED
  BY <1>1, <1>2, PipeInductive, PTL DEF Spec, ImplementsStream, B!Spec
===============================================================================
