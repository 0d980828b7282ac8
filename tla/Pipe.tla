---------------------------------- MODULE Pipe ----------------------------------
(***************************************************************************)
(* A pipe of PipeFS (fs/pipefs/PipeFS.cpp): a ring buffer that writers and *)
(* readers fill and drain in chunks, each under the lock of the pipe, and  *)
(* that is used again for a later pipe once it is free.  A call that finds *)
(* no room or no byte yields and tries again, so waiting changes nothing.  *)
(* A descriptor is not closed by another thread while a call uses it.      *)
(***************************************************************************)
EXTENDS Integers, Sequences

CONSTANTS Writers, Readers,  \* threads with a descriptor of either end
          Size,              \* sizeof(Pipe::buffer)
          Byte,
          MaxWrite, MaxRead  \* bounds: the largest write and read

ASSUME PipeAssumption ==
         /\ Writers \cap Readers = {}
         /\ Size \in Nat \ {0, 1}
         /\ Byte # {}
         /\ MaxWrite \in Nat
         /\ MaxRead \in Nat

VARIABLES free, readPos, writePos, buffer,  \* the Pipe
          ends,     \* threads that have not closed their descriptor
          sending,  \* sending[w]: the rest of the buffer of WriteNodeData
          asking,   \* asking[r]: bufferSize of ReadNodeData, NoCall outside it
          got       \* got[r]: what the last ReadNodeData copied out

vars == <<free, readPos, writePos, buffer, ends, sending, asking, got>>
calls == <<ends, sending, asking, got>>

NoCall == -1
Index == 0 .. Size - 1
Data == UNION {[1 .. n -> Byte] : n \in 1 .. MaxWrite}

TypeOK ==
  /\ free \in BOOLEAN
  /\ readPos \in Index /\ writePos \in Index
  /\ buffer \in [Index -> Byte]
  /\ ends \subseteq Writers \cup Readers
  /\ sending \in [Writers -> Data \cup {<<>>}]
  /\ asking \in [Readers -> (0 .. MaxRead) \cup {NoCall}]
  /\ got \in [Readers -> Seq(Byte)]

Init ==
  /\ free = TRUE
  /\ readPos = 0 /\ writePos = 0
  /\ buffer \in [Index -> Byte]
  /\ ends = {}
  /\ sending = [w \in Writers |-> <<>>]
  /\ asking = [r \in Readers |-> NoCall]
  /\ got = [r \in Readers |-> <<>>]

Least(a, b) == IF a <= b THEN a ELSE b

\* Two chunks of at most n bytes in all: first the one of length a, at the end of
\* the buffer, then the one of length b, at its start.
Chunks(a, b, n) == IF a > n THEN <<n, 0>> ELSE <<a, Least(b, n - a)>>

\* Mutant: bytes that lie behind the wrap are not seen.
ReadChunksLinear(n) == IF readPos <= writePos
                         THEN Chunks(writePos - readPos, 0, n)
                         ELSE <<0, 0>>

\* _Read: what can be read for a buffer of n bytes.
ReadChunks(n) == IF readPos <= writePos
                   THEN Chunks(writePos - readPos, 0, n)
                   ELSE Chunks(Size - readPos, writePos, n)

\* Mutant: the unused byte is forgotten, and a full pipe looks empty.
WriteChunksFull(n) ==
  IF writePos < readPos THEN Chunks(readPos - writePos, 0, n)
  ELSE IF readPos > 0   THEN Chunks(Size - writePos, readPos, n)
                        ELSE Chunks(Size - writePos - 1, 0, n)

\* Mutant: a write never goes on at the start of the buffer.
WriteChunksLinear(n) ==
  IF writePos < readPos THEN Chunks(readPos - writePos - 1, 0, n)
                        ELSE Chunks(Size - writePos - 1, 0, n)

\* _Write: what fits of n bytes; one byte always stays unused.
WriteChunks(n) ==
  IF writePos < readPos THEN Chunks(readPos - writePos - 1, 0, n)
  ELSE IF readPos > 0   THEN Chunks(Size - writePos, readPos - 1, n)
                        ELSE Chunks(Size - writePos - 1, 0, n)

\* The buffer with the first n bytes of d copied in behind writePos.
CopyIn(d, a, n) ==
  [i \in Index |->
     IF i - writePos \in 0 .. Least(a, n) - 1 THEN d[i - writePos + 1]
     ELSE IF a + i < n THEN d[a + i + 1]
     ELSE buffer[i]]
-------------------------------------------------------------------------------
\* CreatePipe, with CreateNode using the free Pipe again.
CreateNode ==
  /\ free
  /\ free' = FALSE
  /\ readPos' = 0
  /\ writePos' = 0
  /\ ends' = Writers \cup Readers
  /\ UNCHANGED <<buffer, sending, asking, got>>

\* Close of a descriptor; the last one brings the node to DestroyNode.  A program
\* whose threads close a descriptor under a call on it is not modelled.
Close(p) ==
  /\ p \in ends
  /\ p \in Writers => sending[p] = <<>>
  /\ p \in Readers => asking[p] = NoCall
  /\ ends' = ends \ {p}
  /\ free' = (ends' = {})
  /\ UNCHANGED <<readPos, writePos, buffer, sending, asking, got>>

\* WriteNodeData is called.
WriteNodeData(w, d) ==
  /\ w \in ends
  /\ sending[w] = <<>>
  /\ sending' = [sending EXCEPT ![w] = d]
  /\ UNCHANGED <<free, readPos, writePos, buffer, ends, asking, got>>

\* Mutant: writePos is not brought back to the start of the buffer.
WriteBeyond(w) ==
  /\ sending[w] # <<>>
  /\ LET c == WriteChunks(Len(sending[w]))
         n == c[1] + c[2]
     IN  /\ n > 0
         /\ buffer' = CopyIn(sending[w], c[1], n)
         /\ writePos' = writePos + n
         /\ sending' = [sending EXCEPT ![w] = SubSeq(@, n + 1, Len(@))]
  /\ UNCHANGED <<free, readPos, ends, asking, got>>

\* _Write puts in what fits; WriteNodeData returns when nothing is left.
Write(w) ==
  /\ sending[w] # <<>>
  /\ LET c == WriteChunks(Len(sending[w]))
         n == c[1] + c[2]
     IN  /\ n > 0
         /\ buffer' = CopyIn(sending[w], c[1], n)
         /\ writePos' = IF writePos < readPos \/ readPos = 0
                         THEN writePos + n ELSE (writePos + n) % Size
         /\ sending' = [sending EXCEPT ![w] = SubSeq(@, n + 1, Len(@))]
  /\ UNCHANGED <<free, readPos, ends, asking, got>>

\* The user's memory ends after n bytes: some were copied, none counts.
WriteFault(w) ==
  /\ sending[w] # <<>>
  /\ LET c == WriteChunks(Len(sending[w]))
     IN  \E n \in 0 .. c[1] + c[2] - 1 : buffer' = CopyIn(sending[w], c[1], n)
  /\ sending' = [sending EXCEPT ![w] = <<>>]
  /\ UNCHANGED <<free, readPos, writePos, ends, asking, got>>

\* ReadNodeData is called.
ReadNodeData(r, n) ==
  /\ r \in ends
  /\ asking[r] = NoCall
  /\ asking' = [asking EXCEPT ![r] = n]
  /\ UNCHANGED <<free, readPos, writePos, buffer, ends, sending, got>>

\* _Read takes out at least one byte, and ReadNodeData returns.
Read(r) ==
  /\ asking[r] # NoCall
  /\ LET c == ReadChunks(asking[r])
         n == c[1] + c[2]
     IN  /\ n > 0
         /\ got' = [got EXCEPT ![r] =
                      [i \in 1 .. n |-> IF i <= c[1] THEN buffer[readPos + i - 1]
                                                     ELSE buffer[i - c[1] - 1]]]
         /\ readPos' = IF readPos < writePos THEN readPos + n
                                             ELSE (readPos + n) % Size
  /\ asking' = [asking EXCEPT ![r] = NoCall]
  /\ UNCHANGED <<free, writePos, buffer, ends, sending>>

\* The user's memory cannot be written: nothing is taken out.
ReadFault(r) ==
  /\ asking[r] # NoCall
  /\ ReadChunks(asking[r]) # <<0, 0>>
  /\ asking' = [asking EXCEPT ![r] = NoCall]
  /\ UNCHANGED <<free, readPos, writePos, buffer, ends, sending, got>>

Next ==
  \/ CreateNode
  \/ \E p \in Writers \cup Readers : Close(p)
  \/ \E w \in Writers : Write(w) \/ WriteFault(w)
                          \/ \E d \in Data : WriteNodeData(w, d)
  \/ \E r \in Readers : Read(r) \/ ReadFault(r)
                          \/ \E n \in 0 .. MaxRead : ReadNodeData(r, n)

\* A thread that yields gets the processor again (ReadyRuns of module Scheduler),
\* and finds the lock of the pipe free again and again.
Fairness == /\ \A w \in Writers : SF_vars(Write(w))
            /\ \A r \in Readers : SF_vars(Read(r))

Spec == Init /\ [][Next]_vars /\ Fairness
-------------------------------------------------------------------------------
\* The bytes in the ring, oldest first.
Content ==
  LET n == IF readPos <= writePos THEN writePos - readPos
                                  ELSE Size - readPos + writePos
  IN  [i \in 1 .. n |-> buffer[(readPos + i - 1) % Size]]

B == INSTANCE ByteStream WITH
       Capacity <- Size - 1,
       stream   <- IF free THEN <<>> ELSE Content

\* The ring buffer is a first-in first-out stream of Size - 1 bytes, also where
\* chunks wrap, a copy faults half-way and the Pipe is used again.
ImplementsStream == B!Spec

\* A read that yields for want of bytes returns once a byte is there, if it is the
\* only reader's (as in the run; of two readers the other may take the byte).
ReadReturns ==
  \A r \in Readers :
    asking[r] > 0 /\ readPos # writePos ~> asking[r] = NoCall

\* A write returns if somebody goes on reading.
WriteReturns ==
  (\A r \in Readers : []<>(asking[r] > 0))
    => \A w \in Writers : sending[w] # <<>> ~> sending[w] = <<>>

\* ReadNodeData "returns 0 on eof": a read returns once no writer is left.
ReadEndsAtEof ==
  \A r \in Readers :
    asking[r] # NoCall /\ ends \cap Writers = {} ~> asking[r] = NoCall
===============================================================================
