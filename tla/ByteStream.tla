------------------------------ MODULE ByteStream ------------------------------
(***************************************************************************)
(* What a pipe promises: a bounded first-in first-out stream of bytes.     *)
(***************************************************************************)
EXTENDS Integers, Sequences

CONSTANTS Writers, Readers,
          Capacity,  \* bytes the stream can hold
          Data,      \* what a write may carry
          MaxRead    \* bound: the largest read

VARIABLES stream,   \* the bytes written and not yet read
          ends,     \* who still has the pipe open
          sending,  \* sending[w]: the bytes a write has still to put in
          asking,   \* asking[r]: the size of a read in progress, or NoCall
          got       \* got[r]: the result of the last read

all == <<stream, ends, sending, asking, got>>

NoCall == -1
Least(a, b) == IF a <= b THEN a ELSE b
Drop(s, n) == SubSeq(s, n + 1, Len(s))
Take(s, n) == SubSeq(s, 1, n)

Init ==
  /\ stream = <<>>
  /\ ends = {}
  /\ sending = [w \in Writers |-> <<>>]
  /\ asking = [r \in Readers |-> NoCall]
  /\ got = [r \in Readers |-> <<>>]

Open == /\ ends = {}
        /\ ends' = Writers \cup Readers
        /\ UNCHANGED <<stream, sending, asking, got>>

\* The bytes left in the stream are gone when the last end closes.
Close(p) == /\ p \in ends
            /\ ends' = ends \ {p}
            /\ stream' = IF ends' = {} THEN <<>> ELSE stream
            /\ UNCHANGED <<sending, asking, got>>

Write(w, d) == /\ w \in ends
               /\ sending[w] = <<>>
               /\ sending' = [sending EXCEPT ![w] = d]
               /\ UNCHANGED <<stream, ends, asking, got>>

\* As many bytes as there is room for go in, in order.
Put(w) == LET n == Least(Capacity - Len(stream), Len(sending[w]))
          IN  /\ stream' = stream \o Take(sending[w], n)
              /\ sending' = [sending EXCEPT ![w] = Drop(@, n)]
              /\ UNCHANGED <<ends, asking, got>>

\* A write whose memory cannot be read ends and puts in nothing more.
Abandon(w) == /\ sending' = [sending EXCEPT ![w] = <<>>]
              /\ UNCHANGED <<stream, ends, asking, got>>

Read(r, n) == /\ r \in ends
              /\ asking[r] = NoCall
              /\ asking' = [asking EXCEPT ![r] = n]
              /\ UNCHANGED <<stream, ends, sending, got>>

\* The oldest bytes come out, at least one and at most as many as asked for.
Get(r) == /\ asking[r] # NoCall
          /\ LET n == Least(Len(stream), asking[r])
             IN  /\ n > 0
                 /\ got' = [got EXCEPT ![r] = Take(stream, n)]
                 /\ stream' = Drop(stream, n)
          /\ asking' = [asking EXCEPT ![r] = NoCall]
          /\ UNCHANGED <<ends, sending>>

\* A read whose memory cannot be written ends and takes nothing out.
GiveUp(r) == /\ asking[r] # NoCall
             /\ asking' = [asking EXCEPT ![r] = NoCall]
             /\ UNCHANGED <<stream, ends, sending, got>>

Next ==
  \/ Open
  \/ \E p \in Writers \cup Readers : Close(p)
  \/ \E w \in Writers : Put(w) \/ Abandon(w) \/ \E d \in Data : Write(w, d)
  \/ \E r \in Readers : Get(r) \/ GiveUp(r) \/ \E n \in 0 .. MaxRead : Read(r, n)

Spec == Init /\ [][Next]_all
===============================================================================
