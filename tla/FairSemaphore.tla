----------------------------- MODULE FairSemaphore -----------------------------
(***************************************************************************)
(* What QueueLock promises: a semaphore that serves the waiting threads in *)
(* the order in which they asked.                                          *)
(***************************************************************************)
EXTENDS AnchorList, Naturals

CONSTANTS Thread, Initial

VARIABLES free,   \* permits that nobody has
          line,   \* the waiting threads
          owners  \* the threads that have a permit

sem == <<free, line, owners>>

Init == free = Initial /\ line = EmptyList /\ owners = {}

\* A thread gets a permit, or waits when there is none.
Take(t) == /\ t \notin owners \cup line.elems
           /\ free > 0
           /\ free' = free - 1
           /\ owners' = owners \cup {t}
           /\ UNCHANGED line

Wait(t) == /\ t \notin owners \cup line.elems
           /\ free = 0
           /\ line' = PushBack(line, t)
           /\ UNCHANGED <<free, owners>>

\* A permit comes back from the threads in S, at most one: the first waiting
\* thread has it at once.
Give(S) ==
  /\ \/ /\ line.elems = {}
        /\ free' = free + 1
        /\ owners' = owners \ S
        /\ UNCHANGED line
     \/ \E w \in line.elems :
          /\ IsFirstIn(line, line.elems, w)
          /\ line' = Erase(line, {w})
          /\ owners' = (owners \ S) \cup {w}
          /\ UNCHANGED free

Release(t) == t \in owners /\ Give({t})

\* AcpiOsSignalSemaphore: a permit that no thread had.
Signal == Give({})

Next == Signal \/ \E t \in Thread : Take(t) \/ Wait(t) \/ Release(t)

Spec == Init /\ [][Next]_sem
===============================================================================
