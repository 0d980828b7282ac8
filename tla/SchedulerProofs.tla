---------------------------- MODULE SchedulerProofs ----------------------------
(***************************************************************************)
(* Proof that the thread life cycle of module Scheduler is memory safe for *)
(* any number of threads.                                                  *)
(***************************************************************************)
EXTENDS Scheduler, AnchorListProofs

\* A ThreadInfo that was not created yet is as Init left it.
FreshInv == \A t \in Thread : state[t] = "NONE" =>
              pc[t] = "none" /\ main[t] = NoThread
MainInv == \A t \in Thread : state[t] # "NONE" =>
             main[t] \in Thread /\ state[main[t]] # "NONE"
CurrentInv == current \in Thread =>
                state[current] = "READY" /\ current \in activeList.elems
ActiveInv == \A t \in activeList.elems : state[t] \in Live
\* A thread that was not put on the processor's list yet is its cloner's alone,
\* and no thread has it as its main thread.
CloneInv == /\ \A t \in Thread : pc[t] = "clone1" =>
                 /\ jt[t] \in Thread \ activeList.elems
                 /\ state[jt[t]] = "READY"
                 /\ \A u \in Thread : main[u] = jt[t] => u = jt[t]
            /\ \A t \in Thread : pc[t] = "clone2" => jt[t] \in Thread
            /\ \A t, u \in Thread :
                 pc[t] = "clone1" /\ pc[u] = "clone1" /\ jt[t] = jt[u] => t = u
RegsInv == \A t \in regsUser : t # current => pc[t] = "user"
BlockInv == \A t \in Thread :
              /\ state[t] = "JOIN" =>
                   pc[t] \in {"joinResult", "killResult"} /\ t \notin interrupted
              /\ state[t] = "SLEEP" => pc[t] = "return"
              /\ t \in interrupted => pc[t] \in {"joinResult", "killResult"}
\* A tick has taken c off the processor's list.
Ended(c) == state[c] \in {"FINISHED", "EXITED"} /\ c \notin activeList.elems
\* A thread whose join was not interrupted waits for, or has seen, the exit.
ResultInv == \A t \in Thread :
               /\ pc[t] \in {"joinResult", "killResult"} /\ state[t] = "READY"
                    /\ t \notin interrupted => Ended(jt[t])
               /\ pc[t] = "joinDelete" => Ended(jt[t])
OwnedInv == /\ \A t, c \in Thread : c \in children[t] \/ Holds(t, c) =>
                 state[c] \notin {"NONE", "FREED"}
            /\ \A t \in Thread : pc[t] \in Holding => jt[t] \in Thread

IInv == /\ TypeOK /\ FreshInv /\ MainInv /\ CurrentInv /\ ActiveInv
        /\ CloneInv /\ RegsInv /\ BlockInv /\ ResultInv /\ OwnedInv
        /\ SingleOwner /\ NoOrphan
-------------------------------------------------------------------------------
\* FindNextThread only reorders the list, and a thread it returns is READY.
LEMMA NextThread ==
  ASSUME NEW l, NEW s, NEW next, IsList(l), FindNextThread(l, s, next)
  PROVE  /\ IsList(activeList')
         /\ activeList'.elems = l.elems
         /\ next \in Thread \cup {Idle}
         /\ next \in Thread => next \in l.elems /\ s[next] = "READY"
<1>1. CASE next \in Thread /\ IsFirstIn(l, ReadyIn(s), next)
             /\ activeList' = PushBack(Erase(l, {next}), next)
  <2>1. next \in l.elems /\ s[next] = "READY"
    BY <1>1 DEF IsFirstIn, ReadyIn
  <2>2. IsList(Erase(l, {next})) /\ Erase(l, {next}).elems = l.elems \ {next}
    BY EraseList
  <2>3. /\ IsList(PushBack(Erase(l, {next}), next))
        /\ PushBack(Erase(l, {next}), next).elems = (l.elems \ {next}) \cup {next}
    BY <2>2, PushBackList
  <2> QED
    BY <1>1, <2>1, <2>3
<1>2. CASE next = Idle /\ activeList' = l
  BY <1>2, SchedulerAssumption
<1> QED
  BY <1>1, <1>2 DEF FindNextThread

\* What giving the processor away does, whichever thread comes next.
LEMMA SwitchThread ==
  ASSUME NEW t \in Thread, NEW s, IsList(activeList), SwitchFrom(t, s)
  PROVE  /\ state' = s
         /\ IsList(activeList')
         /\ activeList'.elems = activeList.elems
         /\ current' \in Thread \cup {Idle}
         /\ current' \in Thread =>
              current' \in activeList.elems /\ s[current'] = "READY"
         /\ regsUser' \subseteq regsUser
         /\ t \in regsUser' => current' = t
<1>1. PICK next \in Thread \cup {Idle} :
        /\ FindNextThread(activeList, s, next)
        /\ current' = next
        /\ regsUser' = IF next = t THEN regsUser ELSE regsUser \ {t}
  BY DEF SwitchFrom
<1> QED
  BY <1>1, NextThread DEF SwitchFrom
-------------------------------------------------------------------------------
\* The state after boot satisfies the invariant.
LEMMA InitInv == Init => IInv
<1> SUFFICES ASSUME Init PROVE IInv
  OBVIOUS
<1> USE SchedulerAssumption DEF Init
<1>1. /\ activeList.elems = {FirstProcess, InitThread}
      /\ IsList(activeList)
  <2>1. IsList(EmptyList) /\ EmptyList.elems = {}
    BY DEF IsList, EmptyList
  <2>2. /\ IsList(PushBack(EmptyList, FirstProcess))
        /\ PushBack(EmptyList, FirstProcess).elems = {FirstProcess}
    BY <2>1, PushBackList
  <2> QED
    BY <2>2, PushBackList
<1>2. TypeOK
  BY <1>1 DEF TypeOK, State, Live, Blocked, PC, Holding
<1>3. FreshInv /\ MainInv /\ CurrentInv
  BY <1>1 DEF FreshInv, MainInv, CurrentInv
<1>4. ActiveInv /\ CloneInv /\ RegsInv /\ BlockInv /\ ResultInv
  BY <1>1 DEF ActiveInv, CloneInv, RegsInv, BlockInv, ResultInv, Ended, Live
<1>5. OwnedInv /\ SingleOwner /\ NoOrphan
  BY DEF OwnedInv, SingleOwner, NoOrphan, Holds, Holding, Live, Blocked
<1> QED
  BY <1>2, <1>3, <1>4, <1>5 DEF IInv

\* A step that only moves the current thread between places where it holds no
\* thread, and changes pending requests, keeps the invariant.
LEMMA QuietStep ==
  ASSUME IInv, TypeOK', NEW t \in Thread, current = t,
         NEW p \in {"user", "return", "exit", "finish"},
         pc[t] \in {"user", "return", "exit"}, Goto(t, p),
         exitOf' = [exitOf EXCEPT ![t] = exitOf'[t]],
         UNCHANGED <<state, interrupted, activeList, current, regsUser,
                     children, main, jt>>
  PROVE  IInv'
<1> USE DEF IInv, Goto
<1>1. pc' = [pc EXCEPT ![t] = p] /\ state[t] = "READY"
  BY DEF CurrentInv
<1>2. FreshInv' /\ MainInv' /\ CurrentInv' /\ ActiveInv'
  BY <1>1 DEF FreshInv, MainInv, CurrentInv, ActiveInv, TypeOK
<1>3. CloneInv' /\ RegsInv' /\ BlockInv'
  BY <1>1 DEF CloneInv, RegsInv, BlockInv, TypeOK
<1>4. \A u \in Thread : pc'[u] \in Holding <=> pc[u] \in Holding
  BY <1>1 DEF Holding, TypeOK
<1>5. \A u \in Thread : pc'[u] \in Holding => pc'[u] = pc[u]
  BY <1>1 DEF Holding, TypeOK
<1>6. ResultInv'
  BY <1>5 DEF ResultInv, Ended, Holding
<1>7. OwnedInv' /\ SingleOwner' /\ NoOrphan'
  BY <1>4 DEF OwnedInv, SingleOwner, NoOrphan, Holds
<1> QED
  BY <1>2, <1>3, <1>6, <1>7

\* CloneThread makes a new ThreadInfo and gives it to the main thread's list.
LEMMA CloneThreadInv ==
  ASSUME IInv, NEW t \in Thread, NEW new \in Thread,
         NEW b \in BOOLEAN, CloneThread(t, new, b)
  PROVE  IInv'
<1> USE DEF IInv, CloneThread, At
<1>1. TypeOK'
  BY DEF TypeOK, PC, State, Live
<1>2. FreshInv' /\ MainInv'
  BY DEF FreshInv, MainInv, TypeOK
<1>3. CurrentInv' /\ ActiveInv'
  BY DEF CurrentInv, ActiveInv
<1>4. RegsInv' /\ BlockInv'
  BY DEF RegsInv, BlockInv, FreshInv, TypeOK
<1>5. CloneInv'
  <2>1. main[t] \in Thread /\ state[main[t]] # "NONE"
    BY DEF MainInv, CurrentInv
  <2>2. \A u \in Thread : main[u] # new
    BY SchedulerAssumption DEF MainInv, FreshInv, TypeOK
  <2>3. \A u \in Thread : pc[u] = "clone1" => main[t] # jt[u]
    BY DEF CloneInv, CurrentInv
  <2>4. new \notin activeList.elems
    BY DEF ActiveInv, Live, Blocked
  <2>5. \A u \in Thread : pc'[u] = "clone1" =>
          /\ jt'[u] \in Thread \ activeList'.elems
          /\ state'[jt'[u]] = "READY"
    BY <2>4 DEF CloneInv, TypeOK
  <2>6. \A u, v \in Thread : pc'[u] = "clone1" /\ main'[v] = jt'[u] => v = jt'[u]
    BY <2>1, <2>2, <2>3 DEF CloneInv, TypeOK
  <2>7. \A u \in Thread : pc'[u] = "clone2" => jt'[u] \in Thread
    BY DEF CloneInv, TypeOK
  <2>8. \A u, v \in Thread :
          pc'[u] = "clone1" /\ pc'[v] = "clone1" /\ jt'[u] = jt'[v] => u = v
    BY DEF CloneInv, TypeOK
  <2> QED
    BY <2>5, <2>6, <2>7, <2>8 DEF CloneInv
<1>6. ResultInv'
  BY DEF ResultInv, Ended, TypeOK
<1>7. OwnedInv' /\ SingleOwner'
  BY DEF OwnedInv, SingleOwner, TypeOK, Holds, Holding
<1>8. NoOrphan'
  BY DEF NoOrphan, TypeOK, Holds, Holding, MainInv, FreshInv
<1> QED
  BY <1>1, <1>2, <1>3, <1>4, <1>5, <1>6, <1>7, <1>8

\* CloneThread puts the new thread, not linked before, on the processor's list.
LEMMA CloneActivateInv ==
  ASSUME IInv, NEW t \in Thread, CloneActivate(t)
  PROVE  IInv'
<1> USE DEF IInv, CloneActivate, At, Goto
<1>0. /\ jt[t] \in Thread /\ state[jt[t]] = "READY"
      /\ IsList(activeList')
      /\ activeList'.elems = activeList.elems \cup {jt[t]}
  BY PushBackList DEF TypeOK, CloneInv
<1>1. TypeOK'
  BY <1>0 DEF TypeOK, PC
<1>2. FreshInv' /\ MainInv'
  BY DEF FreshInv, MainInv
<1>3. CurrentInv' /\ ActiveInv'
  BY <1>0 DEF CurrentInv, ActiveInv
<1>4. RegsInv' /\ BlockInv'
  BY DEF RegsInv, BlockInv
<1>5. CloneInv'
  BY <1>0 DEF CloneInv, TypeOK
<1>6. ResultInv'
  BY <1>0 DEF ResultInv, Ended, TypeOK
<1>7. OwnedInv' /\ SingleOwner'
  BY DEF OwnedInv, SingleOwner, Holds, Holding
<1>8. NoOrphan'
  BY DEF NoOrphan, Holds, Holding
<1> QED
  BY <1>1, <1>2, <1>3, <1>4, <1>5, <1>6, <1>7, <1>8

\* CloneThread puts the new thread on g_GlobalThreadList.
LEMMA CloneRegisterInv ==
  ASSUME IInv, NEW t \in Thread, CloneRegister(t)
  PROVE  IInv'
<1> USE DEF IInv, CloneRegister, At, Goto, Return, NoSwitch
<1>1. TypeOK'
  BY DEF TypeOK, PC, CloneInv
<1>2. FreshInv' /\ MainInv'
  BY DEF FreshInv, MainInv
<1>3. CurrentInv' /\ ActiveInv'
  BY DEF CurrentInv, ActiveInv
<1>4. RegsInv' /\ BlockInv'
  BY DEF RegsInv, BlockInv
<1>5. CloneInv'
  BY DEF CloneInv, TypeOK
<1>6. ResultInv'
  BY DEF ResultInv, Ended
<1>7. OwnedInv' /\ SingleOwner'
  BY DEF OwnedInv, SingleOwner, Holds, Holding
<1>8. NoOrphan'
  BY DEF NoOrphan, Holds, Holding
<1> QED
  BY <1>1, <1>2, <1>3, <1>4, <1>5, <1>6, <1>7, <1>8

\* ThreadJoin becomes the owner of the child it takes off the list.
LEMMA ThreadJoinInv ==
  ASSUME IInv, NEW t \in Thread,
         NEW c \in Thread, ThreadJoin(t, c)
  PROVE  IInv'
<1> USE DEF IInv, ThreadJoin, At, Goto, NoSwitch
<1>1. TypeOK'
  BY DEF TypeOK, PC, Holding
<1>2. FreshInv' /\ MainInv'
  BY DEF FreshInv, MainInv
<1>3. CurrentInv' /\ ActiveInv'
  BY DEF CurrentInv, ActiveInv
<1>4. RegsInv' /\ BlockInv'
  BY DEF RegsInv, BlockInv
<1>5. CloneInv'
  BY DEF CloneInv
<1>6. ResultInv'
  BY DEF ResultInv, Ended
<1>7. OwnedInv' /\ SingleOwner'
  BY DEF OwnedInv, SingleOwner, TypeOK, Holds, MainInv, FreshInv
<1>8. NoOrphan'
  BY DEF NoOrphan, TypeOK, Holds, Holding
<1> QED
  BY <1>1, <1>2, <1>3, <1>4, <1>5, <1>6, <1>7, <1>8

\* ThreadJoin blocks and gives the processor away.
LEMMA JoinBlockInv ==
  ASSUME IInv, NEW t \in Thread, JoinBlock(t)
  PROVE  IInv'
<1> USE DEF IInv, JoinBlock, At, Goto, ThreadBlock
<1>0. /\ state' = [state EXCEPT ![t] = "JOIN"]
      /\ IsList(activeList') /\ activeList'.elems = activeList.elems
      /\ current' \in Thread \cup {Idle}
      /\ current' \in Thread =>
           current' \in activeList.elems /\ state'[current'] = "READY"
      /\ regsUser' \subseteq regsUser /\ (t \in regsUser' => current' = t)
  BY SwitchThread DEF TypeOK, ThreadBlock
<1>1. TypeOK'
  BY <1>0 DEF TypeOK, PC, Holding, State, Live, Blocked
<1>2. FreshInv' /\ MainInv'
  BY <1>0 DEF FreshInv, MainInv
<1>3. CurrentInv' /\ ActiveInv'
  BY <1>0 DEF CurrentInv, ActiveInv, Live, Blocked
<1>4. RegsInv' /\ BlockInv'
  BY <1>0 DEF RegsInv, BlockInv, TypeOK
<1>5. CloneInv'
  BY <1>0 DEF CloneInv, CurrentInv
<1>6. ResultInv'
  BY <1>0 DEF ResultInv, Ended, TypeOK, CurrentInv
<1>7. OwnedInv' /\ SingleOwner'
  BY <1>0 DEF OwnedInv, SingleOwner, Holds, Holding
<1>8. NoOrphan'
  BY <1>0 DEF NoOrphan, Holds, Holding, Live, CurrentInv
<1> QED
  BY <1>1, <1>2, <1>3, <1>4, <1>5, <1>6, <1>7, <1>8

\* An interrupted ThreadJoin gives the child back to the list.
LEMMA JoinInterruptedInv ==
  ASSUME IInv, NEW t \in Thread, JoinInterrupted(t)
  PROVE  IInv'
<1> USE DEF IInv, JoinInterrupted, At, Goto, Return, NoSwitch
<1>0. jt[t] \in Thread /\ main[t] \in Thread
  BY DEF OwnedInv, Holding, MainInv, CurrentInv
<1>1. TypeOK'
  BY <1>0 DEF TypeOK, PC
<1>2. FreshInv' /\ MainInv'
  BY DEF FreshInv, MainInv
<1>3. CurrentInv' /\ ActiveInv'
  BY DEF CurrentInv, ActiveInv
<1>4. RegsInv' /\ BlockInv'
  BY DEF RegsInv, BlockInv
<1>5. CloneInv'
  BY DEF CloneInv
<1>6. ResultInv'
  BY DEF ResultInv, Ended, TypeOK
<1>7. OwnedInv' /\ SingleOwner'
  BY DEF OwnedInv, SingleOwner, TypeOK, Holds, Holding
<1>8. NoOrphan'
  BY DEF NoOrphan, TypeOK, Holds, MainInv, FreshInv
<1> QED
  BY <1>1, <1>2, <1>3, <1>4, <1>5, <1>6, <1>7, <1>8

\* ThreadJoin saw the exit and unlinks the child from g_GlobalThreadList.
LEMMA JoinEraseInv ==
  ASSUME IInv, NEW t \in Thread, JoinErase(t)
  PROVE  IInv'
<1> USE DEF IInv, JoinErase, At, Goto, NoSwitch
<1>1. TypeOK'
  BY DEF TypeOK, PC, Holding
<1>2. FreshInv' /\ MainInv'
  BY DEF FreshInv, MainInv
<1>3. CurrentInv' /\ ActiveInv'
  BY DEF CurrentInv, ActiveInv
<1>4. RegsInv' /\ BlockInv'
  BY DEF RegsInv, BlockInv, CurrentInv
<1>5. CloneInv'
  BY DEF CloneInv
<1>6. ResultInv'
  BY DEF ResultInv, Ended, CurrentInv
<1>7. OwnedInv' /\ SingleOwner'
  BY DEF OwnedInv, SingleOwner, Holds, Holding
<1>8. NoOrphan'
  BY DEF NoOrphan, Holds, Live, Blocked, CurrentInv, ResultInv, Ended
<1> QED
  BY <1>1, <1>2, <1>3, <1>4, <1>5, <1>6, <1>7, <1>8

\* ThreadJoin deletes a child that no list, processor or thread refers to.
LEMMA JoinDeleteInv ==
  ASSUME IInv, NEW t \in Thread, JoinDelete(t)
  PROVE  IInv'
<1> USE DEF IInv, JoinDelete, At, Goto, Return, NoSwitch
<1>0. /\ jt[t] \in Thread /\ Ended(jt[t]) /\ jt[t] # current
      /\ jt[t] \notin activeList.elems
      /\ \A u \in Thread : pc[u] \in Holding /\ jt[u] = jt[t] => u = t
  BY DEF TypeOK, OwnedInv, ResultInv, Ended, CurrentInv, ActiveInv, SingleOwner,
         Holds, Holding, Live, Blocked
<1>1. TypeOK'
  BY DEF TypeOK, PC, State
<1>2. FreshInv' /\ MainInv'
  BY <1>0 DEF FreshInv, MainInv, TypeOK, Ended, CurrentInv
<1>3. CurrentInv' /\ ActiveInv'
  BY <1>0 DEF CurrentInv, ActiveInv
<1>4. RegsInv' /\ BlockInv'
  BY DEF RegsInv, BlockInv
<1>5. CloneInv'
  BY <1>0 DEF CloneInv, Ended, TypeOK
<1>6. ResultInv'
  BY <1>0 DEF ResultInv, Ended, TypeOK, Holding
<1>7. OwnedInv' /\ SingleOwner'
  BY DEF OwnedInv, SingleOwner, TypeOK, Holds, Holding
<1>8. NoOrphan'
  BY DEF NoOrphan, Holds, Live, Blocked, ResultInv, Ended
<1> QED
  BY <1>1, <1>2, <1>3, <1>4, <1>5, <1>6, <1>7, <1>8

\* ThreadTryJoin becomes the owner of an EXITED child.
LEMMA ThreadTryJoinInv ==
  ASSUME IInv, NEW t \in Thread,
         NEW c \in Thread, ThreadTryJoin(t, c)
  PROVE  IInv'
<1> USE DEF IInv, ThreadTryJoin, At, Goto, NoSwitch
<1>1. TypeOK'
  BY DEF TypeOK, PC, Holding
<1>2. FreshInv' /\ MainInv'
  BY DEF FreshInv, MainInv
<1>3. CurrentInv' /\ ActiveInv'
  BY DEF CurrentInv, ActiveInv
<1>4. RegsInv' /\ BlockInv'
  BY DEF RegsInv, BlockInv
<1>5. CloneInv'
  BY DEF CloneInv
<1>6. ResultInv'
  BY DEF ResultInv, Ended, TypeOK, ActiveInv, Live, Blocked
<1>7. OwnedInv' /\ SingleOwner'
  BY DEF OwnedInv, SingleOwner, TypeOK, Holds, MainInv, FreshInv
<1>8. NoOrphan'
  BY DEF NoOrphan, Holds, Holding, Live, Blocked
<1> QED
  BY <1>1, <1>2, <1>3, <1>4, <1>5, <1>6, <1>7, <1>8

\* ThreadDetach becomes the owner of the child it takes off the list.
LEMMA ThreadDetachInv ==
  ASSUME IInv, NEW t \in Thread,
         NEW c \in Thread, ThreadDetach(t, c)
  PROVE  IInv'
<1> USE DEF IInv, ThreadDetach, At, Goto, NoSwitch
<1>1. TypeOK'
  BY DEF TypeOK, PC, Holding
<1>2. FreshInv' /\ MainInv'
  BY DEF FreshInv, MainInv
<1>3. CurrentInv' /\ ActiveInv'
  BY DEF CurrentInv, ActiveInv
<1>4. RegsInv' /\ BlockInv'
  BY DEF RegsInv, BlockInv
<1>5. CloneInv'
  BY DEF CloneInv
<1>6. ResultInv'
  BY DEF ResultInv, Ended
<1>7. OwnedInv' /\ SingleOwner'
  BY DEF OwnedInv, SingleOwner, TypeOK, Holds, MainInv, FreshInv
<1>8. NoOrphan'
  BY DEF NoOrphan, TypeOK, Holds, Holding
<1> QED
  BY <1>1, <1>2, <1>3, <1>4, <1>5, <1>6, <1>7, <1>8

\* ThreadDetach gives the child to the init thread.
LEMMA DetachAttachInv ==
  ASSUME IInv, NEW t \in Thread, DetachAttach(t)
  PROVE  IInv'
<1> USE DEF IInv, DetachAttach, At, Goto, Return, NoSwitch
<1>1. TypeOK'
  BY DEF TypeOK, PC, OwnedInv
<1>2. FreshInv' /\ MainInv'
  BY DEF FreshInv, MainInv
<1>3. CurrentInv' /\ ActiveInv'
  BY DEF CurrentInv, ActiveInv
<1>4. RegsInv' /\ BlockInv'
  BY DEF RegsInv, BlockInv
<1>5. CloneInv'
  BY DEF CloneInv
<1>6. ResultInv'
  BY DEF ResultInv, Ended
<1>7. OwnedInv' /\ SingleOwner'
  BY DEF OwnedInv, SingleOwner, TypeOK, Holds, Holding
<1>8. NoOrphan'
  BY SchedulerAssumption DEF NoOrphan, TypeOK, Holds
<1> QED
  BY <1>1, <1>2, <1>3, <1>4, <1>5, <1>6, <1>7, <1>8

\* ThreadSleep blocks and gives the processor away.
LEMMA ThreadSleepInv ==
  ASSUME IInv, NEW t \in Thread, ThreadSleep(t)
  PROVE  IInv'
<1> USE DEF IInv, ThreadSleep, At, Goto, ThreadBlock
<1>0. /\ state' = [state EXCEPT ![t] = "SLEEP"]
      /\ IsList(activeList') /\ activeList'.elems = activeList.elems
      /\ current' \in Thread \cup {Idle}
      /\ current' \in Thread =>
           current' \in activeList.elems /\ state'[current'] = "READY"
      /\ regsUser' \subseteq regsUser /\ (t \in regsUser' => current' = t)
  BY SwitchThread DEF TypeOK, ThreadBlock
<1>1. TypeOK'
  BY <1>0 DEF TypeOK, PC, State, Live, Blocked
<1>2. FreshInv' /\ MainInv'
  BY <1>0 DEF FreshInv, MainInv
<1>3. CurrentInv' /\ ActiveInv'
  BY <1>0 DEF CurrentInv, ActiveInv, Live, Blocked
<1>4. RegsInv' /\ BlockInv'
  BY <1>0 DEF RegsInv, BlockInv, TypeOK
<1>5. CloneInv'
  BY <1>0 DEF CloneInv, CurrentInv
<1>6. ResultInv'
  BY <1>0 DEF ResultInv, Ended, CurrentInv
<1>7. OwnedInv' /\ SingleOwner'
  BY <1>0 DEF OwnedInv, SingleOwner, Holds, Holding
<1>8. NoOrphan'
  BY <1>0 DEF NoOrphan, Holds, Holding, Live, CurrentInv
<1> QED
  BY <1>1, <1>2, <1>3, <1>4, <1>5, <1>6, <1>7, <1>8

\* ThreadYield gives the processor away.
LEMMA ThreadYieldInv ==
  ASSUME IInv, NEW t \in Thread, ThreadYield(t)
  PROVE  IInv'
<1> USE DEF IInv, ThreadYield, At, Goto
<1>0. /\ state' = state
      /\ IsList(activeList') /\ activeList'.elems = activeList.elems
      /\ current' \in Thread \cup {Idle}
      /\ current' \in Thread =>
           current' \in activeList.elems /\ state'[current'] = "READY"
      /\ regsUser' \subseteq regsUser /\ (t \in regsUser' => current' = t)
  BY SwitchThread DEF TypeOK
<1>1. TypeOK'
  BY <1>0 DEF TypeOK, PC
<1>2. FreshInv' /\ MainInv'
  BY <1>0 DEF FreshInv, MainInv
<1>3. CurrentInv' /\ ActiveInv'
  BY <1>0 DEF CurrentInv, ActiveInv
<1>4. RegsInv' /\ BlockInv'
  BY <1>0 DEF RegsInv, BlockInv
<1>5. CloneInv'
  BY <1>0 DEF CloneInv
<1>6. ResultInv'
  BY <1>0 DEF ResultInv, Ended
<1>7. OwnedInv' /\ SingleOwner'
  BY <1>0 DEF OwnedInv, SingleOwner, Holds, Holding
<1>8. NoOrphan'
  BY <1>0 DEF NoOrphan, Holds, Holding
<1> QED
  BY <1>1, <1>2, <1>3, <1>4, <1>5, <1>6, <1>7, <1>8

\* KillChildThreads becomes the owner of the child it aborts.
LEMMA KillChildInv ==
  ASSUME IInv, NEW t \in Thread, NEW c \in Thread, KillChild(t, c)
  PROVE  IInv'
<1> USE DEF IInv, KillChild, At, Goto, NoSwitch, ExitTarget
<1>1. TypeOK'
  BY DEF TypeOK, PC, Holding
<1>2. FreshInv' /\ MainInv'
  BY DEF FreshInv, MainInv
<1>3. CurrentInv' /\ ActiveInv'
  BY DEF CurrentInv, ActiveInv
<1>4. RegsInv' /\ BlockInv'
  BY DEF RegsInv, BlockInv
<1>5. CloneInv'
  BY DEF CloneInv
<1>6. ResultInv'
  BY DEF ResultInv, Ended
<1>7. OwnedInv' /\ SingleOwner'
  BY DEF OwnedInv, SingleOwner, TypeOK, Holds, MainInv, FreshInv
<1>8. NoOrphan'
  BY DEF NoOrphan, TypeOK, Holds, Holding
<1> QED
  BY <1>1, <1>2, <1>3, <1>4, <1>5, <1>6, <1>7, <1>8

\* KillChildThreads requests the end of the child.
LEMMA KillAbortInv ==
  ASSUME IInv, NEW t \in Thread, KillAbort(t)
  PROVE  IInv'
<1> USE DEF IInv, KillAbort, At, Goto, NoSwitch
<1>0. jt[t] \in Thread
  BY DEF OwnedInv, Holding
<1>1. TypeOK'
  BY <1>0 DEF TypeOK, PC, Holding
<1>2. FreshInv' /\ MainInv'
  BY DEF FreshInv, MainInv
<1>3. CurrentInv' /\ ActiveInv'
  BY DEF CurrentInv, ActiveInv
<1>4. RegsInv' /\ BlockInv'
  BY DEF RegsInv, BlockInv
<1>5. CloneInv'
  BY DEF CloneInv
<1>6. ResultInv'
  BY DEF ResultInv, Ended
<1>7. OwnedInv' /\ SingleOwner'
  BY DEF OwnedInv, SingleOwner, TypeOK, Holds, Holding
<1>8. NoOrphan'
  BY DEF NoOrphan, TypeOK, Holds, Holding
<1> QED
  BY <1>1, <1>2, <1>3, <1>4, <1>5, <1>6, <1>7, <1>8

\* KillChildThreads blocks until the child exits.
LEMMA KillBlockInv ==
  ASSUME IInv, NEW t \in Thread, KillBlock(t)
  PROVE  IInv'
<1> USE DEF IInv, KillBlock, At, Goto, ThreadBlock
<1>0. /\ state' = [state EXCEPT ![t] = "JOIN"]
      /\ IsList(activeList') /\ activeList'.elems = activeList.elems
      /\ current' \in Thread \cup {Idle}
      /\ current' \in Thread =>
           current' \in activeList.elems /\ state'[current'] = "READY"
      /\ regsUser' \subseteq regsUser /\ (t \in regsUser' => current' = t)
  BY SwitchThread DEF TypeOK, ThreadBlock
<1>1. TypeOK'
  BY <1>0 DEF TypeOK, PC, Holding, State, Live, Blocked
<1>2. FreshInv' /\ MainInv'
  BY <1>0 DEF FreshInv, MainInv
<1>3. CurrentInv' /\ ActiveInv'
  BY <1>0 DEF CurrentInv, ActiveInv, Live, Blocked
<1>4. RegsInv' /\ BlockInv'
  BY <1>0 DEF RegsInv, BlockInv, TypeOK
<1>5. CloneInv'
  BY <1>0 DEF CloneInv, CurrentInv
<1>6. ResultInv'
  BY <1>0 DEF ResultInv, Ended, TypeOK, CurrentInv
<1>7. OwnedInv' /\ SingleOwner'
  BY <1>0 DEF OwnedInv, SingleOwner, Holds, Holding
<1>8. NoOrphan'
  BY <1>0 DEF NoOrphan, Holds, Holding, Live, CurrentInv
<1> QED
  BY <1>1, <1>2, <1>3, <1>4, <1>5, <1>6, <1>7, <1>8

\* KillChildThreads puts a child back when its wait was interrupted.
LEMMA KillResultInv ==
  ASSUME IInv, NEW t \in Thread, KillResult(t)
  PROVE  IInv'
<1> USE DEF IInv, KillResult, At, Goto, NoSwitch, ExitTarget
<1>0. jt[t] \in Thread
  BY DEF OwnedInv, Holding
<1>1. TypeOK'
  BY <1>0 DEF TypeOK, PC
<1>2. FreshInv' /\ MainInv'
  BY DEF FreshInv, MainInv
<1>3. CurrentInv' /\ ActiveInv'
  BY DEF CurrentInv, ActiveInv
<1>4. RegsInv' /\ BlockInv'
  BY DEF RegsInv, BlockInv, CurrentInv
<1>5. CloneInv'
  BY DEF CloneInv
<1>6. ResultInv'
  BY DEF ResultInv, Ended, TypeOK
<1>7. OwnedInv' /\ SingleOwner'
  BY DEF OwnedInv, SingleOwner, TypeOK, Holds, Holding
<1>8. NoOrphan'
  BY DEF NoOrphan, TypeOK, Holds, Live, Blocked, CurrentInv, MainInv, ResultInv, Ended
<1> QED
  BY <1>1, <1>2, <1>3, <1>4, <1>5, <1>6, <1>7, <1>8

\* The end of ThreadExit and ProcessDoExit: the caller or its main thread ends.
LEMMA ExitFinishInv ==
  ASSUME IInv, NEW t \in Thread, ExitFinish(t)
  PROVE  IInv'
<1> USE DEF IInv, ExitFinish, At, Goto
<1>a. PICK c \in Thread : c = ExitTarget(t) /\ (c = t \/ c = main[t])
  BY DEF ExitTarget, MainInv, CurrentInv
<1>b. state[c] # "NONE" /\ state[t] = "READY" /\ t \in activeList.elems
  BY <1>a DEF MainInv, CurrentInv
<1>0. /\ state' = [state EXCEPT ![c] = IF @ = "FREED" THEN @ ELSE "FINISHED"]
      /\ IsList(activeList') /\ activeList'.elems = activeList.elems
      /\ current' \in Thread \cup {Idle}
      /\ current' \in Thread =>
           current' \in activeList.elems /\ state'[current'] = "READY"
      /\ regsUser' \subseteq regsUser /\ (t \in regsUser' => current' = t)
  BY <1>a, SwitchThread DEF TypeOK
<1>c. \A u \in Thread : state'[u] = IF u = c /\ state[c] # "FREED" THEN "FINISHED"
                                   ELSE state[u]
  BY <1>0 DEF TypeOK
<1>d. \A u \in Thread : Ended(u) => Ended(u)'
  BY <1>0, <1>c DEF Ended
<1>1. TypeOK'
  BY <1>0, <1>c DEF TypeOK, PC, State, Live
<1>2. FreshInv' /\ MainInv'
  BY <1>0, <1>b, <1>c DEF FreshInv, MainInv, TypeOK
<1>3. CurrentInv' /\ ActiveInv'
  BY <1>0, <1>c DEF CurrentInv, ActiveInv, Live, TypeOK
<1>4. RegsInv' /\ BlockInv'
  BY <1>0, <1>b, <1>c DEF RegsInv, BlockInv, TypeOK
<1>5. CloneInv'
  BY <1>0, <1>a, <1>b, <1>c DEF CloneInv, TypeOK, CurrentInv
<1>6. ResultInv'
  BY <1>0, <1>b, <1>c, <1>d DEF ResultInv, OwnedInv, Holding, TypeOK
<1>7. OwnedInv' /\ SingleOwner'
  <2>1. OwnedInv'
    BY <1>0, <1>c, SchedulerAssumption DEF OwnedInv, TypeOK, Holds, Holding
  <2>2. \A u, e \in Thread : Holds(u, e)' => Holds(u, e)
    BY SchedulerAssumption DEF TypeOK, Holds, Holding
  <2>3. SingleOwner'
    <3>1. UNCHANGED children
      OBVIOUS
    <3> QED
      BY <2>2, <3>1 DEF SingleOwner
  <2> QED
    BY <2>1, <2>3
<1>8. NoOrphan'
  BY <1>0, <1>b, <1>c DEF NoOrphan, TypeOK, Holds, Holding, Blocked
<1> QED
  BY <1>1, <1>2, <1>3, <1>4, <1>5, <1>6, <1>7, <1>8

\* Requests that end at once (ThreadKillSig, ThreadAbort, handle_kill and calls
\* that concern no thread), ThreadCheckFlags and the start of an exit.
LEMMA QuietInv ==
  ASSUME IInv, NEW t \in Thread,
         \/ \E c \in Thread : ThreadKill(t, c) \/ ThreadAbort(t, c)
         \/ HandleKill(t) \/ OtherSyscall(t) \/ ThreadCheckFlags(t)
         \/ ThreadExit(t) \/ ProcessDoExit(t) \/ KillChildThreadsDone(t)
  PROVE  IInv'
<1> USE DEF At, Goto, NoSwitch
<1>1. ASSUME NEW c \in Thread, ThreadKill(t, c) \/ ThreadAbort(t, c)
      PROVE  IInv'
  <2>1. TypeOK'
    BY <1>1 DEF IInv, TypeOK, ThreadKill, ThreadAbort, PC
  <2> QED
    BY <1>1, <2>1, QuietStep DEF ThreadKill, ThreadAbort, IInv, TypeOK
<1>2. CASE HandleKill(t) \/ OtherSyscall(t)
  <2>1. TypeOK'
    BY <1>2 DEF IInv, TypeOK, HandleKill, OtherSyscall, PC
  <2> QED
    BY <1>2, <2>1, QuietStep DEF HandleKill, OtherSyscall, IInv, TypeOK
<1>3. CASE ThreadCheckFlags(t)
  <2>1. TypeOK'
    BY <1>3 DEF IInv, TypeOK, ThreadCheckFlags, PC
  <2> QED
    BY <1>3, <2>1, QuietStep DEF ThreadCheckFlags, IInv, TypeOK
<1>4. CASE ThreadExit(t) \/ ProcessDoExit(t)
  <2>1. TypeOK'
    BY <1>4 DEF IInv, TypeOK, ThreadExit, ProcessDoExit, PC
  <2> QED
    BY <1>4, <2>1, QuietStep DEF ThreadExit, ProcessDoExit, IInv, TypeOK
<1>5. CASE KillChildThreadsDone(t) /\ exitOf[t] = "process"
  <2>1. TypeOK'
    BY <1>5 DEF IInv, TypeOK, KillChildThreadsDone
  <2> QED
    BY <1>5, <2>1, QuietStep DEF KillChildThreadsDone, IInv, TypeOK
<1>6. CASE KillChildThreadsDone(t) /\ exitOf[t] # "process"
  <2>1. TypeOK'
    BY <1>6 DEF IInv, TypeOK, KillChildThreadsDone, PC
  <2> QED
    BY <1>6, <2>1, QuietStep DEF KillChildThreadsDone, IInv, TypeOK
<1> QED
  BY <1>1, <1>2, <1>3, <1>4, <1>5, <1>6

\* The timer interrupt: a thread leaves the list only when it becomes EXITED, and
\* a joiner is woken only by the exit it waits for or by a request (Tick).
LEMMA TickInv ==
  ASSUME IInv, Tick
  PROVE  IInv'
<1> USE DEF IInv
<1>1. PICK slept \in SUBSET Sleepers, next \in Thread \cup {Idle} :
        /\ state' = UpdateEvents(slept)
        /\ FindNextThread(Erase(activeList, Finished), state', next)
        /\ current' = next
  BY DEF Tick
<1>2. /\ IsList(activeList')
      /\ activeList'.elems = activeList.elems \ Finished
      /\ current' \in Thread \cup {Idle}
      /\ current' \in Thread =>
           current' \in activeList'.elems /\ state'[current'] = "READY"
  <2>1. /\ IsList(Erase(activeList, Finished))
        /\ Erase(activeList, Finished).elems = activeList.elems \ Finished
    BY EraseList DEF TypeOK
  <2> QED
    BY <1>1, <2>1, NextThread
<1>3. \* What UpdateEvents does to the state of one thread.
      \A t \in Thread :
        /\ t \in Finished =>
             t \in activeList.elems /\ state[t] = "FINISHED" /\ state'[t] = "EXITED"
        /\ t \notin Finished /\ state'[t] # state[t] =>
             /\ t \in activeList.elems /\ state[t] \in Blocked
             /\ state'[t] = "READY"
             /\ t \in Interrupted \/ t \in JoinDone \/ state[t] = "SLEEP"
        /\ t \in Interrupted => state'[t] = "READY"
        /\ state[t] = "EXITED" => state'[t] = "EXITED"
  <2> SUFFICES ASSUME NEW t \in Thread
               PROVE  /\ t \in Finished =>
                           /\ t \in activeList.elems /\ state[t] = "FINISHED"
                           /\ state'[t] = "EXITED"
                      /\ t \notin Finished /\ state'[t] # state[t] =>
                           /\ t \in activeList.elems /\ state[t] \in Blocked
                           /\ state'[t] = "READY"
                           /\ t \in Interrupted \/ t \in JoinDone \/ state[t] = "SLEEP"
                      /\ t \in Interrupted => state'[t] = "READY"
                      /\ state[t] = "EXITED" => state'[t] = "EXITED"
    OBVIOUS
  <2>1. state'[t] = IF t \in Finished THEN "EXITED"
                    ELSE IF t \in Interrupted \cup JoinDone \cup slept THEN "READY"
                    ELSE state[t]
    BY <1>1 DEF UpdateEvents
  <2> QED
    BY <1>1, <2>1 DEF Finished, Interrupted, JoinDone, Sleepers, Blocked
<1>4. state' \in [Thread -> State]
  BY <1>1, <1>3 DEF TypeOK, UpdateEvents, State, Live, Blocked
<1>5. \A t \in Redirected \ {current} :
        t \in Thread /\ pc[t] = "user" /\ state[t] = "READY"
  BY DEF Redirected, Aborted, Killed, InUserMode, RegsInv, TypeOK
<1>6. /\ pc' = [t \in Thread |->
                  IF t \in Redirected \ {current} THEN "exit" ELSE pc[t]]
      /\ exitOf' = [t \in Thread |->
                      IF t \in Redirected \ {current} THEN "thread" ELSE exitOf[t]]
      /\ regsUser' = {t \in Thread :
                        IF t = current THEN pc[t] = "user"
                                       ELSE t \in regsUser \ Redirected}
      /\ interrupted' = interrupted \cup {t \in Interrupted : state[t] = "JOIN"}
      /\ UNCHANGED <<children, globalList, main, handler, jt, sticky>>
  BY DEF Tick
<1>7. TypeOK'
  <2>1. killPending' \subseteq Thread /\ abortPending' \subseteq Thread
    BY DEF Tick, TypeOK
  <2> QED
    BY <1>2, <1>4, <1>6, <2>1
       DEF TypeOK, Interrupted, PC, Holding
<1>8. FreshInv' /\ MainInv'
  BY <1>3, <1>5, <1>6 DEF FreshInv, MainInv, TypeOK, Blocked
<1>9. CurrentInv' /\ ActiveInv'
  BY <1>2, <1>3 DEF CurrentInv, ActiveInv, TypeOK, Live, Blocked, Finished
<1>10. RegsInv'
  BY <1>5, <1>6 DEF RegsInv, TypeOK
<1>11. BlockInv'
  <2> SUFFICES ASSUME NEW t \in Thread
               PROVE  /\ state'[t] = "JOIN" =>
                           /\ pc'[t] \in {"joinResult", "killResult"}
                           /\ t \notin interrupted'
                      /\ state'[t] = "SLEEP" => pc'[t] = "return"
                      /\ t \in interrupted' =>
                           pc'[t] \in {"joinResult", "killResult"}
    BY DEF BlockInv
  <2>1. state'[t] \in Blocked => state'[t] = state[t] /\ t \notin Interrupted
    BY <1>3 DEF Blocked
  <2>2. pc[t] # "user" => pc'[t] = pc[t]
    BY <1>5, <1>6
  <2>3. t \in interrupted' =>
          t \in interrupted \/ (t \in Interrupted /\ state[t] = "JOIN")
    BY <1>6
  <2> QED
    BY <2>1, <2>2, <2>3 DEF BlockInv, Blocked
<1>12. CloneInv'
  BY <1>2, <1>3, <1>5, <1>6 DEF CloneInv, TypeOK, Blocked
<1>13a. \A c \in Thread : Ended(c) \/ c \in Finished => Ended(c)'
  BY <1>2, <1>3 DEF Ended, Blocked
<1>13. ResultInv'
  <2> SUFFICES ASSUME NEW t \in Thread
               PROVE  /\ pc'[t] \in {"joinResult", "killResult"}
                           /\ state'[t] = "READY" /\ t \notin interrupted'
                           => Ended(jt[t])'
                      /\ pc'[t] = "joinDelete" => Ended(jt[t])'
    BY <1>6 DEF ResultInv, Ended
  <2>1. pc'[t] \in {"joinResult", "killResult", "joinDelete"} =>
          pc'[t] = pc[t] /\ jt[t] \in Thread
    BY <1>6 DEF OwnedInv, Holding, TypeOK
  <2>2. CASE pc'[t] = "joinDelete"
    BY <1>6, <1>13a, <2>1, <2>2 DEF ResultInv, Ended
  <2>3. CASE /\ pc'[t] \in {"joinResult", "killResult"} /\ state'[t] = "READY"
             /\ t \notin interrupted' /\ state[t] = "READY"
    BY <1>13a, <1>6, <2>1, <2>3 DEF ResultInv
  <2>4. CASE /\ pc'[t] \in {"joinResult", "killResult"} /\ state'[t] = "READY"
             /\ t \notin interrupted' /\ state[t] # "READY"
    <3>1. t \in JoinDone
      <4>1. state[t] = "JOIN"
        BY <1>3, <2>1, <2>4 DEF Blocked, BlockInv
      <4>2. t \notin Interrupted
        BY <1>6, <2>4, <4>1
      <4> QED
        BY <1>3, <2>4, <4>1, <4>2 DEF Finished
    <3>2. state[jt[t]] = "EXITED" \/ jt[t] \in Finished
      BY <3>1 DEF JoinDone
    <3> QED
      BY <1>6, <1>13a, <2>1, <2>4, <3>2 DEF Ended, ActiveInv, Live, Blocked
  <2> QED
    BY <2>2, <2>3, <2>4
<1>14. \A t \in Thread : pc'[t] \in Holding <=> pc[t] \in Holding
  BY <1>5, <1>6 DEF Holding, TypeOK
<1>15. OwnedInv' /\ SingleOwner'
  BY <1>3, <1>6, <1>14 DEF OwnedInv, SingleOwner, Holds, Blocked
<1>16. NoOrphan'
  BY <1>3, <1>6, <1>14 DEF NoOrphan, Holds, Live, Blocked
<1> QED
  BY <1>7, <1>8, <1>9, <1>10, <1>11, <1>12, <1>13, <1>15, <1>16
-------------------------------------------------------------------------------
\* Every step of a thread keeps the invariant.
LEMMA ThreadStepInv ==
  ASSUME IInv, NEW t \in Thread, Request(t) \/ KernelStep(t)
  PROVE  IInv'
BY CloneThreadInv, CloneActivateInv, CloneRegisterInv, ThreadJoinInv,
   JoinBlockInv, JoinInterruptedInv, JoinEraseInv, JoinDeleteInv,
   ThreadTryJoinInv, ThreadDetachInv, DetachAttachInv, ThreadSleepInv,
   ThreadYieldInv, KillChildInv, KillAbortInv, KillBlockInv, KillResultInv,
   ExitFinishInv, QuietInv
   DEF Request, KernelStep, Clone, Join, Detach, Kill

\* IInv is an inductive invariant of the scheduler.
THEOREM Inductive == Spec => []IInv
<1>1. Init => IInv
  BY InitInv
<1>2. IInv /\ [Next]_vars => IInv'
  <2> SUFFICES ASSUME IInv, [Next]_vars PROVE IInv'
    OBVIOUS
  <2>1. CASE Tick
    BY <2>1, TickInv
  <2>2. ASSUME NEW t \in Thread, Request(t) \/ KernelStep(t)
        PROVE  IInv'
    BY <2>2, ThreadStepInv
  <2>3. CASE UNCHANGED vars
    BY <2>3 DEF vars, IInv, TypeOK, FreshInv, MainInv, CurrentInv,
       ActiveInv, CloneInv, RegsInv, BlockInv, ResultInv, Ended, OwnedInv,
       SingleOwner, NoOrphan, Holds
  <2> QED
    BY <2>1, <2>2, <2>3 DEF Next
<1> QED
  BY <1>1, <1>2, PTL DEF Spec
-------------------------------------------------------------------------------
\* Every ThreadInfo keeps its shape and the processor's list stays one chain of
\* links (AnchorList under FindNextThread, UpdateEvents and CloneThread).
THEOREM TypeCorrect == Spec => []TypeOK
<1>1. IInv => TypeOK
  BY DEF IInv
<1> QED
  BY <1>1, Inductive, PTL

\* No two owners of a thread: it is deleted by at most one joiner, whatever the
\* order of ThreadJoin, ThreadTryJoin, ThreadDetach and KillChildThreads.
THEOREM OneOwner == Spec => []SingleOwner
<1>1. IInv => SingleOwner
  BY DEF IInv
<1> QED
  BY <1>1, Inductive, PTL

\* No join, detach or exit loses a thread that has not ended: it is on some
\* childThreads list, or a thread, perhaps itself, has taken it off one.
THEOREM EveryThreadOwned == Spec => []NoOrphan
<1>1. IInv => NoOrphan
  BY DEF IInv
<1> QED
  BY <1>1, Inductive, PTL

\* After delete, no childThreads list, joiner, processor list or currentThread
\* refers to the ThreadInfo.  g_GlobalThreadList is not among them.
THEOREM NoDangling == Spec => []NoDanglingThread
<1>1. IInv => NoDanglingThread
  <2> SUFFICES ASSUME IInv PROVE NoDanglingThread
    OBVIOUS
  <2>1. \A c \in activeList.elems : state[c] \notin {"NONE", "FREED"}
    BY DEF IInv, ActiveInv, Live, Blocked
  <2>2. current \in Thread => state[current] = "READY"
    BY DEF IInv, CurrentInv
  <2> QED
    BY <2>1, <2>2 DEF IInv, OwnedInv, NoDanglingThread
<1> QED
  BY <1>1, Inductive, PTL

\* ThreadJoin and ThreadTryJoin delete only a thread that ended and that a tick
\* has taken off the processor's list, however joins are interrupted.
THEOREM DeleteIsSafe == Spec => DeletedAfterExit
<1> DEFINE Safe == \A c \in Thread : state'[c] = "FREED" /\ state[c] # "FREED" =>
                     /\ state[c] \in {"FINISHED", "EXITED"}
                     /\ c \notin activeList.elems
                     /\ c # current
<1>1. IInv /\ [Next]_vars => [Safe]_vars
  <2> SUFFICES ASSUME IInv, Next PROVE Safe
    OBVIOUS
  <2> SUFFICES ASSUME NEW c \in Thread, state'[c] = "FREED", state[c] # "FREED"
               PROVE  Ended(c)
    BY DEF IInv, Ended, CurrentInv
  <2> USE DEF IInv
  <2>1. CASE Tick
    BY <2>1 DEF Tick, UpdateEvents, TypeOK
  <2>2. ASSUME NEW t \in Thread, Request(t)
        PROVE  state'[c] # "FREED"
    <3>1. ASSUME NEW s, SwitchFrom(t, s) PROVE state' = s
      BY <3>1 DEF SwitchFrom
    <3>2. CASE ThreadSleep(t) \/ ThreadYield(t)
      <4>1. state' = [state EXCEPT ![t] = "SLEEP"] \/ state' = state
        BY <3>1, <3>2 DEF ThreadSleep, ThreadYield, ThreadBlock
      <4> QED
        BY <4>1 DEF TypeOK
    <3>3. CASE Clone(t)
      BY <3>3 DEF Clone, CloneThread, TypeOK
    <3>4. CASE Join(t) \/ Detach(t) \/ Kill(t)
      <4>1. UNCHANGED state
        BY <3>4, Zenon
           DEF Join, Detach, Kill, ThreadJoin, ThreadTryJoin, ThreadDetach, ThreadKill,
               ThreadAbort
      <4> QED
        BY <4>1
    <3>5. CASE HandleKill(t) \/ OtherSyscall(t) \/ ThreadExit(t) \/ ProcessDoExit(t)
      BY <3>5 DEF HandleKill, OtherSyscall, ThreadExit, ProcessDoExit
    <3> QED
      BY <2>2, <3>2, <3>3, <3>4, <3>5 DEF Request
  <2>3. ASSUME NEW t \in Thread, KernelStep(t)
        PROVE  Ended(c)
    <3>1. CASE JoinDelete(t)
      BY <3>1 DEF JoinDelete, At, ResultInv, OwnedInv, Holding, TypeOK
    <3>2. CASE JoinBlock(t) \/ KillBlock(t) \/ ExitFinish(t)
      BY <3>2 DEF JoinBlock, KillBlock, ExitFinish, ThreadBlock, SwitchFrom, TypeOK
    <3>3. CASE /\ ~JoinDelete(t)
               /\ ~(JoinBlock(t) \/ KillBlock(t) \/ ExitFinish(t))
      BY <2>3, <3>3
         DEF KernelStep, CloneActivate, CloneRegister, JoinInterrupted, JoinErase,
             DetachAttach, ThreadCheckFlags, KillChild, KillAbort, KillResult,
             KillChildThreadsDone
    <3> QED
      BY <3>1, <3>2, <3>3
  <2> QED
    BY <2>1, <2>2, <2>3 DEF Next
<1> QED
  BY <1>1, Inductive, PTL DEF Spec, DeletedAfterExit
===============================================================================
