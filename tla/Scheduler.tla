------------------------------- MODULE Scheduler -------------------------------
(***************************************************************************)
(* Threads of the ChenixOS kernel: creation, blocking, joining, detaching, *)
(* kill and abort requests, exit, and the round-robin scheduler driven by  *)
(* the timer interrupt (kernel/Kernel/task/Scheduler.cpp).                 *)
(*                                                                         *)
(* All threads run on the boot processor: a thread is put on the list of   *)
(* the processor that creates it and never moves, and only the boot        *)
(* processor starts its timer.  Exactly one thread, current, executes; it   *)
(* gives the processor away in ThreadBlock, ThreadYield and ThreadExit, and *)
(* loses it to the timer, except where its stickyCount is not 0.  A code    *)
(* section under a StickyLock is therefore one action, and every point      *)
(* between two such sections is a value of pc.                             *)
(*                                                                         *)
(* The memory of a deleted ThreadInfo is never used for another one here:  *)
(* MainThreadExists says where the code first relies on such memory.       *)
(***************************************************************************)
EXTENDS AnchorList, FiniteSets

CONSTANTS Thread,        \* the ThreadInfo objects that may be created, by tid
          InitThread,    \* g_InitThread: spins in the kernel for ever
          FirstProcess,  \* the thread that becomes the first user process
          Idle,          \* the idle thread of the processor
          NoThread,      \* nullptr
          Targets        \* the threads that programs send kill and abort to

ASSUME SchedulerAssumption ==
         /\ {InitThread, FirstProcess} \subseteq Thread
         /\ InitThread # FirstProcess
         /\ Idle \notin Thread
         /\ NoThread \notin Thread \cup {Idle}
         /\ Targets \subseteq Thread

VARIABLES state,        \* ThreadState::type; "NONE" before new, "FREED" after delete
          interrupted,  \* threads whose join ended with ErrorInterrupted
          activeList,   \* the processor's list of threads
          current,      \* currentThread
          regsUser,     \* threads whose saved registers have a user-mode cs
          children,     \* childThreads
          globalList,   \* g_GlobalThreadList
          main,         \* mainThread
          killPending,  \* threads with killPending set
          abortPending, \* threads with abortPending set
          handler,      \* threads with a kill handler (killHandlerRip # 0)
          pc,           \* where in the code a thread is
          jt,           \* the local joinThread, detachThread, jt or newT
          exitOf,       \* whose children an exiting thread kills
          sticky        \* threads that keep their stickyCount raised for good

vars == <<state, interrupted, activeList, current, regsUser, children, globalList,
          main, killPending, abortPending, handler, pc, jt, exitOf, sticky>>

\* The blocked states that UpdateEvents may interrupt.
Blocked == {"SLEEP", "JOIN"}
Live == {"READY", "FINISHED"} \cup Blocked
State == {"NONE", "EXITED", "FREED"} \cup Live

\* A thread at one of these places holds the only reference to jt[t]
\* besides the lists: it took it off a childThreads list.
Holding == {"joinBlock", "joinResult", "joinDelete", "detach",
            "killAbort", "killBlock", "killResult"}
PC == Holding \cup {"none", "spin", "user", "return", "clone1", "clone2",
                    "exit", "finish", "dead"}

TypeOK ==
  /\ state \in [Thread -> State]
  /\ interrupted \subseteq Thread
  /\ activeList.elems \subseteq Thread
  /\ IsList(activeList)
  /\ current \in Thread \cup {Idle}
  /\ regsUser \subseteq Thread
  /\ children \in [Thread -> SUBSET Thread]
  /\ globalList \subseteq Thread
  /\ main \in [Thread -> Thread \cup {NoThread}]
  /\ killPending \subseteq Thread
  /\ abortPending \subseteq Thread
  /\ handler \subseteq Thread
  /\ pc \in [Thread -> PC]
  /\ jt \in [Thread -> Thread \cup {NoThread}]
  /\ exitOf \in [Thread -> {"thread", "process", "main"}]
  /\ sticky \subseteq Thread

(***************************************************************************)
(* Boot is over: the init thread spins, and the thread it created to load  *)
(* the first program runs it in user mode.                                 *)
(***************************************************************************)
Init ==
  /\ state = [t \in Thread |->
                IF t \in {InitThread, FirstProcess} THEN "READY" ELSE "NONE"]
  /\ interrupted = {}
  /\ activeList = PushBack(PushBack(EmptyList, FirstProcess), InitThread)
  /\ current = InitThread
  /\ regsUser = {FirstProcess}
  /\ children = [t \in Thread |->
                   IF t = InitThread THEN {FirstProcess} ELSE {}]
  /\ globalList = {InitThread, FirstProcess}
  /\ main = [t \in Thread |->
               IF t \in {InitThread, FirstProcess} THEN t ELSE NoThread]
  /\ killPending = {}
  /\ abortPending = {}
  /\ handler = {}
  /\ pc = [t \in Thread |-> CASE t = InitThread -> "spin"
                              [] t = FirstProcess -> "user"
                              [] OTHER -> "none"]
  /\ jt = [t \in Thread |-> NoThread]
  /\ exitOf = [t \in Thread |-> "thread"]
  /\ sticky = {}
-------------------------------------------------------------------------------
(***************************************************************************)
(* Choosing the next thread.                                               *)
(***************************************************************************)

ReadyIn(s) == {t \in Thread : s[t] = "READY"}

\* Mutant: push_back of the chosen thread without the erase.
FindNextThreadTwice(l, s, next) ==
  \/ /\ next \in Thread
     /\ IsFirstIn(l, ReadyIn(s), next)
     /\ activeList' = PushBack(l, next)
  \/ /\ l.elems \cap ReadyIn(s) = {}
     /\ next = Idle
     /\ activeList' = l

\* Mutant: the chosen thread stays where it is.
FindNextThreadFixed(l, s, next) ==
  \/ /\ next \in Thread
     /\ IsFirstIn(l, ReadyIn(s), next)
     /\ activeList' = l
  \/ /\ l.elems \cap ReadyIn(s) = {}
     /\ next = Idle
     /\ activeList' = l

\* FindNextThread on list l in states s: the first READY thread, moved to the
\* back of the list, or the idle thread when there is none.
FindNextThread(l, s, next) ==
  \/ /\ next \in Thread
     /\ IsFirstIn(l, ReadyIn(s), next)
     /\ activeList' = PushBack(Erase(l, {next}), next)
  \/ /\ l.elems \cap ReadyIn(s) = {}
     /\ next = Idle
     /\ activeList' = l

\* The thread t gives the processor away with the states s: SwitchThread
\* saves its registers in kernel mode and loads those of the next thread.  If t
\* itself is the next one, ThreadYield returns and saves nothing.  This is one
\* step: a tick after currentThread is set and before the registers of the next
\* thread are loaded is not modelled.
SwitchFrom(t, s) ==
  /\ state' = s
  /\ \E next \in Thread \cup {Idle} :
       /\ FindNextThread(activeList, s, next)
       /\ current' = next
       /\ regsUser' = IF next = t THEN regsUser ELSE regsUser \ {t}

\* ThreadBlock(type, jt[t]) up to the switch; t resumes at the place p.
ThreadBlock(t, type, p) ==
  /\ SwitchFrom(t, [state EXCEPT ![t] = type])
  /\ pc' = [pc EXCEPT ![t] = p]

\* The current thread t executes at the place p.
At(t, p) == current = t /\ pc[t] = p

Goto(t, p) == pc' = [pc EXCEPT ![t] = p]

\* The system call of t is done; its local variables are gone.
Return(t) == Goto(t, "return") /\ jt' = [jt EXCEPT ![t] = NoThread]

\* Nothing but pc, jt and what the action itself names is touched.
NoSwitch == UNCHANGED <<activeList, current, regsUser, sticky>>
-------------------------------------------------------------------------------
(***************************************************************************)
(* The timer interrupt.                                                    *)
(***************************************************************************)

Finished == {t \in activeList.elems : state[t] = "FINISHED"}

\* READY threads with user-mode saved registers.  For the running thread
\* these are the registers of its last suspension, not the present ones.
InUserMode == {t \in activeList.elems : state[t] = "READY" /\ t \in regsUser}

Killed == InUserMode \cap killPending
Aborted == InUserMode \cap abortPending

\* The threads whose saved registers are changed to start ThreadExit.
Redirected == Aborted \cup (Killed \ handler)

Interrupted == {t \in activeList.elems :
                  state[t] \in Blocked /\ t \in killPending \cup abortPending}


\* UpdateEvents walks the list from its head: a joined thread that finishes in
\* the same walk is already EXITED for the joiners behind it.
JoinDone == {t \in activeList.elems \ Interrupted :
               /\ state[t] = "JOIN"
               /\ \/ state[jt[t]] = "EXITED"
                  \/ jt[t] \in Finished /\ <<jt[t], t>> \in activeList.before}

Sleepers == {t \in activeList.elems \ Interrupted : state[t] = "SLEEP"}

\* The states after UpdateEvents, if the sleep time of the threads slept ran out.
UpdateEvents(slept) ==
  [t \in Thread |->
     IF t \in Finished THEN "EXITED"
     ELSE IF t \in Interrupted \cup JoinDone \cup slept THEN "READY"
     ELSE state[t]]

\* UpdateEvents, FindNextThread, then the registers of the interrupted thread
\* are saved over its redirection, if it had one.
Tick ==
  /\ current \notin sticky
  /\ \E slept \in SUBSET Sleepers :
       /\ state' = UpdateEvents(slept)
       /\ \E next \in Thread \cup {Idle} :
            /\ FindNextThread(Erase(activeList, Finished),
                              UpdateEvents(slept), next)
            /\ current' = next
  /\ interrupted' = interrupted \cup {t \in Interrupted : state[t] = "JOIN"}
  /\ killPending' = killPending \ Killed
  /\ abortPending' = abortPending \ Aborted
  /\ pc' = [t \in Thread |->
              IF t \in Redirected \ {current} THEN "exit" ELSE pc[t]]
  /\ exitOf' = [t \in Thread |->
                  IF t \in Redirected \ {current} THEN "thread" ELSE exitOf[t]]
  /\ regsUser' = {t \in Thread :
                    IF t = current THEN pc[t] = "user"
                                   ELSE t \in regsUser \ Redirected}
  /\ UNCHANGED <<children, globalList, main, handler, jt, sticky>>
-------------------------------------------------------------------------------
(***************************************************************************)
(* Creating a thread.                                                      *)
(***************************************************************************)

\* CloneThread up to the push on the list of the process's main thread:
\* syscall_thread_create for a subthread, DoFork for a new process.
CloneThread(t, new, subthread) ==
  /\ At(t, "user")
  /\ state[new] = "NONE"
  /\ state' = [state EXCEPT ![new] = "READY"]
  /\ main' = [main EXCEPT ![new] = IF subthread THEN main[t] ELSE new]
  /\ children' = [children EXCEPT ![main[t]] = @ \cup {new}]
  /\ pc' = [pc EXCEPT ![t] = "clone1", ![new] = "user"]
  /\ regsUser' = regsUser \cup {new}
  /\ jt' = [jt EXCEPT ![t] = new]
  /\ UNCHANGED <<interrupted, activeList, current, globalList, killPending,
                 abortPending, handler, exitOf, sticky>>

\* CloneThread: the new thread enters the list of the processor.
CloneActivate(t) ==
  /\ At(t, "clone1")
  /\ activeList' = PushBack(activeList, jt[t])
  /\ Goto(t, "clone2")
  /\ UNCHANGED <<state, interrupted, current, regsUser, children, globalList, main,
                 killPending, abortPending, handler, jt, exitOf, sticky>>

\* CloneThread: the new thread enters the global list.
CloneRegister(t) ==
  /\ At(t, "clone2")
  /\ globalList' = globalList \cup {jt[t]}
  /\ Return(t)
  /\ NoSwitch
  /\ UNCHANGED <<state, interrupted, children, main, killPending, abortPending,
                 handler, exitOf>>
-------------------------------------------------------------------------------
(***************************************************************************)
(* Joining and detaching.                                                  *)
(***************************************************************************)

\* Mutant: the child stays on the list.
ThreadJoinShared(t, c) ==
  /\ At(t, "user")
  /\ c \in children[main[t]]
  /\ jt' = [jt EXCEPT ![t] = c]
  /\ Goto(t, "joinBlock")
  /\ NoSwitch
  /\ UNCHANGED <<state, interrupted, children, globalList, main, killPending,
                 abortPending, handler, exitOf>>

\* ThreadJoin finds the child and takes it off the list of the main thread.
ThreadJoin(t, c) ==
  /\ At(t, "user")
  /\ c \in children[main[t]]
  /\ children' = [children EXCEPT ![main[t]] = @ \ {c}]
  /\ jt' = [jt EXCEPT ![t] = c]
  /\ Goto(t, "joinBlock")
  /\ NoSwitch
  /\ UNCHANGED <<state, interrupted, globalList, main, killPending, abortPending,
                 handler, exitOf>>

\* ThreadJoin blocks.
JoinBlock(t) ==
  /\ At(t, "joinBlock")
  /\ ThreadBlock(t, "JOIN", "joinResult")
  /\ UNCHANGED <<interrupted, children, globalList, main, killPending, abortPending,
                 handler, jt, exitOf, sticky>>

\* Mutant: the child is not put back.
JoinInterruptedLost(t) ==
  /\ At(t, "joinResult")
  /\ t \in interrupted
  /\ interrupted' = interrupted \ {t}
  /\ Return(t)
  /\ NoSwitch
  /\ UNCHANGED <<state, children, globalList, main, killPending, abortPending,
                 handler, exitOf>>

\* ThreadJoin was interrupted and puts the child back.
JoinInterrupted(t) ==
  /\ At(t, "joinResult")
  /\ t \in interrupted
  /\ children' = [children EXCEPT ![main[t]] = @ \cup {jt[t]}]
  /\ interrupted' = interrupted \ {t}
  /\ Return(t)
  /\ NoSwitch
  /\ UNCHANGED <<state, globalList, main, killPending, abortPending, handler,
                 exitOf>>

\* Mutant: the result of ThreadBlock is not looked at.
JoinEraseAlways(t) ==
  /\ At(t, "joinResult")
  /\ globalList' = globalList \ {jt[t]}
  /\ Goto(t, "joinDelete")
  /\ NoSwitch
  /\ UNCHANGED <<state, interrupted, children, main, killPending, abortPending,
                 handler, jt, exitOf>>

\* The child exited: ThreadJoin and ThreadTryJoin remove it from the global list.
JoinErase(t) ==
  /\ At(t, "joinResult")
  /\ t \notin interrupted
  /\ globalList' = globalList \ {jt[t]}
  /\ Goto(t, "joinDelete")
  /\ NoSwitch
  /\ UNCHANGED <<state, interrupted, children, main, killPending, abortPending,
                 handler, jt, exitOf>>

\* The kernel stack and the ThreadInfo of the child are deleted.
JoinDelete(t) ==
  /\ At(t, "joinDelete")
  /\ state' = [state EXCEPT ![jt[t]] = "FREED"]
  /\ Return(t)
  /\ NoSwitch
  /\ UNCHANGED <<interrupted, children, globalList, main, killPending, abortPending,
                 handler, exitOf>>

\* Mutant: the state of the child is not looked at.
ThreadTryJoinAny(t, c) ==
  /\ At(t, "user")
  /\ c \in children[main[t]]
  /\ children' = [children EXCEPT ![main[t]] = @ \ {c}]
  /\ jt' = [jt EXCEPT ![t] = c]
  /\ Goto(t, "joinResult")
  /\ NoSwitch
  /\ UNCHANGED <<state, interrupted, globalList, main, killPending, abortPending,
                 handler, exitOf>>

\* ThreadTryJoin of a child that is EXITED; of any other child it changes nothing.
ThreadTryJoin(t, c) ==
  /\ At(t, "user")
  /\ c \in children[main[t]]
  /\ state[c] = "EXITED"
  /\ children' = [children EXCEPT ![main[t]] = @ \ {c}]
  /\ jt' = [jt EXCEPT ![t] = c]
  /\ Goto(t, "joinResult")
  /\ NoSwitch
  /\ UNCHANGED <<state, interrupted, globalList, main, killPending, abortPending, handler,
                 exitOf>>

\* ThreadDetach takes a child process, never a subthread, off the list.
ThreadDetach(t, c) ==
  /\ At(t, "user")
  /\ c \in children[main[t]]
  /\ main[c] = c
  /\ children' = [children EXCEPT ![main[t]] = @ \ {c}]
  /\ jt' = [jt EXCEPT ![t] = c]
  /\ Goto(t, "detach")
  /\ NoSwitch
  /\ UNCHANGED <<state, interrupted, globalList, main, killPending, abortPending,
                 handler, exitOf>>

\* ThreadDetach gives the child to the init thread.
DetachAttach(t) ==
  /\ At(t, "detach")
  /\ children' = [children EXCEPT ![InitThread] = @ \cup {jt[t]}]
  /\ Return(t)
  /\ NoSwitch
  /\ UNCHANGED <<state, interrupted, globalList, main, killPending, abortPending,
                 handler, exitOf>>
-------------------------------------------------------------------------------
(***************************************************************************)
(* System calls that finish at once, and the end of every system call.     *)
(***************************************************************************)

\* ThreadKillSig, for callers that may signal the thread.
ThreadKill(t, c) ==
  /\ At(t, "user")
  /\ c \in globalList \cap Targets
  /\ killPending' = killPending \cup {c}
  /\ Goto(t, "return")
  /\ NoSwitch
  /\ UNCHANGED <<state, interrupted, children, globalList, main, abortPending, handler,
                 jt, exitOf>>

\* ThreadAbort, for callers that may signal the thread.
ThreadAbort(t, c) ==
  /\ At(t, "user")
  /\ c \in globalList \cap Targets
  /\ abortPending' = abortPending \cup {c}
  /\ Goto(t, "return")
  /\ NoSwitch
  /\ UNCHANGED <<state, interrupted, children, globalList, main, killPending, handler,
                 jt, exitOf>>

\* syscall_handle_kill installs a kill handler, or with rip 0 takes it away.
HandleKill(t) ==
  /\ At(t, "user")
  /\ t \in Targets
  /\ \E h \in {{}, {t}} : handler' = (handler \ {t}) \cup h
  /\ Goto(t, "return")
  /\ NoSwitch
  /\ UNCHANGED <<state, interrupted, children, globalList, main, killPending,
                 abortPending, jt, exitOf>>

\* syscall_wait
ThreadSleep(t) ==
  /\ At(t, "user")
  /\ ThreadBlock(t, "SLEEP", "return")
  /\ UNCHANGED <<interrupted, children, globalList, main, killPending, abortPending,
                 handler, jt, exitOf, sticky>>

\* A system call that fails, or that does not concern threads.
OtherSyscall(t) ==
  /\ At(t, "user")
  /\ Goto(t, "return")
  /\ NoSwitch
  /\ UNCHANGED <<state, interrupted, children, globalList, main, killPending,
                 abortPending, handler, jt, exitOf>>

\* A system call that calls ThreadYield once and changes nothing else.
ThreadYield(t) ==
  /\ At(t, "user")
  /\ SwitchFrom(t, state)
  /\ Goto(t, "return")
  /\ UNCHANGED <<interrupted, children, globalList, main, killPending, abortPending,
                 handler, jt, exitOf, sticky>>

\* ThreadCheckFlags: a kill request is taken by the handler or exits; an abort
\* request exits and stays pending.
ThreadCheckFlags(t) ==
  /\ At(t, "return")
  /\ killPending' = killPending \ {t}
  /\ IF (t \in killPending /\ t \notin handler) \/ t \in abortPending
       THEN /\ Goto(t, "exit")
            /\ exitOf' = [exitOf EXCEPT ![t] = "thread"]
       ELSE /\ Goto(t, "user")
            /\ UNCHANGED exitOf
  /\ NoSwitch
  /\ UNCHANGED <<state, interrupted, children, globalList, main, abortPending, handler,
                 jt>>
-------------------------------------------------------------------------------
(***************************************************************************)
(* Exit.                                                                   *)
(***************************************************************************)

\* syscall_thread_exit, or a fault that ends the thread.
ThreadExit(t) ==
  /\ At(t, "user")
  /\ exitOf' = [exitOf EXCEPT ![t] = "thread"]
  /\ Goto(t, "exit")
  /\ NoSwitch
  /\ UNCHANGED <<state, interrupted, children, globalList, main, killPending,
                 abortPending, handler, jt>>

\* syscall_exit
ProcessDoExit(t) ==
  /\ At(t, "user")
  /\ exitOf' = [exitOf EXCEPT ![t] = "process"]
  /\ Goto(t, "exit")
  /\ NoSwitch
  /\ UNCHANGED <<state, interrupted, children, globalList, main, killPending,
                 abortPending, handler, jt>>

\* The argument of KillChildThreads, and the thread that ends.
ExitTarget(t) == IF exitOf[t] = "main" THEN main[t] ELSE t

\* KillChildThreads takes a child off the list ...
KillChild(t, c) ==
  /\ At(t, "exit")
  /\ c \in children[ExitTarget(t)]
  /\ children' = [children EXCEPT ![ExitTarget(t)] = @ \ {c}]
  /\ jt' = [jt EXCEPT ![t] = c]
  /\ Goto(t, "killAbort")
  /\ NoSwitch
  /\ UNCHANGED <<state, interrupted, globalList, main, killPending, abortPending,
                 handler, exitOf>>

\* ... and aborts it.
KillAbort(t) ==
  /\ At(t, "killAbort")
  /\ abortPending' = abortPending \cup {jt[t]}
  /\ Goto(t, "killBlock")
  /\ NoSwitch
  /\ UNCHANGED <<state, interrupted, children, globalList, main, killPending,
                 handler, jt, exitOf>>

\* KillChildThreads waits for the child.
KillBlock(t) ==
  /\ At(t, "killBlock")
  /\ ThreadBlock(t, "JOIN", "killResult")
  /\ UNCHANGED <<interrupted, children, globalList, main, killPending, abortPending,
                 handler, jt, exitOf, sticky>>

\* KillChildThreads goes on; a child whose wait was interrupted goes back.
KillResult(t) ==
  /\ At(t, "killResult")
  /\ children' = IF t \notin interrupted THEN children
                 ELSE [children EXCEPT ![ExitTarget(t)] = @ \cup {jt[t]}]
  /\ interrupted' = interrupted \ {t}
  /\ jt' = [jt EXCEPT ![t] = NoThread]
  /\ Goto(t, "exit")
  /\ NoSwitch
  /\ UNCHANGED <<state, globalList, main, killPending, abortPending, handler,
                 exitOf>>

\* The list is empty: KillChildThreads returns.  A process exit goes on with
\* the children of the main thread.
KillChildThreadsDone(t) ==
  /\ At(t, "exit")
  /\ children[ExitTarget(t)] = {}
  /\ IF exitOf[t] = "process"
       THEN exitOf' = [exitOf EXCEPT ![t] = "main"] /\ UNCHANGED pc
       ELSE Goto(t, "finish") /\ UNCHANGED exitOf
  /\ NoSwitch
  /\ UNCHANGED <<state, interrupted, children, globalList, main, killPending,
                 abortPending, handler, jt>>

\* The thread that ends becomes FINISHED and the processor goes to the next
\* one.  A subthread that ended its main thread keeps the sticky count it
\* raised and returns from the system call.  It does not look whether the main
\* thread has ended before; of one that was deleted it writes freed memory.
ExitFinish(t) ==
  /\ At(t, "finish")
  /\ SwitchFrom(t, [state EXCEPT ![ExitTarget(t)] =
                      IF @ = "FREED" THEN @ ELSE "FINISHED"])
  /\ IF ExitTarget(t) = t
       THEN Goto(t, "dead") /\ UNCHANGED sticky
       ELSE Goto(t, "return") /\ sticky' = sticky \cup {t}
  /\ UNCHANGED <<interrupted, children, globalList, main, killPending, abortPending,
                 handler, jt, exitOf>>
-------------------------------------------------------------------------------
Clone(t) == \E c \in Thread, b \in BOOLEAN : CloneThread(t, c, b)
Join(t) == \E c \in Thread : ThreadJoin(t, c) \/ ThreadTryJoin(t, c)
Detach(t) == \E c \in Thread : ThreadDetach(t, c)
Kill(t) == \E c \in Thread : ThreadKill(t, c) \/ ThreadAbort(t, c)

\* What a thread asks for in user mode.
Request(t) ==
  \/ Clone(t) \/ Join(t) \/ Detach(t) \/ Kill(t) \/ HandleKill(t)
  \/ OtherSyscall(t) \/ ThreadSleep(t) \/ ThreadYield(t)
  \/ ThreadExit(t) \/ ProcessDoExit(t)

\* What a thread does in the kernel without further choice.
KernelStep(t) ==
  \/ CloneActivate(t) \/ CloneRegister(t)
  \/ JoinBlock(t) \/ JoinInterrupted(t) \/ JoinErase(t) \/ JoinDelete(t)
  \/ DetachAttach(t) \/ ThreadCheckFlags(t)
  \/ \E c \in Thread : KillChild(t, c)
  \/ KillAbort(t) \/ KillBlock(t) \/ KillResult(t)
  \/ KillChildThreadsDone(t) \/ ExitFinish(t)

Next == Tick \/ \E t \in Thread : Request(t) \/ KernelStep(t)

\* The timer interrupts for ever, and a time slice is long enough for a step: a
\* thread that gets the processor again and again goes on in the kernel.
Fairness == WF_vars(Tick) /\ \A t \in Thread : SF_vars(KernelStep(t))

Spec == Init /\ [][Next]_vars /\ Fairness
-------------------------------------------------------------------------------
(***************************************************************************)
(* Properties.                                                             *)
(***************************************************************************)

Holds(t, c) == pc[t] \in Holding /\ jt[t] = c

\* A thread has at most one owner that may join and delete it: one childThreads
\* list, or one thread between taking it off such a list and deleting it.
SingleOwner ==
  \A c \in Thread :
    /\ \A p, q \in Thread : c \in children[p] /\ c \in children[q] => p = q
    /\ \A t, u \in Thread : Holds(t, c) /\ Holds(u, c) => t = u
    /\ \A p, t \in Thread : ~(c \in children[p] /\ Holds(t, c))

\* Neither the processor, its list, a childThreads list nor a thread that has
\* taken a child off such a list refers to a ThreadInfo that was deleted.  (The
\* list of all threads does: CloneRegister may enter one that is gone.)
NoDanglingThread ==
  \A c \in Thread : state[c] \in {"NONE", "FREED"} =>
    /\ c \notin activeList.elems
    /\ c # current
    /\ \A t \in Thread : c \notin children[t] /\ ~Holds(t, c)

\* No join, detach or exit loses a thread between two lists: one that has not
\* ended is on a childThreads list, or a thread, perhaps itself, has taken it
\* off one and not put it back.
NoOrphan ==
  \A c \in Thread \ {InitThread} : state[c] \in {"READY"} \cup Blocked =>
     \E t \in Thread : c \in children[t] \/ Holds(t, c)

\* Only a thread that ended and that a tick has then taken off the processor's
\* list is deleted.  (A subthread that ends its main thread once more can write
\* FINISHED over its EXITED.)
DeletedAfterExit ==
  [][\A c \in Thread : state'[c] = "FREED" /\ state[c] # "FREED" =>
        /\ state[c] \in {"FINISHED", "EXITED"}
        /\ c \notin activeList.elems
        /\ c # current]_vars

\* No tick takes the processor from a subthread that has ended its main thread:
\* ProcessDoExit leaves its sticky count raised.
Hogged == current \in sticky

\* Round robin: a READY thread on the list gets the processor, unless such a
\* subthread comes to have it.
ReadyRuns ==
  \A t \in Thread :
    (t \in activeList.elems /\ state[t] = "READY")
      ~> (current = t \/ Hogged)


\* mainThread is "safe to access lockless": a live thread's main thread exists.
MainThreadExists ==
  \A t \in Thread : state[t] \in Live => state[main[t]] # "FREED"

\* A thread that begins to exit ends.
ExitEnds ==
  \A t \in Thread : pc[t] = "exit" ~> state[t] \in {"FINISHED", "EXITED", "FREED"}
===============================================================================
