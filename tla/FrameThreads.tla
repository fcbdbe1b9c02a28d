---------------------------- MODULE FrameThreads ----------------------------
(***************************************************************************)
(* Which threads receive frames: PCR_GetWFSC and PCR_GetDM are started by  *)
(* main, and stopped and started again by operators ("stop" and "connect"  *)
(* in PCR_Process).  Two flags for each kind say whether a thread is       *)
(* running and whether it is to go on; operators test and set them without *)
(* a lock.  What a thread is given lies on the stack of whoever started it.*)
(***************************************************************************)
EXTENDS Integers

CONSTANTS
  Kinds,        \* the two threads: wfsc, dm
  Starters,     \* operators' connections, each with a thread PCR_Process
  Receivers,      \* threads that may be created
  Main          \* main, which starts the first ones

\* There is a thread to be had for each kind.
ASSUME FrameThreadsAssumption ==
  /\ Main \notin Starters /\ Kinds # {}
  /\ \E f \in [Kinds -> Receivers] : \A j, k \in Kinds : f[j] = f[k] => j = k

VARIABLES
  running,      \* *PCR_WFSC_running, *PCR_DM_running
  goOn,         \* *PCR_WFSC_continueRunning, *PCR_DM_continueRunning
  starter,      \* where each operator's thread is, and the kind it starts
  thread,       \* each thread: where it is, its kind, who has started it
  overlapped,   \* history: the kinds that two operators were starting at a time
  unmade        \* history: the kinds of which a thread could not be created
frameVars == <<running, goOn, starter, thread, overlapped, unmade>>

Alive(k) == {t \in Receivers : thread[t].at \in {"begins", "works"} /\ thread[t].kind = k}
Starting(k, places) == {o \in Starters : starter[o].at \in places /\ starter[o].kind = k}

\* The thread of each kind that main starts: any, as long as they are different.
First == CHOOSE f \in [Kinds -> Receivers] : \A j, k \in Kinds : f[j] = f[k] => j = k
AnyKind == CHOOSE k \in Kinds : TRUE

FrameThreads_Init ==
  /\ running = [k \in Kinds |-> TRUE] /\ goOn = [k \in Kinds |-> TRUE]
  /\ starter = [o \in Starters |-> [at |-> "reads", kind |-> AnyKind]]
  /\ thread = [t \in Receivers |->
                 IF \E k \in Kinds : First[k] = t
                 THEN [at |-> "begins", kind |-> CHOOSE k \in Kinds : First[k] = t, by |-> Main]
                 ELSE [at |-> "none", kind |-> AnyKind, by |-> Main]]
  /\ overlapped = {} /\ unmade = {}
-----------------------------------------------------------------------------
\* "connect": is it running already?
Test_Running(o, k) ==
  /\ starter[o].at = "reads"
  /\ IF running[k] THEN UNCHANGED <<starter, overlapped>>
     ELSE /\ starter' = [starter EXCEPT ![o] = [at |-> "tested", kind |-> k]]
          /\ overlapped' = IF Starting(k, {"tested", "set"}) = {} THEN overlapped ELSE overlapped \cup {k}
  /\ UNCHANGED <<running, goOn, thread, unmade>>

Set_Running(o) ==
  /\ starter[o].at = "tested"
  /\ starter' = [starter EXCEPT ![o].at = "set"]
  /\ running' = [running EXCEPT ![starter[o].kind] = TRUE]
  /\ goOn' = [goOn EXCEPT ![starter[o].kind] = TRUE]
  /\ UNCHANGED <<thread, overlapped, unmade>>

Start_Thread(o) ==
  /\ starter[o].at = "set"
  /\ starter' = [starter EXCEPT ![o].at = "reads"]
  /\ \E t \in Receivers :
       /\ thread[t].at = "none"
       /\ thread' = [thread EXCEPT ![t] = [at |-> "begins", kind |-> starter[o].kind, by |-> o]]
  /\ UNCHANGED <<running, goOn, overlapped, unmade>>

\* The flag stays set, and nobody can start a thread of this kind any more.
Start_Fails(o) ==
  /\ starter[o].at = "set"
  /\ starter' = [starter EXCEPT ![o].at = "reads"]
  /\ unmade' = unmade \cup {starter[o].kind}
  /\ UNCHANGED <<running, goOn, thread, overlapped>>

\* A mistake: "stop" declares the thread ended.
Stop_Declares(o, k) ==
  /\ starter[o].at = "reads"
  /\ goOn' = [goOn EXCEPT ![k] = FALSE] /\ running' = [running EXCEPT ![k] = FALSE]
  /\ UNCHANGED <<starter, thread, overlapped, unmade>>

\* "stop".
Stop_Thread(o, k) ==
  /\ starter[o].at = "reads"
  /\ goOn' = [goOn EXCEPT ![k] = FALSE]
  /\ UNCHANGED <<running, starter, thread, overlapped, unmade>>

Quit(o) ==
  /\ starter[o].at = "reads"
  /\ starter' = [starter EXCEPT ![o].at = "gone"]
  /\ UNCHANGED <<running, goOn, thread, overlapped, unmade>>

\* The thread takes what it is given; from the stack of an operator who has gone
\* it may get anything, and the process may end.
Begin_Thread(t) ==
  /\ thread[t].at = "begins"
  /\ thread' = [thread EXCEPT ![t].at = "works"]
  /\ UNCHANGED <<running, goOn, starter, overlapped, unmade>>

End_Thread(t) ==
  /\ thread[t].at = "works" /\ ~goOn[thread[t].kind]
  /\ thread' = [thread EXCEPT ![t].at = "none"]
  /\ running' = [running EXCEPT ![thread[t].kind] = FALSE]
  /\ UNCHANGED <<goOn, starter, overlapped, unmade>>

FrameThreads_Next ==
  \/ \E o \in Starters :
       \/ Set_Running(o) \/ Start_Thread(o) \/ Start_Fails(o) \/ Quit(o)
       \/ \E k \in Kinds : Test_Running(o, k) \/ Stop_Thread(o, k)
  \/ \E t \in Receivers : Begin_Thread(t) \/ End_Thread(t)

FrameThreads_Spec == FrameThreads_Init /\ [][FrameThreads_Next]_frameVars
-----------------------------------------------------------------------------
FrameThreads_TypeOK ==
  /\ running \in [Kinds -> BOOLEAN] /\ goOn \in [Kinds -> BOOLEAN]
  /\ starter \in [Starters -> [at : {"reads", "tested", "set", "gone"}, kind : Kinds]]
  /\ thread \in [Receivers -> [at : {"none", "begins", "works"}, kind : Kinds, by : Starters \cup {Main}]]
  /\ overlapped \subseteq Kinds /\ unmade \subseteq Kinds

\* No two threads fill one ring of frames, unless two operators were starting
\* one at a time.
OneThread ==
  \A k \in Kinds \ overlapped : \A s, t \in Alive(k) : s = t

\* As long as the flag says that a thread is running there is one, or one is
\* being created; unless the creation failed once.
RunningIsTrue ==
  \A k \in Kinds \ (overlapped \cup unmade) :
    running[k] <=> Alive(k) # {} \/ Starting(k, {"set"}) # {}

\* Threads and flags go together: one thread per ring, whose flag says that it is there.
ThreadsCounted == OneThread /\ RunningIsTrue

\* (Not so.)  A thread takes what it is given before its operator leaves.
GivenInTime ==
  \A t \in Receivers : thread[t].at = "begins" /\ thread[t].by # Main => starter[thread[t].by].at # "gone"
=============================================================================
