------------------------ MODULE DataThreadsProofs -------------------------
(***************************************************************************)
(* Theorems about what surrounds the ring of mirror frames in the data     *)
(* server: the threads that receive frames (FrameThreads), the port of the *)
(* PC-Reconstructor's errors (ErrorPort), and the frames of the camera     *)
(* (CameraFrames), for any number of operators, threads, kinds of frames,  *)
(* connections and clients, and a ring of any size.                        *)
(***************************************************************************)
EXTENDS DataThreads, TLAPS

-----------------------------------------------------------------------------
(* FrameThreads: the threads that receive frames                           *)

\* Of a kind that two operators have never been starting at a time:
\* an operator who has found no thread running is alone, the flag is still
\* cleared until he sets it, and there is no thread until he has created it.
OneStarter(k) == \A o, p \in Starting(k, {"tested", "set"}) : o = p
TestedIsDown(k) == \A o \in Starting(k, {"tested"}) : ~running[k]
SetIsUp(k) == \A o \in Starting(k, {"set"}) : running[k] /\ Alive(k) = {}
AliveIsUp(k) == \A s \in Alive(k) : running[k]
OneAlive(k) == \A s, t \in Alive(k) : s = t
UpIsMeant(k) == k \notin unmade /\ running[k] => Alive(k) # {} \/ Starting(k, {"set"}) # {}

KindInv(k) == OneStarter(k) /\ TestedIsDown(k) /\ SetIsUp(k) /\ AliveIsUp(k) /\ OneAlive(k) /\ UpIsMeant(k)
ThreadsInv == FrameThreads_TypeOK /\ \A k \in Kinds \ overlapped : KindInv(k)

LEMMA FirstType == First \in [Kinds -> Receivers] /\ \A j, k \in Kinds : First[j] = First[k] => j = k
BY FrameThreadsAssumption DEF First

LEMMA AnyKindType == AnyKind \in Kinds
BY FrameThreadsAssumption DEF AnyKind

LEMMA InitThreads == FrameThreads_Init => ThreadsInv
<1> SUFFICES ASSUME FrameThreads_Init PROVE ThreadsInv
  OBVIOUS
<1> USE FirstType, AnyKindType DEF FrameThreads_Init
<1> DEFINE KindOf(t) == CHOOSE k \in Kinds : First[k] = t
<1>1. \A t \in Receivers : (\E k \in Kinds : First[k] = t) => KindOf(t) \in Kinds /\ First[KindOf(t)] = t
  OBVIOUS
<1>2. \A k \in Kinds : KindOf(First[k]) = k
  BY <1>1
<1>3. \A t \in Receivers : thread[t].at = "begins" <=> \E k \in Kinds : First[k] = t
  OBVIOUS
<1>4. \A t \in Receivers : thread[t].at = "begins" => thread[t].kind = KindOf(t)
  BY <1>3
<1>5. \A t \in Receivers : thread[t].at # "works"
  OBVIOUS
<1>6. \A k \in Kinds : Alive(k) = {First[k]}
  <2> SUFFICES ASSUME NEW k \in Kinds PROVE Alive(k) = {First[k]}
    OBVIOUS
  <2> HIDE DEF KindOf, FrameThreads_Init
  <2>1. \A t \in Alive(k) : t = First[k]
    BY <1>1, <1>3, <1>4, <1>5 DEF Alive
  <2>2. First[k] \in Receivers
    OBVIOUS
  <2>3. First[k] \in Alive(k)
    BY <1>2, <1>3, <1>4, <2>2 DEF Alive
  <2> QED  BY <2>1, <2>3
<1>7. FrameThreads_TypeOK
  BY <1>1 DEF FrameThreads_TypeOK
<1>8. \A k \in Kinds : KindInv(k)
  BY <1>6 DEF KindInv, OneStarter, TestedIsDown, SetIsUp, AliveIsUp, OneAlive, UpIsMeant, Starting
<1> QED  BY <1>7, <1>8 DEF ThreadsInv

\* Kinds that a step does not concern.
LEMMA Unaffected ==
  ASSUME NEW j, running'[j] = running[j], Alive(j)' = Alive(j), j \in unmade => j \in unmade',
         Starting(j, {"set"})' = Starting(j, {"set"}),
         Starting(j, {"tested"})' = Starting(j, {"tested"}),
         Starting(j, {"tested", "set"})' = Starting(j, {"tested", "set"})
  PROVE  KindInv(j) => KindInv(j)'
BY DEF KindInv, OneStarter, TestedIsDown, SetIsUp, AliveIsUp, OneAlive, UpIsMeant

LEMMA StepThreads == ThreadsInv /\ [FrameThreads_Next]_frameVars => ThreadsInv'
<1> SUFFICES ASSUME ThreadsInv, [FrameThreads_Next]_frameVars PROVE ThreadsInv'
  OBVIOUS
<1> USE DEF ThreadsInv, FrameThreads_TypeOK
<1> DEFINE Goal == FrameThreads_TypeOK' /\ \A k \in (Kinds \ overlapped)' : KindInv(k)'
<1>1. ASSUME NEW o \in Starters, NEW k \in Kinds, Test_Running(o, k) PROVE Goal
  <2>1. CASE running[k]
    BY <1>1, <2>1 DEF Test_Running, KindInv, OneStarter, TestedIsDown, SetIsUp, AliveIsUp, OneAlive, UpIsMeant, Starting, Alive
  <2>2. CASE ~running[k]
    <3> USE <1>1, <2>2 DEF Test_Running
    <3>1. FrameThreads_TypeOK'
      OBVIOUS
    <3>2. \A j \in Kinds : Alive(j)' = Alive(j) /\ Starting(j, {"set"})' = Starting(j, {"set"})
      BY DEF Alive, Starting
    <3>3. \A j \in Kinds : Starting(j, {"tested"})' = Starting(j, {"tested"}) \cup IF j = k THEN {o} ELSE {}
      BY DEF Starting
    <3>4. \A j \in Kinds : Starting(j, {"tested", "set"})' = Starting(j, {"tested", "set"}) \cup IF j = k THEN {o} ELSE {}
      BY DEF Starting
    <3>5. ASSUME NEW j \in (Kinds \ overlapped)' PROVE KindInv(j)'
      <4>1. j \in Kinds \ overlapped /\ KindInv(j)
        OBVIOUS
      <4>2. OneStarter(j)'
        BY <3>4, <4>1 DEF KindInv, OneStarter
      <4>3. TestedIsDown(j)'
        BY <3>3, <4>1 DEF KindInv, TestedIsDown
      <4>4. (SetIsUp(j) /\ AliveIsUp(j) /\ OneAlive(j) /\ UpIsMeant(j))'
        BY <3>2, <4>1 DEF KindInv, SetIsUp, AliveIsUp, OneAlive, UpIsMeant
      <4> QED  BY <4>2, <4>3, <4>4 DEF KindInv
    <3> QED  BY <3>1, <3>5
  <2> QED  BY <2>1, <2>2
<1>2. ASSUME NEW o \in Starters, Set_Running(o) PROVE Goal
  <2>1. PICK k \in Kinds : starter[o].kind = k
    BY DEF FrameThreads_TypeOK
  <2>2. /\ o \in Starting(k, {"tested"}) /\ o \in Starting(k, {"tested", "set"})
        /\ running' = [running EXCEPT ![k] = TRUE] /\ UNCHANGED <<thread, overlapped, unmade>>
    BY <1>2, <2>1 DEF Set_Running, Starting
  <2>3. FrameThreads_TypeOK'
    BY <1>2 DEF Set_Running
  <2>4. Starting(k, {"set"})' = Starting(k, {"set"}) \cup {o}
    BY <1>2, <2>1 DEF Set_Running, Starting
  <2>5. Starting(k, {"tested"})' = Starting(k, {"tested"}) \ {o}
    BY <1>2, <2>1 DEF Set_Running, Starting
  <2>6. Starting(k, {"tested", "set"})' = Starting(k, {"tested", "set"})
    BY <1>2, <2>1 DEF Set_Running, Starting
  <2>7. \A j : Alive(j)' = Alive(j)
    BY <2>2 DEF Alive
  <2>8. ASSUME NEW j \in (Kinds \ overlapped)', j # k PROVE KindInv(j)'
    <3>1. /\ Starting(j, {"set"})' = Starting(j, {"set"})
          /\ Starting(j, {"tested"})' = Starting(j, {"tested"})
          /\ Starting(j, {"tested", "set"})' = Starting(j, {"tested", "set"})
      BY <1>2, <2>1, <2>8 DEF Set_Running, Starting
    <3>2. j \in Kinds /\ KindInv(j) /\ running'[j] = running[j]
      BY <2>2, <2>8
    <3> QED  BY <2>2, <2>7, <3>1, <3>2, Unaffected
  <2>9. ASSUME k \in (Kinds \ overlapped)' PROVE KindInv(k)'
    <3>1. KindInv(k)
      BY <2>2, <2>9
    <3>2. running'[k]
      BY <2>2
    <3>3. Alive(k) = {}
      BY <2>2, <3>1 DEF KindInv, TestedIsDown, AliveIsUp
    <3>4. Starting(k, {"tested"}) = {o}
      BY <2>2, <3>1 DEF KindInv, OneStarter, Starting
    <3>5. (OneStarter(k) /\ TestedIsDown(k))'
      BY <2>5, <2>6, <3>1, <3>4 DEF KindInv, OneStarter, TestedIsDown
    <3>6. (SetIsUp(k) /\ AliveIsUp(k) /\ OneAlive(k) /\ UpIsMeant(k))'
      BY <2>4, <2>7, <3>2, <3>3 DEF SetIsUp, AliveIsUp, OneAlive, UpIsMeant
    <3> QED  BY <3>5, <3>6 DEF KindInv
  <2> QED  BY <2>3, <2>8, <2>9
<1>3. ASSUME NEW o \in Starters, Start_Thread(o) PROVE Goal
  <2>1. PICK k \in Kinds, t \in Receivers :
          /\ starter[o].kind = k
          /\ thread[t].at = "none"
          /\ thread' = [thread EXCEPT ![t] = [at |-> "begins", kind |-> k, by |-> o]]
    BY <1>3 DEF Start_Thread
  <2>2. o \in Starting(k, {"set"}) /\ UNCHANGED <<running, overlapped, unmade>>
    BY <1>3, <2>1 DEF Start_Thread, Starting
  <2>3. FrameThreads_TypeOK'
    BY <1>3, <2>1 DEF Start_Thread
  <2>4. Alive(k)' = Alive(k) \cup {t}
    BY <2>1 DEF Alive
  <2>5. Starting(k, {"set"})' = Starting(k, {"set"}) \ {o}
    BY <1>3, <2>1 DEF Start_Thread, Starting
  <2>6. Starting(k, {"tested"})' = Starting(k, {"tested"})
    BY <1>3, <2>1 DEF Start_Thread, Starting
  <2>7. Starting(k, {"tested", "set"})' = Starting(k, {"tested", "set"}) \ {o}
    BY <1>3, <2>1 DEF Start_Thread, Starting
  <2>8. ASSUME NEW j \in (Kinds \ overlapped)', j # k PROVE KindInv(j)'
    <3>1. Alive(j)' = Alive(j)
      BY <2>1, <2>8 DEF Alive
    <3>2. /\ Starting(j, {"set"})' = Starting(j, {"set"})
          /\ Starting(j, {"tested"})' = Starting(j, {"tested"})
          /\ Starting(j, {"tested", "set"})' = Starting(j, {"tested", "set"})
      BY <1>3, <2>1, <2>8 DEF Start_Thread, Starting
    <3>3. j \in Kinds /\ KindInv(j)
      BY <2>2
    <3> QED  BY <2>2, <3>1, <3>2, <3>3, Unaffected
  <2>9. ASSUME k \in (Kinds \ overlapped)' PROVE KindInv(k)'
    <3>1. KindInv(k)
      BY <2>2, <2>9
    <3>2. Alive(k) = {} /\ running[k]
      BY <2>2, <3>1 DEF KindInv, SetIsUp
    <3>3. Starting(k, {"set"}) \subseteq {o}
      BY <2>2, <3>1 DEF KindInv, OneStarter, Starting
    <3>4. (OneStarter(k) /\ TestedIsDown(k))'
      BY <2>2, <2>6, <2>7, <3>1 DEF KindInv, OneStarter, TestedIsDown
    <3>5. (SetIsUp(k) /\ AliveIsUp(k) /\ OneAlive(k) /\ UpIsMeant(k))'
      BY <2>2, <2>4, <2>5, <3>2, <3>3 DEF SetIsUp, AliveIsUp, OneAlive, UpIsMeant
    <3> QED  BY <3>4, <3>5 DEF KindInv
  <2> QED  BY <2>3, <2>8, <2>9
<1>4. ASSUME NEW o \in Starters, Start_Fails(o) PROVE Goal
  <2>1. PICK k \in Kinds : starter[o].kind = k
    BY DEF FrameThreads_TypeOK
  <2>2. /\ o \in Starting(k, {"set"}) /\ unmade' = unmade \cup {k}
        /\ UNCHANGED <<running, thread, overlapped>>
    BY <1>4, <2>1 DEF Start_Fails, Starting
  <2>3. FrameThreads_TypeOK'
    BY <1>4, <2>1, <2>2 DEF Start_Fails
  <2>4. Starting(k, {"set"})' = Starting(k, {"set"}) \ {o}
    BY <1>4, <2>1 DEF Start_Fails, Starting
  <2>5. Starting(k, {"tested"})' = Starting(k, {"tested"})
    BY <1>4, <2>1 DEF Start_Fails, Starting
  <2>6. Starting(k, {"tested", "set"})' = Starting(k, {"tested", "set"}) \ {o}
    BY <1>4, <2>1 DEF Start_Fails, Starting
  <2>7. \A j : Alive(j)' = Alive(j)
    BY <2>2 DEF Alive
  <2>8. ASSUME NEW j \in (Kinds \ overlapped)', j # k PROVE KindInv(j)'
    <3>1. /\ Starting(j, {"set"})' = Starting(j, {"set"})
          /\ Starting(j, {"tested"})' = Starting(j, {"tested"})
          /\ Starting(j, {"tested", "set"})' = Starting(j, {"tested", "set"})
      BY <1>4, <2>1, <2>8 DEF Start_Fails, Starting
    <3>2. j \in Kinds /\ KindInv(j)
      BY <2>2
    <3> QED  BY <2>2, <2>7, <3>1, <3>2, Unaffected
  <2>9. ASSUME k \in (Kinds \ overlapped)' PROVE KindInv(k)'
    <3>1. KindInv(k)
      BY <2>2, <2>9
    <3>2. (OneStarter(k) /\ TestedIsDown(k))'
      BY <2>2, <2>5, <2>6, <3>1 DEF KindInv, OneStarter, TestedIsDown
    <3>3. (SetIsUp(k) /\ AliveIsUp(k) /\ OneAlive(k) /\ UpIsMeant(k))'
      BY <2>2, <2>4, <2>7, <3>1 DEF KindInv, SetIsUp, AliveIsUp, OneAlive, UpIsMeant
    <3> QED  BY <3>2, <3>3 DEF KindInv
  <2> QED  BY <2>3, <2>8, <2>9
<1>5. ASSUME NEW o \in Starters, Quit(o) PROVE Goal
  <2>1. FrameThreads_TypeOK'
    BY <1>5 DEF Quit
  <2>2. ASSUME NEW j \in (Kinds \ overlapped)' PROVE KindInv(j)'
    <3>1. j \in Kinds /\ KindInv(j) /\ running' = running /\ unmade' = unmade
      BY <1>5 DEF Quit
    <3>2. /\ Alive(j)' = Alive(j)
          /\ Starting(j, {"set"})' = Starting(j, {"set"})
          /\ Starting(j, {"tested"})' = Starting(j, {"tested"})
          /\ Starting(j, {"tested", "set"})' = Starting(j, {"tested", "set"})
      BY <1>5 DEF Quit, Alive, Starting
    <3> QED  BY <3>1, <3>2, Unaffected
  <2> QED  BY <2>1, <2>2
<1>6. ASSUME NEW o \in Starters, NEW k \in Kinds, Stop_Thread(o, k) PROVE Goal
  <2>1. FrameThreads_TypeOK'
    BY <1>6 DEF Stop_Thread
  <2>2. ASSUME NEW j \in (Kinds \ overlapped)' PROVE KindInv(j)'
    <3>1. j \in Kinds /\ KindInv(j) /\ running' = running /\ unmade' = unmade
      BY <1>6 DEF Stop_Thread
    <3>2. /\ Alive(j)' = Alive(j)
          /\ Starting(j, {"set"})' = Starting(j, {"set"})
          /\ Starting(j, {"tested"})' = Starting(j, {"tested"})
          /\ Starting(j, {"tested", "set"})' = Starting(j, {"tested", "set"})
      BY <1>6 DEF Stop_Thread, Alive, Starting
    <3> QED  BY <3>1, <3>2, Unaffected
  <2> QED  BY <2>1, <2>2
<1>7. ASSUME NEW t \in Receivers, Begin_Thread(t) PROVE Goal
  <2>1. FrameThreads_TypeOK'
    BY <1>7 DEF Begin_Thread
  <2>2. ASSUME NEW j \in (Kinds \ overlapped)' PROVE KindInv(j)'
    <3>1. j \in Kinds /\ KindInv(j) /\ running' = running /\ unmade' = unmade
      BY <1>7 DEF Begin_Thread
    <3>2. /\ Alive(j)' = Alive(j)
          /\ Starting(j, {"set"})' = Starting(j, {"set"})
          /\ Starting(j, {"tested"})' = Starting(j, {"tested"})
          /\ Starting(j, {"tested", "set"})' = Starting(j, {"tested", "set"})
      BY <1>7 DEF Begin_Thread, Alive, Starting
    <3> QED  BY <3>1, <3>2, Unaffected
  <2> QED  BY <2>1, <2>2
<1>8. ASSUME NEW t \in Receivers, End_Thread(t) PROVE Goal
  <2>1. PICK k \in Kinds : thread[t].kind = k
    BY DEF FrameThreads_TypeOK
  <2>2. /\ t \in Alive(k) /\ running' = [running EXCEPT ![k] = FALSE]
        /\ UNCHANGED <<starter, overlapped, unmade>>
    BY <1>8, <2>1 DEF End_Thread, Alive
  <2>3. FrameThreads_TypeOK'
    BY <1>8 DEF End_Thread
  <2>4. Alive(k)' = Alive(k) \ {t}
    BY <1>8, <2>1 DEF End_Thread, Alive
  <2>5. \A j : /\ Starting(j, {"set"})' = Starting(j, {"set"})
               /\ Starting(j, {"tested"})' = Starting(j, {"tested"})
               /\ Starting(j, {"tested", "set"})' = Starting(j, {"tested", "set"})
    BY <2>2 DEF Starting
  <2>6. ASSUME NEW j \in (Kinds \ overlapped)', j # k PROVE KindInv(j)'
    <3>1. Alive(j)' = Alive(j)
      BY <1>8, <2>1, <2>6 DEF End_Thread, Alive
    <3>2. j \in Kinds /\ KindInv(j) /\ running'[j] = running[j]
      BY <2>2, <2>6
    <3> QED  BY <2>2, <2>5, <3>1, <3>2, Unaffected
  <2>7. ASSUME k \in (Kinds \ overlapped)' PROVE KindInv(k)'
    <3>1. KindInv(k)
      BY <2>2, <2>7
    <3>2. ~running'[k]
      BY <2>2
    <3>3. Alive(k)' = {}
      BY <2>2, <2>4, <3>1 DEF KindInv, OneAlive
    <3>4. Starting(k, {"set"}) = {}
      BY <2>2, <3>1 DEF KindInv, SetIsUp
    <3>5. (OneStarter(k) /\ TestedIsDown(k))'
      BY <2>5, <3>1, <3>2 DEF KindInv, OneStarter, TestedIsDown
    <3>6. (SetIsUp(k) /\ AliveIsUp(k) /\ OneAlive(k) /\ UpIsMeant(k))'
      BY <2>5, <3>2, <3>3, <3>4 DEF SetIsUp, AliveIsUp, OneAlive, UpIsMeant
    <3> QED  BY <3>5, <3>6 DEF KindInv
  <2> QED  BY <2>3, <2>6, <2>7
<1>9. ASSUME UNCHANGED frameVars PROVE Goal
  <2>1. FrameThreads_TypeOK'
    BY <1>9 DEF frameVars
  <2>2. ASSUME NEW j \in (Kinds \ overlapped)' PROVE KindInv(j)'
    <3>1. j \in Kinds /\ KindInv(j) /\ running' = running /\ unmade' = unmade
      BY <1>9 DEF frameVars
    <3>2. /\ Alive(j)' = Alive(j)
          /\ Starting(j, {"set"})' = Starting(j, {"set"})
          /\ Starting(j, {"tested"})' = Starting(j, {"tested"})
          /\ Starting(j, {"tested", "set"})' = Starting(j, {"tested", "set"})
      BY <1>9 DEF frameVars, Alive, Starting
    <3> QED  BY <3>1, <3>2, Unaffected
  <2> QED  BY <2>1, <2>2
<1> QED  BY <1>1, <1>2, <1>3, <1>4, <1>5, <1>6, <1>7, <1>8, <1>9 DEF FrameThreads_Next

\* The variables have their types in every state.
THEOREM ThreadsTyped == FrameThreads_Spec => []FrameThreads_TypeOK
<1>1. ThreadsInv => FrameThreads_TypeOK
  BY DEF ThreadsInv
<1> QED  BY <1>1, InitThreads, StepThreads, PTL DEF FrameThreads_Spec

\* What is counted follows from the invariant, kind by kind.
LEMMA ThreadsFromInv == ThreadsInv => OneThread /\ RunningIsTrue
<1>1. ThreadsInv => OneThread
  BY DEF ThreadsInv, KindInv, OneAlive, OneThread, Alive
<1>2. ThreadsInv => RunningIsTrue
  <2> SUFFICES ASSUME ThreadsInv, NEW k \in Kinds \ (overlapped \cup unmade)
               PROVE running[k] <=> Alive(k) # {} \/ Starting(k, {"set"}) # {}
    BY DEF RunningIsTrue
  <2>1. KindInv(k) /\ running[k] \in BOOLEAN
    BY DEF ThreadsInv, FrameThreads_TypeOK
  <2> QED  BY <2>1 DEF KindInv, SetIsUp, AliveIsUp, UpIsMeant
<1> QED  BY <1>1, <1>2

\* However operators stop, start and leave, one ring of frames has one thread
\* that fills it, unless two operators were starting one at a time.
THEOREM ThreadsAlone == FrameThreads_Spec => []OneThread
BY ThreadsFromInv, InitThreads, StepThreads, PTL DEF FrameThreads_Spec

\* The flag by which operators tell whether a thread of a kind is running says
\* so neither too early nor too late.
THEOREM ThreadsFlagged == FrameThreads_Spec => []RunningIsTrue
BY ThreadsFromInv, InitThreads, StepThreads, PTL DEF FrameThreads_Spec

\* Both: which threads there are is what the flags say.
THEOREM ThreadsCorrect == FrameThreads_Spec => []ThreadsCounted
BY ThreadsAlone, ThreadsFlagged, PTL DEF ThreadsCounted

-----------------------------------------------------------------------------
(* ErrorPort: the connection for error messages                            *)

Openers == {Error, Operator}
NoLink == \A l \in Links : links[l] = "none"

PortTyped ==
  /\ port \in [connected : BOOLEAN, fd : Links \cup {-1, 0}]
  /\ place \in [Openers -> {"outer", "idle", "open", "opening", "hello", "wait", "read"}]
  /\ links \in [Links -> {"none", "up", "gone"}]

\* OneErrorLink says nothing of what is there while a connection is being made:
\* the old one has been dropped, and only the other thread could make a new one.
AloneOpening ==
  \A t \in Openers : place[t] = "opening" =>
    NoLink /\ \A u \in Openers : place[u] = "opening" => u = t

PortInv == PortTyped /\ (together \/ (AloneOpening /\ OneErrorLink))

LEMMA InitPort == ErrorPort_Init => PortInv
BY ErrorPortAssumption
   DEF ErrorPort_Init, PortInv, PortTyped, AloneOpening, OneErrorLink, NoLink, Openers

LEMMA StepPort == PortInv /\ [ErrorPort_Next]_errorVars => PortInv'
<1> SUFFICES ASSUME PortInv, [ErrorPort_Next]_errorVars PROVE PortInv'
  OBVIOUS
<1> USE ErrorPortAssumption
<1> USE DEF PortInv, PortTyped, AloneOpening, OneErrorLink, NoLink, Openers, GoTo
<1>1. ASSUME NEW t \in Openers, Open_Begin(t) PROVE PortInv'
  <2>1. CASE Trouble /\ GoTo(t, After(t, port.connected)) /\ UNCHANGED <<port, links, hello, together>>
    BY <1>1, <2>1 DEF After
  <2>2. CASE GoTo(t, "opening")
    <3>0. place' \in [Openers -> {"outer", "idle", "open", "opening", "hello", "wait", "read"}]
      BY <2>2
    <3>3. ASSUME ~together', NEW u \in Openers, place'[u] = "opening" PROVE u = t
      BY <1>1, <2>2, <3>3 DEF Open_Begin, After
    <3>1. CASE port.connected \/ port.fd >= 0
      <4>1. Drop(port.fd) /\ port' = [connected |-> FALSE, fd |-> 0]
        BY <1>1, <2>2, <3>1 DEF Open_Begin, After
      <4>2. PortTyped' /\ (~together => NoLink')
        BY <4>1, <3>0 DEF Drop
      <4> QED  BY <4>2, <3>3, <2>2, <1>1, <4>1 DEF Open_Begin
    <3>2. CASE ~(port.connected \/ port.fd >= 0)
      <4>1. UNCHANGED <<port, links, hello>>
        BY <1>1, <2>2, <3>2 DEF Open_Begin, After
      <4>2. PortTyped' /\ (~together => NoLink')
        BY <4>1, <3>0, <3>2
      <4> QED  BY <4>1, <4>2, <3>3, <2>2, <1>1 DEF Open_Begin
    <3> QED  BY <3>1, <3>2
  <2> QED  BY <1>1, <2>1, <2>2 DEF Open_Begin
<1>2. ASSUME NEW t \in Openers, Open_Fails(t) PROVE PortInv'
  BY <1>2 DEF Open_Fails, After
<1>3. ASSUME NEW t \in Openers, Open_End(t) PROVE PortInv'
  BY <1>3 DEF Open_End, After
<1>4. CASE Error_Outer
  BY <1>4 DEF Error_Outer
<1>5. CASE Hello_Ok
  BY <1>5 DEF Hello_Ok
<1>6. CASE Hello_Fails
  BY <1>6 DEF Hello_Fails, Socket_Close, Drop
<1>7. CASE Wait_Leave
  BY <1>7 DEF Wait_Leave
<1>8. CASE Wait_Select
  BY <1>8 DEF Wait_Select
<1>9. CASE Wait_Message
  BY <1>9 DEF Wait_Message
<1>10. CASE Wait_Lost
  BY <1>10 DEF Wait_Lost, Socket_Close, Drop
<1>11. CASE Operator_Open
  BY <1>11 DEF Operator_Open
<1>12. ASSUME NEW l \in Links, Link_Breaks(l) PROVE PortInv'
  BY <1>12 DEF Link_Breaks
<1>13. CASE UNCHANGED errorVars
  BY <1>13 DEF errorVars
<1> QED
  BY <1>1, <1>2, <1>3, <1>4, <1>5, <1>6, <1>7, <1>8, <1>9, <1>10, <1>11, <1>12, <1>13
     DEF ErrorPort_Next, Error_Thread

\* Whoever opens, closes and is cut off, no connection but the one in use is
\* left open, unless the error thread and an operator were opening at a time.
THEOREM LinksOne == ErrorPort_Spec => []OneErrorLink
<1>1. PortInv => OneErrorLink
  BY DEF PortInv, OneErrorLink
<1> QED  BY <1>1, InitPort, StepPort, PTL DEF ErrorPort_Spec

-----------------------------------------------------------------------------
(* CameraFrames: the camera's ring and its clients                         *)

\* The slot "k" slots after "s", all the way round.
Ahead(s, k) == IF s + k < CamSlots THEN s + k ELSE s + k - CamSlots

\* A slot with one whole frame in it.
Whole(f) == f.halves = <<f.number, f.number>> /\ f.number # Junk

FrameRecord == [number : Nat, bytes : Nat, halves : Nat \X Nat]

Places == {"outer", "connect", "hello", "size", "frame", "wait", "search", "number", "first", "second",
           "check", "flush", "over"}
ThreadTyped ==
  /\ cam \in [at : Places, format : CamFormats \cup {0}, frame : Nat, short : BOOLEAN]
  /\ stream \in [next : {"size", "frame"}, format : CamFormats \cup {0}]
  /\ link \in {"down", "up", "broken"} /\ bounds \in [sent : Nat, mishaps : Nat]

RingTyped ==
  /\ pointer \in [active : Slot, last : Slot \cup {None}, astray : Nat]
  /\ ring \in [Slot -> FrameRecord] /\ spoilt \subseteq Slot

ReplyRecord == [at : {"idle", "number", "body"}, slot : Slot, number : Nat \cup {None}, fresh : BOOLEAN,
                bytes : Nat, before : Nat \cup {None}, excused : BOOLEAN, since : 0 .. CamSlots]
ClientsTyped ==
  /\ asking \in [CamClients -> ReplyRecord] /\ told \in [CamClients -> Nat \cup {None}]
  /\ old \in Nat \cup {None} /\ shown \in Nat

CamTyped == ThreadTyped /\ RingTyped /\ ClientsTyped

\* What the thread has read of a frame is in the active slot, when dataPtr is
\* where it should be and the frame is neither cut short nor of another size.
Reading == cam.at \in {"number", "first", "second", "check"}
Stored  == pointer.astray = 0 /\ cam.at \in {"first", "second", "check"}
Sound   == ~cam.short /\ ~Foreign
ReadInPlace ==
  /\ Reading => cam.frame # Junk
  /\ Stored  => Here.number = cam.frame
  /\ Stored /\ Sound /\ cam.at = "second" => Here.halves[1] = cam.frame
  /\ Stored /\ Sound /\ cam.at = "check"  => Here.halves = <<cam.frame, cam.frame>>

\* The frame that is handed out is whole, and the active slot comes after it.
LastInPlace ==
  pointer.last # None =>
    /\ pointer.active = Ahead(pointer.last, 1)
    /\ pointer.last \notin spoilt => Whole(ring[pointer.last])

\* Of the frame in its hands a client knows how far the writer has come since;
\* until the writer comes round, nothing happens to it that would not excuse.
ReplyInPlace(c) ==
  LET r == asking[c] IN
  /\ told[c] # None => told[c] = old
  /\ r.at # "idle" /\ r.since < CamSlots => pointer.active = Ahead(r.slot, r.since + 1)
  /\ r.at # "idle" /\ ~r.excused /\ r.since < CamSlots - 1 =>
       Whole(ring[r.slot]) /\ ring[r.slot].bytes = shown
  /\ r.at = "body" /\ ~r.excused => r.bytes = shown
  /\ r.at = "body" /\ ~r.excused /\ r.since < CamSlots - 1 => r.number = ring[r.slot].number
  /\ r.at = "body" /\ r.before # None => (r.fresh <=> r.number # r.before)

CamInv == CamTyped /\ ReadInPlace /\ LastInPlace /\ \A c \in CamClients : ReplyInPlace(c)

LEMMA AheadOne == ASSUME NEW s \in Slot PROVE NextSlot(s) = Ahead(s, 1) /\ NextSlot(s) \in Slot
<1> USE CameraAssumption DEF Slot
<1>1. CASE s + 1 < CamSlots
  <2>1. (s + 1) % CamSlots = s + 1
    BY <1>1
  <2> QED  BY <2>1, <1>1 DEF NextSlot, Ahead
<1>2. CASE s + 1 = CamSlots
  <2>1. CamSlots % CamSlots = 0
    OBVIOUS
  <2> QED  BY <2>1, <1>2 DEF NextSlot, Ahead
<1> QED  BY <1>1, <1>2

\* One on from k slots after s; and the writer is not at a slot before it has gone all the way round.
LEMMA AheadMore ==
  ASSUME NEW s \in Slot, NEW k \in 0 .. CamSlots - 1
  PROVE  /\ Ahead(s, k) \in Slot /\ Ahead(Ahead(s, k), 1) = Ahead(s, k + 1)
         /\ k > 0 => Ahead(s, k) # s
BY CameraAssumption DEF Slot, Ahead

\* What the thread does to flags, the connection and its own place changes
\* nothing that clients see.
LEMMA Aside ==
  ASSUME CamInv, UNCHANGED <<ring, pointer, shown, old, told, spoilt, asking>>, ThreadTyped',
         cam'.at \notin {"number", "first", "second", "check"}
  PROVE  CamInv'
<1>1. RingTyped' /\ ClientsTyped'
  BY DEF CamInv, CamTyped, RingTyped, ClientsTyped, ReplyRecord
<1>2. ReadInPlace'
  BY DEF ReadInPlace, Reading, Stored
<1>3. LastInPlace'
  BY DEF CamInv, LastInPlace
<1>4. \A c \in CamClients : ReplyInPlace(c)'
  BY DEF CamInv, ReplyInPlace
<1> QED  BY <1>1, <1>2, <1>3, <1>4 DEF CamInv, CamTyped

\* The same where the thread goes on reading, and where it does not move.
LEMMA Still ==
  ASSUME CamInv, UNCHANGED <<ring, pointer, shown, old, told, spoilt, asking, cam>>, ThreadTyped',
         Reading => UNCHANGED stream
  PROVE  CamInv'
<1>1. RingTyped' /\ ClientsTyped'
  BY DEF CamInv, CamTyped, RingTyped, ClientsTyped, ReplyRecord
<1>2. ReadInPlace'
  BY DEF CamInv, ReadInPlace, Reading, Stored, Sound, Foreign, Here
<1>3. LastInPlace'
  BY DEF CamInv, LastInPlace
<1>4. \A c \in CamClients : ReplyInPlace(c)'
  BY DEF CamInv, ReplyInPlace
<1> QED  BY <1>1, <1>2, <1>3, <1>4 DEF CamInv, CamTyped

\* What a store writes, or damages, is nothing that clients rely on: it is in the
\* active slot, or they are excused.
LEMMA StoreApart ==
  ASSUME CamInv, NEW f \in FrameRecord, NEW first \in Nat, NEW n \in Nat, Store(f, first, n),
         UNCHANGED <<pointer, shown, old, told>>
  PROVE  /\ RingTyped' /\ ClientsTyped' /\ LastInPlace' /\ \A c \in CamClients : ReplyInPlace(c)'
         /\ pointer.astray = 0 => ring'[pointer.active] = f
<1> DEFINE S == Struck(first, n)
<1>1. S \subseteq Slot /\ (pointer.astray = 0 => S = {})
  BY DEF Struck
<1>2. /\ ring' = [s \in Slot |-> IF s \in S THEN Damaged
                                 ELSE IF s = pointer.active /\ pointer.astray = 0 THEN f ELSE ring[s]]
      /\ spoilt' = spoilt \cup S
      /\ asking' = [c \in CamClients |-> IF asking[c].slot \in S /\ asking[c].at # "idle"
                                         THEN [asking[c] EXCEPT !.excused = TRUE] ELSE asking[c]]
  BY DEF Store, Excuse
<1> HIDE DEF S
<1>3. Damaged \in FrameRecord
  BY DEF Damaged, FrameRecord, Junk
<1>4. RingTyped'
  <2>1. ring \in [Slot -> FrameRecord] /\ spoilt \subseteq Slot
    BY DEF CamInv, CamTyped, RingTyped
  <2>2. ring' \in [Slot -> FrameRecord] /\ spoilt' \subseteq Slot
    BY <1>1, <1>2, <1>3, <2>1
  <2> QED  BY <2>2 DEF CamInv, CamTyped, RingTyped
<1>5. ClientsTyped'
  BY <1>2 DEF CamInv, CamTyped, ClientsTyped, ReplyRecord
<1>6. \A s \in Slot : s \notin S /\ s # pointer.active => ring'[s] = ring[s]
  BY <1>2
<1>7. LastInPlace'
  <2> SUFFICES ASSUME pointer.last # None
               PROVE  /\ pointer.active = Ahead(pointer.last, 1)
                      /\ pointer.last \notin spoilt' => Whole(ring'[pointer.last])
    BY DEF LastInPlace, Whole
  <2>1. pointer.last \in Slot /\ pointer.active = Ahead(pointer.last, 1)
        /\ (pointer.last \notin spoilt => Whole(ring[pointer.last]))
    BY DEF CamInv, CamTyped, RingTyped, LastInPlace
  <2>2. 1 \in 0 .. CamSlots - 1
    BY CameraAssumption
  <2>3. pointer.active # pointer.last
    BY <2>1, <2>2, AheadMore
  <2> QED  BY <1>2, <1>6, <2>1, <2>3
<1>8. ASSUME NEW c \in CamClients PROVE ReplyInPlace(c)'
  <2> DEFINE r == asking[c]
             q == asking'[c]
  <2>1. /\ r.at \in {"idle", "number", "body"} /\ r.slot \in Slot /\ r.since \in 0 .. CamSlots
        /\ r.excused \in BOOLEAN
    BY DEF CamInv, CamTyped, ClientsTyped, ReplyRecord
  <2>2. /\ q.at = r.at /\ q.slot = r.slot /\ q.since = r.since /\ q.number = r.number
        /\ q.bytes = r.bytes /\ q.fresh = r.fresh /\ q.before = r.before
        /\ q.at # "idle" /\ ~q.excused => ~r.excused /\ r.slot \notin S
    BY <1>2 DEF CamInv, CamTyped, ClientsTyped, ReplyRecord
  <2>3. ReplyInPlace(c)
    BY DEF CamInv
  <2>4. r.at # "idle" /\ r.since < CamSlots - 1 => r.slot # pointer.active
    <3> SUFFICES ASSUME r.at # "idle", r.since < CamSlots - 1 PROVE r.slot # pointer.active
      OBVIOUS
    <3>1. r.since + 1 \in 0 .. CamSlots - 1 /\ r.since + 1 > 0 /\ r.since < CamSlots
      BY <2>1, CameraAssumption
    <3>2. pointer.active = Ahead(r.slot, r.since + 1)
      BY <2>3, <3>1 DEF ReplyInPlace
    <3> QED  BY <2>1, <3>1, <3>2, AheadMore
  <2>5. q.at # "idle" /\ ~q.excused /\ q.since < CamSlots - 1 => ring'[q.slot] = ring[r.slot]
    BY <1>6, <2>1, <2>2, <2>4
  <2> HIDE DEF r, q
  <2>6. /\ q.at # "idle" /\ ~q.excused /\ q.since < CamSlots - 1 =>
             Whole(ring'[q.slot]) /\ ring'[q.slot].bytes = shown
        /\ q.at = "body" /\ ~q.excused /\ q.since < CamSlots - 1 => q.number = ring'[q.slot].number
    BY <2>2, <2>3, <2>5 DEF ReplyInPlace, r
  <2>7. /\ told[c] # None => told[c] = old
        /\ q.at # "idle" /\ q.since < CamSlots => pointer.active = Ahead(q.slot, q.since + 1)
        /\ q.at = "body" /\ ~q.excused => q.bytes = shown
        /\ q.at = "body" /\ q.before # None => (q.fresh <=> q.number # q.before)
    BY <2>2, <2>3 DEF ReplyInPlace, r
  <2> QED  BY <2>6, <2>7 DEF ReplyInPlace, Whole, q
<1>9. pointer.astray = 0 => ring'[pointer.active] = f
  BY <1>1, <1>2 DEF CamInv, CamTyped, RingTyped
<1> QED  BY <1>4, <1>5, <1>7, <1>8, <1>9

LEMMA wfscType == \A f \in CamFormats \cup {0} : wfsc_bytes(f) \in {1152, 10368} /\ wfsc_bytes(f) \div 2 \in Nat
BY CameraAssumption DEF wfsc_bytes

LEMMA InitCamera == Cam_Init => CamInv
<1> SUFFICES ASSUME Cam_Init PROVE CamInv
  OBVIOUS
<1>1. Damaged \in FrameRecord /\ 0 \in Slot
  BY CameraAssumption DEF Damaged, FrameRecord, Junk, Slot
<1>2. ThreadTyped /\ RingTyped
  BY <1>1 DEF Cam_Init, ThreadTyped, Places, RingTyped, Junk
<1>3. ClientsTyped
  BY <1>1, CameraAssumption DEF Cam_Init, ClientsTyped, ReplyRecord, Quiet, Slot
<1>4. ReadInPlace /\ LastInPlace
  BY DEF Cam_Init, ReadInPlace, Reading, Stored, LastInPlace
<1>5. ASSUME NEW c \in CamClients PROVE ReplyInPlace(c)
  BY DEF Cam_Init, ReplyInPlace, Quiet
<1> QED  BY <1>2, <1>3, <1>4, <1>5 DEF CamInv, CamTyped

\* The steps of the thread that neither read into the ring nor hand out of it.
LEMMA LoopSteps ==
  ASSUME CamInv,
         Cam_Outer \/ Cam_Connect \/ Cam_HelloSilent \/ Cam_HelloBroken \/ Cam_HelloCut \/ Cam_NoSize
         \/ Cam_SizeBroken \/ Cam_Frame \/ Cam_FrameSilent \/ Cam_MarkerLost \/ Cam_SearchLost \/ Cam_Flush
         \/ Operator_Connect
  PROVE  CamInv'
<1> USE DEF Goto, Close, Set, dataVars, CamInv, CamTyped, ThreadTyped, Places
<1> DEFINE Fine == /\ UNCHANGED <<ring, pointer, shown, old, told, spoilt, asking>> /\ ThreadTyped'
                   /\ cam'.at \notin {"number", "first", "second", "check"}
<1>1. CASE Cam_Outer
  <2>1. Fine  BY <1>1 DEF Cam_Outer
  <2> QED  BY <2>1, Aside
<1>2. CASE Cam_Connect
  <2>1. Fine  BY <1>2 DEF Cam_Connect, Cam_Open
  <2> QED  BY <2>1, Aside
<1>3. CASE Cam_HelloSilent
  <2>1. Fine  BY <1>3 DEF Cam_HelloSilent
  <2> QED  BY <2>1, Aside
<1>4. CASE Cam_HelloBroken
  <2>1. Fine  BY <1>4 DEF Cam_HelloBroken
  <2> QED  BY <2>1, Aside
<1>5. CASE Cam_Frame
  <2>1. Fine  BY <1>5 DEF Cam_Frame
  <2> QED  BY <2>1, Aside
<1>6. CASE Cam_FrameSilent
  <2>1. Fine  BY <1>6 DEF Cam_FrameSilent
  <2> QED  BY <2>1, Aside
<1>7. CASE Cam_MarkerLost
  <2>1. Fine  BY <1>7 DEF Cam_MarkerLost
  <2> QED  BY <2>1, Aside
<1>8. CASE Cam_Flush
  <2>1. Fine  BY <1>8 DEF Cam_Flush
  <2> QED  BY <2>1, Aside
<1>9. CASE Operator_Connect
  <2>1. Fine  BY <1>9 DEF Operator_Connect, Mishap
  <2> QED  BY <2>1, Aside
<1>10. CASE Cam_HelloCut \/ Cam_NoSize \/ Cam_SizeBroken
  <2>1. Fine  BY <1>10 DEF Cam_HelloCut, Cam_NoSize, Cam_SizeBroken
  <2> QED  BY <2>1, Aside
<1>11. CASE Cam_SearchLost
  <2>1. Fine  BY <1>11 DEF Cam_SearchLost
  <2> QED  BY <2>1, Aside
<1> QED  BY <1>1, <1>2, <1>3, <1>4, <1>5, <1>6, <1>7, <1>8, <1>9, <1>10, <1>11

\* What operators and the camera do meanwhile.
LEMMA MishapSteps ==
  ASSUME CamInv, Operator_Stop \/ Operator_Reset \/ Camera_Restart \/ Camera_Breaks \/ UNCHANGED camVars
  PROVE  CamInv'
<1> DEFINE Fine == /\ UNCHANGED <<ring, pointer, shown, old, told, spoilt, asking, cam>> /\ ThreadTyped'
                   /\ Reading => UNCHANGED stream
<1> USE DEF Mishap, Set, dataVars, CamInv, CamTyped, ThreadTyped, Places
<1>1. CASE Operator_Stop
  <2>1. Fine  BY <1>1 DEF Operator_Stop
  <2> QED  BY <2>1, Still
<1>2. CASE Operator_Reset
  <2>1. Fine  BY <1>2 DEF Operator_Reset
  <2> QED  BY <2>1, Still
<1>3. CASE Camera_Restart
  <2>1. Fine  BY <1>3 DEF Camera_Restart, Reading
  <2> QED  BY <2>1, Still
<1>4. CASE Camera_Breaks
  <2>1. Fine  BY <1>4 DEF Camera_Breaks
  <2> QED  BY <2>1, Still
<1>5. CASE UNCHANGED camVars
  <2>1. Fine  BY <1>5 DEF camVars
  <2> QED  BY <2>1, Still
<1> QED  BY <1>1, <1>2, <1>3, <1>4, <1>5

\* The size is told anew, which excuses the replies of another size.
LEMMA HelloStep == ASSUME CamInv, Cam_Hello PROVE CamInv'
<1> USE DEF Goto, Set
<1>1. /\ cam' = [cam EXCEPT !.at = "frame", !.format = stream.format]
      /\ shown' = wfsc_bytes(stream.format) /\ shown' \in Nat
      /\ UNCHANGED <<link, ring, pointer, spoilt, old, told, bounds>>
      /\ asking' = [c \in CamClients |-> IF shown' # shown /\ asking[c].at # "idle"
                                         THEN [asking[c] EXCEPT !.excused = TRUE] ELSE asking[c]]
  BY DEF Cam_Hello, Excuse, wfsc_bytes
<1>2. RingTyped' /\ ClientsTyped'
  <2>1. RingTyped'
    BY <1>1 DEF CamInv, CamTyped, RingTyped
  <2>2. ClientsTyped'
    BY <1>1 DEF CamInv, CamTyped, ClientsTyped, ReplyRecord
  <2> QED  BY <2>1, <2>2
<1>3. LastInPlace'
  BY <1>1 DEF CamInv, LastInPlace
<1>4. ASSUME NEW c \in CamClients PROVE ReplyInPlace(c)'
  <2>1. CASE shown' = shown
    <3>1. asking'[c] = asking[c]
      BY <1>1, <2>1
    <3> QED  BY <1>1, <2>1, <3>1 DEF CamInv, ReplyInPlace
  <2>2. CASE shown' # shown
    <3>1. /\ asking'[c].at # "idle" => asking'[c].excused
          /\ asking'[c].at = asking[c].at /\ asking'[c].slot = asking[c].slot
          /\ asking'[c].since = asking[c].since /\ asking'[c].number = asking[c].number
          /\ asking'[c].fresh = asking[c].fresh /\ asking'[c].before = asking[c].before
      BY <1>1, <2>2 DEF CamInv, CamTyped, ClientsTyped, ReplyRecord
    <3> QED  BY <1>1, <3>1 DEF CamInv, ReplyInPlace
  <2> QED  BY <2>1, <2>2
<1>5. ReadInPlace'
  BY <1>1 DEF CamInv, CamTyped, ThreadTyped, ReadInPlace, Reading, Stored
<1>6. ThreadTyped'
  <2>1. stream' = [stream EXCEPT !.next = "frame"]
    BY DEF Cam_Hello
  <2> QED  BY <1>1, <2>1 DEF CamInv, CamTyped, ThreadTyped, Places
<1> QED  BY <1>2, <1>3, <1>4, <1>5, <1>6 DEF CamInv, CamTyped

\* A frame is given up: dataPtr is astray from then on.
LEMMA AstraySteps == ASSUME CamInv, Cam_GiveUp \/ Cam_Refuse PROVE CamInv'
<1>1. /\ cam' = [cam EXCEPT !.at = "frame"] /\ link' \in {"down", link}
      /\ UNCHANGED <<stream, ring, shown, spoilt, asking, old, told, bounds>>
  BY DEF Cam_GiveUp, Cam_Refuse, Goto, Close
<1>2. PICK n \in Nat : pointer' = [pointer EXCEPT !.astray = @ + n]
  <2>1. CASE Cam_GiveUp
    <3>1. (IF cam.at = "number" THEN 3 ELSE HeaderBytes) \in Nat
      BY DEF HeaderBytes
    <3> QED  BY <2>1, <3>1 DEF Cam_GiveUp, Astray
  <2>2. CASE Cam_Refuse
    <3>1. HeaderBytes + wfsc_bytes(cam.format) \in Nat
      BY DEF HeaderBytes, wfsc_bytes
    <3> QED  BY <2>2, <3>1 DEF Cam_Refuse, Astray
  <2> QED  BY <2>1, <2>2
<1>3. pointer'.active = pointer.active /\ pointer'.last = pointer.last
      /\ pointer' \in [active : Slot, last : Slot \cup {None}, astray : Nat]
  BY <1>2 DEF CamInv, CamTyped, RingTyped
<1>4. CamTyped'
  <2>1. ThreadTyped'
    BY <1>1 DEF CamInv, CamTyped, ThreadTyped, Places
  <2>2. RingTyped'
    BY <1>1, <1>3 DEF CamInv, CamTyped, RingTyped
  <2>3. ClientsTyped'
    BY <1>1 DEF CamInv, CamTyped, ClientsTyped, ReplyRecord
  <2> QED  BY <2>1, <2>2, <2>3 DEF CamTyped
<1>5. ReadInPlace'
  BY <1>1 DEF CamInv, CamTyped, ThreadTyped, ReadInPlace, Reading, Stored
<1>6. LastInPlace'
  BY <1>1, <1>3 DEF CamInv, LastInPlace
<1>7. \A c \in CamClients : ReplyInPlace(c)'
  BY <1>1, <1>3 DEF CamInv, ReplyInPlace
<1> QED  BY <1>4, <1>5, <1>6, <1>7 DEF CamInv

\* Reading: "SOF", the number, the rows.
LEMMA MarkerStep == ASSUME CamInv, Cam_Marker \/ Cam_Search PROVE CamInv'
<1>1. Store(Here, 0, 3) /\ UNCHANGED <<pointer, shown, old, told>>
  BY DEF Cam_Marker, Cam_Search, Cam_Begin
<1>2. Here \in FrameRecord
  BY DEF CamInv, CamTyped, RingTyped, Here
<1>3. RingTyped' /\ ClientsTyped' /\ LastInPlace' /\ \A c \in CamClients : ReplyInPlace(c)'
  BY <1>1, <1>2, StoreApart
<1>4. /\ bounds' = [bounds EXCEPT !.sent = @ + 1]
      /\ cam' = [cam EXCEPT !.at = "number", !.frame = bounds.sent + 1, !.short = FALSE]
      /\ stream' \in {stream, [stream EXCEPT !.next = "frame"]} /\ link' = link
  BY DEF Cam_Marker, Cam_Search, Cam_Begin, CamInv, CamTyped, ThreadTyped
<1>5. ThreadTyped'
  <2>1. bounds.sent + 1 \in Nat /\ bounds \in [sent : Nat, mishaps : Nat]
    BY DEF CamInv, CamTyped, ThreadTyped
  <2>2. bounds' \in [sent : Nat, mishaps : Nat]
    BY <1>4, <2>1
  <2>3. cam' \in [at : Places, format : CamFormats \cup {0}, frame : Nat, short : BOOLEAN]
    BY <1>4, <2>1 DEF CamInv, CamTyped, ThreadTyped, Places
  <2> QED  BY <1>4, <2>2, <2>3 DEF CamInv, CamTyped, ThreadTyped
<1>6. ReadInPlace'
  BY <1>4 DEF CamInv, CamTyped, ThreadTyped, ReadInPlace, Stored, Junk
<1> QED  BY <1>3, <1>5, <1>6 DEF CamInv, CamTyped

\* What is no marker is read to where the marker belongs.
LEMMA MissedStep == ASSUME CamInv, Cam_MarkerMissed PROVE CamInv'
<1>1. /\ Store(Here, 0, 3) /\ UNCHANGED <<pointer, shown, old, told, link, stream, bounds>>
      /\ cam' = [cam EXCEPT !.at = "search"]
  BY DEF Cam_MarkerMissed, Goto
<1>2. Here \in FrameRecord
  BY DEF CamInv, CamTyped, RingTyped, Here
<1>3. RingTyped' /\ ClientsTyped' /\ LastInPlace' /\ \A c \in CamClients : ReplyInPlace(c)'
  BY <1>1, <1>2, StoreApart
<1>4. ThreadTyped'
  BY <1>1 DEF CamInv, CamTyped, ThreadTyped, Places
<1>5. ReadInPlace'
  BY <1>1 DEF CamInv, CamTyped, ThreadTyped, ReadInPlace, Reading, Stored
<1> QED  BY <1>3, <1>4, <1>5 DEF CamInv, CamTyped

LEMMA NumberStep == ASSUME CamInv, Cam_Number PROVE CamInv'
<1> DEFINE f == [Here EXCEPT !.number = cam.frame, !.bytes = wfsc_bytes(cam.format)]
<1>1. Store(f, 3, 4) /\ UNCHANGED <<pointer, shown, old, told>>
  BY DEF Cam_Number
<1>2. f \in FrameRecord /\ f.number = cam.frame
  <2>1. wfsc_bytes(cam.format) \in Nat
    BY DEF wfsc_bytes
  <2>2. Here \in FrameRecord /\ cam.frame \in Nat
    BY DEF CamInv, CamTyped, RingTyped, ThreadTyped, Here
  <2> QED  BY <2>1, <2>2 DEF FrameRecord
<1> HIDE DEF f
<1>3. /\ RingTyped' /\ ClientsTyped' /\ LastInPlace' /\ \A c \in CamClients : ReplyInPlace(c)'
      /\ pointer.astray = 0 => ring'[pointer.active] = f
  BY <1>1, <1>2, StoreApart
<1>4. cam' = [cam EXCEPT !.at = "first"] /\ UNCHANGED <<link, stream, bounds>> /\ cam.at = "number"
  BY DEF Cam_Number, Goto
<1>5. ThreadTyped'
  BY <1>4 DEF CamInv, CamTyped, ThreadTyped, Places
<1>6. ReadInPlace'
  BY <1>1, <1>2, <1>3, <1>4
     DEF CamInv, CamTyped, ThreadTyped, ReadInPlace, Reading, Stored, Here
<1> QED  BY <1>3, <1>5, <1>6 DEF CamInv, CamTyped

\* A half of a frame: the number stays, and the other half.
LEMMA HalfRead ==
  ASSUME NEW f \in FrameRecord, NEW i \in {1, 2}, NEW h \in Nat
  PROVE  LET g == [f EXCEPT !.halves[i] = h] IN
         /\ g \in FrameRecord /\ g.number = f.number
         /\ i = 1 => g.halves[1] = h
         /\ i = 2 /\ f.halves[1] = h => g.halves = <<h, h>>
BY DEF FrameRecord

LEMMA FirstRowsStep == ASSUME CamInv, Cam_FirstRows PROVE CamInv'
<1> DEFINE f == [Here EXCEPT !.halves[1] = Half]
           n == wfsc_bytes(cam.format) \div 2
<1>1. /\ Store(f, HeaderBytes + (1 - 1) * n, n) /\ UNCHANGED <<pointer, shown, old, told>>
      /\ cam' = [cam EXCEPT !.at = "second"] /\ UNCHANGED <<link, stream, bounds>> /\ cam.at = "first"
  BY DEF Cam_FirstRows, Cam_Rows, Goto
<1>2. n \in Nat /\ HeaderBytes + (1 - 1) * n \in Nat
  BY wfscType DEF CamInv, CamTyped, ThreadTyped, HeaderBytes
<1>3. Here \in FrameRecord /\ Half \in Nat
  BY DEF CamInv, CamTyped, RingTyped, ThreadTyped, Here, Half, Junk
<1>4. f \in FrameRecord /\ f.number = Here.number /\ f.halves[1] = Half
  BY <1>3, HalfRead
<1> HIDE DEF f, n
<1>5. /\ RingTyped' /\ ClientsTyped' /\ LastInPlace' /\ \A c \in CamClients : ReplyInPlace(c)'
      /\ pointer.astray = 0 => ring'[pointer.active] = f
  BY <1>1, <1>2, <1>4, StoreApart
<1>6. ThreadTyped'
  BY <1>1 DEF CamInv, CamTyped, ThreadTyped, Places
<1>7. ReadInPlace'
  BY <1>1, <1>4, <1>5
     DEF CamInv, CamTyped, ThreadTyped, ReadInPlace, Reading, Stored, Sound, Foreign, Half, Here
<1> QED  BY <1>5, <1>6, <1>7 DEF CamInv, CamTyped

LEMMA LastRowsStep == ASSUME CamInv, Cam_LastRows PROVE CamInv'
<1>1. CASE link = "up"
  <2> DEFINE f == [Here EXCEPT !.halves[2] = Half]
             n == wfsc_bytes(cam.format) \div 2
  <2>1. /\ Store(f, HeaderBytes + (2 - 1) * n, n) /\ UNCHANGED <<pointer, shown, old, told>>
        /\ cam' = [cam EXCEPT !.at = "check"] /\ UNCHANGED <<link, stream, bounds>> /\ cam.at = "second"
    BY <1>1 DEF Cam_LastRows, Cam_Rows, Goto
  <2>2. n \in Nat /\ HeaderBytes + (2 - 1) * n \in Nat
    BY wfscType DEF CamInv, CamTyped, ThreadTyped, HeaderBytes
  <2>3. Here \in FrameRecord /\ Half \in Nat
    BY DEF CamInv, CamTyped, RingTyped, ThreadTyped, Here, Half, Junk
  <2>4. f \in FrameRecord /\ f.number = Here.number /\ (Here.halves[1] = Half => f.halves = <<Half, Half>>)
    BY <2>3, HalfRead
  <2> HIDE DEF f, n
  <2>5. /\ RingTyped' /\ ClientsTyped' /\ LastInPlace' /\ \A c \in CamClients : ReplyInPlace(c)'
        /\ pointer.astray = 0 => ring'[pointer.active] = f
    BY <2>1, <2>2, <2>4, StoreApart
  <2>6. ThreadTyped'
    BY <2>1 DEF CamInv, CamTyped, ThreadTyped, Places
  <2>7. ReadInPlace'
    BY <2>1, <2>4, <2>5
       DEF CamInv, CamTyped, ThreadTyped, ReadInPlace, Reading, Stored, Sound, Foreign, Half, Here
  <2> QED  BY <2>5, <2>6, <2>7 DEF CamInv, CamTyped
<1>2. CASE link # "up"
  <2>1. /\ cam' = [cam EXCEPT !.at = "check", !.short = TRUE] /\ cam.at = "second"
        /\ UNCHANGED <<link, stream, pointer, ring, shown, spoilt, asking, old, told, bounds>>
    BY <1>2 DEF Cam_LastRows, Cam_Rows
  <2>2. ThreadTyped'
    BY <2>1 DEF CamInv, CamTyped, ThreadTyped, Places
  <2>3. RingTyped' /\ ClientsTyped'
    BY <2>1 DEF CamInv, CamTyped, RingTyped, ClientsTyped, ReplyRecord
  <2>4. ReadInPlace'
    BY <2>1 DEF CamInv, CamTyped, ThreadTyped, ReadInPlace, Reading, Stored, Sound, Here
  <2>5. LastInPlace'
    BY <2>1 DEF CamInv, LastInPlace
  <2>6. \A c \in CamClients : ReplyInPlace(c)'
    BY <2>1 DEF CamInv, ReplyInPlace
  <2> QED  BY <2>2, <2>3, <2>4, <2>5, <2>6 DEF CamInv, CamTyped
<1> QED  BY <1>1, <1>2

\* The frame is handed out: the writer is one slot further on from everybody's.
LEMMA PublishStep == ASSUME CamInv, Cam_Publish PROVE CamInv'
<1>1. /\ pointer' = [active |-> NextSlot(pointer.active), last |-> pointer.active, astray |-> 0]
      /\ spoilt' = IF pointer.astray > 0 \/ cam.short \/ Foreign
                   THEN spoilt \cup {pointer.active} ELSE spoilt \ {pointer.active}
      /\ asking' = [c \in CamClients |-> IF asking[c].at = "idle" \/ asking[c].since = CamSlots THEN asking[c]
                                         ELSE [asking[c] EXCEPT !.since = @ + 1]]
      /\ cam' = [cam EXCEPT !.at = "frame"] /\ cam.at = "check"
      /\ UNCHANGED <<link, stream, bounds, ring, shown, old, told>>
  BY DEF Cam_Publish, Publish, Goto
<1>2. pointer.active \in Slot /\ pointer.astray \in Nat
  BY DEF CamInv, CamTyped, RingTyped
<1>3. NextSlot(pointer.active) \in Slot /\ NextSlot(pointer.active) = Ahead(pointer.active, 1)
  BY <1>2, AheadOne
<1>4. ThreadTyped'
  BY <1>1 DEF CamInv, CamTyped, ThreadTyped, Places
<1>5. RingTyped'
  BY <1>1, <1>2, <1>3 DEF CamInv, CamTyped, RingTyped
<1>6. ClientsTyped'
  <2>1. ASSUME NEW c \in CamClients PROVE asking'[c] \in ReplyRecord
    <3>1. asking[c] \in ReplyRecord
      BY DEF CamInv, CamTyped, ClientsTyped
    <3>2. asking[c].since # CamSlots => asking[c].since + 1 \in 0 .. CamSlots
      BY <3>1, CameraAssumption DEF ReplyRecord
    <3> QED  BY <1>1, <3>1, <3>2 DEF ReplyRecord
  <2>2. asking' \in [CamClients -> ReplyRecord]
    BY <1>1, <2>1
  <2> QED  BY <1>1, <2>2 DEF CamInv, CamTyped, ClientsTyped
<1>7. ReadInPlace'
  BY <1>1 DEF CamInv, CamTyped, ThreadTyped, ReadInPlace, Reading, Stored
<1>8. LastInPlace'
  <2>1. pointer.active \notin spoilt' => Whole(ring[pointer.active])
    <3> SUFFICES ASSUME pointer.active \notin spoilt' PROVE Whole(ring[pointer.active])
      OBVIOUS
    <3>1. pointer.astray = 0 /\ Stored /\ Sound /\ Reading
      BY <1>1, <1>2 DEF Stored, Sound, Reading, CamInv, CamTyped, ThreadTyped
    <3> QED  BY <3>1, <1>1 DEF CamInv, ReadInPlace, Here, Whole
  <2> QED  BY <2>1, <1>1, <1>3 DEF LastInPlace, Whole
<1>9. ASSUME NEW c \in CamClients PROVE ReplyInPlace(c)'
  <2>1. asking[c].since \in 0 .. CamSlots /\ asking[c].slot \in Slot
    BY DEF CamInv, CamTyped, ClientsTyped, ReplyRecord
  <2>2. ReplyInPlace(c)
    BY DEF CamInv
  <2>3. CASE asking[c].at = "idle" \/ asking[c].since = CamSlots
    <3>1. asking'[c] = asking[c]
      BY <1>1, <2>3
    <3> QED  BY <1>1, <2>2, <2>3, <3>1, CameraAssumption DEF ReplyInPlace
  <2>4. CASE asking[c].at # "idle" /\ asking[c].since < CamSlots
    <3>1. /\ asking'[c].since = asking[c].since + 1 /\ asking'[c].at = asking[c].at
          /\ asking'[c].slot = asking[c].slot /\ asking'[c].number = asking[c].number
          /\ asking'[c].fresh = asking[c].fresh /\ asking'[c].before = asking[c].before
          /\ asking'[c].bytes = asking[c].bytes /\ asking'[c].excused = asking[c].excused
      BY <1>1, <2>1, <2>4 DEF CamInv, CamTyped, ClientsTyped, ReplyRecord
    <3>2. pointer.active = Ahead(asking[c].slot, asking[c].since + 1)
      BY <2>2, <2>4 DEF ReplyInPlace
    <3>3. asking[c].since + 1 < CamSlots =>
            pointer'.active = Ahead(asking[c].slot, asking[c].since + 1 + 1)
      <4> SUFFICES ASSUME asking[c].since + 1 < CamSlots
                   PROVE  pointer'.active = Ahead(asking[c].slot, asking[c].since + 1 + 1)
        OBVIOUS
      <4>1. asking[c].since + 1 \in 0 .. CamSlots - 1
        BY <2>1, CameraAssumption
      <4>2. Ahead(Ahead(asking[c].slot, asking[c].since + 1), 1) = Ahead(asking[c].slot, asking[c].since + 1 + 1)
        BY <2>1, <4>1, AheadMore
      <4> QED  BY <1>1, <1>3, <3>2, <4>2
    <3>4. asking[c].since + 1 < CamSlots - 1 => asking[c].since < CamSlots - 1
      BY <2>1, CameraAssumption
    <3>5. told'[c] # None => told'[c] = old'
      BY <1>1, <2>2 DEF ReplyInPlace
    <3>6. UNCHANGED <<ring, shown>>
      BY <1>1
    <3>7. asking'[c].at # "idle" /\ asking'[c].since < CamSlots =>
            pointer'.active = Ahead(asking'[c].slot, asking'[c].since + 1)
      BY <3>1, <3>3
    <3>8. asking'[c].at # "idle" /\ ~asking'[c].excused /\ asking'[c].since < CamSlots - 1 =>
            Whole(ring'[asking'[c].slot]) /\ ring'[asking'[c].slot].bytes = shown'
      BY <2>2, <3>1, <3>4, <3>6 DEF ReplyInPlace
    <3>9. /\ asking'[c].at = "body" /\ ~asking'[c].excused => asking'[c].bytes = shown'
          /\ asking'[c].at = "body" /\ ~asking'[c].excused /\ asking'[c].since < CamSlots - 1 =>
               asking'[c].number = ring'[asking'[c].slot].number
          /\ asking'[c].at = "body" /\ asking'[c].before # None =>
               (asking'[c].fresh <=> asking'[c].number # asking'[c].before)
      BY <2>2, <3>1, <3>4, <3>6 DEF ReplyInPlace
    <3> QED  BY <3>5, <3>7, <3>8, <3>9 DEF ReplyInPlace, Whole
  <2> QED  BY <2>1, <2>3, <2>4, CameraAssumption
<1> QED  BY <1>4, <1>5, <1>6, <1>7, <1>8, <1>9 DEF CamInv, CamTyped

\* A client's own steps.
LEMMA ClientSteps ==
  ASSUME CamInv, NEW c \in CamClients, Single(c) \/ Single_Number(c) \/ Single_Body(c)
  PROVE  CamInv'
<1>1. UNCHANGED <<cam, link, stream, ring, pointer, shown, spoilt, bounds>>
  BY DEF Single, Single_Number, Number, Single_Body, threadVars
<1>2. ThreadTyped' /\ RingTyped'
  BY <1>1 DEF CamInv, CamTyped, ThreadTyped, RingTyped
<1>3. ReadInPlace'
  BY <1>1 DEF CamInv, ReadInPlace, Reading, Stored, Sound, Foreign, Here
<1>4. LastInPlace'
  BY <1>1 DEF CamInv, LastInPlace
<1>5. CASE Single(c)
  <2> DEFINE e == pointer.last \in spoilt \/ ring[pointer.last].bytes # shown
  <2>1. /\ asking' = [asking EXCEPT ![c] = [Quiet EXCEPT !.at = "number", !.slot = pointer.last, !.excused = e]]
        /\ pointer.last # None /\ UNCHANGED <<old, told>>
    BY <1>5 DEF Single
  <2>2. pointer.last \in Slot /\ e \in BOOLEAN
    BY <2>1 DEF CamInv, CamTyped, RingTyped
  <2>7. ~e => Whole(ring[pointer.last]) /\ ring[pointer.last].bytes = shown
    BY <2>1 DEF CamInv, LastInPlace
  <2> HIDE DEF e
  <2>8. asking'[c] = [Quiet EXCEPT !.at = "number", !.slot = pointer.last, !.excused = e]
    BY <2>1 DEF CamInv, CamTyped, ClientsTyped
  <2>3. ClientsTyped'
    <3>1. 0 \in Slot /\ 0 \in 0 .. CamSlots
      BY CameraAssumption DEF Slot
    <3>2. Quiet \in ReplyRecord
      BY <3>1 DEF ReplyRecord, Quiet
    <3>3. asking'[c] \in ReplyRecord
      BY <2>2, <2>8, <3>2 DEF ReplyRecord
    <3> QED  BY <1>1, <2>1, <3>3 DEF CamInv, CamTyped, ClientsTyped
  <2>4. /\ asking'[c].at = "number" /\ asking'[c].slot = pointer.last /\ asking'[c].since = 0
        /\ asking'[c].excused = e
    BY <2>8 DEF Quiet
  <2>5. ReplyInPlace(c)'
    <3>1. told'[c] # None => told'[c] = old'
      BY <2>1 DEF CamInv, ReplyInPlace
    <3>2. pointer'.active = Ahead(asking'[c].slot, asking'[c].since + 1)
      BY <1>1, <2>1, <2>4 DEF CamInv, LastInPlace
    <3>3. ~asking'[c].excused => Whole(ring'[asking'[c].slot]) /\ ring'[asking'[c].slot].bytes = shown'
      BY <1>1, <2>4, <2>7
    <3> QED  BY <2>4, <3>1, <3>2, <3>3 DEF ReplyInPlace, Whole
  <2>6. \A d \in CamClients \ {c} : ReplyInPlace(d)'
    BY <1>1, <2>1 DEF CamInv, CamTyped, ClientsTyped, ReplyRecord, ReplyInPlace, Whole
  <2> QED  BY <1>2, <1>3, <1>4, <2>3, <2>5, <2>6 DEF CamInv, CamTyped
<1>6. CASE Single_Number(c)
  <2> DEFINE n == ring[asking[c].slot].number
  <2>1. /\ asking' = [asking EXCEPT ![c].at = "body", ![c].number = n, ![c].fresh = n # old, ![c].bytes = shown,
                                   ![c].before = told[c]]
        /\ told' = [d \in CamClients |-> IF d = c THEN n ELSE None] /\ old' = n
        /\ asking[c].at = "number"
    BY <1>6 DEF Single_Number, Number
  <2>2. n \in Nat
    BY DEF CamInv, CamTyped, RingTyped, ClientsTyped, ReplyRecord, FrameRecord
  <2> HIDE DEF n
  <2>3. ClientsTyped'
    <3>1. asking[c] \in ReplyRecord /\ told[c] \in Nat \cup {None} /\ shown \in Nat /\ (n # old) \in BOOLEAN
      BY DEF CamInv, CamTyped, ClientsTyped
    <3>2. [asking[c] EXCEPT !.at = "body", !.number = n, !.fresh = n # old, !.bytes = shown,
                            !.before = told[c]] \in ReplyRecord
      BY <2>2, <3>1 DEF ReplyRecord
    <3>3. asking'[c] = [asking[c] EXCEPT !.at = "body", !.number = n, !.fresh = n # old, !.bytes = shown,
                                         !.before = told[c]]
      BY <2>1 DEF CamInv, CamTyped, ClientsTyped
    <3>4. asking' \in [CamClients -> ReplyRecord]
      BY <2>1, <3>2, <3>3 DEF CamInv, CamTyped, ClientsTyped
    <3>5. told' \in [CamClients -> Nat \cup {None}] /\ old' \in Nat
      BY <2>1, <2>2
    <3> QED  BY <1>1, <3>1, <3>4, <3>5 DEF ClientsTyped
  <2>4. /\ asking'[c].at = "body" /\ asking'[c].slot = asking[c].slot /\ asking'[c].since = asking[c].since
        /\ asking'[c].excused = asking[c].excused /\ asking'[c].number = n /\ asking'[c].bytes = shown
        /\ asking'[c].fresh = (n # old) /\ asking'[c].before = told[c]
    BY <2>1 DEF CamInv, CamTyped, ClientsTyped, ReplyRecord
  <2>5. ReplyInPlace(c)'
    <3>1. ReplyInPlace(c)
      BY DEF CamInv
    <3>2. told'[c] = old' /\ UNCHANGED <<ring, pointer, shown>>
      BY <1>1, <2>1
    <3>3. asking'[c].before # None => (asking'[c].fresh <=> asking'[c].number # asking'[c].before)
      BY <2>4, <3>1 DEF ReplyInPlace
    <3>4. asking'[c].number = ring'[asking'[c].slot].number
      BY <2>4, <3>2 DEF n
    <3> QED  BY <2>1, <2>4, <3>1, <3>2, <3>3, <3>4 DEF ReplyInPlace, Whole
  <2>6. ASSUME NEW d \in CamClients \ {c} PROVE ReplyInPlace(d)'
    <3>1. asking'[d] = asking[d] /\ told'[d] = None
      BY <2>1 DEF CamInv, CamTyped, ClientsTyped
    <3>2. ReplyInPlace(d)
      BY DEF CamInv
    <3> QED  BY <1>1, <3>1, <3>2 DEF ReplyInPlace, Whole
  <2> QED  BY <1>2, <1>3, <1>4, <2>3, <2>5, <2>6 DEF CamInv, CamTyped
<1>7. CASE Single_Body(c)
  <2>1. asking' = [asking EXCEPT ![c] = Quiet] /\ UNCHANGED <<old, told>>
    BY <1>7 DEF Single_Body
  <2>2. Quiet.at = "idle" /\ asking'[c] = Quiet
    BY <2>1 DEF Quiet, CamInv, CamTyped, ClientsTyped, ReplyRecord
  <2>3. ClientsTyped'
    BY <1>1, <2>1, CameraAssumption DEF CamInv, CamTyped, ClientsTyped, ReplyRecord, Quiet, Slot
  <2>4. ReplyInPlace(c)'
    BY <2>1, <2>2 DEF CamInv, ReplyInPlace
  <2>5. \A d \in CamClients \ {c} : ReplyInPlace(d)'
    BY <1>1, <2>1 DEF CamInv, CamTyped, ClientsTyped, ReplyRecord, ReplyInPlace, Whole
  <2> QED  BY <1>2, <1>3, <1>4, <2>3, <2>4, <2>5 DEF CamInv, CamTyped
<1> QED  BY <1>5, <1>6, <1>7

LEMMA StepCamera == CamInv /\ [Cam_Next]_camVars => CamInv'
<1> SUFFICES ASSUME CamInv, [Cam_Next]_camVars PROVE CamInv'
  OBVIOUS
<1>1. CASE CameraThread
  BY <1>1, LoopSteps, HelloStep, MarkerStep, MissedStep, AstraySteps, NumberStep, FirstRowsStep,
     LastRowsStep, PublishStep
     DEF CameraThread
<1>2. CASE \E c \in CamClients : Single(c) \/ Single_Number(c) \/ Single_Body(c)
  BY <1>2, ClientSteps
<1>3. CASE Operator_Stop \/ Operator_Reset \/ Operator_Connect \/ Camera_Restart \/ Camera_Breaks
           \/ UNCHANGED camVars
  BY <1>3, LoopSteps, MishapSteps
<1> QED  BY <1>1, <1>2, <1>3 DEF Cam_Next

\* The camera's variables have their types: so dataPtr is never behind its slot,
\* and pointers stay within the ring.
THEOREM CameraTyped == Cam_Spec => []CamTyped
<1>1. CamInv => CamTyped
  BY DEF CamInv
<1> QED  BY <1>1, InitCamera, StepCamera, PTL DEF Cam_Spec

LEMMA RepliesFromInv ==
  CamInv =>
    \A c \in CamClients :
      LET r == asking[c] IN
      r.at = "body" /\ asking'[c].at = "idle" =>
        /\ ~r.excused /\ r.since < CamSlots - 1 =>
             /\ ring[r.slot].halves = <<r.number, r.number>> /\ r.number # Junk
             /\ ring[r.slot].bytes = r.bytes /\ shown = r.bytes
        /\ r.before # None => (r.fresh <=> r.number # r.before)
BY DEF CamInv, ReplyInPlace, Whole

\* A client of the camera gets one whole frame of the size and under the number
\* it was told, and knows whether it is new to it, for any size of the ring, any number of
\* clients, and whatever operators and the camera do.
THEOREM SinglesTruthful == Cam_Spec => SingleTruthful
BY RepliesFromInv, InitCamera, StepCamera, PTL DEF Cam_Spec, SingleTruthful
-----------------------------------------------------------------------------
(* DataThreads: the parts beside each other                                *)

\* A part that does not move keeps its invariant.
LEMMA StillThreads ==
  /\ CamInv /\ UNCHANGED camVars => CamInv'
  /\ ThreadsInv /\ UNCHANGED frameVars => ThreadsInv'
  /\ PortInv /\ UNCHANGED errorVars => PortInv'
BY StepCamera, StepThreads, StepPort

PartsInv == CamInv /\ ThreadsInv /\ PortInv

LEMMA StepParts == PartsInv /\ [Next]_dataThreadVars => PartsInv' /\ [Cam_Next]_camVars
<1> SUFFICES ASSUME PartsInv, [Next]_dataThreadVars PROVE PartsInv' /\ [Cam_Next]_camVars
  OBVIOUS
<1>1. CASE CameraPart
  BY <1>1, StepCamera, StillThreads DEF PartsInv, CameraPart
<1>2. CASE ThreadsPart
  BY <1>2, StepThreads, StillThreads DEF PartsInv, ThreadsPart
<1>3. CASE ErrorsPart
  BY <1>3, StepPort, StillThreads DEF PartsInv, ErrorsPart
<1>4. CASE ChannelPart
  BY <1>4, StillThreads DEF PartsInv, ChannelPart
<1>5. CASE PoolsPart
  BY <1>5, StillThreads DEF PartsInv, PoolsPart
<1>6. CASE UNCHANGED dataThreadVars
  BY <1>6, StillThreads DEF PartsInv, dataThreadVars
<1> QED
  BY <1>1, <1>2, <1>3, <1>4, <1>5, <1>6 DEF Next

\* What holds of the frames of the camera, of the threads that receive frames and of the
\* port for errors alone holds of them beside each other, as the data server runs them.
\* (The channel and the pools have theorems of their own, in PcrCommandProofs and
\* ClientPoolProofs.)
THEOREM DataThreadsRight == Spec => [](ThreadsCounted /\ OneErrorLink) /\ SingleTruthful
<1>1. Init => PartsInv
  BY InitCamera, InitThreads, InitPort DEF Init, PartsInv
<1>2. PartsInv => ThreadsCounted /\ OneErrorLink
  BY ThreadsFromInv DEF PartsInv, ThreadsCounted, PortInv, OneErrorLink
<1>3. PartsInv /\ [Next]_dataThreadVars =>
        [\A c \in CamClients :
           LET r == asking[c] IN
           r.at = "body" /\ asking'[c].at = "idle" =>
             /\ ~r.excused /\ r.since < CamSlots - 1 =>
                  /\ ring[r.slot].halves = <<r.number, r.number>> /\ r.number # Junk
                  /\ ring[r.slot].bytes = r.bytes /\ shown = r.bytes
             /\ r.before # None => (r.fresh <=> r.number # r.before)]_camVars
  BY RepliesFromInv DEF PartsInv
<1> QED
  BY <1>1, <1>2, <1>3, StepParts, PTL DEF Spec, SingleTruthful
=============================================================================
