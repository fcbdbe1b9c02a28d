-------------------------- MODULE ClientPoolProofs --------------------------
(***************************************************************************)
(* Theorems about ClientPool, for any number of slots, connections and     *)
(* descriptors.                                                            *)
(***************************************************************************)
EXTENDS ClientPool, FiniteSetTheorems, TLAPS

IInv == TypeOK /\ PoolInv

LEMMA SlotsFacts == 0 \in Slots /\ \A s \in Slots : s \in 0 .. NumConnections /\ s + 1 \in 0 .. NumConnections
  BY PoolAssumption DEF Slots

LEMMA InitInv == Init => IInv
<1> SUFFICES ASSUME Init PROVE IInv
  OBVIOUS
<1>1. TypeOK
  BY PoolAssumption, SlotsFacts DEF Init, TypeOK
<1>2. PoolInv
  BY PoolAssumption DEF Init, PoolInv, Accepted, InHand, Filling, OwnDescriptor, SlotsHeld,
     Holding, Incoming
<1>3. QED
  BY <1>1, <1>2 DEF IInv

LEMMA TypeStep == IInv /\ [Next]_vars => TypeOK'
<1> SUFFICES ASSUME IInv, [Next]_vars PROVE TypeOK'
  OBVIOUS
<1> USE PoolAssumption, SlotsFacts DEF IInv, TypeOK, clientVars, masterVars, threadVars
<1>1. CASE UNCHANGED vars
  BY <1>1 DEF vars
<1>2. ASSUME NEW c \in Conns, Arrive(c) PROVE TypeOK'
  BY <1>2 DEF Arrive
<1>3. ASSUME NEW c \in Conns, HangUp(c) PROVE TypeOK'
  BY <1>3 DEF HangUp
<1>4. CASE Accept
  BY <1>4 DEF Accept, MasterGo
<1>5. CASE AcceptNothing
  BY <1>5 DEF AcceptNothing, MasterGo
<1>6. CASE Scan
  BY <1>6 DEF Scan
<1>7. CASE Fill
  BY <1>7 DEF Fill, MasterGo
<1>8. CASE RestoreFails
  BY <1>8 DEF RestoreFails, MasterGo
<1>9. CASE Create
  <2>1. i \in Slots /\ client \in Conns
    BY <1>9 DEF Create, MasterGo, PoolInv, InHand, Incoming, Filling, Slots
  <2>2. QED
    BY <1>9, <2>1 DEF Create, MasterGo
<1>10. CASE CreateFails
  BY <1>10 DEF CreateFails, MasterGo
<1>11. CASE Test
  BY <1>11 DEF Test
<1>12. CASE CancelScan
  BY <1>12 DEF CancelScan
<1>13. CASE Cancel
  <2>1. i \in Slots
    BY <1>13 DEF Cancel, MasterGo, PoolInv, Filling, Slots
  <2>2. QED
    BY <1>13, <2>1 DEF Cancel, MasterGo
<1>14. ASSUME NEW c \in Conns, ThreadStart(c) PROVE TypeOK'
  BY <1>14 DEF ThreadStart, ThreadGo
<1>15. ASSUME NEW c \in Conns, Exit(c) PROVE TypeOK'
  BY <1>15 DEF Exit
<1>16. ASSUME NEW c \in Conns, Leave(c) PROVE TypeOK'
  BY <1>16 DEF Leave, ThreadGo
<1>17. ASSUME NEW c \in Conns, Close(c) PROVE TypeOK'
  BY <1>17 DEF Close, ThreadGo
<1>18. ASSUME NEW c \in Conns, BeCancelled(c) PROVE TypeOK'
  BY <1>18 DEF BeCancelled, ThreadGo
<1>19. QED
  BY <1>1, <1>2, <1>3, <1>4, <1>5, <1>6, <1>7, <1>8, <1>9, <1>10, <1>11, <1>12,
     <1>13, <1>14, <1>15, <1>16, <1>17, <1>18 DEF Next, MasterStep

LEMMA PoolStep == IInv /\ [Next]_vars => PoolInv'
<1> SUFFICES ASSUME IInv, TypeOK', [Next]_vars PROVE PoolInv'
  BY TypeStep
<1> USE PoolAssumption, SlotsFacts
    DEF IInv, TypeOK, clientVars, masterVars, threadVars,
        PoolInv, Accepted, InHand, Filling, OwnDescriptor, SlotsHeld, Holding, Incoming
<1>1. CASE UNCHANGED vars
  BY <1>1 DEF vars
<1>2. ASSUME NEW c \in Conns, Arrive(c) PROVE PoolInv'
  BY <1>2 DEF Arrive
<1>3. ASSUME NEW c \in Conns, HangUp(c) PROVE PoolInv'
  BY <1>3 DEF HangUp
<1>4. CASE Accept
  BY <1>4 DEF Accept, MasterGo
<1>5. CASE AcceptNothing
  BY <1>5 DEF AcceptNothing, MasterGo
<1>6. CASE Scan
  <2>1. CASE i < NumConnections /\ sockfd[i] >= 0 /\ i' = i + 1 /\ UNCHANGED master
    BY <1>6, <2>1 DEF Scan, Slots
  <2>2. CASE i < NumConnections /\ sockfd[i] < 0 /\ master' = "fill" /\ UNCHANGED i
    <3>1. sockfd[i] = -1
      <4>1. i \in Slots
        BY <2>2 DEF Slots
      <4>2. sockfd[i] \in Fds \cup {-1}
        BY <4>1
      <4>3. \A f \in Fds : ~(f < 0)
        BY PoolAssumption
      <4>4. QED
        BY <2>2, <4>2, <4>3
    <3>2. UNCHANGED <<sockfd, at, arrived, backlog, running, newsockfd, client, thread, slot, fd>>
          /\ master = "scan"
      BY <1>6 DEF Scan
    <3>3. Accepted' /\ InHand' /\ OwnDescriptor'
      BY <2>2, <3>2
    <3>4. Filling'
      BY <2>2, <3>1, <3>2
    <3>5. SlotsHeld'
      BY <2>2, <3>2
    <3>6. QED
      BY <3>3, <3>4, <3>5
  <2>3. CASE i >= NumConnections /\ master' = "test" /\ UNCHANGED i
    BY <1>6, <2>3 DEF Scan
  <2>4. \/ i < NumConnections /\ sockfd[i] >= 0 /\ i' = i + 1 /\ UNCHANGED master
        \/ i < NumConnections /\ sockfd[i] < 0 /\ master' = "fill" /\ UNCHANGED i
        \/ i >= NumConnections /\ master' = "test" /\ UNCHANGED i
    BY <1>6 DEF Scan
  <2>5. QED
    BY <2>1, <2>2, <2>3, <2>4, Zenon
<1>7. CASE Fill
  BY <1>7 DEF Fill, MasterGo, Slots
<1>8. CASE RestoreFails
  BY <1>8 DEF RestoreFails, MasterGo
<1>9. CASE Create
  <2>1. /\ master = "create" /\ master' = "test" /\ i \in Slots /\ sockfd[i] = newsockfd /\ client \in Conns
        /\ newsockfd \in Fds /\ thread[client] = "none"
        /\ thread' = [thread EXCEPT ![client] = "start"] /\ slot' = [slot EXCEPT ![client] = i]
        /\ UNCHANGED <<sockfd, at, arrived, backlog, running, newsockfd, client, i, fd>>
    BY <1>9 DEF Create, MasterGo, Slots
  <2>2. Accepted' /\ InHand' /\ Filling'
    BY <2>1
  <2>3. OwnDescriptor'
    BY <2>1
  <2>4. SlotsHeld'
    BY <2>1
  <2>5. QED
    BY <2>2, <2>3, <2>4
<1>10. CASE CreateFails
  <2>1. CASE Main
    BY <1>10, <2>1 DEF CreateFails, MasterGo
  <2>2. CASE ~Main
    <3>1. i \in Slots /\ ~Incoming'
      BY <1>10, <2>2 DEF CreateFails, MasterGo, Slots
    <3>2. /\ at' = [at EXCEPT ![newsockfd] = Nobody] /\ sockfd' = [sockfd EXCEPT ![i] = -1]
          /\ UNCHANGED <<thread, slot, fd, running>>
      BY <1>10, <2>2 DEF CreateFails, MasterGo
    <3>3. \A c \in Conns : Holding(c) => slot[c] # i /\ slot[c] \in Slots
      BY <1>10 DEF CreateFails, MasterGo
    <3>4. OwnDescriptor'
      <4> SUFFICES ASSUME NEW c \in Conns, Holding(c)
                   PROVE  /\ sockfd'[slot[c]] \in Fds
                          /\ thread[c] \in {"start", "serve", "close"} => at'[sockfd'[slot[c]]] = c
                          /\ thread[c] = "serve" => fd[c] = sockfd'[slot[c]]
        BY <3>2
      <4>1. sockfd'[slot[c]] = sockfd[slot[c]]
        BY <3>1, <3>2, <3>3
      <4>2. thread[c] \in {"start", "serve", "close"} => sockfd[slot[c]] # newsockfd
        BY <1>10 DEF CreateFails, MasterGo
      <4>3. QED
        BY <3>2, <4>1, <4>2
    <3>5. SlotsHeld'
      BY <1>10, <3>1, <3>2, <3>3 DEF CreateFails, MasterGo
    <3>6. QED
      BY <1>10, <2>2, <3>1, <3>4, <3>5 DEF CreateFails, MasterGo
  <2>3. QED
    BY <2>1, <2>2
<1>11. CASE Test
  BY <1>11 DEF Test
<1>12. CASE CancelScan
  BY <1>12 DEF CancelScan
<1>13. CASE Cancel
  BY <1>13 DEF Cancel, MasterGo
<1>14. ASSUME NEW c \in Conns, ThreadStart(c) PROVE PoolInv'
  BY <1>14 DEF ThreadStart, ThreadGo
<1>15. ASSUME NEW c \in Conns, Exit(c) PROVE PoolInv'
  BY <1>15 DEF Exit
<1>16. ASSUME NEW c \in Conns, Leave(c) PROVE PoolInv'
  BY <1>16 DEF Leave, ThreadGo
<1>17. ASSUME NEW c \in Conns, Close(c) PROVE PoolInv'
  <2>1. slot[c] \in Slots /\ sockfd[slot[c]] \in Fds
    BY <1>17 DEF Close, ThreadGo
  <2>2. CASE /\ ThreadGo(c, "close", "clear") /\ UNCHANGED sockfd
             /\ at' = [f \in Fds |-> IF f = sockfd[slot[c]] THEN Nobody ELSE at[f]]
    <3>1. /\ UNCHANGED <<arrived, backlog, running, master, newsockfd, client, i, slot, fd>>
          /\ thread[c] = "close" /\ thread' = [thread EXCEPT ![c] = "clear"]
      BY <1>17, <2>2 DEF Close, ThreadGo
    <3>2. InHand'
      BY <2>1, <2>2, <3>1
    <3>3. OwnDescriptor'
      BY <2>1, <2>2, <3>1
    <3>4. Accepted' /\ Filling' /\ SlotsHeld'
      BY <2>1, <2>2, <3>1
    <3>5. QED
      BY <3>2, <3>3, <3>4
  <2>3. CASE /\ ThreadGo(c, "clear", "ended") /\ UNCHANGED at
             /\ sockfd' = [sockfd EXCEPT ![slot[c]] = -1]
    <3>1. /\ UNCHANGED <<arrived, backlog, running, master, newsockfd, client, i, slot, fd>>
          /\ thread[c] = "clear" /\ thread' = [thread EXCEPT ![c] = "ended"]
      BY <1>17, <2>3 DEF Close, ThreadGo
    <3>2. \A d \in Conns : d # c /\ Holding(d) => sockfd'[slot[d]] = sockfd[slot[d]]
      BY <2>1, <2>3, <3>1
    <3>3. OwnDescriptor'
      BY <2>3, <3>1, <3>2
    <3>4. Accepted' /\ InHand'
      BY <2>3, <3>1
    <3>5. Filling'
      BY <2>1, <2>3, <3>1
    <3>6. SlotsHeld'
      BY <2>1, <2>3, <3>1
    <3>7. QED
      BY <3>3, <3>4, <3>5, <3>6
  <2>4. QED
    BY <1>17, <2>2, <2>3 DEF Close
<1>18. ASSUME NEW c \in Conns, BeCancelled(c) PROVE PoolInv'
  BY <1>18 DEF BeCancelled, ThreadGo
<1>19. QED
  BY <1>1, <1>2, <1>3, <1>4, <1>5, <1>6, <1>7, <1>8, <1>9, <1>10, <1>11, <1>12,
     <1>13, <1>14, <1>15, <1>16, <1>17, <1>18 DEF Next, MasterStep

(* Every variable keeps its type: the loop and the threads use only slots    *)
(* that exist.                                                               *)
THEOREM TypeCorrect == Spec => []TypeOK
<1>1. IInv /\ [Next]_vars => IInv'
  BY TypeStep, PoolStep DEF IInv
<1>2. QED
  BY InitInv, <1>1, PTL DEF Spec, IInv

(* The invariant behind the pool: slots and descriptors are at each step in  *)
(* the hands of the loop, of one thread or of nobody.                        *)
THEOREM PoolCorrect == Spec => []PoolInv
<1>1. IInv /\ [Next]_vars => IInv'
  BY TypeStep, PoolStep DEF IInv
<1>2. QED
  BY InitInv, <1>1, PTL DEF Spec, IInv

(* The threads of clients (PCR_Process, DServ_Process) read and write their  *)
(* own connection only.                                                      *)
THEOREM ServesOwn == Spec => []OwnConnection
<1>1. PoolInv => OwnConnection
  BY DEF PoolInv, OwnDescriptor, OwnConnection, Holding
<1>2. QED
  BY PoolCorrect, <1>1, PTL

(* While the loop runs no slot is lost, and no two threads share one.        *)
THEOREM NoSlotLost == Spec => []SlotsHeld
<1>1. PoolInv => SlotsHeld
  BY DEF PoolInv
<1>2. QED
  BY PoolCorrect, <1>1, PTL

(* However many clients come, no more than NumConnections are served at a    *)
(* time: their slots are all different.                                      *)
THEOREM AtMostSlots == Spec => [](Cardinality(Serving) <= NumConnections)
<1>1. PoolInv /\ TypeOK => Cardinality(Serving) <= NumConnections
  <2> SUFFICES ASSUME PoolInv, TypeOK PROVE Cardinality(Serving) <= NumConnections
    OBVIOUS
  <2>1. IsFiniteSet(Slots) /\ Cardinality(Slots) = NumConnections
    <3>1. 0 \in Int /\ NumConnections - 1 \in Int /\ ~(0 > NumConnections - 1)
      BY PoolAssumption
    <3>2. QED
      BY <3>1, FS_Interval, PoolAssumption DEF Slots
  <2>2. [c \in Serving |-> slot[c]] \in Injection(Serving, Slots)
    <3>1. \A c \in Serving : slot[c] \in Slots
      BY DEF TypeOK, Serving
    <3>2. \A c, d \in Serving : slot[c] = slot[d] => c = d
      BY DEF PoolInv, SlotsHeld, Holding, Serving
    <3>3. QED
      BY <3>1, <3>2 DEF Injection, IsInjective
  <2>3. QED
    BY <2>1, <2>2, FS_Injection
<1>2. QED
  BY PoolCorrect, TypeCorrect, <1>1, PTL

LEMMA SeatsStep == IInv /\ [Next]_vars => [Pool!SeatsNext]_<<Serving, slot, Past, Open>>
<1> SUFFICES ASSUME IInv, [Next]_vars
             PROVE  Pool!SeatsNext \/ UNCHANGED <<Serving, slot, Past, Open>>
  OBVIOUS
<1> USE DEF clientVars, masterVars, threadVars
<1>1. CASE UNCHANGED <<thread, slot, master>>
  BY <1>1 DEF Serving, Past, Open
<1>2. CASE Accept \/ AcceptNothing \/ Fill \/ RestoreFails \/ CreateFails
  BY <1>2 DEF Accept, AcceptNothing, Fill, RestoreFails, CreateFails, MasterGo, Serving, Past, Open
<1>3. CASE Scan
  BY <1>3 DEF Scan, Serving, Past, Open
<1>4. CASE CancelScan \/ Cancel
  BY <1>4 DEF CancelScan, Cancel, MasterGo, Serving, Past, Open
<1>5. CASE Create
  <2>1. client \in Conns /\ thread[client] = "none" /\ master = "create" /\ master' = "test"
        /\ thread' = [thread EXCEPT ![client] = "start"]
    BY <1>5 DEF Create, MasterGo, IInv, TypeOK, PoolInv, InHand, Incoming
  <2>2. PICK c \in Conns : c = client
    BY <2>1
  <2>3. Serving' = Serving \cup {c} /\ Past' = Past /\ c \notin Serving \cup Past
    BY <2>1, <2>2 DEF IInv, TypeOK, Serving, Past
  <2>4. Open /\ Open' = Open
    BY <2>1 DEF Open
  <2>5. /\ i \in Slots /\ slot' = [slot EXCEPT ![c] = i]
        /\ \A d \in Serving : slot[d] # i
    BY <1>5, <2>2, PoolAssumption
    DEF Create, MasterGo, IInv, TypeOK, PoolInv, Filling, Holding, Serving, Slots
  <2>6. Pool!Begin(c)
    BY <2>3, <2>4, <2>5 DEF Pool!Begin
  <2>7. QED
    BY <2>6 DEF Pool!SeatsNext
<1>6. CASE Test
  <2>1. CASE running
    BY <1>6, <2>1 DEF Test, Serving, Past, Open
  <2>2. CASE ~running
    <3>1. Pool!Shut
      BY <1>6, <2>2 DEF Test, Pool!Shut, Serving, Past, Open
    <3>2. QED
      BY <3>1 DEF Pool!SeatsNext
  <2>3. QED
    BY <2>1, <2>2
<1>7. ASSUME NEW c \in Conns, ThreadStart(c) \/ Leave(c)
      PROVE  Pool!SeatsNext \/ UNCHANGED <<Serving, slot, Past, Open>>
  BY <1>7 DEF ThreadStart, Leave, ThreadGo, IInv, TypeOK, Serving, Past, Open
<1>8. ASSUME NEW c \in Conns, Close(c) \/ BeCancelled(c)
      PROVE  Pool!SeatsNext \/ UNCHANGED <<Serving, slot, Past, Open>>
  <2>1. master' = master /\ slot' = slot
    BY <1>8 DEF Close, BeCancelled
  <2>2. CASE thread[c] = "clear" /\ thread' = [thread EXCEPT ![c] = "ended"]
    BY <2>1, <2>2 DEF IInv, TypeOK, Serving, Past, Open
  <2>3. CASE /\ thread[c] \in {"serve", "close"}
             /\ \/ thread' = [thread EXCEPT ![c] = "clear"]
                \/ thread' = [thread EXCEPT ![c] = "cancelled"]
    <3>1. Serving' = Serving \ {c} /\ Past' = Past \cup {c} /\ c \in Serving /\ Open' = Open
          /\ slot' = slot
      BY <2>1, <2>3 DEF IInv, TypeOK, Serving, Past, Open
    <3>2. Pool!End(c)
      BY <3>1 DEF Pool!End
    <3>3. QED
      BY <3>2 DEF Pool!SeatsNext
  <2>4. QED
    BY <1>8, <2>2, <2>3 DEF Close, BeCancelled, ThreadGo
<1>9. ASSUME NEW c \in Conns, Arrive(c) \/ HangUp(c) \/ Exit(c)
      PROVE  UNCHANGED <<thread, slot, master>>
  BY <1>9 DEF Arrive, HangUp, Exit
<1>10. QED
  BY <1>1, <1>2, <1>3, <1>4, <1>5, <1>6, <1>7, <1>8, <1>9 DEF Next, MasterStep, vars

(* The pool implements its promise: each client is served at most once,      *)
(* never more than NumConnections at a time, none after the loop has ended.  *)
THEOREM PoolKeepsPromise == Spec => SeatsSpec
<1>1. Init => Pool!SeatsInit
  BY SlotsFacts DEF Init, Pool!SeatsInit, Serving, Past, Open
<1>2. IInv /\ [Next]_vars => IInv'
  BY TypeStep, PoolStep DEF IInv
<1>3. IInv /\ [Next]_vars => [Pool!SeatsNext]_(Pool!seatVars)
  BY SeatsStep DEF Pool!seatVars
<1>4. QED
  BY InitInv, <1>1, <1>2, <1>3, PTL DEF Spec, SeatsSpec, Pool!SeatsSpec
=============================================================================
