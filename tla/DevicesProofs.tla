--------------------------- MODULE DevicesProofs ---------------------------
(***************************************************************************)
(* Theorems about the power box (PowerBox), the smart motors (SmartMotors) *)
(* and the filter wheel (FilterWheel) of the topbox server: for any        *)
(* numbers of relays, filters, steps and threads, and for all bounds.      *)
(***************************************************************************)
EXTENDS Devices, SequenceTheorems, TLAPS

-----------------------------------------------------------------------------
(* The power box                                                           *)

\* What is on its way to the server was asked over a connection that lives:
\* a reply that nobody waits for any more cannot come from one that is gone.
PowerInv ==
  /\ box \in Socket_Info /\ wire \in Seq(SUBSET Relays) /\ lateReplies \in Nat
  /\ real \subseteq Relays
  /\ ~box.alive => wire = <<>>
  /\ BehindByTheLate

LEMMA OpensSocket ==
  ASSUME NEW s \in Socket_Info, NEW there, NEW o \in Socket_OpenClient(s, there)
  PROVE  o \in Socket_Info
BY DEF Socket_OpenClient, Socket_Info, Descriptors

LEMMA ClosesSocket ==
  ASSUME NEW s \in Socket_Info
  PROVE  Socket_Close(s) \in Socket_Info /\ ~Socket_Close(s).alive
BY DEF Socket_Close, Socket_Info, Descriptors

LEMMA StepPower == PowerInv /\ [Power_Next]_pvars => PowerInv'
<1> SUFFICES ASSUME PowerInv, [Power_Next]_pvars PROVE PowerInv'
  OBVIOUS
<1> USE DEF PowerInv, BehindByTheLate
<1>0. <<>> \in Seq(SUBSET Relays) /\ Len(<<>>) = 0
  OBVIOUS
<1>1. CASE Power_Start
  <2>1. box' \in Socket_Info
    BY <1>1, OpensSocket DEF Power_Start
  <2> QED  BY <1>0, <1>1, <2>1 DEF Power_Start
<1>2. CASE Power_Open
  <2>1. PICK s \in Socket_OpenClient(box, boxThere) : box' = [s EXCEPT !.connected = FALSE]
    BY <1>2 DEF Power_Open
  <2>2. s \in Socket_Info
    BY OpensSocket
  <2>3. box' \in Socket_Info
    BY <2>1, <2>2 DEF Socket_Info
  <2> QED  BY <1>0, <1>2, <2>3 DEF Power_Open
<1>3. CASE Power_Turn
  BY <1>3 DEF Power_Turn
<1>f. ASSUME Power_Fail PROVE PowerInv'
  BY <1>0, <1>f, ClosesSocket DEF Power_Fail
<1>4. CASE Power_Write
  <2>1. CASE Power_Fail
    BY <2>1, <1>f
  <2>2. CASE /\ wire' = IF box.alive THEN Append(wire, real) ELSE wire
             /\ polling = "ask" /\ polling' = "read" /\ UNCHANGED <<box, real, lateReplies>>
    <3>1. Append(wire, real) \in Seq(SUBSET Relays) /\ Len(Append(wire, real)) = Len(wire) + 1
      OBVIOUS
    <3> QED  BY <2>2, <3>1
  <2> QED  BY <1>4, <2>1, <2>2 DEF Power_Write
<1>5. CASE Power_Read
  <2>1. PICK n \in 1 .. Len(wire) : wire' = SubSeq(wire, n + 1, Len(wire))
    BY <1>5 DEF Power_Read
  <2>2. wire' \in Seq(SUBSET Relays) /\ Len(wire') = Len(wire) - n
    BY <2>1, SubSeqProperties
  <2>3. box.alive
    BY <1>5 DEF Power_Read
  <2> QED  BY <1>5, <2>2, <2>3 DEF Power_Read
<1>6. CASE Power_Timeout
  <2>1. CASE box.alive
    BY <1>6, <2>1 DEF Power_Timeout
  <2>2. CASE ~box.alive
    BY <1>0, <1>6, <2>2 DEF Power_Timeout
  <2> QED  BY <2>1, <2>2
<1>7. CASE Power_ReadEnd
  BY <1>7, <1>f DEF Power_ReadEnd
<1>8. ASSUME NEW r \in Relays, NEW on \in BOOLEAN, Power_Relay(r, on) PROVE PowerInv'
  BY <1>8 DEF Power_Relay
<1>9. CASE Power_LinkLost
  <2>1. box' \in Socket_Info /\ ~box'.alive
    BY <1>9 DEF Power_LinkLost, Socket_Info
  <2> QED  BY <1>0, <1>9, <2>1 DEF Power_LinkLost
<1>10. CASE Power_LinkBack
  BY <1>10 DEF Power_LinkBack
<1>11. CASE UNCHANGED pvars
  BY <1>11 DEF pvars
<1> QED
  BY <1>1, <1>2, <1>3, <1>4, <1>5, <1>6, <1>7, <1>8, <1>9, <1>10, <1>11 DEF Power_Next, Power_Looper

LEMMA InitPower == Power_Init => PowerInv
BY DEF Power_Init, PowerInv, BehindByTheLate, Socket_Setup, Socket_Info, Descriptors

\* The replies that wait on the connection of the power box are never more
\* than those that came after their timeout (Power_Status): so a status that
\* is shown is late by that many questions at most.
THEOREM StatusLateByLateReplies == Power_Spec => []BehindByTheLate
<1>1. Power_Init => PowerInv
  BY InitPower
<1>2. PowerInv => BehindByTheLate
  BY DEF PowerInv
<1> QED  BY <1>1, <1>2, StepPower, PTL DEF Power_Spec
-----------------------------------------------------------------------------
(* The smart motors                                                        *)

Threads == [axis : Axes, todo : Seq({"encoder", "O", "h", "P", "D", "G", "vm"}),
            enc : Int, goal : Int, relative : BOOLEAN, aim : Int, mixed : BOOLEAN]
Motor   == [count : Int, enc : Int, goal : Int, moving : BOOLEAN, home : BOOLEAN, next : Int]

SmartTyped ==
  /\ axis \in [Axes -> Motor] /\ thread \in [Clients -> Threads] /\ muddled \in BOOLEAN

\* What may be left of the commands of a request.
Homes   == {<<"encoder", "O", "h">>, <<"O", "h">>, <<"h">>}
Moves   == {<<"P", "G">>, <<"D", "G">>, <<"G">>}
Programs == {<<>>, <<"vm">>} \cup Homes \cup Moves

\* A client that is about to set the position of the rotator has read its
\* encoder; one that is about to declare it homed has set it.  A client that
\* is about to say "G" has left the controller the goal it means.
ThreadInv(t) ==
  /\ t.todo \in Programs
  /\ t.todo = <<"encoder", "O", "h">> => t.axis = "rotation"
  /\ t.todo = <<"P", "G">> => ~t.relative
  /\ t.todo = <<"D", "G">> => t.relative
  /\ t.todo = <<"G">> /\ ~t.mixed => axis[t.axis].next = t.aim
  /\ ~muddled /\ t.axis = "rotation" /\ t.todo = <<"O", "h">> => t.enc = axis["rotation"].enc
  /\ ~muddled /\ t.axis = "rotation" /\ t.todo = <<"h">> =>
       axis["rotation"].count = axis["rotation"].enc

SmartInv == SmartTyped /\ RotationTruthful /\ \A c \in Clients : ThreadInv(thread[c])

LEMMA WithinType == ASSUME NEW n \in Int PROVE Within(n) \in Int
BY SmartAssumption DEF Within

LEMMA ObeyType ==
  ASSUME NEW x \in Motor, NEW t \in Threads, NEW cmd \in {"O", "h", "P", "D", "G", "vm"}
  PROVE  Obey(x, cmd, t) \in Motor
<1>1. CASE cmd = "G"
  <2>1. PICK g \in Int : g = Within(x.next - x.count + x.enc) - x.enc + x.count
    BY WithinType DEF Motor
  <2>2. Obey(x, cmd, t) = [x EXCEPT !.goal = g, !.moving = g # x.count]
    BY <1>1, <2>1 DEF Obey
  <2> QED  BY <2>1, <2>2 DEF Motor
<1>2. CASE cmd = "P"
  BY <1>2 DEF Obey, Motor, Threads
<1>3. CASE cmd = "D"
  BY <1>3 DEF Obey, Motor, Threads
<1>4. CASE cmd = "O"
  <2>1. PICK g \in Int : g = x.goal - x.count + t.enc
    BY DEF Motor, Threads
  <2> QED  BY <1>4, <2>1 DEF Obey, Motor, Threads
<1>5. CASE cmd = "h"
  BY <1>5 DEF Obey, Motor
<1>6. CASE cmd = "vm"
  BY <1>6 DEF Obey
<1> QED  BY <1>1, <1>2, <1>3, <1>4, <1>5, <1>6

\* What the commands leave of what the invariant speaks of.
LEMMA ObeyLeaves ==
  ASSUME NEW x \in Motor, NEW t \in Threads, NEW cmd \in {"O", "h", "P", "D", "G", "vm"}
  PROVE  LET y == Obey(x, cmd, t) IN
         /\ y.enc = x.enc
         /\ cmd # "O" => y.count = x.count
         /\ cmd = "O" => y.count = t.enc
         /\ cmd # "h" => y.home = x.home
         /\ cmd \notin {"P", "D"} => y.next = x.next
         /\ cmd = "P" => y.next = t.goal
         /\ cmd = "D" => y.next = x.count + t.goal
<1>1. CASE cmd = "G"
  <2>1. PICK g : g = Within(x.next - x.count + x.enc) - x.enc + x.count
    OBVIOUS
  <2>2. Obey(x, cmd, t) = [x EXCEPT !.goal = g, !.moving = g # x.count]
    BY <1>1, <2>1 DEF Obey
  <2> QED  BY <1>1, <2>1, <2>2 DEF Motor
<1>2. CASE cmd = "P"
  BY <1>2 DEF Obey, Motor, Threads
<1>3. CASE cmd = "D"
  BY <1>3 DEF Obey, Motor, Threads
<1>4. CASE cmd = "O"
  BY <1>4 DEF Obey, Motor, Threads
<1>5. CASE cmd = "h"
  BY <1>5 DEF Obey, Motor, Threads
<1>6. CASE cmd = "vm"
  BY <1>6 DEF Obey, Motor, Threads
<1> QED  BY <1>1, <1>2, <1>3, <1>4, <1>5, <1>6

\* The commands of a program and what is left after each.
LEMMA ProgramFacts ==
  ASSUME NEW p \in Programs, p # <<>>
  PROVE  /\ Head(p) \in {"encoder", "O", "h", "P", "D", "G", "vm"}
         /\ Tail(p) \in Programs \ {<<"P", "G">>, <<"D", "G">>, <<"encoder", "O", "h">>}
         /\ Head(p) = "encoder" => p = <<"encoder", "O", "h">>
         /\ Head(p) = "O" => p = <<"O", "h">>
         /\ Head(p) = "h" => p = <<"h">>
         /\ Head(p) = "P" => p = <<"P", "G">>
         /\ Head(p) = "D" => p = <<"D", "G">>
         /\ p # <<>> /\ p # <<"P", "G">> /\ p # <<"D", "G">> => Tail(p) # <<"G">>
         /\ Tail(p) = <<"O", "h">> => Head(p) = "encoder"
         /\ Tail(p) = <<"h">> => Head(p) = "O"
<1>1. CASE p = <<"encoder", "O", "h">>
  <2>1. Tail(p) = <<"O", "h">> /\ Head(p) = "encoder"
    BY <1>1
  <2> QED  BY <1>1, <2>1 DEF Programs, Homes, Moves
<1>2. CASE p = <<"O", "h">>
  <2>1. Tail(p) = <<"h">> /\ Head(p) = "O"
    BY <1>2
  <2> QED  BY <1>2, <2>1 DEF Programs, Homes, Moves
<1>3. CASE p = <<"P", "G">>
  <2>1. Tail(p) = <<"G">> /\ Head(p) = "P"
    BY <1>3
  <2> QED  BY <1>3, <2>1 DEF Programs, Homes, Moves
<1>4. CASE p = <<"D", "G">>
  <2>1. Tail(p) = <<"G">> /\ Head(p) = "D"
    BY <1>4
  <2> QED  BY <1>4, <2>1 DEF Programs, Homes, Moves
<1>5. CASE p = <<"h">>
  <2>1. Tail(p) = <<>> /\ Head(p) = "h"
    BY <1>5
  <2> QED  BY <1>5, <2>1 DEF Programs, Homes, Moves
<1>6. CASE p = <<"G">>
  <2>1. Tail(p) = <<>> /\ Head(p) = "G"
    BY <1>6
  <2> QED  BY <1>6, <2>1 DEF Programs, Homes, Moves
<1>7. CASE p = <<"vm">>
  <2>1. Tail(p) = <<>> /\ Head(p) = "vm"
    BY <1>7
  <2> QED  BY <1>7, <2>1 DEF Programs, Homes, Moves
<1>8. \/ p = <<"encoder", "O", "h">> \/ p = <<"O", "h">> \/ p = <<"h">>
      \/ p = <<"P", "G">> \/ p = <<"D", "G">> \/ p = <<"G">> \/ p = <<"vm">>
  BY DEF Programs, Homes, Moves
<1> QED  BY <1>1, <1>2, <1>3, <1>4, <1>5, <1>6, <1>7, <1>8

LEMMA ProgramType ==
  ASSUME NEW p \in Programs
  PROVE  p \in Seq({"encoder", "O", "h", "P", "D", "G", "vm"})
<1> DEFINE S == {"encoder", "O", "h", "P", "D", "G", "vm"}
<1>1. <<>> \in Seq(S) /\ <<"vm">> \in Seq(S) /\ <<"h">> \in Seq(S) /\ <<"G">> \in Seq(S)
  OBVIOUS
<1>2. <<"O", "h">> \in Seq(S) /\ <<"P", "G">> \in Seq(S) /\ <<"D", "G">> \in Seq(S)
  OBVIOUS
<1>3. <<"encoder", "O", "h">> \in Seq(S)
  OBVIOUS
<1> HIDE DEF S
<1>4. p \in Seq(S)
  BY <1>1, <1>2, <1>3 DEF Programs, Homes, Moves
<1> QED  BY <1>4 DEF S

LEMMA NoThreadInv == NoThread \in Threads /\ ThreadInv(NoThread) /\ ThreadInv(NoThread)'
<1>1. NoThread \in Threads
  BY DEF NoThread, Threads, Axes
<1>2. NoThread.todo = <<>> /\ <<>> \in Programs
  BY DEF NoThread, Programs
<1> QED  BY <1>1, <1>2 DEF ThreadInv

\* What a client sends, whether the controller obeys it or not, and whatever
\* becomes of the client.
LEMMA SendKeeps ==
  ASSUME SmartInv, NEW c \in Clients, Thread_Send(c)
  PROVE  SmartInv'
<1> DEFINE t   == thread[c]
           a   == t.axis
           cmd == Head(t.todo)
           y   == Obey(axis[a], cmd, t)
<1>1. /\ t \in Threads /\ a \in Axes /\ axis[a] \in Motor /\ ThreadInv(t)
      /\ t.todo \in Programs /\ t.todo # <<>> /\ cmd # "encoder" /\ muddled' = muddled
  BY DEF SmartInv, SmartTyped, ThreadInv, Threads, Thread_Send
<1>2. cmd \in {"O", "h", "P", "D", "G", "vm"}
  BY <1>1, ProgramFacts
<1>3. /\ y \in Motor
      /\ y.enc = axis[a].enc
      /\ cmd # "O" => y.count = axis[a].count
      /\ cmd = "O" => y.count = t.enc
      /\ cmd # "h" => y.home = axis[a].home
      /\ cmd \notin {"P", "D"} => y.next = axis[a].next
      /\ cmd = "P" => y.next = t.goal
      /\ cmd = "D" => y.next = axis[a].count + t.goal
  BY <1>1, <1>2, ObeyType, ObeyLeaves
<1>4. axis' \in {axis, [axis EXCEPT ![a] = y]} /\ (Reaches => axis' = [axis EXCEPT ![a] = y] \/ thread'[c] = NoThread)
  BY <1>1, NoThreadInv DEF Thread_Send, SmartInv, SmartTyped
<1> HIDE DEF y
<1>5. axis' \in [Axes -> Motor]
  BY <1>1, <1>3, <1>4 DEF SmartInv, SmartTyped
<1>6. ~muddled /\ a = "rotation" /\ cmd \in {"O", "h"} => y.count = y.enc
  BY <1>1, <1>3, ProgramFacts DEF ThreadInv
<1>7. axis["rotation"].enc = axis'["rotation"].enc
  BY <1>1, <1>3, <1>4 DEF SmartInv, SmartTyped, Axes
<1>8. RotationTruthful'
  <2>1. CASE a = "rotation" /\ axis' = [axis EXCEPT ![a] = y]
    <3>1. axis'["rotation"] = y
      BY <2>1, <1>1 DEF SmartInv, SmartTyped
    <3> QED  BY <2>1, <3>1, <1>1, <1>2, <1>3, <1>6 DEF RotationTruthful, SmartInv
  <2>2. CASE a # "rotation" \/ axis' = axis
    <3>1. axis'["rotation"] = axis["rotation"]
      BY <2>2, <1>4 DEF SmartInv, SmartTyped, Axes
    <3> QED  BY <3>1, <1>1 DEF RotationTruthful, SmartInv
  <2> QED  BY <2>1, <2>2, <1>4
<1>9. ASSUME NEW u \in Clients, ~muddled, thread[u].axis = "rotation", thread[u].todo = <<"h">>
      PROVE  axis'["rotation"].count = axis'["rotation"].enc
  <2>0. axis["rotation"].count = axis["rotation"].enc
    BY <1>9 DEF SmartInv, ThreadInv
  <2>1. CASE a = "rotation" /\ axis' = [axis EXCEPT ![a] = y]
    <3>1. axis'["rotation"] = y
      BY <2>1, <1>1 DEF SmartInv, SmartTyped
    <3> QED  BY <2>1, <3>1, <1>3, <1>6, <1>9, <2>0
  <2>2. CASE a # "rotation" \/ axis' = axis
    <3>1. axis'["rotation"] = axis["rotation"]
      BY <2>2, <1>4 DEF SmartInv, SmartTyped, Axes
    <3> QED  BY <3>1, <2>0
  <2> QED  BY <2>1, <2>2, <1>4
<1>10. ASSUME NEW u \in Clients, thread[u].todo = <<"G">>, ~thread[u].mixed,
              cmd \in {"O", "h", "G", "vm"} \/ thread[u].axis # a
       PROVE  axis'[thread[u].axis].next = thread[u].aim
  <2>1. thread[u].axis \in Axes /\ axis[thread[u].axis].next = thread[u].aim
    BY <1>10 DEF SmartInv, SmartTyped, ThreadInv, Threads
  <2> QED  BY <1>1, <1>3, <1>4, <1>10, <2>1 DEF SmartInv, SmartTyped
\* Another client's request is as it was, or known to be mixed up.
<1>11. ASSUME NEW u \in Clients,
              \/ thread'[u] = thread[u] /\ (cmd \in {"O", "h", "G", "vm"} \/ axis' = axis \/
                                            thread[u].axis # a \/ thread[u].todo # <<"G">>)
              \/ thread'[u] = [thread[u] EXCEPT !.mixed = TRUE]
       PROVE  thread'[u] \in Threads /\ ThreadInv(thread[u])'
  <2>1. thread[u] \in Threads /\ ThreadInv(thread[u])
    BY DEF SmartInv, SmartTyped
  <2>2. CASE thread'[u] = thread[u] /\ (cmd \in {"O", "h", "G", "vm"} \/ axis' = axis \/
                                        thread[u].axis # a \/ thread[u].todo # <<"G">>)
    BY <1>1, <1>7, <1>9, <1>10, <2>1, <2>2 DEF ThreadInv
  <2>3. CASE thread'[u] = [thread[u] EXCEPT !.mixed = TRUE]
    <3>1. /\ thread'[u] \in Threads /\ thread'[u].mixed
          /\ thread'[u].todo = thread[u].todo /\ thread'[u].axis = thread[u].axis
          /\ thread'[u].enc = thread[u].enc /\ thread'[u].relative = thread[u].relative
      BY <2>1, <2>3 DEF Threads
    <3> QED  BY <1>1, <1>7, <1>9, <2>1, <3>1 DEF ThreadInv
  <2> QED  BY <1>11, <2>2, <2>3
<1>12. CASE thread' = [thread EXCEPT ![c] = NoThread] /\ (axis' = axis \/ cmd \in {"O", "h"})
  <2>1. ASSUME NEW u \in Clients PROVE thread'[u] \in Threads /\ ThreadInv(thread[u])'
    <3>1. CASE u = c
      <4>1. thread'[u] = NoThread
        BY <1>12, <3>1 DEF SmartInv, SmartTyped
      <4> QED  BY <4>1, NoThreadInv DEF ThreadInv
    <3>2. CASE u # c
      <4>1. thread'[u] = thread[u]
        BY <1>12, <3>2 DEF SmartInv, SmartTyped
      <4> QED  BY <4>1, <1>11, <1>12
    <3> QED  BY <3>1, <3>2
  <2>2. thread' \in [Clients -> Threads]
    BY <1>12, NoThreadInv DEF SmartInv, SmartTyped
  <2> QED  BY <1>1, <1>5, <1>8, <2>1, <2>2 DEF SmartInv, SmartTyped
<1>13. CASE /\ thread' = [MixedUp(c, t.axis) EXCEPT
                           ![c] = IF Len(t.todo) = 1 THEN NoThread
                                  ELSE [t EXCEPT !.todo = Tail(@), !.aim = Aim(t), !.mixed = ~Reaches]]
            /\ axis' = IF Reaches THEN [axis EXCEPT ![a] = Obey(@, cmd, t)] ELSE axis
            /\ cmd \in {"O", "h"} => Reaches
  <2>1. /\ thread' \in [Clients -> {thread'[u] : u \in Clients}]
        /\ thread'[c] = IF Len(t.todo) = 1 THEN NoThread
                        ELSE [t EXCEPT !.todo = Tail(@), !.aim = Aim(t), !.mixed = ~Reaches]
        /\ \A u \in Clients \ {c} : thread'[u] =
             IF thread[u].axis = a /\ thread[u].todo = <<"G">>
               THEN [thread[u] EXCEPT !.mixed = TRUE] ELSE thread[u]
    BY <1>13 DEF MixedUp
  <2>2. ASSUME NEW u \in Clients \ {c} PROVE thread'[u] \in Threads /\ ThreadInv(thread[u])'
    BY <1>11, <2>1
  <2>3. thread'[c] \in Threads /\ ThreadInv(thread[c])'
    <3>1. CASE Len(t.todo) = 1
      <4>1. thread'[c] = NoThread
        BY <2>1, <3>1
      <4> QED  BY <4>1, NoThreadInv DEF ThreadInv
    <3>2. CASE Len(t.todo) # 1
      <4>1. Tail(t.todo) \in Programs \ {<<"P", "G">>, <<"D", "G">>, <<"encoder", "O", "h">>}
        BY <1>1, ProgramFacts
      <4>2. Aim(t) \in Int /\ Reaches \in BOOLEAN
        BY <1>1 DEF Aim, Motor, Threads, Reaches
      <4>3. /\ thread'[c] \in Threads
            /\ thread'[c].todo = Tail(t.todo) /\ thread'[c].axis = a /\ thread'[c].enc = t.enc
            /\ thread'[c].aim = Aim(t) /\ thread'[c].mixed = ~Reaches
        BY <1>1, <2>1, <3>2, <4>1, <4>2, ProgramType DEF Threads
      <4>4. ASSUME Tail(t.todo) = <<"G">>, Reaches PROVE axis'[a].next = Aim(t)
        <5>1. cmd \in {"P", "D"} /\ axis'[a] = y
          BY <1>1, <1>13, <4>4, ProgramFacts DEF SmartInv, SmartTyped, y
        <5>2. t.relative <=> cmd = "D"
          BY <1>1, <5>1, ProgramFacts DEF ThreadInv
        <5> QED  BY <1>3, <5>1, <5>2 DEF Aim
      <4>5. ASSUME ~muddled, a = "rotation", Tail(t.todo) = <<"h">>
            PROVE  axis'["rotation"].count = axis'["rotation"].enc
        <5>1. cmd = "O" /\ axis'["rotation"] = y
          BY <1>1, <1>13, <4>5, ProgramFacts DEF SmartInv, SmartTyped, y
        <5> QED  BY <1>6, <4>5, <5>1
      <4>6. Tail(t.todo) # <<"O", "h">>
        BY <1>1, ProgramFacts
      <4> QED  BY <1>1, <4>1, <4>3, <4>4, <4>5, <4>6 DEF ThreadInv
    <3> QED  BY <3>1, <3>2
  <2>4. thread' \in [Clients -> Threads]
    BY <2>1, <2>2, <2>3
  <2> QED  BY <1>1, <1>5, <1>8, <2>2, <2>3, <2>4 DEF SmartInv, SmartTyped
<1> QED  BY <1>12, <1>13 DEF Thread_Send

LEMMA StepSmart == SmartInv /\ [Smart_Next]_svars => SmartInv'
<1> SUFFICES ASSUME SmartInv, [Smart_Next]_svars PROVE SmartInv'
  OBVIOUS
<1>1. ASSUME UNCHANGED <<axis, thread, muddled>> PROVE SmartInv'
  BY <1>1 DEF SmartInv, SmartTyped, ThreadInv, RotationTruthful
<1>2. CASE Smart_Looper
  <2>1. UNCHANGED <<axis, thread, muddled>>
    BY <1>2 DEF Smart_Looper, Smart_Reconnect, Smart_InitTry, Looper_Turn, Status_Ask, Status_Store
  <2> QED  BY <2>1, <1>1
<1>3. ASSUME NEW c \in Clients, Smart_Process(c) PROVE SmartInv'
  <2>1. ASSUME NEW a \in Axes, NEW todo \in Programs, NEW goal \in Int, NEW relative \in BOOLEAN,
               todo \notin {<<"O", "h">>, <<"h">>, <<"G">>} \/ (a = "focus" /\ todo = <<"O", "h">>),
               todo = <<"encoder", "O", "h">> => a = "rotation",
               todo = <<"P", "G">> => ~relative, todo = <<"D", "G">> => relative,
               Request(c, a, todo, goal, relative)
        PROVE  SmartInv'
    <3> DEFINE new == [NoThread EXCEPT !.axis = a, !.todo = todo, !.goal = goal, !.relative = relative]
    <3>1. thread' = [thread EXCEPT ![c] = new] /\ UNCHANGED <<axis, muddled>>
      BY <2>1 DEF Request
    <3>2. new \in Threads /\ new.axis = a /\ new.todo = todo /\ new.relative = relative
      BY ProgramType, NoThreadInv DEF Threads, NoThread
    <3> HIDE DEF new
    <3>3. ThreadInv(new)'
      BY <2>1, <3>2 DEF ThreadInv
    <3>4. ASSUME NEW u \in Clients PROVE thread'[u] = IF u = c THEN new ELSE thread[u]
      BY <3>1 DEF SmartInv, SmartTyped
    <3>5. ASSUME NEW u \in Clients PROVE ThreadInv(thread[u])'
      <4>1. CASE u = c
        BY <4>1, <3>3, <3>4 DEF ThreadInv
      <4>2. CASE u # c
        BY <4>2, <3>1, <3>4 DEF ThreadInv, SmartInv
      <4> QED  BY <4>1, <4>2
    <3>6. thread' \in [Clients -> Threads]
      BY <3>1, <3>2 DEF SmartInv, SmartTyped
    <3> QED  BY <3>1, <3>5, <3>6 DEF SmartInv, SmartTyped, RotationTruthful
  <2>2. PICK a \in Axes :
          \/ Request(c, a, Smart_Home(a), 0, FALSE)
          \/ Request(c, a, Smart_SetSpeed, 0, FALSE)
          \/ \E g \in Goals : Request(c, a, Smart_MoveAbsolute, g, FALSE)
          \/ \E g \in Goals : Request(c, a, Smart_MoveRelative, g, TRUE)
    BY <1>3 DEF Smart_Process
  <2>0. 0 \in Int
    OBVIOUS
  <2>3. CASE Request(c, a, Smart_Home(a), 0, FALSE)
    <3>1. CASE a = "focus"
      <4>1. Smart_Home(a) = <<"O", "h">> /\ <<"O", "h">> \in Programs
        BY <3>1 DEF Smart_Home, Programs, Homes
      <4>2. <<"O", "h">> # <<"encoder", "O", "h">> /\ <<"O", "h">> # <<"P", "G">> /\ <<"O", "h">> # <<"D", "G">>
        OBVIOUS
      <4> QED  BY <2>0, <2>1, <2>3, <3>1, <4>1, <4>2
    <3>2. CASE a = "rotation"
      <4>1. Smart_Home(a) = <<"encoder", "O", "h">> /\ <<"encoder", "O", "h">> \in Programs
        BY <3>2 DEF Smart_Home, Programs, Homes
      <4>2. <<"encoder", "O", "h">> \notin {<<"O", "h">>, <<"h">>, <<"G">>, <<"P", "G">>, <<"D", "G">>}
        OBVIOUS
      <4> QED  BY <2>0, <2>1, <2>3, <3>2, <4>1, <4>2
    <3> QED  BY <3>1, <3>2 DEF Axes
  <2>4. CASE Request(c, a, Smart_SetSpeed, 0, FALSE)
    <3>1. Smart_SetSpeed = <<"vm">> /\ <<"vm">> \in Programs
      BY DEF Smart_SetSpeed, Programs
    <3>2. <<"vm">> \notin {<<"O", "h">>, <<"h">>, <<"G">>, <<"P", "G">>, <<"D", "G">>, <<"encoder", "O", "h">>}
      OBVIOUS
    <3> QED  BY <2>0, <2>1, <2>4, <3>1, <3>2
  <2>5. ASSUME NEW g \in Goals, Request(c, a, Smart_MoveAbsolute, g, FALSE) PROVE SmartInv'
    <3>1. Smart_MoveAbsolute = <<"P", "G">> /\ <<"P", "G">> \in Programs /\ g \in Int
      BY SmartAssumption DEF Smart_MoveAbsolute, Programs, Moves
    <3>2. <<"P", "G">> \notin {<<"O", "h">>, <<"h">>, <<"G">>, <<"D", "G">>, <<"encoder", "O", "h">>}
      OBVIOUS
    <3> QED  BY <2>1, <2>5, <3>1, <3>2
  <2>6. ASSUME NEW g \in Goals, Request(c, a, Smart_MoveRelative, g, TRUE) PROVE SmartInv'
    <3>1. Smart_MoveRelative = <<"D", "G">> /\ <<"D", "G">> \in Programs /\ g \in Int
      BY SmartAssumption DEF Smart_MoveRelative, Programs, Moves
    <3>2. <<"D", "G">> \notin {<<"O", "h">>, <<"h">>, <<"G">>, <<"P", "G">>, <<"encoder", "O", "h">>}
      OBVIOUS
    <3> QED  BY <2>1, <2>6, <3>1, <3>2
  <2> QED  BY <2>2, <2>3, <2>4, <2>5, <2>6
<1>4. ASSUME NEW c \in Clients, Smart_ReadEncoder(c) PROVE SmartInv'
  <2>1. /\ thread[c] \in Threads /\ ThreadInv(thread[c]) /\ thread[c].todo \in Programs
        /\ thread[c].todo # <<>> /\ Head(thread[c].todo) = "encoder" /\ axis' = axis
        /\ muddled' = (muddled \/ axis["rotation"].moving)
    BY <1>4 DEF Smart_ReadEncoder, SmartInv, SmartTyped, ThreadInv
  <2>9. thread[c].todo = <<"encoder", "O", "h">>
    BY <2>1, ProgramFacts
  <2>2. Tail(thread[c].todo) = <<"O", "h">>
    BY <2>9
  <2>3. axis["rotation"] \in Motor
    BY DEF SmartInv, SmartTyped, Axes
  <2>4. <<"O", "h">> \in Programs
    BY DEF Programs, Homes
  <2>5. PICK new : thread' = [thread EXCEPT ![c] = new] /\ new \in Threads /\ ThreadInv(new)'
    <3>1. CASE thread' = [thread EXCEPT ![c].todo = Tail(@), ![c].enc = axis["rotation"].enc]
      <4>0. PICK new : new = [thread[c] EXCEPT !.todo = <<"O", "h">>, !.enc = axis["rotation"].enc]
        OBVIOUS
      <4>1. thread' = [thread EXCEPT ![c] = new]
        BY <2>2, <3>1, <4>0 DEF SmartInv, SmartTyped
      <4>2. new \in Threads /\ new.todo = <<"O", "h">> /\ new.enc = axis["rotation"].enc
        BY <2>1, <2>3, <2>4, <4>0, ProgramType DEF Threads, Motor
      <4>3. ThreadInv(new)'
        <5>1. /\ <<"O", "h">> # <<"encoder", "O", "h">> /\ <<"O", "h">> # <<"h">> /\ <<"O", "h">> # <<"G">>
              /\ <<"O", "h">> # <<"P", "G">> /\ <<"O", "h">> # <<"D", "G">>
          OBVIOUS
        <5> QED  BY <2>1, <2>4, <4>2, <5>1 DEF ThreadInv
      <4> QED  BY <4>1, <4>2, <4>3
    <3>2. CASE thread' = [thread EXCEPT ![c] = NoThread]
      BY <3>2, NoThreadInv
    <3> QED  BY <1>4, <3>1, <3>2 DEF Smart_ReadEncoder
  <2>6. ASSUME NEW u \in Clients PROVE ThreadInv(thread[u])'
    <3>1. CASE u = c
      <4>1. thread'[u] = new
        BY <2>5, <3>1 DEF SmartInv, SmartTyped
      <4> QED  BY <4>1, <2>5 DEF ThreadInv
    <3>2. CASE u # c
      <4>1. thread'[u] = thread[u]
        BY <2>5, <3>2 DEF SmartInv, SmartTyped
      <4> QED  BY <4>1, <2>1 DEF ThreadInv, SmartInv
    <3> QED  BY <3>1, <3>2
  <2>7. thread' \in [Clients -> Threads]
    BY <2>5 DEF SmartInv, SmartTyped
  <2>8. muddled' \in BOOLEAN
    BY <2>1, <2>3 DEF SmartInv, SmartTyped, Motor
  <2> QED  BY <2>1, <2>6, <2>7, <2>8 DEF SmartInv, SmartTyped, RotationTruthful
<1>5. ASSUME NEW a \in Axes, Axis_Move(a) PROVE SmartInv'
  <2>0. PICK x \in Motor : x = axis[a]
    BY DEF SmartInv, SmartTyped
  <2>1. PICK n \in Int : n = IF x.goal > x.count THEN x.count + 1 ELSE x.count - 1
    BY DEF Motor
  <2>8. PICK y : y = [x EXCEPT !.count = n, !.enc = x.enc + n - x.count, !.moving = n # x.goal]
    OBVIOUS
  <2>2. /\ axis' = [axis EXCEPT ![a] = y] /\ thread' = thread
        /\ muddled' = (muddled \/ (a = "rotation" /\ Reading))
    BY <1>5, <2>0, <2>1, <2>8 DEF Axis_Move
  <2>3. y \in Motor /\ y.next = x.next /\ y.home = x.home /\ (x.count = x.enc => y.count = y.enc)
    <3>1. x.count \in Int /\ x.enc \in Int /\ x.enc + n - x.count \in Int
      BY DEF Motor
    <3>2. y \in Motor /\ y.next = x.next /\ y.home = x.home
      BY <2>8, <3>1 DEF Motor
    <3>3. y.count = n /\ y.enc = x.enc + n - x.count
      BY <2>8 DEF Motor
    <3> QED  BY <3>1, <3>2, <3>3
  <2>4. axis' \in [Axes -> Motor] /\ muddled' \in BOOLEAN
    BY <2>2, <2>3 DEF SmartInv, SmartTyped, Reading
  <2>5. /\ axis'[a] = y /\ \A b \in Axes \ {a} : axis'[b] = axis[b]
    BY <2>2 DEF SmartInv, SmartTyped
  <2>6. RotationTruthful'
    BY <2>0, <2>2, <2>3, <2>5 DEF RotationTruthful, SmartInv, Axes
  <2>7. ASSUME NEW u \in Clients PROVE ThreadInv(thread[u])'
    <3>1. ThreadInv(thread[u]) /\ thread'[u] = thread[u] /\ thread[u].axis \in Axes
      BY <2>2 DEF SmartInv, SmartTyped, Threads
    <3>2. axis'[thread[u].axis].next = axis[thread[u].axis].next
      BY <2>0, <2>3, <2>5, <3>1
    <3>3. axis["rotation"].count = axis["rotation"].enc => axis'["rotation"].count = axis'["rotation"].enc
      BY <2>0, <2>3, <2>5 DEF Axes
    <3>4. thread[u].todo = <<"O", "h">> /\ ~muddled' => axis'["rotation"] = axis["rotation"]
      BY <2>2, <2>5 DEF Reading, Axes
    <3> QED  BY <2>2, <3>1, <3>2, <3>3, <3>4 DEF ThreadInv
  <2> QED  BY <2>2, <2>4, <2>6, <2>7 DEF SmartInv, SmartTyped
<1>6. CASE Smart_LinkLost \/ Smart_LinkBack \/ UNCHANGED svars
  BY <1>1, <1>6 DEF Smart_LinkLost, Smart_LinkBack, svars
<1> QED
  BY <1>2, <1>3, SendKeeps, <1>4, <1>5, <1>6 DEF Smart_Next, Smart_Thread

LEMMA InitSmart == Smart_Init => SmartInv
<1> SUFFICES ASSUME Smart_Init PROVE SmartInv
  OBVIOUS
<1>1. PICK p \in 0 .. MaxAt : axis = [a \in Axes |-> Axis_Init(p)]
  BY DEF Smart_Init
<1>2. p \in Int /\ Axis_Init(p) \in Motor /\ ~Axis_Init(p).home
  BY SmartAssumption DEF Axis_Init, Motor
<1>3. axis \in [Axes -> Motor] /\ ~axis["rotation"].home
  BY <1>1, <1>2 DEF Axes
<1>4. thread \in [Clients -> Threads] /\ \A c \in Clients : thread[c] = NoThread
  BY NoThreadInv DEF Smart_Init
<1>5. \A c \in Clients : ThreadInv(thread[c])
  BY <1>4, NoThreadInv
<1> QED  BY <1>3, <1>4, <1>5 DEF SmartInv, SmartTyped, RotationTruthful, Smart_Init

\* A rotator that is homed (Smart_Home) counts what its encoder says, whatever
\* clients, the looper and broken connections do; unless it moved between
\* the reading of the encoder and the setting of its position.
THEOREM HomedRotatorCountsEncoder == Smart_Spec => []RotationTruthful
<1>1. SmartInv => RotationTruthful
  BY DEF SmartInv
<1> QED  BY <1>1, InitSmart, StepSmart, PTL DEF Smart_Spec

LEMMA StepGoes == SmartInv /\ [Smart_Next]_svars =>
  \A c \in Clients :
    LET t == thread[c] IN
    t.todo = <<"G">> /\ thread'[c].todo = <<>> /\ ~t.mixed /\ axis' # axis
      => axis' = [axis EXCEPT ![t.axis] = Obey([@ EXCEPT !.next = t.aim], "G", t)]
<1> SUFFICES ASSUME SmartInv, [Smart_Next]_svars, NEW c \in Clients,
                    thread[c].todo = <<"G">>, thread'[c].todo = <<>>, ~thread[c].mixed, axis' # axis
             PROVE  axis' = [axis EXCEPT ![thread[c].axis] =
                               Obey([@ EXCEPT !.next = thread[c].aim], "G", thread[c])]
  OBVIOUS
<1>0. <<"G">> # <<>> /\ Head(<<"G">>) = "G" /\ Head(<<"G">>) \notin {"O", "h"}
  OBVIOUS
<1>1. PICK t \in Threads : t = thread[c]
  BY DEF SmartInv, SmartTyped
<1>2. PICK x \in Motor : x = axis[t.axis] /\ x.next = t.aim
  BY <1>1 DEF SmartInv, SmartTyped, ThreadInv, Threads
<1>3. [x EXCEPT !.next = t.aim] = x
  BY <1>2 DEF Motor
<1>4. CASE Thread_Send(c)
  <2>1. axis' = [axis EXCEPT ![t.axis] = Obey(@, "G", t)]
    BY <1>0, <1>1, <1>4 DEF Thread_Send
  <2> QED  BY <1>1, <1>2, <1>3, <2>1 DEF SmartInv, SmartTyped, Threads
<1>5. ASSUME NEW u \in Clients \ {c}, Thread_Send(u) PROVE FALSE
  <2>1. thread'[c].todo = thread[c].todo
    <3>1. thread'[c] \in {thread[c], [thread[c] EXCEPT !.mixed = TRUE]}
      BY <1>5 DEF Thread_Send, MixedUp, SmartInv, SmartTyped
    <3> QED  BY <3>1, <1>1 DEF Threads
  <2> QED  BY <1>0, <2>1
<1>6. ASSUME UNCHANGED axis PROVE FALSE
  BY <1>6
<1>7. ASSUME UNCHANGED thread PROVE FALSE
  BY <1>0, <1>7
<1>8. CASE Smart_Looper
  BY <1>6, <1>8 DEF Smart_Looper, Smart_Reconnect, Smart_InitTry, Looper_Turn, Status_Ask, Status_Store
<1>9. ASSUME NEW u \in Clients, Smart_Process(u) \/ Smart_ReadEncoder(u) PROVE FALSE
  BY <1>6, <1>9 DEF Smart_Process, Smart_ReadEncoder, Request
<1>10. ASSUME NEW a \in Axes, Axis_Move(a) PROVE FALSE
  BY <1>7, <1>10 DEF Axis_Move
<1>11. CASE Smart_LinkLost \/ Smart_LinkBack \/ UNCHANGED svars
  BY <1>6, <1>11 DEF Smart_LinkLost, Smart_LinkBack, svars
<1> QED
  BY <1>4, <1>5, <1>8, <1>9, <1>10, <1>11 DEF Smart_Next, Smart_Thread

\* A client whose two commands reach an axis moves it to where it asked for
\* (Smart_MoveAbsolute, Smart_MoveRelative), whatever the looper, the clients
\* of the other axis and homing clients do between the two.
THEOREM MovesGoWhereAsked == Smart_Spec => GoesWhereAsked
<1> DEFINE A == \A c \in Clients :
                  LET t == thread[c] IN
                  t.todo = <<"G">> /\ thread'[c].todo = <<>> /\ ~t.mixed /\ axis' # axis
                    => axis' = [axis EXCEPT ![t.axis] = Obey([@ EXCEPT !.next = t.aim], "G", t)]
<1>1. SmartInv /\ [Smart_Next]_svars => [A]_svars
  BY StepGoes
<1>2. Smart_Spec => [][A]_svars
  <2> HIDE DEF A
  <2> QED  BY <1>1, InitSmart, StepSmart, PTL DEF Smart_Spec
<1> QED  BY <1>2 DEF GoesWhereAsked
-----------------------------------------------------------------------------
(* Remainders                                                              *)

LEMMA Division ==
  ASSUME NEW N \in Nat \ {0}, NEW n \in Nat
  PROVE  (n % N) \in 0 .. N - 1 /\ n \div N \in Nat /\ n = N * (n \div N) + (n % N)
OBVIOUS

LEMMA SmallRemainder == ASSUME NEW N \in Nat \ {0}, NEW x \in 0 .. N - 1 PROVE x % N = x
OBVIOUS

LEMMA Apart ==
  ASSUME NEW N \in Nat \ {0}, NEW a \in Nat, NEW b \in Nat, a < b
  PROVE  N * a \in Nat /\ N * b \in Nat /\ N * a + N <= N * b
<1>1. PICK c \in Nat : b = a + 1 + c
  <2>1. b - a - 1 \in Nat /\ b = a + 1 + (b - a - 1)
    OBVIOUS
  <2> QED  BY <2>1
<1>2. N * (a + 1 + c) = N * a + N + N * c
  OBVIOUS
<1>3. N * c \in Nat /\ N * a \in Nat
  OBVIOUS
<1> QED  BY <1>1, <1>2, <1>3

LEMMA OneRemainder ==
  ASSUME NEW N \in Nat \ {0}, NEW q \in Nat, NEW p \in Nat,
         NEW r \in 0 .. N - 1, NEW t \in 0 .. N - 1, N * q + r = N * p + t
  PROVE  r = t
<1>1. N * q \in Nat /\ N * p \in Nat
  OBVIOUS
<1>2. CASE q < p
  BY <1>1, <1>2, Apart
<1>3. CASE p < q
  BY <1>1, <1>3, Apart
<1>4. CASE p = q
  BY <1>1, <1>4
<1> QED  BY <1>2, <1>3, <1>4

\* Steps that are counted on from a remainder are counted on from the whole.
LEMMA CountOnFrom ==
  ASSUME NEW N \in Nat \ {0}, NEW m \in Nat, NEW k \in Nat
  PROVE  ((m % N) + k) % N = (m + k) % N
<1>1. PICK q \in Nat, r \in 0 .. N - 1 : r = m % N /\ m = N * q + r
  BY Division
<1>2. PICK p \in Nat, t \in 0 .. N - 1 : t = (r + k) % N /\ r + k = N * p + t
  BY Division, r + k \in Nat
<1>3. PICK u \in Nat, v \in 0 .. N - 1 : v = (m + k) % N /\ m + k = N * u + v
  BY Division, m + k \in Nat
<1>4. N * (q + p) = N * q + N * p /\ N * q \in Nat /\ N * p \in Nat /\ N * u \in Nat
  OBVIOUS
<1>5. N * (q + p) + t = N * u + v /\ q + p \in Nat
  BY <1>1, <1>2, <1>3, <1>4
<1>6. t = v
  BY <1>5, OneRemainder
<1> QED  BY <1>1, <1>2, <1>3, <1>6

-----------------------------------------------------------------------------
(* The filter wheel                                                        *)

Tasks == [k : {"count", "seek", "position", "filter", "home"}, n : Int]
Position == Nat \ {0}

LEMMA WheelFacts ==
  /\ NFilters \in Nat \ {0} /\ StepSize \in Nat \ {0} /\ MaxHome \in Nat /\ Offset \in 1 .. StepSize
  /\ Steps \in Nat \ {0}
  /\ \A p \in Position : Offset + (p - 1) * StepSize \in Nat
<1>1. NFilters \in Nat \ {0} /\ StepSize \in Nat \ {0} /\ MaxHome \in Nat /\ Offset \in 1 .. StepSize
  BY FwheelAssumption
<1>2. NFilters * StepSize \in Nat \ {0}
  BY <1>1
<1>3. ASSUME NEW p \in Position PROVE Offset + (p - 1) * StepSize \in Nat
  <2>1. p - 1 \in Nat
    BY DEF Position
  <2>2. (p - 1) * StepSize \in Nat
    BY <2>1, <1>1
  <2> QED  BY <2>2, <1>1
<1> QED  BY <1>1, <1>2, <1>3 DEF Steps

\* From the i-th task on, position and filter are set to p, and nothing else.
Names(s, i, p) == Len(s) = i + 1 /\ s[i] = Task("position", p) /\ s[i + 1] = Task("filter", p)

\* From the i-th task on, the wheel is counted from x to the filter that is
\* then shown, in one or two moves or none.
Counts(s, i) == s[i].k = "count" /\ s[i].n \in Nat
Counted(s, i, x) ==
  \E p \in Position :
    \/ Names(s, i, p) /\ x % Steps = Place(p)
    \/ Counts(s, i) /\ Names(s, i + 1, p) /\ (x + s[i].n) % Steps = Place(p)
    \/ Counts(s, i) /\ Counts(s, i + 1) /\ Names(s, i + 2, p)
       /\ (x + (s[i].n + s[i + 1].n)) % Steps = Place(p)

\* What may be left of a request that nobody else disturbs, when the wheel
\* stands at x, home and position are set to h and pos, and the connection is l.
Naming(s, x, pos) == Len(s) = 1 /\ s[1].k = "filter" /\ s[1].n = pos /\ pos \in Position /\ x = Place(pos)
AtHome(s, x)  == s[1] = Task("home", 1) /\ Counted(s, 2, x)
Homing(s, h)  == s[1].k = "seek" /\ s[2] = Task("home", 1) /\ Counted(s, 3, 0) /\ h = 0
Passing(s)    == s[1].k = "seek" /\ s[2].k = "count" /\ Counted(s, 2, 0)
Reaching(s)   == s[1].k = "count" /\ s[2].k = "seek" /\ s[3].k = "count" /\ Counted(s, 3, 0)
Losing(s)     == Len(s) > 0 /\ s[Len(s)] = Task("home", 0)
                 /\ \A i \in 1 .. Len(s) : s[i].k \in {"position", "filter", "home"}
Failed(s, h)  == h = 0 /\ Len(s) > 0 /\ \A i \in 1 .. Len(s) : s[i].k \in {"position", "filter"}

OnTheWay(s, x, h, pos, l) ==
  \/ Homing(s, h)
  \/ l = "up" /\ \/ Naming(s, x, pos) \/ Counted(s, 1, x) \/ AtHome(s, x)
                 \/ Passing(s) \/ Reaching(s) \/ Losing(s) \/ Failed(s, h)

WheelTyped ==
  /\ at \in 0 .. Steps - 1 /\ clean \in BOOLEAN
  /\ flags \in [home : Int, moving : Int, position : Int, filter : Int]
  /\ job \in [Movers -> Seq(Tasks)]

\* One thread at a time, on its way to a filter that will be shown rightly.
CleanMoves ==
  /\ \A t, u \in Movers : ~Idle(t) /\ ~Idle(u) => t = u
  /\ \A t \in Movers : ~Idle(t) => OnTheWay(job[t], at, flags.home, flags.position, link)
  /\ AllIdle /\ flags.home = 1 =>
       link = "up" /\ flags.position \in Position /\ at = Place(flags.position)
       /\ flags.filter = flags.position

WheelInv == WheelTyped /\ (clean => CleanMoves)

\* The first task is done with.
LEMMA CountedTail ==
  ASSUME NEW s \in Seq(Tasks), NEW i \in 1 .. 2, NEW x, Counted(s, i + 1, x)
  PROVE  Tail(s) \in Seq(Tasks) \ {<<>>} /\ Len(Tail(s)) > 1 /\ Counted(Tail(s), i, x)
         /\ \A j \in 1 .. Len(s) - 1 : Tail(s)[j] = s[j + 1]
<1>1. PICK p \in Position :
        \/ Names(s, i + 1, p) /\ x % Steps = Place(p)
        \/ Counts(s, i + 1) /\ Names(s, i + 2, p) /\ (x + s[i + 1].n) % Steps = Place(p)
        \/ Counts(s, i + 1) /\ Counts(s, i + 2) /\ Names(s, i + 3, p)
           /\ (x + (s[i + 1].n + s[i + 2].n)) % Steps = Place(p)
  <2>1. i + 1 + 1 = i + 2 /\ i + 1 + 2 = i + 3
    OBVIOUS
  <2> QED  BY <2>1 DEF Counted
<1>2. Len(s) \in {i + 2, i + 3, i + 4}
  BY <1>1 DEF Names
<1>8. Len(s) > 2 /\ s # <<>>
  BY <1>2
<1>3. Tail(s) \in Seq(Tasks) /\ Len(Tail(s)) = Len(s) - 1 /\ \A j \in 1 .. Len(s) - 1 : Tail(s)[j] = s[j + 1]
  BY <1>8
<1>7. Tail(s) # <<>> /\ Len(Tail(s)) > 1
  <2>1. PICK r \in Seq(Tasks) : r = Tail(s)
    BY <1>3
  <2>2. Len(r) = Len(s) - 1
    BY <1>3, <2>1
  <2>3. Len(r) > 1
    BY <1>8, <2>2
  <2>4. r # <<>>
    BY <2>3
  <2> QED  BY <2>1, <2>3, <2>4
<1>4. CASE Names(s, i + 1, p) /\ x % Steps = Place(p)
  <2>1. Names(Tail(s), i, p)
    BY <1>3, <1>4 DEF Names
  <2>2. Counted(Tail(s), i, x)
    BY <1>4, <2>1 DEF Counted
  <2> QED  BY <1>7, <1>3, <2>2
<1>5. CASE Counts(s, i + 1) /\ Names(s, i + 2, p) /\ (x + s[i + 1].n) % Steps = Place(p)
  <2>1. Names(Tail(s), i + 1, p) /\ Tail(s)[i] = s[i + 1]
    BY <1>3, <1>5 DEF Names
  <2>2. Counts(Tail(s), i) /\ (x + Tail(s)[i].n) % Steps = Place(p)
    BY <1>5, <2>1 DEF Counts
  <2>3. Counted(Tail(s), i, x)
    BY <2>1, <2>2 DEF Counted
  <2> QED  BY <1>7, <1>3, <2>3
<1>6. CASE Counts(s, i + 1) /\ Counts(s, i + 2) /\ Names(s, i + 3, p)
           /\ (x + (s[i + 1].n + s[i + 2].n)) % Steps = Place(p)
  <2>1. Names(Tail(s), i + 2, p) /\ Tail(s)[i] = s[i + 1] /\ Tail(s)[i + 1] = s[i + 2]
    BY <1>3, <1>6 DEF Names
  <2>2. /\ Counts(Tail(s), i) /\ Counts(Tail(s), i + 1)
        /\ (x + (Tail(s)[i].n + Tail(s)[i + 1].n)) % Steps = Place(p)
    BY <1>6, <2>1 DEF Counts
  <2>3. Counted(Tail(s), i, x)
    BY <2>1, <2>2 DEF Counted
  <2> QED  BY <1>7, <1>3, <2>3
<1> QED  BY <1>1, <1>4, <1>5, <1>6

\* One step less is left of the first task.
Less(s) == [s EXCEPT ![1].n = @ - 1]

LEMMA OneLess ==
  ASSUME NEW s \in Seq(Tasks), s # <<>>, NEW z, z = Less(s)
  PROVE  /\ z \in Seq(Tasks) \ {<<>>} /\ Len(z) = Len(s) /\ z[1].k = s[1].k /\ z[1].n = s[1].n - 1
         /\ \A j \in 2 .. Len(s) : z[j] = s[j]
<1>1. PICK f \in Tasks : f = s[1]
  OBVIOUS
<1>2. PICK e \in Tasks : e = [f EXCEPT !.n = f.n - 1] /\ e.k = f.k /\ e.n = f.n - 1
  <2>1. f.n - 1 \in Int
    BY DEF Tasks
  <2>2. [f EXCEPT !.n = f.n - 1] \in Tasks
    BY <2>1 DEF Tasks
  <2>3. [f EXCEPT !.n = f.n - 1].n = f.n - 1 /\ [f EXCEPT !.n = f.n - 1].k = f.k
    BY DEF Tasks
  <2> QED  BY <2>2, <2>3
<1>3. z = [s EXCEPT ![1] = e]
  BY <1>1, <1>2 DEF Less
<1>4. Len(s) > 0
  OBVIOUS
<1>5. z \in Seq(Tasks) /\ Len(z) = Len(s) /\ z[1] = e /\ \A j \in 2 .. Len(s) : z[j] = s[j]
  BY <1>3, <1>4
<1>6. z # <<>>
  BY <1>4, <1>5
<1> QED  BY <1>1, <1>2, <1>5, <1>6

LEMMA CountedOneLess ==
  ASSUME NEW x \in 0 .. Steps - 1, NEW n \in Nat \ {0}, NEW k \in Nat
  PROVE  (x + 1) % Steps \in 0 .. Steps - 1 /\ (((x + 1) % Steps) + (n - 1 + k)) % Steps = (x + (n + k)) % Steps
<1>1. PICK m \in Nat, j \in Nat : m = x + 1 /\ j = n - 1 + k
  <2>1. x + 1 \in Nat /\ n - 1 + k \in Nat
    BY WheelFacts
  <2> QED  BY <2>1
<1>2. PICK N \in Nat \ {0} : N = Steps
  BY WheelFacts
<1>3. ((m % N) + j) % N = (m + j) % N /\ m % N \in 0 .. N - 1
  BY CountOnFrom, Division
<1>4. m + j = x + (n + k)
  BY <1>1, <1>2
<1> QED  BY <1>1, <1>2, <1>3, <1>4

\* A step of Fwheel_MoveCount.
LEMMA CountOn ==
  ASSUME NEW s \in Seq(Tasks), s # <<>>, s[1].k = "count",
         NEW x \in 0 .. Steps - 1, NEW h \in Int, NEW pos \in Int, NEW l, OnTheWay(s, x, h, pos, l)
  PROVE  /\ s[1].n > 0 => /\ Less(s) \in Seq(Tasks) \ {<<>>}
                          /\ l = "up"
                          /\ OnTheWay(Less(s), (x + 1) % Steps, h, pos, l)
         /\ s[1].n <= 0 => /\ Tail(s) \in Seq(Tasks) \ {<<>>}
                           /\ OnTheWay(Tail(s), x, h, pos, l)
<1>1. l = "up" /\ (Counted(s, 1, x) \/ Reaching(s))
  <2>1. ~Homing(s, h) /\ ~Naming(s, x, pos) /\ ~AtHome(s, x) /\ ~Passing(s)
    BY DEF Homing, Naming, AtHome, Passing, Task
  <2>2. ~Losing(s) /\ ~Failed(s, h)
    BY DEF Losing, Failed
  <2> QED  BY <2>1, <2>2 DEF OnTheWay
<1>2. CASE Reaching(s)
  <2>1. Len(s) > 3
    BY <1>2 DEF Reaching, Counted, Names
  <2>2. ASSUME s[1].n > 0
        PROVE  /\ Less(s) \in Seq(Tasks) \ {<<>>}
               /\ Reaching(Less(s))
    <3>1. PICK z : z = Less(s)
      OBVIOUS
    <3>3. z \in Seq(Tasks) \ {<<>>} /\ Len(z) = Len(s) /\ z[1].k = "count" /\ \A j \in 2 .. Len(s) : z[j] = s[j]
      BY <3>1, OneLess
    <3>4. Counted(z, 3, 0)
      <4>1. PICK p \in Position :
              \/ Names(s, 3, p) /\ 0 % Steps = Place(p)
              \/ Counts(s, 3) /\ Names(s, 4, p) /\ (0 + s[3].n) % Steps = Place(p)
              \/ Counts(s, 3) /\ Counts(s, 4) /\ Names(s, 5, p)
                 /\ (0 + (s[3].n + s[4].n)) % Steps = Place(p)
        BY <1>2 DEF Reaching, Counted
      <4>2. /\ Names(s, 3, p) => Names(z, 3, p)
            /\ Counts(s, 3) /\ Names(s, 4, p) => Counts(z, 3) /\ Names(z, 4, p) /\ z[3] = s[3]
            /\ Counts(s, 3) /\ Counts(s, 4) /\ Names(s, 5, p) =>
                 Counts(z, 3) /\ Counts(z, 4) /\ Names(z, 5, p) /\ z[3] = s[3] /\ z[4] = s[4]
        BY <3>3 DEF Names, Counts
      <4> QED  BY <4>1, <4>2 DEF Counted
    <3>6. Reaching(z)
      BY <1>2, <2>1, <3>3, <3>4 DEF Reaching
    <3> QED  BY <3>1, <3>3, <3>6
  <2>3. ASSUME s[1].n <= 0
        PROVE  Tail(s) \in Seq(Tasks) \ {<<>>} /\ Passing(Tail(s))
    <3>1. Counted(s, 2 + 1, 0)
      BY <1>2 DEF Reaching
    <3>2. /\ Tail(s) \in Seq(Tasks) \ {<<>>} /\ Len(Tail(s)) > 1 /\ Counted(Tail(s), 2, 0)
          /\ \A j \in 1 .. Len(s) - 1 : Tail(s)[j] = s[j + 1]
      BY <3>1, CountedTail
    <3>3. Tail(s)[1] = s[2] /\ Tail(s)[2] = s[3]
      BY <2>1, <3>2
    <3>4. Passing(Tail(s))
      BY <1>2, <3>2, <3>3 DEF Passing, Reaching
    <3> QED  BY <3>2, <3>4
  <2> QED  BY <1>1, <2>2, <2>3 DEF OnTheWay
<1>3. CASE Counted(s, 1, x)
  <2>1. PICK p \in Position :
          \/ Counts(s, 1) /\ Names(s, 2, p) /\ (x + s[1].n) % Steps = Place(p)
          \/ Counts(s, 1) /\ Counts(s, 2) /\ Names(s, 3, p)
             /\ (x + (s[1].n + s[2].n)) % Steps = Place(p)
    BY <1>3 DEF Counted, Names, Task
  <2>2. Len(s) \in {3, 4} /\ s[1].n \in Nat
    BY <2>1 DEF Names, Counts
  <2>3. ASSUME s[1].n > 0
        PROVE  /\ Less(s) \in Seq(Tasks) \ {<<>>}
               /\ Counted(Less(s), 1, (x + 1) % Steps)
    <3>1. PICK z : z = Less(s)
      OBVIOUS
    <3>2. /\ z \in Seq(Tasks) \ {<<>>} /\ Len(z) = Len(s) /\ z[1].k = s[1].k /\ z[1].n = s[1].n - 1
          /\ \A j \in 2 .. Len(s) : z[j] = s[j]
      BY <3>1, OneLess
    <3>3. z[1].k = "count"
      BY <3>2
    <3>4. PICK y : y = (x + 1) % Steps
      OBVIOUS
    <3>5. ASSUME NEW k \in Nat
          PROVE  y \in 0 .. Steps - 1 /\ (y + (s[1].n - 1 + k)) % Steps = (x + (s[1].n + k)) % Steps
      BY <2>2, <2>3, <3>4, CountedOneLess
    <3>6. Counted(z, 1, y)
      <4>1. CASE Counts(s, 1) /\ Names(s, 2, p) /\ (x + s[1].n) % Steps = Place(p)
        <5>1. Counts(z, 1) /\ Names(z, 2, p)
          BY <2>2, <2>3, <3>2, <3>3, <4>1 DEF Counts, Names
        <5>2. (y + (s[1].n - 1 + 0)) % Steps = (x + (s[1].n + 0)) % Steps
          BY <3>5
        <5>3. y + z[1].n = y + (s[1].n - 1 + 0) /\ x + (s[1].n + 0) = x + s[1].n
          BY <2>2, <3>2, <3>3, <3>5
        <5>4. (y + z[1].n) % Steps = Place(p)
          BY <4>1, <5>2, <5>3
        <5> QED  BY <5>1, <5>4 DEF Counted
      <4>2. CASE Counts(s, 1) /\ Counts(s, 2) /\ Names(s, 3, p)
                 /\ (x + (s[1].n + s[2].n)) % Steps = Place(p)
        <5>0. Len(s) = 4 /\ z[2] = s[2] /\ z[3] = s[3] /\ z[4] = s[4]
          <6>1. Len(s) = 4
            BY <4>2 DEF Names
          <6>2. 2 \in 2 .. Len(s) /\ 3 \in 2 .. Len(s) /\ 4 \in 2 .. Len(s)
            BY <6>1
          <6> QED  BY <3>2, <3>3, <6>1, <6>2
        <5>5. Counts(z, 1)
          BY <2>2, <2>3, <3>2, <3>3, <4>2 DEF Counts
        <5>6. Counts(z, 2) /\ s[2].n \in Nat
          BY <4>2, <5>0 DEF Counts
        <5>7. Names(z, 3, p)
          BY <3>2, <3>3, <4>2, <5>0 DEF Names
        <5>1. Counts(z, 1) /\ Counts(z, 2) /\ Names(z, 3, p) /\ z[2] = s[2] /\ s[2].n \in Nat
          BY <5>0, <5>5, <5>6, <5>7
        <5>2. (y + (s[1].n - 1 + s[2].n)) % Steps = (x + (s[1].n + s[2].n)) % Steps
          BY <3>5, <5>1
        <5>4. z[1].n + z[2].n = s[1].n - 1 + s[2].n
          BY <2>2, <3>2, <3>3, <5>1
        <5>3. (y + (z[1].n + z[2].n)) % Steps = Place(p)
          BY <4>2, <5>2, <5>4
        <5> QED  BY <5>1, <5>3 DEF Counted
      <4> QED  BY <2>1, <4>1, <4>2
    <3> QED  BY <3>1, <3>2, <3>3, <3>4, <3>6
  <2>4. ASSUME s[1].n <= 0
        PROVE  Tail(s) \in Seq(Tasks) \ {<<>>} /\ Counted(Tail(s), 1, x)
    <3>1. Counted(s, 1 + 1, x)
      <4>1. s[1].n = 0
        BY <2>2, <2>4
      <4>2. CASE Names(s, 2, p) /\ (x + s[1].n) % Steps = Place(p)
        <5>1. x % Steps = Place(p)
          BY <4>1, <4>2
        <5> QED  BY <4>2, <5>1 DEF Counted
      <4>3. CASE Counts(s, 2) /\ Names(s, 3, p) /\ (x + (s[1].n + s[2].n)) % Steps = Place(p)
        <5>1. (x + s[2].n) % Steps = Place(p)
          BY <4>1, <4>3 DEF Counts
        <5> QED  BY <4>3, <5>1 DEF Counted
      <4> QED  BY <2>1, <4>2, <4>3
    <3>2. Tail(s) \in Seq(Tasks) \ {<<>>} /\ Counted(Tail(s), 1, x)
      BY <3>1, CountedTail
    <3> QED  BY <3>2
  <2> QED  BY <1>1, <2>3, <2>4 DEF OnTheWay
<1> QED  BY <1>1, <1>2, <1>3

\* What is left after the first of two tasks or more.
LEMMA ShorterTail ==
  ASSUME NEW s \in Seq(Tasks), s # <<>>
  PROVE  /\ Tail(s) \in Seq(Tasks) /\ Len(Tail(s)) = Len(s) - 1 /\ Len(s) > 0
         /\ \A j \in 1 .. Len(s) - 1 : Tail(s)[j] = s[j + 1]
         /\ Len(s) = 1 <=> Tail(s) = <<>>
<1>1. Len(s) \in Nat \ {0}
  OBVIOUS
<1>2. Tail(s) \in Seq(Tasks) /\ Len(Tail(s)) = Len(s) - 1 /\ \A j \in 1 .. Len(s) - 1 : Tail(s)[j] = s[j + 1]
  BY <1>1
<1>3. PICK r \in Seq(Tasks) : r = Tail(s)
  BY <1>2
<1>4. Len(r) = 0 <=> r = <<>>
  OBVIOUS
<1> QED  BY <1>1, <1>2, <1>3, <1>4

\* The tasks of Fwheel_FilterSetPos.
LEMMA NamesOf ==
  ASSUME NEW p \in Int
  PROVE  /\ Fwheel_FilterSetPos(p) = <<Task("position", p), Task("filter", p)>>
         /\ Task("position", p) \in Tasks /\ Task("filter", p) \in Tasks
         /\ Task("position", p).k = "position" /\ Task("filter", p).k = "filter"
         /\ Task("filter", p).n = p
BY DEF Fwheel_FilterSetPos, SetPos, Task, Tasks

\* A step of Fwheel_SeekHome, at the switch or not.
LEMMA SeekOn ==
  ASSUME NEW s \in Seq(Tasks), s # <<>>, s[1].k = "seek",
         NEW x, NEW h \in Int, NEW pos \in Int, NEW l, OnTheWay(s, x, h, pos, l),
         NEW y \in 0 .. Steps - 1
  PROVE  /\ y = 0 => Tail(s) \in Seq(Tasks) \ {<<>>} /\ OnTheWay(Tail(s), y, h, pos, "up")
         /\ Less(s) \in Seq(Tasks) \ {<<>>} /\ OnTheWay(Less(s), y, h, pos, "up")
         /\ LET r == Fwheel_FilterSetPos(0) \o IF s[2].k = "home" THEN <<>> ELSE <<Task("home", 0)>> IN
            r \in Seq(Tasks) \ {<<>>} /\ OnTheWay(r, y, h, pos, "up")
<1>1. Homing(s, h) \/ Passing(s)
  <2>1. ~Naming(s, x, pos) /\ ~AtHome(s, x) /\ ~Reaching(s) /\ ~Losing(s) /\ ~Failed(s, h)
    BY DEF Naming, AtHome, Reaching, Losing, Failed, Task
  <2>2. ASSUME Counted(s, 1, x) PROVE FALSE
    <3>1. PICK p \in Position : Counts(s, 1) \/ Names(s, 1, p)
      BY <2>2 DEF Counted
    <3>2. Counts(s, 1) => s[1].k = "count"
      BY DEF Counts
    <3>3. Names(s, 1, p) => s[1].k = "position"
      BY DEF Names, Task
    <3> QED  BY <3>1, <3>2, <3>3
  <2> QED  BY <2>1, <2>2 DEF OnTheWay
<1>2. Len(s) > 2
  BY <1>1 DEF Homing, Passing, Counted, Names
<1>3. PICK z : z = Less(s)
  OBVIOUS
<1>4. /\ z \in Seq(Tasks) \ {<<>>} /\ Len(z) = Len(s) /\ z[1].k = s[1].k
      /\ \A j \in 2 .. Len(s) : z[j] = s[j]
  BY <1>3, OneLess
<1>5. ASSUME NEW i \in {2, 3}, Counted(s, i, 0) PROVE Counted(z, i, 0)
  <2>1. PICK p \in Position :
          \/ Names(s, i, p) /\ 0 % Steps = Place(p)
          \/ Counts(s, i) /\ Names(s, i + 1, p) /\ (0 + s[i].n) % Steps = Place(p)
          \/ Counts(s, i) /\ Counts(s, i + 1) /\ Names(s, i + 2, p)
             /\ (0 + (s[i].n + s[i + 1].n)) % Steps = Place(p)
    BY <1>5 DEF Counted
  <2>3. ASSUME NEW j \in 2 .. 5, Names(s, j, p)
        PROVE  Names(z, j, p) /\ Len(s) = j + 1
    <3>1. Len(s) = j + 1 /\ j \in 2 .. Len(s) /\ j + 1 \in 2 .. Len(s)
      BY <2>3 DEF Names
    <3>2. z[j] = s[j] /\ z[j + 1] = s[j + 1]
      BY <1>4, <3>1
    <3> QED  BY <1>4, <2>3, <3>1, <3>2 DEF Names
  <2>4. i \in 2 .. 5 /\ i + 1 \in 2 .. 5 /\ i + 2 \in 2 .. 5 /\ i \in Int
    BY <1>5
  <2>5. \A j \in 2 .. Len(s) : Counts(s, j) => Counts(z, j) /\ z[j] = s[j]
    BY <1>4, Zenon DEF Counts
  <2>6. /\ Names(s, i + 1, p) => i \in 2 .. Len(s)
        /\ Names(s, i + 2, p) => i \in 2 .. Len(s) /\ i + 1 \in 2 .. Len(s)
    <3>1. Names(s, i + 1, p) => Len(s) = (i + 1) + 1
      BY <2>3, <2>4, Zenon
    <3>2. Names(s, i + 2, p) => Len(s) = (i + 2) + 1
      BY <2>3, <2>4, Zenon
    <3> QED  BY <1>5, <3>1, <3>2
  <2>2. /\ Names(s, i, p) => Names(z, i, p)
        /\ Counts(s, i) /\ Names(s, i + 1, p) => Counts(z, i) /\ Names(z, i + 1, p) /\ z[i] = s[i]
        /\ Counts(s, i) /\ Counts(s, i + 1) /\ Names(s, i + 2, p) =>
             Counts(z, i) /\ Counts(z, i + 1) /\ Names(z, i + 2, p) /\ z[i] = s[i] /\ z[i + 1] = s[i + 1]
    BY <2>3, <2>4, <2>5, <2>6, Zenon
  <2> QED  BY <2>1, <2>2 DEF Counted
<1>6. OnTheWay(z, y, h, pos, "up")
  <2>1. Homing(s, h) => Homing(z, h)
    BY <1>2, <1>4, <1>5 DEF Homing
  <2>2. Passing(s) => Passing(z)
    BY <1>2, <1>4, <1>5 DEF Passing
  <2> QED  BY <1>1, <2>1, <2>2 DEF OnTheWay
<1>7. ASSUME y = 0 PROVE Tail(s) \in Seq(Tasks) \ {<<>>} /\ OnTheWay(Tail(s), y, h, pos, "up")
  <2>1. CASE Homing(s, h)
    <3>1. Counted(s, 2 + 1, y)
      BY <1>7, <2>1 DEF Homing
    <3>2. /\ Tail(s) \in Seq(Tasks) \ {<<>>} /\ Counted(Tail(s), 2, y)
          /\ \A j \in 1 .. Len(s) - 1 : Tail(s)[j] = s[j + 1]
      BY <3>1, CountedTail
    <3>3. Tail(s)[1] = s[2]
      BY <1>2, <3>2
    <3>4. AtHome(Tail(s), y)
      BY <2>1, <3>2, <3>3 DEF AtHome, Homing
    <3> QED  BY <3>2, <3>4 DEF OnTheWay
  <2>2. CASE Passing(s)
    <3>1. Counted(s, 1 + 1, y)
      BY <1>7, <2>2 DEF Passing
    <3>2. Tail(s) \in Seq(Tasks) \ {<<>>} /\ Counted(Tail(s), 1, y)
      BY <3>1, CountedTail
    <3> QED  BY <3>2 DEF OnTheWay
  <2> QED  BY <1>1, <2>1, <2>2
<1>8. LET r == Fwheel_FilterSetPos(0) \o IF s[2].k = "home" THEN <<>> ELSE <<Task("home", 0)>> IN
      r \in Seq(Tasks) \ {<<>>} /\ OnTheWay(r, y, h, pos, "up")
  <2>0. /\ Task("position", 0) \in Tasks /\ Task("position", 0).k = "position"
        /\ Task("filter", 0) \in Tasks /\ Task("filter", 0).k = "filter"
        /\ Task("home", 0) \in Tasks /\ Task("home", 0).k = "home"
    BY DEF Task, Tasks
  <2>1. PICK a \in Tasks, b \in Tasks, e \in Tasks :
          /\ a = Task("position", 0) /\ b = Task("filter", 0) /\ e = Task("home", 0)
          /\ a.k = "position" /\ b.k = "filter" /\ e.k = "home"
    BY <2>0
  <2>2. Fwheel_FilterSetPos(0) = <<a, b>>
    BY <2>1, NamesOf
  <2>3. CASE s[2].k = "home"
    <3>0. <<a, b>> \in Seq(Tasks) /\ Len(<<a, b>>) = 2 /\ <<a, b>>[1] = a /\ <<a, b>>[2] = b
      OBVIOUS
    <3>1. PICK r \in Seq(Tasks) : r = <<a, b>> /\ Len(r) = 2 /\ r[1] = a /\ r[2] = b
      BY <3>0
    <3>2. r = <<a, b>> \o <<>>
      BY <3>1
    <3>3. Homing(s, h)
      BY <1>1, <2>3 DEF Passing
    <3>4. Failed(r, h)
      BY <2>1, <3>1, <3>3 DEF Failed, Homing
    <3>5. r # <<>>
      BY <3>1
    <3> QED  BY <2>2, <2>3, <3>1, <3>2, <3>4, <3>5 DEF OnTheWay
  <2>4. CASE s[2].k # "home"
    <3>0. /\ <<a, b, e>> \in Seq(Tasks) /\ Len(<<a, b, e>>) = 3
          /\ <<a, b, e>>[1] = a /\ <<a, b, e>>[2] = b /\ <<a, b, e>>[3] = e
      OBVIOUS
    <3>1. PICK r \in Seq(Tasks) : r = <<a, b, e>> /\ Len(r) = 3 /\ r[1] = a /\ r[2] = b /\ r[3] = e
      BY <3>0
    <3>2. r = <<a, b>> \o <<e>>
      BY <3>1
    <3>3. Losing(r)
      BY <2>1, <3>1 DEF Losing
    <3>4. r # <<>>
      BY <3>1
    <3> QED  BY <2>1, <2>2, <2>4, <3>1, <3>2, <3>3, <3>4 DEF OnTheWay
  <2> QED  BY <2>3, <2>4
<1> QED  BY <1>3, <1>4, <1>6, <1>7, <1>8

\* Fwheel_Set.
LEMMA SetOn ==
  ASSUME NEW s \in Seq(Tasks), s # <<>>, s[1].k \in {"position", "filter", "home"},
         NEW x \in 0 .. Steps - 1, NEW h \in Int, NEW pos \in Int, NEW l, OnTheWay(s, x, h, pos, l)
  PROVE  LET k == s[1].k
             h2 == IF k = "home" THEN s[1].n ELSE h
             pos2 == IF k = "position" THEN s[1].n ELSE pos
         IN  /\ l = "up"
             /\ Tail(s) # <<>> => OnTheWay(Tail(s), x, h2, pos2, l)
             /\ Tail(s) = <<>> => h2 = 0 \/ (k = "filter" /\ s[1].n = pos /\ pos \in Position /\ x = Place(pos))
<1> DEFINE k == s[1].k
           h2 == IF k = "home" THEN s[1].n ELSE h
           pos2 == IF k = "position" THEN s[1].n ELSE pos
<1>1. l = "up" /\ (Naming(s, x, pos) \/ Counted(s, 1, x) \/ AtHome(s, x) \/ Losing(s) \/ Failed(s, h))
  BY DEF OnTheWay, Homing, Passing, Reaching
<1>2. /\ Tail(s) \in Seq(Tasks) /\ Len(Tail(s)) = Len(s) - 1 /\ Len(s) > 0
      /\ \A j \in 1 .. Len(s) - 1 : Tail(s)[j] = s[j + 1]
      /\ Len(s) = 1 <=> Tail(s) = <<>>
  BY ShorterTail
<1>3. CASE Naming(s, x, pos)
  BY <1>1, <1>2, <1>3 DEF Naming
<1>4. CASE Counted(s, 1, x)
  <2>1. PICK p \in Position : Names(s, 1, p) /\ x % Steps = Place(p)
    BY <1>4 DEF Counted, Counts
  <2>2. x = Place(p)
    <3>1. x % Steps = x
      BY WheelFacts, SmallRemainder
    <3> QED  BY <2>1, <3>1
  <2>3. p \in Int
    BY DEF Position
  <2>4. Len(s) = 2 /\ s[1] = Task("position", p) /\ s[2] = Task("filter", p)
    BY <2>1 DEF Names
  <2>5. Tail(s)[1] = s[2] /\ Len(Tail(s)) = 1
    BY <1>2, <2>4
  <2>6. k = "position" /\ pos2 = p
    BY <2>4 DEF Task
  <2>7. Naming(Tail(s), x, pos2)
    <3>1. s[2].k = "filter" /\ s[2].n = p
      BY <2>3, <2>4, NamesOf
    <3> QED  BY <2>2, <2>5, <2>6, <3>1 DEF Naming
  <2> QED  BY <1>1, <1>2, <2>4, <2>7 DEF OnTheWay
<1>5. CASE AtHome(s, x)
  <2>1. Counted(s, 1 + 1, x) /\ k = "home"
    BY <1>5 DEF AtHome, Task
  <2>2. Tail(s) \in Seq(Tasks) \ {<<>>} /\ Counted(Tail(s), 1, x)
    BY <2>1, CountedTail
  <2> QED  BY <1>1, <2>2 DEF OnTheWay
<1>6. CASE Losing(s)
  <2>1. CASE Len(s) = 1
    BY <1>1, <1>2, <1>6, <2>1 DEF Losing, Task
  <2>2. CASE Len(s) # 1
    <3>1. Losing(Tail(s))
      BY <1>2, <1>6, <2>2 DEF Losing
    <3> QED  BY <1>1, <1>2, <2>2, <3>1 DEF OnTheWay
  <2> QED  BY <2>1, <2>2
<1>7. CASE Failed(s, h)
  <2>1. h2 = 0
    BY <1>2, <1>7 DEF Failed
  <2>2. CASE Len(s) = 1
    BY <1>1, <1>2, <2>1, <2>2
  <2>3. CASE Len(s) # 1
    <3>1. Failed(Tail(s), h2)
      BY <1>2, <1>7, <2>1, <2>3 DEF Failed
    <3> QED  BY <1>1, <1>2, <2>3, <3>1 DEF OnTheWay
  <2> QED  BY <2>2, <2>3
<1> QED  BY <1>1, <1>3, <1>4, <1>5, <1>6, <1>7

\* The same, where what is left of the request and the two flags have names.
GoesOnFrom(s, x, h, pos, l, r, h2, pos2) ==
  /\ l = "up"
  /\ r # <<>> => OnTheWay(r, x, h2, pos2, l)
  /\ r = <<>> => h2 = 0 \/ (s[1].k = "filter" /\ s[1].n = pos /\ pos \in Position /\ x = Place(pos))

LEMMA SetOnNamed ==
  ASSUME NEW s \in Seq(Tasks), s # <<>>, s[1].k \in {"position", "filter", "home"},
         NEW x \in 0 .. Steps - 1, NEW h \in Int, NEW pos \in Int, NEW l, OnTheWay(s, x, h, pos, l),
         NEW r, r = Tail(s),
         NEW h2, s[1].k = "home" => h2 = s[1].n, s[1].k # "home" => h2 = h,
         NEW pos2, s[1].k = "position" => pos2 = s[1].n, s[1].k # "position" => pos2 = pos
  PROVE  GoesOnFrom(s, x, h, pos, l, r, h2, pos2)
BY SetOn DEF GoesOnFrom

\* First s, then t.
Both(s, t) == s \o t
Two(a, b)  == <<a, b>>
\* A task that some requests have and others have not.
Perhaps(m, n, a) == IF m < n THEN <<a>> ELSE <<>>

LEMMA PerhapsOne ==
  ASSUME NEW a \in Tasks, NEW m \in Int, NEW n \in Int
  PROVE  /\ Perhaps(m, n, a) \in Seq(Tasks)
         /\ m < n => Len(Perhaps(m, n, a)) = 1 /\ Perhaps(m, n, a)[1] = a
         /\ ~(m < n) => Len(Perhaps(m, n, a)) = 0
<1>1. <<a>> \in Seq(Tasks) /\ Len(<<a>>) = 1 /\ <<a>>[1] = a /\ <<>> \in Seq(Tasks) /\ Len(<<>>) = 0
  OBVIOUS
<1> QED  BY <1>1 DEF Perhaps

\* r is s, then t; r is s and two tasks more.
Follows(r, s, t) ==
  /\ r \in Seq(Tasks) /\ Len(r) = Len(s) + Len(t)
  /\ \A i \in 1 .. Len(s) : r[i] = s[i]
  /\ \A i \in 1 .. Len(t) : r[Len(s) + i] = t[i]
TwoMore(r, s, a, b) ==
  /\ r \in Seq(Tasks) /\ Len(r) = Len(s) + 2
  /\ \A i \in 1 .. Len(s) : r[i] = s[i]
  /\ r[Len(s) + 1] = a /\ r[Len(s) + 2] = b

LEMMA Joined ==
  ASSUME NEW s \in Seq(Tasks), NEW t \in Seq(Tasks)
  PROVE  Follows(Both(s, t), s, t)
BY ConcatProperties DEF Both, Follows

LEMMA JoinedTwo ==
  ASSUME NEW s \in Seq(Tasks), NEW a \in Tasks, NEW b \in Tasks
  PROVE  TwoMore(Both(s, Two(a, b)), s, a, b)
<1>1. PICK t \in Seq(Tasks) : t = Two(a, b) /\ Len(t) = 2 /\ t[1] = a /\ t[2] = b
  <2>1. Two(a, b) \in Seq(Tasks) /\ Len(Two(a, b)) = 2 /\ Two(a, b)[1] = a /\ Two(a, b)[2] = b
    BY DEF Two
  <2> QED  BY <2>1
<1>2. Follows(Both(s, t), s, t)
  BY Joined
<1>3. PICK r : r = Both(s, t)
  OBVIOUS
<1>4. TwoMore(r, s, a, b)
  <2>1. Follows(r, s, t)
    BY <1>2, <1>3
  <2> QED  BY <1>1, <2>1 DEF Follows, TwoMore
<1> QED  BY <1>1, <1>3, <1>4

\* The tasks a request is made of.
LEMMA TaskFacts ==
  ASSUME NEW n \in Int
  PROVE  /\ Count(n) \in Tasks /\ Count(n).k = "count" /\ Count(n).n = n
         /\ Seek(n) \in Tasks /\ Seek(n).k = "seek"
         /\ Task("home", n) \in Tasks
BY DEF Count, Seek, Task, Tasks

\* Homing by a thread that nobody disturbs.
LEMMA HomeStarts ==
  ASSUME NEW x, NEW pos, NEW l
  PROVE  Fwheel_Home \in Seq(Tasks) \ {<<>>} /\ OnTheWay(Fwheel_Home, x, 0, pos, l)
<1>0. Offset \in Int /\ Offset \in Nat /\ MaxHome \in Int /\ 1 \in Position /\ 1 \in Int
  BY WheelFacts DEF Position
<1>1. PICK a \in Tasks, b \in Tasks, c \in Tasks, d \in Tasks, e \in Tasks :
        /\ a = Seek(MaxHome) /\ b = Task("home", 1) /\ c = Count(Offset)
        /\ d = Task("position", 1) /\ e = Task("filter", 1)
        /\ a.k = "seek" /\ c.k = "count" /\ c.n = Offset
  BY <1>0, TaskFacts, NamesOf
<1>2. Fwheel_Home = Both(<<a, b, c>>, Two(d, e))
  BY <1>0, <1>1, NamesOf DEF Fwheel_Home, Both, Two
<1>3. PICK q \in Seq(Tasks) : q = <<a, b, c>> /\ Len(q) = 3 /\ q[1] = a /\ q[2] = b /\ q[3] = c
  <2>1. <<a, b, c>> \in Seq(Tasks)
    OBVIOUS
  <2> QED  BY <2>1
<1>4. PICK s \in Seq(Tasks) :
        s = Fwheel_Home /\ Len(s) = 5 /\ s[1] = a /\ s[2] = b /\ s[3] = c /\ s[4] = d /\ s[5] = e
  <2>1. PICK s : s = Fwheel_Home /\ s = Both(q, Two(d, e))
    BY <1>2, <1>3
  <2>2. TwoMore(s, q, d, e)
    BY <2>1, JoinedTwo
  <2> QED  BY <1>3, <2>1, <2>2 DEF TwoMore
<1>5. s # <<>>
  BY <1>4
<1>6. (0 + s[3].n) % Steps = Place(1)
  <2>1. 0 + Offset = Offset + (1 - 1) * StepSize
    BY WheelFacts
  <2> QED  BY <1>1, <1>4, <2>1 DEF Place
<1>7. Counted(s, 3, 0)
  <2>1. Counts(s, 3) /\ Names(s, 3 + 1, 1)
    BY <1>0, <1>1, <1>4 DEF Counts, Names
  <2> QED  BY <1>0, <1>6, <2>1 DEF Counted
<1>8. Homing(s, 0)
  BY <1>1, <1>4, <1>7 DEF Homing
<1> QED  BY <1>4, <1>5, <1>8 DEF OnTheWay

\* A move from one filter to another, over the switch or not.
LEMMA MoveStarts ==
  ASSUME NEW new \in Int, NEW cur \in Position, NEW x \in 0 .. Steps - 1, x = Place(cur),
         NEW h, NEW pos, Fwheel_MoveAbsolute(new, cur) # <<>>
  PROVE  /\ Fwheel_MoveAbsolute(new, cur) \in Seq(Tasks)
         /\ OnTheWay(Fwheel_MoveAbsolute(new, cur), x, h, pos, "up")
<1>0. NFilters \in Nat \ {0} /\ StepSize \in Nat \ {0} /\ Offset \in Nat /\ cur \in Nat /\ cur >= 1
  BY WheelFacts DEF Position
<1>1. PICK goal \in Int : goal = Wrapped(new, cur) /\ goal >= cur
  <2>1. PICK k \in Int, N \in Nat \ {0} : k = new - cur /\ N = NFilters
    BY <1>0
  <2>2. k % N \in 0 .. N - 1
    OBVIOUS
  <2>3. PICK g \in Nat : g = k % N
    BY <2>2
  <2>4. Wrapped(new, cur) = cur + g
    BY <2>1, <2>3 DEF Wrapped
  <2> QED  BY <1>0, <2>3, <2>4
<1>2. goal # cur
  BY <1>1 DEF Fwheel_MoveAbsolute
<1>3. CASE goal <= NFilters
  <2>0. goal \in Position /\ goal \in Int
    BY <1>0, <1>1 DEF Position
  <2>1. PICK n \in Nat : n = (goal - cur) * StepSize
    <3>1. PICK j \in Nat : j = goal - cur
      BY <1>0, <1>1
    <3>2. j * StepSize \in Nat
      BY <1>0
    <3> QED  BY <3>1, <3>2
  <2>2. PICK a \in Tasks, d \in Tasks, e \in Tasks :
          /\ a = Count(n) /\ d = Task("position", goal) /\ e = Task("filter", goal)
          /\ a.k = "count" /\ a.n = n
    BY <2>0, TaskFacts, NamesOf
  <2>3. Fwheel_MoveAbsolute(new, cur) = Both(<<a>>, Two(d, e))
    <3>1. Fwheel_FilterSetPos(goal) = Two(d, e)
      BY <2>0, <2>2, NamesOf DEF Two
    <3>2. Fwheel_MoveAbsolute(new, cur) = Both(<<Count((goal - cur) * StepSize)>>, Fwheel_FilterSetPos(goal))
      BY <1>1, <1>2, <1>3 DEF Fwheel_MoveAbsolute, Both
    <3> QED  BY <2>1, <2>2, <3>1, <3>2
  <2>4. PICK q \in Seq(Tasks) : q = <<a>> /\ Len(q) = 1 /\ q[1] = a
    <3>1. <<a>> \in Seq(Tasks) /\ Len(<<a>>) = 1 /\ <<a>>[1] = a
      OBVIOUS
    <3> QED  BY <3>1
  <2>5. PICK s \in Seq(Tasks) :
          s = Fwheel_MoveAbsolute(new, cur) /\ Len(s) = 3 /\ s[1] = a /\ s[2] = d /\ s[3] = e
    <3>1. PICK s : s = Fwheel_MoveAbsolute(new, cur) /\ s = Both(q, Two(d, e))
      BY <2>3, <2>4
    <3>2. TwoMore(s, q, d, e)
      BY <3>1, JoinedTwo
    <3> QED  BY <2>4, <3>1, <3>2 DEF TwoMore
  <2>6. (x + s[1].n) % Steps = Place(goal)
    <3>1. PICK m \in Nat : m = Offset + (cur - 1) * StepSize
      BY WheelFacts
    <3>2. ((m % Steps) + n) % Steps = (m + n) % Steps
      BY CountOnFrom, WheelFacts
    <3>3. m + n = Offset + (goal - 1) * StepSize
      <4>1. (cur - 1) * StepSize + (goal - cur) * StepSize = (goal - 1) * StepSize
        BY <1>0
      <4>2. (cur - 1) * StepSize \in Int /\ (goal - cur) * StepSize \in Int /\ (goal - 1) * StepSize \in Int
        BY <1>0
      <4> QED  BY <1>0, <2>1, <3>1, <4>1, <4>2
    <3> QED  BY <2>2, <2>5, <3>1, <3>2, <3>3 DEF Place
  <2>7. Counted(s, 1, x)
    <3>1. Counts(s, 1) /\ Names(s, 1 + 1, goal)
      BY <2>2, <2>5 DEF Counts, Names
    <3> QED  BY <2>0, <2>6, <3>1 DEF Counted
  <2> QED  BY <2>5, <2>7 DEF OnTheWay
<1>4. CASE ~(goal <= NFilters)
  <2>0. PICK last \in Position : last = goal - NFilters /\ last \in Int /\ last - 1 \in Nat
    BY <1>0, <1>1, <1>4 DEF Position
  <2>1. PICK n \in Nat, m \in Int : n = (last - 1) * StepSize /\ m = (NFilters - cur) * StepSize
    <3>1. (last - 1) * StepSize \in Nat /\ (NFilters - cur) * StepSize \in Int
      BY <1>0, <2>0
    <3> QED  BY <3>1
  <2>2. PICK a \in Tasks, b \in Tasks, c \in Tasks, f \in Tasks, d \in Tasks, e \in Tasks :
          /\ a = Count(m) /\ b = Seek(StepSize) /\ c = Count(Offset) /\ f = Count(n)
          /\ d = Task("position", last) /\ e = Task("filter", last)
          /\ a.k = "count" /\ b.k = "seek" /\ c.k = "count" /\ c.n = Offset /\ f.k = "count" /\ f.n = n
    <3>1. StepSize \in Int /\ Offset \in Int /\ n \in Int
      BY <1>0
    <3> QED  BY <2>0, <3>1, TaskFacts, NamesOf
  <2>3. Fwheel_MoveAbsolute(new, cur) =
          Both(Both(Both(Perhaps(cur, NFilters, a), Two(b, c)), Perhaps(1, last, f)), Two(d, e))
    <3>1. Fwheel_FilterSetPos(last) = Two(d, e)
      BY <2>0, <2>2, NamesOf DEF Two
    <3>2. Fwheel_MoveAbsolute(new, cur) =
            Both(Both(Both(Perhaps(cur, NFilters, Count((NFilters - cur) * StepSize)),
                           Two(Seek(StepSize), Count(Offset))),
                      Perhaps(1, last, Count((last - 1) * StepSize))),
                 Fwheel_FilterSetPos(last))
      BY <1>1, <1>2, <1>4, <2>0 DEF Fwheel_MoveAbsolute, Both, Two, Perhaps
    <3> QED  BY <2>1, <2>2, <3>1, <3>2
  <2>4. (0 + (Offset + n)) % Steps = Place(last)
    BY <1>0, <2>1 DEF Place
  <2>5. last = 1 => (0 + Offset) % Steps = Place(last)
    BY <1>0, <2>1, <2>4
\* The last of the moves, as it stands in the request.
  <2>6. ASSUME NEW s \in Seq(Tasks), NEW i \in {2, 3}, s[i] = c,
               \/ last = 1 /\ Len(s) = i + 2 /\ s[i + 1] = d /\ s[i + 2] = e
               \/ Len(s) = i + 3 /\ s[i + 1] = f /\ s[i + 2] = d /\ s[i + 3] = e
        PROVE  Counted(s, i, 0)
    <3>0. Counts(s, i)
      BY <1>0, <2>2, <2>6 DEF Counts
    <3>1. CASE last = 1 /\ Len(s) = i + 2 /\ s[i + 1] = d /\ s[i + 2] = e
      <4>1. Names(s, i + 1, last) /\ (0 + s[i].n) % Steps = Place(last)
        BY <2>2, <2>5, <2>6, <3>1 DEF Names
      <4> QED  BY <3>0, <4>1 DEF Counted
    <3>2. CASE Len(s) = i + 3 /\ s[i + 1] = f /\ s[i + 2] = d /\ s[i + 3] = e
      <4>1. Names(s, i + 2, last) /\ Counts(s, i + 1)
        BY <2>2, <3>2 DEF Names, Counts
      <4>2. (0 + (s[i].n + s[i + 1].n)) % Steps = Place(last)
        BY <2>2, <2>4, <2>6, <3>2
      <4> QED  BY <3>0, <4>1, <4>2 DEF Counted
    <3> QED  BY <2>6, <3>1, <3>2
  <2>7. PICK o \in Seq(Tasks) :
          /\ o = Perhaps(cur, NFilters, a)
          /\ Len(o) = 0 \/ (Len(o) = 1 /\ o[1] = a)
    BY <1>0, PerhapsOne
  <2>8. PICK q \in Seq(Tasks) :
          /\ q = Perhaps(1, last, f)
          /\ (last = 1 /\ Len(q) = 0) \/ (Len(q) = 1 /\ q[1] = f)
    <3>1. 1 \in Int /\ (~(1 < last) => last = 1)
      BY <2>0
    <3> QED  BY <2>0, <3>1, PerhapsOne
  <2>9. PICK u : u = Both(o, Two(b, c))
    OBVIOUS
  <2>10. PICK v : v = Both(u, q)
    OBVIOUS
  <2>11. PICK s : s = Both(v, Two(d, e))
    OBVIOUS
  <2>18. /\ u \in Seq(Tasks) /\ Len(u) = Len(o) + 2
         /\ \A k \in 1 .. Len(o) : u[k] = o[k]
         /\ u[Len(o) + 1] = b /\ u[Len(o) + 2] = c
    <3>1. TwoMore(u, o, b, c)
      BY <2>9, JoinedTwo
    <3> QED  BY <3>1 DEF TwoMore
  <2>19. /\ v \in Seq(Tasks) /\ Len(v) = Len(u) + Len(q)
         /\ \A k \in 1 .. Len(u) : v[k] = u[k]
         /\ \A k \in 1 .. Len(q) : v[Len(u) + k] = q[k]
    <3>1. Follows(v, u, q)
      BY <2>10, <2>18, Joined
    <3> QED  BY <3>1 DEF Follows
  <2>20. /\ s \in Seq(Tasks) /\ Len(s) = Len(v) + 2
         /\ \A k \in 1 .. Len(v) : s[k] = v[k]
         /\ s[Len(v) + 1] = d /\ s[Len(v) + 2] = e
    <3>1. TwoMore(s, v, d, e)
      BY <2>11, <2>19, JoinedTwo
    <3> QED  BY <3>1 DEF TwoMore
  <2>12. s = Fwheel_MoveAbsolute(new, cur)
    <3>1. s = Both(Both(Both(o, Two(b, c)), q), Two(d, e))
      BY <2>9, <2>10, <2>11
    <3>2. o = Perhaps(cur, NFilters, a)
      BY <2>7
    <3>3. q = Perhaps(1, last, f)
      BY <2>8
    <3> QED  BY <2>3, <3>1, <3>2, <3>3, Zenon
  <2>13. PICK i \in {2, 3} : i = Len(o) + 2
    <3>1. Len(o) = 0 \/ Len(o) = 1
      BY <2>7, Zenon
    <3> QED  BY <3>1
  <2>14. s[i] = c /\ s[i - 1] = b /\ (i = 3 => s[1] = a)
    <3>1. Len(u) = i /\ i \in 1 .. Len(v) /\ i - 1 \in 1 .. Len(v) /\ 1 \in 1 .. Len(v)
      BY <2>8, <2>13, <2>18, <2>19
    <3>2. u[i] = c /\ u[i - 1] = b
      BY <2>13, <2>18
    <3>3. i = 3 => u[1] = a
      BY <2>7, <2>13, <2>18
    <3>4. v[i] = u[i] /\ v[i - 1] = u[i - 1] /\ v[1] = u[1]
      <4>1. i \in 1 .. Len(u) /\ i - 1 \in 1 .. Len(u) /\ 1 \in 1 .. Len(u)
        BY <3>1
      <4>2. \A k \in 1 .. Len(u) : v[k] = u[k]
        BY <2>19
      <4> QED  BY <4>1, <4>2, Zenon
    <3>5. s[i] = v[i] /\ s[i - 1] = v[i - 1] /\ s[1] = v[1]
      <4>1. \A k \in 1 .. Len(v) : s[k] = v[k]
        BY <2>20
      <4> QED  BY <3>1, <4>1, Zenon
    <3> QED  BY <3>2, <3>3, <3>4, <3>5
  <2>15. \/ last = 1 /\ Len(s) = i + 2 /\ s[i + 1] = d /\ s[i + 2] = e
         \/ Len(s) = i + 3 /\ s[i + 1] = f /\ s[i + 2] = d /\ s[i + 3] = e
    <3>1. CASE last = 1 /\ Len(q) = 0
      <4>1. Len(v) = i /\ Len(s) = i + 2
        BY <2>13, <2>18, <2>19, <2>20, <3>1
      <4> QED  BY <2>20, <3>1, <4>1
    <3>2. CASE Len(q) = 1 /\ q[1] = f
      <4>1. Len(u) = i /\ Len(v) = i + 1 /\ Len(s) = i + 3
        BY <2>13, <2>18, <2>19, <2>20, <3>2
      <4>2. v[i + 1] = f
        BY <2>19, <3>2, <4>1
      <4>3. s[i + 1] = v[i + 1]
        BY <2>13, <2>20, <4>1
      <4>4. s[(i + 1) + 1] = d /\ s[(i + 1) + 2] = e
        BY <2>20, <4>1
      <4>5. (i + 1) + 1 = i + 2 /\ (i + 1) + 2 = i + 3
        BY <2>13
      <4> QED  BY <4>1, <4>2, <4>3, <4>4, <4>5
    <3> QED  BY <2>8, <3>1, <3>2
  <2>16. Counted(s, i, 0)
    BY <2>6, <2>14, <2>15, <2>20
  <2>17. Passing(s) \/ Reaching(s)
    BY <2>2, <2>13, <2>14, <2>16 DEF Passing, Reaching
  <2> QED  BY <2>12, <2>17, <2>20 DEF OnTheWay
<1> QED  BY <1>3, <1>4

\* A request of a wheel that need not stand at a filter.
LEMMA MoveTyped ==
  ASSUME NEW new \in Int, NEW cur \in Int
  PROVE  Fwheel_MoveAbsolute(new, cur) \in Seq(Tasks)
<1>0. NFilters \in Nat \ {0} /\ StepSize \in Nat \ {0} /\ Offset \in Int
  BY WheelFacts
<1>1. PICK goal \in Int : goal = Wrapped(new, cur)
  <2>1. PICK k \in Int, N \in Nat \ {0} : k = new - cur /\ N = NFilters
    BY <1>0
  <2>2. k % N \in 0 .. N - 1
    OBVIOUS
  <2>3. PICK g \in Nat : g = k % N
    BY <2>2
  <2>4. Wrapped(new, cur) = cur + g
    BY <2>1, <2>3 DEF Wrapped
  <2> QED  BY <2>3, <2>4
<1>2. CASE goal = cur
  <2>1. <<>> \in Seq(Tasks)
    OBVIOUS
  <2> QED  BY <1>1, <1>2, <2>1 DEF Fwheel_MoveAbsolute
<1>3. CASE goal # cur /\ goal <= NFilters
  <2>1. PICK n \in Int : n = (goal - cur) * StepSize
    <3>1. (goal - cur) * StepSize \in Int
      BY <1>0
    <3> QED  BY <3>1
  <2>2. PICK a \in Tasks, d \in Tasks, e \in Tasks :
          a = Count(n) /\ d = Task("position", goal) /\ e = Task("filter", goal)
    BY TaskFacts, NamesOf
  <2>3. PICK q \in Seq(Tasks) : q = <<a>>
    <3>1. <<a>> \in Seq(Tasks)
      OBVIOUS
    <3> QED  BY <3>1
  <2>4. Fwheel_MoveAbsolute(new, cur) = Both(q, Two(d, e))
    <3>1. Fwheel_FilterSetPos(goal) = Two(d, e)
      BY <2>2, NamesOf DEF Two
    <3>2. Fwheel_MoveAbsolute(new, cur) = Both(<<Count((goal - cur) * StepSize)>>, Fwheel_FilterSetPos(goal))
      BY <1>1, <1>3 DEF Fwheel_MoveAbsolute, Both
    <3> QED  BY <2>1, <2>2, <2>3, <3>1, <3>2
  <2>5. TwoMore(Both(q, Two(d, e)), q, d, e)
    BY JoinedTwo
  <2> QED  BY <2>4, <2>5 DEF TwoMore
<1>4. CASE goal # cur /\ ~(goal <= NFilters)
  <2>0. PICK last \in Int : last = goal - NFilters
    BY <1>0
  <2>1. PICK n \in Int, m \in Int : n = (last - 1) * StepSize /\ m = (NFilters - cur) * StepSize
    <3>1. (last - 1) * StepSize \in Int /\ (NFilters - cur) * StepSize \in Int
      BY <1>0
    <3> QED  BY <3>1
  <2>2. PICK a \in Tasks, b \in Tasks, c \in Tasks, f \in Tasks, d \in Tasks, e \in Tasks :
          /\ a = Count(m) /\ b = Seek(StepSize) /\ c = Count(Offset) /\ f = Count(n)
          /\ d = Task("position", last) /\ e = Task("filter", last)
    <3>1. StepSize \in Int
      BY <1>0
    <3> QED  BY <1>0, <3>1, TaskFacts, NamesOf
  <2>3. Fwheel_MoveAbsolute(new, cur) =
          Both(Both(Both(Perhaps(cur, NFilters, a), Two(b, c)), Perhaps(1, last, f)), Two(d, e))
    <3>1. Fwheel_FilterSetPos(last) = Two(d, e)
      BY <2>2, NamesOf DEF Two
    <3>2. Fwheel_MoveAbsolute(new, cur) =
            Both(Both(Both(Perhaps(cur, NFilters, Count((NFilters - cur) * StepSize)),
                           Two(Seek(StepSize), Count(Offset))),
                      Perhaps(1, last, Count((last - 1) * StepSize))),
                 Fwheel_FilterSetPos(last))
      BY <1>1, <1>4, <2>0 DEF Fwheel_MoveAbsolute, Both, Two, Perhaps
    <3> QED  BY <2>1, <2>2, <3>1, <3>2
  <2>4. PICK o \in Seq(Tasks) : o = Perhaps(cur, NFilters, a)
    BY <1>0, PerhapsOne
  <2>5. PICK q \in Seq(Tasks) : q = Perhaps(1, last, f)
    BY PerhapsOne
  <2>6. PICK u \in Seq(Tasks) : u = Both(o, Two(b, c))
    <3>1. TwoMore(Both(o, Two(b, c)), o, b, c)
      BY JoinedTwo
    <3> QED  BY <3>1 DEF TwoMore
  <2>7. PICK v \in Seq(Tasks) : v = Both(u, q)
    <3>1. Follows(Both(u, q), u, q)
      BY Joined
    <3> QED  BY <3>1 DEF Follows
  <2>8. TwoMore(Both(v, Two(d, e)), v, d, e)
    BY JoinedTwo
  <2>9. Fwheel_MoveAbsolute(new, cur) = Both(v, Two(d, e))
    BY <2>3, <2>4, <2>5, <2>6, <2>7, Zenon
  <2> QED  BY <2>8, <2>9 DEF TwoMore
<1> QED  BY <1>2, <1>3, <1>4

\* What is left of a search that has found nothing.
LEMMA LostTyped ==
  ASSUME NEW s
  PROVE  (Fwheel_FilterSetPos(0) \o IF s[2].k = "home" THEN <<>> ELSE <<Task("home", 0)>>) \in Seq(Tasks)
<1>1. PICK a \in Tasks, b \in Tasks, e \in Tasks :
        a = Task("position", 0) /\ b = Task("filter", 0) /\ e = Task("home", 0)
  BY TaskFacts, NamesOf
<1>2. PICK q \in Seq(Tasks) : q = Fwheel_FilterSetPos(0)
  <2>1. <<a, b>> \in Seq(Tasks)
    OBVIOUS
  <2>2. Fwheel_FilterSetPos(0) = <<a, b>>
    BY <1>1, NamesOf
  <2> QED  BY <2>1, <2>2
<1>3. PICK r \in Seq(Tasks) : r = IF s[2].k = "home" THEN <<>> ELSE <<e>>
  <2>1. <<>> \in Seq(Tasks) /\ <<e>> \in Seq(Tasks)
    OBVIOUS
  <2> QED  BY <2>1
<1>4. q \o r \in Seq(Tasks)
  OBVIOUS
<1> QED  BY <1>1, <1>2, <1>3, <1>4

LEMMA InitWheel == Fwheel_Init => WheelInv
<1> SUFFICES ASSUME Fwheel_Init PROVE WheelInv
  OBVIOUS
<1>1. <<>> \in Seq(Tasks)
  OBVIOUS
<1>2. job \in [Movers -> Seq(Tasks)]
  BY <1>1 DEF Fwheel_Init
<1>3. at \in 0 .. Steps - 1 /\ ~clean /\ clean \in BOOLEAN
  BY DEF Fwheel_Init
<1>4. flags \in [home : Int, moving : Int, position : Int, filter : Int]
  BY DEF Fwheel_Init
<1> QED  BY <1>2, <1>3, <1>4 DEF WheelInv, WheelTyped

\* What is shown of a wheel at rest.
Shown == flags.home = 1 => /\ link = "up" /\ flags.position \in Position
                           /\ at = Place(flags.position) /\ flags.filter = flags.position

\* One thread goes on with r; when the others are idle, it is on its way still.
LEMMA GoesOn ==
  ASSUME WheelTyped, WheelTyped', NEW t \in Movers, NEW r \in Seq(Tasks), job' = [job EXCEPT ![t] = r],
         clean' => Alone(t),
         clean' /\ r # <<>> => OnTheWay(r, at', flags'.home, flags'.position, link'),
         clean' /\ r = <<>> => Shown'
  PROVE  WheelInv'
<1> SUFFICES ASSUME clean' PROVE CleanMoves'
  BY DEF WheelInv
<1>1. job \in [Movers -> Seq(Tasks)]
  BY DEF WheelTyped
<1>2. job'[t] = r /\ \A u \in Movers \ {t} : job'[u] = <<>>
  BY <1>1 DEF Alone, Idle
<1>3. \A u \in Movers : ~Idle(u)' => u = t /\ r # <<>>
  BY <1>2 DEF Idle
<1>4. \A u \in Movers : ~Idle(u)' => OnTheWay(job'[u], at', flags'.home, flags'.position, link')
  BY <1>2, <1>3
<1>5. AllIdle' => Shown'
  BY <1>2 DEF AllIdle, Idle
<1> QED  BY <1>3, <1>4, <1>5 DEF CleanMoves, Shown

LEMMA StepWheel == WheelInv /\ [Fwheel_Next]_fvars => WheelInv'
<1> SUFFICES ASSUME WheelInv, [Fwheel_Next]_fvars PROVE WheelInv'
  OBVIOUS
<1>1. /\ at \in 0 .. Steps - 1 /\ clean \in BOOLEAN
      /\ flags \in [home : Int, moving : Int, position : Int, filter : Int]
      /\ job \in [Movers -> Seq(Tasks)]
  BY DEF WheelInv, WheelTyped
<1>2. clean => /\ \A t, u \in Movers : ~Idle(t) /\ ~Idle(u) => t = u
               /\ \A t \in Movers : ~Idle(t) => OnTheWay(job[t], at, flags.home, flags.position, link)
               /\ AllIdle => Shown
  BY DEF WheelInv, CleanMoves, Shown
\* The place where a step may bring the wheel.
<1>3. Fwheel_Step(at) \in 0 .. Steps - 1 /\ (Alive => Fwheel_Step(at) = (at + 1) % Steps)
  <2>1. PICK m \in Nat, N \in Nat \ {0} : m = at + 1 /\ N = Steps
    BY <1>1, WheelFacts
  <2>2. m % N \in 0 .. N - 1
    BY Division
  <2> QED  BY <1>1, <2>1, <2>2 DEF Fwheel_Step
<1>4. ASSUME NEW t \in Movers, ~Idle(t), clean PROVE Alone(t)
  BY <1>2, <1>4 DEF Alone
<1>5. CASE UNCHANGED fvars
  <2>1. WheelTyped'
    BY <1>1, <1>5 DEF fvars, WheelTyped
  <2>2. clean' => CleanMoves'
    BY <1>2, <1>5 DEF fvars, CleanMoves, Shown, Idle, AllIdle
  <2> QED  BY <2>1, <2>2 DEF WheelInv
<1>6. ASSUME NEW t \in Movers, Process_Home(t) PROVE WheelInv'
  <2>2. PICK r0 \in Seq(Tasks) : r0 = Fwheel_Home /\ r0 # <<>> /\ OnTheWay(r0, at, 0, 0, link)
    BY HomeStarts
  <2>3. job' = [job EXCEPT ![t] = r0] /\ clean' = Alone(t) /\ at' = at /\ link' = link
    BY <1>6, <2>2 DEF Process_Home, Started
  <2>4. /\ flags' \in [home : Int, moving : Int, position : Int, filter : Int]
        /\ flags'.home = 0 /\ flags'.position = 0
    <3>1. flags' = [flags EXCEPT !.home = 0, !.moving = 0, !.position = 0]
      BY <1>6 DEF Process_Home
    <3>2. PICK g \in [home : Int, moving : Int, position : Int, filter : Int] : g = flags
      BY <1>1
    <3>3. PICK f : f = [g EXCEPT !.home = 0, !.moving = 0, !.position = 0]
      OBVIOUS
    <3>4. f = [home |-> 0, moving |-> 0, position |-> 0, filter |-> g.filter]
      BY <3>3
    <3> QED  BY <3>1, <3>2, <3>3, <3>4
  <2>5. WheelTyped'
    <3>1. clean' \in BOOLEAN
      BY <2>3 DEF Alone
    <3>2. job' \in [Movers -> Seq(Tasks)]
      BY <1>1, <2>3
    <3> QED  BY <1>1, <2>3, <2>4, <3>1, <3>2 DEF WheelTyped
  <2>6. WheelTyped
    BY DEF WheelInv
  <2> QED  BY <2>2, <2>3, <2>4, <2>5, <2>6, GoesOn
<1>7. ASSUME NEW t \in Movers, Process_Move(t) PROVE WheelInv'
  <2>1. PICK new \in Int : job' = [job EXCEPT ![t] = Fwheel_MoveAbsolute(new, flags.position)]
    <3>1. PICK n \in Asks, relative \in BOOLEAN :
            Started(t, Fwheel_MoveAbsolute(IF relative THEN flags.position - n ELSE n, flags.position))
      BY <1>7 DEF Process_Move
    <3>2. n \in Int /\ flags.position - n \in Int
      BY <1>1, FwheelAssumption
    <3> QED  BY <3>1, <3>2 DEF Started
  <2>2. PICK r \in Seq(Tasks) : r = Fwheel_MoveAbsolute(new, flags.position)
    <3>1. flags.position \in Int
      BY <1>1
    <3> QED  BY <3>1, MoveTyped
  <2>3. /\ job' = [job EXCEPT ![t] = r] /\ at' = at /\ link' = link /\ flags' = flags
        /\ clean' = (clean /\ Alone(t)) /\ Idle(t) /\ flags.home = 1
    BY <1>7, <2>1, <2>2 DEF Process_Move
  <2>4. WheelTyped'
    <3>1. clean' \in BOOLEAN
      BY <2>3
    <3>2. job' \in [Movers -> Seq(Tasks)]
      BY <1>1, <2>3
    <3> QED  BY <1>1, <2>3, <3>1, <3>2 DEF WheelTyped
  <2>5. clean' => Alone(t) /\ Shown /\ Shown'
    <3>1. clean' => clean /\ Alone(t) /\ AllIdle
      BY <2>3 DEF Alone, AllIdle
    <3>2. clean' => Shown
      BY <1>2, <3>1
    <3> QED  BY <2>3, <3>1, <3>2 DEF Shown
  <2>6. clean' /\ r # <<>> => OnTheWay(r, at, flags.home, flags.position, link)
    <3>1. SUFFICES ASSUME clean', r # <<>> PROVE OnTheWay(r, at, flags.home, flags.position, link)
      OBVIOUS
    <3>2. flags.position \in Position /\ at = Place(flags.position) /\ link = "up"
      BY <2>3, <2>5, <3>1 DEF Shown
    <3> QED  BY <1>1, <2>2, <3>1, <3>2, MoveStarts
  <2>7. WheelTyped
    BY DEF WheelInv
  <2> QED  BY <2>3, <2>4, <2>5, <2>6, <2>7, GoesOn
<1>8. ASSUME NEW t \in Movers, Process_Third(t) PROVE WheelInv'
  <2>1. PICK r \in Seq(Tasks) : r = Fwheel_MoveThird
    <3>1. StepSize \div 3 \in Int
      BY WheelFacts
    <3>2. PICK a \in Tasks : a = Count(StepSize \div 3)
      BY <3>1, TaskFacts
    <3>3. <<a>> \in Seq(Tasks)
      OBVIOUS
    <3> QED  BY <3>2, <3>3 DEF Fwheel_MoveThird
  <2>2. /\ job' = [job EXCEPT ![t] = r] /\ at' = at /\ flags' = flags /\ clean' = FALSE
    BY <1>8, <2>1 DEF Process_Third, Started
  <2>3. job' \in [Movers -> Seq(Tasks)]
    BY <1>1, <2>2
  <2> QED  BY <1>1, <2>2, <2>3 DEF WheelInv, WheelTyped
<1>9. ASSUME NEW t \in Movers, Fwheel_MoveCount(t) PROVE WheelInv'
  <2>1. PICK s \in Seq(Tasks) : s = job[t] /\ s # <<>> /\ s[1].k = "count"
    BY <1>1, <1>9 DEF Fwheel_MoveCount, Idle, First
  <2>2. ~Idle(t) /\ clean' = clean /\ link' = link
    BY <1>9 DEF Fwheel_MoveCount
  <2>3. clean => Alone(t) /\ OnTheWay(s, at, flags.home, flags.position, link)
    BY <1>2, <1>4, <2>1, <2>2
  <2>4. flags.home \in Int /\ flags.position \in Int
    BY <1>1
  <2>5. WheelTyped
    BY DEF WheelInv
  <2>6. CASE s[1].n > 0
    <3>1. PICK r \in Seq(Tasks) : r = Less(s) /\ r # <<>>
      BY <2>1, OneLess
    <3>2. job' = [job EXCEPT ![t] = r]
      <4>1. job' = [job EXCEPT ![t] = Less(job[t])]
        BY <1>9, <2>1, <2>6 DEF Fwheel_MoveCount, First, Less
      <4> QED  BY <2>1, <3>1, <4>1
    <3>3. /\ at' = Fwheel_Step(at) /\ flags'.home = flags.home /\ flags'.position = flags.position
          /\ flags' \in [home : Int, moving : Int, position : Int, filter : Int]
      BY <1>1, <1>9, <2>1, <2>6 DEF Fwheel_MoveCount, First
    <3>4. WheelTyped'
      <4>1. job' \in [Movers -> Seq(Tasks)]
        BY <1>1, <3>2
      <4> QED  BY <1>1, <1>3, <2>2, <3>3, <4>1 DEF WheelTyped
    <3>5. clean => OnTheWay(r, at', flags'.home, flags'.position, link')
      <4>1. SUFFICES ASSUME clean PROVE OnTheWay(r, at', flags.home, flags.position, link)
        BY <2>2, <3>3
      <4>2. link = "up" /\ OnTheWay(Less(s), (at + 1) % Steps, flags.home, flags.position, link)
        BY <1>1, <2>1, <2>3, <2>4, <2>6, <4>1, CountOn
      <4>3. at' = (at + 1) % Steps
        BY <1>3, <3>3, <4>2 DEF Alive
      <4> QED  BY <3>1, <4>2, <4>3
    <3> QED  BY <2>2, <2>3, <2>5, <3>1, <3>2, <3>4, <3>5, GoesOn
  <2>7. CASE ~(s[1].n > 0)
    <3>1. s[1].n <= 0
      <4>1. s[1] \in Tasks
        BY <2>1
      <4> QED  BY <2>7, <4>1 DEF Tasks
    <3>2. PICK r \in Seq(Tasks) : r = Tail(s)
      BY <2>1, ShorterTail
    <3>3. job' = [job EXCEPT ![t] = r]
      BY <1>9, <2>1, <2>7, <3>2 DEF Fwheel_MoveCount, First
    <3>4. /\ at' = at /\ flags'.home = flags.home /\ flags'.position = flags.position
          /\ flags' \in [home : Int, moving : Int, position : Int, filter : Int]
      BY <1>1, <1>9, <2>1, <2>7 DEF Fwheel_MoveCount, First
    <3>5. WheelTyped'
      <4>1. job' \in [Movers -> Seq(Tasks)]
        BY <1>1, <3>3
      <4> QED  BY <1>1, <2>2, <3>4, <4>1 DEF WheelTyped
    <3>6. clean => r # <<>> /\ OnTheWay(r, at, flags.home, flags.position, link)
      BY <1>1, <2>1, <2>3, <2>4, <3>1, <3>2, CountOn
    <3> QED  BY <2>2, <2>3, <2>5, <3>3, <3>4, <3>5, <3>6, GoesOn
  <2> QED  BY <2>6, <2>7
<1>10. ASSUME NEW t \in Movers, Fwheel_SeekHome(t) PROVE WheelInv'
  <2>1. PICK s \in Seq(Tasks) : s = job[t] /\ s # <<>> /\ s[1].k = "seek"
    BY <1>1, <1>10 DEF Fwheel_SeekHome, Idle, First
  <2>2. ~Idle(t) /\ link' = link /\ at' = Fwheel_Step(at) /\ (clean' => clean /\ Alive) /\ clean' \in BOOLEAN
    <3>1. ~Idle(t) /\ link' = link /\ at' = Fwheel_Step(at)
      BY <1>10 DEF Fwheel_SeekHome
    <3>2. (Alive /\ clean' = clean) \/ clean' = FALSE
      BY <1>10 DEF Fwheel_SeekHome
    <3>3. clean' => clean /\ Alive
      BY <3>2, Zenon
    <3>4. clean' \in BOOLEAN
      BY <1>1, <3>2
    <3> QED  BY <3>1, <3>3, <3>4
  <2>3. clean => Alone(t) /\ OnTheWay(s, at, flags.home, flags.position, link)
    BY <1>2, <1>4, <2>1, <2>2
  <2>4. flags.home \in Int /\ flags.position \in Int
    BY <1>1
  <2>5. WheelTyped
    BY DEF WheelInv
  <2>6. \/ Seek_Found(t) /\ (clean' => at' = 0)
        \/ Seek_NotFound(t)
    BY <1>10 DEF Fwheel_SeekHome
  <2>7. /\ flags'.home = flags.home /\ flags'.position = flags.position
        /\ flags' \in [home : Int, moving : Int, position : Int, filter : Int]
    BY <1>1, <2>6 DEF Seek_Found, Seek_NotFound
  <2>8. clean' => link' = "up" /\ at' \in 0 .. Steps - 1
    BY <1>3, <2>2 DEF Alive
  <2>9. PICK r \in Seq(Tasks) :
          /\ job' = [job EXCEPT ![t] = r]
          /\ \/ r = Tail(s) /\ (clean' => at' = 0)
             \/ r = Less(s)
             \/ r = Fwheel_FilterSetPos(0) \o IF s[2].k = "home" THEN <<>> ELSE <<Task("home", 0)>>
    <3>1. CASE Seek_Found(t) /\ (clean' => at' = 0)
      <4>1. Tail(s) \in Seq(Tasks)
        BY <2>1, ShorterTail
      <4>2. job' = [job EXCEPT ![t] = Tail(s)]
        BY <2>1, <3>1 DEF Seek_Found
      <4> QED  BY <3>1, <4>1, <4>2
    <3>2. CASE Seek_NotFound(t) /\ First(t).n > 1
      <4>1. Less(s) \in Seq(Tasks)
        BY <2>1, OneLess
      <4>2. job' = [job EXCEPT ![t] = Less(job[t])]
        BY <3>2 DEF Seek_NotFound, Less
      <4> QED  BY <2>1, <4>1, <4>2
    <3>3. CASE Seek_NotFound(t) /\ ~(First(t).n > 1)
      <4>1. PICK r : r = Fwheel_FilterSetPos(0) \o IF s[2].k = "home" THEN <<>> ELSE <<Task("home", 0)>>
        OBVIOUS
      <4>2. r \in Seq(Tasks)
        BY <4>1, LostTyped
      <4>3. job' = [job EXCEPT ![t] = r]
        BY <2>1, <3>3, <4>1 DEF Seek_NotFound
      <4> QED  BY <4>1, <4>2, <4>3
    <3> QED  BY <2>6, <3>1, <3>2, <3>3
  <2>10. WheelTyped'
    <3>1. job' \in [Movers -> Seq(Tasks)]
      BY <1>1, <2>9
    <3> QED  BY <1>3, <2>2, <2>7, <3>1 DEF WheelTyped
  <2>11. clean' => r # <<>> /\ OnTheWay(r, at', flags'.home, flags'.position, link')
    <3>1. SUFFICES ASSUME clean' PROVE r # <<>> /\ OnTheWay(r, at', flags.home, flags.position, "up")
      BY <2>7, <2>8
    <3>2. OnTheWay(s, at, flags.home, flags.position, link)
      BY <2>2, <2>3, <3>1
    <3>3. PICK y \in 0 .. Steps - 1 : y = at'
      BY <2>8, <3>1
    <3>4. /\ y = 0 => Tail(s) \in Seq(Tasks) \ {<<>>} /\ OnTheWay(Tail(s), y, flags.home, flags.position, "up")
          /\ Less(s) \in Seq(Tasks) \ {<<>>} /\ OnTheWay(Less(s), y, flags.home, flags.position, "up")
          /\ LET z == Fwheel_FilterSetPos(0) \o IF s[2].k = "home" THEN <<>> ELSE <<Task("home", 0)>> IN
             z \in Seq(Tasks) \ {<<>>} /\ OnTheWay(z, y, flags.home, flags.position, "up")
      BY <2>1, <2>4, <3>2, SeekOn
    <3>5. CASE r = Tail(s) /\ at' = 0
      BY <3>3, <3>4, <3>5
    <3>6. CASE r = Less(s)
      BY <3>3, <3>4, <3>6
    <3>7. CASE r = Fwheel_FilterSetPos(0) \o IF s[2].k = "home" THEN <<>> ELSE <<Task("home", 0)>>
      BY <3>3, <3>4, <3>7
    <3> QED  BY <2>9, <3>1, <3>5, <3>6, <3>7
  <2> QED  BY <2>2, <2>3, <2>5, <2>9, <2>10, <2>11, GoesOn
<1>11. ASSUME NEW t \in Movers, Fwheel_Set(t) PROVE WheelInv'
  <2>1. PICK s \in Seq(Tasks) : s = job[t] /\ s # <<>> /\ s[1].k \in {"position", "filter", "home"}
    BY <1>1, <1>11 DEF Fwheel_Set, Idle, First
  <2>2. ~Idle(t) /\ clean' = clean /\ link' = link /\ at' = at
    BY <1>11 DEF Fwheel_Set
  <2>3. clean => Alone(t) /\ OnTheWay(s, at, flags.home, flags.position, link)
    BY <1>2, <1>4, <2>1, <2>2
  <2>4. flags.home \in Int /\ flags.position \in Int /\ s[1].n \in Int
    <3>1. s[1] \in Tasks
      BY <2>1
    <3> QED  BY <1>1, <3>1 DEF Tasks
  <2>5. WheelTyped
    BY DEF WheelInv
  <2>6. PICK r \in Seq(Tasks) : r = Tail(s)
    BY <2>1, ShorterTail
  <2>7. job' = [job EXCEPT ![t] = r] /\ flags' = [flags EXCEPT ![s[1].k] = s[1].n]
    BY <1>11, <2>1, <2>6 DEF Fwheel_Set, First
  <2>8. PICK h2 \in Int, pos2 \in Int :
          /\ h2 = IF s[1].k = "home" THEN s[1].n ELSE flags.home
          /\ pos2 = IF s[1].k = "position" THEN s[1].n ELSE flags.position
    BY <2>4
  <2>9. /\ flags' \in [home : Int, moving : Int, position : Int, filter : Int]
        /\ flags'.home = h2 /\ flags'.position = pos2
        /\ s[1].k = "filter" => flags'.filter = s[1].n
    <3>1. CASE s[1].k = "home"
      BY <1>1, <2>4, <2>7, <2>8, <3>1
    <3>2. CASE s[1].k = "position"
      BY <1>1, <2>4, <2>7, <2>8, <3>2
    <3>3. CASE s[1].k = "filter"
      BY <1>1, <2>4, <2>7, <2>8, <3>3
    <3> QED  BY <2>1, <3>1, <3>2, <3>3
  <2>10. WheelTyped'
    <3>1. job' \in [Movers -> Seq(Tasks)]
      BY <1>1, <2>7
    <3> QED  BY <1>1, <2>2, <2>9, <3>1 DEF WheelTyped
  <2>11. clean => /\ link = "up"
                  /\ r # <<>> => OnTheWay(r, at, h2, pos2, link)
                  /\ r = <<>> => h2 = 0 \/ (s[1].k = "filter" /\ s[1].n = flags.position
                                            /\ flags.position \in Position /\ at = Place(flags.position))
    <3>1. ASSUME clean
          PROVE  /\ link = "up"
                 /\ r # <<>> => OnTheWay(r, at, h2, pos2, link)
                 /\ r = <<>> => h2 = 0 \/ (s[1].k = "filter" /\ s[1].n = flags.position
                                           /\ flags.position \in Position /\ at = Place(flags.position))
      <4>1. OnTheWay(s, at, flags.home, flags.position, link)
        BY <2>3, <3>1
      <4>2. at \in 0 .. Steps - 1
        BY <1>1
      <4>3. PICK x \in 0 .. Steps - 1, h \in Int, pos \in Int, l \in {link} :
              x = at /\ h = flags.home /\ pos = flags.position /\ l = link
        BY <2>4, <4>2
      <4>4. /\ s # <<>> /\ s[1].k \in {"position", "filter", "home"} /\ r = Tail(s)
            /\ s[1].k = "home" => h2 = s[1].n
            /\ s[1].k # "home" => h2 = h
            /\ s[1].k = "position" => pos2 = s[1].n
            /\ s[1].k # "position" => pos2 = pos
        BY <2>1, <2>6, <2>8, <4>3
      <4>5. OnTheWay(s, x, h, pos, l)
        BY <4>1, <4>3
      <4>6. GoesOnFrom(s, x, h, pos, l, r, h2, pos2)
        BY <4>4, <4>5, SetOnNamed
      <4> QED  BY <4>3, <4>6 DEF GoesOnFrom
    <3> QED  BY <3>1, Zenon
  <2>12. clean /\ r = <<>> => Shown'
    <3>1. SUFFICES ASSUME clean, r = <<>> PROVE Shown'
      BY Zenon
    <3>2. CASE h2 = 0
      BY <2>9, <3>2 DEF Shown
    <3>3. CASE s[1].k = "filter" /\ s[1].n = flags.position /\ flags.position \in Position /\ at = Place(flags.position)
      <4>1. flags'.filter = flags.position /\ flags'.position = flags.position /\ link = "up"
        BY <2>8, <2>9, <2>11, <3>1, <3>3
      <4> QED  BY <2>2, <3>3, <4>1 DEF Shown
    <3> QED  BY <2>11, <3>1, <3>2, <3>3
  <2> QED  BY <2>2, <2>3, <2>5, <2>7, <2>9, <2>10, <2>11, <2>12, GoesOn
<1>12. CASE Fwheel_Looper
  <2>1. link = "none" /\ UNCHANGED <<at, flags, job, asks, late, clean>>
    BY <1>12 DEF Fwheel_Looper
  <2>2. WheelTyped'
    BY <1>1, <2>1 DEF WheelTyped
  <2>3. ASSUME clean' PROVE CleanMoves'
    <3>1. ASSUME NEW t \in Movers, ~Idle(t) PROVE OnTheWay(job[t], at, flags.home, flags.position, link')
      <4>1. OnTheWay(job[t], at, flags.home, flags.position, link)
        BY <1>2, <2>1, <2>3, <3>1
      <4> QED  BY <2>1, <4>1 DEF OnTheWay
    <3>2. AllIdle => Shown'
      <4>1. AllIdle => Shown
        BY <1>2, <2>1, <2>3
      <4> QED  BY <2>1, <4>1 DEF Shown
    <3> QED  BY <1>2, <2>1, <2>3, <3>1, <3>2 DEF CleanMoves, Shown, Idle, AllIdle
  <2> QED  BY <2>2, <2>3 DEF WheelInv
<1>13. CASE Fwheel_LinkLost
  BY <1>1, <1>13 DEF Fwheel_LinkLost, WheelInv, WheelTyped
<1> QED
  BY <1>5, <1>6, <1>7, <1>8, <1>9, <1>10, <1>11, <1>12, <1>13 DEF Fwheel_Next, Fwheel_Work

\* The filter whose number and name are shown is in the beam when the wheel is
\* at rest, was homed, and since then was moved by one thread at a time with
\* nothing lost, whatever the number of filters, the steps between them and
\* the requests: what Fwheel_MoveCount.c counts to is what
\* Fwheel_FilterSetPos.c says of it.
THEOREM FilterInBeamIsShown == Fwheel_Spec => []FilterShown
<1>1. WheelInv => FilterShown
  BY DEF WheelInv, CleanMoves, FilterShown
<1> QED  BY <1>1, InitWheel, StepWheel, PTL DEF Fwheel_Spec
-----------------------------------------------------------------------------
(* Devices: the three beside each other                                    *)

DevicesInv == PowerInv /\ WheelInv /\ SmartInv

\* A device that is not the one in question keeps its invariant.
LEMMA StillDevices ==
  /\ PowerInv /\ UNCHANGED pvars => PowerInv'
  /\ WheelInv /\ UNCHANGED fvars => WheelInv'
  /\ SmartInv /\ UNCHANGED svars => SmartInv'
BY StepPower, StepWheel, StepSmart

LEMMA StepDevices == DevicesInv /\ [Next]_dvars => DevicesInv' /\ [Smart_Next]_svars
<1> SUFFICES ASSUME DevicesInv, [Next]_dvars PROVE DevicesInv' /\ [Smart_Next]_svars
  OBVIOUS
<1>1. CASE Power
  BY <1>1, StepPower, StillDevices DEF DevicesInv, Power
<1>2. CASE Wheel
  BY <1>2, StepWheel, StillDevices DEF DevicesInv, Wheel
<1>3. CASE Smart
  BY <1>3, StepSmart, StillDevices DEF DevicesInv, Smart
<1>4. CASE UNCHANGED dvars
  BY <1>4, StillDevices DEF DevicesInv, dvars
<1> QED
  BY <1>1, <1>2, <1>3, <1>4 DEF Next

\* What holds of the power box, of the filter wheel and of the smart motors alone
\* holds of them beside each other, as the topbox server drives them.
THEOREM DevicesRight ==
  Spec => [](BehindByTheLate /\ FilterShown /\ RotationTruthful) /\ GoesWhereAsked
<1> DEFINE AllShown == BehindByTheLate /\ FilterShown /\ RotationTruthful
           A == \A c \in Clients :
                  LET t == thread[c] IN
                  t.todo = <<"G">> /\ thread'[c].todo = <<>> /\ ~t.mixed /\ axis' # axis
                    => axis' = [axis EXCEPT ![t.axis] = Obey([@ EXCEPT !.next = t.aim], "G", t)]
<1>1. Init => DevicesInv
  BY InitPower, InitWheel, InitSmart DEF Init, DevicesInv
<1>2. DevicesInv => AllShown
  BY DEF DevicesInv, PowerInv, WheelInv, CleanMoves, FilterShown, SmartInv
<1>3. DevicesInv /\ [Next]_dvars => [A]_svars
  BY StepDevices, StepGoes DEF DevicesInv
<1>4. Spec => []AllShown /\ [][A]_svars
  <2> HIDE DEF A, AllShown
  <2> QED  BY <1>1, <1>2, <1>3, StepDevices, PTL DEF Spec
<1> QED  BY <1>4 DEF GoesWhereAsked
=============================================================================
