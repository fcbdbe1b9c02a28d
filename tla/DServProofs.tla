---------------------------- MODULE DServProofs ----------------------------
(***************************************************************************)
(* Theorems about DServ.  First those about the ring of frames it shows    *)
(* to its clients (FrameRing), for every size of the ring and of a frame;  *)
(* then what the clients of the data server are sent, for every number of  *)
(* clients, slots, sections and polls.                                     *)
(***************************************************************************)
EXTENDS DServ, SequenceTheorems, TLAPS

-----------------------------------------------------------------------------
(* The ring and its writer                                                 *)

LEMMA PartsFacts ==
  /\ SOF \in Parts /\ NUMBER \in Parts
  /\ Header .. Total - 1 \subseteq Parts
  /\ Total \in Nat /\ Total >= 3
  BY ConstantsAssumption DEF Parts, SOF, NUMBER, Header, Total

\* Reading a cell's worth of bytes into memory leaves an array of cells.
LEMMA StoredType ==
  ASSUME TypeOK, NEW d, NEW v \in Cell
  PROVE  Stored(d, v) \in [Slots -> [Parts -> Cell \cup {Empty}]]
  BY DEF TypeOK, Stored

LEMMA SpilledType ==
  ASSUME TypeOK, NEW n, NEW v \in Cell
  PROVE  Spilled(n, v) \in [Slots -> [Parts -> Cell \cup {Empty}]]
<1>1. [part |-> NUMBER, frame |-> Garbage] \in Cell
  BY PartsFacts DEF Cell
<1>2. Stored(0, v) \in [Slots -> [Parts -> Cell \cup {Empty}]]
  BY StoredType
<1>3. QED
  BY <1>1, <1>2 DEF Spilled

LEMMA GarbageType ==
  ASSUME TypeOK, part \in Parts, NEW d, PartlyStored(d)
  PROVE  buffer' \in [Slots -> [Parts -> Cell \cup {Empty}]]
<1>1. [part |-> part, frame |-> Garbage] \in Cell
  BY DEF Cell
<1>2. QED
  BY <1>1, StoredType DEF PartlyStored, TypeOK

LEMMA GiveUpType ==
  ASSUME TypeOK, GiveUp, receiving' \in BOOLEAN,
         buffer' \in [Slots -> [Parts -> Cell \cup {Empty}]]
  PROVE  TypeOK'
<1>1. clean' \in BOOLEAN
  BY DEF TypeOK, GiveUp
<1>2. connected' \in BOOLEAN /\ peer' \in BOOLEAN
  BY DEF GiveUp
<1>3. part' \in 0 .. Total
  BY PartsFacts DEF GiveUp, SOF
<1>4. UNCHANGED <<active, last, offset, log, pc, incoming, session, sent,
                  running, continueRunning>>
  BY DEF GiveUp, ctlVars
<1>5. QED
  BY <1>1, <1>2, <1>3, <1>4 DEF TypeOK

(* Every variable keeps its type, whatever the PCR, the network and the      *)
(* operators do: PCR_GetDM leaves the ring's indices inside the ring.        *)
THEOREM TypeCorrect == Spec => []TypeOK
<1>1. Init => TypeOK
  <2> SUFFICES ASSUME Init PROVE TypeOK
    OBVIOUS
  <2>1. buffer \in [Slots -> [Parts -> Cell \cup {Empty}]]
    BY DEF Init
  <2>2. active \in Slots /\ last \in Slots \cup {-1} /\ offset \in Nat
    BY ConstantsAssumption DEF Init, Slots
  <2>3. part \in 0 .. Total /\ session \in 0 .. MaxSession /\ sent \in 0 .. MaxNumber + 1
    BY ConstantsAssumption, PartsFacts DEF Init, SOF
  <2>4. log \in Seq([frame : Frame \cup {Garbage}, slot : Slots])
    BY DEF Init
  <2>5. QED
    BY <2>1, <2>2, <2>3, <2>4 DEF Init, TypeOK
<1>2. TypeOK /\ [Next]_vars => TypeOK'
  <2> SUFFICES ASSUME TypeOK, [Next]_vars PROVE TypeOK'
    OBVIOUS
  <2> USE DEF TypeOK, ringVars, linkVars, ctlVars
  <2>1. CASE Outer
    BY <2>1 DEF Outer
  <2>2. CASE Connect
    <3>1. session' \in 0 .. MaxSession /\ sent' \in 0 .. MaxNumber + 1
      BY <2>2, ConstantsAssumption DEF Connect
    <3>2. incoming' \in Frame \cup {Garbage}
      BY <2>2, <3>1, ConstantsAssumption DEF Connect, Frame
    <3>3. pc' \in {"outer", "connect", "hello", "stopped"}
      BY <2>2 DEF Connect
    <3>4. connected' \in BOOLEAN /\ peer' \in BOOLEAN /\ running' \in BOOLEAN
      BY <2>2 DEF Connect
    <3>5. QED
      BY <2>2, <3>1, <3>2, <3>3, <3>4 DEF Connect
  <2>3. CASE Hello
    BY <2>3 DEF Hello
  <2>4. CASE LeaveFrames
    BY <2>4 DEF LeaveFrames
  <2>5. CASE Quiet
    BY <2>5 DEF Quiet
  <2>6. CASE ReadSOF
    <3>1. part = SOF /\ part \in Parts
      BY <2>6, PartsFacts DEF ReadSOF
    <3>2. CASE ~peer /\ PartlyStored(0) /\ GiveUp /\ receiving' = TRUE
      BY <3>1, <3>2, GarbageType, GiveUpType
    <3>3. CASE /\ sent <= MaxNumber
               /\ incoming' = [session |-> session, number |-> sent]
               /\ sent' = sent + 1
               /\ buffer' = Stored(0, [part |-> SOF, frame |-> incoming'])
               /\ offset' = offset + 1 /\ part' = NUMBER /\ receiving' = TRUE
               /\ UNCHANGED <<active, last, log, pc, connected, peer, session, ctlVars, clean>>
      <4>1. incoming' \in Frame /\ sent' \in 0 .. MaxNumber + 1
        BY <3>3, ConstantsAssumption DEF Frame
      <4>2. buffer' \in [Slots -> [Parts -> Cell \cup {Empty}]]
        BY <3>3, <4>1, PartsFacts, StoredType DEF Cell
      <4>3. QED
        BY <3>3, <4>1, <4>2, PartsFacts DEF NUMBER
    <3>4. CASE LoseStep /\ receiving' = TRUE
      <4>1. buffer' \in [Slots -> [Parts -> Cell \cup {Empty}]]
        <5>1. CASE PartlyStored(0)
          BY <3>1, <5>1, GarbageType
        <5>2. CASE /\ sent <= MaxNumber
                   /\ buffer' = Stored(0, [part |-> SOF,
                                           frame |-> [session |-> session, number |-> sent]])
          <6>1. [session |-> session, number |-> sent] \in Frame
            BY <5>2, ConstantsAssumption DEF Frame
          <6>2. QED
            BY <5>2, <6>1, PartsFacts, StoredType DEF Cell
        <5>3. QED
          BY <3>4, <5>1, <5>2 DEF LoseStep
      <4>2. QED
        BY <3>4, <4>1 DEF LoseStep
    <3>5. QED
      BY <2>6, <3>2, <3>3, <3>4 DEF ReadSOF
  <2>7. CASE ReadNumber
    <3>1. part = NUMBER /\ part \in Parts
      BY <2>7, PartsFacts DEF ReadNumber
    <3>2. CASE PartlyStored(0) /\ GiveUp /\ UNCHANGED receiving
      BY <3>1, <3>2, GarbageType, GiveUpType
    <3>3. CASE /\ buffer' = Stored(0, [part |-> NUMBER, frame |-> incoming])
               /\ offset' = offset + 1
               /\ part' = Header
               /\ UNCHANGED <<active, last, log, pc, incoming, linkVars, ctlVars, clean>>
               /\ UNCHANGED receiving
      <4>1. [part |-> NUMBER, frame |-> incoming] \in Cell
        BY PartsFacts DEF Cell
      <4>2. buffer' \in [Slots -> [Parts -> Cell \cup {Empty}]]
        BY <3>3, <4>1, StoredType
      <4>3. QED
        BY <3>3, <4>2, PartsFacts DEF Header
    <3>4. QED
      BY <2>7, <3>2, <3>3 DEF ReadNumber
  <2>8. CASE ReadData
    <3>1. part \in Parts /\ part + 1 \in 0 .. Total
      BY <2>8, PartsFacts DEF ReadData, Header
    <3>2. CASE PartlyStored(part - Header) /\ GiveUp /\ UNCHANGED receiving
      BY <3>1, <3>2, GarbageType, GiveUpType
    <3>3. CASE /\ buffer' = Stored(part - Header, [part |-> part, frame |-> incoming])
               /\ part' = part + 1
               /\ UNCHANGED <<active, last, offset, log, pc, incoming, linkVars, ctlVars, clean>>
               /\ UNCHANGED receiving
      <4>1. [part |-> part, frame |-> incoming] \in Cell
        BY <3>1 DEF Cell
      <4>2. buffer' \in [Slots -> [Parts -> Cell \cup {Empty}]]
        BY <3>3, <4>1, StoredType
      <4>3. QED
        BY <3>1, <3>3, <4>2, PartsFacts
    <3>4. QED
      BY <2>8, <3>2, <3>3 DEF ReadData
  <2>9. CASE Publish
    BY <2>9, ConstantsAssumption, PartsFacts DEF Publish, NextFrame, Slots, SOF
  <2>10. CASE StopDM
    BY <2>10 DEF StopDM
  <2>11. CASE ConnectDM
    BY <2>11 DEF ConnectDM
  <2>12. CASE Drop
    BY <2>12 DEF Drop
  <2>13. CASE SearchSOF
    <3>1. CASE ~peer /\ connected' = FALSE
      BY <2>13, <3>1 DEF SearchSOF
    <3>2. CASE /\ sent <= MaxNumber /\ FindSOF
               /\ \E n \in 0 .. 2 :
                    buffer' = Spilled(n, [part |-> SOF, frame |-> incoming'])
               /\ offset' = offset + 1 /\ part' = NUMBER
               /\ UNCHANGED <<connected, peer, session>>
      <4>1. incoming' \in Frame \cup {Garbage} /\ sent' \in 0 .. MaxNumber + 1
        <5>1. CASE incoming' = Garbage /\ sent' = sent + 1
          BY <3>2, <5>1, ConstantsAssumption
        <5>2. CASE \E f \in {[session |-> session, number |-> n] :
                               n \in {k \in sent .. sent + 1 : k <= MaxNumber}} :
                     incoming' = f /\ sent' = f.number + 1
          BY <3>2, <5>2, ConstantsAssumption DEF Frame
        <5>3. QED
          BY <3>2, <5>1, <5>2 DEF FindSOF
      <4>2. buffer' \in [Slots -> [Parts -> Cell \cup {Empty}]]
        BY <3>2, <4>1, PartsFacts, SpilledType DEF Cell
      <4>3. /\ UNCHANGED <<active, last, log, receiving, running, continueRunning>>
            /\ pc' = "frame" /\ clean' = FALSE
        BY <2>13 DEF SearchSOF
      <4>4. part' \in 0 .. Total /\ offset' \in Nat
        BY <3>2, PartsFacts DEF NUMBER
      <4>5. QED
        BY <3>2, <4>1, <4>2, <4>3, <4>4
    <3>3. QED
      BY <2>13, <3>1, <3>2 DEF SearchSOF
  <2>14. CASE UNCHANGED vars
    BY <2>14 DEF vars
  <2>15. QED
    BY <2>1, <2>2, <2>3, <2>4, <2>5, <2>6, <2>7, <2>8, <2>9, <2>10, <2>11, <2>12,
       <2>13, <2>14 DEF Next, GetDM
<1>3. QED
  BY <1>1, <1>2, PTL DEF Spec

-----------------------------------------------------------------------------
(* Two cells with the same address are the same cell. *)
LEMMA AddrInjective ==
  ASSUME NEW s \in Slots, NEW t \in Slots, NEW p \in Parts, NEW q \in Parts,
         Addr(s, p) = Addr(t, q)
  PROVE  s = t /\ p = q
<1> s \in Int /\ t \in Int /\ Total \in Int /\ Total >= 3
  BY PartsFacts DEF Slots
<1> p \in 0 .. Total - 1 /\ q \in 0 .. Total - 1
  BY ConstantsAssumption DEF Parts, Total
<1>1. s * Total + p = t * Total + q
  BY DEF Addr
<1>2. ASSUME NEW a \in Int, NEW b \in Int, NEW T \in Int, T >= 3, a < b
      PROVE  a * T + T <= b * T
  <2>1. b * T = a * T + (b - a) * T
    BY <1>2
  <2>2. (b - a) * T >= T
    BY <1>2
  <2>3. QED
    BY <1>2, <2>1, <2>2
<1>3. ~(s < t)
  BY <1>1, <1>2
<1>4. ~(t < s)
  BY <1>1, <1>2
<1>5. s = t
  BY <1>3, <1>4
<1>6. QED
  BY <1>1, <1>5

(* A read into the active slot changes one cell, of that slot. *)
LEMMA StoredAt ==
  ASSUME TypeOK, NEW d \in Int, offset + d \in Parts, NEW v,
         NEW s \in Slots, NEW p \in Parts
  PROVE  Stored(d, v)[s][p] = IF s = active /\ p = offset + d THEN v ELSE buffer[s][p]
<1>1. active \in Slots
  BY DEF TypeOK
<1>2. Addr(s, p) = Addr(active, offset + d) <=> (s = active /\ p = offset + d)
  BY <1>1, AddrInjective
<1>3. QED
  BY <1>2 DEF Stored

LEMMA LogType ==
  ASSUME TypeOK
  PROVE  \A j \in 1 .. Len(log) :
           log[j].slot \in Slots /\ log[j].frame \in Frame \cup {Garbage}
<1> DEFINE Entry == [frame : Frame \cup {Garbage}, slot : Slots]
<1>1. log \in Seq(Entry)
  BY DEF TypeOK
<1> HIDE DEF Entry
<1>2. \A j \in 1 .. Len(log) : log[j] \in Entry
  BY <1>1
<1>3. QED
  BY <1>2 DEF Entry

(* None of the frames the ring remembers is in the slot being filled. *)
LEMMA RememberedNotActive ==
  ASSUME TypeOK, LastIsNewest, SlotsInOrder,
         NEW i \in 1 .. Len(log), Len(log) - i < NumFrames - 1
  PROVE  log[i].slot # active
<1>1. Len(log) \in Nat /\ log # <<>>
  BY DEF TypeOK
<1>2. \A j \in 1 .. Len(log) : log[j].slot \in Slots
  BY LogType
<1>3. log[Len(log)].slot \in {log[i].slot + (Len(log) - i),
                              log[i].slot + (Len(log) - i) - NumFrames}
  BY <1>1, ConstantsAssumption DEF SlotsInOrder
<1>4. active = NextFrame(log[Len(log)].slot)
  BY <1>1 DEF LastIsNewest
<1>5. QED
  BY <1>1, <1>2, <1>3, <1>4, ConstantsAssumption DEF NextFrame, Slots

-----------------------------------------------------------------------------
(***************************************************************************)
(* The steps that keep RingInv.  Reads move bytes into the active slot,    *)
(* where no remembered frame is; Publish adds one frame and forgets one.   *)
(***************************************************************************)

(* A step that leaves the ring alone and receives nothing. *)
LEMMA RingUntouched ==
  ASSUME TypeOK, RingInv, UNCHANGED <<ringVars, part>>, clean' => clean,
         part # SOF => UNCHANGED <<pc, incoming>>
  PROVE  RingInv'
<1> USE DEF RingInv, ringVars
<1>1. LastIsNewest'
  BY DEF LastIsNewest
<1>2. SlotsInOrder'
  BY DEF SlotsInOrder
<1>3. ActivePartlyFilled'
  <2>1. CASE part = SOF
    BY <2>1, ConstantsAssumption DEF ActivePartlyFilled, SOF, Header, Parts
  <2>2. CASE part # SOF
    BY <2>2 DEF ActivePartlyFilled
  <2>3. QED
    BY <2>1, <2>2
<1>4. RecentFramesIntact'
  BY DEF RecentFramesIntact, Holds
<1>5. QED
  BY <1>1, <1>2, <1>3, <1>4

(* The ring's past survives a read into the active slot. *)
LEMMA RememberedSurvives ==
  ASSUME TypeOK, RingInv, UNCHANGED <<active, last, log>>, clean' => clean,
         NEW d \in Int, clean' => offset + d \in Parts, NEW v,
         buffer' = Stored(d, v) \/ UNCHANGED buffer
  PROVE  LastIsNewest' /\ SlotsInOrder' /\ RecentFramesIntact'
<1>1. LastIsNewest'
  BY DEF RingInv, LastIsNewest
<1>2. SlotsInOrder'
  BY DEF RingInv, SlotsInOrder
<1>3. RecentFramesIntact'
  <2> SUFFICES ASSUME clean', NEW i \in 1 .. Len(log), Len(log) - i < NumFrames - 1
               PROVE  Holds(log[i].slot, log[i].frame)'
    BY DEF RecentFramesIntact
  <2>1. Holds(log[i].slot, log[i].frame)
    BY DEF RingInv, RecentFramesIntact
  <2>2. log[i].slot # active /\ log[i].slot \in Slots
    BY RememberedNotActive, LogType DEF RingInv
  <2>3. \A p \in Parts : buffer'[log[i].slot][p] = buffer[log[i].slot][p]
    BY <2>2, StoredAt
  <2>4. QED
    BY <2>1, <2>3 DEF Holds
<1>4. QED
  BY <1>1, <1>2, <1>3

(* Once a frame was given up half way, only the pointers are promised. *)
LEMMA SpoiledKeeps ==
  ASSUME RingInv, ~clean', UNCHANGED <<active, last, log>>,
         part' # SOF => pc' = "frame"
  PROVE  RingInv'
<1>1. LastIsNewest'
  BY DEF RingInv, LastIsNewest
<1>2. SlotsInOrder'
  BY DEF RingInv, SlotsInOrder
<1>3. ActivePartlyFilled' /\ RecentFramesIntact'
  BY DEF ActivePartlyFilled, RecentFramesIntact
<1>4. QED
  BY <1>1, <1>2, <1>3 DEF RingInv

(* Giving up: what was received of the frame so far is forgotten. *)
LEMMA GiveUpKeeps ==
  ASSUME TypeOK, RingInv, NEW d \in Int, clean => offset + d \in Parts,
         PartlyStored(d), GiveUp
  PROVE  RingInv'
<1>1. part' = SOF /\ UNCHANGED <<active, last, log, pc, offset>>
  BY DEF GiveUp
<1>2. CASE ~clean'
  BY <1>1, <1>2, SpoiledKeeps
<1>3. CASE clean'
  <2>1. clean /\ part = SOF
    BY <1>3 DEF GiveUp
  <2>2. buffer' = Stored(d, [part |-> part, frame |-> Garbage]) \/ UNCHANGED buffer
    BY DEF PartlyStored
  <2>3. LastIsNewest' /\ SlotsInOrder' /\ RecentFramesIntact'
    BY <1>1, <2>1, <2>2, RememberedSurvives
  <2>4. ActivePartlyFilled'
    BY <1>1, <2>1, ConstantsAssumption
       DEF RingInv, ActivePartlyFilled, Parts, SOF, Header
  <2>5. QED
    BY <2>3, <2>4 DEF RingInv
<1>4. QED
  BY <1>2, <1>3

(* The next part of the frame arrives where the frame has its place for it. *)
LEMMA PartReceived ==
  ASSUME TypeOK, RingInv, pc = "frame", part \in Parts,
         NEW d \in Int, clean => offset + d = part,
         buffer' = Stored(d, [part |-> part, frame |-> incoming']),
         part' = part + 1, clean' => clean,
         clean' => offset' = IF part' < Header THEN part' ELSE Header,
         (clean' /\ part # SOF) => incoming' = incoming,
         UNCHANGED <<active, last, log, pc>>
  PROVE  RingInv'
<1>1. LastIsNewest' /\ SlotsInOrder' /\ RecentFramesIntact'
  BY RememberedSurvives
<1>2. ActivePartlyFilled'
  <2> SUFFICES ASSUME clean', NEW p \in Parts, p < part'
               PROVE  buffer'[active][p] = [part |-> p, frame |-> incoming']
    BY DEF ActivePartlyFilled
  <2>1. p = part \/ p < part
    BY DEF Parts
  <2>2. buffer'[active][p] = IF p = part THEN [part |-> part, frame |-> incoming']
                                        ELSE buffer[active][p]
    BY StoredAt DEF TypeOK
  <2>3. CASE p = part
    BY <2>2, <2>3
  <2>4. CASE p < part
    <3>1. part # SOF /\ p # part
      BY <2>4, ConstantsAssumption DEF Parts, SOF
    <3>2. buffer[active][p] = [part |-> p, frame |-> incoming]
      BY <2>4 DEF RingInv, ActivePartlyFilled
    <3>3. QED
      BY <2>2, <3>1, <3>2
  <2>5. QED
    BY <2>1, <2>3, <2>4
<1>3. QED
  BY <1>1, <1>2 DEF RingInv

(* A whole frame is added to the ring's past. *)
LEMMA PublishKeeps ==
  ASSUME TypeOK, RingInv, Publish
  PROVE  RingInv'
<1> DEFINE e == [frame |-> incoming, slot |-> active]
<1>1. /\ log' = Append(log, e) /\ last' = active /\ active' = NextFrame(active)
      /\ part = Total /\ part' = SOF /\ offset' = 0
      /\ UNCHANGED <<buffer, incoming, pc, clean>>
  BY DEF Publish
<1>2. /\ Len(log) \in Nat /\ Len(log') = Len(log) + 1
      /\ log'[Len(log) + 1] = e
      /\ \A i \in 1 .. Len(log) : log'[i] = log[i]
  BY <1>1 DEF TypeOK
<1>3. log' # <<>>
  BY <1>2
<1>4. LastIsNewest'
  <2>1. log'[Len(log')].slot = active /\ last' = active /\ active' = NextFrame(active)
    BY <1>1, <1>2
  <2>2. last' = log'[Len(log')].slot /\ active' = NextFrame(last')
    BY <2>1
  <2> QED  BY <1>3, <2>2, Zenon DEF LastIsNewest
<1>5. SlotsInOrder'
  <2> SUFFICES ASSUME NEW i \in 1 .. Len(log'), NEW j \in 1 .. Len(log'),
                      i <= j, j - i < NumFrames
               PROVE  log'[j].slot \in {log'[i].slot + (j - i),
                                        log'[i].slot + (j - i) - NumFrames}
    BY DEF SlotsInOrder
  <2>1. CASE j \in 1 .. Len(log)
    <3>1. i \in 1 .. Len(log)
      BY <1>2, <2>1
    <3>2. log'[i] = log[i] /\ log'[j] = log[j]
      BY <1>2, <2>1, <3>1
    <3>3. log[j].slot \in {log[i].slot + (j - i), log[i].slot + (j - i) - NumFrames}
      BY <2>1, <3>1 DEF RingInv, SlotsInOrder
    <3>4. QED
      BY <3>2, <3>3
  <2>2. CASE j = Len(log) + 1 /\ i = j
    <3>1. log'[j].slot = active /\ log'[i].slot = active /\ j - i = 0
      BY <1>2, <2>2
    <3>2. active \in Int
      BY DEF TypeOK, Slots
    <3>3. QED
      BY <3>1, <3>2
  <2>3. CASE j = Len(log) + 1 /\ i \in 1 .. Len(log)
    <3> DEFINE n == Len(log)
    <3>1. n \in 1 .. n /\ i \in 1 .. n /\ i <= n /\ n - i < NumFrames
      BY <1>2, <2>3, ConstantsAssumption
    <3>2. log[n].slot \in {log[i].slot + (n - i), log[i].slot + (n - i) - NumFrames}
      BY <3>1 DEF RingInv, SlotsInOrder
    <3>3. active = NextFrame(log[n].slot)
      BY <1>2, <2>3 DEF RingInv, LastIsNewest
    <3>4. log[i].slot \in Slots /\ log[n].slot \in Slots
      BY <3>1, LogType
    <3>5. log'[j].slot = active /\ log'[i].slot = log[i].slot /\ j - i = n + 1 - i
      BY <1>2, <2>3
    <3> HIDE DEF n
    <3>6. active \in {log[i].slot + (n + 1 - i), log[i].slot + (n + 1 - i) - NumFrames}
      <4>1. ASSUME NEW x \in Slots, NEW y \in Slots, NEW k \in Int, k >= 0,
                   k + 1 < NumFrames, y \in {x + k, x + k - NumFrames}
            PROVE  NextFrame(y) \in {x + (k + 1), x + (k + 1) - NumFrames}
        BY <4>1, ConstantsAssumption DEF NextFrame, Slots
      <4>2. n - i \in Int /\ n - i >= 0 /\ (n - i) + 1 = n + 1 - i
        BY <1>2, <2>3, <3>1 DEF n
      <4>3. (n - i) + 1 < NumFrames
        BY <2>3, <3>5, <4>2 DEF n
      <4>4. NextFrame(log[n].slot) \in {log[i].slot + ((n - i) + 1),
                                        log[i].slot + ((n - i) + 1) - NumFrames}
        BY <3>2, <3>4, <4>1, <4>2, <4>3
      <4>5. QED
        BY <3>3, <4>2, <4>4
    <3>7. QED
      BY <3>5, <3>6
  <2>4. QED
    BY <1>2, <2>1, <2>2, <2>3
<1>6. ActivePartlyFilled'
  <2>1. \A p \in Parts : ~(p < part')
    BY <1>1, ConstantsAssumption DEF Parts, SOF
  <2>2. offset' = IF part' < Header THEN part' ELSE Header
    BY <1>1 DEF SOF, Header
  <2>3. part' = SOF
    BY <1>1
  <2>4. QED
    BY <2>1, <2>2, <2>3 DEF ActivePartlyFilled
<1>7. RecentFramesIntact'
  <2> SUFFICES ASSUME clean, NEW i \in 1 .. Len(log) + 1,
                      Len(log) + 1 - i < NumFrames - 1
               PROVE  Holds(log'[i].slot, log'[i].frame)
    BY <1>1, <1>2 DEF RecentFramesIntact, Holds
  <2>1. CASE i = Len(log) + 1
    <3>1. \A p \in Parts : buffer[active][p] = [part |-> p, frame |-> incoming]
      <4>1. \A p \in Parts : p < part
        BY <1>1, ConstantsAssumption DEF Parts, Total
      <4>2. QED
        BY <4>1 DEF RingInv, ActivePartlyFilled
    <3>2. QED
      BY <1>2, <2>1, <3>1 DEF Holds
  <2>2. CASE i \in 1 .. Len(log)
    BY <1>2, <2>2, ConstantsAssumption DEF RingInv, RecentFramesIntact
  <2>3. QED
    BY <1>2, <2>1, <2>2
<1>8. QED
  BY <1>4, <1>5, <1>6, <1>7 DEF RingInv

(* One writer at a time, and no data announced outside the loop of frames: each *)
(* is kept by a step because the other one is.                                  *)
LEMMA FlagsDown == Spec => [](OneWriter /\ SilentOutsideFrames)
<1> DEFINE Inv == OneWriter /\ SilentOutsideFrames
<1>1. Init => Inv
  BY DEF Init, OneWriter, SilentOutsideFrames
<1>2. TypeOK /\ Inv /\ [Next]_vars => Inv'
  <2> SUFFICES ASSUME TypeOK, OneWriter, SilentOutsideFrames, [Next]_vars PROVE Inv'
    OBVIOUS
  <2> USE DEF OneWriter, SilentOutsideFrames, linkVars, ctlVars
  <2>1. CASE Outer
    BY <2>1 DEF Outer
  <2>2. CASE Connect
    BY <2>2 DEF Connect
  <2>3. CASE Hello
    BY <2>3 DEF Hello
  <2>4. CASE LeaveFrames \/ Quiet
    <3>1. pc = "frame" /\ running' = running /\ receiving' = FALSE
      BY <2>4 DEF LeaveFrames, Quiet
    <3>2. QED
      BY <3>1
  <2>5. CASE ReadSOF
    <3>1. pc = "frame" /\ pc' \in {pc, "search"} /\ running' = running
      BY <2>5 DEF ReadSOF, LoseStep, GiveUp
    <3>2. QED
      BY <3>1
  <2>6. CASE ReadNumber \/ ReadData
    BY <2>6 DEF ReadNumber, ReadData, GiveUp
  <2>7. CASE Publish
    <3>1. UNCHANGED <<pc, receiving, running>>
      BY <2>7 DEF Publish
    <3>2. QED
      BY <3>1
  <2>8. CASE StopDM \/ ConnectDM \/ Drop
    BY <2>8 DEF StopDM, ConnectDM, Drop
  <2>9. CASE UNCHANGED vars
    BY <2>9 DEF vars
  <2>10. CASE SearchSOF
    <3>1. pc = "search" /\ pc' = "frame" /\ running' = running
      BY <2>10 DEF SearchSOF
    <3>2. QED
      BY <3>1
  <2>11. QED
    BY <2>1, <2>2, <2>3, <2>4, <2>5, <2>6, <2>7, <2>8, <2>9, <2>10 DEF Next, GetDM
<1>3. QED
  BY <1>1, <1>2, TypeCorrect, PTL DEF Spec

(* No step moves a remembered frame or breaks the order of the slots. *)
LEMMA StepKeeps ==
  ASSUME TypeOK, OneWriter, RingInv, [Next]_vars
  PROVE  RingInv'
<1> USE DEF linkVars, ctlVars
<1>0. part # SOF => pc = "frame"
  BY DEF RingInv, ActivePartlyFilled
<1> offset \in Nat /\ (part # SOF \/ part = 0)
  BY DEF TypeOK, SOF
<1>1. CASE Outer
  BY <1>0, <1>1, RingUntouched DEF Outer
<1>2. CASE Connect
  <2>1. part = SOF /\ UNCHANGED <<ringVars, part, clean>>
    BY <1>0, <1>2 DEF Connect
  <2>2. QED
    BY <2>1, RingUntouched
<1>3. CASE Hello
  BY <1>0, <1>3, RingUntouched DEF Hello
<1>4. CASE LeaveFrames
  BY <1>4, RingUntouched DEF LeaveFrames
<1>5. CASE Quiet
  BY <1>5, RingUntouched DEF Quiet
<1>6. CASE ReadSOF
  <2>1. part = SOF /\ part \in Parts /\ pc = "frame" /\ (clean => offset + 0 = part)
    BY <1>6, PartsFacts DEF ReadSOF, RingInv, ActivePartlyFilled, SOF, Header
  <2>2. CASE PartlyStored(0) /\ GiveUp
    BY <2>1, <2>2, GiveUpKeeps
  <2>3. CASE /\ clean' => clean
             /\ buffer' = Stored(0, [part |-> SOF, frame |-> incoming'])
             /\ offset' = offset + 1 /\ part' = NUMBER
             /\ UNCHANGED <<active, last, log, pc>>
    <3>1. part' = part + 1
      BY <2>1, <2>3 DEF SOF, NUMBER
    <3>2. clean' => offset = 0
      BY <2>1, <2>3 DEF SOF
    <3>3. clean' => offset' = IF part' < Header THEN part' ELSE Header
      <4>1. part' = 1 /\ Header = 2 /\ (clean' => offset' = 1)
        BY <2>3, <3>2 DEF NUMBER, Header
      <4>2. QED
        BY <4>1
    <3>4. buffer' = Stored(0, [part |-> part, frame |-> incoming']) /\ ~(part # SOF)
      BY <2>1, <2>3
    <3>5. (clean' => clean) /\ UNCHANGED <<active, last, log, pc>> /\ 0 \in Int
      BY <2>3
    <3>6. QED
      BY <2>1, <3>1, <3>3, <3>4, <3>5, PartReceived
  <2>4. CASE LoseStep
    <3>1. ~clean' /\ UNCHANGED <<active, last, log, part>>
      BY <2>4 DEF LoseStep
    <3>2. QED
      BY <2>1, <3>1, SpoiledKeeps
  <2>5. CASE /\ UNCHANGED clean
             /\ buffer' = Stored(0, [part |-> SOF, frame |-> incoming'])
             /\ offset' = offset + 1 /\ part' = NUMBER
             /\ UNCHANGED <<active, last, log, pc>>
    BY <2>3, <2>5
  <2>6. QED
    BY <1>6, <2>2, <2>4, <2>5 DEF ReadSOF
<1>7. CASE ReadNumber
  <2>1. part = NUMBER /\ part \in Parts /\ pc = "frame" /\ (clean => offset + 0 = part)
    BY <1>7, PartsFacts DEF ReadNumber, RingInv, ActivePartlyFilled, NUMBER, Header
  <2>2. CASE PartlyStored(0) /\ GiveUp
    BY <2>1, <2>2, GiveUpKeeps
  <2>3. CASE /\ buffer' = Stored(0, [part |-> NUMBER, frame |-> incoming])
             /\ offset' = offset + 1 /\ part' = Header
             /\ UNCHANGED <<active, last, log, pc, incoming, clean>>
    <3>1. part' = part + 1
      BY <2>1, <2>3 DEF NUMBER, Header
    <3>2. clean' => offset' = IF part' < Header THEN part' ELSE Header
      BY <2>1, <2>3 DEF NUMBER, Header
    <3>3. QED
      BY <2>1, <2>3, <3>1, <3>2, PartReceived
  <2>4. QED
    BY <1>7, <2>2, <2>3 DEF ReadNumber
<1>8. CASE ReadData
  <2>1. part \in Header .. Total - 1 /\ part \in Parts /\ pc = "frame"
    BY <1>8, PartsFacts DEF ReadData
  <2>2. clean => offset + (part - Header) = part
    BY <2>1 DEF RingInv, ActivePartlyFilled, Header
  <2>3. part - Header \in Int
    BY <2>1 DEF Header
  <2>4. CASE PartlyStored(part - Header) /\ GiveUp
    BY <2>1, <2>2, <2>3, <2>4, GiveUpKeeps
  <2>5. CASE /\ buffer' = Stored(part - Header, [part |-> part, frame |-> incoming])
             /\ part' = part + 1
             /\ UNCHANGED <<active, last, offset, log, pc, incoming, clean>>
    <3>1. clean' => offset' = IF part' < Header THEN part' ELSE Header
      BY <2>1, <2>5 DEF RingInv, ActivePartlyFilled, Header
    <3>2. QED
      BY <2>1, <2>2, <2>3, <2>5, <3>1, PartReceived
  <2>6. QED
    BY <1>8, <2>4, <2>5 DEF ReadData
<1>9. CASE Publish
  BY <1>9, PublishKeeps
<1>10. CASE StopDM
  BY <1>10, RingUntouched DEF StopDM
<1>11. CASE ConnectDM
  <2>1. UNCHANGED <<ringVars, part, incoming, clean>> /\ part = SOF
    BY <1>0, <1>11 DEF ConnectDM, OneWriter
  <2>2. QED
    BY <2>1, RingUntouched
<1>12. CASE Drop
  BY <1>12, RingUntouched DEF Drop
<1>13. CASE SearchSOF
  <2>1. ~clean' /\ pc' = "frame" /\ UNCHANGED <<active, last, log>>
    BY <1>13 DEF SearchSOF
  <2>2. QED
    BY <2>1, SpoiledKeeps
<1>14. CASE UNCHANGED vars
  BY <1>14, RingUntouched DEF vars
<1>15. QED
  BY <1>1, <1>2, <1>3, <1>4, <1>5, <1>6, <1>7, <1>8, <1>9, <1>10, <1>11, <1>12,
     <1>13, <1>14 DEF Next, GetDM

(* No thread is left writing when the flag says that none runs, and no data is     *)
(* announced when frames are not received, whatever way the thread went.           *)
THEOREM WriterAlone == Spec => []ThreadFlagsTrue
BY FlagsDown, PTL DEF ThreadFlagsTrue

(* The first state's ring is in order, as nothing is in it. *)
LEMMA InitRing == Init => RingInv
<1> SUFFICES ASSUME Init PROVE RingInv
  OBVIOUS
<1>1. log = <<>> /\ Len(log) = 0 /\ last = -1 /\ active = 0 /\ offset = 0 /\ part = SOF
  BY DEF Init
<1>2. LastIsNewest /\ SlotsInOrder /\ RecentFramesIntact
  BY <1>1 DEF LastIsNewest, SlotsInOrder, RecentFramesIntact
<1>3. ActivePartlyFilled
  BY <1>1, ConstantsAssumption DEF ActivePartlyFilled, SOF, Header, Parts
<1>4. QED
  BY <1>2, <1>3 DEF RingInv

(* PCR_GetDM always knows where every frame is: the slots follow one another,  *)
(* last is the newest, the one being received is next and holds what came in.  *)
THEOREM RingCorrect == Spec => []RingInv
<1>1. TypeOK /\ OneWriter /\ RingInv /\ [Next]_vars => RingInv'
  BY StepKeeps
<1>2. QED
  BY <1>1, InitRing, TypeCorrect, FlagsDown, PTL DEF Spec

(* As long as no frame was given up half way, the NumFrames - 1 frames published *)
(* last stay whole in their slots while the next one is being received.          *)
THEOREM RememberedIntact == Spec => []RecentFramesIntact
<1>1. RingInv => RecentFramesIntact
  BY DEF RingInv
<1>2. QED
  BY <1>1, RingCorrect, PTL

-----------------------------------------------------------------------------
(***************************************************************************)
(* The ring implements FrameFeed.                                          *)
(***************************************************************************)

\* Until a frame is given up half way, what is received and published are frames
\* the PCR sent: the byte stream is in step.
InStep ==
  clean =>
    /\ part # SOF => incoming \in Frame
    /\ \A i \in 1 .. Len(log) : log[i].frame \in Frame

LEMMA InStepKept ==
  ASSUME TypeOK, TypeOK', OneWriter, RingInv, InStep, [Next]_vars
  PROVE  InStep'
<1> USE DEF linkVars, ctlVars, ringVars
<1>0. part # SOF => pc = "frame"
  BY DEF RingInv, ActivePartlyFilled
<1>1. ASSUME UNCHANGED log, clean' => clean, part' # SOF => (part # SOF /\ UNCHANGED incoming)
      PROVE  InStep'
  BY <1>1 DEF InStep
<1>2. CASE Outer \/ LeaveFrames \/ Quiet \/ StopDM \/ Drop
  BY <1>1, <1>2 DEF Outer, LeaveFrames, Quiet, StopDM, Drop
<1>3. CASE Hello
  BY <1>1, <1>3 DEF Hello
<1>4. CASE Connect
  <2>1. part = SOF /\ UNCHANGED <<log, clean, part>>
    BY <1>0, <1>4 DEF Connect
  <2>2. QED
    BY <1>1, <2>1
<1>5. CASE ConnectDM
  <2>1. UNCHANGED <<log, clean, part, incoming>>
    BY <1>5 DEF ConnectDM
  <2>2. QED
    BY <1>1, <2>1
<1>6. CASE ReadSOF
  <2>1. UNCHANGED log
    BY <1>6 DEF ReadSOF, LoseStep, GiveUp
  <2>2. CASE GiveUp
    <3>1. part' = SOF /\ (clean' => clean)
      BY <2>2 DEF GiveUp
    <3>2. QED
      BY <1>1, <2>1, <3>1
  <2>3. CASE /\ incoming' = [session |-> session, number |-> sent]
             /\ sent <= MaxNumber /\ clean' = clean
    <3>1. incoming' \in Frame
      BY <2>3, ConstantsAssumption DEF TypeOK, Frame
    <3>2. QED
      BY <2>1, <2>3, <3>1 DEF InStep
  <2>4. CASE clean' = FALSE
    BY <2>4 DEF InStep
  <2>5. \/ GiveUp
        \/ /\ incoming' = [session |-> session, number |-> sent]
           /\ sent <= MaxNumber /\ clean' = clean
        \/ clean' = FALSE
    BY <1>6, Zenon DEF ReadSOF, LoseStep
  <2>6. QED
    BY <2>2, <2>3, <2>4, <2>5
<1>7. CASE ReadNumber \/ ReadData
  <2>1. part = NUMBER \/ part \in Header .. Total - 1
    BY <1>7 DEF ReadNumber, ReadData
  <2>2. part # SOF
    BY <2>1, PartsFacts DEF SOF, NUMBER, Header
  <2>3. UNCHANGED <<log, incoming>>
    BY <1>7 DEF ReadNumber, ReadData, GiveUp
  <2>4. CASE GiveUp
    <3>1. clean' => clean
      BY <2>4 DEF GiveUp
    <3>2. QED
      BY <1>1, <2>2, <2>3, <3>1
  <2>5. CASE UNCHANGED clean
    BY <1>1, <2>2, <2>3, <2>5
  <2>6. QED
    BY <1>7, <2>4, <2>5 DEF ReadNumber, ReadData
<1>8. CASE Publish
  <2>1. /\ log' = Append(log, [frame |-> incoming, slot |-> active])
        /\ part = Total /\ part' = SOF /\ UNCHANGED clean
    BY <1>8 DEF Publish
  <2>2. /\ Len(log) \in Nat /\ Len(log') = Len(log) + 1
        /\ log'[Len(log) + 1] = [frame |-> incoming, slot |-> active]
        /\ \A i \in 1 .. Len(log) : log'[i] = log[i]
    BY <2>1 DEF TypeOK
  <2>3. clean => incoming \in Frame
    BY <2>1, PartsFacts DEF InStep, SOF
  <2>4. QED
    BY <2>1, <2>2, <2>3 DEF InStep
<1>9. CASE UNCHANGED vars
  BY <1>1, <1>9 DEF vars
<1>10. CASE SearchSOF
  BY <1>10 DEF SearchSOF, InStep
<1>11. QED
  BY <1>2, <1>3, <1>4, <1>5, <1>6, <1>7, <1>8, <1>9, <1>10 DEF Next, GetDM

(* What a reader finds walking back from last are the newest frames of the log. *)
Remembered(len) == IF len < NumFrames - 1 THEN len ELSE NumFrames - 1

NewestOfLog ==
  [k \in 1 .. Remembered(Len(log)) |-> log[Len(log) - Remembered(Len(log)) + k].frame]

LEMMA RecentIs == TypeOK /\ RingInv /\ clean => RecentFrames = NewestOfLog
<1> SUFFICES ASSUME TypeOK, RingInv, clean PROVE RecentFrames = NewestOfLog
  OBVIOUS
<1> USE DEF NewestOfLog
<1> DEFINE L == Len(log)
           n == Remembered(L)
<1>1. L \in Nat /\ n \in Nat /\ n <= L /\ n <= NumFrames - 1 /\ NumFrames \in Nat
  BY ConstantsAssumption DEF TypeOK, Remembered
<1> SUFFICES ASSUME NEW k \in 1 .. n
             PROVE  FrameIn(PrevSlot(last, n - k)) = log[L - n + k].frame
  BY DEF RecentFrames, Remembered
<1> HIDE DEF n, L
<1> DEFINE i == L - n + k
<1>2. i \in 1 .. L /\ L \in 1 .. L /\ i <= L /\ L - i = n - k /\ L - i < NumFrames - 1
  BY <1>1
<1>3. log[i].slot \in Slots /\ log[i].frame \in Frame \cup {Garbage}
  BY <1>2, LogType DEF L
<1>4. last = log[L].slot
  <2>1. log # <<>>
    BY <1>2 DEF L
  <2>2. QED
    BY <2>1 DEF L, RingInv, LastIsNewest
<1>5. last \in {log[i].slot + (n - k), log[i].slot + (n - k) - NumFrames}
  <2>1. L - i < NumFrames
    BY <1>1, <1>2
  <2>2. QED
    BY <1>2, <1>4, <2>1 DEF RingInv, SlotsInOrder, L
<1>6. n - k \in Nat
  BY <1>1
<1> HIDE DEF i
<1>7. PrevSlot(last, n - k) = log[i].slot
  BY <1>1, <1>3, <1>5, <1>6 DEF PrevSlot, Slots
<1>8. Holds(log[i].slot, log[i].frame)
  BY <1>2 DEF RingInv, RecentFramesIntact, L
<1>9. buffer[log[i].slot][SOF] = [part |-> SOF, frame |-> log[i].frame]
  BY <1>8, PartsFacts DEF Holds
<1>10. buffer[log[i].slot][SOF] # Empty
  BY <1>3, <1>9, PartsFacts, ConstantsAssumption DEF Cell
<1>11. FrameIn(log[i].slot) = log[i].frame
  BY <1>8, <1>9, <1>10 DEF FrameIn
<1>12. QED
  BY <1>7, <1>11 DEF i

NewestFrames ==
  /\ RecentFrames \in Seq(Frame) /\ Len(RecentFrames) = Remembered(Len(log))
  /\ \A k \in 1 .. Remembered(Len(log)) :
       RecentFrames[k] = log[Len(log) - Remembered(Len(log)) + k].frame

LEMMA RecentType == TypeOK /\ RingInv /\ InStep /\ clean => NewestFrames
<1> SUFFICES ASSUME TypeOK, RingInv, InStep, clean PROVE NewestFrames
  OBVIOUS
<1> DEFINE L == Len(log)
           n == Remembered(L)
<1>1. L \in Nat /\ n \in Nat /\ n <= L
  BY ConstantsAssumption DEF TypeOK, Remembered
<1>2. RecentFrames = [k \in 1 .. n |-> log[L - n + k].frame]
  BY RecentIs DEF NewestOfLog
<1> HIDE DEF n, L
<1>3. \A k \in 1 .. n : L - n + k \in 1 .. L
  BY <1>1
<1>4. \A k \in 1 .. n : log[L - n + k].frame \in Frame
  BY <1>3 DEF InStep, L
<1>5. RecentFrames \in [1 .. n -> Frame]
  BY <1>2, <1>4
<1>6. RecentFrames \in Seq(Frame) /\ Len(RecentFrames) = n
  BY <1>1, <1>5
<1>7. QED
  BY <1>2, <1>6 DEF n, L, NewestFrames

(* A published frame is one more for the reader, at the cost of the oldest. *)
LEMMA PublishFills ==
  ASSUME TypeOK, RingInv, InStep, TypeOK', RingInv', InStep', clean, Publish
  PROVE  Feed!Fill
<1> DEFINE L == Len(log)
           n == Remembered(L)
           m == Remembered(L + 1)
           R == RecentFrames
<1>1. /\ log' = Append(log, [frame |-> incoming, slot |-> active])
      /\ part = Total /\ clean'
  BY DEF Publish
<1>2. /\ L \in Nat /\ Len(log') = L + 1
      /\ log'[L + 1].frame = incoming
      /\ \A i \in 1 .. L : log'[i] = log[i]
  BY <1>1 DEF TypeOK
<1>3. incoming \in Frame
  BY <1>1, PartsFacts DEF InStep, SOF
<1>4. /\ R \in Seq(Frame) /\ Len(R) = n
      /\ \A k \in 1 .. n : R[k] = log[L - n + k].frame
  BY RecentType DEF NewestFrames
<1>5. /\ R' \in Seq(Frame) /\ Len(R') = m
      /\ \A k \in 1 .. m : R'[k] = log'[L + 1 - m + k].frame
  <2>1. (TypeOK /\ RingInv /\ InStep /\ clean => NewestFrames)'
    BY RecentType, PTL
  <2>2. NewestFrames'
    BY <1>1, <2>1
  <2>3. QED
    BY <1>2, <2>2 DEF NewestFrames
<1>6. /\ n \in Nat /\ n <= L /\ n <= NumFrames - 1 /\ NumFrames - 1 \in Nat \ {0}
      /\ IF n < NumFrames - 1 THEN m = n + 1 /\ n = L ELSE m = n /\ n = NumFrames - 1
  BY <1>2, ConstantsAssumption DEF Remembered
<1> HIDE DEF n, m, L, R
<1>7. CASE n < NumFrames - 1
  <2>1. Append(R, incoming) \in Seq(Frame) /\ Len(Append(R, incoming)) = n + 1
    BY <1>3, <1>4
  <2>2. ASSUME NEW k \in 1 .. n + 1
        PROVE  R'[k] = Append(R, incoming)[k]
    <3>1. R'[k] = log'[k].frame
      BY <1>2, <1>5, <1>6, <1>7
    <3>2. CASE k = n + 1
      BY <1>2, <1>4, <1>6, <1>7, <3>1, <3>2
    <3>3. CASE k \in 1 .. n
      <4>1. R[k] = log[k].frame
        BY <1>2, <1>4, <1>6, <1>7, <3>3
      <4>2. Append(R, incoming)[k] = R[k]
        BY <1>3, <1>4, <3>3
      <4>3. QED
        BY <1>2, <1>6, <1>7, <3>1, <3>3, <4>1, <4>2
    <3>4. k = n + 1 \/ k \in 1 .. n
      BY <1>6
    <3>5. QED
      BY <3>2, <3>3, <3>4
  <2>3. R' = Append(R, incoming)
    BY <1>5, <1>6, <1>7, <2>1, <2>2, SeqEqual
  <2>4. QED
    BY <1>1, <1>3, <1>4, <1>7, <2>3 DEF Feed!Fill, R
<1>8. CASE n = NumFrames - 1
  <2> DEFINE T == Append(Tail(R), incoming)
  <2>1. R # <<>>
    BY <1>4, <1>6, <1>8
  <2>2. /\ Tail(R) \in Seq(Frame) /\ Len(Tail(R)) = n - 1
        /\ \A k \in 1 .. n - 1 : Tail(R)[k] = R[k + 1]
    BY <1>4, <2>1, HeadTailProperties
  <2>3. T \in Seq(Frame) /\ Len(T) = n
    BY <1>3, <1>6, <2>2
  <2>4. ASSUME NEW k \in 1 .. n
        PROVE  R'[k] = T[k]
    <3>1. R'[k] = log'[L + 1 - n + k].frame
      BY <1>5, <1>6, <1>8
    <3>2. CASE k = n
      BY <1>2, <1>3, <1>6, <2>2, <3>1, <3>2
    <3>3. CASE k \in 1 .. n - 1
      <4>1. k + 1 \in 1 .. n /\ L + 1 - n + k = L - n + (k + 1) /\ L - n + (k + 1) \in 1 .. L
        BY <1>2, <1>6, <3>3
      <4>2. T[k] = R[k + 1]
        BY <1>3, <2>2, <3>3
      <4>3. R[k + 1] = log[L - n + (k + 1)].frame
        BY <1>4, <4>1
      <4>4. QED
        BY <1>2, <3>1, <4>1, <4>2, <4>3
    <3>4. k = n \/ k \in 1 .. n - 1
      BY <1>6
    <3>5. QED
      BY <3>2, <3>3, <3>4
  <2>5. R' = T
    <3>1. R' \in Seq(Frame) /\ Len(R') = Len(T)
      BY <1>5, <1>6, <1>8, <2>3
    <3>2. \A k \in 1 .. Len(R') : R'[k] = T[k]
      BY <2>3, <2>4, <3>1
    <3> HIDE DEF T
    <3>3. QED
      BY <2>3, <3>1, <3>2, SeqEqual
  <2>6. QED
    BY <1>1, <1>3, <1>4, <1>8, <2>5 DEF Feed!Fill, R
<1>9. QED
  BY <1>6, <1>7, <1>8

(* Everything else the threads do is invisible to a reader walking back from   *)
(* last, or is the step that ends the promise.                                 *)
LEMMA StepFeeds ==
  ASSUME TypeOK, OneWriter, RingInv, InStep, TypeOK', RingInv', InStep', [Next]_vars
  PROVE  [Feed!FNext]_(Feed!fvars)
<1> DEFINE Past == IF clean THEN RecentFrames ELSE <<>>
<1>1. clean \in BOOLEAN /\ clean' \in BOOLEAN
  BY DEF TypeOK
<1>2. clean' => clean
  BY <1>1 DEF Next, GetDM, Outer, Connect, Hello, LeaveFrames, Quiet, ReadSOF, LoseStep,
     SearchSOF, ReadNumber,
     ReadData, Publish, StopDM, ConnectDM, Drop, GiveUp, vars
<1>3. CASE ~clean'
  <2>1. CASE clean
    BY <1>3, <2>1 DEF Feed!FNext, Feed!Spoil
  <2>2. CASE ~clean
    BY <1>3, <2>2 DEF Feed!FNext
  <2>3. QED
    BY <2>1, <2>2
<1>4. CASE clean' /\ Publish
  BY <1>2, <1>4, PublishFills DEF Feed!FNext
<1>5. CASE clean' /\ ~Publish
  <2>1. UNCHANGED log
    BY <1>5 DEF Next, GetDM, Outer, Connect, Hello, LeaveFrames, Quiet, ReadSOF,
       LoseStep, SearchSOF, ReadNumber, ReadData, StopDM, ConnectDM, Drop, GiveUp, ringVars, vars
  <2>2. RecentFrames = NewestOfLog
    BY <1>2, <1>5, RecentIs
  <2>3. (TypeOK /\ RingInv /\ clean => RecentFrames = NewestOfLog)'
    BY RecentIs, PTL
  <2>4. RecentFrames' = RecentFrames
    BY <1>5, <2>1, <2>2, <2>3 DEF NewestOfLog
  <2>5. clean' = clean
    BY <1>1, <1>2, <1>5
  <2>6. QED
    BY <2>4, <2>5 DEF Feed!fvars
<1>6. QED
  BY <1>3, <1>4, <1>5

(* The ring with its pointers and its writer implements FrameFeed: a reader finds *)
(* the newest NumFrames - 1 frames, in order, and each new frame costs only the   *)
(* oldest, until a frame is given up half way.                                    *)
THEOREM RingRefinesFeed == Spec => RingImplementsFeed
<1>1. Init => InStep
  BY DEF Init, InStep
<1>2. /\ TypeOK /\ TypeOK' /\ OneWriter /\ RingInv /\ InStep /\ [Next]_vars => InStep'
  BY InStepKept
<1>3. Init => Feed!FInit
  <2> SUFFICES ASSUME Init PROVE RecentFrames = <<>> /\ clean = TRUE
    BY DEF Feed!FInit
  <2>1. log = <<>> /\ Len(log) = 0 /\ clean = TRUE
    BY DEF Init
  <2>2. 0 < NumFrames - 1
    BY ConstantsAssumption
  <2>3. QED
    BY <2>1, <2>2 DEF RecentFrames
<1>4. /\ TypeOK /\ OneWriter /\ RingInv /\ InStep /\ TypeOK' /\ RingInv' /\ InStep'
      /\ [Next]_vars
      => [Feed!FNext]_(Feed!fvars)
  BY StepFeeds
<1>5. QED
  BY <1>1, <1>2, <1>3, <1>4, TypeCorrect, FlagsDown, RingCorrect, PTL
     DEF Spec, RingImplementsFeed, Feed!FSpec


-----------------------------------------------------------------------------
(* Remainders                                                              *)

LEMMA Divides ==
  ASSUME NEW N \in Nat \ {0}, NEW n \in Nat
  PROVE  (n % N) \in 0 .. N - 1 /\ n \div N \in Nat /\ n = N * (n \div N) + (n % N)
OBVIOUS

\* A multiple of N and a multiple of N that is greater are N apart at least.
LEMMA MultiplesApart ==
  ASSUME NEW N \in Nat \ {0}, NEW a \in Nat, NEW b \in Nat, a < b
  PROVE  N * a \in Nat /\ N * b \in Nat /\ N * a + N <= N * b
<1>1. PICK c \in Nat : b = a + 1 + c
  <2>1. b - a - 1 \in Nat /\ b = a + 1 + (b - a - 1)
    OBVIOUS
  <2>2. QED
    BY <2>1
<1>2. N * (a + 1 + c) = N * a + N + N * c
  OBVIOUS
<1>3. N * c \in Nat /\ N * a \in Nat
  OBVIOUS
<1>4. QED
  BY <1>1, <1>2, <1>3

LEMMA UniqueRemainder ==
  ASSUME NEW N \in Nat \ {0}, NEW q \in Nat, NEW p \in Nat,
         NEW r \in 0 .. N - 1, NEW t \in 0 .. N - 1, N * q + r = N * p + t
  PROVE  r = t
<1>1. N * q \in Nat /\ N * p \in Nat
  OBVIOUS
<1>2. CASE q < p
  BY <1>1, <1>2, MultiplesApart
<1>3. CASE p < q
  BY <1>1, <1>3, MultiplesApart
<1>4. CASE p = q
  BY <1>1, <1>4
<1>5. QED
  BY <1>2, <1>3, <1>4

LEMMA NextRemainder ==
  ASSUME NEW N \in Nat \ {0}, NEW n \in Nat
  PROVE  (n + 1) % N = IF (n % N) + 1 >= N THEN 0 ELSE (n % N) + 1
<1> DEFINE q == n \div N
           p == (n + 1) \div N
           r == n % N
           t == (n + 1) % N
<1>1. /\ r \in 0 .. N - 1 /\ t \in 0 .. N - 1
      /\ q \in Nat /\ p \in Nat
      /\ n = N * q + r /\ n + 1 = N * p + t
  BY Divides, n + 1 \in Nat
<1> HIDE DEF q, p, r, t
<1>2. N * q \in Nat /\ N * p \in Nat /\ N * (q + 1) = N * q + N
  BY <1>1
<1>3. CASE r + 1 < N
  <2>1. N * q + (r + 1) = N * p + t /\ r + 1 \in 0 .. N - 1
    BY <1>1, <1>2, <1>3
  <2>2. r + 1 = t
    BY <1>1, <2>1, UniqueRemainder
  <2>3. QED
    BY <1>1, <1>3, <2>2 DEF r, t
<1>4. CASE r + 1 >= N
  <2>1. N * (q + 1) + 0 = N * p + t /\ q + 1 \in Nat /\ 0 \in 0 .. N - 1
    BY <1>1, <1>2, <1>4
  <2>2. 0 = t
    BY <1>1, <2>1, UniqueRemainder
  <2>3. QED
    BY <1>1, <1>4, <2>2 DEF r, t
<1>5. QED
  BY <1>1, <1>3, <1>4

\* Two numbers with the same remainder are a multiple of N apart.
LEMMA SameRemainder ==
  ASSUME NEW N \in Nat \ {0}, NEW a \in Nat, NEW b \in Nat, b <= a, a % N = b % N
  PROVE  (a - b) % N = 0 /\ (a - b < N => a = b)
<1> DEFINE qa == a \div N
           qb == b \div N
           r == a % N
           k == (a - b) \div N
           t == (a - b) % N
<1>1. /\ r \in 0 .. N - 1 /\ qa \in Nat /\ qb \in Nat
      /\ a = N * qa + r /\ b = N * qb + r
      /\ k \in Nat /\ t \in 0 .. N - 1 /\ a - b = N * k + t
  BY Divides, a - b \in Nat
<1> HIDE DEF qa, qb, r, k, t
<1>2. N * qa \in Nat /\ N * qb \in Nat
  BY <1>1
<1>3. ~(qa < qb)
  BY <1>1, <1>2, MultiplesApart
<1>4. PICK d \in Nat : qa = qb + d
  <2>1. qa - qb \in Nat /\ qa = qb + (qa - qb)
    BY <1>1, <1>3
  <2>2. QED
    BY <2>1
<1>5. N * (qb + d) = N * qb + N * d /\ N * d \in Nat
  BY <1>1
<1>6. N * d + 0 = N * k + t /\ 0 \in 0 .. N - 1 /\ a - b = N * d
  BY <1>1, <1>2, <1>4, <1>5
<1>7. 0 = t
  BY <1>1, <1>6, UniqueRemainder
<1>8. ASSUME a - b < N PROVE a = b
  <2>1. ~(0 < d)
    BY <1>5, <1>6, <1>8, MultiplesApart
  <2>2. d = 0 /\ N * 0 = 0
    BY <2>1
  <2>3. QED
    BY <1>6, <2>2
<1>9. QED
  BY <1>7, <1>8 DEF t

-----------------------------------------------------------------------------
(* The slot of a frame is the remainder of its number.                     *)

SlotOf(n) == n % NumFrames

LEMMA SlotType ==
  ASSUME NEW n \in Nat
  PROVE  SlotOf(n) \in Slots
<1>1. NumFrames \in Nat \ {0}
  BY ConstantsAssumption
<1>2. QED
  BY <1>1, Divides DEF SlotOf, Slots

\* The frame after the one in the last slot is in the first slot.
LEMMA NextSlot ==
  ASSUME NEW n \in Nat
  PROVE  SlotOf(n + 1) = NextFrame(SlotOf(n))
<1>1. NumFrames \in Nat \ {0}
  BY ConstantsAssumption
<1>2. SlotOf(n) \in 0 .. NumFrames - 1
  BY SlotType DEF Slots
<1>3. SlotOf(n + 1) = IF SlotOf(n) + 1 >= NumFrames THEN 0 ELSE SlotOf(n) + 1
  BY <1>1, NextRemainder DEF SlotOf
<1>4. QED
  BY <1>1, <1>2, <1>3 DEF NextFrame

LEMMA FirstSlot == SlotOf(0) = 0
<1>1. NumFrames \in Nat \ {0}
  BY ConstantsAssumption
<1>2. QED
  BY <1>1 DEF SlotOf

\* Numbers with the same slot are whole laps of the ring apart.
LEMMA WholeLaps ==
  ASSUME NEW a \in Nat, NEW b \in Nat, b <= a, SlotOf(a) = SlotOf(b)
  PROVE  (a - b) % NumFrames = 0 /\ (a - b < NumFrames => a = b)
<1>1. NumFrames \in Nat \ {0}
  BY ConstantsAssumption
<1>2. QED
  BY <1>1, SameRemainder DEF SlotOf

-----------------------------------------------------------------------------
(***************************************************************************)
(* The numbers of the frames, as long as no frame was given up half way    *)
(* and the PCR does not number from 0 again.                               *)
(***************************************************************************)

\* The frames whose number has come in: those of the log and the one being received.
Received == Len(log) + (IF part > NUMBER THEN 1 ELSE 0)

\* Frames go round the ring: place i of the log is in slot i - 1, counted in laps.
SlotsNumbered ==
  /\ active = SlotOf(Len(log))
  /\ \A i \in 1 .. Len(log) : log[i].slot = SlotOf(i - 1)

\* The PCR counts the frames, and none is missing in the log.
FramesNumbered ==
  clean =>
    /\ sent = Len(log) + (IF part = SOF THEN 0 ELSE 1)
    /\ part # SOF => incoming \in Frame /\ incoming.number = Len(log)
    /\ \A i \in 1 .. Len(log) : log[i].frame.number = i - 1

\* Slot s has the newest frame number received for it, if any was.
NumberCell(s) ==
  \/ /\ buffer[s][NUMBER] = Empty
     /\ \A i \in 1 .. Received : SlotOf(i - 1) # s
  \/ \E f \in Frame :
       /\ buffer[s][NUMBER] = [part |-> NUMBER, frame |-> f]
       /\ SlotOf(f.number) = s /\ f.number < Received
       /\ \A i \in 1 .. Received : SlotOf(i - 1) = s => i - 1 <= f.number

NumberCells == clean => \A s \in Slots : NumberCell(s)

\* What a step does to the numbers while no frame is given up.
NumbersSame == \A s \in Slots : buffer'[s][NUMBER] = buffer[s][NUMBER]

Idling ==
  /\ UNCHANGED <<log, active, part, sent>> /\ NumbersSame
  /\ part # SOF => UNCHANGED incoming

Beginning ==
  /\ part = SOF /\ part' = NUMBER /\ sent <= MaxNumber /\ sent' = sent + 1
  /\ incoming' = [session |-> session, number |-> sent]
  /\ UNCHANGED <<log, active>> /\ NumbersSame

Numbering ==
  /\ part = NUMBER /\ part' = Header
  /\ buffer' = Stored(0, [part |-> NUMBER, frame |-> incoming])
  /\ UNCHANGED <<log, active, incoming, sent>>

Filling ==
  /\ part \in Header .. Total - 1 /\ part' = part + 1
  /\ UNCHANGED <<log, active, incoming, sent>> /\ NumbersSame

(* A read into a part of the slot that is not the number leaves all numbers. *)
LEMMA OtherPart ==
  ASSUME TypeOK, NEW d \in Int, offset + d \in Parts, offset + d # NUMBER, NEW v,
         buffer' = Stored(d, v) \/ UNCHANGED buffer
  PROVE  NumbersSame
<1>1. CASE buffer' = Stored(d, v)
  <2>1. \A s \in Slots : Stored(d, v)[s][NUMBER] = buffer[s][NUMBER]
    BY StoredAt, PartsFacts
  <2>2. QED
    BY <1>1, <2>1 DEF NumbersSame
<1>2. CASE UNCHANGED buffer
  BY <1>2 DEF NumbersSame
<1>3. QED
  BY <1>1, <1>2

(* Every step that spoils nothing waits, receives a part or publishes. *)
LEMMA CleanStep ==
  ASSUME TypeOK, OneWriter, RingInv, ~Restarts, [Next]_vars, clean'
  PROVE  clean /\ (Idling \/ Beginning \/ Numbering \/ Filling \/ Publish)
<1> USE DEF linkVars, ctlVars, ringVars
<1>0. /\ part # SOF => pc = "frame"
      /\ clean => offset = IF part < Header THEN part ELSE Header
  BY DEF RingInv, ActivePartlyFilled
<1>1. ASSUME UNCHANGED <<log, active, part, sent, buffer, incoming, clean>>
      PROVE  clean /\ Idling
  BY <1>1 DEF Idling, NumbersSame
<1>2. CASE Outer \/ Hello \/ LeaveFrames \/ Quiet \/ StopDM \/ ConnectDM \/ Drop
  BY <1>1, <1>2 DEF Outer, Hello, LeaveFrames, Quiet, StopDM, ConnectDM, Drop
<1>3. CASE Connect
  <2>1. part = SOF /\ UNCHANGED <<log, active, part, buffer, clean>>
    BY <1>0, <1>3 DEF Connect
  <2>2. sent' = sent
    BY <1>3 DEF Connect
  <2>3. QED
    BY <2>1, <2>2 DEF Idling, NumbersSame
<1>4. ASSUME PartlyStored(0), GiveUp, part = SOF
      PROVE  clean /\ Idling
  <2>1. clean /\ offset = 0
    BY <1>0, <1>4 DEF GiveUp, SOF, Header
  <2>2. NumbersSame
    BY <1>4, <2>1, OtherPart, PartsFacts DEF PartlyStored, SOF, NUMBER
  <2>3. UNCHANGED <<log, active, part, sent, incoming>>
    BY <1>4 DEF GiveUp
  <2>4. QED
    BY <2>1, <2>2, <2>3 DEF Idling
<1>5. CASE ReadSOF
  <2>1. part = SOF
    BY <1>5 DEF ReadSOF
  <2>2. CASE /\ sent <= MaxNumber
             /\ incoming' = [session |-> session, number |-> sent]
             /\ sent' = sent + 1
             /\ buffer' = Stored(0, [part |-> SOF, frame |-> incoming'])
             /\ part' = NUMBER
             /\ UNCHANGED <<clean, active, log>>
    <3>1. clean /\ offset = 0
      BY <1>0, <2>1, <2>2 DEF SOF, Header
    <3>2. NumbersSame
      BY <2>2, <3>1, OtherPart, PartsFacts DEF SOF, NUMBER
    <3>3. QED
      BY <2>1, <2>2, <3>1, <3>2 DEF Beginning
  <2>3. QED
    BY <1>4, <1>5, <2>1, <2>2 DEF ReadSOF, LoseStep
<1>6. CASE ReadNumber
  <2>1. part = NUMBER /\ part # SOF
    BY <1>6 DEF ReadNumber, SOF, NUMBER
  <2>2. ~GiveUp
    BY <2>1 DEF GiveUp
  <2>3. /\ buffer' = Stored(0, [part |-> NUMBER, frame |-> incoming])
        /\ part' = Header
        /\ UNCHANGED <<active, log, incoming, sent, clean>>
    BY <1>6, <2>2 DEF ReadNumber
  <2>4. QED
    BY <2>1, <2>3 DEF Numbering
<1>7. CASE ReadData
  <2>1. part \in Header .. Total - 1 /\ part # SOF /\ part \in Parts /\ part # NUMBER
    BY <1>7, PartsFacts DEF ReadData, SOF, NUMBER, Header
  <2>2. ~GiveUp
    BY <2>1 DEF GiveUp
  <2>3. /\ buffer' = Stored(part - Header, [part |-> part, frame |-> incoming])
        /\ part' = part + 1
        /\ UNCHANGED <<active, log, incoming, sent, clean>>
    BY <1>7, <2>2 DEF ReadData
  <2>4. part - Header \in Int /\ offset + (part - Header) = part
    BY <1>0, <2>1, <2>3 DEF Header
  <2>5. NumbersSame
    BY <2>1, <2>3, <2>4, OtherPart
  <2>6. QED
    BY <2>1, <2>3, <2>5 DEF Filling
<1>8. CASE Publish
  BY <1>8 DEF Publish
<1>9. CASE UNCHANGED vars
  BY <1>1, <1>9 DEF vars
<1>10. ~SearchSOF
  BY DEF SearchSOF
<1>11. QED
  BY <1>2, <1>3, <1>5, <1>6, <1>7, <1>8, <1>9, <1>10 DEF Next, GetDM

(* The log is only ever added to, and a frame given up is not forgotten. *)
LEMMA RingGrows ==
  ASSUME TypeOK, [Next]_vars
  PROVE  /\ clean' => clean
         /\ UNCHANGED <<log, active>> \/ Publish
         /\ Len(log) \in Nat /\ Len(log') \in Nat /\ Len(log') >= Len(log)
         /\ \A i \in 1 .. Len(log) : log'[i] = log[i]
<1> USE DEF linkVars, ctlVars, ringVars
<1>1. clean \in BOOLEAN /\ Len(log) \in Nat
  BY DEF TypeOK
<1>2. clean' => clean
  BY <1>1 DEF Next, GetDM, Outer, Connect, Hello, LeaveFrames, Quiet, ReadSOF, LoseStep,
     SearchSOF, ReadNumber,
     ReadData, Publish, StopDM, ConnectDM, Drop, GiveUp, vars
<1>3. UNCHANGED <<log, active>> \/ Publish
  BY DEF Next, GetDM, Outer, Connect, Hello, LeaveFrames, Quiet, ReadSOF, LoseStep,
     SearchSOF, ReadNumber,
     ReadData, StopDM, ConnectDM, Drop, GiveUp, vars
<1>4. CASE UNCHANGED <<log, active>>
  BY <1>1, <1>2, <1>4
<1>5. CASE Publish
  <2>1. log' = Append(log, [frame |-> incoming, slot |-> active])
    BY <1>5 DEF Publish
  <2>2. Len(log') = Len(log) + 1 /\ \A i \in 1 .. Len(log) : log'[i] = log[i]
    BY <2>1 DEF TypeOK
  <2>3. QED
    BY <1>1, <1>2, <1>5, <2>2
<1>6. QED
  BY <1>3, <1>4, <1>5

LEMMA Published ==
  ASSUME TypeOK, Publish
  PROVE  /\ Len(log) \in Nat /\ Len(log') = Len(log) + 1
         /\ log'[Len(log) + 1] = [frame |-> incoming, slot |-> active]
         /\ \A i \in 1 .. Len(log) : log'[i] = log[i]
<1>1. log' = Append(log, [frame |-> incoming, slot |-> active])
  BY DEF Publish
<1>2. QED
  BY <1>1 DEF TypeOK

LEMMA SlotsNumberedKept ==
  ASSUME TypeOK, SlotsNumbered, [Next]_vars
  PROVE  SlotsNumbered'
<1>1. CASE UNCHANGED <<log, active>>
  BY <1>1 DEF SlotsNumbered
<1>2. CASE Publish
  <2>1. active' = NextFrame(active)
    BY <1>2 DEF Publish
  <2>2. active' = SlotOf(Len(log'))
    BY <1>2, <2>1, Published, NextSlot DEF SlotsNumbered
  <2>3. ASSUME NEW i \in 1 .. Len(log') PROVE log'[i].slot = SlotOf(i - 1)
    <3>1. CASE i = Len(log) + 1
      <4>1. log'[i].slot = active /\ i - 1 = Len(log)
        BY <1>2, <3>1, Published
      <4>2. QED
        BY <4>1 DEF SlotsNumbered
    <3>2. CASE i \in 1 .. Len(log)
      BY <1>2, <3>2, Published DEF SlotsNumbered
    <3>3. QED
      BY <1>2, <3>1, <3>2, Published
  <2>4. QED
    BY <2>2, <2>3 DEF SlotsNumbered
<1>3. QED
  BY <1>1, <1>2, RingGrows

LEMMA FramesNumberedKept ==
  ASSUME TypeOK, OneWriter, RingInv, ~Restarts, FramesNumbered, [Next]_vars
  PROVE  FramesNumbered'
<1> SUFFICES ASSUME clean' PROVE FramesNumbered'
  BY DEF FramesNumbered
<1>0. /\ clean
      /\ sent = Len(log) + (IF part = SOF THEN 0 ELSE 1)
      /\ part # SOF => incoming \in Frame /\ incoming.number = Len(log)
      /\ \A i \in 1 .. Len(log) : log[i].frame.number = i - 1
  BY RingGrows DEF FramesNumbered
<1>1. CASE Idling
  BY <1>0, <1>1 DEF Idling, FramesNumbered
<1>2. CASE Beginning
  <2>1. incoming' \in Frame /\ incoming'.number = Len(log)
    BY <1>0, <1>2 DEF Beginning, Frame, TypeOK
  <2>2. sent' = Len(log) + 1 /\ part' # SOF /\ log' = log
    BY <1>0, <1>2 DEF Beginning, SOF, NUMBER, TypeOK
  <2>3. QED
    BY <1>0, <2>1, <2>2 DEF FramesNumbered
<1>3. CASE Numbering \/ Filling
  <2>1. part # SOF /\ part' # SOF /\ UNCHANGED <<log, incoming, sent>>
    BY <1>3, PartsFacts DEF Numbering, Filling, SOF, NUMBER, Header
  <2>2. QED
    BY <1>0, <2>1 DEF FramesNumbered
<1>4. CASE Publish
  <2>1. part # SOF /\ part' = SOF /\ UNCHANGED <<incoming, sent>>
    BY <1>4, PartsFacts DEF Publish, SOF, linkVars
  <2>2. sent' = Len(log') + (IF part' = SOF THEN 0 ELSE 1)
    BY <1>0, <1>4, <2>1, Published
  <2>3. ASSUME NEW i \in 1 .. Len(log') PROVE log'[i].frame.number = i - 1
    <3>1. CASE i = Len(log) + 1
      BY <1>0, <1>4, <2>1, <3>1, Published
    <3>2. CASE i \in 1 .. Len(log)
      BY <1>0, <1>4, <3>2, Published
    <3>3. QED
      BY <1>4, <3>1, <3>2, Published
  <2>4. QED
    BY <2>1, <2>2, <2>3 DEF FramesNumbered
<1>5. QED
  BY <1>1, <1>2, <1>3, <1>4, CleanStep

(* How many numbers have come in: a step adds one, the next, or none. *)
LEMMA ReceivedStep ==
  ASSUME TypeOK, OneWriter, RingInv, ~Restarts, [Next]_vars, clean'
  PROVE  /\ Received \in Nat /\ Received' \in Nat
         /\ Numbering => Received = Len(log) /\ Received' = Len(log) + 1
         /\ ~Numbering => Received' = Received /\ NumbersSame
<1>1. Len(log) \in Nat /\ part \in 0 .. Total
  BY DEF TypeOK
<1>2. CASE Numbering
  BY <1>1, <1>2 DEF Numbering, Received, NUMBER, Header
<1>3. CASE ~Numbering /\ Idling
  BY <1>1, <1>3 DEF Idling, Received, NUMBER
<1>4. CASE ~Numbering /\ Beginning
  BY <1>1, <1>4 DEF Beginning, Received, NUMBER, SOF
<1>5. CASE ~Numbering /\ Filling
  <2>1. part > NUMBER /\ part' > NUMBER
    BY <1>5, PartsFacts DEF Filling, NUMBER, Header
  <2>2. QED
    BY <1>1, <1>5, <2>1 DEF Filling, Received
<1>6. CASE ~Numbering /\ Publish
  <2>1. part > NUMBER /\ ~(part' > NUMBER) /\ UNCHANGED buffer
    BY <1>6, PartsFacts DEF Publish, NUMBER, SOF
  <2>2. QED
    BY <1>1, <1>6, <2>1, Published DEF Received, NumbersSame
<1>7. QED
  BY <1>2, <1>3, <1>4, <1>5, <1>6, CleanStep

LEMMA NumberCellsKept ==
  ASSUME TypeOK, OneWriter, RingInv, ~Restarts, SlotsNumbered, FramesNumbered,
         NumberCells, [Next]_vars
  PROVE  NumberCells'
<1> SUFFICES ASSUME clean', NEW s \in Slots PROVE NumberCell(s)'
  BY DEF NumberCells
<1>1. NumberCell(s)
  BY RingGrows DEF NumberCells
<1>2. CASE ~Numbering
  <2>1. Received' = Received /\ buffer'[s][NUMBER] = buffer[s][NUMBER]
    BY <1>2, ReceivedStep DEF NumbersSame
  <2>2. QED
    BY <1>1, <2>1 DEF NumberCell
<1>3. CASE Numbering
  <2>0. /\ Len(log) \in Nat /\ Received = Len(log) /\ Received' = Len(log) + 1
        /\ active = SlotOf(Len(log)) /\ active \in Slots
        /\ \A i \in 1 .. Len(log) + 1 : i = Len(log) + 1 \/ i \in 1 .. Len(log)
    BY <1>3, ReceivedStep DEF SlotsNumbered, TypeOK
  <2>1. /\ incoming \in Frame /\ incoming.number = Len(log)
        /\ offset = NUMBER /\ NUMBER \in Parts
    <3>1. clean /\ part = NUMBER
      BY <1>3, RingGrows DEF Numbering
    <3>2. QED
      BY <3>1, PartsFacts DEF FramesNumbered, RingInv, ActivePartlyFilled, SOF, NUMBER, Header
  <2>2. buffer'[s][NUMBER] = IF s = active THEN [part |-> NUMBER, frame |-> incoming]
                                           ELSE buffer[s][NUMBER]
    <3>1. offset + 0 = NUMBER
      BY <2>1 DEF NUMBER
    <3>2. QED
      BY <1>3, <2>1, <3>1, StoredAt DEF Numbering
  <2>3. CASE s = active
    <3>1. incoming.number < Received'
      BY <2>0, <2>1
    <3>2. \A i \in 1 .. Received' : i - 1 <= incoming.number
      BY <2>0, <2>1
    <3>3. QED
      BY <2>0, <2>1, <2>2, <2>3, <3>1, <3>2 DEF NumberCell
  <2>4. CASE s # active
    <3>1. \A i \in 1 .. Received' : SlotOf(i - 1) = s => i \in 1 .. Received
      <4>1. SlotOf(Len(log) + 1 - 1) # s
        BY <2>0, <2>4
      <4>2. QED
        BY <2>0, <4>1
    <3>2. buffer'[s][NUMBER] = buffer[s][NUMBER]
      BY <2>2, <2>4
    <3>3. CASE buffer[s][NUMBER] = Empty /\ \A i \in 1 .. Received : SlotOf(i - 1) # s
      BY <3>1, <3>2, <3>3 DEF NumberCell
    <3>4. CASE \E f \in Frame :
                 /\ buffer[s][NUMBER] = [part |-> NUMBER, frame |-> f]
                 /\ SlotOf(f.number) = s /\ f.number < Received
                 /\ \A i \in 1 .. Received : SlotOf(i - 1) = s => i - 1 <= f.number
      <4>1. PICK f \in Frame :
              /\ buffer[s][NUMBER] = [part |-> NUMBER, frame |-> f]
              /\ SlotOf(f.number) = s /\ f.number < Received
              /\ \A i \in 1 .. Received : SlotOf(i - 1) = s => i - 1 <= f.number
        BY <3>4
      <4>2. f.number < Received'
        BY <2>0, <4>1 DEF Frame
      <4>3. \A i \in 1 .. Received' : SlotOf(i - 1) = s => i - 1 <= f.number
        BY <3>1, <4>1
      <4>4. QED
        BY <3>2, <4>1, <4>2, <4>3 DEF NumberCell
    <3>5. QED
      BY <1>1, <3>3, <3>4 DEF NumberCell
  <2>5. QED
    BY <2>3, <2>4
<1>4. QED
  BY <1>2, <1>3

(* The numbers of the ring are in order: the PCR's frames are in the log one    *)
(* after the other and each slot has the newest of its numbers.                 *)
NumbersInOrder == SlotsNumbered /\ FramesNumbered /\ NumberCells

LEMMA InitNumbers == Init => NumbersInOrder
<1> SUFFICES ASSUME Init PROVE NumbersInOrder
  OBVIOUS
<1>1. /\ log = <<>> /\ Len(log) = 0 /\ active = 0 /\ part = SOF /\ sent = 0
      /\ \A i \in 1 .. Len(log) : FALSE
  BY DEF Init
<1>2. Received = 0 /\ \A i \in 1 .. Received : FALSE
  BY <1>1 DEF Received, SOF, NUMBER
<1>3. SlotsNumbered
  BY <1>1, FirstSlot DEF SlotsNumbered
<1>4. FramesNumbered
  BY <1>1 DEF FramesNumbered
<1>5. NumberCells
  BY <1>2, PartsFacts DEF NumberCells, NumberCell, Init
<1>6. QED
  BY <1>3, <1>4, <1>5 DEF NumbersInOrder

LEMMA RingNumbered == ASSUME ~Restarts PROVE Spec => []NumbersInOrder
<1>1. TypeOK /\ OneWriter /\ RingInv /\ NumbersInOrder /\ [Next]_vars => NumbersInOrder'
  BY SlotsNumberedKept, FramesNumberedKept, NumberCellsKept DEF NumbersInOrder
<1>2. QED
  BY <1>1, InitNumbers, TypeCorrect, FlagsDown, RingCorrect, PTL DEF Spec

-----------------------------------------------------------------------------
(***************************************************************************)
(* Clients and the ring: threads of clients only read it, and only their   *)
(* own variables change.                                                   *)
(***************************************************************************)

RingOK == TypeOK /\ OneWriter /\ RingInv /\ InStep

Mine(c) ==
  <<cpc[c], wanted[c], whole[c], slot[c], first[c], nextNumber[c], tries[c],
    sentNumber[c], sentCells[c], at[c]>>

SingleStep(c) == SingleHeader(c) \/ SingleSet(c) \/ SingleWrite(c)

ClientStep(c) ==
  \/ c \in Singles /\ SingleStep(c)
  \/ c \in Streams /\ (StreamRequest(c) \/ StreamStep(c) \/ StreamEnd(c))

LEMMA DSteps ==
  [DNext]_dvars =>
    \/ [Next]_vars /\ UNCHANGED clientVars
    \/ \E c \in Clients : ClientStep(c)
<1>1. Singles \subseteq Clients /\ Streams \subseteq Clients
  BY DEF Singles, Streams
<1>2. QED
  BY <1>1 DEF DNext, dvars, ClientStep, SingleStep

LEMMA ClientsLeaveRing == [DNext]_dvars => [Next]_vars
<1>1. ASSUME NEW c \in Clients, ClientStep(c) PROVE UNCHANGED vars
  BY <1>1 DEF ClientStep, SingleStep, SingleHeader, SingleSet, SingleWrite, StreamRequest,
     StreamStep, StreamStart, StreamHeader, StreamWrite, StreamAdvance, StreamPoll, StreamEnd
<1>2. QED
  BY <1>1, DSteps

LEMMA DSpecRing == DSpec => []RingOK
<1>1. DInit => Init
  BY DEF DInit
<1>2. Init => InStep
  BY DEF Init, InStep
<1>3. TypeOK /\ TypeOK' /\ OneWriter /\ RingInv /\ InStep /\ [Next]_vars => InStep'
  BY InStepKept
<1>4. Spec => []InStep
  BY <1>2, <1>3, TypeCorrect, FlagsDown, RingCorrect, PTL DEF Spec
<1>5. DSpec => Spec
  BY <1>1, ClientsLeaveRing, PTL DEF DSpec, Spec
<1>6. TypeOK /\ (OneWriter /\ SilentOutsideFrames) /\ RingInv /\ InStep => RingOK
  BY DEF RingOK
<1>7. QED
  BY <1>4, <1>5, <1>6, TypeCorrect, FlagsDown, RingCorrect, PTL

LEMMA RequestFacts ==
  ASSUME NEW r \in Requests
  PROVE  /\ r \in Seq(Sections) /\ Len(r) \in Nat /\ Len(r) >= 1
         /\ \A k \in 1 .. Len(r) : r[k] \in Sections /\ r[k] \in Parts
<1>1. PICK n \in 1 .. NumSections : r \in [1 .. n -> Sections]
  BY DEF Requests
<1>2. r \in Seq(Sections) /\ Len(r) = n
  BY <1>1, ConstantsAssumption
<1>3. QED
  BY <1>1, <1>2, PartsFacts DEF Sections

(* The number a client reads is one the PCR can send. *)
LEMMA NumberRead ==
  ASSUME TypeOK, NEW s \in Slots, NEW n \in NumberIn(s)
  PROVE  n \in 0 .. MaxNumber
<1>1. buffer[s][NUMBER] \in Cell \cup {Empty} /\ MaxNumber \in Nat
  BY PartsFacts, ConstantsAssumption DEF TypeOK
<1>2. CASE buffer[s][NUMBER] = Empty
  BY <1>1, <1>2 DEF NumberIn
<1>3. CASE buffer[s][NUMBER] # Empty /\ buffer[s][NUMBER].part = NUMBER
           /\ buffer[s][NUMBER].frame # Garbage
  <2>1. buffer[s][NUMBER].frame \in Frame
    BY <1>1, <1>3 DEF Cell
  <2>2. QED
    BY <1>3, <2>1 DEF NumberIn, Frame
<1>4. CASE buffer[s][NUMBER] # Empty
           /\ ~(buffer[s][NUMBER].part = NUMBER /\ buffer[s][NUMBER].frame # Garbage)
  BY <1>4 DEF NumberIn
<1>5. QED
  BY <1>2, <1>3, <1>4

-----------------------------------------------------------------------------
(* Types of the clients' variables *)

Pcs == {"idle", "set", "wait", "header", "write", "sent", "poll", "ended"}

ClientTypes ==
  /\ requests \in [Clients -> {"single", "stream"}]
  /\ cpc \in [Clients -> Pcs]
  /\ wanted \in [Clients -> Requests \cup {<<>>}]
  /\ whole \in [Clients -> BOOLEAN]
  /\ slot \in [Clients -> Slots]
  /\ first \in [Clients -> Slots \cup {-1}]
  /\ nextNumber \in [Clients -> 0 .. MaxNumber + 1]
  /\ tries \in [Clients -> 0 .. MaxTries + 1]
  /\ sentNumber \in [Clients -> 0 .. MaxNumber]
  /\ sentCells \in [Clients -> Seq(Cell \cup {Empty})]
  /\ at \in [Clients -> Seq(Nat)]

\* What the place in the thread says of what has been asked, polled and sent.
ClientShape(c) ==
  /\ cpc[c] # "idle" => wanted[c] \in Requests
  /\ cpc[c] = "poll" => tries[c] <= MaxTries
  /\ cpc[c] \in {"set", "write"} => Len(sentCells[c]) < Len(wanted[c])
  /\ requests[c] = "single" /\ cpc[c] \in {"set", "write"} => log # <<>>
  /\ requests[c] = "stream" /\ cpc[c] \notin {"idle", "ended"} => Len(at[c]) = 1

ClientsTyped == ClientTypes /\ \A c \in Clients : ClientShape(c)

(* A step of one client leaves the others alone. *)
LEMMA OthersUntouched ==
  ASSUME ClientTypes, NEW c \in Clients, ClientStep(c), NEW d \in Clients, d # c
  PROVE  UNCHANGED Mine(d)
<1> USE DEF ClientTypes, Mine, Go
<1>1. CASE SingleHeader(c)
  BY <1>1 DEF SingleHeader, Ask
<1>2. CASE SingleSet(c)
  BY <1>2 DEF SingleSet
<1>3. CASE SingleWrite(c)
  BY <1>3 DEF SingleWrite, CopySection
<1>4. CASE StreamRequest(c)
  BY <1>4 DEF StreamRequest, Ask
<1>5. CASE StreamStart(c)
  BY <1>5 DEF StreamStart
<1>6. CASE StreamHeader(c)
  BY <1>6 DEF StreamHeader
<1>7. CASE StreamWrite(c)
  BY <1>7 DEF StreamWrite, CopySection
<1>8. CASE StreamAdvance(c)
  BY <1>8 DEF StreamAdvance
<1>9. CASE StreamPoll(c)
  BY <1>9 DEF StreamPoll
<1>10. CASE StreamEnd(c)
  BY <1>10 DEF StreamEnd
<1>11. QED
  BY <1>1, <1>2, <1>3, <1>4, <1>5, <1>6, <1>7, <1>8, <1>9, <1>10
     DEF ClientStep, SingleStep, StreamStep

LEMMA ClientStepsKeepRing ==
  ASSUME NEW c, ClientStep(c)
  PROVE  UNCHANGED <<vars, requests>>
BY DEF ClientStep, SingleStep, SingleHeader, SingleSet, SingleWrite, StreamRequest,
   StreamStep, StreamStart, StreamHeader, StreamWrite, StreamAdvance, StreamPoll, StreamEnd

LEMMA LastSlot ==
  ASSUME TypeOK, RingInv
  PROVE  /\ log = <<>> => last = -1
         /\ log # <<>> => /\ last \in Slots /\ last = log[Len(log)].slot
                         /\ Len(log) \in 1 .. Len(log)
<1>1. log # <<>> => Len(log) \in 1 .. Len(log)
  BY DEF TypeOK
<1>2. QED
  BY <1>1, LogType DEF RingInv, LastIsNewest

(* The section sent next is a cell of the slot the client sends from. *)
LEMMA SectionSent ==
  ASSUME RingOK, ClientTypes, NEW c \in Clients, ClientShape(c), cpc[c] = "write",
         CopySection(c)
  PROVE  /\ sentCells' \in [Clients -> Seq(Cell \cup {Empty})]
         /\ Len(sentCells'[c]) = Len(sentCells[c]) + 1 /\ Len(sentCells[c]) \in Nat
         /\ sentCells'[c][Len(sentCells[c]) + 1]
              = buffer[slot[c]][wanted[c][Len(sentCells[c]) + 1]]
         /\ \A i \in 1 .. Len(sentCells[c]) : sentCells'[c][i] = sentCells[c][i]
         /\ Len(sentCells[c]) + 1 \in 1 .. Len(wanted[c])
         /\ wanted[c][Len(sentCells[c]) + 1] \in Sections
<1> DEFINE n == Len(sentCells[c])
           v == buffer[slot[c]][wanted[c][n + 1]]
<1>1. /\ sentCells[c] \in Seq(Cell \cup {Empty}) /\ wanted[c] \in Requests
      /\ slot[c] \in Slots /\ n < Len(wanted[c])
  BY DEF ClientTypes, ClientShape
<1>2. n \in Nat /\ n + 1 \in 1 .. Len(wanted[c])
  BY <1>1, RequestFacts
<1>3. wanted[c][n + 1] \in Sections /\ wanted[c][n + 1] \in Parts
  BY <1>1, <1>2, RequestFacts
<1>4. v \in Cell \cup {Empty}
  BY <1>1, <1>3 DEF RingOK, TypeOK
<1>5. sentCells' = [sentCells EXCEPT ![c] = Append(sentCells[c], v)]
  BY DEF CopySection
<1> HIDE DEF v
<1>6. /\ Append(sentCells[c], v) \in Seq(Cell \cup {Empty})
      /\ Len(Append(sentCells[c], v)) = n + 1 /\ Append(sentCells[c], v)[n + 1] = v
      /\ \A i \in 1 .. n : Append(sentCells[c], v)[i] = sentCells[c][i]
  BY <1>1, <1>4
<1>7. sentCells'[c] = Append(sentCells[c], v) /\ sentCells' \in [Clients -> Seq(Cell \cup {Empty})]
  BY <1>5, <1>6 DEF ClientTypes
<1>8. QED
  BY <1>2, <1>3, <1>6, <1>7 DEF v

LEMMA SingleTyped ==
  ASSUME RingOK, ClientTypes, NEW c \in Clients, ClientShape(c), requests[c] = "single",
         SingleStep(c)
  PROVE  ClientTypes' /\ ClientShape(c)'
<1> USE DEF Go, Pcs
<1>a. TypeOK /\ RingInv
  BY DEF RingOK
<1>0. UNCHANGED <<vars, requests>> /\ requests'[c] = "single" /\ log' = log
  BY DEF vars, ringVars, SingleStep, SingleHeader, SingleSet, SingleWrite
<1>1. CASE SingleHeader(c)
  <2>1. last \in Slots /\ Len(log) \in Nat
    BY <1>1 DEF SingleHeader, RingOK, TypeOK
  <2>2. PICK r \in Requests, w \in BOOLEAN :
          wanted' = [wanted EXCEPT ![c] = r] /\ whole' = [whole EXCEPT ![c] = w]
    BY <1>1 DEF SingleHeader, Ask
  <2>3. PICK n \in 0 .. MaxNumber : sentNumber' = [sentNumber EXCEPT ![c] = n]
    BY <1>1, <2>1, NumberRead DEF SingleHeader, RingOK
  <2>4. sentCells' = [sentCells EXCEPT ![c] = <<>>] /\ at' = [at EXCEPT ![c] = <<Len(log)>>]
    BY <1>1 DEF SingleHeader
  <2>5. cpc' = [cpc EXCEPT ![c] = "set"] /\ UNCHANGED <<requests, slot, first, nextNumber, tries>>
    BY <1>1 DEF SingleHeader
  <2>6. <<>> \in Seq(Cell \cup {Empty}) /\ <<Len(log)>> \in Seq(Nat)
    BY <2>1
  <2>7. ClientTypes'
    BY <2>2, <2>3, <2>4, <2>5, <2>6 DEF ClientTypes
  <2>8. wanted'[c] = r /\ cpc'[c] = "set" /\ sentCells'[c] = <<>> /\ Len(r) >= 1
    BY <2>2, <2>4, <2>5, RequestFacts DEF ClientTypes
  <2>9. log' # <<>>
    BY <1>a, <1>0, <2>1, LastSlot DEF vars, ringVars, SingleHeader, Slots
  <2>10. ClientShape(c)'
    BY <1>0, <2>8, <2>9 DEF ClientShape
  <2>11. QED
    BY <2>7, <2>10
<1>2. CASE SingleSet(c)
  <2>1. cpc[c] = "set" /\ cpc' = [cpc EXCEPT ![c] = "write"] /\ slot' = [slot EXCEPT ![c] = last]
    BY <1>2 DEF SingleSet
  <2>2. at' = [at EXCEPT ![c] = Append(at[c], Len(log))]
    BY <1>2 DEF SingleSet
  <2>3. UNCHANGED <<requests, wanted, whole, first, nextNumber, tries, sentNumber, sentCells>>
    BY <1>2 DEF SingleSet
  <2>4. Append(at[c], Len(log)) \in Seq(Nat)
    BY DEF RingOK, TypeOK, ClientTypes
  <2>5. last \in Slots
    BY <1>a, <2>1, LastSlot DEF ClientShape
  <2>6. ClientTypes'
    BY <2>1, <2>2, <2>3, <2>4, <2>5 DEF ClientTypes
  <2>7. ClientShape(c)'
    BY <1>0, <2>1, <2>3 DEF ClientShape, ClientTypes
  <2>8. QED
    BY <2>6, <2>7
<1>3. CASE SingleWrite(c)
  <2>1. /\ cpc[c] = "write" /\ CopySection(c)
        /\ UNCHANGED <<requests, wanted, whole, slot, first, nextNumber, tries, sentNumber, at>>
    BY <1>3 DEF SingleWrite
  <2>2. PICK q \in {"idle", "write", "set"} :
          /\ cpc' = [cpc EXCEPT ![c] = q]
          /\ q # "idle" => MoreSections(c)
    BY <1>3 DEF SingleWrite
  <2>3. /\ sentCells' \in [Clients -> Seq(Cell \cup {Empty})]
        /\ Len(sentCells'[c]) = Len(sentCells[c]) + 1
    BY <2>1, SectionSent
  <2>4. ClientTypes'
    BY <2>1, <2>2, <2>3 DEF ClientTypes
  <2>5. ClientShape(c)'
    BY <1>0, <2>1, <2>2, <2>3 DEF ClientShape, ClientTypes, MoreSections
  <2>6. QED
    BY <2>4, <2>5
<1>4. QED
  BY <1>1, <1>2, <1>3 DEF SingleStep

LEMMA StreamTyped ==
  ASSUME RingOK, ClientTypes, NEW c \in Clients, ClientShape(c), requests[c] = "stream",
         StreamRequest(c) \/ StreamStep(c) \/ StreamEnd(c)
  PROVE  ClientTypes' /\ ClientShape(c)'
<1> USE DEF Go, Pcs
<1>a. TypeOK /\ RingInv
  BY DEF RingOK
<1>b. requests' = requests
  BY DEF StreamStep, StreamRequest, StreamStart, StreamHeader, StreamWrite, StreamAdvance,
     StreamPoll, StreamEnd
<1>1. CASE StreamRequest(c)
  <2>1. last \in Slots \cup {-1} /\ <<Len(log) + 1>> \in Seq(Nat)
    BY <1>a DEF TypeOK
  <2>2. PICK r \in Requests, w \in BOOLEAN :
          wanted' = [wanted EXCEPT ![c] = r] /\ whole' = [whole EXCEPT ![c] = w]
    BY <1>1 DEF StreamRequest, Ask
  <2>3. /\ cpc' = [cpc EXCEPT ![c] = "wait"] /\ first' = [first EXCEPT ![c] = last]
        /\ at' = [at EXCEPT ![c] = <<Len(log) + 1>>]
        /\ UNCHANGED <<requests, slot, nextNumber, tries, sentNumber, sentCells>>
    BY <1>1 DEF StreamRequest
  <2>4. ClientTypes'
    BY <2>1, <2>2, <2>3 DEF ClientTypes
  <2>5. wanted'[c] = r /\ cpc'[c] = "wait" /\ Len(at'[c]) = 1
    BY <2>2, <2>3 DEF ClientTypes
  <2>6. ClientShape(c)'
    BY <1>b, <2>5 DEF ClientShape
  <2>7. QED
    BY <2>4, <2>6
<1>2. CASE StreamStart(c)
  <2>1. PICK s \in Slots, n \in 0 .. MaxNumber :
          slot' = [slot EXCEPT ![c] = s] /\ nextNumber' = [nextNumber EXCEPT ![c] = n + 1]
    <3> DEFINE s == IF first[c] < 0 \/ first[c] >= NumFrames - 1 THEN 0 ELSE first[c] + 1
    <3>1. s \in Slots
      <4>1. first[c] \in Slots \cup {-1}
        BY DEF ClientTypes
      <4>2. NumFrames \in Nat /\ NumFrames >= 2
        BY ConstantsAssumption
      <4>3. QED
        BY <4>1, <4>2 DEF Slots
    <3>2. PICK n \in NumberIn(s) : nextNumber' = [nextNumber EXCEPT ![c] = n + 1]
      BY <1>2 DEF StreamStart
    <3>3. slot' = [slot EXCEPT ![c] = s]
      BY <1>2 DEF StreamStart
    <3> HIDE DEF s
    <3>4. n \in 0 .. MaxNumber
      BY <1>a, <3>1, NumberRead
    <3>5. QED
      BY <3>1, <3>2, <3>3, <3>4
  <2>2. /\ cpc[c] = "wait" /\ cpc' = [cpc EXCEPT ![c] = "header"]
        /\ UNCHANGED <<requests, wanted, whole, first, tries, sentNumber, sentCells, at>>
    BY <1>2 DEF StreamStart
  <2>3. n + 1 \in 0 .. MaxNumber + 1
    BY ConstantsAssumption
  <2>4. ClientTypes'
    BY <2>1, <2>2, <2>3 DEF ClientTypes
  <2>5. ClientShape(c)'
    BY <1>b, <2>2 DEF ClientShape, ClientTypes
  <2>6. QED
    BY <2>4, <2>5
<1>3. CASE StreamHeader(c)
  <2>1. PICK n \in 0 .. MaxNumber : sentNumber' = [sentNumber EXCEPT ![c] = n]
    <3>1. slot[c] \in Slots
      BY DEF ClientTypes
    <3>2. QED
      BY <1>a, <1>3, <3>1, NumberRead DEF StreamHeader
  <2>2. /\ cpc[c] = "header" /\ cpc' = [cpc EXCEPT ![c] = "write"]
        /\ sentCells' = [sentCells EXCEPT ![c] = <<>>]
        /\ UNCHANGED <<requests, wanted, whole, slot, first, nextNumber, tries, at>>
    BY <1>3 DEF StreamHeader
  <2>3. <<>> \in Seq(Cell \cup {Empty})
    OBVIOUS
  <2>4. ClientTypes'
    BY <2>1, <2>2, <2>3 DEF ClientTypes
  <2>5. cpc'[c] = "write" /\ sentCells'[c] = <<>> /\ wanted[c] \in Requests /\ Len(wanted[c]) >= 1
    BY <2>2, RequestFacts DEF ClientTypes, ClientShape
  <2>6. ClientShape(c)'
    BY <1>b, <2>2, <2>5 DEF ClientShape
  <2>7. QED
    BY <2>4, <2>6
<1>4. CASE StreamWrite(c)
  <2>1. /\ cpc[c] = "write" /\ CopySection(c)
        /\ UNCHANGED <<requests, wanted, whole, slot, first, nextNumber, tries, sentNumber, at>>
    BY <1>4 DEF StreamWrite
  <2>2. PICK q \in {"sent", "write"} :
          /\ cpc' = [cpc EXCEPT ![c] = q]
          /\ q # "sent" => MoreSections(c)
    BY <1>4 DEF StreamWrite
  <2>3. /\ sentCells' \in [Clients -> Seq(Cell \cup {Empty})]
        /\ Len(sentCells'[c]) = Len(sentCells[c]) + 1
    BY <2>1, SectionSent
  <2>4. ClientTypes'
    BY <2>1, <2>2, <2>3 DEF ClientTypes
  <2>5. ClientShape(c)'
    BY <1>b, <2>1, <2>2, <2>3 DEF ClientShape, ClientTypes, MoreSections
  <2>6. QED
    BY <2>4, <2>5
<1>5. CASE StreamAdvance(c)
  <2>1. /\ cpc[c] = "sent" /\ cpc' = [cpc EXCEPT ![c] = "poll"]
        /\ slot' = [slot EXCEPT ![c] = NextFrame(slot[c])]
        /\ tries' = [tries EXCEPT ![c] = 0]
        /\ at' = [at EXCEPT ![c] = <<at[c][1] + 1>>]
        /\ UNCHANGED <<requests, wanted, whole, first, nextNumber, sentNumber, sentCells>>
    BY <1>5 DEF StreamAdvance
  <2>2. NextFrame(slot[c]) \in Slots
    BY ConstantsAssumption DEF ClientTypes, Slots, NextFrame
  <2>3. <<at[c][1] + 1>> \in Seq(Nat)
    <3>1. at[c] \in Seq(Nat) /\ Len(at[c]) = 1
      BY <2>1 DEF ClientTypes, ClientShape
    <3>2. at[c][1] \in Nat
      BY <3>1
    <3>3. QED
      BY <3>2
  <2>4. 0 \in 0 .. MaxTries + 1
    BY ClientsAssumption
  <2>5. ClientTypes'
    BY <2>1, <2>2, <2>3, <2>4 DEF ClientTypes
  <2>6. cpc'[c] = "poll" /\ tries'[c] = 0 /\ Len(at'[c]) = 1 /\ wanted[c] \in Requests
    BY <2>1 DEF ClientTypes, ClientShape
  <2>7. ClientShape(c)'
    BY <1>b, <2>1, <2>6, ClientsAssumption DEF ClientShape
  <2>8. QED
    BY <2>5, <2>7
<1>6. CASE StreamPoll(c)
  <2>1. PICK n \in NumberIn(slot[c]) :
          \/ /\ n >= nextNumber[c]
             /\ Go(c, "poll", "header")
             /\ nextNumber' = [nextNumber EXCEPT ![c] = n + 1]
             /\ UNCHANGED tries
          \/ /\ n < nextNumber[c]
             /\ tries' = [tries EXCEPT ![c] = @ + 1]
             /\ Go(c, "poll", IF tries'[c] > MaxTries THEN "ended" ELSE "poll")
             /\ UNCHANGED nextNumber
    BY <1>6 DEF StreamPoll
  <2>2. n + 1 \in 0 .. MaxNumber + 1
    <3>1. slot[c] \in Slots
      BY DEF ClientTypes
    <3>2. n \in 0 .. MaxNumber
      BY <1>a, <3>1, NumberRead
    <3>3. QED
      BY <3>2, ConstantsAssumption
  <2>3. /\ cpc[c] = "poll"
        /\ UNCHANGED <<requests, wanted, whole, slot, first, sentNumber, sentCells, at>>
    BY <1>6 DEF StreamPoll
  <2>4. tries[c] + 1 \in 0 .. MaxTries + 1
    BY <2>3, ClientsAssumption DEF ClientTypes, ClientShape
  <2>5. ClientTypes'
    <3>1. cpc' \in [Clients -> Pcs]
      <4>1. cpc \in [Clients -> Pcs]
        BY DEF ClientTypes
      <4>2. PICK to : cpc' = [cpc EXCEPT ![c] = to] /\ to \in {"header", "ended", "poll"}
        BY <2>1 DEF Go
      <4> QED  BY <4>1, <4>2 DEF Pcs
    <3>2. nextNumber' \in [Clients -> 0 .. MaxNumber + 1]
      BY <2>1, <2>2 DEF ClientTypes
    <3>3. tries' \in [Clients -> 0 .. MaxTries + 1]
      <4>1. tries \in [Clients -> 0 .. MaxTries + 1]
        BY DEF ClientTypes
      <4>2. tries' = tries \/ tries' = [tries EXCEPT ![c] = tries[c] + 1]
        BY <2>1
      <4> QED  BY <2>4, <4>1, <4>2
    <3>4. QED
      BY <2>3, <3>1, <3>2, <3>3 DEF ClientTypes
  <2>6. cpc'[c] = "poll" => tries'[c] <= MaxTries
    BY <2>1, <2>3, <2>4, ClientsAssumption DEF ClientTypes, ClientShape
  <2>7. cpc'[c] \in {"header", "poll", "ended"}
    BY <2>1 DEF ClientTypes
  <2>8. ClientShape(c)'
    BY <1>b, <2>3, <2>6, <2>7 DEF ClientShape
  <2>9. QED
    BY <2>5, <2>8
<1>7. CASE StreamEnd(c)
  <2>1. /\ cpc[c] # "idle" /\ cpc' = [cpc EXCEPT ![c] = "ended"]
        /\ UNCHANGED <<requests, wanted, whole, slot, first, nextNumber, tries, sentNumber,
                       sentCells, at>>
    BY <1>7 DEF StreamEnd
  <2>2. ClientTypes'
    BY <2>1 DEF ClientTypes
  <2>3. ClientShape(c)'
    BY <1>b, <2>1 DEF ClientShape, ClientTypes
  <2>4. QED
    BY <2>2, <2>3
<1>8. QED
  BY <1>1, <1>2, <1>3, <1>4, <1>5, <1>6, <1>7 DEF StreamStep

LEMMA TypedKept ==
  ASSUME RingOK, ClientsTyped, [DNext]_dvars
  PROVE  ClientsTyped'
<1>1. ASSUME NEW d \in Clients, UNCHANGED Mine(d), UNCHANGED requests
      PROVE  ClientShape(d)'
  <2>1. ClientShape(d) /\ (log # <<>> => log' # <<>>)
    <3>1. Len(log') >= Len(log) /\ Len(log) \in Nat /\ Len(log') \in Nat
      BY ClientsLeaveRing, RingGrows DEF RingOK
    <3>2. log # <<>> => Len(log) # 0
      BY DEF RingOK, TypeOK
    <3>3. log' = <<>> => Len(log') = 0
      OBVIOUS
    <3>4. QED
      BY <3>1, <3>2, <3>3 DEF ClientsTyped
  <2>2. QED
    BY <1>1, <2>1 DEF ClientShape, Mine
<1>2. CASE [Next]_vars /\ UNCHANGED clientVars
  <2>1. ClientTypes'
    BY <1>2 DEF clientVars, ClientTypes, ClientsTyped
  <2>2. ASSUME NEW d \in Clients PROVE ClientShape(d)'
    BY <1>1, <1>2 DEF clientVars, Mine
  <2>3. QED
    BY <2>1, <2>2 DEF ClientsTyped
<1>3. ASSUME NEW c \in Clients, ClientStep(c) PROVE ClientsTyped'
  <2>1. ClientTypes' /\ ClientShape(c)'
    BY <1>3, SingleTyped, StreamTyped DEF ClientStep, ClientsTyped, Singles, Streams
  <2>2. ASSUME NEW d \in Clients, d # c PROVE ClientShape(d)'
    BY <1>1, <1>3, <2>2, OthersUntouched, ClientStepsKeepRing DEF ClientsTyped
  <2>3. QED
    BY <2>1, <2>2 DEF ClientsTyped
<1>4. QED
  BY <1>2, <1>3, DSteps

LEMMA InitTyped == DInit => ClientsTyped
<1> SUFFICES ASSUME DInit PROVE ClientsTyped
  OBVIOUS
<1>1. 0 \in Slots /\ 0 \in 0 .. MaxNumber + 1 /\ 0 \in 0 .. MaxNumber /\ 0 \in 0 .. MaxTries + 1
  BY ConstantsAssumption, ClientsAssumption DEF Slots
<1>2. <<>> \in Seq(Cell \cup {Empty}) /\ <<>> \in Seq(Nat)
  OBVIOUS
<1>3. ClientTypes
  BY <1>1, <1>2 DEF DInit, ClientTypes, Pcs
<1>4. \A c \in Clients : ClientShape(c)
  BY DEF DInit, ClientShape
<1>5. QED
  BY <1>3, <1>4 DEF ClientsTyped

LEMMA ClientsAreTyped == DSpec => []ClientsTyped
<1>1. RingOK /\ ClientsTyped /\ [DNext]_dvars => ClientsTyped'
  BY TypedKept
<1>2. QED
  BY <1>1, InitTyped, DSpecRing, PTL DEF DSpec

(* Every variable of the ring, its writer and the clients keeps its type:       *)
(* clients index the ring and the sections asked for within their bounds, and   *)
(* poll MaxTries times at most.                                                 *)
THEOREM ClientTypesCorrect == DSpec => []DTypeOK
<1>1. RingOK /\ ClientsTyped => DTypeOK
  <2> SUFFICES ASSUME RingOK, ClientsTyped PROVE DTypeOK
    OBVIOUS
  <2>1. ASSUME NEW c \in Clients
        PROVE  \A i \in DOMAIN sentCells[c] : sentCells[c][i] \in Cell \cup {Empty}
    <3>1. sentCells[c] \in Seq(Cell \cup {Empty})
      BY DEF ClientsTyped, ClientTypes
    <3>2. QED
      BY <3>1
  <2>2. QED
    BY <2>1 DEF RingOK, ClientsTyped, ClientTypes, DTypeOK, Pcs
<1>2. QED
  BY <1>1, DSpecRing, ClientsAreTyped, PTL

-----------------------------------------------------------------------------
(***************************************************************************)
(* Single frames.  A client that is not overtaken reads what the ring      *)
(* remembers: at[c] says where in the log each thing sent was last.        *)
(***************************************************************************)

SinglePlaces(c) ==
  /\ cpc[c] \in {"idle", "set", "write"}
  /\ \A k \in 1 .. Len(at[c]) : at[c][k] \in 1 .. Len(log)
  /\ cpc[c] = "set" =>
       Len(at[c]) = Len(sentCells[c]) + 1 /\ (whole[c] => Len(sentCells[c]) = 0)
  /\ cpc[c] = "write" =>
       /\ Len(at[c]) = IF whole[c] THEN 2 ELSE Len(sentCells[c]) + 2
       /\ slot[c] = log[at[c][Len(at[c])]].slot
  /\ (cpc[c] = "idle" /\ Len(sentCells[c]) > 0) =>
       Len(at[c]) = IF whole[c] THEN 2 ELSE Len(sentCells[c]) + 1

SectionsFresh(c) ==
  clean =>
    \A i \in 1 .. Len(sentCells[c]) :
      ~Overtaken(SectionAt(c, i)) =>
        sentCells[c][i] = [part |-> wanted[c][i], frame |-> log[SectionAt(c, i)].frame]

NumberTrue(c) ==
  (clean /\ cpc[c] # "idle" /\ ~Overtaken(at[c][1])) =>
     sentNumber[c] = log[at[c][1]].frame.number

SingleInv(c) == SinglePlaces(c) /\ SectionsFresh(c) /\ NumberTrue(c)

(* Frames of the log stay where they are in the log, and once overtaken they    *)
(* stay so.                                                                     *)
LEMMA StillInLog ==
  ASSUME TypeOK, [Next]_vars, NEW j \in 1 .. Len(log)
  PROVE  /\ j \in 1 .. Len(log') /\ log'[j] = log[j]
         /\ Overtaken(j) => Overtaken(j)'
<1>1. /\ Len(log) \in Nat /\ Len(log') \in Nat /\ Len(log') >= Len(log)
      /\ log'[j] = log[j]
  BY RingGrows
<1>2. NumFrames \in Nat
  BY ConstantsAssumption
<1>3. QED
  BY <1>1, <1>2 DEF Overtaken

LEMMA SectionPlace ==
  ASSUME ClientTypes, NEW c \in Clients, SinglePlaces(c), NEW i \in 1 .. Len(sentCells[c])
  PROVE  SectionAt(c, i) \in 1 .. Len(log)
<1>1. sentCells[c] \in Seq(Cell \cup {Empty}) /\ whole[c] \in BOOLEAN /\ at[c] \in Seq(Nat)
  BY DEF ClientTypes
<1>2. Len(sentCells[c]) \in Nat /\ Len(sentCells[c]) > 0 /\ Len(at[c]) \in Nat
  BY <1>1
<1>3. CASE whole[c]
  <2>1. cpc[c] # "set"
    BY <1>2, <1>3 DEF SinglePlaces
  <2>2. Len(at[c]) = 2
    BY <1>2, <1>3, <2>1 DEF SinglePlaces
  <2>3. 2 \in 1 .. Len(at[c])
    BY <2>2
  <2>4. QED
    BY <1>3, <2>3 DEF SinglePlaces, SectionAt
<1>4. CASE ~whole[c]
  <2>1. i + 1 \in 1 .. Len(at[c])
    BY <1>2, <1>4 DEF SinglePlaces
  <2>2. QED
    BY <1>4, <2>1 DEF SinglePlaces, SectionAt
<1>5. QED
  BY <1>3, <1>4

LEMMA HeaderPlace ==
  ASSUME ClientTypes, NEW c \in Clients, SinglePlaces(c), cpc[c] # "idle"
  PROVE  at[c][1] \in 1 .. Len(log)
<1>1. Len(sentCells[c]) \in Nat /\ Len(at[c]) \in Nat
  BY DEF ClientTypes
<1>2. 1 \in 1 .. Len(at[c])
  BY <1>1 DEF SinglePlaces
<1>3. QED
  BY <1>2 DEF SinglePlaces

(* Whatever PCR_GetDM and other clients do meanwhile. *)
LEMMA SingleMeanwhile ==
  ASSUME RingOK, ClientTypes, NEW c \in Clients, SingleInv(c), [Next]_vars,
         UNCHANGED Mine(c)
  PROVE  SingleInv(c)'
<1>a. TypeOK
  BY DEF RingOK
<1>b. /\ UNCHANGED <<cpc[c], wanted[c], whole[c], slot[c], sentNumber[c], sentCells[c], at[c]>>
      /\ \A i : SectionAt(c, i)' = SectionAt(c, i)
  BY DEF Mine, SectionAt
<1>c. clean' => clean
  BY <1>a, RingGrows
<1>1. SinglePlaces(c)'
  <2>1. \A k \in 1 .. Len(at[c]) : at[c][k] \in 1 .. Len(log')
    BY <1>a, StillInLog DEF SingleInv, SinglePlaces
  <2>2. cpc[c] = "write" => slot[c] = log'[at[c][Len(at[c])]].slot
    <3>1. SUFFICES ASSUME cpc[c] = "write" PROVE slot[c] = log'[at[c][Len(at[c])]].slot
      OBVIOUS
    <3>2. Len(sentCells[c]) \in Nat /\ Len(at[c]) \in Nat
      BY DEF ClientTypes
    <3>3. Len(at[c]) \in 1 .. Len(at[c])
      BY <3>1, <3>2 DEF SingleInv, SinglePlaces
    <3>4. at[c][Len(at[c])] \in 1 .. Len(log)
      BY <3>3 DEF SingleInv, SinglePlaces
    <3>5. QED
      BY <1>a, <3>1, <3>4, StillInLog DEF SingleInv, SinglePlaces
  <2>3. QED
    BY <1>b, <2>1, <2>2 DEF SingleInv, SinglePlaces
<1>2. SectionsFresh(c)'
  <2> SUFFICES ASSUME clean', NEW i \in 1 .. Len(sentCells[c]),
                      ~Overtaken(SectionAt(c, i))'
               PROVE  sentCells[c][i] = [part |-> wanted[c][i],
                                         frame |-> log'[SectionAt(c, i)].frame]
    BY <1>b DEF SectionsFresh
  <2>1. PICK j \in 1 .. Len(log) : j = SectionAt(c, i)
    BY SectionPlace DEF SingleInv
  <2>2. ~Overtaken(j) /\ log'[j] = log[j]
    BY <1>a, <1>b, <2>1, StillInLog DEF Overtaken
  <2>3. QED
    BY <1>c, <2>1, <2>2 DEF SingleInv, SectionsFresh
<1>3. NumberTrue(c)'
  <2> SUFFICES ASSUME clean', cpc[c] # "idle", ~Overtaken(at[c][1])'
               PROVE  sentNumber[c] = log'[at[c][1]].frame.number
    BY <1>b DEF NumberTrue
  <2>1. PICK j \in 1 .. Len(log) : j = at[c][1]
    BY HeaderPlace DEF SingleInv
  <2>2. ~Overtaken(j) /\ log'[j] = log[j]
    BY <1>a, <1>b, <2>1, StillInLog DEF Overtaken
  <2>3. QED
    BY <1>c, <2>1, <2>2 DEF SingleInv, NumberTrue
<1>4. QED
  BY <1>1, <1>2, <1>3 DEF SingleInv

(* The cells of a frame the ring remembers are those the PCR sent. *)
LEMMA Remembers ==
  ASSUME RingOK, clean, NEW j \in 1 .. Len(log), ~Overtaken(j), NEW p \in Parts
  PROVE  /\ buffer[log[j].slot][p] = [part |-> p, frame |-> log[j].frame]
         /\ log[j].frame \in Frame
<1>1. Len(log) \in Nat /\ NumFrames \in Nat
  BY ConstantsAssumption DEF RingOK, TypeOK
<1>2. Len(log) - j < NumFrames - 1
  BY <1>1 DEF Overtaken
<1>3. Holds(log[j].slot, log[j].frame)
  BY <1>2 DEF RingOK, RingInv, RecentFramesIntact
<1>4. QED
  BY <1>3 DEF Holds, RingOK, InStep

LEMMA SingleKept ==
  ASSUME RingOK, ClientTypes, NEW c \in Clients, ClientShape(c), requests[c] = "single",
         SingleInv(c), SingleStep(c)
  PROVE  SingleInv(c)'
<1> USE DEF Go
<1>a. UNCHANGED vars /\ UNCHANGED <<log, clean>>
  BY DEF vars, ringVars, SingleStep, SingleHeader, SingleSet, SingleWrite
<1>b. /\ Len(sentCells[c]) \in Nat /\ Len(at[c]) \in Nat /\ at[c] \in Seq(Nat)
      /\ TypeOK /\ RingInv /\ Len(log) \in Nat
  BY DEF ClientTypes, RingOK, TypeOK
<1>c. \A j : Overtaken(j)' = Overtaken(j)
  BY <1>a DEF Overtaken
<1>1. CASE SingleHeader(c)
  <2>1. log # <<>> /\ last = log[Len(log)].slot /\ last \in Slots /\ Len(log) \in 1 .. Len(log)
    BY <1>1, <1>b, LastSlot DEF SingleHeader
  <2>2. /\ cpc'[c] = "set" /\ sentCells'[c] = <<>> /\ at'[c] = <<Len(log)>>
    BY <1>1 DEF SingleHeader, ClientTypes
  <2>3. PICK n \in NumberIn(last) : sentNumber'[c] = n
    BY <1>1 DEF SingleHeader, ClientTypes
  <2>4. Len(sentCells'[c]) = 0 /\ Len(at'[c]) = 1 /\ at'[c][1] = Len(log)
    BY <2>2
  <2>5. SinglePlaces(c)'
    BY <1>a, <2>1, <2>2, <2>4 DEF SinglePlaces
  <2>6. SectionsFresh(c)'
    BY <2>4 DEF SectionsFresh
  <2>7. ASSUME clean, ~Overtaken(Len(log)) PROVE n = log[Len(log)].frame.number
    <3> DEFINE f == log[Len(log)].frame
    <3>1. buffer[last][NUMBER] = [part |-> NUMBER, frame |-> f] /\ f \in Frame
      BY <2>1, <2>7, Remembers, PartsFacts
    <3> HIDE DEF f
    <3>2. f # Garbage /\ buffer[last][NUMBER] # Empty
      BY <3>1, PartsFacts, ConstantsAssumption DEF Cell
    <3>3. n = f.number
      BY <3>1, <3>2 DEF NumberIn
    <3>4. QED
      BY <3>3 DEF f
  <2>8. NumberTrue(c)'
    BY <1>a, <1>c, <2>3, <2>4, <2>7 DEF NumberTrue
  <2>9. QED
    BY <2>5, <2>6, <2>8 DEF SingleInv
<1>2. CASE SingleSet(c)
  <2>1. /\ cpc[c] = "set" /\ cpc'[c] = "write" /\ slot'[c] = last
        /\ at'[c] = Append(at[c], Len(log))
        /\ UNCHANGED <<wanted[c], whole[c], sentNumber[c], sentCells[c]>>
    BY <1>2 DEF SingleSet, ClientTypes
  <2>2. log # <<>> /\ last = log[Len(log)].slot /\ Len(log) \in 1 .. Len(log)
    BY <1>b, <2>1, LastSlot DEF ClientShape
  <2>3. /\ Len(at'[c]) = Len(at[c]) + 1 /\ at'[c][Len(at[c]) + 1] = Len(log)
        /\ \A k \in 1 .. Len(at[c]) : at'[c][k] = at[c][k]
    BY <1>b, <2>1
  <2>4. /\ Len(at[c]) = Len(sentCells[c]) + 1
        /\ whole[c] => Len(sentCells[c]) = 0
        /\ \A k \in 1 .. Len(at[c]) : at[c][k] \in 1 .. Len(log)
    BY <2>1 DEF SingleInv, SinglePlaces
  <2>5. ASSUME NEW k \in 1 .. Len(at'[c]) PROVE at'[c][k] \in 1 .. Len(log)
    <3>1. k = Len(at[c]) + 1 \/ k \in 1 .. Len(at[c])
      BY <1>b, <2>3
    <3>2. QED
      BY <2>2, <2>3, <2>4, <3>1
  <2>6. slot'[c] = log[at'[c][Len(at'[c])]].slot
    BY <2>1, <2>2, <2>3
  <2>7. Len(at'[c]) = IF whole[c] THEN 2 ELSE Len(sentCells[c]) + 2
    BY <1>b, <2>3, <2>4
  <2>8. SinglePlaces(c)'
    BY <1>a, <2>1, <2>5, <2>6, <2>7 DEF SinglePlaces
  <2>9. SectionsFresh(c)'
    <3>1. ASSUME NEW i \in 1 .. Len(sentCells[c]) PROVE SectionAt(c, i)' = SectionAt(c, i)
      <4>1. ~whole[c] /\ i + 1 \in 1 .. Len(at[c])
        BY <1>b, <2>4
      <4>2. QED
        BY <2>1, <2>3, <4>1 DEF SectionAt
    <3>2. QED
      BY <1>a, <1>c, <2>1, <3>1 DEF SingleInv, SectionsFresh, Overtaken
  <2>10. NumberTrue(c)'
    <3>1. at'[c][1] = at[c][1]
      BY <1>b, <2>3, <2>4
    <3>2. QED
      BY <1>a, <1>c, <2>1, <3>1 DEF SingleInv, NumberTrue, Overtaken
  <2>11. QED
    BY <2>8, <2>9, <2>10 DEF SingleInv
<1>3. CASE SingleWrite(c)
  <2> DEFINE n == Len(sentCells[c])
             e == log[SectionAt(c, n + 1)]
             cell == buffer[slot[c]][wanted[c][n + 1]]
  <2>1. /\ cpc[c] = "write" /\ CopySection(c)
        /\ UNCHANGED <<wanted[c], whole[c], slot[c], sentNumber[c], at[c]>>
    BY <1>3 DEF SingleWrite
  <2>2. /\ Len(sentCells'[c]) = n + 1
        /\ sentCells'[c][n + 1] = cell
        /\ \A i \in 1 .. n : sentCells'[c][i] = sentCells[c][i]
        /\ wanted[c][n + 1] \in Sections
    BY <2>1, SectionSent
  <2>3. cpc'[c] = IF ~MoreSections(c) THEN "idle" ELSE IF whole[c] THEN "write" ELSE "set"
    BY <1>3 DEF SingleWrite, ClientTypes
  <2>4. /\ Len(at[c]) = IF whole[c] THEN 2 ELSE n + 2
        /\ slot[c] = log[at[c][Len(at[c])]].slot
        /\ \A k \in 1 .. Len(at[c]) : at[c][k] \in 1 .. Len(log)
    BY <2>1 DEF SingleInv, SinglePlaces
  <2>5. /\ SectionAt(c, n + 1) = at[c][Len(at[c])]
        /\ SectionAt(c, n + 1) \in 1 .. Len(log)
    <3>1. Len(at[c]) = (IF whole[c] THEN 2 ELSE (n + 1) + 1) /\ Len(at[c]) \in 1 .. Len(at[c])
      BY <1>b, <2>4
    <3>2. QED
      BY <2>4, <3>1 DEF SectionAt
  <2>6. SinglePlaces(c)'
    BY <1>a, <1>b, <2>1, <2>2, <2>3, <2>4 DEF SinglePlaces
  <2>7. NumberTrue(c)'
    BY <1>a, <1>c, <2>1 DEF SingleInv, NumberTrue, Overtaken
  <2>8. ASSUME clean, ~Overtaken(SectionAt(c, n + 1))
        PROVE  cell = [part |-> wanted[c][n + 1], frame |-> e.frame]
    <3>1. wanted[c][n + 1] \in Parts
      BY <2>2, PartsFacts DEF Sections
    <3>2. slot[c] = e.slot
      BY <2>4, <2>5
    <3>3. QED
      BY <2>5, <2>8, <3>1, <3>2, Remembers
  <2>9. SectionsFresh(c)'
    <3>1. \A i : SectionAt(c, i)' = SectionAt(c, i)
      BY <2>1 DEF SectionAt
    <3> SUFFICES ASSUME clean, NEW i \in 1 .. n + 1, ~Overtaken(SectionAt(c, i))
                 PROVE  sentCells'[c][i] = [part |-> wanted[c][i],
                                            frame |-> log[SectionAt(c, i)].frame]
      BY <1>a, <1>c, <2>1, <2>2, <3>1 DEF SectionsFresh, Overtaken
    <3>2. CASE i = n + 1
      BY <2>2, <2>8, <3>2
    <3>3. CASE i \in 1 .. n
      BY <2>2, <3>3 DEF SingleInv, SectionsFresh
    <3>4. QED
      BY <1>b, <3>2, <3>3
  <2>10. QED
    BY <2>6, <2>7, <2>9 DEF SingleInv
<1>4. QED
  BY <1>1, <1>2, <1>3 DEF SingleStep

SinglesOK == \A c \in Clients : requests[c] = "single" => SingleInv(c)

LEMMA SinglesKept ==
  ASSUME RingOK, ClientsTyped, SinglesOK, [DNext]_dvars
  PROVE  SinglesOK'
<1>a. [Next]_vars
  BY ClientsLeaveRing
<1>1. ASSUME NEW d \in Clients, requests'[d] = "single", UNCHANGED requests, UNCHANGED Mine(d)
      PROVE  SingleInv(d)'
  <2>1. ClientTypes /\ SingleInv(d)
    BY <1>1 DEF SinglesOK, ClientsTyped
  <2>2. QED
    BY <1>a, <1>1, <2>1, SingleMeanwhile
<1>2. CASE [Next]_vars /\ UNCHANGED clientVars
  <2>1. UNCHANGED requests /\ \A d \in Clients : UNCHANGED Mine(d)
    BY <1>2 DEF clientVars, Mine
  <2>2. QED
    BY <1>1, <2>1 DEF SinglesOK
<1>3. ASSUME NEW c \in Clients, ClientStep(c) PROVE SinglesOK'
  <2>1. UNCHANGED requests
    BY <1>3, ClientStepsKeepRing
  <2> SUFFICES ASSUME NEW d \in Clients, requests'[d] = "single" PROVE SingleInv(d)'
    BY DEF SinglesOK
  <2>2. ClientTypes /\ ClientShape(c)
    BY DEF ClientsTyped
  <2>3. CASE d = c
    <3>1. requests[c] = "single" /\ SingleInv(c) /\ SingleStep(c)
      BY <1>3, <2>1, <2>3 DEF SinglesOK, ClientStep, Singles, Streams
    <3>2. QED
      BY <2>2, <2>3, <3>1, SingleKept
  <2>4. CASE d # c
    <3>1. UNCHANGED Mine(d)
      BY <1>3, <2>2, <2>4, OthersUntouched
    <3>2. QED
      BY <1>1, <2>1, <3>1
  <2>5. QED
    BY <2>3, <2>4
<1>4. QED
  BY <1>2, <1>3, DSteps

LEMMA InitSingles == DInit => SinglesOK
<1> SUFFICES ASSUME DInit, NEW c \in Clients PROVE SingleInv(c)
  BY DEF SinglesOK
<1>1. cpc[c] = "idle" /\ sentCells[c] = <<>> /\ at[c] = <<>>
  BY DEF DInit
<1>2. Len(sentCells[c]) = 0 /\ Len(at[c]) = 0
  BY <1>1
<1>3. SinglePlaces(c)
  BY <1>1, <1>2 DEF SinglePlaces
<1>4. SectionsFresh(c) /\ NumberTrue(c)
  BY <1>1, <1>2 DEF SectionsFresh, NumberTrue
<1>5. QED
  BY <1>3, <1>4 DEF SingleInv

(* A single reply consists of sections each of which is whole and of the frame   *)
(* that was last when its turn came, and its number is not newer than they are,  *)
(* unless the ring came round while the client was slow: with no lock taken.     *)
THEOREM SinglesAreFresh == DSpec => []SinglesFresh
<1>1. RingOK /\ ClientsTyped /\ SinglesOK /\ [DNext]_dvars => SinglesOK'
  BY SinglesKept
<1>2. RingOK /\ ClientsTyped /\ SinglesOK => SinglesFresh
  <2> SUFFICES ASSUME RingOK, ClientsTyped, SinglesOK, NEW c \in Singles, clean
               PROVE  /\ \A i \in DOMAIN sentCells[c] : ~Overtaken(SectionAt(c, i)) =>
                           sentCells[c][i] = [part |-> wanted[c][i],
                                              frame |-> FrameAt(SectionAt(c, i))]
                      /\ (cpc[c] # "idle" /\ ~Overtaken(at[c][1])) =>
                           sentNumber[c] = FrameAt(at[c][1]).number
    BY DEF SinglesFresh, SingleSectionsFresh, SingleNumberNotAhead
  <2>1. c \in Clients /\ SingleInv(c) /\ ClientTypes
    BY DEF Singles, SinglesOK, ClientsTyped
  <2>2. \A j \in 1 .. Len(log) : FrameAt(j) = log[j].frame
    BY DEF FrameAt, RingOK, TypeOK
  <2>3. DOMAIN sentCells[c] = 1 .. Len(sentCells[c])
    <3>1. sentCells[c] \in Seq(Cell \cup {Empty})
      BY <2>1 DEF ClientTypes
    <3>2. QED
      BY <3>1
  <2>4. ASSUME NEW i \in DOMAIN sentCells[c], ~Overtaken(SectionAt(c, i))
        PROVE  sentCells[c][i] = [part |-> wanted[c][i], frame |-> FrameAt(SectionAt(c, i))]
    <3>1. i \in 1 .. Len(sentCells[c])
      BY <2>3
    <3>2. SectionAt(c, i) \in 1 .. Len(log)
      BY <2>1, <3>1, SectionPlace DEF SingleInv
    <3>3. QED
      BY <2>1, <2>2, <2>4, <3>1, <3>2 DEF SingleInv, SectionsFresh
  <2>5. ASSUME cpc[c] # "idle", ~Overtaken(at[c][1])
        PROVE  sentNumber[c] = FrameAt(at[c][1]).number
    <3>1. at[c][1] \in 1 .. Len(log)
      BY <2>1, <2>5, HeaderPlace DEF SingleInv
    <3>2. QED
      BY <2>1, <2>2, <2>5, <3>1 DEF SingleInv, NumberTrue
  <2>6. QED
    BY <2>4, <2>5
<1>3. QED
  BY <1>1, <1>2, InitSingles, DSpecRing, ClientsAreTyped, PTL DEF DSpec

-----------------------------------------------------------------------------
(***************************************************************************)
(* Streams.  at[c][1] is the place in the log of the frame a client is to  *)
(* send next; the slot it looks at is that frame's.                        *)
(***************************************************************************)

\* Before the stream starts, first is the slot before that of the first frame to send.
Waits(c, i) ==
  i <= Len(log) + 1 /\ first[c] = IF i = 1 THEN -1 ELSE SlotOf(i - 2)

\* The frame to send has come in, or one that is laps ahead of it.
Sends(c, i) ==
  slot[c] = SlotOf(i - 1) /\ i <= nextNumber[c] /\ nextNumber[c] <= Received

NumberSent(c, i) ==
  /\ SlotOf(sentNumber[c]) = SlotOf(i - 1)
  /\ i - 1 <= sentNumber[c] /\ sentNumber[c] < Received

Polls(c, i) ==
  /\ i >= 2 /\ slot[c] = SlotOf(i - 1)
  /\ i - 1 <= nextNumber[c] /\ nextNumber[c] <= Received

StreamPlace(c) ==
  /\ cpc[c] \notin {"idle", "ended"} => at[c][1] >= 1
  /\ clean =>
       /\ cpc[c] = "wait" => Waits(c, at[c][1])
       /\ cpc[c] \in {"header", "write", "sent"} => Sends(c, at[c][1])
       /\ cpc[c] \in {"write", "sent"} => NumberSent(c, at[c][1])
       /\ cpc[c] = "poll" => Polls(c, at[c][1])

LEMMA ReceivedType ==
  ASSUME TypeOK
  PROVE  /\ Received \in Nat /\ Len(log) \in Nat
         /\ Len(log) <= Received /\ Received <= Len(log) + 1
BY DEF TypeOK, Received, NUMBER

LEMMA PlaceType ==
  ASSUME ClientTypes, NEW c \in Clients, ClientShape(c), requests[c] = "stream",
         cpc[c] \notin {"idle", "ended"}
  PROVE  at[c] \in Seq(Nat) /\ Len(at[c]) = 1 /\ at[c][1] \in Nat
<1>1. at[c] \in Seq(Nat) /\ Len(at[c]) = 1
  BY DEF ClientTypes, ClientShape
<1>2. QED
  BY <1>1

(* The number in a slot is one of those received for it, the newest. *)
LEMMA NumberFound ==
  ASSUME NumberCells, clean, TypeOK, NEW s \in Slots, NEW n \in NumberIn(s)
  PROVE  \/ n = 0 /\ \A i \in 1 .. Received : SlotOf(i - 1) # s
         \/ /\ SlotOf(n) = s /\ n < Received
            /\ \A i \in 1 .. Received : SlotOf(i - 1) = s => i - 1 <= n
<1>1. NumberCell(s)
  BY DEF NumberCells
<1>2. CASE buffer[s][NUMBER] = Empty /\ \A i \in 1 .. Received : SlotOf(i - 1) # s
  BY <1>2 DEF NumberIn
<1>3. ASSUME NEW f \in Frame, buffer[s][NUMBER] = [part |-> NUMBER, frame |-> f],
             SlotOf(f.number) = s, f.number < Received,
             \A i \in 1 .. Received : SlotOf(i - 1) = s => i - 1 <= f.number
      PROVE  /\ SlotOf(n) = s /\ n < Received
             /\ \A i \in 1 .. Received : SlotOf(i - 1) = s => i - 1 <= n
  <2>1. f # Garbage /\ buffer[s][NUMBER] # Empty
    BY <1>3, PartsFacts, ConstantsAssumption DEF Cell
  <2>2. n = f.number
    BY <1>3, <2>1 DEF NumberIn
  <2>3. QED
    BY <1>3, <2>2
<1>4. QED
  BY <1>1, <1>2, <1>3 DEF NumberCell

LEMMA StreamMeanwhile ==
  ASSUME RingOK, NumbersInOrder, ~Restarts, ClientTypes, NEW c \in Clients,
         ClientShape(c), requests[c] = "stream", StreamPlace(c), [Next]_vars,
         UNCHANGED Mine(c)
  PROVE  StreamPlace(c)'
<1>1. /\ UNCHANGED <<cpc[c], slot[c], first[c], nextNumber[c], sentNumber[c], at[c]>>
      /\ TypeOK /\ OneWriter /\ RingInv
  BY DEF Mine, RingOK
<1>2. CASE ~clean'
  BY <1>1, <1>2 DEF StreamPlace
<1>3. CASE cpc[c] \in {"idle", "ended"}
  BY <1>1, <1>3 DEF StreamPlace
<1>4. CASE clean' /\ cpc[c] \notin {"idle", "ended"}
  <2>1. clean /\ Len(log) \in Nat /\ Len(log') \in Nat /\ Len(log') >= Len(log)
    BY <1>1, <1>4, RingGrows
  <2>2. Received \in Nat /\ Received' \in Nat /\ Received <= Received'
    <3>1. Received' = Len(log) + 1 \/ Received' = Received
      BY <1>1, <1>4, ReceivedStep
    <3>2. Numbering => Received = Len(log)
      BY <1>1, <1>4, ReceivedStep
    <3>3. QED
      BY <1>1, <1>4, <2>1, <3>1, <3>2, ReceivedStep
  <2>3. PICK i \in Nat : i = at[c][1]
    BY <1>4, PlaceType
  <2>4. nextNumber[c] \in Nat /\ sentNumber[c] \in Nat
    BY ConstantsAssumption DEF ClientTypes
  <2>5. Waits(c, i) => Waits(c, i)'
    BY <1>1, <2>1 DEF Waits
  <2>6. Sends(c, i) => Sends(c, i)'
    BY <1>1, <2>2, <2>4 DEF Sends
  <2>7. NumberSent(c, i) => NumberSent(c, i)'
    BY <1>1, <2>2, <2>4 DEF NumberSent
  <2>8. Polls(c, i) => Polls(c, i)'
    BY <1>1, <2>2, <2>4 DEF Polls
  <2>9. at'[c][1] = i
    BY <1>1, <2>3
  <2>10. QED
    BY <1>1, <1>4, <2>1, <2>3, <2>5, <2>6, <2>7, <2>8, <2>9 DEF StreamPlace, Waits, Sends, NumberSent, Polls
<1>5. QED
  BY <1>2, <1>3, <1>4

LEMMA StreamKept ==
  ASSUME RingOK, NumbersInOrder, ClientTypes, NEW c \in Clients, ClientShape(c),
         requests[c] = "stream", StreamPlace(c),
         StreamRequest(c) \/ StreamStep(c) \/ StreamEnd(c)
  PROVE  StreamPlace(c)'
<1> USE DEF Go
<1>a. UNCHANGED vars
  BY DEF StreamStep, StreamRequest, StreamStart, StreamHeader, StreamWrite, StreamAdvance,
     StreamPoll, StreamEnd
<1>b. UNCHANGED <<clean, log>> /\ Received' = Received
  BY <1>a DEF vars, ringVars, Received
<1>c. TypeOK /\ RingInv /\ NumberCells /\ SlotsNumbered
  BY DEF RingOK, NumbersInOrder
<1>d. /\ Received \in Nat /\ Len(log) \in Nat
      /\ Len(log) <= Received /\ Received <= Len(log) + 1
  BY <1>c, ReceivedType
<1>e. nextNumber[c] \in Nat /\ sentNumber[c] \in Nat /\ slot[c] \in Slots
  BY ConstantsAssumption DEF ClientTypes
<1>1. CASE StreamRequest(c)
  <2>1. cpc'[c] = "wait" /\ first'[c] = last /\ at'[c] = <<Len(log) + 1>>
    BY <1>1 DEF StreamRequest, ClientTypes
  <2>2. at'[c][1] = Len(log) + 1
    BY <2>1
  <2>3. ASSUME log # <<>> PROVE last = SlotOf(Len(log) + 1 - 2) /\ Len(log) + 1 # 1
    <3>1. last = log[Len(log)].slot /\ Len(log) \in 1 .. Len(log)
      BY <1>c, <2>3, LastSlot
    <3>2. log[Len(log)].slot = SlotOf(Len(log) - 1)
      BY <1>c, <3>1 DEF SlotsNumbered
    <3>3. Len(log) - 1 = Len(log) + 1 - 2 /\ Len(log) + 1 # 1
      BY <1>d, <3>1
    <3>4. QED
      BY <3>1, <3>2, <3>3
  <2>4. ASSUME log = <<>> PROVE last = -1 /\ Len(log) + 1 = 1
    BY <1>c, <2>4, LastSlot
  <2>5. Waits(c, Len(log) + 1)'
    BY <1>b, <1>d, <2>1, <2>3, <2>4 DEF Waits
  <2>6. QED
    BY <1>b, <1>d, <2>1, <2>2, <2>5 DEF StreamPlace, Waits
<1>2. CASE StreamEnd(c)
  <2>1. cpc'[c] = "ended"
    BY <1>2 DEF StreamEnd, ClientTypes
  <2>2. QED
    BY <2>1 DEF StreamPlace
<1>3. CASE StreamStep(c)
  <2>a. cpc[c] \notin {"idle", "ended"} /\ cpc[c] \in {"wait", "header", "write", "sent", "poll"}
    BY <1>3 DEF StreamStep, StreamStart, StreamHeader, StreamWrite, StreamAdvance, StreamPoll
  <2>b. PICK i \in Nat : i = at[c][1]
    BY <2>a, PlaceType
  <2>c. i >= 1
    BY <2>a, <2>b DEF StreamPlace
  <2>d. i - 1 \in Nat /\ SlotOf(i - 1) \in Slots
    BY <2>c, SlotType
  <2>1. CASE StreamStart(c)
    <3> DEFINE s == IF first[c] < 0 \/ first[c] >= NumFrames - 1 THEN 0 ELSE first[c] + 1
    <3>1. /\ cpc[c] = "wait" /\ cpc'[c] = "header" /\ slot'[c] = s /\ last # first[c]
          /\ at'[c] = at[c]
      BY <2>1 DEF StreamStart, ClientTypes
    <3>2. PICK n \in NumberIn(s) : nextNumber'[c] = n + 1
      BY <2>1 DEF StreamStart, ClientTypes
    <3>3. ASSUME clean PROVE Sends(c, i)'
      <4>1. Waits(c, i)
        BY <2>b, <3>1, <3>3 DEF StreamPlace
      <4>2. s = SlotOf(i - 1)
        <5>1. CASE i = 1
          BY <4>1, <5>1, FirstSlot DEF Waits
        <5>2. CASE i # 1
          <6>1. i - 2 \in Nat /\ (i - 2) + 1 = i - 1
            BY <2>c, <5>2
          <6>2. SlotOf(i - 1) = NextFrame(SlotOf(i - 2)) /\ SlotOf(i - 2) \in Slots
            BY <6>1, NextSlot, SlotType
          <6>3. first[c] = SlotOf(i - 2)
            BY <4>1, <5>2 DEF Waits
          <6>4. NumFrames \in Nat
            BY ConstantsAssumption
          <6>5. s = NextFrame(first[c])
            BY <6>2, <6>3, <6>4 DEF NextFrame, Slots
          <6>6. QED
            BY <6>2, <6>3, <6>5
        <5>3. QED
          BY <5>1, <5>2
      <4>3. i <= Len(log)
        <5>1. SUFFICES ASSUME i = Len(log) + 1 PROVE FALSE
          BY <1>d, <4>1 DEF Waits
        <5>2. CASE log = <<>>
          BY <1>c, <3>1, <4>1, <5>1, <5>2, LastSlot DEF Waits
        <5>3. CASE log # <<>>
          <6>1. last = log[Len(log)].slot /\ Len(log) \in 1 .. Len(log)
            BY <1>c, <5>3, LastSlot
          <6>2. last = SlotOf(Len(log) - 1)
            BY <1>c, <6>1 DEF SlotsNumbered
          <6>3. i # 1 /\ i - 2 = Len(log) - 1
            BY <1>d, <5>1, <6>1
          <6>4. QED
            BY <3>1, <4>1, <6>2, <6>3 DEF Waits
        <5>4. QED
          BY <5>2, <5>3
      <4> HIDE DEF s
      <4>4. i \in 1 .. Received
        BY <1>d, <2>c, <4>3
      <4>5. n < Received /\ i - 1 <= n
        BY <1>c, <2>d, <3>3, <4>2, <4>4, NumberFound
      <4>6. n \in Nat
        BY <1>c, <2>d, <4>2, NumberRead, ConstantsAssumption
      <4>7. i <= n + 1 /\ n + 1 <= Received
        BY <1>d, <4>5, <4>6
      <4>8. QED
        BY <1>b, <3>1, <3>2, <4>2, <4>7 DEF Sends
    <3>4. QED
      BY <1>b, <2>b, <2>c, <3>1, <3>3 DEF StreamPlace, Sends
  <2>2. CASE StreamHeader(c)
    <3>1. /\ cpc[c] = "header" /\ cpc'[c] = "write"
          /\ UNCHANGED <<slot[c], nextNumber[c], at[c]>>
      BY <2>2 DEF StreamHeader, ClientTypes
    <3>2. PICK n \in NumberIn(slot[c]) : sentNumber'[c] = n
      BY <2>2 DEF StreamHeader, ClientTypes
    <3>3. ASSUME clean PROVE Sends(c, i) /\ NumberSent(c, i)'
      <4>1. Sends(c, i)
        BY <2>b, <3>1, <3>3 DEF StreamPlace
      <4>2. i \in 1 .. Received /\ slot[c] = SlotOf(i - 1)
        BY <1>d, <1>e, <2>c, <4>1 DEF Sends
      <4>3. SlotOf(n) = slot[c] /\ n < Received /\ i - 1 <= n
        BY <1>c, <1>e, <3>3, <4>2, NumberFound
      <4>4. QED
        BY <1>b, <3>2, <4>1, <4>2, <4>3 DEF NumberSent
    <3>4. QED
      BY <1>b, <2>b, <2>c, <3>1, <3>3 DEF StreamPlace, Sends, NumberSent
  <2>3. CASE StreamWrite(c)
    <3>1. /\ cpc[c] = "write" /\ cpc'[c] \in {"write", "sent"}
          /\ UNCHANGED <<slot[c], nextNumber[c], sentNumber[c], at[c]>>
      BY <2>3 DEF StreamWrite, ClientTypes
    <3>2. QED
      BY <1>b, <3>1 DEF StreamPlace, Sends, NumberSent
  <2>4. CASE StreamAdvance(c)
    <3>1. /\ cpc[c] = "sent" /\ cpc'[c] = "poll" /\ slot'[c] = NextFrame(slot[c])
          /\ at'[c] = <<at[c][1] + 1>> /\ UNCHANGED nextNumber[c]
      BY <2>4 DEF StreamAdvance, ClientTypes
    <3>2. at'[c][1] = i + 1
      BY <2>b, <3>1
    <3>3. ASSUME clean PROVE Polls(c, i + 1)'
      <4>1. Sends(c, i)
        BY <2>b, <3>1, <3>3 DEF StreamPlace
      <4>2. (i - 1) + 1 = (i + 1) - 1 /\ i + 1 >= 2
        BY <2>c
      <4>3. slot'[c] = SlotOf((i + 1) - 1)
        BY <2>d, <3>1, <4>1, <4>2, NextSlot DEF Sends
      <4>4. QED
        BY <1>b, <1>d, <1>e, <3>1, <4>1, <4>2, <4>3 DEF Polls, Sends
    <3>4. QED
      BY <1>b, <2>c, <3>1, <3>2, <3>3 DEF StreamPlace, Polls
  <2>5. CASE StreamPoll(c)
    <3>1. /\ cpc[c] = "poll" /\ UNCHANGED <<slot[c], at[c]>>
          /\ cpc'[c] \in {"header", "poll", "ended"}
          /\ cpc'[c] # "header" => UNCHANGED nextNumber[c]
      BY <2>5 DEF StreamPoll, ClientTypes
    <3>2. ASSUME clean, cpc'[c] = "header" PROVE Sends(c, i)'
      <4>1. PICK n \in NumberIn(slot[c]) : n >= nextNumber[c] /\ nextNumber'[c] = n + 1
        BY <2>5, <3>1, <3>2 DEF StreamPoll, ClientTypes
      <4>2. Polls(c, i)
        BY <2>b, <3>1, <3>2 DEF StreamPlace
      <4>3. i - 1 >= 1 /\ nextNumber[c] >= 1 /\ slot[c] = SlotOf(i - 1) /\ i - 1 <= nextNumber[c]
        BY <1>e, <2>c, <4>2 DEF Polls
      <4>4. n \in Nat
        BY <1>c, <1>e, NumberRead, ConstantsAssumption
      <4>5. n # 0
        BY <1>e, <4>1, <4>3, <4>4
      <4>6. n < Received
        BY <1>c, <1>e, <3>2, <4>5, NumberFound
      <4>7. i <= n + 1 /\ n + 1 <= Received
        BY <1>d, <1>e, <4>1, <4>3, <4>4, <4>6
      <4>8. QED
        BY <1>b, <3>1, <4>1, <4>3, <4>7 DEF Sends
    <3>3. QED
      BY <1>b, <2>b, <2>c, <3>1, <3>2 DEF StreamPlace, Sends, Polls
  <2>6. QED
    BY <1>3, <2>1, <2>2, <2>3, <2>4, <2>5 DEF StreamStep
<1>4. QED
  BY <1>1, <1>2, <1>3

StreamsOK == \A c \in Clients : requests[c] = "stream" => StreamPlace(c)

LEMMA StreamsKept ==
  ASSUME RingOK, NumbersInOrder, ~Restarts, ClientsTyped, StreamsOK, [DNext]_dvars
  PROVE  StreamsOK'
<1>a. [Next]_vars
  BY ClientsLeaveRing
<1>1. ASSUME NEW d \in Clients, requests'[d] = "stream", UNCHANGED requests, UNCHANGED Mine(d)
      PROVE  StreamPlace(d)'
  <2>1. ClientTypes /\ ClientShape(d) /\ StreamPlace(d) /\ requests[d] = "stream"
    BY <1>1 DEF StreamsOK, ClientsTyped
  <2>2. QED
    BY <1>a, <1>1, <2>1, StreamMeanwhile
<1>2. CASE [Next]_vars /\ UNCHANGED clientVars
  <2>1. UNCHANGED requests /\ \A d \in Clients : UNCHANGED Mine(d)
    BY <1>2 DEF clientVars, Mine
  <2>2. QED
    BY <1>1, <2>1 DEF StreamsOK
<1>3. ASSUME NEW c \in Clients, ClientStep(c) PROVE StreamsOK'
  <2>1. UNCHANGED requests
    BY <1>3, ClientStepsKeepRing
  <2> SUFFICES ASSUME NEW d \in Clients, requests'[d] = "stream" PROVE StreamPlace(d)'
    BY DEF StreamsOK
  <2>2. ClientTypes /\ ClientShape(c)
    BY DEF ClientsTyped
  <2>3. CASE d = c
    <3>1. /\ requests[c] = "stream" /\ StreamPlace(c)
          /\ StreamRequest(c) \/ StreamStep(c) \/ StreamEnd(c)
      BY <1>3, <2>1, <2>3 DEF StreamsOK, ClientStep, Singles, Streams
    <3>2. QED
      BY <2>2, <2>3, <3>1, StreamKept
  <2>4. CASE d # c
    <3>1. UNCHANGED Mine(d)
      BY <1>3, <2>2, <2>4, OthersUntouched
    <3>2. QED
      BY <1>1, <2>1, <3>1
  <2>5. QED
    BY <2>3, <2>4
<1>4. QED
  BY <1>2, <1>3, DSteps

(* A stream goes on with the next frame: as long as no frame was given up half  *)
(* way and the PCR does not start again at 0, a client that keeps up is sent    *)
(* every number, and one that does not loses whole laps of the ring.            *)
THEOREM StreamsInOrder == ASSUME ~Restarts PROVE DSpec => []StreamsInTurn
<1>1. RingOK /\ NumbersInOrder /\ ClientsTyped /\ StreamsOK /\ [DNext]_dvars => StreamsOK'
  BY StreamsKept
<1>2. RingOK /\ NumbersInOrder /\ ClientsTyped /\ StreamsOK => StreamsInTurn
  <2> SUFFICES ASSUME RingOK, NumbersInOrder, ClientsTyped, StreamsOK, NEW c \in Streams,
                      clean, cpc[c] \in {"write", "sent"}
               PROVE  /\ ~Overtaken(at[c][1]) => sentNumber[c] = FrameAt(at[c][1]).number
                      /\ (sentNumber[c] - (at[c][1] - 1)) % NumFrames = 0
    BY DEF StreamsInTurn, StreamGapless, StreamLosesWholeLaps
  <2>1. /\ c \in Clients /\ requests[c] = "stream" /\ StreamPlace(c)
        /\ ClientTypes /\ ClientShape(c) /\ TypeOK /\ FramesNumbered
    BY DEF Streams, StreamsOK, ClientsTyped, RingOK, NumbersInOrder
  <2>2. PICK i \in Nat : i = at[c][1]
    BY <2>1, PlaceType
  <2>3. i >= 1 /\ NumberSent(c, i) /\ Sends(c, i)
    BY <2>1, <2>2 DEF StreamPlace
  <2>4. /\ sentNumber[c] \in Nat /\ nextNumber[c] \in Nat /\ i - 1 \in Nat
        /\ NumFrames \in Nat
    BY <2>1, <2>3, ConstantsAssumption DEF ClientTypes
  <2>5. /\ Received \in Nat /\ Len(log) \in Nat
        /\ Len(log) <= Received /\ Received <= Len(log) + 1
    BY <2>1, ReceivedType
  <2>6. /\ (sentNumber[c] - (i - 1)) % NumFrames = 0
        /\ sentNumber[c] - (i - 1) < NumFrames => sentNumber[c] = i - 1
    BY <2>3, <2>4, WholeLaps DEF NumberSent
  <2>7. ASSUME ~Overtaken(i) PROVE sentNumber[c] = FrameAt(i).number
    <3>1. sentNumber[c] = i - 1
      <4>1. Len(log) + 1 - i < NumFrames
        BY <2>4, <2>5, <2>7 DEF Overtaken
      <4>2. sentNumber[c] <= Len(log)
        BY <2>3, <2>4, <2>5 DEF NumberSent
      <4>3. QED
        BY <2>4, <2>5, <2>6, <4>1, <4>2
    <3>2. CASE i <= Len(log)
      <4>1. i \in 1 .. Len(log)
        BY <2>3, <2>5, <3>2
      <4>2. log[i].frame.number = i - 1
        BY <2>1, <4>1 DEF FramesNumbered
      <4>3. QED
        BY <3>1, <3>2, <4>2 DEF FrameAt
    <3>3. CASE ~(i <= Len(log))
      <4>1. i <= Received
        BY <2>3, <2>4, <2>5 DEF Sends
      <4>2. i = Len(log) + 1 /\ part > NUMBER
        BY <2>5, <3>3, <4>1 DEF Received
      <4>3. part # SOF
        BY <2>1, <4>2 DEF TypeOK, NUMBER, SOF
      <4>4. incoming.number = Len(log)
        BY <2>1, <4>3 DEF FramesNumbered
      <4>5. QED
        BY <2>5, <3>1, <3>3, <4>2, <4>4 DEF FrameAt
    <3>4. QED
      BY <3>2, <3>3
  <2>8. QED
    BY <2>2, <2>6, <2>7
<1>3. DInit => Init /\ StreamsOK
  BY DEF DInit, StreamsOK, StreamPlace
<1>4. DSpec => Spec
  BY <1>3, ClientsLeaveRing, PTL DEF DSpec, Spec
<1>5. DSpec => []NumbersInOrder
  BY <1>4, RingNumbered, PTL
<1>6. QED
  BY <1>1, <1>2, <1>3, <1>5, DSpecRing, ClientsAreTyped, PTL DEF DSpec
=============================================================================
