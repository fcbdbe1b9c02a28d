----------------------------- MODULE FrameRing -----------------------------
(***************************************************************************)
(* The buffer of deformable-mirror frames of the data server and its only  *)
(* writer, the thread PCR_GetDM.                                           *)
(*                                                                         *)
(* The buffer is a ring of NumFrames slots.  PCR_GetDM receives a frame    *)
(* from the PC-Reconstructor (PCR) in three reads, straight into the slot  *)
(* "active": the marker "SOF", the frame number, the data.  Only when the  *)
(* whole frame is in does it publish the slot, by moving "last" to it.     *)
(* Every other thread reads the slots without a lock.                      *)
(*                                                                         *)
(* The memory is modelled in cells: one for the three bytes "SOF", one for *)
(* the four bytes of the frame number and one for each data section (wfsc, *)
(* slope, rtr, cmd, cur, pos).  A cell remembers which part of which frame *)
(* was written there, so a shifted or half-written frame can be told from  *)
(* an intact one.  The code's dataPtr is kept as its distance from the     *)
(* beginning of the active slot.                                           *)
(***************************************************************************)
EXTENDS Integers, Sequences

CONSTANTS
  NumFrames,    \* NUM_DM_FRAMES, the slots of the ring
  NumSections,  \* the data sections of a frame
  Wide,         \* the first frame number whose leading byte is not zero (2^24)
  Restarts,     \* may the PCR number the frames of a new connection from 0 again?
  MaxNumber,    \* bound: the PCR sends no frame with a greater number
  MaxSession,   \* bound: connections to the PCR that are made
  Garbage,      \* stands for a frame that was never sent: bytes out of step
  Empty         \* a cell nobody has written: the zeroed pages of malloc()

Slots  == 0 .. NumFrames - 1
Parts  == 0 .. NumSections + 1         \* SOF, frame number, data sections
Total  == NumSections + 2              \* total_bytes, in cells
Header == 2                            \* header_bytes, in cells
SOF    == 0
NUMBER == 1

Frame == [session : 0 .. MaxSession, number : 0 .. MaxNumber]
Cell  == [part : Parts, frame : Frame \cup {Garbage}]

ASSUME ConstantsAssumption ==
  /\ NumFrames \in Nat /\ NumFrames >= 2
  /\ NumSections \in Nat \ {0}
  /\ Wide \in Nat /\ MaxNumber \in Nat /\ MaxSession \in Nat
  /\ Restarts \in BOOLEAN
  /\ Garbage \notin Frame
  /\ Empty \notin Cell

VARIABLES
  buffer,           \* Data->buffer, as slots of cells
  active,           \* the slot being filled
  last,             \* the slot filled last, -1 before the first frame
  offset,           \* dataPtr - framePtr[active], in cells
  pc,               \* where PCR_GetDM is
  part,             \* the part of the frame that arrives next
  incoming,         \* the frame being received, Garbage when out of step
  connected,        \* Socket_Info.connected of the DM socket
  peer,             \* does the PCR still serve this connection?
  session,          \* number of this connection
  sent,             \* number of the PCR's next frame
  receiving,        \* *receiving_data
  running,          \* *PCR_DM_running
  continueRunning,  \* *PCR_DM_continueRunning
  log,              \* history: every frame published, and its slot
  clean             \* history: no frame was ever given up half way

ringVars == <<buffer, active, last, offset, log>>
linkVars == <<connected, peer, session, sent>>
ctlVars  == <<running, continueRunning>>
vars     == <<ringVars, pc, part, incoming, linkVars, receiving, ctlVars, clean>>

-----------------------------------------------------------------------------
(* Memory *)

\* Mistake: the last slot is left out.
NextFrameShort(s) == IF s >= NumFrames - 2 THEN 0 ELSE s + 1
NextFrame(s) == IF s = NumFrames - 1 THEN 0 ELSE s + 1

Addr(s, p) == s * Total + p

\* What a cell holds after n was read into the memory at dataPtr + d.  Bytes
\* past the end of the buffer are not modelled.
Stored(d, v) ==
  [s \in Slots |-> [p \in Parts |->
     IF Addr(s, p) = Addr(active, offset + d) THEN v ELSE buffer[s][p]]]

\* read() gave up after some of the bytes: they are in memory all the same.
PartlyStored(d) ==
  \/ UNCHANGED buffer
  \/ buffer' = Stored(d, [part |-> part, frame |-> Garbage])

\* strcpy(sof, nxtChar-2) in PCR_FindSOF copies the marker v and what follows it in
\* an array on the stack, never initialised, up to a zero byte: the n cells after
\* the marker, at most two (the array has STRING_LENGTH = 120 bytes).
Spilled(n, v) ==
  [s \in Slots |-> [p \in Parts |->
     IF Addr(s, p) \in Addr(active, offset) + 1 .. Addr(active, offset) + n
     THEN [part |-> NUMBER, frame |-> Garbage]
     ELSE Stored(0, v)[s][p]]]

\* strncmp(dataPtr, "SOF", strlen(dataPtr)) also compares what follows the three
\* bytes just read, up to the first zero byte: the old content of the next cell.
MarkerEnds(cell) ==
  IF cell = Empty THEN {TRUE}
  ELSE IF cell.frame = Garbage \/ cell.part >= Header THEN BOOLEAN
  ELSE {cell.part = NUMBER /\ cell.frame.number < Wide}

CellAfterMarker ==
  {buffer[a[1]][a[2]] :
     a \in {b \in Slots \X Parts : Addr(b[1], b[2]) = Addr(active, offset + 1)}}

MarkerAccepted ==
  IF CellAfterMarker = {} THEN BOOLEAN
  ELSE UNION {MarkerEnds(c) : c \in CellAfterMarker}

-----------------------------------------------------------------------------
Init ==
  /\ buffer = [s \in Slots |-> [p \in Parts |-> Empty]]
  /\ active = 0 /\ last = -1 /\ offset = 0
  /\ pc = "outer" /\ part = SOF /\ incoming = Garbage
  /\ connected = FALSE /\ peer = FALSE /\ session = 0 /\ sent = 0
  /\ receiving = FALSE
  /\ running = TRUE /\ continueRunning = TRUE
  /\ log = <<>> /\ clean = TRUE

(***************************************************************************)
(* PCR_GetDM, outside a frame                                              *)
(***************************************************************************)

\* while ( *continueRunning ), and what follows the loop.
Outer ==
  /\ pc = "outer"
  /\ \/ /\ continueRunning
        /\ pc' = IF connected THEN "hello" ELSE "connect"
        /\ UNCHANGED <<connected, running, receiving>>
     \/ /\ ~continueRunning
        /\ pc' = "stopped"
        /\ connected' = FALSE /\ running' = FALSE /\ receiving' = FALSE
  /\ UNCHANGED <<ringVars, part, incoming, peer, session, sent, continueRunning, clean>>

\* Mistake: a failed attempt is followed by the next one, without looking whether
\* the thread was told to stop.
ConnectStubborn ==
  /\ pc = "connect"
  /\ \/ /\ session < MaxSession
        /\ connected' = TRUE /\ peer' = TRUE
        /\ session' = session + 1
        /\ sent' \in {n \in {0, sent} : n <= MaxNumber /\ (n = sent \/ Restarts)}
        /\ incoming' = [session |-> session + 1, number |-> sent']
        /\ pc' = "hello"
     \/ UNCHANGED <<linkVars, incoming, pc>>
  /\ UNCHANGED <<ringVars, part, receiving, ctlVars, clean>>

\* One turn of while ( !connected ): Socket_OpenClient and "start_DM" succeed
\* or not, then continueRunning is looked at, whatever happened.
Connect ==
  /\ pc = "connect"
  /\ \/ /\ session < MaxSession
        /\ connected' = TRUE /\ peer' = TRUE
        /\ session' = session + 1
        /\ sent' \in {n \in {0, sent} : n <= MaxNumber /\ (n = sent \/ Restarts)}
        /\ incoming' = [session |-> session + 1, number |-> sent']
     \/ UNCHANGED <<linkVars, incoming>>
  /\ \/ /\ continueRunning
        /\ pc' = IF connected' THEN "hello" ELSE "connect"
        /\ UNCHANGED running
     \/ /\ ~continueRunning
        /\ pc' = "stopped" /\ running' = FALSE
  /\ UNCHANGED <<ringVars, part, receiving, continueRunning, clean>>

\* select() for one second, then the frame size.  After a failed read the
\* socket is not closed.
Hello ==
  /\ pc = "hello"
  /\ \/ /\ pc' = "outer"                   \* nothing in time, or read failed
        /\ UNCHANGED <<receiving, continueRunning>>
     \/ /\ peer
        /\ pc' = "frame"
        /\ UNCHANGED <<receiving, continueRunning>>
     \/ /\ peer                            \* not the size expected
        /\ continueRunning' = FALSE
        /\ receiving' = FALSE
        /\ pc' = "outer"
  /\ UNCHANGED <<ringVars, part, incoming, linkVars, running, clean>>

\* Mistake: clients go on believing that data comes in.
LeaveFramesAnnounced ==
  /\ pc = "frame" /\ part = SOF
  /\ ~continueRunning \/ ~connected
  /\ pc' = "outer"
  /\ UNCHANGED <<ringVars, part, incoming, linkVars, receiving, ctlVars, clean>>

\* while ( *continueRunning && connected ) ends.
LeaveFrames ==
  /\ pc = "frame" /\ part = SOF
  /\ ~continueRunning \/ ~connected
  /\ receiving' = FALSE
  /\ pc' = "outer"
  /\ UNCHANGED <<ringVars, part, incoming, linkVars, ctlVars, clean>>

\* No frame within 200 ms.
Quiet ==
  /\ pc = "frame" /\ part = SOF /\ continueRunning /\ connected
  /\ receiving' = FALSE
  /\ UNCHANGED <<ringVars, pc, part, incoming, linkVars, ctlVars, clean>>

(***************************************************************************)
(* PCR_GetDM, one frame                                                    *)
(***************************************************************************)

\* The connection failed or stayed silent for a second: close it and go back to
\* the head of the loop.  dataPtr stays where it is.
GiveUp ==
  /\ connected' = FALSE /\ peer' = FALSE
  /\ part' = SOF
  /\ clean' = IF part = SOF THEN clean ELSE FALSE
  /\ UNCHANGED <<active, last, offset, log, pc, incoming, session, sent, ctlVars>>

\* What is no marker, or is not taken for one: PCR_FindSOF takes over.  Out of step,
\* even the read of the three bytes may wait for the last of them.
LoseStep ==
  /\ peer
  /\ \/ incoming = Garbage /\ PartlyStored(0)
     \/ /\ incoming # Garbage /\ sent <= MaxNumber /\ FALSE \in MarkerAccepted
        /\ buffer' = Stored(0, [part |-> SOF, frame |-> [session |-> session, number |-> sent]])
  /\ pc' = "search" /\ incoming' = Garbage /\ clean' = FALSE
  /\ UNCHANGED <<active, last, offset, log, part, linkVars, ctlVars>>

ReadSOF ==
  /\ pc = "frame" /\ part = SOF /\ continueRunning /\ connected
  /\ receiving' = TRUE
  /\ \/ /\ ~peer                            \* the read fails
        /\ PartlyStored(0)
        /\ GiveUp
     \/ /\ peer /\ sent <= MaxNumber
        /\ incoming # Garbage
        /\ TRUE \in MarkerAccepted
        /\ incoming' = [session |-> session, number |-> sent]
        /\ sent' = sent + 1
        /\ buffer' = Stored(0, [part |-> SOF, frame |-> incoming'])
        /\ offset' = offset + 1
        /\ part' = NUMBER
        /\ UNCHANGED <<active, last, log, pc, connected, peer, session, ctlVars, clean>>
     \/ LoseStep

\* PCR_FindSOF reads on, byte by byte, to an 'S' and takes the two bytes after it
\* whatever they are.  It may have met the marker of the next frame; else the
\* bytes it returns belong to no frame, the stream is read out of step and the
\* frame is used up.
FindSOF ==
  \/ \E f \in {[session |-> session, number |-> n] :
                  n \in {k \in sent .. sent + 1 : k <= MaxNumber}} :
       /\ incoming' = f
       /\ sent' = f.number + 1
  \/ incoming' = Garbage /\ sent' = sent + 1

\* Its reads have no timeout: the search ends when the PCR sends a frame, or with
\* the connection, and looks at no flag meanwhile.
SearchSOF ==
  /\ pc = "search" /\ pc' = "frame" /\ clean' = FALSE
  /\ \/ /\ peer /\ sent <= MaxNumber
        /\ FindSOF
        /\ \E n \in 0 .. 2 :
             buffer' = Spilled(n, [part |-> SOF, frame |-> incoming'])
        /\ offset' = offset + 1
        /\ part' = NUMBER
        /\ UNCHANGED <<connected, peer, session>>
     \/ /\ ~peer
        /\ connected' = FALSE
        /\ UNCHANGED <<buffer, offset, part, incoming, peer, session, sent>>
  /\ UNCHANGED <<active, last, log, receiving, ctlVars>>

ReadNumber ==
  /\ pc = "frame" /\ part = NUMBER
  /\ \/ /\ PartlyStored(0)                  \* silent for a second, or lost
        /\ GiveUp
     \/ /\ peer
        /\ buffer' = Stored(0, [part |-> NUMBER, frame |-> incoming])
        /\ offset' = offset + 1
        /\ part' = Header
        /\ UNCHANGED <<active, last, log, pc, incoming, linkVars, ctlVars, clean>>
  /\ UNCHANGED receiving

\* Socket_Read of the rest of the frame: the sections come in one by one and
\* dataPtr is not moved.
ReadData ==
  /\ pc = "frame" /\ part \in Header .. Total - 1
  /\ \/ /\ part = Header \/ ~peer           \* silent for a second, or lost
        /\ PartlyStored(part - Header)
        /\ GiveUp
     \/ /\ peer
        /\ buffer' = Stored(part - Header, [part |-> part, frame |-> incoming])
        /\ part' = part + 1
        /\ UNCHANGED <<active, last, offset, log, pc, incoming, linkVars, ctlVars, clean>>
  /\ UNCHANGED receiving

\* Mistake: active is moved first, and last follows it.
PublishSwapped ==
  /\ pc = "frame" /\ part = Total
  /\ active' = NextFrame(active)
  /\ last' = active'
  /\ offset' = 0
  /\ part' = SOF
  /\ log' = Append(log, [frame |-> incoming, slot |-> active])
  /\ UNCHANGED <<buffer, pc, incoming, linkVars, receiving, ctlVars, clean>>

\* "Move all pointer forward one frame": three stores, of which other threads look
\* at the one to last only.
Publish ==
  /\ pc = "frame" /\ part = Total
  /\ last' = active
  /\ active' = NextFrame(active)
  /\ offset' = 0
  /\ part' = SOF
  /\ log' = Append(log, [frame |-> incoming, slot |-> active])
  /\ UNCHANGED <<buffer, pc, incoming, linkVars, receiving, ctlVars, clean>>

(***************************************************************************)
(* Commands of the operator, run by a PCR_Process thread, and the PCR      *)
(***************************************************************************)

StopDM ==
  /\ continueRunning' = FALSE
  /\ UNCHANGED <<ringVars, pc, part, incoming, linkVars, receiving, running, clean>>

\* "connect dm" does nothing while the thread is marked as running.  When
\* pthread_create fails the mark stays.
ConnectDM ==
  /\ ~running
  /\ running' = TRUE /\ continueRunning' = TRUE
  /\ pc' \in {"outer", "stopped"}
  /\ UNCHANGED <<ringVars, part, incoming, linkVars, receiving, clean>>

\* The PCR closes the connection, or the network does.
Drop ==
  /\ peer
  /\ peer' = FALSE
  /\ UNCHANGED <<ringVars, pc, part, incoming, connected, session, sent, receiving,
                 ctlVars, clean>>

GetDM ==
  \/ Outer \/ Connect \/ Hello \/ LeaveFrames \/ Quiet
  \/ ReadSOF \/ SearchSOF \/ ReadNumber \/ ReadData \/ Publish

Next == GetDM \/ StopDM \/ ConnectDM \/ Drop

Spec == Init /\ [][Next]_vars

\* The thread reads bytes that nobody has promised: it looks for a marker, or what it
\* takes for a frame are bytes out of step, and more of them than the PCR has begun
\* to send.  (Where a select comes before, a single byte satisfies it.)
Starved ==
  \/ pc = "search"
  \/ pc = "frame" /\ part \in NUMBER .. Total - 1 /\ incoming = Garbage

\* The thread runs, and the PCR finishes a frame it has begun or the connection
\* breaks: the reads have no timeout.  Of a thread that is starved nothing is assumed
\* but that it finds out when the connection has gone; nor of operators.
FairSpec == Spec /\ WF_vars(GetDM /\ (Starved => ~peer))

(***************************************************************************)
(* Properties                                                              *)
(***************************************************************************)

TypeOK ==
  /\ buffer \in [Slots -> [Parts -> Cell \cup {Empty}]]
  /\ active \in Slots
  /\ last \in Slots \cup {-1}
  /\ offset \in Nat
  /\ pc \in {"outer", "connect", "hello", "frame", "search", "stopped"}
  /\ part \in 0 .. Total
  /\ incoming \in Frame \cup {Garbage}
  /\ connected \in BOOLEAN /\ peer \in BOOLEAN
  /\ session \in 0 .. MaxSession /\ sent \in 0 .. MaxNumber + 1
  /\ receiving \in BOOLEAN
  /\ running \in BOOLEAN /\ continueRunning \in BOOLEAN
  /\ log \in Seq([frame : Frame \cup {Garbage}, slot : Slots])
  /\ clean \in BOOLEAN

\* A slot holds all parts of frame f, each where readers look for it.
Holds(s, f) == \A p \in Parts : buffer[s][p] = [part |-> p, frame |-> f]

\* The ring remembers: as long as no frame was given up half way, the
\* NumFrames - 1 frames published last are in their slots, whole, although
\* PCR_GetDM is writing the next frame and readers take no lock.
RecentFramesIntact ==
  clean =>
    \A i \in 1 .. Len(log) :
      Len(log) - i < NumFrames - 1 => Holds(log[i].slot, log[i].frame)

\* Data->last is the slot of the frame published last and active is the one after
\* it: "linked list of next position in buffer to fill".
LastIsNewest ==
  IF log = <<>> THEN last = -1 /\ active = 0
                ELSE last = log[Len(log)].slot /\ active = NextFrame(last)

\* Frames published one after the other are in slots one after the other.
SlotsInOrder ==
  \A i, j \in 1 .. Len(log) :
    (i <= j /\ j - i < NumFrames) =>
      log[j].slot \in {log[i].slot + (j - i), log[i].slot + (j - i) - NumFrames}

\* The parts of the incoming frame received so far are in the active slot.
ActivePartlyFilled ==
  /\ part # SOF => pc = "frame"
  /\ clean =>
       /\ offset = IF part < Header THEN part ELSE Header
       /\ \A p \in Parts :
            p < part => buffer[active][p] = [part |-> p, frame |-> incoming]

\* Where every frame is, at every moment: what PCR_GetDM relies on when it moves
\* the pointers forward.
RingInv ==
  LastIsNewest /\ SlotsInOrder /\ ActivePartlyFilled /\ RecentFramesIntact

\* The same promise, made in FrameFeed without slots, pointers or the thread: what
\* a reader finds walking back from last, oldest frame first.
PrevSlot(s, k) == IF s - k >= 0 THEN s - k ELSE s - k + NumFrames

FrameIn(s) ==
  LET c == buffer[s][SOF]
  IN IF c # Empty /\ Holds(s, c.frame) THEN c.frame ELSE Garbage

RecentFrames ==
  LET n == IF Len(log) < NumFrames - 1 THEN Len(log) ELSE NumFrames - 1
  IN [k \in 1 .. n |-> FrameIn(PrevSlot(last, n - k))]

Feed == INSTANCE FrameFeed WITH
  Frames <- Frame, Depth <- NumFrames - 1,
  recent <- IF clean THEN RecentFrames ELSE <<>>, intact <- clean

RingImplementsFeed == Feed!FSpec

\* The flag PCR_DDS_Receiving_Data that clients see is cleared on every way out of
\* the loop that receives frames: lost connection, stop, wrong frame size.
SilentOutsideFrames == pc \notin {"frame", "search"} => ~receiving

\* A second PCR_GetDM is only started when the first has returned: the buffer has
\* one writer.
OneWriter == ~running => pc = "stopped"

\* The two flags by which operators and clients know of the thread are down once
\* it has come to an end or left its frames, on whatever way.
ThreadFlagsTrue == OneWriter /\ SilentOutsideFrames

\* "stop dm" ends the thread, from each of its loops and on every way out of a frame,
\* unless it is started again meanwhile, or waits from some time on for bytes that
\* never come.
StopObeyed == ~continueRunning ~> (pc = "stopped" \/ continueRunning \/ []Starved)

\* (Not so.)  "to allow the user to shutdown this thread": "stop dm" ends it, whatever it
\* is waiting for.
StopAlwaysObeyed == ~continueRunning ~> (pc = "stopped" \/ continueRunning)

\* "dataPtr: pointer to the beging of the active frame": whenever PCR_GetDM waits
\* for a new frame, dataPtr is there.
DataPtrAtActive == (pc = "frame" /\ part = SOF /\ connected) => offset = 0

\* PCR_FindSOF "reads from the given socket until 'SOF' is found (returns 0)":
\* PCR_GetDM reads a frame number only where the PCR sent one.
MarkerFound == part # SOF => incoming # Garbage
=============================================================================
