---------------------------- MODULE CameraFrames ----------------------------
(***************************************************************************)
(* The frames of the wavefront camera: the thread PCR_GetWFSC that receives *)
(* them from the PC-Reconstructor (PCR) into a ring, and the clients that   *)
(* ask for the newest one (WFSC_GetSingle), without a lock.                 *)
(*                                                                         *)
(* FrameRing has the ring of the mirror's frames cell by cell; what is     *)
(* peculiar to the camera is here: a frame comes in rows whose reads are   *)
(* not checked one by one, its size is told anew whenever the camera       *)
(* starts, and one number, shared by all clients, tells a new frame from   *)
(* an old one.  The rows are two halves, each known by the frame it is of. *)
(***************************************************************************)
EXTENDS Integers

CONSTANTS
  CamSlots,       \* NUM_WFSC_FRAMES (1000)
  CamFormats,     \* the frame sizes the PCR may announce
  CamClients,     \* clients that ask for single frames
  MaxSent,        \* bound: frames sent by the PCR
  MaxMishaps      \* bound: resets and starts by an operator, connections that break

ASSUME CameraAssumption ==
  /\ CamSlots \in Nat /\ CamSlots >= 2
  /\ CamFormats \subseteq {1159, 1359, 10375, 12807} /\ CamFormats # {}
  /\ {MaxSent, MaxMishaps} \subseteq Nat

\* The 24 x 24 or 72 x 72 values that are kept of a frame, and whether more
\* rows and columns come around them, to be thrown away.
wfsc_bytes(f) == IF f \in {1159, 1359} THEN 1152 ELSE 10368
Margin(f)     == f \in {1359, 12807}

Slot == 0 .. CamSlots - 1
NextSlot(s) == (s + 1) % CamSlots
HeaderBytes == 7                        \* HEADER_BYTES: "SOF" and the number
SlotBytes   == HeaderBytes + 10368      \* TOTAL_WFSC_BYTES
Junk == 0       \* bytes that are no frame's
None == -1
Damaged == [number |-> Junk, bytes |-> 0, halves |-> <<Junk, Junk>>]

VARIABLES
  cam,      \* the thread: where it is, the format it goes by, the frame it reads
  link,     \* the connection: down, up, or broken off by the PCR
  stream,   \* what the PCR sends next on it, and in which format
  flags,    \* running, continueRunning, reset, receiving_data
  ring,     \* the slots: number, size and halves of the frame in each
  pointer,  \* active, last, and how many bytes dataPtr has been left astray
  shown,    \* data->wfsc_bytes
  old,      \* old_frameNumber of WFSC_GetSingle
  asking,   \* the request of each client, and what it has been sent of the reply
  told,     \* history: the number last sent to each client, while nobody else was
  spoilt,   \* history: the slots filled while dataPtr was astray, overrun, or cut short
  bounds
camVars == <<cam, link, stream, flags, ring, pointer, shown, old, asking, told, spoilt, bounds>>

Quiet == [at |-> "idle", slot |-> 0, number |-> None, fresh |-> TRUE, bytes |-> 0,
          before |-> None, excused |-> FALSE, since |-> 0]

Cam_Init ==
  /\ cam = [at |-> "outer", format |-> 0, frame |-> Junk, short |-> FALSE]
  /\ link = "down" /\ stream = [next |-> "size", format |-> 0]
  /\ flags = [running |-> TRUE, continue |-> TRUE, reset |-> FALSE, receiving |-> FALSE]
  /\ ring = [s \in Slot |-> Damaged]
  /\ pointer = [active |-> 0, last |-> None, astray |-> 0]
  /\ shown = 0 /\ old = None
  /\ asking = [c \in CamClients |-> Quiet] /\ told = [c \in CamClients |-> None]
  /\ spoilt = {} /\ bounds = [sent |-> 0, mishaps |-> 0]

dataVars   == <<ring, pointer, shown, spoilt, asking>>

\* History: the replies these clients are being sent may well be damaged.
Excuse(C) == asking' = [c \in CamClients |-> IF c \in C /\ asking[c].at # "idle"
                                            THEN [asking[c] EXCEPT !.excused = TRUE] ELSE asking[c]]

Goto(at) == cam' = [cam EXCEPT !.at = at]
Close    == link' = "down"
Set(f, v) == flags' = [flags EXCEPT ![f] = v]
-----------------------------------------------------------------------------
\* while ( *continueRunning ), and what follows it.
Cam_Outer ==
  /\ cam.at = "outer"
  /\ IF flags.continue
     THEN Goto(IF link = "down" THEN "connect" ELSE "hello") /\ UNCHANGED <<link, flags>>
     ELSE Goto("over") /\ Close
          /\ flags' = [flags EXCEPT !.running = FALSE, !.receiving = FALSE]
  /\ UNCHANGED <<stream, dataVars, old, told, bounds>>

\* Socket_OpenClient, and the request "start_WFSC".
Cam_Open ==
  \/ UNCHANGED <<link, stream>>
  \/ /\ link' = "up" /\ \E f \in CamFormats : stream' = [next |-> "size", format |-> f]

\* One attempt to connect.  A thread told to stop leaves its socket as it is.
Cam_Connect ==
  /\ cam.at = "connect" /\ Cam_Open
  /\ IF flags.continue
     THEN Goto(IF link' = "down" THEN "connect" ELSE "hello") /\ UNCHANGED flags
     ELSE Goto("over") /\ Set("running", FALSE)
  /\ UNCHANGED <<dataVars, old, told, bounds>>

\* A tenth of a second without data.
Cam_HelloSilent ==
  /\ cam.at = "hello" /\ link = "up" /\ Goto("outer")
  /\ UNCHANGED <<link, stream, flags, dataVars, old, told, bounds>>

\* A mistake: the connection is kept when nothing more comes from it.
Cam_HelloDeaf ==
  /\ cam.at = "hello" /\ link = "broken" /\ Set("reset", FALSE) /\ Goto("outer")
  /\ UNCHANGED <<link, stream, dataVars, old, told, bounds>>

Cam_HelloBroken ==
  /\ cam.at = "hello" /\ link = "broken" /\ Set("reset", FALSE) /\ Goto("outer") /\ Close
  /\ UNCHANGED <<stream, dataVars, old, told, bounds>>

\* The first four bytes are taken for the size of the frames.
Cam_Hello ==
  /\ cam.at = "hello" /\ link = "up" /\ stream.next = "size"
  /\ Set("reset", FALSE)
  /\ cam' = [cam EXCEPT !.at = "frame", !.format = stream.format]
  /\ shown' = wfsc_bytes(stream.format) /\ stream' = [stream EXCEPT !.next = "frame"]
  /\ Excuse({c \in CamClients : shown' # shown})
  /\ UNCHANGED <<link, ring, pointer, spoilt, old, told, bounds>>

\* After a reset between two frames they are something else, and what has come may
\* be less than four: the read has no timeout.
Cam_HelloCut ==
  /\ cam.at = "hello" /\ link = "up" /\ stream.next = "frame"
  /\ Set("reset", FALSE) /\ Goto("size")
  /\ UNCHANGED <<link, stream, dataVars, old, told, bounds>>

\* It is no size: the thread ends.
Cam_NoSize ==
  /\ cam.at = "size" /\ link = "up"
  /\ Set("continue", FALSE) /\ Goto("outer")
  /\ UNCHANGED <<link, stream, dataVars, old, told, bounds>>

Cam_SizeBroken ==
  /\ cam.at = "size" /\ link = "broken" /\ Close /\ Goto("outer")
  /\ UNCHANGED <<stream, flags, dataVars, old, told, bounds>>
-----------------------------------------------------------------------------
\* while ( *continueRunning && !(*reset) )
Cam_Frame ==
  /\ cam.at = "frame"
  /\ Goto(IF flags.continue /\ ~flags.reset THEN "wait" ELSE "flush")
  /\ UNCHANGED <<link, stream, flags, dataVars, old, told, bounds>>

\* Two tenths of a second without a frame.
Cam_FrameSilent ==
  /\ cam.at = "wait" /\ link = "up" /\ Set("receiving", FALSE) /\ Goto("frame")
  /\ UNCHANGED <<link, stream, dataVars, old, told, bounds>>

\* The connection is gone at the marker.
Cam_MarkerLost ==
  /\ cam.at = "wait" /\ link = "broken" /\ Close /\ Goto("frame")
  /\ flags' = [flags EXCEPT !.receiving = TRUE, !.reset = TRUE]
  /\ UNCHANGED <<stream, dataVars, old, told, bounds>>

\* One that is gone while PCR_FindSOF looks for a marker is not closed here but by
\* the hello that follows.
Cam_SearchLost ==
  /\ cam.at = "search" /\ link = "broken" /\ Set("reset", TRUE) /\ Goto("frame")
  /\ UNCHANGED <<link, stream, dataVars, old, told, bounds>>

\* The slots that n bytes of a frame, from its byte "first" on, are written to
\* when dataPtr is astray: they may run into the slots that follow.
Struck(first, n) ==
  LET from == pointer.active * SlotBytes + pointer.astray + first IN
  IF pointer.astray = 0 THEN {}
  ELSE {s \in Slot : s >= from \div SlotBytes /\ s <= (from + n - 1) \div SlotBytes}

Store(f, first, n) ==
  /\ ring' = [s \in Slot |-> IF s \in Struck(first, n) THEN Damaged
                             ELSE IF s = pointer.active /\ pointer.astray = 0 THEN f ELSE ring[s]]
  /\ spoilt' = spoilt \cup Struck(first, n)
  /\ Excuse({c \in CamClients : asking[c].slot \in Struck(first, n)})
Here == ring[pointer.active]
Foreign == stream.format # cam.format
Half == IF Foreign THEN Junk ELSE cam.frame
Astray(n) == pointer' = [pointer EXCEPT !.astray = @ + n]

\* Something else comes before the next frame: another size, or what is left of a
\* frame that was sent under another size than the thread goes by.
OutOfStep == stream.next = "size" \/ Foreign

Cam_Begin ==
  /\ link = "up" /\ bounds.sent < MaxSent
  /\ bounds' = [bounds EXCEPT !.sent = @ + 1]
  /\ cam' = [cam EXCEPT !.at = "number", !.frame = bounds'.sent, !.short = FALSE]
  /\ Store(Here, 0, 3) /\ Set("receiving", TRUE)
  /\ UNCHANGED <<link, pointer, shown, old, told>>

\* "SOF" is read.
Cam_Marker ==
  /\ cam.at = "wait" /\ ~OutOfStep /\ Cam_Begin
  /\ UNCHANGED stream

\* Something else is read for it, or as much as has come of its three bytes.
Cam_MarkerMissed ==
  /\ cam.at = "wait" /\ link = "up" /\ OutOfStep /\ Goto("search")
  /\ Store(Here, 0, 3) /\ Set("receiving", TRUE)
  /\ UNCHANGED <<link, stream, pointer, shown, old, told, bounds>>

\* PCR_FindSOF reads on without a timeout, until the PCR sends a frame.  What was
\* sent under another size is cut at random.
Cam_Search ==
  /\ cam.at = "search" /\ Cam_Begin
  /\ stream' = [stream EXCEPT !.next = "frame"]

\* Nothing more for a second, or the connection is gone: the frame is given
\* up, and dataPtr stays where it has got to.
Cam_GiveUp ==
  /\ cam.at \in {"number", "first"} /\ Close /\ Set("reset", TRUE) /\ Goto("frame")
  /\ Astray(IF cam.at = "number" THEN 3 ELSE HeaderBytes)
  /\ UNCHANGED <<stream, ring, shown, spoilt, asking, old, told, bounds>>

Cam_Number ==
  /\ cam.at = "number" /\ link = "up"
  /\ Store([Here EXCEPT !.number = cam.frame, !.bytes = wfsc_bytes(cam.format)], 3, 4) /\ Goto("first")
  /\ UNCHANGED <<link, stream, flags, pointer, shown, old, told, bounds>>

\* The rows: a read that gets less than a row is followed by the next read.
Cam_Rows(at, i, then) ==
  LET n == wfsc_bytes(cam.format) \div 2 IN
  /\ cam.at = at
  /\ IF link = "up"
     THEN Store([Here EXCEPT !.halves[i] = Half], HeaderBytes + (i - 1) * n, n) /\ Goto(then)
     ELSE cam' = [cam EXCEPT !.at = then, !.short = TRUE] /\ UNCHANGED <<ring, spoilt, asking>>
  /\ UNCHANGED <<link, stream, flags, pointer, shown, old, told, bounds>>

\* (Cam_GiveUp has the connection that is gone before the rows begin.)
Cam_FirstRows == link = "up" /\ Cam_Rows("first", 1, "second")
Cam_LastRows  == Cam_Rows("second", 2, "check")

\* What was read is counted only for the rows around the frame; and it is
\* counted with nvalues, which has no value: the thread may end for no reason,
\* with dataPtr at the end of the frame.
Cam_Refuse ==
  /\ cam.at = "check" /\ Goto("frame") /\ Set("continue", FALSE)
  /\ Astray(HeaderBytes + wfsc_bytes(cam.format))
  /\ UNCHANGED <<link, stream, ring, shown, spoilt, asking, old, told, bounds>>

Counted == ~(Margin(cam.format) /\ cam.short)

\* The slot is handed to the clients.
Publish ==
  /\ pointer' = [active |-> NextSlot(pointer.active), last |-> pointer.active, astray |-> 0]
  /\ spoilt' = IF pointer.astray > 0 \/ cam.short \/ Foreign
               THEN spoilt \cup {pointer.active} ELSE spoilt \ {pointer.active}
  /\ asking' = [c \in CamClients |-> IF asking[c].at = "idle" \/ asking[c].since = CamSlots THEN asking[c]
                                     ELSE [asking[c] EXCEPT !.since = @ + 1]]

Cam_Publish ==
  /\ cam.at = "check" /\ Counted /\ Publish /\ Goto("frame")
  /\ UNCHANGED <<link, stream, flags, ring, shown, old, told, bounds>>

\* After the loop of frames, what has come is thrown away.
Cam_Flush ==
  /\ cam.at = "flush" /\ Goto("outer") /\ Set("receiving", FALSE)
  /\ IF link = "up" THEN stream' \in {stream, [stream EXCEPT !.next = "frame"]}
                    ELSE UNCHANGED stream
  /\ UNCHANGED <<link, dataVars, old, told, bounds>>

CameraThread ==
  \/ Cam_Outer \/ Cam_Connect \/ Cam_HelloSilent \/ Cam_HelloBroken \/ Cam_Hello
  \/ Cam_HelloCut \/ Cam_NoSize \/ Cam_SizeBroken \/ Cam_Frame \/ Cam_FrameSilent
  \/ Cam_MarkerLost \/ Cam_Marker \/ Cam_MarkerMissed \/ Cam_Search \/ Cam_SearchLost \/ Cam_GiveUp
  \/ Cam_Number \/ Cam_FirstRows \/ Cam_LastRows \/ Cam_Refuse \/ Cam_Publish \/ Cam_Flush

\* The thread reads bytes that nobody has promised: more than the PCR has begun to
\* send.  (Where a select comes before, a single byte satisfies it.)
CameraStarved ==
  \/ cam.at \in {"size", "search"}
  \/ cam.at \in {"number", "first", "second"} /\ Foreign
-----------------------------------------------------------------------------
threadVars == <<cam, link, stream, flags, ring, pointer, shown, spoilt>>

\* WFSC_GetSingle; while there is no frame yet, it only sends -2 for the size.
Single(c) ==
  /\ asking[c].at = "idle" /\ pointer.last # None
  /\ asking' = [asking EXCEPT ![c] = [Quiet EXCEPT !.at = "number", !.slot = pointer.last,
                                                  !.excused = \/ pointer.last \in spoilt
                                                              \/ ring[pointer.last].bytes # shown]]
  /\ UNCHANGED <<threadVars, old, told, bounds>>

\* The number is looked at, and with what was sent last to anybody it makes the
\* sign of the size.
Number(c, remembered) ==
  LET n == ring[asking[c].slot].number IN
  /\ asking[c].at = "number"
  /\ asking' = [asking EXCEPT ![c].at = "body", ![c].number = n, ![c].fresh = n # old, ![c].bytes = shown,
                             ![c].before = told[c]]
  /\ told' = [d \in CamClients |-> IF d = c THEN n ELSE None]
  /\ old' = remembered
  /\ UNCHANGED <<threadVars, bounds>>

\* A mistake: only a number that is higher is remembered, by one.
Single_NumberOff(c) == Number(c, old + 1)

Single_Number(c) == Number(c, ring[asking[c].slot].number)

\* The frame, of the size it has by now.
Single_Body(c) ==
  /\ asking[c].at = "body"
  /\ asking' = [asking EXCEPT ![c] = Quiet]
  /\ UNCHANGED <<threadVars, old, told, bounds>>
-----------------------------------------------------------------------------
Mishap == bounds.mishaps < MaxMishaps /\ bounds' = [bounds EXCEPT !.mishaps = @ + 1]

\* An operator: "stop", "reset" and "connect" wfsc; cam_stop resets as well.
Operator_Stop ==
  /\ flags.running /\ flags.continue /\ Set("continue", FALSE)
  /\ UNCHANGED <<cam, link, stream, dataVars, old, told, bounds>>

Operator_Reset ==
  /\ Mishap
  /\ ~flags.reset /\ Set("reset", TRUE)
  /\ UNCHANGED <<cam, link, stream, dataVars, old, told>>

Operator_Connect ==
  /\ ~flags.running /\ Goto("outer")
  /\ Mishap
  /\ flags' = [flags EXCEPT !.running = TRUE, !.continue = TRUE]
  /\ UNCHANGED <<link, stream, dataVars, old, told>>

\* cam_stop, and later a start of the camera with another size.
Camera_Restart ==
  /\ Mishap
  /\ link = "up" /\ cam.at \in {"outer", "hello", "size", "frame", "wait", "search", "flush"}
  /\ \E f \in CamFormats : stream' = [next |-> "size", format |-> f]
  /\ Set("reset", TRUE)
  /\ UNCHANGED <<cam, link, dataVars, old, told>>

Camera_Breaks ==
  /\ Mishap
  /\ link = "up" /\ link' = "broken"
  /\ UNCHANGED <<cam, stream, flags, dataVars, old, told>>

Cam_Next ==
  \/ CameraThread
  \/ \E c \in CamClients : Single(c) \/ Single_Number(c) \/ Single_Body(c)
  \/ Operator_Stop \/ Operator_Reset \/ Operator_Connect \/ Camera_Restart \/ Camera_Breaks

Cam_Spec == Cam_Init /\ [][Cam_Next]_camVars
-----------------------------------------------------------------------------
\* A client is sent one whole frame, of the size it was told, under the number
\* of that frame: unless the writer comes round to the slot meanwhile, or what is
\* in the slot was cut short or damaged when a frame was given up, or the size
\* changes, or has changed since the frame.  The sign of the size has told it whether
\* the frame is another one than the client was sent last, unless somebody else has
\* been sent one since.
SingleTruthful ==
  [][\A c \in CamClients :
       LET r == asking[c] IN
       r.at = "body" /\ asking'[c].at = "idle" =>
         /\ ~r.excused /\ r.since < CamSlots - 1 =>
              /\ ring[r.slot].halves = <<r.number, r.number>> /\ r.number # Junk
              /\ ring[r.slot].bytes = r.bytes /\ shown = r.bytes
         /\ r.before # None => (r.fresh <=> r.number # r.before)]_camVars

\* A thread that is told to stop ends, unless an operator starts it again, or it
\* waits from some time on for bytes that never come.
CameraEnds == ~flags.continue ~> ~flags.running \/ flags.continue \/ []CameraStarved

\* A connection that the PCR has broken off is closed, and made again.
CameraReconnects == link = "broken" ~> link # "broken" \/ ~flags.running

\* The thread does what it is told, and gets its connection back, from each of its loops.
CameraResponds == CameraEnds /\ CameraReconnects

\* (Not so.)  "stop wfsc" ends the thread, whatever it is waiting for.
CameraAlwaysEnds == ~flags.continue ~> ~flags.running \/ flags.continue

\* (Not so.)  What is published is whole.
CameraFramesWhole == pointer.last # None => LET f == ring[pointer.last] IN f.halves = <<f.number, f.number>>

\* (Not so.)  wfsc_bytes is the number of bytes in the WFSC frame (DServ.h): it is
\* already that of the frames to come while the last one is of another size.
CameraSizeRight == pointer.last # None /\ pointer.last \notin spoilt => ring[pointer.last].bytes = shown
=============================================================================
