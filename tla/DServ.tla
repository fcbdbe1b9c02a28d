------------------------------- MODULE DServ -------------------------------
(***************************************************************************)
(* The clients of the data server: threads DServ_Process that send frames  *)
(* out of the ring of FrameRing while PCR_GetDM goes on filling it.        *)
(*                                                                         *)
(* A client either asks for frames one by one (DServ_GetSingle) or for all *)
(* frames from now on (DServ_Stream).  No lock is taken anywhere.          *)
(* Socket_StringWrite blocks while the client is slow, so a frame may      *)
(* change between two writes, and between two sections of one.             *)
(***************************************************************************)
EXTENDS FrameRing

CONSTANTS
  Clients,    \* threads DServ_Process
  MaxTries    \* number_tries: polls for the next frame before giving up

ASSUME ClientsAssumption == MaxTries \in Nat

VARIABLES
  requests,   \* what each client requests, "single" or "stream"
  cpc,        \* where the thread is
  wanted,     \* sections asked for, in the order they are sent
  whole,      \* was the request "all", one write of all sections?
  slot,       \* the slot being sent from
  first,      \* first_frame of DServ_Stream
  nextNumber, \* next_number of DServ_Stream
  tries,      \* count of DServ_Stream
  sentNumber, \* the frame number sent with this frame
  sentCells,  \* the sections sent after it
  at          \* history: <<place in log of the frame in slot at the header,
              \*            the same for each section sent>>

clientVars == <<requests, cpc, wanted, whole, slot, first, nextNumber, tries, sentNumber,
                sentCells, at>>
dvars == <<vars, clientVars>>

Singles == {c \in Clients : requests[c] = "single"}
Streams == {c \in Clients : requests[c] = "stream"}

-----------------------------------------------------------------------------
Sections == Header .. Total - 1

Requests ==
  {s \in UNION {[1 .. n -> Sections] : n \in 1 .. NumSections} :
     \A i, j \in DOMAIN s : i < j => s[i] < s[j]}

AllSections == [i \in 1 .. NumSections |-> i + Header - 1]

\* ntohl of the four bytes after the marker in slot s.
NumberIn(s) ==
  LET c == buffer[s][NUMBER]
  IN IF c = Empty THEN {0}
     ELSE IF c.part = NUMBER /\ c.frame # Garbage THEN {c.frame.number}
     ELSE 0 .. MaxNumber

\* History: the frame at place i of the log, the one being received included.
FrameAt(i) == IF i <= Len(log) THEN log[i].frame ELSE incoming

\* PCR_GetDM has come round to the slot of the frame at place i again.
Overtaken(i) == Len(log) + 1 - i >= NumFrames

DInit ==
  /\ Init
  /\ requests \in [Clients -> {"single", "stream"}]
  /\ cpc = [c \in Clients |-> "idle"]
  /\ wanted = [c \in Clients |-> <<>>] /\ whole = [c \in Clients |-> FALSE]
  /\ slot = [c \in Clients |-> 0] /\ first = [c \in Clients |-> -1]
  /\ nextNumber = [c \in Clients |-> 0] /\ tries = [c \in Clients |-> 0]
  /\ sentNumber = [c \in Clients |-> 0] /\ sentCells = [c \in Clients |-> <<>>]
  /\ at = [c \in Clients |-> <<>>]

Go(c, from, to) == cpc[c] = from /\ cpc' = [cpc EXCEPT ![c] = to]

\* Parse the set names: any selection of sections, or "all".
Ask(c) ==
  \E r \in Requests, w \in BOOLEAN :
    /\ w => r = AllSections
    /\ wanted' = [wanted EXCEPT ![c] = r]
    /\ whole' = [whole EXCEPT ![c] = w]

(***************************************************************************)
(* DServ_GetSingle                                                         *)
(***************************************************************************)

\* The number is taken from the frame that is last now.  The reply -2 before the
\* first frame changes nothing.
SingleHeader(c) ==
  /\ Go(c, "idle", "set")
  /\ last >= 0
  /\ Ask(c)
  /\ \E n \in NumberIn(last) : sentNumber' = [sentNumber EXCEPT ![c] = n]
  /\ sentCells' = [sentCells EXCEPT ![c] = <<>>]
  /\ at' = [at EXCEPT ![c] = <<Len(log)>>]
  /\ UNCHANGED <<vars, requests, slot, first, nextNumber, tries>>

\* Mistake: the sections are those of the frame being received.
SingleSetActive(c) ==
  /\ Go(c, "set", "write")
  /\ slot' = [slot EXCEPT ![c] = active]
  /\ at' = [at EXCEPT ![c] = Append(@, Len(log))]
  /\ UNCHANGED <<vars, requests, wanted, whole, first, nextNumber, tries, sentNumber, sentCells>>

\* for ( i=0; i<sets; i++): framePtr[last] is taken afresh for each set, and "all"
\* is one set.
SingleSet(c) ==
  /\ Go(c, "set", "write")
  /\ slot' = [slot EXCEPT ![c] = last]
  /\ at' = [at EXCEPT ![c] = Append(@, Len(log))]
  /\ UNCHANGED <<vars, requests, wanted, whole, first, nextNumber, tries, sentNumber, sentCells>>

CopySection(c) ==
  sentCells' = [sentCells EXCEPT
                  ![c] = Append(@, buffer[slot[c]][wanted[c][Len(@) + 1]])]

MoreSections(c) == Len(sentCells[c]) + 1 < Len(wanted[c])

SingleWrite(c) ==
  /\ c \in Singles
  /\ Go(c, "write", IF ~MoreSections(c) THEN "idle"
                    ELSE IF whole[c] THEN "write" ELSE "set")
  /\ CopySection(c)
  /\ UNCHANGED <<vars, requests, wanted, whole, slot, first, nextNumber, tries, sentNumber, at>>

(***************************************************************************)
(* DServ_Stream                                                            *)
(***************************************************************************)

StreamRequest(c) ==
  /\ Go(c, "idle", "wait")
  /\ Ask(c)
  /\ first' = [first EXCEPT ![c] = last]
  /\ at' = [at EXCEPT ![c] = <<Len(log) + 1>>]
  /\ UNCHANGED <<vars, requests, slot, nextNumber, tries, sentNumber, sentCells>>

\* Mistake: start with the frame that is last when the thread notices the change.
StreamStartAtLast(c) ==
  /\ last # first[c]
  /\ Go(c, "wait", "header")
  /\ slot' = [slot EXCEPT ![c] = last]
  /\ \E n \in NumberIn(last) : nextNumber' = [nextNumber EXCEPT ![c] = n + 1]
  /\ UNCHANGED <<vars, requests, wanted, whole, first, tries, sentNumber, sentCells, at>>

\* last has changed: start with the slot after the one that was last.
StreamStart(c) ==
  /\ last # first[c]
  /\ Go(c, "wait", "header")
  /\ LET s == IF first[c] < 0 \/ first[c] >= NumFrames - 1 THEN 0 ELSE first[c] + 1
     IN /\ slot' = [slot EXCEPT ![c] = s]
        /\ \E n \in NumberIn(s) : nextNumber' = [nextNumber EXCEPT ![c] = n + 1]
  /\ UNCHANGED <<vars, requests, wanted, whole, first, tries, sentNumber, sentCells, at>>

\* The number sent is read again, after it was compared.
StreamHeader(c) ==
  /\ Go(c, "header", "write")
  /\ \E n \in NumberIn(slot[c]) : sentNumber' = [sentNumber EXCEPT ![c] = n]
  /\ sentCells' = [sentCells EXCEPT ![c] = <<>>]
  /\ UNCHANGED <<vars, requests, wanted, whole, slot, first, nextNumber, tries, at>>

StreamWrite(c) ==
  /\ c \in Streams
  /\ Go(c, "write", IF MoreSections(c) THEN "write" ELSE "sent")
  /\ CopySection(c)
  /\ UNCHANGED <<vars, requests, wanted, whole, slot, first, nextNumber, tries, sentNumber, at>>

StreamAdvance(c) ==
  /\ Go(c, "sent", "poll")
  /\ slot' = [slot EXCEPT ![c] = NextFrame(@)]
  /\ tries' = [tries EXCEPT ![c] = 0]
  /\ at' = [at EXCEPT ![c] = <<@[1] + 1>>]
  /\ UNCHANGED <<vars, requests, wanted, whole, first, nextNumber, sentNumber, sentCells>>

\* Mistake: the polls are not counted.
StreamPollForever(c) ==
  /\ cpc[c] = "poll"
  /\ \E n \in NumberIn(slot[c]) :
       \/ /\ n >= nextNumber[c]
          /\ Go(c, "poll", "header")
          /\ nextNumber' = [nextNumber EXCEPT ![c] = n + 1]
       \/ /\ n < nextNumber[c]
          /\ UNCHANGED <<cpc, nextNumber>>
  /\ UNCHANGED <<vars, requests, wanted, whole, slot, first, tries, sentNumber, sentCells, at>>

\* One turn of "Check to see if the next frame has been saved".  next_number is
\* one more than the number compared, not than the number sent.
StreamPoll(c) ==
  /\ cpc[c] = "poll"
  /\ \E n \in NumberIn(slot[c]) :
       \/ /\ n >= nextNumber[c]
          /\ Go(c, "poll", "header")
          /\ nextNumber' = [nextNumber EXCEPT ![c] = n + 1]
          /\ UNCHANGED tries
       \/ /\ n < nextNumber[c]
          /\ tries' = [tries EXCEPT ![c] = @ + 1]
          /\ Go(c, "poll", IF tries'[c] > MaxTries THEN "ended" ELSE "poll")
          /\ UNCHANGED nextNumber
  /\ UNCHANGED <<vars, requests, wanted, whole, slot, first, sentNumber, sentCells, at>>

\* The client asks to stop, where the thread looks for requests, or is gone when
\* something is written to it.  DServ_Process ends the thread after a stream.
StreamEnd(c) ==
  /\ cpc[c] \in {"wait", "header", "write", "poll"}
  /\ cpc' = [cpc EXCEPT ![c] = "ended"]
  /\ UNCHANGED <<vars, requests, wanted, whole, slot, first, nextNumber, tries, sentNumber,
                 sentCells, at>>

StreamStep(c) ==
  \/ StreamStart(c) \/ StreamHeader(c) \/ StreamWrite(c)
  \/ StreamAdvance(c) \/ StreamPoll(c)

DNext ==
  \/ Next /\ UNCHANGED clientVars
  \/ \E c \in Singles : SingleHeader(c) \/ SingleSet(c) \/ SingleWrite(c)
  \/ \E c \in Streams : StreamRequest(c) \/ StreamStep(c) \/ StreamEnd(c)

DSpec == DInit /\ [][DNext]_dvars

\* Threads of streams run; nothing is assumed of the PCR, operators and clients.
DFairSpec == DSpec /\ \A c \in Clients : WF_dvars(c \in Streams /\ StreamStep(c))

(***************************************************************************)
(* Properties                                                              *)
(***************************************************************************)

DTypeOK ==
  /\ TypeOK
  /\ requests \in [Clients -> {"single", "stream"}]
  /\ cpc \in [Clients -> {"idle", "set", "wait", "header", "write", "sent",
                          "poll", "ended"}]
  /\ \A c \in Clients :
       /\ wanted[c] \in Requests \cup {<<>>} /\ whole[c] \in BOOLEAN
       /\ slot[c] \in Slots /\ first[c] \in Slots \cup {-1}
       /\ nextNumber[c] \in 0 .. MaxNumber + 1 /\ tries[c] \in 0 .. MaxTries + 1
       /\ sentNumber[c] \in 0 .. MaxNumber
       /\ \A i \in DOMAIN sentCells[c] : sentCells[c][i] \in Cell \cup {Empty}

\* The place in the log of section i of a single reply: "all" takes framePtr[last]
\* once, other requests once a set.
SectionAt(c, i) == at[c][IF whole[c] THEN 2 ELSE i + 1]

\* Each section of a single reply comes whole from the frame that was last when its
\* turn came, unless the client was so slow that the ring came round meanwhile.
SingleSectionsFresh ==
  \A c \in Singles : \A i \in DOMAIN sentCells[c] :
    (clean /\ ~Overtaken(SectionAt(c, i))) =>
      sentCells[c][i] = [part |-> wanted[c][i], frame |-> FrameAt(SectionAt(c, i))]

\* The frame number of a single reply is never newer than its data.
SingleNumberNotAhead ==
  \A c \in Singles :
    (clean /\ cpc[c] # "idle" /\ ~Overtaken(at[c][1])) =>
       sentNumber[c] = FrameAt(at[c][1]).number

\* A single reply is of the frames that were last in their turns, and does not
\* announce a newer one.
SinglesFresh == SingleSectionsFresh /\ SingleNumberNotAhead

\* A client that keeps up gets every frame number, one after the other, beginning
\* with the first frame filled after its request: "This was we are guarenteed to
\* start at the very first frame when the loop is close".
StreamGapless ==
  \A c \in Streams :
    (clean /\ cpc[c] \in {"write", "sent"} /\ ~Overtaken(at[c][1])) =>
       sentNumber[c] = FrameAt(at[c][1]).number

\* A client that does not keep up loses whole laps of the ring, never a few frames:
\* the number sent is the expected one or a multiple of NumFrames away.
StreamLosesWholeLaps ==
  \A c \in Streams :
    (clean /\ ~Restarts /\ cpc[c] \in {"write", "sent"}) =>
       (sentNumber[c] - (at[c][1] - 1)) % NumFrames = 0

\* A stream goes on in the order of the frames: without a gap for a client that keeps
\* up, and by whole laps for one that does not.
StreamsInTurn == StreamGapless /\ StreamLosesWholeLaps

\* A stream waiting for a frame sends it or ends, in the end.
StreamNotStuck == \A c \in Clients : cpc[c] = "poll" ~> cpc[c] # "poll"

\* "single: send a single WFSC frame": number and sections are of one frame.
SingleIsOneFrame ==
  \A c \in Singles : \A i \in DOMAIN sentCells[c] :
    (clean /\ ~Overtaken(at[c][1])) => sentCells[c][i].frame = FrameAt(at[c][1])

\* "Check to see if the next frame has been saved": what is sent for a frame is what
\* the PCR sent.
StreamFrameSaved ==
  \A c \in Streams :
    (clean /\ cpc[c] \in {"write", "sent"} /\ ~Overtaken(at[c][1])) =>
       \A i \in DOMAIN sentCells[c] :
         sentCells[c][i] = [part |-> wanted[c][i], frame |-> FrameAt(at[c][1])]
=============================================================================
