----------------------------- MODULE InfoServer -----------------------------
(***************************************************************************)
(* The Info server of the data server (data_server/Info): a list of named  *)
(* values that clients set and read.  main points the flags of the list at *)
(* the variables of its threads and reads the defaults of the rest from a  *)
(* file; Info_Master then accepts clients, each with a thread Info_Process *)
(* and a slot.  No lock protects the list: a text is copied into it byte   *)
(* by byte, here in two halves.  SeeingRing has the arrays of values that  *)
(* go with Seeing_Value and Strehl_Value.                                  *)
(***************************************************************************)
EXTENDS Naturals, Sequences

CONSTANTS
  InfoClients,      \* clients of the Info server
  InfoAskers,       \* those of them that ask for replies
  InfoConnections,  \* INFO_CONNECTIONS (20)
  Named,            \* the texts of the list that clients set
  MaxSet,           \* bound: values that are set
  NoName, NoClient    \* no name at all; no client

\* Info_List in its order: the flags, the entries Info_SendSeeing sends, and
\* of the rest one of each type.
Info_List ==
  <<"PCR_Client_Running", "PCR_CMD_Connected", "PCR_CMD_Error", "PCR_WFSC_Connected",
    "PCR_WFSC_Error", "PCR_WFSC_Receiving_Data", "PCR_WFSC_Rate", "PCR_DDS_Connected",
    "PCR_DDS_Error", "PCR_DDS_Receiving_Data", "PCR_DDS_Rate", "PCR_ERROR_Connected",
    "PCR_ERROR_Error", "Recon_Name", "DServ_WFSC_Running", "DServ_DDS_Running",
    "Info_Running", "WFSC_Period", "WFSC_Frequency", "Seeing_Modulating",
    "Seeing_Mode_File", "Seeing_Total_Modes", "Seeing_Mode", "Seeing_Scale_Factor",
    "Seeing_Period", "Seeing_Frequency", "Seeing_Gain_Change", "Seeing_Value",
    "Strehl_Value", "Science_Observing", "Background_Dynamic", "Background_Static",
    "Background_File", "Loop_Running", "Loop_Gain", "Loop_Save_Data", "P_Gain">>

\* What each thread of the data server keeps for itself of the same things.
RunningPointers ==
  [PCR_Client_Running |-> "PCR_Client_running", DServ_WFSC_Running |-> "DServ_WFSC_running",
   DServ_DDS_Running |-> "DServ_DDS_running", Info_Running |-> "Info_running"]
FramePointers ==
  [PCR_WFSC_Receiving_Data |-> "PCR_WFSC_receiving_data", PCR_WFSC_Rate |-> "PCR_WFSC_rate",
   PCR_DDS_Receiving_Data |-> "PCR_DM_receiving_data", PCR_DDS_Rate |-> "PCR_DM_rate"]
SocketPointers ==
  [PCR_CMD_Connected   |-> "PCR_CMD_Socket.connected",   PCR_CMD_Error   |-> "PCR_CMD_Socket.error",
   PCR_WFSC_Connected  |-> "PCR_WFSC_Socket.connected",  PCR_WFSC_Error  |-> "PCR_WFSC_Socket.error",
   PCR_DDS_Connected   |-> "PCR_DM_Socket.connected",    PCR_DDS_Error   |-> "PCR_DM_Socket.error",
   PCR_ERROR_Connected |-> "PCR_Error_Socket.connected", PCR_ERROR_Error |-> "PCR_Error_Socket.error"]

Flags   == DOMAIN RunningPointers \cup DOMAIN FramePointers \cup DOMAIN SocketPointers
Numbers == {"WFSC_Period", "WFSC_Frequency", "Background_Dynamic", "Background_Static",
            "Loop_Running", "Loop_Gain", "Loop_Save_Data", "P_Gain"}
Texts   == {Info_List[k] : k \in DOMAIN Info_List} \ (Flags \cup Numbers)

ASSUME InfoAssumption ==
  /\ {InfoConnections, MaxSet} \subseteq Nat \ {0}
  /\ Named \subseteq Texts /\ NoName \notin Flags
  /\ \A n \in DOMAIN RunningPointers : RunningPointers[n] # NoName
  /\ \A n \in DOMAIN FramePointers : FramePointers[n] # NoName
  /\ \A n \in DOMAIN SocketPointers : SocketPointers[n] # NoName

Seeing_List ==
  <<"WFSC_Period", "WFSC_Frequency", "Seeing_Modulating", "Seeing_Mode_File",
    "Seeing_Total_Modes", "Seeing_Mode", "Seeing_Scale_Factor", "Seeing_Period",
    "Seeing_Frequency", "Seeing_Gain_Change", "Seeing_Value", "Science_Observing",
    "Background_Dynamic", "Background_Static", "Background_File", "Loop_Running",
    "Loop_Gain", "Loop_Save_Data">>

\* strncmp with the length of the name in the list: one entry's name begins
\* with another's.
Matches(request, name) ==
  request = name \/ (request = "Seeing_Mode_File" /\ name = "Seeing_Mode")

Positions(request) == {k \in DOMAIN Info_List : Matches(request, Info_List[k])}

\* A mistake: the search goes on after a match.
Info_FindLast(request) == CHOOSE k \in Positions(request) : \A j \in Positions(request) : j <= k
\* The first entry that matches.
Info_FindParameter(request) ==
  CHOOSE k \in Positions(request) : \A j \in Positions(request) : k <= j

Info_SeeingPositions == [j \in DOMAIN Seeing_List |-> Info_FindParameter(Seeing_List[j])]
-----------------------------------------------------------------------------
VARIABLES
  stage,     \* how far main has come; "over" when the process has ended
  pointer,   \* i_ptr of each flag
  written,   \* the pointers that the defaults were written through
  text,      \* s_value of the texts in Named, in two halves
  threads,   \* the client of each Thread_Info[i].sockfd
  doing,     \* what the thread of each client does
  asked,     \* the name and the value it sets
  at,        \* the lines of a reply it has sent
  line,      \* the last of these lines, and what was read for it
  settings,  \* values set so far
  setters,   \* history: who has set each name
  last       \* history: the value it was set to last
infoVars == <<stage, pointer, written, text, threads, doing, asked, at, line,
              settings, setters, last>>

Info_Init ==
  /\ stage = "sockets" /\ pointer = [n \in Flags |-> NoName] /\ written = {}
  /\ text = [n \in Named |-> <<0, 0>>]
  /\ threads = [k \in 1 .. InfoConnections |-> NoClient]
  /\ doing = [c \in InfoClients |-> "away"] /\ asked = [c \in InfoClients |-> <<NoName, 0>>]
  /\ at = [c \in InfoClients |-> 0] /\ line = [c \in InfoClients |-> <<NoName, 0>>]
  /\ settings = 0 /\ setters = [n \in Named |-> {}] /\ last = [n \in Named |-> 0]

(***************************************************************************)
(* main, up to the threads it starts.                                      *)
(***************************************************************************)
ListUnchanged == UNCHANGED <<text, threads, doing, asked, at, line, settings, setters, last>>

\* Socket_Setup, and the variables of the threads, all zero.
Socket_Setup ==
  /\ stage = "sockets" /\ stage' \in {"pointers", "over"}
  /\ UNCHANGED <<pointer, written>> /\ ListUnchanged

Points(at_) == pointer' = [n \in Flags |-> IF n \in DOMAIN at_ THEN at_[n] ELSE pointer[n]]

\* Info_SetFlagPointers
SetRunning == stage = "pointers" /\ stage' = "frames" /\ Points(RunningPointers)
              /\ UNCHANGED written /\ ListUnchanged
SetFrames  == stage = "frames" /\ stage' = "links" /\ Points(FramePointers)
              /\ UNCHANGED written /\ ListUnchanged
SetSockets == stage = "links" /\ stage' = "defaults" /\ Points(SocketPointers)
              /\ UNCHANGED written /\ ListUnchanged

\* The lines of default.info: every entry but these two, flags among them.
Defaults == {Info_List[k] : k \in DOMAIN Info_List} \ {"PCR_WFSC_Receiving_Data", "PCR_WFSC_Rate"}

Info_ReadFile ==
  /\ stage = "defaults" /\ stage' \in {"listen", "over"}
  /\ written' = {pointer[n] : n \in Defaults \cap Flags}
  /\ UNCHANGED pointer /\ ListUnchanged

\* The threads of main are started, Info_Master among them, which opens its port.
Info_Open ==
  /\ stage = "listen" /\ stage' \in {"serve", "closed", "over"}
  /\ UNCHANGED <<pointer, written>> /\ ListUnchanged

(***************************************************************************)
(* Info_Master                                                             *)
(***************************************************************************)
DataUnchanged == UNCHANGED <<pointer, written, text, asked, line, settings, setters, last>>
FreeThreads == {k \in DOMAIN threads : threads[k] = NoClient}

\* A client comes: the first slot that is free, and a thread; if all are
\* taken, or the thread cannot be created, it is never answered.
Info_Accept(c) ==
  /\ stage = "serve" /\ doing[c] = "away"
  /\ \/ \E k \in FreeThreads :
          /\ \A j \in FreeThreads : k <= j
          /\ threads' = [threads EXCEPT ![k] = c] /\ doing' = [doing EXCEPT ![c] = "idle"]
     \/ threads' = threads /\ doing' = [doing EXCEPT ![c] = "refused"]
  /\ UNCHANGED <<stage, at>> /\ DataUnchanged

\* A socket cannot be set to blocking: the loop ends and the threads with it.
Info_Cancel ==
  /\ stage = "serve" /\ stage' = "closed"
  /\ doing' = [c \in InfoClients |-> IF doing[c] = "away" THEN "away" ELSE "refused"]
  /\ UNCHANGED <<threads, at>> /\ DataUnchanged

(***************************************************************************)
(* Info_Process                                                            *)
(***************************************************************************)
Serving(c, what) == stage = "serve" /\ doing[c] = what
Goes(c, what)    == doing' = [doing EXCEPT ![c] = what]

\* "set", a name of the list and a value.  A name that is not in the list is
\* in SetUnknown, and the other requests touch nothing of this.
Info_SetParameter(c) ==
  /\ Serving(c, "idle") /\ Goes(c, "first") /\ settings < MaxSet
  /\ settings' = settings + 1
  /\ \E n \in Named :
       /\ asked' = [asked EXCEPT ![c] = <<n, settings'>>]
       /\ setters' = [setters EXCEPT ![n] = @ \cup {c}]
       /\ last' = [last EXCEPT ![n] = settings']
  /\ UNCHANGED <<stage, pointer, written, text, threads, at, line>>

\* strcpy
Copies(c, half) ==
  /\ LET n == Info_List[Info_FindParameter(asked[c][1])]
     IN  text' = [text EXCEPT ![n][half] = asked[c][2]]
  /\ UNCHANGED <<stage, pointer, written, threads, asked, at, line, settings, setters, last>>
CopyFirst(c)  == Serving(c, "first") /\ Goes(c, "second") /\ Copies(c, 1)
CopySecond(c) == Serving(c, "second") /\ Goes(c, "idle") /\ Copies(c, 2)

\* "all" and "seeing", or a reply that is the same whatever the list holds
\* (Info_SendHelp, "debug").
Info_Request(c) ==
  /\ Serving(c, "idle") /\ c \in InfoAskers
  /\ \E what \in {"all", "seeing", "idle"} : Goes(c, what)
  /\ UNCHANGED <<stage, threads, at>> /\ DataUnchanged

\* What is read for the entry at position k.
Read(k) ==
  LET n == Info_List[k]
  IN  CASE n \in Flags   -> <<n, pointer[n]>>
        [] n \in Named   -> <<n, text[n]>>
        [] OTHER         -> <<n, 0>>

Sends(c, k) ==
  /\ line' = [line EXCEPT ![c] = Read(k)] /\ at' = [at EXCEPT ![c] = @ + 1]
  /\ UNCHANGED <<stage, pointer, written, text, threads, doing, asked, settings, setters, last>>
Info_SendAll(c)    == Serving(c, "all") /\ at[c] < Len(Info_List) /\ Sends(c, at[c] + 1)
Info_SendSeeing(c) == Serving(c, "seeing") /\ at[c] < Len(Seeing_List)
                      /\ Sends(c, Info_SeeingPositions[at[c] + 1])

\* The reply is over.
NoReply(c) == at' = [at EXCEPT ![c] = 0] /\ line' = [line EXCEPT ![c] = <<NoName, 0>>]

\* "EOF"
Info_SendEOF(c) ==
  /\ \/ Serving(c, "all") /\ at[c] = Len(Info_List)
     \/ Serving(c, "seeing") /\ at[c] = Len(Seeing_List)
  /\ Goes(c, "idle") /\ NoReply(c)
  /\ UNCHANGED <<stage, threads, pointer, written, text, asked, settings, setters, last>>

\* "quit", a request of one character, or a client that has gone, which is
\* noticed at the next read or write: the slot is free again.
Info_End(c) ==
  /\ stage = "serve" /\ doing[c] \in {"idle", "all", "seeing"} /\ Goes(c, "away")
  /\ threads' = [k \in DOMAIN threads |-> IF threads[k] = c THEN NoClient ELSE threads[k]]
  /\ NoReply(c)
  /\ UNCHANGED <<stage, pointer, written, text, asked, settings, setters, last>>

\* A name that is not in the list: position is whatever the stack holds, and
\* is used.  Mostly nothing comes of it, or the process ends.
SetUnknown(c) ==
  /\ Serving(c, "idle") /\ stage' \in {"serve", "over"}
  /\ UNCHANGED <<threads, doing, at>> /\ DataUnchanged

Info_Next ==
  \/ Socket_Setup \/ SetRunning \/ SetFrames \/ SetSockets \/ Info_ReadFile \/ Info_Open
  \/ Info_Cancel
  \/ \E c \in InfoClients :
       \/ Info_Accept(c) \/ Info_SetParameter(c) \/ CopyFirst(c) \/ CopySecond(c)
       \/ Info_Request(c) \/ Info_SendAll(c) \/ Info_SendSeeing(c) \/ Info_SendEOF(c)
       \/ Info_End(c) \/ SetUnknown(c)

Info_Spec == Info_Init /\ [][Info_Next]_infoVars
-----------------------------------------------------------------------------
\* The defaults are written, and lines are read, through pointers that are
\* set, never through one that is not; and each entry of the seeing list is
\* read at its own place, though one name begins with another.
PointersSet ==
  /\ NoName \notin written
  /\ \A c \in InfoClients :
       /\ line[c][1] \in Flags => line[c][2] = pointer[line[c][1]] /\ line[c][2] # NoName
       /\ doing[c] = "seeing" /\ at[c] > 0 => line[c][1] = Seeing_List[at[c]]

\* A text that one client only has set is, when it is not being set, the
\* value it was set to last: whole, and not what was meant for another name.
TextWhole ==
  \A n \in Named : \A c \in InfoClients :
    setters[n] = {c} /\ ~(asked[c][1] = n /\ doing[c] \in {"first", "second", "refused"}) =>
      text[n] = <<last[n], last[n]>>

\* Every entry of the list is written and read through its own pointer, and no
\* text is mixed of two.
EntriesOwn == PointersSet /\ TextWhole
=============================================================================
