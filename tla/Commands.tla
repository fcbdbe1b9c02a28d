------------------------------ MODULE Commands ------------------------------
(***************************************************************************)
(* What the commands of operators do (PCR_Process): each is one or several *)
(* exchanges with the PC-Reconstructor (PCR), and what came of each is     *)
(* noted in the list of parameters that the Info server shows.  The list   *)
(* is also written by Status_Master, once a second, and by Error_Master,   *)
(* when the PCR tells that it has opened the loop.  The mutex covers one   *)
(* exchange (PcrCommand has it in detail), not a command, nor the list.    *)
(***************************************************************************)
EXTENDS Integers, Sequences

CONSTANTS
  Commanders,    \* operators' connections, each with a thread PCR_Process
  Commanded,     \* the commands they send
  MaxCommands,   \* bound: commands of all of them
  MaxFailures    \* bound: exchanges that go wrong, and loops the PCR opens

VARIABLES
  pcr,        \* the PCR: what it has been made to do
  list,       \* the list of parameters: what is shown of it
  command,    \* each operator's thread: its command, and how far it is
  poll,       \* Status_Master: the reply to "all" that is not in the list yet
  alarm,      \* Error_Master: a loop that was opened is not in the list yet
  resets,     \* PCR_WFSC_reset and PCR_DM_reset, once set
  muddled,    \* history: what two threads were about to note at a time, or the
              \*          PCR did though it seemed to fail
  spent       \* commands and failures so far
commandVars == <<pcr, list, command, poll, alarm, resets, muddled, spent>>

\* An exchange: what the PCR then does, what is noted when it says "OK" and when
\* it does not; whether a failure ends the command, under which condition on
\* the list it is made, and how many exchanges are passed over otherwise.
Send(does) == [does |-> does, notes |-> does, fails |-> <<>>, fatal |-> FALSE,
               unless |-> "never", skip |-> 1, answered |-> TRUE]
Simply(does) == <<Send(does)>>

Camera(source) ==
  [Send([Source |-> source, Initialized |-> TRUE]) EXCEPT !.fails = [Initialized |-> FALSE], !.fatal = TRUE]
Bin      == Send([Size |-> "Bin"])
Open     == Send([Loop |-> FALSE])
ZeroGain == Send([Gain |-> 0])

Cam_Test   == <<Camera("Test"), [Bin EXCEPT !.unless = "sized"]>>
Cam_Image  == <<Camera("Camera"), [Bin EXCEPT !.unless = "full_or_bin", !.skip = 2],
                Send([Rate |-> 550])>>
Cam_Stop   == <<[Open EXCEPT !.unless = "open"], Send([Running |-> FALSE])>>

\* A mistake: the loop is closed before its gain is taken off.
Loop_CloseLate == <<Send([Loop |-> TRUE]), ZeroGain>>
Loop_Close == <<ZeroGain, Send([Loop |-> TRUE])>>
Loop_Open  == <<[Open EXCEPT !.fatal = TRUE], ZeroGain>>
Cam_BgSet  == <<[Send([Background |-> "new"]) EXCEPT !.notes = <<>>], Send([Bg |-> TRUE])>>
Dm_Cmd     == <<[Send([Save |-> TRUE]) EXCEPT !.answered = FALSE]>>

Cam_Full   == Simply([Size |-> "Full"])
Cam_Bias   == Simply([Bias |-> 100])
Cam_Rate   == Simply([Rate |-> 100])
Recon      == Simply([Recon |-> 80])
Loop_Gain  == Simply([Gain |-> 1])
Bg(on)     == Simply([Bg |-> on])
Dynamic(on) == Simply([Dynamic |-> on])

\* Of these only the PCR knows.
UntoldGains == {"loop_pgain", "loop_igain", "loop_dgain", "set_pid_off", "set_pid_on"}
UntoldTaps  == {"set_delta_gain", "set_previous_gain", "set_tap_gains_off", "set_tap_gains_on",
                "slope_offset_on", "slope_offset_off", "mod_offset_on", "mod_offset_off"}
UntoldVectors == {"mod_offset_set", "mod_rate_set"}

CommandNames ==
  {"cam_test", "cam_image", "cam_full", "cam_bin", "cam_bias_set", "cam_rate_set", "recon_set", "cam_start",
   "cam_stop", "loop_close", "loop_open", "loop_gain", "cam_bg_set", "cam_bg_on", "cam_bg_off",
   "cam_dynamic_on", "cam_dynamic_off", "slope_offset_set", "dm_cmd", "nothing"}
  \cup UntoldGains \cup UntoldTaps \cup UntoldVectors

\* What is no command is answered "Error", and is none here either.
ASSUME CommandsAssumption ==
  MaxCommands \in Nat /\ MaxFailures \in Nat /\ Commanded \subseteq CommandNames

\* The exchanges of each command, in their order; one without a value, or with
\* one that is out of range, makes none.
Program(c) ==
  CASE c = "cam_test"     -> Cam_Test
    [] c = "cam_image"    -> Cam_Image
    [] c = "cam_full"     -> Cam_Full
    [] c = "cam_bin"      -> <<Bin>>
    [] c = "cam_bias_set" -> Cam_Bias
    [] c = "cam_rate_set" -> Cam_Rate
    [] c = "recon_set"    -> Recon
    [] c = "cam_start"    -> Simply([Running |-> TRUE])
    [] c = "cam_stop"     -> Cam_Stop
    [] c = "loop_close"   -> Loop_Close
    [] c = "loop_open"    -> Loop_Open
    [] c = "loop_gain"    -> Loop_Gain
    [] c = "cam_bg_set"   -> Cam_BgSet
    [] c = "cam_bg_on"    -> Bg(TRUE)
    [] c = "cam_bg_off"   -> Bg(FALSE)
    [] c = "cam_dynamic_on"   -> Dynamic(TRUE)
    [] c = "cam_dynamic_off"  -> Dynamic(FALSE)
    [] c = "slope_offset_set" -> Simply([Static |-> 1])
    [] c = "dm_cmd"       -> Dm_Cmd
    [] c \in UntoldGains \cup UntoldTaps \cup UntoldVectors -> <<Send(<<>>)>>
    [] c = "nothing"      -> <<>>

\* The conditions, as the list shows them.
Shown(condition) ==
  CASE condition = "never"       -> FALSE
    [] condition = "sized"       -> list.Size # "--"
    [] condition = "full_or_bin" -> list.Size \in {"Full", "Bin"}
    [] condition = "open"        -> ~list.Loop

\* What "all" tells of.
Polled == {"Source", "Initialized", "Size", "Rate", "Bias", "Recon", "Running", "Loop", "Gain",
           "Bg", "Dynamic"}

\* The servers start with a PCR that is idle, or at work already.
Idle == [Source |-> "--", Initialized |-> FALSE, Size |-> "--", Rate |-> 0, Bias |-> 0, Recon |-> 56,
         Running |-> FALSE, Loop |-> FALSE, Gain |-> 0, Bg |-> FALSE, Dynamic |-> FALSE, Static |-> 0,
         Save |-> FALSE]
AtWork == [Idle EXCEPT !.Source = "Camera", !.Initialized = TRUE, !.Size = "Bin", !.Rate = 550,
                       !.Running = TRUE, !.Loop = TRUE, !.Gain = 1]
Waits == [at |-> "read", name |-> "nothing", i |-> 1, ok |-> TRUE, clean |-> FALSE]
Nothing == <<>>

Update(f, values) == [p \in DOMAIN f |-> IF p \in DOMAIN values THEN values[p] ELSE f[p]]

Commands_Init ==
  /\ \E start \in {Idle, AtWork} :
       /\ list = start
       /\ pcr = [p \in DOMAIN start \cup {"Background"} |-> IF p = "Background" THEN "old" ELSE start[p]]
  /\ command = [c \in Commanders |-> Waits]
  /\ poll = Nothing /\ alarm = FALSE /\ resets = {} /\ muddled = {}
  /\ spent = [commands |-> 0, failures |-> 0]
-----------------------------------------------------------------------------
Step(c)  == Program(command[c].name)[command[c].i]
Opened   == [Loop |-> FALSE, Gain |-> 0]
Notes(c) == IF command[c].ok THEN Step(c).notes ELSE Step(c).fails

\* History: what is about to be noted, by threads PCR_Process and by Error_Master.
NotedBy(threads) == UNION {DOMAIN Notes(d) : d \in {x \in threads : command[x].at = "note"}}
Alarmed     == IF alarm THEN DOMAIN Opened ELSE {}
InFlight(c) == NotedBy(Commanders \ {c}) \cup DOMAIN poll \cup Alarmed
Others      == NotedBy(Commanders) \cup Alarmed
Alone(c) == InFlight(c) = {} /\ muddled = {} /\ \A d \in Commanders \ {c} : command[d].at = "read"
Disturbed(c, r) == [d \in Commanders |-> IF d = c THEN r ELSE [command[d] EXCEPT !.clean = FALSE]]

Commence(c) ==
  /\ command[c].at = "read" /\ spent.commands < MaxCommands
  /\ spent' = [spent EXCEPT !.commands = @ + 1]
  /\ \E name \in Commanded :
       command' = [command EXCEPT ![c] = [Waits EXCEPT !.at = "decide", !.name = name, !.clean = Alone(c)]]
  /\ UNCHANGED <<pcr, list, poll, alarm, resets, muddled>>

Decide(c) ==
  LET r == command[c] IN
  /\ r.at = "decide" /\ r.i <= Len(Program(r.name))
  /\ command' = [command EXCEPT ![c] = IF Shown(Step(c).unless) THEN [r EXCEPT !.i = @ + Step(c).skip]
                                       ELSE [r EXCEPT !.at = "ask"]]
  /\ UNCHANGED <<pcr, list, poll, alarm, resets, muddled, spent>>

\* The threads that receive frames are reset, whether or not the PCR did it.
Finish(c) ==
  LET r == command[c] IN
  /\ r.at = "decide" /\ r.i > Len(Program(r.name))
  /\ command' = [command EXCEPT ![c] = Waits]
  /\ resets' = resets \cup (CASE r.name = "cam_stop" -> {"wfsc"} [] r.name = "loop_open" -> {"dm"}
                              [] OTHER -> {})
  /\ UNCHANGED <<pcr, list, poll, alarm, muddled, spent>>

\* PCR_SendCmd, or a routine that sends a vector: "OK".
Ask(c) ==
  LET s == Step(c) IN
  /\ command[c].at = "ask"
  /\ pcr' = Update(pcr, s.does)
  /\ command' = Disturbed(c, [command[c] EXCEPT !.at = "note", !.ok = TRUE])
  /\ muddled' = (muddled \ DOMAIN s.notes) \cup (DOMAIN s.does \cap InFlight(c))
  /\ UNCHANGED <<list, poll, alarm, resets, spent>>

\* "Error", no reply in time or at all, or none that can be sent: the PCR may
\* have done it.
Ask_Fails(c) ==
  LET s == Step(c) IN
  /\ command[c].at = "ask" /\ spent.failures < MaxFailures
  /\ spent' = [spent EXCEPT !.failures = @ + 1]
  /\ pcr' \in {pcr, Update(pcr, s.does)}
  /\ command' = Disturbed(c, [command[c] EXCEPT !.at = "note", !.ok = FALSE, !.clean = FALSE])
  /\ muddled' = muddled \cup DOMAIN s.does \cup DOMAIN s.fails
  /\ UNCHANGED <<list, poll, alarm, resets>>

\* PCR_SendCmd_NoReply: written, and nobody knows more.
Ask_Unheard(c) ==
  LET s == Step(c) IN
  /\ command[c].at = "ask" /\ ~s.answered
  /\ command' = [command EXCEPT ![c].at = "note", ![c].ok = TRUE, ![c].clean = FALSE]
  /\ muddled' = muddled \cup DOMAIN s.does
  /\ UNCHANGED <<pcr, list, poll, alarm, resets, spent>>

\* A mistake: what was asked for is noted, whatever the reply was.
Note_Asked(c) ==
  LET r == command[c]  s == Step(c) IN
  /\ r.at = "note"
  /\ list' = Update(list, s.notes)
  /\ command' = [command EXCEPT ![c].at = "decide", ![c].i = r.i + 1]
  /\ UNCHANGED <<pcr, poll, alarm, resets, muddled, spent>>

Note(c) ==
  LET r == command[c]  s == Step(c) IN
  /\ r.at = "note"
  /\ list' = Update(list, Notes(c))
  /\ command' = [command EXCEPT ![c].at = "decide",
                                ![c].i = IF ~r.ok /\ s.fatal THEN Len(Program(r.name)) + 1 ELSE r.i + 1]
  /\ UNCHANGED <<pcr, poll, alarm, resets, muddled, spent>>
-----------------------------------------------------------------------------
\* Status_Master: "all" is asked for and read, then noted, outside the mutex.
Status_Read ==
  /\ poll = Nothing /\ poll' = [p \in Polled |-> pcr[p]]
  /\ UNCHANGED <<pcr, list, command, alarm, resets, muddled, spent>>

\* A mistake: what is in the list is kept where it has a value.
Status_KeepGain ==
  /\ poll # Nothing /\ poll' = Nothing
  /\ list' = Update(list, [poll EXCEPT !.Gain = list.Gain])
  /\ UNCHANGED <<pcr, command, alarm, resets, muddled, spent>>

Status_UpdateParameters ==
  /\ poll # Nothing /\ poll' = Nothing
  /\ list' = Update(list, poll)
  /\ muddled' = muddled \ {p \in Polled : poll[p] = pcr[p] /\ p \notin Others}
  /\ UNCHANGED <<pcr, command, alarm, resets, spent>>

\* The PCR opens the loop on an error of its own and says so; the error port
\* may be down.
PCR_Opens ==
  /\ pcr.Loop /\ spent.failures < MaxFailures
  /\ spent' = [spent EXCEPT !.failures = @ + 1]
  /\ pcr' = Update(pcr, Opened)
  /\ command' = [d \in Commanders |-> [command[d] EXCEPT !.clean = FALSE]]
  /\ \/ alarm' = TRUE /\ muddled' = muddled \cup (DOMAIN Opened \cap (Others \cup DOMAIN poll))
     \/ UNCHANGED alarm /\ muddled' = muddled \cup DOMAIN Opened
  /\ UNCHANGED <<list, poll, resets>>

\* Error_Master notes it, two seconds of sound later.
Error_Master ==
  /\ alarm /\ alarm' = FALSE
  /\ list' = Update(list, Opened)
  /\ UNCHANGED <<pcr, command, poll, resets, muddled, spent>>

Commands_Next ==
  \/ \E c \in Commanders : \/ Commence(c) \/ Decide(c) \/ Finish(c)
                           \/ Ask(c) \/ Ask_Fails(c) \/ Ask_Unheard(c) \/ Note(c)
  \/ Status_Read \/ Status_UpdateParameters \/ PCR_Opens \/ Error_Master

Commands_Spec == Commands_Init /\ [][Commands_Next]_commandVars
-----------------------------------------------------------------------------
\* The list shows what the PCR does, unless two threads were about to note the
\* same thing at a time or an exchange failed; the next clear one puts it right.
ListFollows ==
  \A p \in DOMAIN list \ muddled :
    p \notin Others \cup DOMAIN poll => list[p] = pcr[p]

\* In the end the list shows what the PCR does, as far as the PCR tells of it.
ListCatchesUp == <>[](\A p \in Polled : list[p] = pcr[p])

\* A command of one operator at a time, without a failure, does what its name
\* promises in several exchanges.
CommandsDo ==
  [][\A c \in Commanders :
       command[c].clean /\ command[c].at # "read" /\ command'[c].at = "read" =>
         CASE command[c].name = "cam_test"   -> pcr.Source = "Test" /\ pcr.Size # "--"
           [] command[c].name = "cam_image"  -> pcr.Source = "Camera" /\ pcr.Size # "--"
           [] command[c].name = "cam_stop"   -> ~pcr.Running /\ ~pcr.Loop
           [] command[c].name = "loop_close" -> pcr.Loop /\ pcr.Gain = 0
           [] command[c].name = "loop_open"  -> ~pcr.Loop /\ pcr.Gain = 0
           [] command[c].name = "cam_bg_set" -> pcr.Bg /\ pcr.Background = "new"
           [] OTHER -> TRUE]_commandVars

\* The loop closes only at a gain of zero, under the same conditions.
ClosesAtZeroGain ==
  [][\A c \in Commanders :
       command[c].clean /\ command[c].at = "ask" /\ command'[c].at = "note" /\ ~pcr.Loop /\ pcr'.Loop
         => pcr.Gain = 0]_commandVars

\* Commands of several exchanges do, in the right order, what they are called.
CommandsRight == CommandsDo /\ ClosesAtZeroGain

\* (Not so.)  The camera is never stopped while the loop is closed: "If the loop
\* is running, then we must open it" (PCR_Process.c:559).
CamStopsOpenLoop == [][pcr.Running /\ ~pcr'.Running => ~pcr.Loop]_commandVars
=============================================================================
