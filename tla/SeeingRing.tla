----------------------------- MODULE SeeingRing -----------------------------
(***************************************************************************)
(* The circular array of seeing values of the Info server (there is a      *)
(* second one like it for strehl values).  Each client has a thread        *)
(* Info_Process: "set Seeing_Value" stores a value and its time            *)
(* (Info_SetParameter), "see_vals" sends all values, the oldest first      *)
(* (Info_SeeingArray), "reset_seeing" forgets them.  No lock is taken.     *)
(* A step is one access to position or total_number; the store to a slot   *)
(* goes with the look at its index, and the reading of a line with the     *)
(* look at the end of its loop.                                            *)
(***************************************************************************)
EXTENDS Integers, Sequences, FiniteSetsExt

CONSTANTS
  Size,       \* SEEING_VALUES
  Writers,    \* clients that set values
  Readers,    \* clients that ask for all values
  MaxValues   \* bound: values that are set

ASSUME SeeingAssumption ==
  Size \in Nat \ {0} /\ MaxValues \in Nat /\ Writers \cap Readers = {}

Clients == Writers \cup Readers

\* The slots of the array, and as much of what lies behind it as can be reached.
Cells == 0 .. Size + MaxValues

\* A value is named by when it was set; 0 is what the array holds at first.
VARIABLES
  value,     \* Array->value
  time,      \* Array->time
  position,  \* Array->position
  total,     \* Array->total_number
  pc,        \* where each thread is
  setting,   \* the value each writer sets
  loaded,    \* what each writer has read of position or total, to add one to
  i,         \* the loop index of each reader
  sent,      \* the lines of each reader's reply
  count,     \* values set so far
  log,       \* history: values completely stored since the last reset, oldest first
  orderly,   \* history: since the last reset, none came between the steps of a store
  touched    \* history: has the array been written since the reader's request came?

arrayVars == <<value, time, position, total>>
history == <<log, orderly, touched>>
writerVars == <<setting, loaded, count>>
readerVars == <<i, sent>>
vars == <<arrayVars, pc, writerVars, readerVars, history>>

Init ==
  /\ value = [c \in Cells |-> 0] /\ time = [c \in Cells |-> 0]
  /\ position = 0 /\ total = 0
  /\ pc = [t \in Clients |-> "idle"]
  /\ setting = [w \in Writers |-> 0] /\ loaded = [w \in Writers |-> 0]
  /\ i = [r \in Readers |-> 0] /\ sent = [r \in Readers |-> <<>>]
  /\ count = 0 /\ log = <<>> /\ orderly = TRUE
  /\ touched = [r \in Readers |-> FALSE]

Go(t, from, to) == pc[t] = from /\ pc' = [pc EXCEPT ![t] = to]

Touch == touched' = [r \in Readers |-> TRUE]

(***************************************************************************)
(* Info_SetParameter, for Seeing_Value                                     *)
(***************************************************************************)

StoreValue(w) ==
  /\ count < MaxValues
  /\ Go(w, "idle", "time")
  /\ count' = count + 1
  /\ setting' = [setting EXCEPT ![w] = count']
  /\ value' = [value EXCEPT ![position] = count']
  /\ orderly' = (orderly /\ \A t \in Clients : pc[t] # "reset")
  /\ Touch
  /\ UNCHANGED <<time, position, total, loaded, readerVars, log>>

StoreTime(w) ==
  /\ Go(w, "time", "load")
  /\ time' = [time EXCEPT ![position] = setting[w]]
  /\ Touch
  /\ UNCHANGED <<value, position, total, writerVars, readerVars, log, orderly>>

\* position++ and total_number++ each read, then write.
Load(w) ==
  /\ \/ Go(w, "load", "move") /\ loaded' = [loaded EXCEPT ![w] = position]
     \/ Go(w, "next", "count") /\ loaded' = [loaded EXCEPT ![w] = total]
  /\ UNCHANGED <<arrayVars, setting, count, readerVars, history>>

MovePosition(w) ==
  /\ Go(w, "move", "next")
  /\ position' = loaded[w] + 1
  /\ Touch
  /\ UNCHANGED <<value, time, total, writerVars, readerVars, log, orderly>>

CountValue(w) ==
  /\ Go(w, "count", "wrap")
  /\ total' = loaded[w] + 1
  /\ Touch
  /\ UNCHANGED <<value, time, position, writerVars, readerVars, log, orderly>>

\* The look whether the end is reached, and in a step of its own the way back.
Wrap(w) ==
  /\ IF position >= Size
     THEN Go(w, "wrap", "zero") /\ UNCHANGED log
     ELSE Go(w, "wrap", "idle") /\ log' = Append(log, setting[w])
  /\ UNCHANGED <<arrayVars, writerVars, readerVars, orderly, touched>>

BackToZero(w) ==
  /\ Go(w, "zero", "idle")
  /\ position' = 0
  /\ log' = Append(log, setting[w])
  /\ Touch
  /\ UNCHANGED <<value, time, total, writerVars, readerVars, orderly>>

(***************************************************************************)
(* reset_seeing, of any client                                             *)
(***************************************************************************)

Reset(t) ==
  /\ Go(t, "idle", "reset")
  /\ position' = 0
  /\ log' = <<>>
  /\ orderly' = \A w \in Writers : pc[w] \in {"idle", "reset"}
  /\ Touch
  /\ UNCHANGED <<value, time, total, writerVars, readerVars>>

\* Mistake: the number of values is not reset.
ResetTotalForgotten(t) ==
  /\ Go(t, "reset", "idle")
  /\ Touch
  /\ UNCHANGED <<arrayVars, writerVars, readerVars, log, orderly>>

ResetTotal(t) ==
  /\ Go(t, "reset", "idle")
  /\ total' = 0
  /\ Touch
  /\ UNCHANGED <<value, time, position, writerVars, readerVars, log, orderly>>

(***************************************************************************)
(* Info_SeeingArray, for see_vals                                          *)
(***************************************************************************)

\* No value yet, no more values than slots, or more.
Reply(r) ==
  /\ \/ total <= 0 /\ Go(r, "idle", "idle")
     \/ total \in 1 .. Size /\ Go(r, "idle", "all")
     \/ total > Size /\ Go(r, "idle", "oldest")
  /\ i' = [i EXCEPT ![r] = 0]
  /\ sent' = [sent EXCEPT ![r] = <<>>]
  /\ touched' = [touched EXCEPT ![r] = FALSE]
  /\ UNCHANGED <<arrayVars, writerVars, log, orderly>>

FindOldest(r) ==
  /\ Go(r, "oldest", "old")
  /\ i' = [i EXCEPT ![r] = position]
  /\ UNCHANGED <<arrayVars, writerVars, sent, history>>

\* The end of each loop, looked at afresh for each line.
LoopEnd(r) == CASE pc[r] = "all" -> total [] pc[r] = "old" -> Size [] pc[r] = "new" -> position

SendLine(r) ==
  /\ pc[r] \in {"all", "old", "new"} /\ i[r] < LoopEnd(r)
  /\ sent' = [sent EXCEPT ![r] = Append(@, [time |-> time[i[r]], value |-> value[i[r]]])]
  /\ i' = [i EXCEPT ![r] = @ + 1]
  /\ UNCHANGED <<arrayVars, pc, writerVars, history>>

\* Mistake: the second loop begins one slot too late.
EndLoopLate(r) ==
  /\ pc[r] \in {"all", "old", "new"} /\ i[r] >= LoopEnd(r)
  /\ IF pc[r] = "old"
     THEN Go(r, "old", "new") /\ i' = [i EXCEPT ![r] = 1]
     ELSE Go(r, pc[r], "idle") /\ UNCHANGED i
  /\ UNCHANGED <<arrayVars, writerVars, sent, history>>

EndLoop(r) ==
  /\ pc[r] \in {"all", "old", "new"} /\ i[r] >= LoopEnd(r)
  /\ IF pc[r] = "old"
     THEN Go(r, "old", "new") /\ i' = [i EXCEPT ![r] = 0]
     ELSE Go(r, pc[r], "idle") /\ UNCHANGED i
  /\ UNCHANGED <<arrayVars, writerVars, sent, history>>

\* The client has gone: the reply is broken off, and the thread goes on to read a
\* request, fails and ends; a new client takes its place.
WriteFails(r) ==
  /\ pc[r] \in {"all", "old", "new"}
  /\ Go(r, pc[r], "idle")
  /\ sent' = [sent EXCEPT ![r] = <<>>]
  /\ touched' = [touched EXCEPT ![r] = TRUE]
  /\ UNCHANGED <<arrayVars, writerVars, i, log, orderly>>

-----------------------------------------------------------------------------
Next ==
  \/ \E w \in Writers :
       \/ StoreValue(w) \/ StoreTime(w) \/ Load(w) \/ MovePosition(w)
       \/ CountValue(w) \/ Wrap(w) \/ BackToZero(w)
  \/ \E t \in Clients : Reset(t) \/ ResetTotal(t)
  \/ \E r \in Readers :
       Reply(r) \/ FindOldest(r) \/ SendLine(r) \/ EndLoop(r) \/ WriteFails(r)

Spec == Init /\ [][Next]_vars

-----------------------------------------------------------------------------
Line == [time : 0 .. MaxValues, value : 0 .. MaxValues]

\* Type invariant: with one writer the position is at most one past the end.
TypeOK ==
  /\ value \in [Cells -> 0 .. MaxValues] /\ time \in [Cells -> 0 .. MaxValues]
  /\ position \in 0 .. Size /\ total \in 0 .. MaxValues
  /\ pc \in [Clients -> {"idle", "reset", "time", "load", "move", "next", "count", "wrap",
                         "zero", "all", "oldest", "old", "new"}]
  /\ setting \in [Writers -> 0 .. MaxValues] /\ loaded \in [Writers -> 0 .. MaxValues]
  /\ i \in [Readers -> Cells] /\ sent \in [Readers -> Seq(Line)]
  /\ count \in 0 .. MaxValues /\ log \in Seq(1 .. MaxValues)
  /\ orderly \in BOOLEAN /\ touched \in [Readers -> BOOLEAN]

\* No reset and no store is half done.
Still == \A t \in Clients : pc[t] # "reset" /\ (t \in Writers => pc[t] = "idle")

\* The values a reply should have: the newest that fit, the oldest of them first.
Newest ==
  LET n == Min({Len(log), Size})
  IN  [k \in 1 .. n |-> [time |-> log[Len(log) - n + k], value |-> log[Len(log) - n + k]]]

\* Info_SetParameter stores values and times inside the array only, wherever a
\* reset comes between its steps.
StoresInside == \A w \in Writers : pc[w] \in {"idle", "time"} => position < Size

\* Between stores, the array holds the newest values with their times, each in the
\* slot position and total_number say, unless a reset came in the middle of a store.
ArrayHoldsNewest ==
  Still /\ orderly =>
    /\ total = Len(log) /\ position = total % Size
    /\ \A k \in 1 .. Len(log) : k > Len(log) - Size =>
         value[(k - 1) % Size] = log[k] /\ time[(k - 1) % Size] = log[k]

\* Values go to their places, wherever the array has come to and whoever resets it.
ArrayRight == StoresInside /\ ArrayHoldsNewest

\* A reply that no store and no reset disturbed has exactly the values that were set
\* since the last reset, as far as they fit, oldest first and each with its time.
QuietReply ==
  \A r \in Readers :
    Still /\ orderly /\ pc[r] = "idle" /\ ~touched[r] => sent[r] = Newest

\* Info_SeeingArray.c:5 "sends the client all the stored Seeing or Strehl values
\* along with their timestamps, starting with the oldest value": even when stores come
\* in between, a reply has no more lines than the array has slots, and its values are
\* in the order they were set.
OldestFirst ==
  \A r \in Readers : orderly =>
    /\ Len(sent[r]) <= Size
    /\ \A j, k \in DOMAIN sent[r] : j < k => sent[r][j].value < sent[r][k].value
=============================================================================
