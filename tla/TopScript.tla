----------------------------- MODULE TopScript -----------------------------
(***************************************************************************)
(* What a thread of the topbox server does to a motor, written as a        *)
(* sequence of steps; module Motors runs them.  Each step names a routine, *)
(* and what its caller does when the routine fails.                        *)
(***************************************************************************)
EXTENDS Integers, Sequences

\* k     what kind of step this is,
\* op    the routine, and arg its argument,
\* flags the flags of Device_Data that the reply carries, or that are tested,
\* value what they are compared with, n how many steps to go on or back.
Step(k, op, arg, flags, value, n) ==
  [k |-> k, op |-> op, arg |-> arg, flags |-> flags, value |-> value, n |-> n]

Do(op, arg)   == Step("do", op, arg, {}, TRUE, 0)     \* failure ends the thread
Undo(op, arg) == Step("undo", op, arg, {}, TRUE, 0)   \* ... after the speed is set back
Try(op, arg)  == Step("try", op, arg, {}, TRUE, 0)    \* failure is ignored
Turn(op)      == Step("turn", op, 0, {}, TRUE, 0)     \* failure ends a turn of the looper

\* Ask for flags, and store them after the unlock; when that fails: go on
\* n steps further, end, end with the connection closed, or end the turn.
GetTry(op, flags, n) == Step("gettry", op, 0, flags, TRUE, n)
GetDo(op, flags)     == Step("getdo", op, 0, flags, TRUE, 0)
GetTurn(op, flags)   == Step("getturn", op, 0, flags, TRUE, 0)

Expect(flag, value)   == Step("expect", "", 0, {flag}, value, 0)   \* or the thread ends
Wait(flag, value)     == Step("wait", "", 0, {flag}, value, 0)     \* poll, at most Tries times
WaitUndo(flag, value) == Step("waitundo", "", 0, {flag}, value, 0)
Skip(flag, value, n)  == Step("skip", "", 0, {flag}, value, n)
Back(flag, value, n)  == Step("back", "", 0, {flag}, value, n)     \* at most MaxSteps times
Sometimes(n)          == Step("sometimes", "", 0, {}, TRUE, n)     \* skip n steps, or not
=============================================================================
