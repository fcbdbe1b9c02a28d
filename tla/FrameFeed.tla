----------------------------- MODULE FrameFeed -----------------------------
(***************************************************************************)
(* What the ring of frames promises its readers: at any moment the Depth   *)
(* frames filled last, whole, in the order the PC-Reconstructor sent them, *)
(* and each new frame pushes out at most one, the oldest.  The promise     *)
(* ends when a frame is given up half way ("intact" turns FALSE).          *)
(***************************************************************************)
EXTENDS Integers, Sequences

CONSTANTS
  Frames,   \* what may be filled in
  Depth     \* how many frames the ring remembers

VARIABLES
  recent,   \* the frames remembered, oldest first
  intact    \* has every frame begun been finished?

fvars == <<recent, intact>>

FInit == recent = <<>> /\ intact = TRUE

\* One more frame is filled.
Fill ==
  /\ intact /\ intact'
  /\ \E f \in Frames :
       recent' = IF Len(recent) < Depth THEN Append(recent, f)
                                        ELSE Append(Tail(recent), f)

\* A frame is given up half way: nothing is promised any more.
Spoil == intact /\ ~intact'

FNext == Fill \/ Spoil \/ (~intact /\ ~intact')

FSpec == FInit /\ [][FNext]_fvars
=============================================================================
