---------------------------- MODULE LatestFrame ----------------------------
(***************************************************************************)
(* What a live camera view promises, without buffers or queues: between    *)
(* the camera and the screen stands a register for one frame.  A newer     *)
(* frame overwrites one that was not shown, the screen takes the frame in  *)
(* the register when it is ready for it, and it keeps showing what it has  *)
(* when there is none.  Frames are numbered in capture order.              *)
(***************************************************************************)
EXTENDS Integers

VARIABLES
  latest,   \* the newest frame the camera has captured
  slot,     \* the frame waiting in the register, 0 when it is empty
  going,    \* the frame last handed to the screen
  screen    \* the frame on the screen

vars == <<latest, slot, going, screen>>

Init == latest = 0 /\ slot = 0 /\ going = 0 /\ screen = 0

Capture ==
  /\ latest' = latest + 1
  /\ UNCHANGED <<slot, going, screen>>

(* A captured frame enters the register if it is newer than what was       *)
(* there and what was handed on.                                           *)
Offer ==
  /\ slot' \in 1 .. latest
  /\ slot' > slot /\ slot' > going
  /\ UNCHANGED <<latest, going, screen>>

(* The screen takes the frame in the register.                             *)
Take ==
  /\ slot # 0
  /\ going' = slot /\ slot' = 0
  /\ UNCHANGED <<latest, screen>>

Show ==
  /\ screen' = going
  /\ UNCHANGED <<latest, slot, going>>

Next == Capture \/ Offer \/ Take \/ Show

Spec == Init /\ [][Next]_vars
=============================================================================
