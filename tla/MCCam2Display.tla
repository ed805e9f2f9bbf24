--------------------------- MODULE MCCam2Display ---------------------------
(***************************************************************************)
(* Instances of Cam2Display for TLC.  One run holds the behaviours in      *)
(* which any call may fail and, apart from them, those in which none does, *)
(* of which more can be said.                                              *)
(***************************************************************************)
EXTENDS Cam2Display

VARIABLE calm       \* no call fails in this behaviour
allVars == <<calm, vars>>

MCGrants  == {1, 2, 3, 4}   \* too few, the minimum, and the full request
MCFull    == {4}            \* the driver grants what was asked for

Calm == INSTANCE Cam2Display WITH FlipMayFail <- FALSE, IoctlMayFail <- FALSE

MCInit == Init /\ calm \in BOOLEAN
MCNext == (IF calm THEN Calm!Next ELSE Next) /\ UNCHANGED calm

(* The fairness of FairSpec.                                               *)
Process == (IF calm THEN Calm!App ELSE App) /\ UNCHANGED calm
Blanking == VBlank /\ UNCHANGED calm
MCSpec == MCInit /\ [][MCNext]_allVars /\ WF_allVars(Process) /\ WF_allVars(Blanking)

(* When no call fails, the chain of flips that drives the display never    *)
(* breaks while the loop runs (page_flip_handler requests the next one),   *)
(* and every captured frame gets to the screen or is overtaken by a later  *)
(* one, unless the program ends.                                           *)
CalmFrameReachesScreen ==
    calm => []Calm!FlipChainAlive /\ Calm!FrameReachesScreen
=============================================================================
