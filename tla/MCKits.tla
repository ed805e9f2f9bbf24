------------------------------- MODULE MCKits --------------------------------
(***************************************************************************)
(* The programs of the kits that serve a control loop: the clock           *)
(* controller, the OPC-UA servers of the video kit and of the stepper      *)
(* motor, and the camera's gain control, each on a small instance.  The    *)
(* first state picks one, the others stay as they began; they share no     *)
(* state, but local and polite for the two servers.                        *)
(***************************************************************************)
EXTENDS Japll

VARIABLES
    sel,                                        \* the program that runs
    local, polite,                              \* of both servers
    direct, proxy, kit, vpc, snap, kpc, ksnap,  \* VideoProxy
    camera, stream, writes, last, asked,
    nodes, copy, spc, run, given, wanted,       \* StepperServer
    gpc, gain, light, cal, osd, budget, loops   \* AutoGain

(* Offsets that cross an integer step in both directions, and two steps at *)
(* once.                                                                   *)
MCFreqs == {-1, 0, 9}

(* A value, a command and one that overtakes it.                           *)
Video == INSTANCE VideoProxy WITH pc <- vpc, MaxWrites <- 3

(* One value in range, one too large, one below.                           *)
Stepper == INSTANCE StepperServer WITH
    MaxWrites <- 3,
    Inputs <- [dir |-> {1, 2}, rotation |-> {-1, 4}, revolutions |-> {1, 101}]

(* Lights for which a gain fits, none fits, and a black picture.           *)
Gain == INSTANCE AutoGain WITH
    MCHP_GAIN_AVERAGE <- 12, MCHP_HYSTERESIS_GAIN <- 1, MCHP_GAIN_MIN <- 2,
    White <- 24, Lights <- {0, 1, 2, 3, 5, 9}, Gains <- {1, 7, 20},
    Ratios <- {7, 1234}, MaxFaults <- 2, MaxChanges <- 2

onVideo == <<direct, proxy, kit, vpc, snap, kpc, ksnap, camera, stream, writes, last, asked>>
onMotor == <<nodes, copy, spc, run, given, wanted>>
onGain  == <<gpc, gain, light, cal, osd, budget, loops>>
allVars == <<sel, local, polite, vars, onVideo, onMotor, onGain>>

KitsInit ==
    /\ sel \in {"japll", "video", "stepper", "gain"}
    /\ Init /\ Video!Init /\ Stepper!Init /\ Gain!Init
    /\ sel \notin {"video", "stepper"} => ~local /\ ~polite
    /\ sel # "video" => ~direct
    /\ sel # "gain" => gain = 7 /\ light = 1 /\ loops = {"auto_gain"}

OfClock(A) ==
    sel = "japll" /\ A /\ UNCHANGED <<sel, local, polite, onVideo, onMotor, onGain>>
OfVideo(A) ==
    sel = "video" /\ A /\ UNCHANGED <<sel, local, polite, vars, onMotor, onGain>>
OfMotor(A) ==
    sel = "stepper" /\ A /\ UNCHANGED <<sel, local, polite, vars, onVideo, onGain>>
OfCamera(A) ==
    sel = "gain" /\ A /\ UNCHANGED <<sel, local, polite, vars, onVideo, onMotor>>

KitsNext == \/ OfClock(Next) \/ OfVideo(Video!Next)
            \/ OfMotor(Stepper!Next) \/ OfCamera(Gain!Next)

(* The fairness each program's module states.                              *)
KitsSpec ==
    /\ KitsInit /\ [][KitsNext]_allVars
    /\ WF_allVars(OfClock(Configure) \/ OfVideo(Video!Kit)
                    \/ OfMotor(Stepper!Loop) \/ OfCamera(Gain!Main))
    /\ SF_allVars(OfVideo(Video!Proxy))

-----------------------------------------------------------------------------
(* The types of the program that runs.                                     *)
KitsTypeOK == TypeOK /\ (sel = "video" => Video!TypeOK)

(* What is executed is as new as the command: the values and the address   *)
(* of the video kit, of which a resolution is one the camera has, and the  *)
(* values of the motor.  What is acknowledged was executed.                *)
CommandFresh ==
    CASE sel = "video" -> /\ Video!UpdateFresh /\ Video!StreamFresh
                          /\ Video!ResolutionValid /\ Video!Acknowledged
      [] sel = "stepper" -> Stepper!RunFresh
      [] OTHER -> TRUE

(* Every command is executed in the end: UpdateExecuted of an operator of  *)
(* the video kit who waits for 0000, and StartServed of the motor.         *)
CommandExecuted ==
    \/ sel = "video" /\ Video!Updating
    \/ sel = "stepper" /\ Stepper!Started
    ~> \/ sel = "video" /\ Video!Updated
       \/ sel = "stepper" /\ nodes.start = 0

(* The picture gets the brightness wanted, where a gain gives it.          *)
GainSettles == sel = "gain" => Gain!GainSettles
=============================================================================
