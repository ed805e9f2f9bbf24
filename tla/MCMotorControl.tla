--------------------------- MODULE MCMotorControl ---------------------------
(***************************************************************************)
(* MotorControl with small sets of inputs for TLC, and the user who waits  *)
(* for parameter requests before the next input.                           *)
(***************************************************************************)
EXTENDS MotorControl

(* Ratings of two motors, and for either motor a number the service        *)
(* refuses; the stepper keeps its step geometry.                           *)
MCSpecs  == [m \in {"bldc", "stepper"} |-> IF m = "bldc" THEN {4000, 2000, -1} ELSE {DefaultSpec[m]}]
MCGains  == {DefaultGain, 200}
MCSpeeds == [m \in {"bldc", "stepper"} |-> IF m = "bldc" THEN {3000, 1000} ELSE {100, 70, -5}]
MCSteps  == {100, -100}
MCReverse == {-100}      \* the default is forward

(* The user waits until the requests are answered and the answers shown. *)
Patient     == reqq = <<>> /\ respq = <<>>
PatientNext == (User /\ Patient) \/ Dashboard \/ Service
PatientSpec ==
  /\ Init /\ [][PatientNext]_vars
  /\ WF_vars(BldcSliderFires) /\ WF_vars(StepperSliderFires)
  /\ \A m \in Motors : WF_vars(RefreshTimeout(m))
  /\ WF_vars(ResponseIgnored \/ ResponseHandled)
  /\ WF_vars(HandleCommand) /\ WF_vars(HandleParamRequest)
=============================================================================
