------------------------------ MODULE MotorLib ------------------------------
(***************************************************************************)
(* The motor control library (motor-control-bldc/lib/motor.cpp): what each *)
(* member function of class Motor does to the object and to the registers *)
(* of the FPGA blocks it writes through sysfs.                             *)
(*                                                                         *)
(* An object is [spec, gain, rpm, steps, scale]:                           *)
(*   spec   bldc: motor_speed_rpm; stepper: microsteps per revolution      *)
(*          (microstep_resolution * 4 * step_number)                       *)
(*   gain   the tuning values that are passed on unread (PI gains, flags)  *)
(*   rpm    stepper: params.speed_rpm        steps  stepper: cmd_steps     *)
(*   scale  bldc: bldc_speed_scale_                                        *)
(* The registers of a motor are [start, stop, dir, speed, rated, gain]:    *)
(*   dir    bldc: DIRECTION_CONFIG; stepper: the sign bit of CMD_STEP      *)
(*   speed  bldc: RATE_LIMIT_REF; stepper: SLEW_CNT                        *)
(*   rated  the spec from which the scaling registers were computed        *)
(***************************************************************************)
EXTENDS Integers

(* The bounds of motor.h. *)
BldcSpeedMin    == 10
BldcSpeedMax    == 4000
StepperSpeedMin == 32
StepperSpeedMax == 255

Clamp(x, lo, hi) == IF x < lo THEN lo ELSE IF x > hi THEN hi ELSE x

(* Default members of the Specs and Params structures. *)
DefaultSpec  == [bldc |-> 4000, stepper |-> 64 * 4 * 200]
DefaultGain  == 124
DefaultRpm   == 100
DefaultSteps == 100

(* bldc_speed_scale_, a 32-bit number: 2^26 / motor_speed_rpm. *)
SpeedScale(rated) == 67108864 \div rated

(* RATE_LIMIT_REF for a speed.  65536 stands for the rated speed.  No      *)
(* product passes 2^31 for the ratings and speeds the configurations use,  *)
(* so the wrap at 2^32 is left out.                                        *)
RateLimitSize == 16777216       \* the register has 24 bits
RateLimitRef(rpm, scale) == ((rpm * scale) \div 1024) % RateLimitSize

(* What registers and an object may hold, for either motor.                *)
Registers ==
  [start : {0, 1}, stop : {0, 1}, dir : {0, 1}, speed : 0 .. RateLimitSize - 1,
   rated : Int, gain : Int]
Objects == [spec : Nat \ {0}, gain : Int, rpm : Int, steps : Int, scale : Int]

(* SLEW_CNT for a speed, before the clamp, and the speed for a SLEW_CNT:   *)
(* the same formula, for it is an inverse proportion.                      *)
SlewCount(rpm, usteps) == 240000000 \div (rpm * usteps)
RpmOfSlew(slew, usteps) == 240000000 \div (slew * usteps)

(* The constructor followed by init(): the derived constants come from the *)
(* default specs.                                                          *)
NewMotor(m) ==
  [spec |-> DefaultSpec[m], gain |-> DefaultGain, rpm |-> DefaultRpm,
   steps |-> DefaultSteps, scale |-> SpeedScale(DefaultSpec[m])]

(* init_bldc and init_stepper write hard-coded values and leave START and  *)
(* STOP as they are.                                                       *)
InitRegs(m, r) ==
  [r EXCEPT !.dir = 1, !.speed = IF m = "bldc" THEN 32767 ELSE 79,
            !.rated = DefaultSpec[m], !.gain = DefaultGain]

(* Mutant: STOP is left set.                                               *)
ClearFaultKeepsStop(r) == [r EXCEPT !.start = 0]

(* Mutant: START is left set.                                              *)
ClearFaultKeepsStart(r) == [r EXCEPT !.stop = 0]

(* start, stop and clear_fault *)
Start(r)      == [r EXCEPT !.start = 1]
Stop(r)       == [r EXCEPT !.stop = 1]
ClearFault(r) == [r EXCEPT !.start = 0, !.stop = 0]

(* set_direction: the direction register, or the sign bit of CMD_STEP. *)
SetDirection(r, dir) == [r EXCEPT !.dir = dir]

(* set_speed: an rpm for the bldc motor, scaled with the object's scale; a *)
(* SLEW_CNT for the stepper, from which speed_rpm is computed back.        *)
SpeedInRange(m, v) ==
  IF m = "bldc" THEN v \in BldcSpeedMin .. BldcSpeedMax
                ELSE v \in StepperSpeedMin .. StepperSpeedMax
SetSpeedRegs(m, o, r, v) ==
  [r EXCEPT !.speed = IF m = "bldc" THEN RateLimitRef(v, o.scale) ELSE v]
SetSpeedObject(m, o, v) ==
  IF m = "bldc" THEN o ELSE [o EXCEPT !.rpm = RpmOfSlew(v, o.spec)]

(* set_*_specs and set_*_params: nothing is written to the motor.          *)
StoreSpecs(o, spec) == [o EXCEPT !.spec = spec]
StoreParams(m, o, gain, rpm, steps) ==
  IF m = "bldc" THEN [o EXCEPT !.gain = gain]
                ELSE [o EXCEPT !.gain = gain, !.rpm = rpm, !.steps = steps]

(* apply_parameters: recompute the constants, then write the registers.    *)
(* For the bldc motor RATE_LIMIT_REF is left alone and the direction is    *)
(* written with 1; for the stepper SLEW_CNT comes from speed_rpm and the   *)
(* direction from the sign of cmd_steps.                                   *)
ApplyObject(m, o) ==
  IF m = "bldc" THEN [o EXCEPT !.scale = SpeedScale(o.spec)] ELSE o
ApplySlew(o) ==
  IF o.rpm > 0
    THEN Clamp(SlewCount(o.rpm, o.spec), StepperSpeedMin, StepperSpeedMax)
    ELSE 79
ApplyRegs(m, o, r) ==
  [r EXCEPT !.gain  = o.gain,
            !.rated = IF m = "bldc" THEN o.spec ELSE @,
            !.dir   = IF m = "bldc" THEN 1 ELSE IF o.steps < 0 THEN 1 ELSE 0,
            !.speed = IF m = "bldc" THEN @ ELSE ApplySlew(o)]
=============================================================================
