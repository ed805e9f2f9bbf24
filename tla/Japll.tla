-------------------------------- MODULE Japll --------------------------------
(***************************************************************************)
(* The JAPLL controller (japll-pi-controller/japll-pi.c): it reads the     *)
(* frequency offsets that ptp4l prints and writes the matching preset into *)
(* the registers of the clock, an integer part and a fraction in separate  *)
(* registers.  The clock runs on meanwhile, and an interrupt may end the   *)
(* program between any two writes.                                         *)
(*                                                                         *)
(* A preset is a number of fractional units, Units of them to an integer   *)
(* step (2^24 in the code); one ppb is one unit here.                      *)
(***************************************************************************)
EXTENDS Integers

CONSTANTS
  Units,        \* fractional units of an integer step
  IntRange,     \* integer presets the register holds (2^12)
  BaseInt,      \* integer preset for 0 ppb; the kits' is a whole number
  SetPoint, KP, KI,   \* of the PI controller; KI stands for k_integral * delta_time
  Freqs,        \* offsets that ptp4l may report, in ppb
  INT_MAX,      \* where the line counter wraps
  MaxLines      \* bound: lines of ptp4l

ASSUME SizeAssumption  == Units \in Nat \ {0} /\ IntRange \in Nat \ {0} /\ BaseInt \in Nat
ASSUME GainAssumption  == SetPoint \in Int /\ KP \in Int /\ KI \in Int /\ Freqs \subseteq Int
ASSUME BoundAssumption == INT_MAX \in Nat /\ INT_MAX > 2 /\ MaxLines \in Nat

VARIABLES
  pc,            \* "config", "map", "launch", "read", "int", "frac", "enable", "end"
  wr_enable,     \* japll_wr_enable
  pi_enable, clock_source,
  mapped,        \* the registers are mapped
  iterations,    \* static of japll_main
  integral,      \* static of i_cal
  integer, fraction,               \* the preset in g_japll
  is_int_written, is_frac_written,
  hw,            \* the registers [fracn, int, frac, preset]; -1: never written
                 \* by us; fracn: fractions are enabled (CCC only); preset: the
                 \* fraction is in effect
  target,        \* history: the offset of the preset computed last
  before,        \* history: the registers when that preset was computed
  raws,          \* history: how often the branch of the second line was taken
  lines          \* counter for the bound

conf   == <<wr_enable, pi_enable, clock_source, mapped>>
preset == <<integer, fraction, is_int_written, is_frac_written, target, before>>
vars   == <<pc, conf, iterations, integral, preset, hw, raws, lines>>

(* The preset for an offset, and its two parts.  It is never negative: an  *)
(* offset is above -10^9 ppb.                                              *)
Total(ppb)    == BaseInt * Units + ppb
IntPart(ppb)  == Total(ppb) \div Units
FracPart(ppb) == Total(ppb) % Units

Init ==
  /\ pc = "config"
  /\ wr_enable = TRUE /\ pi_enable = FALSE /\ clock_source = "xcvr" /\ mapped = FALSE
  /\ iterations = 0 /\ integral = 0
  /\ integer = 0 /\ fraction = 0 /\ is_int_written = FALSE /\ is_frac_written = FALSE
  /\ hw = [fracn |-> FALSE, int |-> -1, frac |-> -1, preset |-> FALSE]
  /\ target = 0 /\ before = hw
  /\ raws = 0 /\ lines = 0

-----------------------------------------------------------------------------
(* get_pi_configuration: the file may leave a parameter at its default,    *)
(* and a failure ends the program.                                         *)
GetConfiguration ==
  /\ pc = "config"
  /\ wr_enable' \in BOOLEAN /\ pi_enable' \in BOOLEAN /\ clock_source' \in {"ccc", "xcvr"}
  /\ pc' \in {"map", "end"}
  /\ UNCHANGED <<mapped, iterations, integral, preset, hw, raws, lines>>

(* memory_map, calculate_japll_initial_presets and configure_ccc_initial:  *)
(* the presets are computed and not written.                               *)
MemoryMap ==
  /\ pc = "map"
  /\ mapped' = TRUE
  /\ hw' = [hw EXCEPT !.fracn = (clock_source = "ccc")]
  /\ integer' = IntPart(0) /\ fraction' = FracPart(0)
  /\ pc' = "launch"
  /\ UNCHANGED <<wr_enable, pi_enable, clock_source, iterations, integral, is_int_written,
                 is_frac_written, target, before, raws, lines>>

(* Mutant: the failure is only reported.                                   *)
MemoryMapFailsOn ==
  /\ pc = "map"
  /\ pc' = "launch"
  /\ UNCHANGED <<conf, iterations, integral, preset, hw, raws, lines>>

(* The device is missing: go on without writing. *)
MemoryMapFails ==
  /\ pc = "map"
  /\ wr_enable' = FALSE
  /\ pc' = "launch"
  /\ UNCHANGED <<pi_enable, clock_source, mapped, iterations, integral, preset, hw, raws, lines>>

(* popen of ptp4l; memory_unmap if it fails. *)
Launch ==
  /\ pc = "launch"
  /\ \/ pc' = "read" /\ mapped' = mapped
     \/ pc' = "end" /\ mapped' = FALSE
  /\ UNCHANGED <<wr_enable, pi_enable, clock_source, iterations, integral, preset, hw, raws, lines>>

-----------------------------------------------------------------------------
(* A line of ptp4l is read; one without a frequency is skipped. *)
NextLine == pc = "read" /\ lines < MaxLines /\ lines' = lines + 1

SkipLine == NextLine /\ UNCHANGED <<pc, conf, iterations, integral, preset, hw, raws>>

(* The output ends, or (with memory_unmap) a number does not fit a long.   *)
LinesEnd ==
  /\ pc = "read"
  /\ pc' = "end" /\ mapped' \in {mapped, FALSE}
  /\ UNCHANGED <<wr_enable, pi_enable, clock_source, iterations, integral, preset, hw, raws, lines>>

(* Mutant: the integer part counts as written although it changed.         *)
CalculateForgets(ppb) ==
  /\ integer' = IntPart(ppb)
  /\ fraction' = Total(ppb) - integer' * Units
  /\ is_int_written' = is_int_written
  /\ is_frac_written' = FALSE
  /\ target' = ppb /\ before' = hw

(* calculate_japll_presets *)
Calculate(ppb) ==
  /\ integer' = IntPart(ppb)
  /\ fraction' = Total(ppb) - integer' * Units
  /\ is_int_written' = (is_int_written /\ integer = IntPart(ppb))
  /\ is_frac_written' = FALSE
  /\ target' = ppb /\ before' = hw

(* Calculate and then configure_japll, unless writing is disabled. *)
Apply(ppb) ==
  \/ wr_enable /\ Calculate(ppb) /\ pc' = "int"
  \/ ~wr_enable /\ UNCHANGED <<preset, pc>>

(* japll_main: the first offset lets the frequency settle. *)
Settle ==
  /\ NextLine /\ iterations = 0
  /\ iterations' = 1
  /\ UNCHANGED <<pc, conf, integral, preset, hw, raws>>

(* The second is applied as it is. *)
ApplyFirst ==
  /\ NextLine /\ iterations = 1
  /\ \E f \in Freqs : Apply(f)
  /\ iterations' = 2 /\ raws' = raws + 1
  /\ UNCHANGED <<conf, integral, hw>>

(* Mutant: the wrapped counter is one too low.                             *)
CountLow == IF iterations + 1 = INT_MAX THEN 1 ELSE iterations + 1

(* The counter starts over behind the settling phase. *)
Count == IF iterations + 1 = INT_MAX THEN 2 ELSE iterations + 1

(* pi_controller, p_cal and i_cal *)
Integral(f) == integral + (SetPoint - f) * KI
Output(f)   == (SetPoint - f) * KP + Integral(f)

(* All others go through the PI controller, if it is enabled. *)
ApplyNext ==
  /\ NextLine /\ iterations > 1
  /\ \E f \in Freqs :
       \/ pi_enable  /\ integral' = Integral(f) /\ Apply(Output(f))
       \/ ~pi_enable /\ integral' = integral /\ Apply(f)
  /\ iterations' = Count
  /\ UNCHANGED <<conf, hw, raws>>

-----------------------------------------------------------------------------
(* configure_japll, one register write at a time.  The integer register    *)
(* keeps its width on the CCC; the transceiver takes the number as it is.  *)
IntRegister == IF clock_source = "ccc" THEN integer % IntRange ELSE integer

WriteInt ==
  /\ pc = "int"
  /\ hw' = IF is_int_written THEN hw ELSE [hw EXCEPT !.int = IntRegister]
  /\ is_int_written' = TRUE
  /\ pc' = "frac"
  /\ UNCHANGED <<conf, iterations, integral, integer, fraction, is_frac_written,
                 target, before, raws, lines>>

(* Mutant: the preset stays disabled while the fraction is held.           *)
WriteFracHeld ==
  /\ pc = "frac"
  /\ hw' = [hw EXCEPT !.frac = fraction, !.preset = (clock_source = "ccc")]
  /\ is_frac_written' = TRUE
  /\ pc' = "read"
  /\ UNCHANGED <<conf, iterations, integral, integer, fraction, is_int_written,
                 target, before, raws, lines>>

(* The CCC takes the fraction at once; the transceiver with the preset     *)
(* disabled first.                                                         *)
WriteFrac ==
  /\ pc = "frac"
  /\ hw' = [hw EXCEPT !.frac = fraction, !.preset = (clock_source = "ccc")]
  /\ is_frac_written' = (clock_source = "ccc")
  /\ pc' = IF clock_source = "ccc" THEN "read" ELSE "enable"
  /\ UNCHANGED <<conf, iterations, integral, integer, fraction, is_int_written,
                 target, before, raws, lines>>

(* Mutant: the fraction is never marked as written.                        *)
EnablePresetUnmarked ==
  /\ pc = "enable"
  /\ hw' = [hw EXCEPT !.preset = TRUE]
  /\ pc' = "read"
  /\ UNCHANGED <<conf, iterations, integral, integer, fraction, is_int_written,
                 is_frac_written, target, before, raws, lines>>

(* The preset is enabled again, with the fraction in place. *)
EnablePreset ==
  /\ pc = "enable"
  /\ hw' = [hw EXCEPT !.preset = TRUE]
  /\ is_frac_written' = TRUE
  /\ pc' = "read"
  /\ UNCHANGED <<conf, iterations, integral, integer, fraction, is_int_written,
                 target, before, raws, lines>>

(* handle_sigint, at any point after main installed it. *)
Interrupt ==
  /\ pc # "end"
  /\ pc' = "end" /\ mapped' = FALSE
  /\ UNCHANGED <<wr_enable, pi_enable, clock_source, iterations, integral, preset, hw, raws, lines>>

-----------------------------------------------------------------------------
Configure == WriteInt \/ WriteFrac \/ EnablePreset
Setup     == GetConfiguration \/ MemoryMap \/ MemoryMapFails \/ Launch
Next == Setup \/ SkipLine \/ LinesEnd \/ Settle \/ ApplyFirst \/ ApplyNext \/ Configure \/ Interrupt

Spec == Init /\ [][Next]_vars

(* The program runs; ptp4l, its output and the interrupt are not fair. *)
FairSpec == Spec /\ WF_vars(Configure)

-----------------------------------------------------------------------------
Registers == [fracn : BOOLEAN, int : Int, frac : Int, preset : BOOLEAN]

(* The types of the state.  The branch of the second line, which applies   *)
(* an unfiltered offset, is taken once, also when the counter wraps.       *)
TypeOK ==
  /\ pc \in {"config", "map", "launch", "read", "int", "frac", "enable", "end"}
  /\ wr_enable \in BOOLEAN /\ pi_enable \in BOOLEAN /\ mapped \in BOOLEAN
  /\ clock_source \in {"ccc", "xcvr"}
  /\ iterations \in 0 .. INT_MAX - 1 /\ integral \in Int
  /\ integer \in Int /\ fraction \in Int
  /\ is_int_written \in BOOLEAN /\ is_frac_written \in BOOLEAN
  /\ hw \in Registers /\ before \in Registers
  /\ target \in Int /\ raws \in 0 .. 1 /\ lines \in 0 .. MaxLines

(* japll_wr_enable is what guards the writes, the mapping is what makes    *)
(* them possible: registers are written only while they are mapped, also   *)
(* if the configuration asks for writing and the device is missing.        *)
WritesMapped == pc \in {"int", "frac", "enable"} => mapped

(* Between two lines the registers hold the preset of the last offset,     *)
(* both parts of it, and it is enabled: the integer part is rewritten      *)
(* exactly when it changed, though only the flag remembers that.           *)
PresetCurrent ==
  pc = "read" /\ is_frac_written =>
    /\ hw.preset /\ hw.fracn = (clock_source = "ccc")
    /\ hw.frac = FracPart(target)
    /\ hw.int = IF clock_source = "ccc" THEN IntPart(target) % IntRange ELSE IntPart(target)

(* Whenever the clock looks at the registers, it finds the preset before   *)
(* the one computed last, or one less than an integer step away from the   *)
(* one computed last, although its two parts are written one after the     *)
(* other.  An interrupt may leave it there.                                *)
TornBounded ==
  before.preset /\ IntPart(target) \in 0 .. IntRange - 1 =>
    \/ hw = before
    \/ /\ hw.int = IntPart(target)
       /\ (hw.int * Units + hw.frac) - Total(target) \in 1 - Units .. Units - 1

(* An offset that was taken reaches the registers, unless the program is   *)
(* interrupted.                                                            *)
PresetArrives == pc = "int" ~> (pc = "read" /\ is_frac_written) \/ pc = "end"
=============================================================================
