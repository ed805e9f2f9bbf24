------------------------------ MODULE AutoGain ------------------------------
(***************************************************************************)
(* The gain control and OSD program (auto-enhance-osd.c): a loop that puts *)
(* the compression ratio on the picture and moves the camera's gain by one *)
(* step whenever the picture is too dark or too bright.  Any ioctl may     *)
(* fail, and the light changes while the loop runs.  The picture's average *)
(* is the light times the gain here, up to what a pixel holds.             *)
(***************************************************************************)
EXTENDS Integers

CONSTANTS
    MCHP_GAIN_AVERAGE,      \* the average wanted, and the most gain set
    MCHP_HYSTERESIS_GAIN, MCHP_GAIN_MIN,
    White,                  \* the largest average
    Lights, Gains, Ratios,  \* how bright it may be; where the camera starts; ratios
    MaxFaults, MaxChanges   \* bounds: calls that fail, changes of the light

VARIABLES
    gpc,            \* "ratio", "osd", "sum", "get", "set", "end": the next call
    gain, light,    \* of the camera, and before it
    cal,            \* the program: [step, in_gain] of mchp_dscmi_gain_cal
    osd,            \* [ratio, shown]: the ratio read last, and what the OSD shows
    budget,         \* faults and changes so far
    loops           \* never changes: the controls the user turned on

vars == <<gpc, gain, light, cal, osd, budget, loops>>

AllGains == Gains \cup MCHP_GAIN_MIN..MCHP_GAIN_AVERAGE
Brightness == [l \in Lights, g \in AllGains |-> IF l * g > White THEN White ELSE l * g]
Average == Brightness[light, gain]
Low  == MCHP_GAIN_AVERAGE - MCHP_HYSTERESIS_GAIN
High == MCHP_GAIN_AVERAGE + MCHP_HYSTERESIS_GAIN

First == IF "compression_ratio" \in loops THEN "ratio" ELSE "sum"

Init ==
    /\ loops \in SUBSET {"compression_ratio", "auto_gain"} \ {{}}
    /\ gpc = First
    /\ gain \in Gains /\ light \in Lights
    /\ cal = [step |-> 0, in_gain |-> 0]
    /\ osd = [ratio |-> 0, shown |-> 0]
    /\ budget = [faults |-> 0, changes |-> 0]

(* xioctl: interrupted calls were retried; this one failed.                *)
Fault == budget.faults < MaxFaults /\ budget' = [budget EXCEPT !.faults = @ + 1]

ReadRatio ==
    /\ gpc = "ratio"
    /\ \/ \E r \in Ratios : osd' = [osd EXCEPT !.ratio = r] /\ UNCHANGED budget
       \/ Fault /\ osd' = [osd EXCEPT !.ratio = -1]
    /\ gpc' = "osd"
    /\ UNCHANGED <<gain, light, cal, loops>>

(* One digit to four bits; the -1 of a failed read has all bits set.       *)
Digits(r) == IF r < 0 THEN -1 ELSE (r % 10) + 16 * ((r \div 10) % 10) + 256 * (r \div 100)

(* What was set is negative too after a failed read: the loop ends.        *)
SetOsd ==
    /\ gpc = "osd"
    /\ \/ /\ osd' = [osd EXCEPT !.shown = Digits(osd.ratio)]
          /\ gpc' = CASE Digits(osd.ratio) < 0 -> "end"
                      [] "auto_gain" \in loops -> "sum"
                      [] OTHER -> "ratio"
          /\ UNCHANGED budget
       \/ Fault /\ gpc' = "end" /\ UNCHANGED osd
    /\ UNCHANGED <<gain, light, cal, loops>>

(* Mutant: above and below are mixed up.                                   *)
StepAway(average) == IF average < Low THEN -1 ELSE IF average > High THEN 1 ELSE 0

Step(average) == IF average < Low THEN 1 ELSE IF average > High THEN -1 ELSE 0

(* A black picture has the sum 0, which ends the loop like a failed read.  *)
ReadSum ==
    /\ gpc = "sum"
    /\ \/ /\ gpc' = IF Average = 0 THEN "end"
                    ELSE IF Step(Average) = 0 THEN First ELSE "get"
          /\ cal' = [cal EXCEPT !.step = Step(Average)]
          /\ UNCHANGED budget
       \/ Fault /\ gpc' = "end" /\ UNCHANGED cal
    /\ UNCHANGED <<gain, light, osd, loops>>

Clamped(g) == IF g < MCHP_GAIN_MIN THEN MCHP_GAIN_MIN
              ELSE IF g >= MCHP_GAIN_AVERAGE THEN MCHP_GAIN_AVERAGE ELSE g

(* The -1 of a failed read is taken for the gain.                          *)
ReadGain ==
    /\ gpc = "get"
    /\ \/ cal' = [cal EXCEPT !.in_gain = Clamped(gain + cal.step)] /\ UNCHANGED budget
       \/ Fault /\ cal' = [cal EXCEPT !.in_gain = Clamped(cal.step - 1)]
    /\ gpc' = "set"
    /\ UNCHANGED <<gain, light, osd, loops>>

(* A failure is only printed.                                              *)
SetGain ==
    /\ gpc = "set"
    /\ \/ gain' = cal.in_gain /\ UNCHANGED budget
       \/ Fault /\ UNCHANGED gain
    /\ gpc' = First
    /\ UNCHANGED <<light, cal, osd, loops>>

LightChanges ==
    /\ budget.changes < MaxChanges
    /\ light' \in Lights \ {light}
    /\ budget' = [budget EXCEPT !.changes = @ + 1]
    /\ UNCHANGED <<gpc, gain, cal, osd, loops>>

Main == ReadRatio \/ SetOsd \/ ReadSum \/ ReadGain \/ SetGain
Next == Main \/ LightChanges
Spec == Init /\ [][Next]_vars /\ WF_vars(Main)

-----------------------------------------------------------------------------
InWindow(g) == Brightness[light, g] \in Low..High
NoGainFits == \A g \in MCHP_GAIN_MIN..MCHP_GAIN_AVERAGE : ~InWindow(g)

(* The program ends only after a failed call or a black picture.           *)
EndExplained == gpc = "end" /\ (budget.faults > 0 \/ light = 0 \/ budget.changes > 0)

(* While the light stays and no call fails, the picture gets its           *)
(* brightness and keeps it, unless no gain in range gives it or the        *)
(* program has ended with a reason.                                        *)
GainSettles ==
    "auto_gain" \in loops => <>[](EndExplained \/ InWindow(gain) \/ NoGainFits)
=============================================================================
