---------------------------- MODULE MCKits_proofs ----------------------------
(***************************************************************************)
(* Theorems about the programs of the kits.                                *)
(*                                                                         *)
(* The first part is about Japll, for every unit, base preset, gain and    *)
(* set of offsets.  The invariant IInv says what the two flags mean: is_   *)
(* int_written that the integer register holds the preset's integer part,  *)
(* and the step of the configuration how far the registers have got.       *)
(*                                                                         *)
(* The second part is about the composition: the behaviours of MCKits are  *)
(* behaviours of each program, so what is proved here of Japll, and in     *)
(* OpcuaServers_proofs of every instance of the two servers, holds of the  *)
(* ones MCKits runs.                                                       *)
(***************************************************************************)
EXTENDS MCKits, TLAPS

IntReg(i) == IF clock_source = "ccc" THEN i % IntRange ELSE i

(* Nothing is in effect before the first offset. *)
Fresh ==
  pc \in {"config", "map", "launch"} =>
    ~is_int_written /\ ~is_frac_written /\ ~hw.preset /\ ~before.preset

(* From the launch on, a program that writes has mapped the registers.     *)
Mapping ==
  pc \in {"launch", "read", "int", "frac", "enable"} /\ wr_enable =>
    mapped /\ hw.fracn = (clock_source = "ccc")

(* The preset that is being written is that of target. *)
Writing ==
  pc \in {"int", "frac", "enable"} =>
    wr_enable /\ ~is_frac_written /\ integer = IntPart(target) /\ fraction = FracPart(target)

(* What each program point knows of the registers. *)
Progress ==
  /\ is_int_written => hw.int = IntReg(integer)
  /\ pc = "int" => hw = before
  /\ pc \in {"frac", "enable"} => is_int_written
  /\ pc = "enable" => hw.frac = fraction
  /\ hw.preset => hw.frac \in 0 .. Units - 1

(* Between two lines a written preset is complete. *)
Written ==
  pc = "read" /\ is_frac_written =>
    /\ is_int_written /\ hw.preset /\ hw.fracn = (clock_source = "ccc")
    /\ hw.frac = FracPart(target) /\ integer = IntPart(target)

(* The branch of the second line is taken at the count 1 only. *)
Raw == iterations <= 1 => raws = 0

IInv == TypeOK /\ Fresh /\ Mapping /\ Writing /\ Progress /\ Written /\ Raw /\ TornBounded

-----------------------------------------------------------------------------
(* The parts of a preset: the fraction is less than a unit. *)
LEMMA Parts ==
  ASSUME NEW p \in Int
  PROVE  /\ Total(p) \in Int /\ IntPart(p) \in Int /\ FracPart(p) \in 0 .. Units - 1
         /\ Total(p) - IntPart(p) * Units = FracPart(p)
         /\ (IntPart(p) * Units + FracPart(p)) - Total(p) = 0
<1> DEFINE t == BaseInt * Units + p
           q == t \div Units
           r == t % Units
<1>1. t \in Int
  BY SizeAssumption
<1>2. ASSUME NEW s \in Int, NEW u \in Nat, u > 0
      PROVE  s \div u \in Int /\ s % u \in 0 .. u - 1 /\ s = (s \div u) * u + (s % u)
  BY <1>2, SMT
<1>3. Units \in Nat /\ Units > 0
  BY SizeAssumption
<1>4. q \in Int /\ r \in 0 .. Units - 1 /\ t = q * Units + r
  BY <1>1, <1>2, <1>3
<1>5. Total(p) = t /\ IntPart(p) = q /\ FracPart(p) = r
  BY DEF Total, IntPart, FracPart
<1> HIDE DEF q, r, t
<1>6. q * Units \in Int
  BY <1>3, <1>4
<1>7. t - q * Units = r /\ (q * Units + r) - t = 0
  BY <1>1, <1>3, <1>4, <1>6, SMT
<1>8. QED
  BY <1>1, <1>4, <1>5, <1>7, Zenon

(* A register that is wide enough keeps the number. *)
LEMMA Fits ==
  ASSUME NEW i \in 0 .. IntRange - 1
  PROVE  i % IntRange = i
<1>1. ASSUME NEW n \in Nat, n > 0, NEW k \in 0 .. n - 1
      PROVE  k % n = k
  BY <1>1, SMT
<1>2. QED
  BY <1>1, SizeAssumption

-----------------------------------------------------------------------------
(* All conjuncts hold initially. *)
LEMMA Initial == Init => IInv
<1> SUFFICES ASSUME Init PROVE IInv
  OBVIOUS
<1>1. hw \in Registers /\ before \in Registers
  BY DEF Init, Registers
<1>2. TypeOK
  <2>1. /\ wr_enable \in BOOLEAN /\ pi_enable \in BOOLEAN /\ mapped \in BOOLEAN
        /\ is_int_written \in BOOLEAN /\ is_frac_written \in BOOLEAN
    BY DEF Init
  <2>2. iterations \in 0 .. INT_MAX - 1 /\ lines \in 0 .. MaxLines /\ raws \in 0 .. 1
    BY BoundAssumption DEF Init
  <2>3. integral \in Int /\ integer \in Int /\ fraction \in Int /\ target \in Int
    BY DEF Init
  <2>4. pc = "config" /\ clock_source = "xcvr"
    BY DEF Init
  <2>5. QED
    BY <1>1, <2>1, <2>2, <2>3, <2>4 DEF TypeOK
<1>3. Fresh /\ Mapping /\ Writing /\ Progress /\ Written /\ Raw /\ TornBounded
  BY DEF Init, Fresh, Mapping, Writing, Progress, Written, Raw, TornBounded
<1>4. QED
  BY <1>2, <1>3 DEF IInv

(* A new preset is computed, or nothing changes, without a register write. *)
LEMMA Applies ==
  ASSUME IInv, pc = "read", NEW f \in Int, Apply(f), UNCHANGED <<conf, hw>>
  PROVE  /\ pc' \in {"read", "int"} /\ integer' \in Int /\ fraction' \in Int /\ target' \in Int
         /\ is_int_written' \in BOOLEAN /\ is_frac_written' \in BOOLEAN /\ before' \in Registers
         /\ Fresh' /\ Mapping' /\ Writing' /\ Progress' /\ Written' /\ TornBounded'
<1>1. TypeOK /\ Mapping /\ Progress /\ Written /\ TornBounded
  BY DEF IInv
<1>2. CASE ~wr_enable
  <2>1. UNCHANGED <<preset, pc, conf, hw>>
    BY <1>2 DEF Apply
  <2>2. /\ pc' \in {"read", "int"} /\ integer' \in Int /\ fraction' \in Int /\ target' \in Int
        /\ is_int_written' \in BOOLEAN /\ is_frac_written' \in BOOLEAN /\ before' \in Registers
    BY <1>1, <2>1 DEF TypeOK, preset
  <2>3. Fresh' /\ Mapping' /\ Writing'
    BY <1>1, <2>1 DEF Fresh, Mapping, Writing, preset, conf
  <2>4. Progress' /\ Written'
    BY <1>1, <2>1 DEF Progress, Written, IntReg, preset, conf
  <2>5. TornBounded'
    BY <1>1, <2>1 DEF TornBounded, preset
  <2>6. QED
    BY <2>2, <2>3, <2>4, <2>5
<1>3. CASE wr_enable
  <2>1. /\ integer' = IntPart(f) /\ fraction' = Total(f) - IntPart(f) * Units
        /\ is_int_written' = (is_int_written /\ integer = IntPart(f))
        /\ is_frac_written' = FALSE
        /\ target' = f /\ before' = hw /\ pc' = "int"
    BY <1>3 DEF Apply, Calculate
  <2>2. IntPart(f) \in Int /\ FracPart(f) \in Int /\ fraction' = FracPart(f)
    BY <2>1, Parts
  <2>3. integer' \in Int /\ fraction' \in Int /\ target' \in Int /\ before' \in Registers
    BY <1>1, <2>1, <2>2 DEF TypeOK
  <2>4. is_int_written' \in BOOLEAN /\ is_frac_written' \in BOOLEAN
    BY <2>1
  <2>5. Fresh' /\ Mapping' /\ Written'
    BY <1>1, <1>3, <2>1 DEF Fresh, Mapping, Written, conf
  <2>6. Writing'
    BY <1>3, <2>1, <2>2 DEF Writing, conf
  <2>7. is_int_written' => hw'.int = IntReg(integer)'
    BY <1>1, <2>1 DEF Progress, IntReg, conf
  <2>8. Progress'
    BY <1>1, <2>1, <2>7 DEF Progress
  <2>9. TornBounded'
    BY <2>1 DEF TornBounded
  <2>10. QED
    BY <2>1, <2>3, <2>4, <2>5, <2>6, <2>8, <2>9
<1>4. QED
  BY <1>1, <1>2, <1>3 DEF TypeOK

(* The wrapped counter stays behind the first two lines. *)
LEMMA Counts ==
  ASSUME iterations \in 0 .. INT_MAX - 1, iterations > 1
  PROVE  Count \in 2 .. INT_MAX - 1
BY BoundAssumption DEF Count

(* What the PI controller returns is a number. *)
LEMMA Outputs ==
  ASSUME integral \in Int, NEW f \in Freqs
  PROVE  Integral(f) \in Int /\ Output(f) \in Int /\ f \in Int
<1>1. f \in Int /\ SetPoint - f \in Int
  BY GainAssumption
<1>2. ASSUME NEW a \in Int, NEW b \in Int
      PROVE  a * b \in Int
  BY <1>2
<1>3. (SetPoint - f) * KI \in Int /\ (SetPoint - f) * KP \in Int
  BY <1>1, <1>2, GainAssumption
<1>4. QED
  BY <1>1, <1>3 DEF Integral, Output

(* Every step preserves the invariant. *)
LEMMA Step == IInv /\ [Next]_vars => IInv'
<1> SUFFICES ASSUME IInv, [Next]_vars PROVE IInv'
  OBVIOUS
<1>0. TypeOK /\ Fresh /\ Mapping /\ Writing /\ Progress /\ Written /\ Raw /\ TornBounded
  BY DEF IInv
<1>1. CASE GetConfiguration
  <2>1. TypeOK'
    BY <1>0, <1>1 DEF GetConfiguration, vars, conf, preset, TypeOK, Registers
  <2>2. Fresh' /\ Mapping'
    BY <1>0, <1>1 DEF GetConfiguration, vars, conf, preset, Fresh, Mapping
  <2>3. Writing'
    BY <1>0, <1>1 DEF GetConfiguration, vars, conf, preset, Writing
  <2>4. Progress'
    BY <1>0, <1>1 DEF GetConfiguration, Fresh, Progress, preset
  <2>5. Written'
    BY <1>0, <1>1 DEF GetConfiguration, vars, conf, preset, Written
  <2>6. Raw'
    BY <1>0, <1>1 DEF GetConfiguration, vars, conf, preset, Raw
  <2>7. TornBounded'
    BY <1>0, <1>1 DEF GetConfiguration, TornBounded, preset
  <2>8. QED
    BY <2>1, <2>2, <2>3, <2>4, <2>5, <2>6, <2>7 DEF IInv
<1>2. CASE MemoryMap
  <2>1. TypeOK'
    <3>1. IntPart(0) \in Int /\ FracPart(0) \in Int
      BY Parts
    <3>2. hw' \in Registers
      BY <1>0, <1>2 DEF MemoryMap, TypeOK, Registers
    <3>3. QED
      BY <1>0, <1>2, <3>1, <3>2 DEF MemoryMap, TypeOK
  <2>2. Fresh' /\ Mapping'
    BY <1>0, <1>2 DEF MemoryMap, TypeOK, Registers, Fresh, Mapping
  <2>3. Writing'
    BY <1>0, <1>2 DEF MemoryMap, Writing
  <2>4. Progress'
    BY <1>0, <1>2 DEF MemoryMap, TypeOK, Registers, Fresh, Progress
  <2>5. Written'
    BY <1>0, <1>2 DEF MemoryMap, Written
  <2>6. Raw'
    BY <1>0, <1>2 DEF MemoryMap, vars, conf, preset, Raw
  <2>7. TornBounded'
    BY <1>0, <1>2 DEF MemoryMap, Fresh, TornBounded
  <2>8. QED
    BY <2>1, <2>2, <2>3, <2>4, <2>5, <2>6, <2>7 DEF IInv
<1>3. CASE MemoryMapFails
  <2>1. TypeOK'
    BY <1>0, <1>3 DEF MemoryMapFails, vars, conf, preset, TypeOK, Registers
  <2>2. Fresh' /\ Mapping'
    BY <1>0, <1>3 DEF MemoryMapFails, vars, conf, preset, Fresh, Mapping
  <2>3. Writing'
    BY <1>0, <1>3 DEF MemoryMapFails, vars, conf, preset, Writing
  <2>4. Progress'
    BY <1>0, <1>3 DEF MemoryMapFails, Progress, IntReg, preset
  <2>5. Written'
    BY <1>0, <1>3 DEF MemoryMapFails, vars, conf, preset, Written
  <2>6. Raw'
    BY <1>0, <1>3 DEF MemoryMapFails, vars, conf, preset, Raw
  <2>7. TornBounded'
    BY <1>0, <1>3 DEF MemoryMapFails, vars, conf, preset, TornBounded
  <2>8. QED
    BY <2>1, <2>2, <2>3, <2>4, <2>5, <2>6, <2>7 DEF IInv
<1>4. CASE Launch
  <2>1. TypeOK'
    BY <1>0, <1>4 DEF Launch, vars, conf, preset, TypeOK, Registers
  <2>2. Fresh' /\ Mapping'
    BY <1>0, <1>4 DEF Launch, vars, conf, preset, Fresh, Mapping
  <2>3. Writing'
    BY <1>0, <1>4 DEF Launch, vars, conf, preset, Writing
  <2>4. Progress'
    BY <1>0, <1>4 DEF Launch, vars, conf, preset, Progress, IntReg
  <2>5. Written'
    BY <1>0, <1>4 DEF Launch, Fresh, Written, preset
  <2>6. Raw'
    BY <1>0, <1>4 DEF Launch, vars, conf, preset, Raw
  <2>7. TornBounded'
    BY <1>0, <1>4 DEF Launch, vars, conf, preset, TornBounded
  <2>8. QED
    BY <2>1, <2>2, <2>3, <2>4, <2>5, <2>6, <2>7 DEF IInv
<1>5. CASE SkipLine
  <2>1. TypeOK'
    BY <1>0, <1>5, BoundAssumption DEF SkipLine, NextLine, conf, preset, TypeOK
  <2>2. Fresh' /\ Mapping'
    BY <1>0, <1>5 DEF SkipLine, NextLine, conf, preset, Fresh, Mapping
  <2>3. Writing'
    BY <1>0, <1>5 DEF SkipLine, NextLine, conf, preset, Writing
  <2>4. Progress'
    BY <1>0, <1>5 DEF SkipLine, NextLine, conf, preset, Progress, IntReg
  <2>5. Written'
    BY <1>0, <1>5 DEF SkipLine, NextLine, conf, preset, Written
  <2>6. Raw'
    BY <1>0, <1>5 DEF SkipLine, NextLine, conf, preset, Raw
  <2>7. TornBounded'
    BY <1>0, <1>5 DEF SkipLine, NextLine, conf, preset, TornBounded
  <2>8. QED
    BY <2>1, <2>2, <2>3, <2>4, <2>5, <2>6, <2>7 DEF IInv
<1>6. CASE LinesEnd
  <2>1. TypeOK'
    BY <1>0, <1>6 DEF LinesEnd, vars, conf, preset, TypeOK, Registers
  <2>2. Fresh' /\ Mapping'
    BY <1>0, <1>6 DEF LinesEnd, vars, conf, preset, Fresh, Mapping
  <2>3. Writing'
    BY <1>0, <1>6 DEF LinesEnd, vars, conf, preset, Writing
  <2>4. Progress'
    BY <1>0, <1>6 DEF LinesEnd, vars, conf, preset, Progress, IntReg
  <2>5. Written'
    BY <1>0, <1>6 DEF LinesEnd, vars, conf, preset, Written
  <2>6. Raw'
    BY <1>0, <1>6 DEF LinesEnd, vars, conf, preset, Raw
  <2>7. TornBounded'
    BY <1>0, <1>6 DEF LinesEnd, vars, conf, preset, TornBounded
  <2>8. QED
    BY <2>1, <2>2, <2>3, <2>4, <2>5, <2>6, <2>7 DEF IInv
<1>7. CASE Settle
  <2>1. TypeOK'
    BY <1>0, <1>7, BoundAssumption DEF Settle, NextLine, conf, preset, TypeOK
  <2>2. Fresh' /\ Mapping'
    BY <1>0, <1>7 DEF Settle, NextLine, conf, preset, Fresh, Mapping
  <2>3. Writing'
    BY <1>0, <1>7 DEF Settle, NextLine, conf, preset, Writing
  <2>4. Progress'
    BY <1>0, <1>7 DEF Settle, NextLine, conf, preset, Progress, IntReg
  <2>5. Written'
    BY <1>0, <1>7 DEF Settle, NextLine, conf, preset, Written
  <2>6. Raw'
    BY <1>0, <1>7 DEF Settle, NextLine, conf, preset, Raw
  <2>7. TornBounded'
    BY <1>0, <1>7 DEF Settle, NextLine, conf, preset, TornBounded
  <2>8. QED
    BY <2>1, <2>2, <2>3, <2>4, <2>5, <2>6, <2>7 DEF IInv
<1>8. CASE ApplyFirst
  <2>1. PICK f \in Freqs : Apply(f)
    BY <1>8 DEF ApplyFirst
  <2>2. /\ pc = "read" /\ lines' \in 0 .. MaxLines /\ UNCHANGED <<conf, hw, integral>>
        /\ iterations = 1 /\ iterations' = 2 /\ raws' = raws + 1
    BY <1>0, <1>8, BoundAssumption DEF ApplyFirst, NextLine, TypeOK
  <2>3. f \in Int
    BY GainAssumption
  <2>4. /\ pc' \in {"read", "int"} /\ integer' \in Int /\ fraction' \in Int /\ target' \in Int
        /\ is_int_written' \in BOOLEAN /\ is_frac_written' \in BOOLEAN /\ before' \in Registers
        /\ Fresh' /\ Mapping' /\ Writing' /\ Progress' /\ Written' /\ TornBounded'
    BY <2>1, <2>2, <2>3, Applies
  <2>5. Raw' /\ raws' \in 0 .. 1 /\ iterations' \in 0 .. INT_MAX - 1
    BY <1>0, <2>2, BoundAssumption DEF Raw, TypeOK
  <2>6. TypeOK'
    BY <1>0, <2>2, <2>4, <2>5 DEF TypeOK, conf
  <2>7. QED
    BY <2>4, <2>5, <2>6 DEF IInv
<1>9. CASE ApplyNext
  <2>1. PICK f \in Freqs : \/ pi_enable  /\ integral' = Integral(f) /\ Apply(Output(f))
                           \/ ~pi_enable /\ integral' = integral /\ Apply(f)
    BY <1>9 DEF ApplyNext
  <2>2. /\ pc = "read" /\ lines' \in 0 .. MaxLines /\ UNCHANGED <<conf, hw, raws>>
        /\ iterations > 1 /\ iterations' = Count
    BY <1>0, <1>9, BoundAssumption DEF ApplyNext, NextLine, TypeOK
  <2>3. Integral(f) \in Int /\ Output(f) \in Int /\ f \in Int /\ integral \in Int
    BY <1>0, Outputs DEF TypeOK
  <2>4. PICK g \in Int : Apply(g)
    BY <2>1, <2>3
  <2>5. integral' \in Int
    BY <2>1, <2>3
  <2>6. /\ pc' \in {"read", "int"} /\ integer' \in Int /\ fraction' \in Int /\ target' \in Int
        /\ is_int_written' \in BOOLEAN /\ is_frac_written' \in BOOLEAN /\ before' \in Registers
        /\ Fresh' /\ Mapping' /\ Writing' /\ Progress' /\ Written' /\ TornBounded'
    BY <2>2, <2>4, Applies
  <2>7. iterations' \in 2 .. INT_MAX - 1
    BY <1>0, <2>2, Counts DEF TypeOK
  <2>8. Raw' /\ raws' \in 0 .. 1 /\ iterations' \in 0 .. INT_MAX - 1
    BY <1>0, <2>2, <2>7, BoundAssumption DEF Raw, TypeOK
  <2>9. TypeOK'
    BY <1>0, <2>2, <2>5, <2>6, <2>8 DEF TypeOK, conf
  <2>10. QED
    BY <2>6, <2>8, <2>9 DEF IInv
<1>10. CASE WriteInt
  <2>1. /\ pc = "int" /\ pc' = "frac" /\ is_int_written' = TRUE
        /\ hw' = IF is_int_written THEN hw ELSE [hw EXCEPT !.int = IntReg(integer)]
        /\ UNCHANGED <<conf, iterations, integral, integer, fraction, is_frac_written,
                       target, before, raws, lines>>
    BY <1>10 DEF WriteInt, IntRegister, IntReg
  <2>2. IntReg(integer) \in Int
    <3>1. ASSUME NEW i \in Int, NEW u \in Nat, u > 0 PROVE i % u \in Int
      BY <3>1, SMT
    <3>2. QED
      BY <1>0, <3>1, SizeAssumption DEF IntReg, TypeOK
  <2>3. /\ hw'.int = IntReg(integer) /\ hw'.frac = hw.frac /\ hw'.preset = hw.preset
        /\ hw'.fracn = hw.fracn /\ hw' \in Registers
    BY <1>0, <2>1, <2>2 DEF TypeOK, Registers, Progress
  <2>4. TypeOK'
    BY <1>0, <2>1, <2>3 DEF TypeOK, conf
  <2>5. Fresh' /\ Mapping' /\ Written'
    BY <1>0, <2>1, <2>3 DEF Fresh, Mapping, Written, conf
  <2>6. Writing' /\ Raw'
    BY <1>0, <2>1 DEF Writing, Raw, conf
  <2>7. Progress'
    BY <1>0, <2>1, <2>3 DEF Progress, IntReg, conf
  <2>8. TornBounded'
    <3> SUFFICES ASSUME before.preset, IntPart(target) \in 0 .. IntRange - 1
                 PROVE  \/ hw' = before
                        \/ /\ hw'.int = IntPart(target)
                           /\ (hw'.int * Units + hw'.frac) - Total(target) \in 1 - Units .. Units - 1
      BY <2>1 DEF TornBounded
    <3>1. hw = before /\ integer = IntPart(target)
      BY <1>0, <2>1 DEF Progress, Writing
    <3>2. hw'.int = IntPart(target)
      BY <2>3, <3>1, Fits DEF IntReg
    <3>3. hw'.frac \in 0 .. Units - 1
      BY <1>0, <2>3, <3>1 DEF Progress
    <3>4. PICK n \in Int, r \in 0 .. Units - 1 : n = IntPart(target) * Units /\ (n + r) - Total(target) = 0
      BY <1>0, Parts, SizeAssumption DEF TypeOK
    <3>5. Total(target) \in Int
      BY <1>0, Parts DEF TypeOK
    <3>6. (n + hw'.frac) - Total(target) \in 1 - Units .. Units - 1
      BY <3>3, <3>4, <3>5, SizeAssumption
    <3>7. QED
      BY <3>2, <3>4, <3>6
  <2>9. QED
    BY <2>4, <2>5, <2>6, <2>7, <2>8 DEF IInv
<1>11. CASE WriteFrac
  <2>1. /\ pc = "frac" /\ pc' = IF clock_source = "ccc" THEN "read" ELSE "enable"
        /\ is_frac_written' = (clock_source = "ccc")
        /\ UNCHANGED <<conf, iterations, integral, integer, fraction, is_int_written,
                       target, before, raws, lines>>
    BY <1>11 DEF WriteFrac
  <2>2. /\ hw'.int = hw.int /\ hw'.frac = fraction /\ hw'.preset = (clock_source = "ccc")
        /\ hw'.fracn = hw.fracn /\ hw' \in Registers
    BY <1>0, <1>11 DEF WriteFrac, TypeOK, Registers
  <2>3. fraction = FracPart(target) /\ integer = IntPart(target) /\ is_int_written /\ wr_enable
    BY <1>0, <2>1 DEF Writing, Progress
  <2>4. FracPart(target) \in 0 .. Units - 1
    BY <1>0, Parts DEF TypeOK
  <2>5. TypeOK'
    BY <1>0, <2>1, <2>2 DEF TypeOK, conf
  <2>6. Fresh' /\ Mapping'
    BY <1>0, <2>1, <2>2 DEF Fresh, Mapping, conf
  <2>7. Writing' /\ Raw'
    BY <1>0, <2>1 DEF Writing, Raw, conf
  <2>8. Progress'
    BY <1>0, <2>1, <2>2, <2>3, <2>4 DEF Progress, IntReg, conf
  <2>9. Written'
    BY <1>0, <2>1, <2>2, <2>3 DEF Written, Mapping, conf
  <2>10. TornBounded'
    <3> SUFFICES ASSUME IntPart(target) \in 0 .. IntRange - 1
                 PROVE  /\ hw'.int = IntPart(target)
                        /\ (hw'.int * Units + hw'.frac) - Total(target) \in 1 - Units .. Units - 1
      BY <2>1 DEF TornBounded
    <3>1. hw'.int = IntPart(target)
      BY <1>0, <2>2, <2>3, Fits DEF Progress, IntReg
    <3>2. (IntPart(target) * Units + FracPart(target)) - Total(target) = 0
      BY <1>0, Parts DEF TypeOK
    <3>3. 0 \in 1 - Units .. Units - 1
      BY SizeAssumption
    <3>4. QED
      BY <2>2, <2>3, <3>1, <3>2, <3>3, Zenon
  <2>11. QED
    BY <2>5, <2>6, <2>7, <2>8, <2>9, <2>10 DEF IInv
<1>12. CASE EnablePreset
  <2>1. /\ pc = "enable" /\ pc' = "read" /\ is_frac_written' = TRUE
        /\ UNCHANGED <<conf, iterations, integral, integer, fraction, is_int_written,
                       target, before, raws, lines>>
    BY <1>12 DEF EnablePreset
  <2>2. /\ hw'.int = hw.int /\ hw'.frac = hw.frac /\ hw'.preset = TRUE
        /\ hw'.fracn = hw.fracn /\ hw' \in Registers
    BY <1>0, <1>12 DEF EnablePreset, TypeOK, Registers
  <2>3. /\ hw.frac = FracPart(target) /\ integer = IntPart(target) /\ is_int_written /\ wr_enable
    BY <1>0, <2>1 DEF Writing, Progress
  <2>4. FracPart(target) \in 0 .. Units - 1
    BY <1>0, Parts DEF TypeOK
  <2>5. TypeOK'
    BY <1>0, <2>1, <2>2 DEF TypeOK, conf
  <2>6. Fresh' /\ Mapping'
    BY <1>0, <2>1, <2>2 DEF Fresh, Mapping, conf
  <2>7. Writing' /\ Raw'
    BY <1>0, <2>1 DEF Writing, Raw, conf
  <2>8. Progress'
    BY <1>0, <2>1, <2>2, <2>3, <2>4 DEF Progress, IntReg, conf
  <2>9. Written'
    BY <1>0, <2>1, <2>2, <2>3 DEF Written, Mapping, conf
  <2>10. TornBounded'
    <3> SUFFICES ASSUME IntPart(target) \in 0 .. IntRange - 1
                 PROVE  /\ hw'.int = IntPart(target)
                        /\ (hw'.int * Units + hw'.frac) - Total(target) \in 1 - Units .. Units - 1
      BY <2>1 DEF TornBounded
    <3>1. hw'.int = IntPart(target)
      BY <1>0, <2>2, <2>3, Fits DEF Progress, IntReg
    <3>2. (IntPart(target) * Units + FracPart(target)) - Total(target) = 0
      BY <1>0, Parts DEF TypeOK
    <3>3. 0 \in 1 - Units .. Units - 1
      BY SizeAssumption
    <3>4. QED
      BY <2>2, <2>3, <3>1, <3>2, <3>3, Zenon
  <2>11. QED
    BY <2>5, <2>6, <2>7, <2>8, <2>9, <2>10 DEF IInv
<1>13. CASE Interrupt
  <2>1. TypeOK'
    BY <1>0, <1>13 DEF Interrupt, vars, conf, preset, TypeOK, Registers
  <2>2. Fresh' /\ Mapping'
    BY <1>0, <1>13 DEF Interrupt, vars, conf, preset, Fresh, Mapping
  <2>3. Writing'
    BY <1>0, <1>13 DEF Interrupt, vars, conf, preset, Writing
  <2>4. Progress'
    BY <1>0, <1>13 DEF Interrupt, vars, conf, preset, Progress, IntReg
  <2>5. Written'
    BY <1>0, <1>13 DEF Interrupt, vars, conf, preset, Written
  <2>6. Raw'
    BY <1>0, <1>13 DEF Interrupt, vars, conf, preset, Raw
  <2>7. TornBounded'
    BY <1>0, <1>13 DEF Interrupt, vars, conf, preset, TornBounded
  <2>8. QED
    BY <2>1, <2>2, <2>3, <2>4, <2>5, <2>6, <2>7 DEF IInv
<1>14. CASE UNCHANGED vars
  <2>1. TypeOK'
    BY <1>0, <1>14 DEF vars, conf, preset, TypeOK
  <2>2. Fresh' /\ Mapping'
    BY <1>0, <1>14 DEF vars, conf, preset, Fresh, Mapping
  <2>3. Writing'
    BY <1>0, <1>14 DEF vars, conf, preset, Writing
  <2>4. Progress'
    BY <1>0, <1>14 DEF vars, conf, preset, Progress, IntReg
  <2>5. Written'
    BY <1>0, <1>14 DEF vars, conf, preset, Written
  <2>6. Raw'
    BY <1>0, <1>14 DEF vars, conf, preset, Raw
  <2>7. TornBounded'
    BY <1>0, <1>14 DEF vars, conf, preset, TornBounded
  <2>8. QED
    BY <2>1, <2>2, <2>3, <2>4, <2>5, <2>6, <2>7 DEF IInv
<1>15. QED
  BY <1>1, <1>2, <1>3, <1>4, <1>5, <1>6, <1>7, <1>8, <1>9, <1>10, <1>11, <1>12, <1>13, <1>14 DEF Next, Setup, Configure

-----------------------------------------------------------------------------
(* The invariant holds in every reachable state. *)
THEOREM Invariance == Spec => []IInv
<1>1. Init => IInv
  BY Initial
<1>2. IInv /\ [Next]_vars => IInv'
  BY Step
<1>3. QED
  BY <1>1, <1>2, PTL DEF Spec

(* The types; an unfiltered offset is applied once, however often the      *)
(* line counter of japll_main wraps.                                       *)
THEOREM TypeCorrect == Spec => []TypeOK
<1>1. IInv => TypeOK
  BY DEF IInv
<1>2. QED
  BY <1>1, Invariance, PTL

(* configure_japll writes registers only through a mapping, also on a      *)
(* board without the device.                                               *)
THEOREM NeverUnmapped == Spec => []WritesMapped
<1>1. IInv => WritesMapped
  BY DEF IInv, Mapping, Writing, WritesMapped
<1>2. QED
  BY <1>1, Invariance, PTL

(* Between two lines the registers hold the preset of the last offset,     *)
(* whatever is_int_written allowed configure_japll to leave out.           *)
THEOREM PresetComplete == Spec => []PresetCurrent
<1>1. IInv => PresetCurrent
  <2> SUFFICES ASSUME IInv, pc = "read", is_frac_written PROVE
           /\ hw.preset /\ hw.fracn = (clock_source = "ccc") /\ hw.frac = FracPart(target)
           /\ hw.int = IntReg(IntPart(target))
    BY DEF PresetCurrent, IntReg
  <2>1. QED
    BY DEF IInv, Written, Progress
<1>2. QED
  BY <1>1, Invariance, PTL

(* A preset half written, at any point and for any pair of offsets, is     *)
(* less than an integer step off.                                          *)
THEOREM TearIsBounded == Spec => []TornBounded
<1>1. IInv => TornBounded
  BY DEF IInv
<1>2. QED
  BY <1>1, Invariance, PTL

-----------------------------------------------------------------------------
(* The theorems about the two servers, for the instances of MCKits.        *)
Facts == INSTANCE OpcuaServers_proofs WITH
    pc <- vpc, MaxWrites <- 3,
    Inputs <- [dir |-> {1, 2}, rotation |-> {-1, 4}, revolutions |-> {1, 101}]

-----------------------------------------------------------------------------
(* The clock controller.                                                   *)
LEMMA ClockRuns == KitsSpec => Spec
<1>1. KitsInit => Init
  BY DEF KitsInit
<1>2. [KitsNext]_allVars => [Next]_vars
  BY DEF KitsNext, OfClock, OfVideo, OfMotor, OfCamera, allVars
<1> QED
  BY <1>1, <1>2, PTL DEF KitsSpec, Spec

-----------------------------------------------------------------------------
(* The servers: a definition of the instance that runs and of the instance *)
(* the facts are about are the same formula.                               *)
LEMMA SameNodes ==
    /\ Facts!Fresh = Video!Fresh /\ Facts!Default = Video!Default
    /\ Facts!Value = Video!Value /\ Facts!Flag = Video!Flag
    /\ Facts!Number = Video!Number /\ Facts!Values = Video!Values
    /\ Facts!Nodes = Video!Nodes
    /\ Facts!Target = Video!Target
    /\ Facts!vars = Video!vars
BY DEF Facts!Fresh, Video!Fresh, Facts!Default, Video!Default, Facts!Value,
       Video!Value, Facts!Flag, Video!Flag, Facts!Number, Video!Number,
       Facts!Values, Video!Values, Facts!Nodes, Video!Nodes, Facts!Target,
       Video!Target, Facts!vars, Video!vars, Facts!mode, Video!mode

LEMMA VideoInit == Video!Init => Facts!Init
BY SameNodes DEF Video!Init, Facts!Init

LEMMA VideoNext == Video!Next => Facts!Next
<1>1. Video!SetValue => Facts!SetValue
  BY DEF Video!SetValue, Facts!SetValue, Video!Serves, Facts!Serves,
         Video!ProxyServes, Facts!ProxyServes, Video!KitServes,
         Facts!KitServes, Video!WriteNode, Facts!WriteNode, Video!Value,
         Facts!Value, Video!mode, Facts!mode
<1>2. Video!Command => Facts!Command
  BY DEF Video!Command, Facts!Command, Video!Serves, Facts!Serves,
         Video!ProxyServes, Facts!ProxyServes, Video!KitServes,
         Facts!KitServes, Video!WriteNode, Facts!WriteNode, Video!Value,
         Facts!Value, Video!Flag, Facts!Flag, Video!Target,
         Facts!Target, Video!mode, Facts!mode
<1>3. Video!Connect => Facts!Connect
  BY DEF Video!Connect, Facts!Connect, Video!others, Facts!others,
         Video!mode, Facts!mode
<1>4. Video!ReadFlags => Facts!ReadFlags
  BY DEF Video!ReadFlags, Facts!ReadFlags, Video!others, Facts!others,
         Video!mode, Facts!mode
<1>5. Video!ReadQuality => Facts!ReadQuality
  BY DEF Video!ReadQuality, Facts!ReadQuality, Video!others, Facts!others,
         Video!mode, Facts!mode
<1>6. Video!FixQuality => Facts!FixQuality
  BY DEF Video!FixQuality, Facts!FixQuality, Video!Corrected,
         Facts!Corrected, Video!others, Facts!others, Video!mode,
         Facts!mode
<1>7. Video!ReadRes => Facts!ReadRes
  BY DEF Video!ReadRes, Facts!ReadRes, Video!Corrected, Facts!Corrected,
         Video!ToStart, Facts!ToStart, Video!ToStop, Facts!ToStop,
         Video!ToUpdate, Facts!ToUpdate, Video!others, Facts!others,
         Video!mode, Facts!mode
<1>8. Video!FixRes => Facts!FixRes
  BY DEF Video!FixRes, Facts!FixRes, Video!ToStart, Facts!ToStart,
         Video!ToStop, Facts!ToStop, Video!ToUpdate, Facts!ToUpdate,
         Video!others, Facts!others, Video!mode, Facts!mode
<1>9. Video!SendIp => Facts!SendIp
  BY DEF Video!SendIp, Facts!SendIp, Video!Send, Facts!Send,
         Video!KitServes, Facts!KitServes, Video!others, Facts!others,
         Video!mode, Facts!mode
<1>10. Video!SendStart => Facts!SendStart
  BY DEF Video!SendStart, Facts!SendStart, Video!Send, Facts!Send,
         Video!KitServes, Facts!KitServes, Video!others, Facts!others,
         Video!mode, Facts!mode
<1>11. Video!SendStop => Facts!SendStop
  BY DEF Video!SendStop, Facts!SendStop, Video!Send, Facts!Send,
         Video!KitServes, Facts!KitServes, Video!others, Facts!others,
         Video!mode, Facts!mode
<1>12. Video!SendQuality => Facts!SendQuality
  BY DEF Video!SendQuality, Facts!SendQuality, Video!Send, Facts!Send,
         Video!KitServes, Facts!KitServes, Video!others, Facts!others,
         Video!mode, Facts!mode
<1>13. Video!SendRes => Facts!SendRes
  BY DEF Video!SendRes, Facts!SendRes, Video!Send, Facts!Send,
         Video!KitServes, Facts!KitServes, Video!others, Facts!others,
         Video!mode, Facts!mode
<1>14. Video!SendCmd => Facts!SendCmd
  BY DEF Video!SendCmd, Facts!SendCmd, Video!Send, Facts!Send,
         Video!KitServes, Facts!KitServes, Video!others, Facts!others,
         Video!mode, Facts!mode
<1>15. Video!ClearStart => Facts!ClearStart
  BY DEF Video!ClearStart, Facts!ClearStart, Video!Clear, Facts!Clear,
         Video!ToStop, Facts!ToStop, Video!ToUpdate, Facts!ToUpdate,
         Video!others, Facts!others, Video!mode, Facts!mode
<1>16. Video!ClearStop => Facts!ClearStop
  BY DEF Video!ClearStop, Facts!ClearStop, Video!Clear, Facts!Clear,
         Video!ToUpdate, Facts!ToUpdate, Video!others, Facts!others,
         Video!mode, Facts!mode
<1>17. Video!ClearCmd => Facts!ClearCmd
  BY DEF Video!ClearCmd, Facts!ClearCmd, Video!Clear, Facts!Clear,
         Video!others, Facts!others, Video!mode, Facts!mode
<1>18. Video!ConnectionLost => Facts!ConnectionLost
  BY DEF Video!ConnectionLost, Facts!ConnectionLost, Video!others,
         Facts!others, Video!mode, Facts!mode
<1>19. Video!KitReadFlags => Facts!KitReadFlags
  BY DEF Video!KitReadFlags, Facts!KitReadFlags, Video!kothers,
         Facts!kothers, Video!mode, Facts!mode
<1>20. Video!KitReadValues => Facts!KitReadValues
  BY DEF Video!KitReadValues, Facts!KitReadValues, Video!Corrected,
         Facts!Corrected, Video!KitToStart, Facts!KitToStart,
         Video!KitToStop, Facts!KitToStop, Video!KitToUpdate,
         Facts!KitToUpdate, Video!kothers, Facts!kothers, Video!mode,
         Facts!mode
<1>21. Video!KitFixRes => Facts!KitFixRes
  BY DEF Video!KitFixRes, Facts!KitFixRes, Video!KitToStart,
         Facts!KitToStart, Video!KitToStop, Facts!KitToStop,
         Video!KitToUpdate, Facts!KitToUpdate, Video!kothers,
         Facts!kothers, Video!mode, Facts!mode
<1>22. Video!KitStart => Facts!KitStart
  BY DEF Video!KitStart, Facts!KitStart, Video!kothers, Facts!kothers,
         Video!mode, Facts!mode
<1>23. Video!KitStarted => Facts!KitStarted
  BY DEF Video!KitStarted, Facts!KitStarted, Video!KitToStop,
         Facts!KitToStop, Video!KitToUpdate, Facts!KitToUpdate,
         Video!kothers, Facts!kothers, Video!mode, Facts!mode
<1>24. Video!KitStop => Facts!KitStop
  BY DEF Video!KitStop, Facts!KitStop, Video!kothers, Facts!kothers,
         Video!mode, Facts!mode
<1>25. Video!KitStopped => Facts!KitStopped
  BY DEF Video!KitStopped, Facts!KitStopped, Video!KitToUpdate,
         Facts!KitToUpdate, Video!kothers, Facts!kothers, Video!mode,
         Facts!mode
<1>26. Video!KitUpdate => Facts!KitUpdate
  BY DEF Video!KitUpdate, Facts!KitUpdate, Video!kothers, Facts!kothers,
         Video!mode, Facts!mode
<1>27. Video!KitUpdated => Facts!KitUpdated
  BY DEF Video!KitUpdated, Facts!KitUpdated, Video!kothers, Facts!kothers,
         Video!mode, Facts!mode
<1> QED
  BY <1>1, <1>2, <1>3, <1>4, <1>5, <1>6, <1>7, <1>8, <1>9, <1>10, <1>11, <1>12,
     <1>13, <1>14, <1>15, <1>16, <1>17, <1>18, <1>19, <1>20, <1>21, <1>22, <1>23,
     <1>24, <1>25, <1>26, <1>27
     DEF Video!Next, Facts!Next, Video!Operator, Facts!Operator,
         Video!Proxy, Facts!Proxy, Video!Sends, Facts!Sends, Video!Clears,
         Facts!Clears, Video!Kit, Facts!Kit

LEMMA VideoRuns == KitsSpec => Facts!Spec
<1>1. KitsInit => Facts!Init
  BY VideoInit DEF KitsInit
<1>2. UNCHANGED <<local, polite, onVideo>> => UNCHANGED Facts!vars
  BY DEF onVideo, Facts!vars, Facts!mode
<1>3. [KitsNext]_allVars => [Facts!Next]_Facts!vars
  BY <1>2, VideoNext DEF KitsNext, OfClock, OfVideo, OfMotor, OfCamera, allVars
<1> QED
  BY <1>1, <1>3, PTL DEF KitsSpec, Facts!Spec

LEMMA StepperInit == Stepper!Init => Facts!Stepper!Init
BY DEF Stepper!Init, Facts!Stepper!Init, Stepper!Fresh, Facts!Stepper!Fresh, Stepper!default,
       Facts!Stepper!default, Stepper!Value, Facts!Stepper!Value

LEMMA StepperNext == Stepper!Next => Facts!Stepper!Next
<1>1. Stepper!Write => Facts!Stepper!Write
  BY DEF Stepper!Write, Facts!Stepper!Write, Stepper!Serves, Facts!Stepper!Serves,
         Stepper!Value, Facts!Stepper!Value
<1>2. Stepper!ReadStart => Facts!Stepper!ReadStart
  BY DEF Stepper!ReadStart, Facts!Stepper!ReadStart
<1>3. Stepper!ReadDir => Facts!Stepper!ReadDir
  BY DEF Stepper!ReadDir, Facts!Stepper!ReadDir, Stepper!Read, Facts!Stepper!Read
<1>4. Stepper!ReadRevolutions => Facts!Stepper!ReadRevolutions
  BY DEF Stepper!ReadRevolutions, Facts!Stepper!ReadRevolutions, Stepper!Read,
         Facts!Stepper!Read
<1>5. Stepper!ReadRotation => Facts!Stepper!ReadRotation
  BY DEF Stepper!ReadRotation, Facts!Stepper!ReadRotation, Stepper!Read,
         Facts!Stepper!Read
<1>6. Stepper!Correct => Facts!Stepper!Correct
  BY DEF Stepper!Correct, Facts!Stepper!Correct, Stepper!TooLarge,
         Facts!Stepper!TooLarge, Stepper!First, Facts!Stepper!First, Stepper!Value,
         Facts!Stepper!Value, Stepper!max, Facts!Stepper!max, Stepper!default,
         Facts!Stepper!default
<1>7. Stepper!Decide => Facts!Stepper!Decide
  BY DEF Stepper!Decide, Facts!Stepper!Decide, Stepper!TooLarge,
         Facts!Stepper!TooLarge, Stepper!Value, Facts!Stepper!Value, Stepper!max,
         Facts!Stepper!max
<1>8. Stepper!RunMotor => Facts!Stepper!RunMotor
  BY DEF Stepper!RunMotor, Facts!Stepper!RunMotor, Stepper!Steps, Facts!Stepper!Steps,
         Stepper!Turned, Facts!Stepper!Turned, Stepper!Value, Facts!Stepper!Value
<1>9. Stepper!ResetRotation => Facts!Stepper!ResetRotation
  BY DEF Stepper!ResetRotation, Facts!Stepper!ResetRotation, Stepper!Reset,
         Facts!Stepper!Reset, Stepper!default, Facts!Stepper!default
<1>10. Stepper!ResetRevolutions => Facts!Stepper!ResetRevolutions
  BY DEF Stepper!ResetRevolutions, Facts!Stepper!ResetRevolutions, Stepper!Reset,
         Facts!Stepper!Reset, Stepper!default, Facts!Stepper!default
<1>11. Stepper!ResetStart => Facts!Stepper!ResetStart
  BY DEF Stepper!ResetStart, Facts!Stepper!ResetStart
<1> QED
  BY <1>1, <1>2, <1>3, <1>4, <1>5, <1>6, <1>7, <1>8, <1>9, <1>10, <1>11
     DEF Stepper!Next, Facts!Stepper!Next, Stepper!Loop, Facts!Stepper!Loop

(* RunFresh needs no fairness.                                             *)
LEMMA StepperRuns == KitsSpec => Facts!Stepper!Init /\ [][Facts!Stepper!Next]_(Facts!Stepper!vars)
<1>1. KitsInit => Facts!Stepper!Init
  BY StepperInit DEF KitsInit
<1>2. UNCHANGED <<local, polite, onMotor>> => UNCHANGED Facts!Stepper!vars
  BY DEF onMotor, Facts!Stepper!vars
<1>3. [KitsNext]_allVars => [Facts!Stepper!Next]_(Facts!Stepper!vars)
  BY <1>2, StepperNext DEF KitsNext, OfClock, OfVideo, OfMotor, OfCamera, allVars
<1> QED
  BY <1>1, <1>3, PTL DEF KitsSpec

-----------------------------------------------------------------------------
(* The types of the program that runs.                                     *)
THEOREM KitsTypesCorrect == KitsSpec => []KitsTypeOK
<1>1. Facts!TypeOK => Video!TypeOK
  BY SameNodes DEF Video!TypeOK, Facts!TypeOK
<1>2. 3 \in Nat
  OBVIOUS
<1>3. Facts!Spec => []Facts!TypeOK
  BY <1>2, Facts!TypesCorrect
<1>4. TypeOK /\ Facts!TypeOK => KitsTypeOK
  BY <1>1 DEF KitsTypeOK
<1> QED
  BY <1>3, <1>4, ClockRuns, VideoRuns, TypeCorrect, PTL

(* What is executed is as new as the command, no resolution is set that    *)
(* the camera does not have, and what is acknowledged was executed.        *)
THEOREM CommandsFresh == KitsSpec => []CommandFresh
<1>1. 3 \in Nat
  OBVIOUS
<1>2. Facts!Spec => []Facts!UpdateFresh
  BY <1>1, Facts!UpdateCorrect
<1>3. Facts!Spec => []Facts!StreamFresh
  BY <1>1, Facts!StreamCorrect
<1>4. Facts!Spec => []Facts!ResolutionValid
  BY <1>1, Facts!ResolutionCorrect
<1>5. Facts!Spec => []Facts!Acknowledged
  BY <1>1, Facts!AcknowledgedCorrect
<1>6. Facts!Stepper!Init /\ [][Facts!Stepper!Next]_(Facts!Stepper!vars) => []Facts!Stepper!RunFresh
  BY <1>1, Facts!RunCorrect
<1>7. /\ Facts!UpdateFresh => Video!UpdateFresh
      /\ Facts!StreamFresh => Video!StreamFresh
      /\ Facts!ResolutionValid => Video!ResolutionValid
      /\ Facts!Acknowledged => Video!Acknowledged
      /\ Facts!Stepper!RunFresh => Stepper!RunFresh
  BY SameNodes DEF Facts!UpdateFresh, Video!UpdateFresh, Facts!StreamFresh,
     Video!StreamFresh, Facts!ResolutionValid, Video!ResolutionValid,
     Facts!Acknowledged, Video!Acknowledged, Facts!Stepper!RunFresh, Stepper!RunFresh,
     Facts!Stepper!Value, Stepper!Value
<1>8. /\ Facts!UpdateFresh /\ Facts!StreamFresh /\ Facts!ResolutionValid
      /\ Facts!Acknowledged /\ Facts!Stepper!RunFresh
      => CommandFresh
  BY <1>7 DEF CommandFresh
<1> QED
  BY <1>2, <1>3, <1>4, <1>5, <1>6, <1>8, VideoRuns, StepperRuns, PTL
=============================================================================
