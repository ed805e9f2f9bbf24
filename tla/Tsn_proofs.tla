------------------------------- MODULE Tsn_proofs ------------------------------
(***************************************************************************)
(* Proofs about Tsn, for any number of processes and commands, any size of *)
(* a word and of a second: what the device holds fits its core, an export  *)
(* comes back on import, an edit keeps what was not answered, and base     *)
(* times are right.                                                        *)
(***************************************************************************)
EXTENDS Tsn, TLAPS, WellFoundedInduction

-----------------------------------------------------------------------------
(* The inductive invariant.                                                *)

Conf(s)  == [Fields(s) -> Int]
Names    == UNION {Fields(s) : s \in Sections}
Row      == (UNION {Conf(s) : s \in Sections}) \cup {NoSection}
Table    == [Sections -> Row]

(* A number of 32 bits, or memory never written.  Only three fields hold   *)
(* more, and only three keys may be missing in a file a tool wrote.        *)
Word32   == -1 .. Word - 1
Wide     == {"cycle", "sec", "nsec"}
Optional == {"streams", "gate", "queues"}
Words(s, c) == c \in Conf(s) /\ \A f \in Fields(s) \ Wide : c[f] \in Word32

(* A core of version 2 has no room for what is zero here.                  *)
Fits(v, s, c) ==
    v = 2 => CASE s = "qbv" -> c["reset"] = 0 /\ c["streams"] = 0 /\ c["cycle"] \in Word32
               [] s = "qci" -> c["rest"] = 0
               [] s = "qav" -> c = Configured(2).qav
               [] OTHER -> TRUE
Held(v, s, c) == Words(s, c) /\ Fits(v, s, c)

(* A section j of a file, and what the device had when it was exported.    *)
Keys(s, j) ==
    /\ j \in Conf(s)
    /\ \A f \in Fields(s) \ Wide : j[f] \in Word32 \/ (f \in Optional /\ j[f] = Missing)
Copied(v, s, j, c) ==
    /\ c \in Conf(s)
    /\ \A f \in Fields(s) :
          c[f] = Missing \/ j[f] = IF f \in Flags THEN Bool(c[f]) ELSE c[f]
    /\ s = "qbv" => c["streams"] = Missing
    /\ s = "qbv" /\ v = 2 => c["reset"] = 0 /\ c["cycle"] \in Word32 \cup {Missing}
    /\ s = "qci" => v = 2 /\ c["rest"] = 0
    /\ s = "qav" => c["queues"] = Missing
Section(v, s, j, c) ==
    /\ j = NoSection \/ Keys(s, j)
    /\ c = NoSection \/ (j # NoSection /\ Copied(v, s, j, c))
Text(v, t) ==
    /\ t \in [json : Table, from : Table]
    /\ \A s \in Sections : Section(v, s, t.json[s], t.from[s])

Places ==
    {"idle", "get", "input", "set", "export", "open", "close", "read", "import", "stamp",
     "openstamp", "closestamp"}
Process ==
    [pc : Places, s : Sections, todo : SUBSET Sections, v3 : BOOLEAN, edit : BOOLEAN,
     csv : BOOLEAN, conf : Row, base : Row, got : BOOLEAN, typed : SUBSET Names,
     text : [json : Table, from : Table]]

(* An edit: what was read, and what was made of it so far.                 *)
Read(v, r) == r.conf = r.base /\ Held(v, r.s, r.base)
Edited(v, r) ==
    /\ Held(v, r.s, r.base)
    /\ \A f \in Fields(r.s) \ r.typed :
          \/ r.conf[f] = Low(r.base[f])
          \/ r.s = "rx" /\ f = "id" /\ r.conf["check"] = 0

(* An export: what was read is in memory until it is written.              *)
Exported(v, r) == Held(v, r.s, r.conf) /\ (r.s = "qci" => r.v3 \/ v = 2)

ProcInv(v, r) ==
    /\ r \in Process
    /\ r.pc \in {"get", "input", "set"} => Words(r.s, r.conf) /\ r.s # "qav"
    /\ r.pc = "input" /\ r.edit /\ r.got => Read(v, r)
    /\ r.pc = "set" /\ r.edit /\ r.got => Edited(v, r)
    /\ r.pc \in {"open", "close"} => Exported(v, r)
    /\ r.pc \in {"export", "import"} => r.todo # {}
    /\ r.pc = "import" => \A s \in r.todo : r.text.json[s] # NoSection
    /\ Text(v, r.text)

DriverInv == driver \in Table /\ \A s \in Sections : Held(ver, s, driver[s])
ProcsInv  == proc \in [Procs -> Process] /\ \A p \in Procs : ProcInv(ver, proc[p])
LogInv    == Restores /\ EditKeeps /\ BaseTimeRight /\ NothingDropped
CountInv  == ver \in {2, 3} /\ commands \in 0 .. MaxCommands

Inv == CountInv /\ DriverInv /\ Text(ver, file) /\ ProcsInv /\ LogInv

-----------------------------------------------------------------------------
(* Numbers.                                                                *)
LEMMA LowFacts ==
    /\ \A x \in Int : Low(x) \in Word32
    /\ \A x \in Word32 : Low(x) = x
    /\ Word32 \subseteq Int /\ {-1, 0, 1} \subseteq Word32
<1>1. \A x \in Int : x % Word \in 0 .. Word - 1
  BY WordAssumption, SMT
<1>2. \A x \in 0 .. Word - 1 : x % Word = x
  BY WordAssumption, SMT
<1>3. Word32 \subseteq Int /\ {-1, 0, 1} \subseteq Word32
  BY WordAssumption, SMT DEF Word32
<1>4. ASSUME NEW x \in Int PROVE Low(x) \in Word32
  BY <1>1, <1>3, WordAssumption, SMT DEF Low, Junk, Word32
<1>5. ASSUME NEW x \in Word32 PROVE Low(x) = x
  BY <1>2, WordAssumption, SMT DEF Low, Junk, Word32
<1> QED
  BY <1>3, <1>4, <1>5

LEMMA SaturatedFacts ==
    /\ \A x \in Int : Saturated(x) \in Int /\ (x <= IntMax => Saturated(x) = x)
    /\ \A x \in Word32 : Saturated(x) \in Word32
    /\ IntMax \in Int
<1>1. IntMax \in 0 .. Word - 1
  BY WordAssumption, SMT DEF IntMax
<1> QED
  BY <1>1, WordAssumption, SMT DEF Saturated, Word32

LEMMA GivenFacts ==
    /\ \A x \in Int : Given(x) \in Int /\ (x # Missing => Given(x) = x)
    /\ \A x : x \in Word32 \/ x = Missing => Given(x) \in Word32
<1>1. Missing \notin Word32 /\ Missing \in Int /\ 0 \in Word32
  BY WordAssumption, SMT DEF Missing, Word32
<1> QED
  BY <1>1, SMT DEF Given

LEMMA BoolFacts == \A x : Bool(x) \in {0, 1} /\ Bool(Bool(x)) = Bool(x)
BY DEF Bool

(* The fields by section.                                                  *)
LEMMA FieldSets ==
    /\ Fields("qbv") = {"cycle", "sec", "nsec", "prios", "reset", "streams", "gate", "list"}
    /\ Fields("qbu") = {"en", "size"}
    /\ Fields("qci") = {"first", "rest"}
    /\ Fields("qav") = {"num", "queues"}
    /\ Fields("rx") = {"check", "id"}
    /\ Fields("ptp") = {"prioq"}
    /\ Fields("ldb") = {"len"}
BY DEF Fields

(* A section filled with one value, and the first configuration.           *)
LEMMA Filled ==
    ASSUME NEW s \in Sections, NEW x \in {-1, 0}
    PROVE  Words(s, All(s, x)) /\ \A f \in Fields(s) : All(s, x)[f] = x
BY LowFacts DEF Words, All, Conf

LEMMA ConfiguredFacts ==
    ASSUME NEW v \in {2, 3}
    PROVE  /\ Configured(v) \in Table
           /\ \A s \in Sections : Held(v, s, Configured(v)[s])
<1>1. Word - 1 \in Word32 /\ v - 2 \in {0, 1} /\ Word + 1 \in Int
  BY WordAssumption, SMT DEF Word32
<1>2. v = 2 => v - 2 = 0
  BY SMT
<1>3. \A s \in Sections : Held(v, s, Configured(v)[s])
  <2>1. Held(v, "qbv", Configured(v)["qbv"])
    BY <1>1, <1>2, LowFacts, FieldSets DEF Configured, QciTable, Held, Words, Fits, Conf, Wide
  <2>2. Held(v, "qav", Configured(v)["qav"])
    BY <1>1, <1>2, LowFacts, FieldSets DEF Configured, QciTable, Held, Words, Fits, Conf, Wide
  <2>3. Held(v, "qci", Configured(v)["qci"])
    BY <1>1, <1>2, LowFacts, FieldSets DEF Configured, QciTable, Held, Words, Fits, Conf, Wide
  <2>4. Held(v, "qbu", Configured(v)["qbu"])
    BY <1>1, <1>2, LowFacts, FieldSets DEF Configured, QciTable, Held, Words, Fits, Conf, Wide
  <2>5. Held(v, "rx", Configured(v)["rx"])
    BY <1>1, <1>2, LowFacts, FieldSets DEF Configured, QciTable, Held, Words, Fits, Conf, Wide
  <2>6. Held(v, "ptp", Configured(v)["ptp"])
    BY <1>1, <1>2, LowFacts, FieldSets DEF Configured, QciTable, Held, Words, Fits, Conf, Wide
  <2>7. Held(v, "ldb", Configured(v)["ldb"])
    BY <1>1, <1>2, LowFacts, FieldSets DEF Configured, QciTable, Held, Words, Fits, Conf, Wide
  <2> QED
    BY <2>1, <2>2, <2>3, <2>4, <2>5, <2>6, <2>7 DEF Sections
<1>4. \A s \in Sections : Configured(v)[s] \in Row
  BY <1>3 DEF Held, Words, Row
<1> QED
  BY <1>3, <1>4 DEF Table, Configured, QciTable, Sections

LEMMA NoSectionRow == NoSection \in Row
BY DEF Row, NoSection

(* The files there are at the start.                                       *)
LEMMA EmptyText ==
    ASSUME NEW v \in {2, 3}
    PROVE  Empty \in [json : Table, from : Table] /\ Text(v, Empty)
BY NoSectionRow DEF Empty, Text, Section, Table

LEMMA WrittenText ==
    ASSUME NEW v \in {2, 3}
    PROVE  Text(v, Written)
<1> DEFINE W == Written.json
<1>1. Word + 1 \in Int /\ Missing \in Int /\ Missing \notin Word32
  BY WordAssumption, SMT DEF Missing, Word32
<1>2. Empty \in [json : Table, from : Table] /\ Text(v, Empty)
  BY EmptyText
<1>3. DOMAIN W = Sections /\ Written.from = Empty.from /\ DOMAIN Written = {"json", "from"}
  BY DEF Written, Empty, Sections
<1>4. ASSUME NEW s \in Sections PROVE Keys(s, W[s])
  <2>1. Keys("qbv", W["qbv"])
    <3>1. W["qbv"] = [cycle |-> Word + 1, sec |-> 0, nsec |-> 0, prios |-> 1, reset |-> 1,
                      streams |-> 1, gate |-> 0, list |-> 1]
      BY DEF Written
    <3> HIDE DEF W
    <3> QED
      BY <1>1, <3>1, LowFacts, FieldSets DEF Keys, Conf, Wide, Optional
  <2>2. Keys("qav", W["qav"])
    <3>1. W["qav"] = [num |-> 1, queues |-> Missing]
      BY DEF Written
    <3> HIDE DEF W
    <3> QED
      BY <1>1, <3>1, LowFacts, FieldSets DEF Keys, Conf, Wide, Optional
  <2>3. Keys("qci", W["qci"])
    <3>1. W["qci"] = [first |-> 0, rest |-> 0]
      BY DEF Written
    <3> HIDE DEF W
    <3> QED
      BY <1>1, <3>1, LowFacts, FieldSets DEF Keys, Conf, Wide, Optional
  <2>4. Keys("qbu", W["qbu"])
    <3>1. W["qbu"] = [en |-> 0, size |-> 0]
      BY DEF Written
    <3> HIDE DEF W
    <3> QED
      BY <1>1, <3>1, LowFacts, FieldSets DEF Keys, Conf, Wide, Optional
  <2>5. Keys("rx", W["rx"])
    <3>1. W["rx"] = [check |-> 1, id |-> 0]
      BY DEF Written
    <3> HIDE DEF W
    <3> QED
      BY <1>1, <3>1, LowFacts, FieldSets DEF Keys, Conf, Wide, Optional
  <2>6. Keys("ptp", W["ptp"])
    <3>1. W["ptp"] = [prioq |-> 0]
      BY DEF Written
    <3> HIDE DEF W
    <3> QED
      BY <1>1, <3>1, LowFacts, FieldSets DEF Keys, Conf, Wide, Optional
  <2>7. Keys("ldb", W["ldb"])
    <3>1. W["ldb"] = [len |-> 0]
      BY DEF Written
    <3> HIDE DEF W
    <3> QED
      BY <1>1, <3>1, LowFacts, FieldSets DEF Keys, Conf, Wide, Optional
  <2> QED
    BY <2>1, <2>2, <2>3, <2>4, <2>5, <2>6, <2>7 DEF Sections
<1>5. W \in Table
  BY <1>3, <1>4 DEF Table, Row, Keys, Written
<1>6. Written \in [json : Table, from : Table]
  BY <1>2, <1>3, <1>5 DEF Written
<1>7. \A s \in Sections : Written.from[s] = NoSection
  BY <1>3 DEF Empty
<1> QED
  BY <1>4, <1>6, <1>7 DEF Text, Section

-----------------------------------------------------------------------------
(* What a request to the driver gives.                                     *)
LEMMA Pairs == \A r, a, b : r = <<a, b>> => r[1] = a /\ r[2] = b
OBVIOUS

LEMMA GetFacts ==
    ASSUME NEW me \in Process, NEW s \in Sections, NEW conf, CountInv, DriverInv,
           Words(s, conf), NEW r \in Get(me, s, conf)
    PROVE  /\ r[1] \in BOOLEAN /\ Words(s, r[2])
           /\ r[1] => r[2] = driver[s] /\ (s = "qci" => me.v3 \/ ver = 2)
<1>0. Words(s, driver[s]) /\ Words(s, All(s, 0)) /\ me.v3 \in BOOLEAN
  BY Filled DEF DriverInv, Held, Process
<1>1. CASE s = "qbv"
  <2>1. r = <<TRUE, driver["qbv"]>> \/ r = <<FALSE, All("qbv", 0)>> \/ r = <<FALSE, conf>>
    BY <1>1 DEF Get, get_qbv_conf, Fails
  <2>2. (r[1] = TRUE /\ r[2] = driver["qbv"])
           \/ (r[1] = FALSE /\ r[2] = All("qbv", 0))
           \/ (r[1] = FALSE /\ r[2] = conf)
    BY <2>1, Pairs, Zenon
  <2> QED
    BY <1>0, <1>1, <2>2
<1>2. CASE s = "qbu"
  <2>1. r = <<TRUE, driver["qbu"]>> \/ r = <<FALSE, conf>>
    BY <1>2 DEF Get, get_qbu_conf, Fails
  <2>2. (r[1] = TRUE /\ r[2] = driver["qbu"]) \/ (r[1] = FALSE /\ r[2] = conf)
    BY <2>1, Pairs, Zenon
  <2> QED
    BY <1>0, <1>2, <2>2
<1>3. CASE s = "qci"
  <2>1. r = <<FALSE, conf>> \/ (r = <<TRUE, driver["qci"]>> /\ (me.v3 \/ ver = 2))
    <3>1. CASE me.v3
      BY <1>0, <1>3, <3>1 DEF Get, get_qci_conf_v3, Fails
    <3>2. CASE ~me.v3
      BY <1>0, <1>3, <3>2 DEF Get, get_qci_conf, Fails
    <3> QED
      BY <3>1, <3>2
  <2>2. (r[1] = FALSE /\ r[2] = conf)
           \/ (r[1] = TRUE /\ r[2] = driver["qci"] /\ (me.v3 \/ ver = 2))
    BY <2>1, Pairs, Zenon
  <2> QED
    BY <1>0, <1>3, <2>2
<1>4. CASE s = "qav"
  <2>1. r = <<FALSE, conf>> \/ r = <<TRUE, driver["qav"]>>
    BY <1>4 DEF Get, get_qav_conf, Fails
  <2>2. (r[1] = FALSE /\ r[2] = conf) \/ (r[1] = TRUE /\ r[2] = driver["qav"])
    BY <2>1, Pairs, Zenon
  <2> QED
    BY <1>0, <1>4, <2>2
<1>5. CASE s = "rx"
  <2>1. r = <<TRUE, driver["rx"]>> \/ r = <<FALSE, conf>>
    BY <1>5 DEF Get, get_rx_port_id, Fails
  <2>2. (r[1] = TRUE /\ r[2] = driver["rx"]) \/ (r[1] = FALSE /\ r[2] = conf)
    BY <2>1, Pairs, Zenon
  <2> QED
    BY <1>0, <1>5, <2>2
<1>6. CASE s = "ptp"
  <2>1. r = <<TRUE, driver["ptp"]>> \/ r = <<FALSE, conf>>
    BY <1>6 DEF Get, get_tx_ptp_prioq, Fails
  <2>2. (r[1] = TRUE /\ r[2] = driver["ptp"]) \/ (r[1] = FALSE /\ r[2] = conf)
    BY <2>1, Pairs, Zenon
  <2> QED
    BY <1>0, <1>6, <2>2
<1>7. CASE s = "ldb"
  <2>1. r = <<TRUE, driver["ldb"]>> \/ r = <<FALSE, conf>>
    BY <1>7 DEF Get, get_length_deduct_byte, Fails
  <2>2. (r[1] = TRUE /\ r[2] = driver["ldb"]) \/ (r[1] = FALSE /\ r[2] = conf)
    BY <2>1, Pairs, Zenon
  <2> QED
    BY <1>0, <1>7, <2>2
<1> QED
  BY <1>1, <1>2, <1>3, <1>4, <1>5, <1>6, <1>7 DEF Sections

(* What a set makes of the configuration given.                            *)
Made(v, s, conf, value, f) ==
    \/ value[f] = conf[f]
    \/ v = 2 /\ s = "qbv" /\ f = "cycle" /\ value[f] = Low(conf[f])
    \/ v = 2 /\ f \in {"reset", "streams", "rest"} /\ value[f] = 0
    \/ s = "qav" /\ conf["num"] = 0 /\ value[f] = 0

LEMMA SetFacts ==
    ASSUME NEW me \in Process, NEW s \in Sections, NEW conf, CountInv,
           Words(s, conf), NEW value \in Set(me, s, conf)
    PROVE  /\ Held(ver, s, value)
           /\ \A f \in Fields(s) : Made(ver, s, conf, value, f)
           /\ s = "qav" => ver = 3
<1>0. /\ ver \in {2, 3} /\ me.v3 \in BOOLEAN /\ Words(s, All(s, 0))
      /\ \A f \in Fields(s) : conf[f] \in Int
  BY Filled DEF CountInv, Process, Words, Conf
<1>1. CASE s = "qbv"
  <2>1. CASE ver = 3
    BY <1>0, <1>1, <2>1 DEF Set, set_qbv_conf, Held, Fits, Made
  <2>2. CASE ver = 2
    <3> DEFINE c1 == [conf EXCEPT !.cycle = Low(@)]
               c2 == [c1 EXCEPT !.reset = 0]
               c3 == [c2 EXCEPT !.streams = 0]
    <3>1. value = [conf EXCEPT !.cycle = Low(@), !.reset = 0, !.streams = 0]
      <4>1. value \in set_qbv_conf(conf)
        BY <1>1 DEF Set
      <4>2. ver # 3
        BY <2>2
      <4>3. set_qbv_conf(conf) \subseteq
                {[conf EXCEPT !.cycle = Low(@), !.reset = 0, !.streams = 0]}
        BY <4>2, Zenon DEF set_qbv_conf
      <4> QED
        BY <4>1, <4>3
    <3>2. value = c3
      BY <3>1
    <3>3. Words(s, c1) /\ c1["cycle"] = Low(conf["cycle"]) /\ Low(conf["cycle"]) \in Word32
          /\ \A f \in Fields(s) : f # "cycle" => c1[f] = conf[f]
      BY <1>0, <1>1, LowFacts, FieldSets DEF Words, Conf, Wide
    <3> HIDE DEF c1
    <3>4. Words(s, c2) /\ c2["reset"] = 0 /\ \A f \in Fields(s) : f # "reset" => c2[f] = c1[f]
      BY <1>1, <3>3, LowFacts, FieldSets DEF Words, Conf, Wide
    <3> HIDE DEF c2
    <3>5. Words(s, c3) /\ c3["streams"] = 0
          /\ \A f \in Fields(s) : f # "streams" => c3[f] = c2[f]
      BY <1>1, <3>4, LowFacts, FieldSets DEF Words, Conf, Wide
    <3> HIDE DEF c3
    <3>6. c3["cycle"] = Low(conf["cycle"]) /\ c3["reset"] = 0
      BY <1>1, <3>3, <3>4, <3>5, FieldSets
    <3> QED
      BY <1>1, <2>2, <3>2, <3>3, <3>4, <3>5, <3>6, FieldSets DEF Held, Fits, Made
  <2> QED
    BY <1>0, <2>1, <2>2
<1>2. CASE s = "qbu"
  BY <1>0, <1>2 DEF Set, set_qbu_conf, Held, Fits, Made
<1>3. CASE s = "qci"
  <2>1. CASE ver = 3
    BY <1>0, <1>3, <2>1 DEF Set, set_qci_conf, set_qci_conf_v3, Held, Fits, Made
  <2>2. CASE ver = 2
    <3>1. value = [conf EXCEPT !.rest = 0]
      BY <1>0, <1>3, <2>2 DEF Set, set_qci_conf, set_qci_conf_v3
    <3>2. value["rest"] = 0 /\ \A f \in Fields(s) : f # "rest" => value[f] = conf[f]
      BY <1>3, <3>1, FieldSets DEF Words, Conf
    <3>3. Words(s, value)
      BY <1>3, <3>1, LowFacts, FieldSets DEF Words, Conf, Wide
    <3> QED
      BY <1>3, <2>2, <3>2, <3>3, FieldSets DEF Held, Fits, Made
  <2> QED
    BY <1>0, <2>1, <2>2
<1>4. CASE s = "qav"
  <2>1. ver = 3 /\ (value = conf \/ (conf["num"] = 0 /\ value = All("qav", 0)))
    BY <1>0, <1>4 DEF Set, set_qav_conf
  <2> QED
    BY <1>0, <1>4, <2>1, LowFacts DEF Held, Fits, Made, All
<1>5. CASE s = "rx"
  BY <1>0, <1>5 DEF Set, set_rx_port_id, Held, Fits, Made
<1>6. CASE s = "ptp"
  BY <1>0, <1>6 DEF Set, set_tx_ptp_prioq, Held, Fits, Made
<1>7. CASE s = "ldb"
  BY <1>0, <1>7 DEF Set, set_length_deduct_byte, Held, Fits, Made
<1> QED
  BY <1>1, <1>2, <1>3, <1>4, <1>5, <1>6, <1>7 DEF Sections

-----------------------------------------------------------------------------
(* What the answers make of a section: what is not typed is cut to 32      *)
(* bits, but for the port id whose check is off.                           *)
LEMMA InputFacts ==
    ASSUME NEW s \in Sections, s # "qav", NEW conf, Words(s, conf),
           NEW typed, NEW n \in {0, 1}
    PROVE  LET made == input_tsn_conf(s, typed, conf, n)
           IN  /\ Words(s, made)
               /\ \A f \in Fields(s) \ typed :
                     made[f] = Low(conf[f]) \/ (s = "rx" /\ f = "id" /\ made["check"] = 0)
<1> DEFINE made == input_tsn_conf(s, typed, conf, n)
<1>0. /\ n \in Word32 /\ n \in Int
      /\ conf \in Conf(s)
      /\ \A f \in Fields(s) : Low(conf[f]) \in Word32 /\ conf[f] \in Int
      /\ \A f \in Fields(s) \ Wide : conf[f] \in Word32 /\ Low(conf[f]) = conf[f]
      /\ Word32 \subseteq Int
  BY LowFacts DEF Words, Conf
<1>1. CASE s = "qbv"
  <2>1. made = InputQbv(typed, conf, n)
    BY <1>1 DEF input_tsn_conf
  <2>2. \A f \in Fields("qbv") :
           \/ made[f] = conf[f] /\ f \in {"reset", "streams"}
           \/ made[f] = n /\ f \in typed
           \/ made[f] = Low(conf[f])
    BY <2>1 DEF InputQbv, unsigned_integer_input
  <2>3. DOMAIN made = Fields("qbv") /\ made = [f \in Fields("qbv") |-> made[f]]
    BY <2>1 DEF InputQbv
  <2> HIDE DEF made
  <2>4. {"reset", "streams"} \subseteq Fields("qbv") \ Wide
    BY FieldSets DEF Wide
  <2>5. \A f \in Fields("qbv") : made[f] \in Int /\ (f \notin Wide => made[f] \in Word32)
    BY <1>0, <1>1, <2>2
  <2>6. \A f \in Fields("qbv") \ typed : made[f] = Low(conf[f])
    BY <1>0, <1>1, <2>2, <2>4
  <2>7. Words("qbv", made)
    BY <2>3, <2>5 DEF Words, Conf
  <2> QED
    BY <1>1, <2>6, <2>7 DEF made
<1>2. CASE s = "qbu"
  <2>1. made = InputQbu(typed, conf, n)
    BY <1>2 DEF input_tsn_conf
  <2> HIDE DEF made
  <2>2. /\ made \in [Fields("qbu") -> Word32]
        /\ "en" \notin typed => made["en"] = Low(conf["en"])
        /\ "size" \notin typed => made["size"] = Low(conf["size"])
    BY <1>0, <1>2, <2>1, FieldSets DEF InputQbu, unsigned_integer_input, y_n_input, Wide
  <2> QED
    BY <1>0, <1>2, <2>2, FieldSets DEF made, Words, Conf
<1>3. CASE s = "qci"
  <2>1. made = [conf EXCEPT !.first = IF "first" \in typed THEN n ELSE conf["first"]]
    BY <1>3 DEF input_tsn_conf, InputQci, mac_addr_input
  <2> HIDE DEF made
  <2>2. /\ made \in [Fields("qci") -> Word32]
        /\ "first" \notin typed => made["first"] = Low(conf["first"])
        /\ made["rest"] = Low(conf["rest"])
    BY <1>0, <1>3, <2>1, FieldSets DEF Wide, Conf
  <2> QED
    BY <1>0, <1>3, <2>2, FieldSets DEF made, Words, Conf
<1>5. CASE s = "rx"
  <2>1. made = InputRx(typed, conf, n)
    BY <1>5 DEF input_tsn_conf
  <2> HIDE DEF made
  <2>2. /\ made \in [Fields("rx") -> Word32]
        /\ "check" \notin typed => made["check"] = Low(conf["check"])
        /\ "id" \notin typed => made["id"] = Low(conf["id"]) \/ made["check"] = 0
    BY <1>0, <1>5, <2>1, FieldSets DEF InputRx, unsigned_integer_input, y_n_input, Wide
  <2> QED
    BY <1>0, <1>5, <2>2, FieldSets DEF made, Words, Conf
<1>6. CASE s \in {"ptp", "ldb"}
  <2>1. made = InputMisc(s, typed, conf, n)
    BY <1>6 DEF input_tsn_conf
  <2>2. \A f \in Fields(s) : (made[f] = n /\ f \in typed) \/ made[f] = Low(conf[f])
    BY <2>1 DEF InputMisc, unsigned_integer_input
  <2>3. made = [f \in Fields(s) |-> made[f]]
    BY <2>1 DEF InputMisc
  <2> HIDE DEF made
  <2>4. \A f \in Fields(s) : made[f] \in Word32 /\ made[f] \in Int
    BY <1>0, <2>2
  <2>5. Words(s, made)
    BY <2>3, <2>4 DEF Words, Conf
  <2> QED
    BY <2>2, <2>5 DEF made
<1> QED
  BY <1>1, <1>2, <1>3, <1>5, <1>6 DEF Sections

-----------------------------------------------------------------------------
(* What an import makes of a section of a file.                            *)
LEMMA ParsedFacts ==
    ASSUME NEW me \in Process, NEW s \in Sections, NEW j, Keys(s, j)
    PROVE  Words(s, Parsed(me, s, j))
<1> DEFINE value == Parsed(me, s, j)
<1>0. /\ j \in Conf(s) /\ me.v3 \in BOOLEAN
      /\ \A f \in Fields(s) : j[f] \in Int
      /\ \A f \in Fields(s) \ Wide : j[f] \in Word32 \/ (f \in Optional /\ j[f] = Missing)
      /\ \A f \in Fields(s) \ Wide :
            Given(j[f]) \in Word32 /\ Saturated(Given(j[f])) \in Word32
      /\ \A f \in Fields(s) : Saturated(Given(j[f])) \in Int
      /\ Word32 \subseteq Int /\ {-1, 0, 1} \subseteq Word32
  BY LowFacts, GivenFacts, SaturatedFacts DEF Keys, Conf, Process
<1>1. CASE s = "qbv"
  <2>1. value = ParseQbv(me, j)
    BY <1>1 DEF Parsed
  <2>2. \A f \in Fields("qbv") :
           \/ f \in {"prios", "streams"} /\ value[f] \in {0, Given(j[f])}
           \/ value[f] = Saturated(Given(j[f]))
           \/ f = "cycle" /\ value[f] = j[f]
    BY <2>1 DEF ParseQbv, ParsePrioq, ParseGcl
  <2>3. value = [f \in Fields("qbv") |-> value[f]]
    BY <2>1 DEF ParseQbv
  <2> HIDE DEF value
  <2>4. {"prios", "streams"} \subseteq Fields("qbv") \ Wide /\ "cycle" \in Wide
    BY FieldSets DEF Wide
  <2>5. \A f \in Fields("qbv") : value[f] \in Int /\ (f \notin Wide => value[f] \in Word32)
    BY <1>0, <1>1, <2>2, <2>4
  <2>6. Words("qbv", value)
    BY <2>3, <2>5 DEF Words, Conf
  <2> QED
    BY <1>1, <2>6 DEF value
<1>2. CASE s = "qbu"
  <2>1. value = [j EXCEPT !.en = Bool(@)]
    BY <1>2 DEF Parsed, ParseQbu
  <2> HIDE DEF value
  <2>2. value \in [Fields("qbu") -> Word32]
    BY <1>0, <1>2, <2>1, BoolFacts, FieldSets DEF Conf, Wide, Optional
  <2> QED
    BY <1>0, <1>2, <2>2 DEF value, Words, Conf
<1>3. CASE s = "qci"
  <2>0. j \in [Fields("qci") -> Word32]
    BY <1>0, <1>3, FieldSets DEF Conf, Wide, Optional
  <2>1. value = (IF me.v3 THEN [f \in Fields("qci") |-> Given(j[f])] ELSE [j EXCEPT !.rest = 0])
    BY <1>3 DEF Parsed, ParseQci, parse_psfp_stream_fields, parse_qci_v1_sa
  <2> HIDE DEF value
  <2>2. value \in [Fields("qci") -> Word32]
    <3>1. CASE me.v3
      BY <1>0, <1>3, <2>1, <3>1, FieldSets DEF Wide
    <3>2. CASE ~me.v3
      BY <1>0, <2>0, <2>1, <3>2, FieldSets
    <3> QED
      BY <3>1, <3>2
  <2> QED
    BY <1>0, <1>3, <2>2 DEF value, Words, Conf
<1>4. CASE s = "qav"
  <2>1. value = [j EXCEPT !.queues = IF @ = Missing THEN Junk ELSE @]
    BY <1>4 DEF Parsed, ParseQav
  <2> HIDE DEF value
  <2>2. value \in [Fields("qav") -> Word32]
    BY <1>0, <1>4, <2>1, FieldSets DEF Conf, Wide, Optional, Junk
  <2> QED
    BY <1>0, <1>4, <2>2 DEF value, Words, Conf
<1>5. CASE s = "rx"
  <2>1. value = [j EXCEPT !.check = Bool(@)]
    BY <1>5 DEF Parsed, ParseRx
  <2> HIDE DEF value
  <2>2. value \in [Fields("rx") -> Word32]
    BY <1>0, <1>5, <2>1, BoolFacts, FieldSets DEF Conf, Wide, Optional
  <2> QED
    BY <1>0, <1>5, <2>2 DEF value, Words, Conf
<1>6. CASE s \in {"ptp", "ldb"}
  <2>1. value = j
    BY <1>6 DEF Parsed
  <2> QED
    BY <1>0, <1>6, <2>1, FieldSets DEF Words, Optional
<1> QED
  BY <1>1, <1>2, <1>3, <1>4, <1>5, <1>6 DEF Sections

(* What is imported comes back, up to what is lost by design.              *)
LEMMA RoundTrip ==
    ASSUME NEW me \in Process, NEW s \in Sections, NEW j, NEW c, CountInv,
           Keys(s, j), Copied(ver, s, j, c),
           NEW value \in Set(me, s, Parsed(me, s, j)),
           NEW f \in Fields(s), c[f] # Missing, f # "prios",
           s = "qbv" /\ f # "cycle" => ~(c[f] > IntMax)
    PROVE  value[f] = IF f \in Flags THEN Bool(c[f]) ELSE c[f]
<1> DEFINE P == Parsed(me, s, j)
<1>0. /\ Words(s, P) /\ j \in Conf(s) /\ me.v3 \in BOOLEAN /\ c[f] \in Int /\ ver \in {2, 3}
      /\ j[f] = IF f \in Flags THEN Bool(c[f]) ELSE c[f]
  BY ParsedFacts DEF CountInv, Keys, Copied, Process, Conf
<1>00. Made(ver, s, P, value, f) /\ (s = "qav" => ver = 3)
  BY <1>0, SetFacts
<1>1. CASE s = "qbv"
  <2>1. P = ParseQbv(me, j)
    BY <1>1 DEF Parsed
  <2>2. f # "streams" /\ j[f] = c[f]
    BY <1>0, <1>1, FieldSets DEF Copied, Flags
  <2>3. CASE f = "cycle"
    <3>1. P[f] = c[f]
      BY <1>1, <2>1, <2>2, <2>3, FieldSets DEF ParseQbv
    <3>2. ver = 2 => Low(c[f]) = c[f]
      BY <1>1, <2>3, LowFacts DEF Copied
    <3> HIDE DEF P
    <3> QED
      BY <1>1, <1>00, <2>3, <3>1, <3>2 DEF Made, Flags
  <2>4. CASE f # "cycle"
    <3>1. P[f] = Saturated(Given(j[f]))
      BY <1>1, <2>1, <2>2, <2>4 DEF ParseQbv, ParseGcl
    <3>2. P[f] = c[f]
      BY <1>0, <1>1, <2>2, <2>4, <3>1, SaturatedFacts, GivenFacts
    <3>3. ver = 2 /\ f = "reset" => c[f] = 0
      BY <1>1 DEF Copied
    <3>4. f # "rest" /\ f \notin Flags
      BY <1>1, FieldSets DEF Flags
    <3> HIDE DEF P
    <3> QED
      BY <1>1, <1>00, <2>2, <2>4, <3>2, <3>3, <3>4 DEF Made
  <2> QED
    BY <2>3, <2>4
<1>2. CASE s = "qbu"
  <2>1. P = [j EXCEPT !.en = Bool(@)]
    BY <1>2 DEF Parsed, ParseQbu
  <2> HIDE DEF P
  <2>2. value[f] = P[f]
    BY <1>2, <1>00, FieldSets DEF Made
  <2> QED
    BY <1>0, <1>2, <2>1, <2>2, BoolFacts, FieldSets DEF Flags, Conf
<1>3. CASE s = "qci"
  <2>1. P = (IF me.v3 THEN [g \in Fields("qci") |-> Given(j[g])] ELSE [j EXCEPT !.rest = 0])
    BY <1>3 DEF Parsed, ParseQci, parse_psfp_stream_fields, parse_qci_v1_sa
  <2>2. ver = 2 /\ c["rest"] = 0 /\ j[f] = c[f]
    BY <1>0, <1>3, FieldSets DEF Copied, Flags
  <2> HIDE DEF P
  <2>3. P[f] = c[f]
    <3>1. CASE me.v3
      BY <1>0, <1>3, <2>1, <2>2, <3>1, GivenFacts
    <3>2. CASE ~me.v3
      BY <1>0, <1>3, <2>1, <2>2, <3>2, FieldSets DEF Conf
    <3> QED
      BY <3>1, <3>2
  <2> QED
    BY <1>3, <1>00, <2>2, <2>3, FieldSets DEF Made, Flags
<1>4. CASE s = "qav"
  <2>1. P = [j EXCEPT !.queues = IF @ = Missing THEN Junk ELSE @]
    BY <1>4 DEF Parsed, ParseQav
  <2> HIDE DEF P
  <2>2. f = "num" /\ j[f] = c[f]
    BY <1>0, <1>4, FieldSets DEF Copied, Flags
  <2>3. P[f] = c[f]
    BY <1>0, <1>4, <2>1, <2>2, FieldSets DEF Conf
  <2> QED
    BY <1>4, <1>00, <2>2, <2>3 DEF Made, Flags
<1>5. CASE s = "rx"
  <2>1. P = [j EXCEPT !.check = Bool(@)]
    BY <1>5 DEF Parsed, ParseRx
  <2> HIDE DEF P
  <2>2. value[f] = P[f]
    BY <1>5, <1>00, FieldSets DEF Made
  <2> QED
    BY <1>0, <1>5, <2>1, <2>2, BoolFacts, FieldSets DEF Flags, Conf
<1>6. CASE s \in {"ptp", "ldb"}
  <2>1. P = j
    BY <1>6 DEF Parsed
  <2> HIDE DEF P
  <2>2. value[f] = P[f]
    BY <1>6, <1>00, FieldSets DEF Made
  <2> QED
    BY <1>0, <1>6, <2>1, <2>2, FieldSets DEF Flags
<1> QED
  BY <1>1, <1>2, <1>3, <1>4, <1>5, <1>6 DEF Sections

(* What an export writes of what it read, and remembers of it.             *)
Seen(json, conf) ==
    IF json = NoSection THEN NoSection
    ELSE [f \in DOMAIN json |-> IF json[f] = Missing THEN Missing ELSE conf[f]]

LEMMA ExportFacts ==
    ASSUME NEW v \in {2, 3}, NEW me \in Process, NEW s \in Sections, NEW conf,
           Held(v, s, conf), s = "qci" => me.v3 \/ v = 2
    PROVE  LET json == display_tsn_conf(me, s, conf)
           IN  Section(v, s, json, Seen(json, conf))
<1> DEFINE json == display_tsn_conf(me, s, conf)
           c == [f \in Fields(s) |-> IF json[f] = Missing THEN Missing ELSE conf[f]]
<1>0. /\ conf \in Conf(s) /\ \A f \in Fields(s) : conf[f] \in Int
      /\ \A f \in Fields(s) \ Wide : conf[f] \in Word32
      /\ Word32 \subseteq Int /\ {-1, 0, 1} \subseteq Word32
      /\ Missing \in Int /\ Missing \notin Word32 /\ me.v3 \in BOOLEAN /\ me.csv \in BOOLEAN
  <2>1. Missing \in Int /\ Missing \notin Word32
    BY WordAssumption, SMT DEF Missing, Word32
  <2> QED
    BY <2>1, LowFacts DEF Held, Words, Conf, Process
<1> DEFINE Shown ==
             /\ Keys(s, json)
             /\ \A f \in Fields(s) :
                   \/ json[f] = Missing
                   \/ json[f] = IF f \in Flags THEN Bool(conf[f]) ELSE conf[f]
             /\ s = "qbv" => json["streams"] = Missing /\ json["reset"] # Missing
             /\ s = "qav" => json["queues"] = Missing
             /\ s = "qci" => v = 2 /\ json["rest"] # Missing
<1>1. ASSUME s = "qbv" PROVE Shown
  <2> DEFINE j1 == [conf EXCEPT !.streams = Missing]
             j2 == [j1 EXCEPT !.gate = IF me.csv THEN Missing ELSE @]
  <2>1. json = [conf EXCEPT !.streams = Missing, !.gate = IF me.csv THEN Missing ELSE @]
    BY <1>1 DEF display_tsn_conf, QbvJson
  <2>2. json = j2
    BY <2>1
  <2>3. j1 \in Conf(s) /\ j1["streams"] = Missing
        /\ \A f \in Fields(s) : f # "streams" => j1[f] = conf[f]
    BY <1>0, <1>1, FieldSets DEF Conf
  <2> HIDE DEF j1
  <2>4. j2 \in Conf(s) /\ j2["gate"] \in {Missing, j1["gate"]}
        /\ \A f \in Fields(s) : f # "gate" => j2[f] = j1[f]
    BY <1>0, <1>1, <2>3, FieldSets DEF Conf
  <2> HIDE DEF j2, json
  <2>5. /\ json \in Conf(s) /\ json["streams"] = Missing
        /\ json["gate"] \in {Missing, conf["gate"]}
        /\ \A f \in Fields(s) : f \notin {"streams", "gate"} => json[f] = conf[f]
    BY <1>1, <2>2, <2>3, <2>4, FieldSets
  <2>6. Keys(s, json)
    BY <1>0, <1>1, <2>5, FieldSets DEF Keys, Optional
  <2>7. json["reset"] # Missing
    BY <1>0, <1>1, <2>5, FieldSets DEF Wide
  <2> QED
    BY <1>1, <2>5, <2>6, <2>7, FieldSets DEF Flags
<1>2. ASSUME s = "qbu" PROVE Shown
  <2>1. json = [conf EXCEPT !.en = Bool(@)]
    BY <1>2 DEF display_tsn_conf, QbuJson
  <2> HIDE DEF json
  <2>2. json["en"] = Bool(conf["en"]) /\ json["size"] = conf["size"] /\ json \in Conf(s)
    BY <1>0, <1>2, <2>1, BoolFacts, FieldSets DEF Conf
  <2> QED
    BY <1>0, <1>2, <2>2, BoolFacts, FieldSets DEF Flags, Keys, Wide
<1>3. ASSUME s = "qci" /\ ~me.v3 PROVE Shown
  <2>1. json = conf /\ v = 2
    BY <1>3 DEF display_tsn_conf, QciJson
  <2> HIDE DEF json
  <2> QED
    BY <1>0, <1>3, <2>1, FieldSets DEF Flags, Keys, Wide
<1>4. ASSUME s = "qav" PROVE Shown
  <2>1. json = [conf EXCEPT !.queues = Missing]
    BY <1>4 DEF display_tsn_conf, QavJson
  <2> HIDE DEF json
  <2>2. json["queues"] = Missing /\ json["num"] = conf["num"] /\ json \in Conf(s)
    BY <1>0, <1>4, <2>1, FieldSets DEF Conf
  <2> QED
    BY <1>0, <1>4, <2>2, FieldSets DEF Flags, Keys, Wide, Optional
<1>5. ASSUME s = "rx" PROVE Shown
  <2>1. json = [conf EXCEPT !.check = Bool(@)]
    BY <1>5 DEF display_tsn_conf, RxJson
  <2> HIDE DEF json
  <2>2. json["check"] = Bool(conf["check"]) /\ json["id"] = conf["id"] /\ json \in Conf(s)
    BY <1>0, <1>5, <2>1, BoolFacts, FieldSets DEF Conf
  <2> QED
    BY <1>0, <1>5, <2>2, BoolFacts, FieldSets DEF Flags, Keys, Wide
<1>6. ASSUME s \in {"ptp", "ldb"} PROVE Shown
  <2>1. json = conf
    BY <1>6 DEF display_tsn_conf
  <2> HIDE DEF json
  <2> QED
    BY <1>0, <1>6, <2>1, FieldSets DEF Flags, Keys, Wide
<1>7. CASE s = "qci" /\ me.v3
  <2>1. json = NoSection
    BY <1>7 DEF display_tsn_conf, QciJson
  <2> QED
    BY <2>1 DEF Section, Seen
<1>8. ASSUME Shown PROVE Section(v, s, json, Seen(json, conf))
  <2> HIDE DEF json
  <2>1. \A f \in Fields(s) : c[f] = Missing \/ (c[f] = conf[f] /\ json[f] # Missing)
    OBVIOUS
  <2>2. \A f \in Fields(s) :
           c[f] = Missing \/ json[f] = IF f \in Flags THEN Bool(c[f]) ELSE c[f]
    BY <1>8, <2>1
  <2>3. c \in Conf(s) /\ \A f \in Fields(s) : json[f] = Missing => c[f] = Missing
    BY <1>0 DEF Conf
  <2>4. s = "qbv" => c["streams"] = Missing
    BY <1>8, <2>3, FieldSets
  <2>5. s = "qav" => c["queues"] = Missing
    BY <1>8, <2>3, FieldSets
  <2>6. s = "qbv" /\ v = 2 => c["reset"] = 0
    BY <1>8, FieldSets DEF Held, Fits
  <2>7. s = "qbv" /\ v = 2 => c["cycle"] \in Word32 \cup {Missing}
    BY FieldSets DEF Held, Fits
  <2>8. s = "qci" => v = 2 /\ c["rest"] = 0
    BY <1>8, FieldSets DEF Held, Fits
  <2>9. Copied(v, s, json, c)
    BY <2>2, <2>3, <2>4, <2>5, <2>6, <2>7, <2>8 DEF Copied
  <2>10. json = NoSection \/ Seen(json, conf) = c
    BY <1>8 DEF Seen, Keys, Conf
  <2> QED
    BY <1>8, <2>9, <2>10 DEF Section, Seen
<1>9. (s = "qci" /\ me.v3) \/ Shown
  BY <1>0, <1>1, <1>2, <1>3, <1>4, <1>5, <1>6 DEF Sections
<1> QED
  BY <1>7, <1>8, <1>9

-----------------------------------------------------------------------------
(* Recursion on numbers, without an operator of its own.                   *)
LEMMA Least ==
    ASSUME NEW T, T \subseteq Nat, T # {}
    PROVE  \E n \in T : \A m \in T : n <= m
<1>1. PICK n \in T : \A m \in T : <<m, n>> \notin OpToRel(<, Nat)
  BY WFMin, NatLessThanWellFounded, Zenon
<1>2. \A m \in T : n <= m
  <2>1. ASSUME NEW m \in T PROVE ~(m < n)
    BY <1>1, Zenon DEF OpToRel
  <2> QED
    BY <2>1
<1> QED
  BY <1>2

(* The first of an order that is among some, is among them.                *)
LEMMA FirstFacts ==
    ASSUME NEW order \in {GetOrder, ImportOrder}, NEW some, some \subseteq Sections, some # {}
    PROVE  First(order, some) \in some
<1> DEFINE D == DOMAIN order
           T == {i \in D : order[i] \in some}
<1>1. D = 1 .. 7 /\ \A s \in Sections : \E i \in D : order[i] = s
  <2>1. CASE order = GetOrder
    <3>1. D = 1 .. 7
      BY <2>1 DEF GetOrder
    <3>2. /\ order[1] = "qbv" /\ order[2] = "qbu" /\ order[3] = "qci" /\ order[4] = "ptp"
          /\ order[5] = "rx" /\ order[6] = "ldb" /\ order[7] = "qav"
      BY <2>1 DEF GetOrder
    <3> HIDE DEF D
    <3> QED
      BY <3>1, <3>2 DEF Sections
  <2>2. CASE order = ImportOrder
    <3>1. D = 1 .. 7
      BY <2>2 DEF ImportOrder
    <3>2. /\ order[1] = "qci" /\ order[2] = "qbu" /\ order[3] = "qbv" /\ order[4] = "qav"
          /\ order[5] = "rx" /\ order[6] = "ptp" /\ order[7] = "ldb"
      BY <2>2 DEF ImportOrder
    <3> HIDE DEF D
    <3> QED
      BY <3>1, <3>2 DEF Sections
  <2> QED
    BY <2>1, <2>2
<1> HIDE DEF D
<1>2. PICK n \in T : \A m \in T : n <= m
  <2>1. T \subseteq Nat /\ T # {}
    BY <1>1
  <2> QED
    BY <2>1, Least
<1>3. n \in D /\ order[n] \in some /\ \A j \in 1 .. (n - 1) : order[j] \notin some
  BY <1>1, <1>2
<1>4. First(order, some) \in some
  BY <1>3 DEF First, D
<1> QED
  BY <1>4

(* Division, as the carries do it.                                         *)
LEMMA Quotients ==
    ASSUME NEW N \in Nat \ {0}, NEW q \in Int, NEW r \in 0 .. N - 1,
           NEW q2 \in Int, NEW r2 \in 0 .. N - 1, q * N + r = q2 * N + r2
    PROVE  q = q2 /\ r = r2
<1>1. ASSUME NEW a \in Int, NEW b \in Int, a < b PROVE a * N + N <= b * N
  <2>1. b - a - 1 \in Nat
    BY <1>1, SMT
  <2>2. \A k \in Nat : k * N >= 0
    BY SMT
  <2>3. (b - a - 1) * N >= 0
    BY <2>1, <2>2
  <2>4. (b - a - 1) * N = b * N - (a * N + N)
    BY SMT
  <2> QED
    BY <2>3, <2>4, SMT
<1>2. q * N \in Int /\ q2 * N \in Int
  BY SMT
<1>3. ~(q < q2) /\ ~(q2 < q)
  BY <1>1, <1>2, SMT
<1> QED
  BY <1>2, <1>3, SMT

LEMMA Dividing ==
    ASSUME NEW N \in Nat \ {0}, NEW n \in Int
    PROVE  /\ n \div N \in Int /\ n % N \in 0 .. N - 1 /\ n = (n \div N) * N + (n % N)
           /\ (n - N) \div N = n \div N - 1 /\ (n - N) % N = n % N
           /\ n \in 0 .. N - 1 => n \div N = 0 /\ n % N = n
<1>1. ASSUME NEW m \in Int
      PROVE  m \div N \in Int /\ m % N \in 0 .. N - 1 /\ m = (m \div N) * N + (m % N)
  <2>1. m \div N \in Int
    BY SMT
  <2>2. m % N \in 0 .. N - 1
    BY SMT
  <2>3. m = (m \div N) * N + (m % N)
    BY SMT
  <2> QED
    BY <2>1, <2>2, <2>3
<1> DEFINE a  == n \div N
           ra == n % N
           b  == (n - N) \div N
           rb == (n - N) % N
<1>2. /\ N \in Int /\ a \in Int /\ b \in Int /\ ra \in 0 .. N - 1 /\ rb \in 0 .. N - 1
      /\ n = a * N + ra /\ n - N = b * N + rb
  <2>1. n - N \in Int /\ N \in Int
    OBVIOUS
  <2> QED
    BY <1>1, <2>1
<1> HIDE DEF a, b, ra, rb
<1>3. a - 1 \in Int /\ (a - 1) * N = a * N - N /\ a * N \in Int /\ b * N \in Int
  BY <1>2, SMT
<1>4. (a - 1) * N + ra = b * N + rb
  BY <1>2, <1>3, SMT
<1>5. a - 1 = b /\ ra = rb
  BY <1>2, <1>3, <1>4, Quotients
<1>55. b = a - 1 /\ rb = ra
  BY <1>5
<1> USE DEF a, b, ra, rb
<1>6. ASSUME n \in 0 .. N - 1 PROVE n \div N = 0 /\ n % N = n
  BY <1>1, <1>6, SMT
<1> QED
  BY <1>1, <1>55, <1>6

-----------------------------------------------------------------------------
(* The base time tool: carries and borrows.                                *)
Times == Int \X Int

LEMMA CarriedFacts ==
    \A t \in Times : carried[t] = IF t[2] >= NSEC_PER_SEC
                                  THEN carried[<<t[1] + 1, t[2] - NSEC_PER_SEC>>] ELSE t
<1> DEFINE N == NSEC_PER_SEC
           f == [t \in Times |-> IF t[2] >= N THEN <<t[1] + t[2] \div N, t[2] % N>> ELSE t]
           Eq(g) == g = [t \in Times |-> IF t[2] >= N THEN g[<<t[1] + 1, t[2] - N>>] ELSE t]
<1>0. N \in Nat \ {0}
  BY TimeAssumption
<1>1. ASSUME NEW t \in Times, t[2] >= N PROVE f[t] = f[<<t[1] + 1, t[2] - N>>]
  <2> DEFINE u == <<t[1] + 1, t[2] - N>>
  <2>1. u \in Times /\ t[1] \in Int /\ t[2] \in Int /\ u[1] = t[1] + 1 /\ u[2] = t[2] - N
    BY <1>0 DEF Times
  <2>2. f[t] = <<t[1] + t[2] \div N, t[2] % N>>
    BY <1>1
  <2>3. CASE u[2] >= N
    <3>1. f[u] = <<u[1] + u[2] \div N, u[2] % N>>
      BY <2>1, <2>3
    <3>2. u[2] \div N = t[2] \div N - 1 /\ u[2] % N = t[2] % N /\ t[2] \div N \in Int
      BY <1>0, <2>1, Dividing
    <3>3. u[1] + u[2] \div N = t[1] + t[2] \div N
      BY <2>1, <3>2
    <3> QED
      BY <2>2, <3>1, <3>2, <3>3
  <2>4. CASE ~(u[2] >= N)
    <3>1. f[u] = u
      BY <2>1, <2>4
    <3>2. t[2] - N \in 0 .. N - 1
      BY <1>0, <1>1, <2>1, <2>4
    <3>3. (t[2] - N) \div N = 0 /\ (t[2] - N) % N = t[2] - N
      <4> DEFINE k == t[2] - N
      <4>1. k \in 0 .. N - 1 /\ k \in Int
        BY <1>0, <3>2
      <4> HIDE DEF k
      <4>2. k \div N = 0 /\ k % N = k
        BY <1>0, <4>1, Dividing
      <4> QED
        BY <4>2 DEF k
    <3>4. t[2] \div N - 1 = 0 /\ t[2] % N = t[2] - N /\ t[2] \div N \in Int
      BY <1>0, <2>1, <3>3, Dividing
    <3> QED
      BY <2>1, <2>2, <3>1, <3>4
  <2> QED
    BY <2>3, <2>4
<1>2. Eq(f)
  <2>1. \A t \in Times : f[t] = IF t[2] >= N THEN f[<<t[1] + 1, t[2] - N>>] ELSE t
    BY <1>1
  <2>2. f = [t \in Times |-> f[t]]
    OBVIOUS
  <2> HIDE DEF f
  <2> QED
    BY <2>1, <2>2, Zenon
<1> HIDE DEF f
<1>3. carried = CHOOSE g : Eq(g)
  BY DEF carried, Times
<1>4. Eq(carried)
  BY <1>2, <1>3
<1> QED
  BY <1>4

LEMMA CarryMeaning ==
    ASSUME NEW t \in Times
    PROVE  /\ carried[t] \in Times /\ Nanoseconds(carried[t]) = Nanoseconds(t)
           /\ carried[t][2] < NSEC_PER_SEC
           /\ IF t[2] < NSEC_PER_SEC THEN carried[t] = t ELSE carried[t][2] >= 0
<1> DEFINE N == NSEC_PER_SEC
           P(x) == /\ carried[x] \in Times /\ Nanoseconds(carried[x]) = Nanoseconds(x)
                   /\ carried[x][2] < N
                   /\ IF x[2] < N THEN carried[x] = x ELSE carried[x][2] >= 0
           T == {k \in Nat : \E x \in Times : x[2] <= k /\ ~P(x)}
<1>0. N \in Nat \ {0}
  BY TimeAssumption
<1>1. ASSUME T # {} PROVE FALSE
  <2>1. T \subseteq Nat
    OBVIOUS
  <2>2. PICK k \in T : \A m \in T : k <= m
    BY <1>1, <2>1, Least
  <2>3. PICK x \in Times : x[2] <= k /\ ~P(x)
    BY <2>2
  <2>4. x[1] \in Int /\ x[2] \in Int /\ k \in Nat
    BY <2>2 DEF Times
  <2>5. CASE x[2] < N
    <3>0. ~(x[2] >= N)
      BY <1>0, <2>4, <2>5
    <3>1. carried[x] = x
      BY <3>0, CarriedFacts
    <3> QED
      BY <2>3, <2>5, <3>1
  <2>6. CASE x[2] >= N
    <3> DEFINE u == <<x[1] + 1, x[2] - N>>
    <3>1. u \in Times /\ u[1] = x[1] + 1 /\ u[2] = x[2] - N /\ u[2] >= 0
      BY <1>0, <2>4, <2>6 DEF Times
    <3>2. carried[x] = carried[u]
      BY <2>6, CarriedFacts
    <3>3. Nanoseconds(u) = Nanoseconds(x)
      <4>1. (x[1] + 1) * N + (x[2] - N) = x[1] * N + x[2]
        BY <1>0, <2>4, SMT
      <4> QED
        BY <3>1, <4>1 DEF Nanoseconds
    <3> HIDE DEF u
    <3>4. P(u)
      <4>1. k - N \in Nat /\ u[2] <= k - N /\ ~(k <= k - N)
        BY <1>0, <2>3, <2>4, <2>6, <3>1
      <4>2. k - N \notin T
        BY <2>2, <4>1
      <4> QED
        BY <3>1, <4>1, <4>2
    <3>5. carried[x][2] >= 0
      BY <3>1, <3>2, <3>4
    <3>6. ~(x[2] < N)
      BY <1>0, <2>4, <2>6
    <3> QED
      BY <2>3, <3>2, <3>3, <3>4, <3>5, <3>6
  <2> QED
    BY <1>0, <2>4, <2>5, <2>6
<1>2. P(t)
  <2>1. t[2] \in Int
    BY DEF Times
  <2>2. \E k \in Nat : t[2] <= k
    <3>1. CASE t[2] >= 0
      BY <2>1, <3>1
    <3>2. CASE t[2] < 0
      BY <2>1, <3>2
    <3> QED
      BY <2>1, <3>1, <3>2
  <2>3. ~P(t) => T # {}
    BY <2>2
  <2> HIDE DEF P, T
  <2> QED
    BY <1>1, <2>3
<1> QED
  BY <1>2

LEMMA BorrowedFacts ==
    \A t \in Times : borrowed[t] = IF t[2] <= -NSEC_PER_SEC
                                   THEN borrowed[<<t[1] - 1, t[2] + NSEC_PER_SEC>>] ELSE t
<1> DEFINE N == NSEC_PER_SEC
           mirror(t) == <<-t[1], -t[2]>>
           f == [t \in Times |-> mirror(carried[mirror(t)])]
           Eq(g) == g = [t \in Times |-> IF t[2] <= -N THEN g[<<t[1] - 1, t[2] + N>>] ELSE t]
<1>0. N \in Nat \ {0}
  BY TimeAssumption
<1>1. \A t \in Times : /\ t[1] \in Int /\ t[2] \in Int /\ t = <<t[1], t[2]>>
                       /\ mirror(t) \in Times
                       /\ mirror(t)[1] = -t[1] /\ mirror(t)[2] = -t[2]
  BY DEF Times
<1>2. ASSUME NEW t \in Times, t[2] <= -N PROVE f[t] = f[<<t[1] - 1, t[2] + N>>]
  <2> DEFINE u == <<t[1] - 1, t[2] + N>>
             w == mirror(t)
  <2>1. u \in Times
    BY <1>0, <1>1 DEF Times
  <2>2. mirror(u) = <<(-t[1]) + 1, (-t[2]) - N>>
    <3>1. u[1] = t[1] - 1 /\ u[2] = t[2] + N /\ t[1] \in Int /\ t[2] \in Int
      BY <1>1
    <3>2. -u[1] = (-t[1]) + 1 /\ -u[2] = (-t[2]) - N
      BY <1>0, <3>1
    <3> QED
      BY <3>2
  <2>3. w \in Times /\ w[1] = -t[1] /\ w[2] = -t[2] /\ w[2] >= N
    BY <1>0, <1>1, <1>2
  <2>4. carried[w] = carried[<<w[1] + 1, w[2] - N>>]
    BY <2>3, CarriedFacts
  <2>5. carried[w] = carried[mirror(u)]
    BY <2>2, <2>3, <2>4
  <2> QED
    BY <2>1, <2>5
<1>3. ASSUME NEW t \in Times, ~(t[2] <= -N) PROVE f[t] = t
  <2> DEFINE w == mirror(t)
  <2>1. w \in Times /\ w[1] = -t[1] /\ w[2] = -t[2] /\ ~(w[2] >= N)
    BY <1>0, <1>1, <1>3
  <2>2. carried[w] = w
    BY <2>1, CarriedFacts
  <2>3. f[t] = mirror(w)
    BY <2>2
  <2>4. mirror(w) = <<t[1], t[2]>>
    BY <1>1, <2>1
  <2> QED
    BY <1>1, <2>3, <2>4
<1>4. Eq(f)
  <2>1. \A t \in Times : f[t] = IF t[2] <= -N THEN f[<<t[1] - 1, t[2] + N>>] ELSE t
    BY <1>2, <1>3
  <2>2. f = [t \in Times |-> f[t]]
    OBVIOUS
  <2> HIDE DEF f
  <2> QED
    BY <2>1, <2>2, Zenon
<1> HIDE DEF f
<1>5. borrowed = CHOOSE g : Eq(g)
  BY DEF borrowed, Times
<1>6. Eq(borrowed)
  BY <1>4, <1>5
<1> QED
  BY <1>6

LEMMA BorrowMeaning ==
    ASSUME NEW t \in Times, t[2] < NSEC_PER_SEC
    PROVE  /\ borrowed[t] \in Times /\ Nanoseconds(borrowed[t]) = Nanoseconds(t)
           /\ -NSEC_PER_SEC < borrowed[t][2] /\ borrowed[t][2] < NSEC_PER_SEC
<1> DEFINE N == NSEC_PER_SEC
           P(x) == /\ borrowed[x] \in Times /\ Nanoseconds(borrowed[x]) = Nanoseconds(x)
                   /\ -N < borrowed[x][2] /\ borrowed[x][2] < N
           T == {k \in Nat : \E x \in Times : x[2] < N /\ -x[2] <= k /\ ~P(x)}
<1>0. N \in Nat \ {0}
  BY TimeAssumption
<1>1. ASSUME T # {} PROVE FALSE
  <2>1. T \subseteq Nat
    OBVIOUS
  <2>2. PICK k \in T : \A m \in T : k <= m
    BY <1>1, <2>1, Least
  <2>3. PICK x \in Times : x[2] < N /\ -x[2] <= k /\ ~P(x)
    BY <2>2
  <2>4. x[1] \in Int /\ x[2] \in Int /\ k \in Nat
    BY <2>2 DEF Times
  <2>5. CASE ~(x[2] <= -N)
    <3>1. borrowed[x] = x
      BY <2>5, BorrowedFacts
    <3>2. -N < x[2]
      BY <1>0, <2>4, <2>5
    <3> QED
      BY <2>3, <3>1, <3>2
  <2>6. CASE x[2] <= -N
    <3> DEFINE u == <<x[1] - 1, x[2] + N>>
    <3>1. u \in Times /\ u[1] = x[1] - 1 /\ u[2] = x[2] + N /\ u[2] < N
      BY <1>0, <2>4, <2>6 DEF Times
    <3>2. borrowed[x] = borrowed[u]
      BY <2>6, BorrowedFacts
    <3>3. Nanoseconds(u) = Nanoseconds(x)
      <4>1. (x[1] - 1) * N + (x[2] + N) = x[1] * N + x[2]
        BY <1>0, <2>4, SMT
      <4> QED
        BY <3>1, <4>1 DEF Nanoseconds
    <3> HIDE DEF u
    <3>4. P(u)
      <4>1. k - N \in Nat /\ -u[2] <= k - N /\ ~(k <= k - N)
        BY <1>0, <2>3, <2>4, <2>6, <3>1
      <4>2. k - N \notin T
        BY <2>2, <4>1
      <4> QED
        BY <3>1, <4>1, <4>2
    <3> QED
      BY <2>3, <3>2, <3>3, <3>4
  <2> QED
    BY <2>5, <2>6
<1>2. P(t)
  <2>1. t[2] \in Int
    BY DEF Times
  <2>2. \E k \in Nat : -t[2] <= k
    <3>1. CASE -t[2] >= 0
      BY <2>1, <3>1
    <3>2. CASE -t[2] < 0
      BY <2>1, <3>2
    <3> QED
      BY <2>1, <3>1, <3>2
  <2>3. ~P(t) => T # {}
    BY <2>2
  <2> HIDE DEF P, T
  <2> QED
    BY <1>1, <2>3
<1> QED
  BY <1>2

(* A normalised time is the same time, within the second.                  *)
LEMMA NormaliseFacts ==
    ASSUME NEW ts \in Times
    PROVE  /\ timespec_normalise(ts) \in Times
           /\ timespec_normalise(ts)[2] \in 0 .. (NSEC_PER_SEC - 1)
           /\ Nanoseconds(timespec_normalise(ts)) = Nanoseconds(ts)
<1> DEFINE N == NSEC_PER_SEC
           n == borrowed[carried[ts]]
           x == timespec_normalise(ts)
<1>0. N \in Nat \ {0}
  BY TimeAssumption
<1>1. n \in Times /\ Nanoseconds(n) = Nanoseconds(ts) /\ -N < n[2] /\ n[2] < N
  BY CarryMeaning, BorrowMeaning
<1>2. x = IF n[2] < 0 THEN <<n[1] - 1, N + n[2]>> ELSE n
  BY DEF timespec_normalise
<1> HIDE DEF n, x
<1>3. n[1] \in Int /\ n[2] \in Int
  BY <1>1 DEF Times
<1>4. CASE n[2] < 0
  <2>1. x \in Times /\ x[1] = n[1] - 1 /\ x[2] = N + n[2]
    BY <1>0, <1>2, <1>3, <1>4 DEF Times
  <2>2. (n[1] - 1) * N + (N + n[2]) = n[1] * N + n[2]
    BY <1>0, <1>3, SMT
  <2>3. Nanoseconds(x) = Nanoseconds(n)
    BY <2>1, <2>2 DEF Nanoseconds
  <2>4. x[2] \in 0 .. (N - 1)
    BY <1>0, <1>1, <1>3, <1>4, <2>1
  <2> QED
    BY <1>1, <2>1, <2>3, <2>4 DEF x
<1>5. CASE ~(n[2] < 0)
  <2>1. x = n
    BY <1>2, <1>5
  <2>2. n[2] \in 0 .. (N - 1)
    BY <1>0, <1>1, <1>3, <1>5
  <2> QED
    BY <1>1, <2>1, <2>2 DEF x
<1> QED
  BY <1>4, <1>5

(* A sum of times is a time, and the sum; rounded, the next second.        *)
LEMMA AddFacts ==
    ASSUME NEW a \in Times, NEW b \in Times
    PROVE  /\ timespec_add(a, b) \in Times
           /\ timespec_add(a, b)[2] \in 0 .. (NSEC_PER_SEC - 1)
           /\ Nanoseconds(timespec_add(a, b)) = Nanoseconds(a) + Nanoseconds(b)
<1> DEFINE x == timespec_normalise(a)
           y == timespec_normalise(b)
           z == <<x[1] + y[1], x[2] + y[2]>>
<1>0. NSEC_PER_SEC \in Int
  BY TimeAssumption
<1>1. x \in Times /\ y \in Times
      /\ Nanoseconds(x) = Nanoseconds(a) /\ Nanoseconds(y) = Nanoseconds(b)
  BY NormaliseFacts
<1>2. timespec_add(a, b) = timespec_normalise(z)
  BY DEF timespec_add
<1> HIDE DEF x, y
<1>3. x[1] \in Int /\ x[2] \in Int /\ y[1] \in Int /\ y[2] \in Int
  BY <1>1 DEF Times
<1>4. z \in Times /\ z[1] = x[1] + y[1] /\ z[2] = x[2] + y[2]
  BY <1>3 DEF Times
<1>5. (x[1] + y[1]) * NSEC_PER_SEC + (x[2] + y[2])
          = (x[1] * NSEC_PER_SEC + x[2]) + (y[1] * NSEC_PER_SEC + y[2])
  BY <1>0, <1>3, SMT
<1>6. Nanoseconds(z) = Nanoseconds(x) + Nanoseconds(y)
  BY <1>4, <1>5 DEF Nanoseconds
<1> HIDE DEF z
<1> QED
  BY <1>1, <1>2, <1>4, <1>6, NormaliseFacts

LEMMA RoundFacts ==
    ASSUME NEW ts \in Times, ts[2] \in 0 .. (NSEC_PER_SEC - 1)
    PROVE  /\ RoundedUp(ts) \in Times /\ RoundedUp(ts)[2] = 0
           /\ Nanoseconds(RoundedUp(ts)) - Nanoseconds(ts) \in 0 .. (NSEC_PER_SEC - 1)
<1> DEFINE N == NSEC_PER_SEC
           x == RoundedUp(ts)
<1>0. N \in Nat \ {0} /\ ts[1] \in Int /\ ts[2] \in Int
  BY TimeAssumption DEF Times
<1>1. Nanoseconds(ts) \in Int
  BY <1>0, SMT DEF Nanoseconds
<1>2. CASE ts[2] = 0
  <2>1. x = ts
    BY <1>2 DEF RoundedUp
  <2>2. Nanoseconds(ts) - Nanoseconds(ts) = 0
    BY <1>1
  <2> QED
    BY <1>0, <1>2, <2>1, <2>2
<1>3. CASE ts[2] # 0
  <2>1. x \in Times /\ x[1] = ts[1] + 1 /\ x[2] = 0
    BY <1>0, <1>3 DEF RoundedUp, Times
  <2>2. ((ts[1] + 1) * N + 0) - (ts[1] * N + ts[2]) = N - ts[2]
    BY <1>0, SMT
  <2>3. Nanoseconds(x) - Nanoseconds(ts) = N - ts[2]
    BY <2>1, <2>2 DEF Nanoseconds
  <2>4. N - ts[2] \in 0 .. (N - 1)
    BY <1>0, <1>3
  <2> QED
    BY <2>1, <2>3, <2>4
<1> QED
  BY <1>2, <1>3

-----------------------------------------------------------------------------
(* The memory of a process, one field at a time.                           *)
LEMMA Updates ==
    ASSUME NEW r \in Process
    PROVE  /\ \A x \in Places : [r EXCEPT !.pc = x] \in Process
           /\ \A x \in Sections : [r EXCEPT !.s = x] \in Process
           /\ \A x \in SUBSET Sections : [r EXCEPT !.todo = x] \in Process
           /\ \A x \in BOOLEAN : [r EXCEPT !.v3 = x] \in Process
           /\ \A x \in BOOLEAN : [r EXCEPT !.edit = x] \in Process
           /\ \A x \in BOOLEAN : [r EXCEPT !.csv = x] \in Process
           /\ \A x \in Row : [r EXCEPT !.conf = x] \in Process
           /\ \A x \in Row : [r EXCEPT !.base = x] \in Process
           /\ \A x \in BOOLEAN : [r EXCEPT !.got = x] \in Process
           /\ \A x \in SUBSET Names : [r EXCEPT !.typed = x] \in Process
           /\ \A x \in [json : Table, from : Table] : [r EXCEPT !.text = x] \in Process
BY DEF Process

LEMMA WordsRow == ASSUME NEW s \in Sections, NEW c, Words(s, c) PROVE c \in Row
BY DEF Words, Row

LEMMA FieldNames == \A s \in Sections : Fields(s) \subseteq Names
BY DEF Names

LEMMA IdleFacts ==
    ASSUME NEW v \in {2, 3}
    PROVE  Idle \in Process /\ ProcInv(v, Idle)
<1>0. Empty \in [json : Table, from : Table]
  BY EmptyText
<1>1. Idle \in Process
  <2>1. "ldb" \in Sections
    BY DEF Sections
  <2>2. {} \in SUBSET Sections /\ {} \in SUBSET Names
    OBVIOUS
  <2> QED
    BY <1>0, <2>1, <2>2, NoSectionRow DEF Idle, Process, Places
<1> QED
  BY <1>1, EmptyText DEF Idle, ProcInv

(* The file an export leaves.                                              *)
LEMMA ExportText ==
    ASSUME NEW v \in {2, 3}, NEW me \in Process, NEW s \in Sections, NEW conf,
           Held(v, s, conf), s = "qci" => me.v3 \/ v = 2
    PROVE  Text(v, ExportOf(me, s, conf))
<1> DEFINE json == display_tsn_conf(me, s, conf)
           c == Seen(json, conf)
<1>1. ExportOf(me, s, conf) = [Empty EXCEPT !.json[s] = json, !.from[s] = c]
  BY DEF ExportOf, Seen
<1>2. Section(v, s, json, c)
  BY ExportFacts
<1> HIDE DEF json, c
<1>3. json \in Row /\ c \in Row
  BY <1>2, NoSectionRow DEF Section, Keys, Copied, Row
<1> DEFINE t1 == [Empty EXCEPT !.json[s] = json]
           t2 == [t1 EXCEPT !.from[s] = c]
<1>4. ExportOf(me, s, conf) = t2
  BY <1>1
<1>5. Empty \in [json : Table, from : Table]
      /\ \A x \in Sections : Empty.json[x] = NoSection /\ Empty.from[x] = NoSection
  BY EmptyText DEF Empty
<1>6. /\ t1 \in [json : Table, from : Table] /\ t1.from = Empty.from
      /\ \A x \in Sections : t1.json[x] = IF x = s THEN json ELSE Empty.json[x]
  BY <1>3, <1>5 DEF Table
<1> HIDE DEF t1
<1>7. /\ t2 \in [json : Table, from : Table] /\ t2.json = t1.json
      /\ \A x \in Sections : t2.from[x] = IF x = s THEN c ELSE t1.from[x]
  BY <1>3, <1>6 DEF Table
<1> HIDE DEF t2
<1>8. \A x \in Sections : Section(v, x, t2.json[x], t2.from[x])
  BY <1>2, <1>5, <1>6, <1>7 DEF Section
<1> QED
  BY <1>4, <1>7, <1>8 DEF Text

LEMMA InitInv == Init => Inv
<1> SUFFICES ASSUME Init PROVE Inv
  OBVIOUS
<1>0. ver \in {2, 3} /\ log.by = "none"
  BY DEF Init, NoLog
<1>1. CountInv
  BY BoundAssumption DEF Init, CountInv
<1>2. DriverInv
  BY <1>0, ConfiguredFacts DEF Init, DriverInv
<1>3. Text(ver, file)
  <2>1. CASE file \in {Empty, Written}
    BY <1>0, <2>1, EmptyText, WrittenText
  <2>2. CASE file \in ExportedBefore
    <3> DEFINE me == [Idle EXCEPT !.v3 = ver = 3]
    <3>1. PICK s \in Earlier : file = ExportOf(me, s, Configured(ver)[s])
      BY <2>2 DEF ExportedBefore
    <3>2. s \in Sections
      BY <3>1, EarlierAssumption DEF Sections
    <3>3. Idle \in Process
      BY <1>0, IdleFacts
    <3>4. me \in Process /\ (me.v3 <=> ver = 3)
      BY <3>3 DEF Process
    <3>5. Held(ver, s, Configured(ver)[s])
      BY <1>0, <3>2, ConfiguredFacts
    <3> HIDE DEF me
    <3> QED
      BY <1>0, <3>1, <3>2, <3>4, <3>5, ExportText
  <2> QED
    BY <2>1, <2>2 DEF Init
<1>4. ProcsInv
  BY <1>0, IdleFacts DEF Init, ProcsInv
<1>5. LogInv
  BY <1>0 DEF LogInv, Restores, EditKeeps, BaseTimeRight, NothingDropped
<1> QED
  BY <1>1, <1>2, <1>3, <1>4, <1>5 DEF Inv

(* A process goes on as r, and r is as it should be.                       *)
LEMMA GoFacts ==
    ASSUME ProcsInv, NEW p \in Procs, NEW r, ProcInv(ver, r), Go(p, r), UNCHANGED ver
    PROVE  ProcsInv'
BY DEF ProcsInv, ProcInv, Go

LEMMA SameLog == ASSUME LogInv, UNCHANGED <<ver, log>> PROVE LogInv'
BY DEF LogInv, Restores, EditKeeps, BaseTimeRight, NothingDropped

LEMMA SameDriver == ASSUME DriverInv, UNCHANGED <<ver, driver>> PROVE DriverInv'
BY DEF DriverInv

LEMMA SameFile ==
    ASSUME Text(ver, file), UNCHANGED ver, UNCHANGED file PROVE Text(ver, file)'
<1>1. Text(ver', file')
  BY Zenon
<1> QED
  BY <1>1, Zenon

(* A step that touches only the memory of a process.                       *)
LEMMA Quiet ==
    ASSUME Inv, NEW p \in Procs, NEW r, ProcInv(ver, r), Go(p, r),
           UNCHANGED <<ver, driver, file, log>>, commands' \in 0 .. MaxCommands
    PROVE  Inv'
<1>1. CountInv'
  BY DEF Inv, CountInv
<1>2. DriverInv' /\ LogInv' /\ Text(ver, file)'
  BY SameDriver, SameLog, SameFile DEF Inv
<1>3. ProcsInv'
  BY GoFacts DEF Inv
<1> QED
  BY <1>1, <1>2, <1>3 DEF Inv

(* A section is changed by a request, and what is logged of it.            *)
Logged(me, s, conf, by, from) ==
    \E value \in Set(me, s, conf) :
       log' = [by |-> by, s |-> s, asked |-> conf, value |-> value, before |-> driver[s],
               base |-> me.base, got |-> me.got, typed |-> me.typed, from |-> from]

LEMMA RequestFacts ==
    ASSUME CountInv, DriverInv, NEW me \in Process, NEW s \in Sections, NEW conf,
           Words(s, conf), NEW by, NEW from, Request(me, s, conf, by, from), UNCHANGED ver
    PROVE  DriverInv' /\ (UNCHANGED log \/ Logged(me, s, conf, by, from))
<1>1. CASE UNCHANGED <<driver, log>>
  BY <1>1, SameDriver
<1>2. CASE ~UNCHANGED <<driver, log>>
  <2>1. PICK value \in Set(me, s, conf) :
          /\ driver' = [driver EXCEPT ![s] = value]
          /\ log' = [by |-> by, s |-> s, asked |-> conf, value |-> value, before |-> driver[s],
                     base |-> me.base, got |-> me.got, typed |-> me.typed,
                     from |-> from]
    BY <1>2 DEF Request
  <2>2. Held(ver, s, value)
    BY SetFacts
  <2>3. value \in Row
    BY <2>2, WordsRow DEF Held
  <2>4. driver' \in Table
    BY <2>1, <2>3 DEF DriverInv, Table
  <2>5. \A t \in Sections : driver'[t] = IF t = s THEN value ELSE driver[t]
    BY <2>1 DEF DriverInv, Table
  <2>6. \A t \in Sections : Held(ver, t, driver'[t])
    BY <2>2, <2>5 DEF DriverInv
  <2> QED
    BY <2>1, <2>4, <2>6 DEF DriverInv, Logged
<1> QED
  BY <1>1, <1>2

-----------------------------------------------------------------------------
(* A command starts.                                                       *)
LEMMA StartFacts ==
    ASSUME Inv, NEW p \in Procs, NEW what, Start(p, what),
           \A v3 \in BOOLEAN : ProcInv(ver, [what EXCEPT !.v3 = v3])
    PROVE  Inv'
<1>1. commands' \in 0 .. MaxCommands
  BY BoundAssumption DEF Start, Inv, CountInv
<1>2. PICK v3 \in Detected : Go(p, [what EXCEPT !.v3 = v3])
  BY DEF Start
<1>3. v3 \in BOOLEAN
  BY <1>2 DEF Detected
<1>4. ProcInv(ver, [what EXCEPT !.v3 = v3])
  BY <1>3
<1> QED
  BY <1>1, <1>2, <1>4, Quiet DEF Start

LEMMA StartSetStep ==
    ASSUME Inv, NEW p \in Procs, NEW s \in Sections, NEW edit \in BOOLEAN, StartSet(p, s, edit)
    PROVE  Inv'
<1> DEFINE pc   == IF edit THEN "get" ELSE "input"
           what == [Idle EXCEPT !.pc = pc, !.s = s, !.edit = edit, !.conf = All(s, Junk)]
<1>0. ver \in {2, 3} /\ s # "qav" /\ Start(p, what)
  BY DEF Inv, CountInv, StartSet
<1>1. ASSUME NEW v3 \in BOOLEAN PROVE ProcInv(ver, [what EXCEPT !.v3 = v3])
  <2> DEFINE r1 == [Idle EXCEPT !.pc = pc]
             r2 == [r1 EXCEPT !.s = s]
             r3 == [r2 EXCEPT !.edit = edit]
             r4 == [r3 EXCEPT !.conf = All(s, Junk)]
             r  == [what EXCEPT !.v3 = v3]
  <2>1. Words(s, All(s, Junk)) /\ All(s, Junk) \in Row /\ pc \in Places
    BY Filled, WordsRow DEF Junk, Places
  <2>2. Idle \in Process /\ Text(ver, Empty)
    BY <1>0, IdleFacts, EmptyText
  <2>3. r1 \in Process
    BY <2>1, <2>2, Updates
  <2>4. what = r4
    OBVIOUS
  <2> HIDE DEF r1
  <2>5. r2 \in Process
    BY <2>3, Updates
  <2> HIDE DEF r2
  <2>6. r3 \in Process
    BY <2>5, Updates
  <2> HIDE DEF r3
  <2>7. r4 \in Process
    BY <2>1, <2>6, Updates
  <2>8. r \in Process
    BY <2>4, <2>7, Updates
  <2>9. /\ r.pc = pc /\ r.s = s /\ r.conf = All(s, Junk) /\ ~r.got
        /\ r.text = Empty
    BY DEF Idle
  <2>10. pc \in {"get", "input"}
    OBVIOUS
  <2> HIDE DEF r, pc
  <2>11. ProcInv(ver, r)
    BY <1>0, <2>1, <2>2, <2>8, <2>9, <2>10 DEF ProcInv
  <2> QED
    BY <2>11, Zenon DEF r, pc
<1> QED
  BY <1>0, <1>1, StartFacts

LEMMA StartExportStep ==
    ASSUME Inv, NEW p \in Procs, NEW s \in Sections, NEW t \in Sections, NEW csv \in BOOLEAN,
           StartExport(p, {s, t}, csv)
    PROVE  Inv'
<1> DEFINE what == [Idle EXCEPT !.pc = "export", !.todo = {s, t}, !.csv = csv]
<1>0. ver \in {2, 3} /\ Start(p, what)
  BY DEF Inv, CountInv, StartExport
<1>1. ASSUME NEW v3 \in BOOLEAN PROVE ProcInv(ver, [what EXCEPT !.v3 = v3])
  <2> DEFINE r1 == [Idle EXCEPT !.pc = "export"]
             r2 == [r1 EXCEPT !.todo = {s, t}]
             r3 == [r2 EXCEPT !.csv = csv]
             r  == [what EXCEPT !.v3 = v3]
  <2>1. {s, t} \in SUBSET Sections /\ "export" \in Places
    BY DEF Places
  <2>2. Idle \in Process /\ Text(ver, Empty)
    BY <1>0, IdleFacts, EmptyText
  <2>3. r1 \in Process
    BY <2>1, <2>2, Updates
  <2>4. what = r3
    OBVIOUS
  <2> HIDE DEF r1
  <2>5. r2 \in Process
    BY <2>1, <2>3, Updates
  <2> HIDE DEF r2
  <2>6. r3 \in Process
    BY <2>5, Updates
  <2>7. r \in Process
    BY <2>4, <2>6, Updates
  <2>8. r.pc = "export" /\ r.todo = {s, t} /\ r.text = Empty
    BY DEF Idle
  <2> HIDE DEF r
  <2>9. ProcInv(ver, r)
    BY <2>2, <2>7, <2>8 DEF ProcInv
  <2> QED
    BY <2>9, Zenon DEF r
<1> QED
  BY <1>0, <1>1, StartFacts

(* The commands that start with nothing in memory.                         *)
LEMMA StartPlain ==
    ASSUME Inv, NEW p \in Procs, NEW pc \in {"read", "stamp"},
           Start(p, [Idle EXCEPT !.pc = pc])
    PROVE  Inv'
<1> DEFINE what == [Idle EXCEPT !.pc = pc]
<1>0. ver \in {2, 3}
  BY DEF Inv, CountInv
<1>1. ASSUME NEW v3 \in BOOLEAN PROVE ProcInv(ver, [what EXCEPT !.v3 = v3])
  <2> DEFINE r == [what EXCEPT !.v3 = v3]
  <2>1. Idle \in Process /\ Text(ver, Empty) /\ pc \in Places
    BY <1>0, IdleFacts, EmptyText DEF Places
  <2>2. what \in Process
    BY <2>1, Updates
  <2>3. r.pc = pc /\ r.text = Empty
    BY DEF Idle
  <2> HIDE DEF what
  <2>4. r \in Process
    BY <2>2, Updates
  <2> HIDE DEF r
  <2>5. ProcInv(ver, r)
    BY <2>1, <2>3, <2>4 DEF ProcInv
  <2> QED
    BY <2>5, Zenon DEF r, what
<1> QED
  BY <1>1, StartFacts

LEMMA PlainSteps ==
    ASSUME Inv, NEW p \in Procs, GetAll(p) \/ StartImport(p) \/ StartStamp(p)
    PROVE  Inv'
<1>1. CASE GetAll(p)
  <2>1. Idle \in Process /\ Text(ver, Empty)
    BY IdleFacts, EmptyText DEF Inv, CountInv
  <2>2. ASSUME NEW v3 \in BOOLEAN PROVE ProcInv(ver, [Idle EXCEPT !.v3 = v3])
    <3> DEFINE r == [Idle EXCEPT !.v3 = v3]
    <3>1. r \in Process
      BY <2>1, Updates
    <3>2. r.pc = "idle" /\ r.text = Empty
      BY DEF Idle
    <3> HIDE DEF r
    <3>3. ProcInv(ver, r)
      BY <2>1, <3>1, <3>2 DEF ProcInv
    <3> QED
      BY <3>3, Zenon DEF r
  <2> QED
    BY <1>1, <2>2, StartFacts DEF GetAll
<1>2. CASE StartImport(p)
  BY <1>2, StartPlain DEF StartImport
<1>3. CASE StartStamp(p)
  BY <1>3, StartPlain DEF StartStamp
<1> QED
  BY <1>1, <1>2, <1>3

-----------------------------------------------------------------------------
(* --set.                                                                  *)
LEMMA EditGetStep == ASSUME Inv, NEW p \in Procs, EditGet(p) PROVE Inv'
<1> DEFINE me == proc[p]
<1>0. me.pc = "get" /\ ProcInv(ver, me) /\ me \in Process /\ CountInv /\ DriverInv
  BY DEF EditGet, Inv, ProcsInv, ProcInv
<1>1. PICK g \in Get(me, me.s, me.conf) :
        Go(p, [me EXCEPT !.pc = "input", !.got = g[1], !.conf = g[2], !.base = g[2]])
  BY DEF EditGet
<1> DEFINE r1 == [me EXCEPT !.pc = "input"]
           r2 == [r1 EXCEPT !.got = g[1]]
           r3 == [r2 EXCEPT !.conf = g[2]]
           r4 == [r3 EXCEPT !.base = g[2]]
           r  == [me EXCEPT !.pc = "input", !.got = g[1], !.conf = g[2], !.base = g[2]]
<1>2. /\ me.s \in Sections /\ me.s # "qav" /\ Words(me.s, me.conf) /\ Text(ver, me.text)
      /\ "input" \in Places
  BY <1>0 DEF ProcInv, Process, Places
<1> HIDE DEF me
<1>3. g[1] \in BOOLEAN /\ Words(me.s, g[2]) /\ (g[1] => g[2] = driver[me.s])
  BY <1>0, <1>1, <1>2, GetFacts
<1>4. g[2] \in Row /\ Held(ver, me.s, driver[me.s])
  BY <1>0, <1>2, <1>3, WordsRow DEF DriverInv
<1>5. r1 \in Process
  BY <1>0, <1>2, Updates
<1>6. r = r4
  OBVIOUS
<1>7. /\ r.pc = "input" /\ r.s = me.s /\ r.got = g[1] /\ r.conf = g[2] /\ r.base = g[2]
      /\ r.text = me.text
  BY <1>0 DEF Process
<1> HIDE DEF r1
<1>8. r2 \in Process
  BY <1>3, <1>5, Updates
<1> HIDE DEF r2
<1>9. r3 \in Process
  BY <1>4, <1>8, Updates
<1> HIDE DEF r3
<1>10. r \in Process
  BY <1>4, <1>6, <1>9, Updates
<1>11. Go(p, r)
  BY <1>1
<1> HIDE DEF r
<1>12. ProcInv(ver, r)
  BY <1>2, <1>3, <1>4, <1>7, <1>10 DEF ProcInv, Read
<1> QED
  BY <1>11, <1>12, Quiet DEF EditGet, Inv, CountInv

LEMMA InputStep == ASSUME Inv, NEW p \in Procs, Input(p) PROVE Inv'
<1> DEFINE me == proc[p]
<1>0. me.pc = "input" /\ ProcInv(ver, me) /\ me \in Process
  BY DEF Input, Inv, ProcsInv, ProcInv
<1>1. PICK typed \in SUBSET Fields(me.s), n \in {0, 1}, grow \in BOOLEAN :
        LET conf == input_tsn_conf(me.s, typed, me.conf, n)
        IN  /\ grow => me.s = "qbv" /\ me.edit /\ typed = {} /\ me.conf["list"] = 0
            /\ Go(p, [me EXCEPT !.pc = "set", !.typed = IF grow THEN {"list"} ELSE typed,
                                !.conf = IF grow THEN [conf EXCEPT !.list = Junk] ELSE conf])
  BY DEF Input, Answers
<1> DEFINE made == input_tsn_conf(me.s, typed, me.conf, n)
           ty == IF grow THEN {"list"} ELSE typed
           co == IF grow THEN [made EXCEPT !.list = Junk] ELSE made
           r1 == [me EXCEPT !.pc = "set"]
           r2 == [r1 EXCEPT !.typed = ty]
           r3 == [r2 EXCEPT !.conf = co]
           r  == [me EXCEPT !.pc = "set", !.typed = ty, !.conf = co]
<1>2. /\ me.s \in Sections /\ me.s # "qav" /\ Words(me.s, me.conf) /\ Text(ver, me.text)
      /\ "set" \in Places
  BY <1>0 DEF ProcInv, Process, Places
<1>3. /\ Words(me.s, made)
      /\ \A f \in Fields(me.s) \ typed :
            made[f] = Low(me.conf[f]) \/ (me.s = "rx" /\ f = "id" /\ made["check"] = 0)
  BY <1>2, InputFacts
<1>4. Go(p, r) /\ (grow => me.s = "qbv" /\ typed = {})
  BY <1>1
<1>5. r = r3
  OBVIOUS
<1>6. /\ r.pc = "set" /\ r.s = me.s /\ r.typed = ty /\ r.conf = co /\ r.base = me.base
      /\ r.text = me.text /\ r.edit = me.edit /\ r.got = me.got
  BY <1>0 DEF Process
<1>7. me.edit /\ me.got => me.conf = me.base /\ Held(ver, me.s, me.base)
  BY <1>0 DEF ProcInv, Read
<1> HIDE DEF me, made
<1>8. /\ Words(me.s, co)
      /\ \A f \in Fields(me.s) \ ty :
            co[f] = Low(me.conf[f]) \/ (me.s = "rx" /\ f = "id" /\ co["check"] = 0)
  <2>1. CASE grow
    <3>1. me.s = "qbv" /\ typed = {} /\ ty = {"list"} /\ co = [made EXCEPT !.list = Junk]
      BY <1>4, <2>1
    <3>2. co["list"] = Junk /\ \A f \in Fields("qbv") : f # "list" => co[f] = made[f]
      BY <1>3, <3>1, FieldSets DEF Words, Conf
    <3>3. Words("qbv", co)
      BY <1>3, <3>1, LowFacts, FieldSets DEF Words, Conf, Wide, Junk
    <3> HIDE DEF co, ty
    <3> QED
      BY <1>3, <3>1, <3>2, <3>3
  <2>2. CASE ~grow
    BY <1>3, <2>2
  <2> QED
    BY <2>1, <2>2
<1>9. ty \in SUBSET Names /\ co \in Row
  <2>1. ty \in SUBSET Fields(me.s)
    BY <1>4, FieldSets
  <2> HIDE DEF ty, co
  <2> QED
    BY <1>2, <1>8, <2>1, FieldNames, WordsRow
<1> HIDE DEF ty, co
<1>10. r1 \in Process
  BY <1>0, <1>2, Updates
<1> HIDE DEF r1
<1>11. r2 \in Process
  BY <1>9, <1>10, Updates
<1> HIDE DEF r2
<1>12. r \in Process
  BY <1>5, <1>9, <1>11, Updates
<1> HIDE DEF r
<1>13. ProcInv(ver, r)
  BY <1>2, <1>6, <1>7, <1>8, <1>12 DEF ProcInv, Edited
<1> QED
  BY <1>4, <1>13, Quiet DEF Input, Inv, CountInv

(* Which section has what only version 3 has.                              *)
LEMMA VersionFields ==
    ASSUME NEW s \in Sections, NEW f \in Fields(s), f \in {"reset", "streams", "rest"}
    PROVE  (s = "qbv" /\ f \in {"reset", "streams"}) \/ (s = "qci" /\ f = "rest")
<1>1. CASE s = "qbv"
  BY <1>1, FieldSets
<1>2. CASE s = "qbu"
  BY <1>2, FieldSets
<1>3. CASE s = "qci"
  BY <1>3, FieldSets
<1>4. CASE s = "qav"
  BY <1>4, FieldSets
<1>5. CASE s = "rx"
  BY <1>5, FieldSets
<1>6. CASE s = "ptp"
  BY <1>6, FieldSets
<1>7. CASE s = "ldb"
  BY <1>7, FieldSets
<1> QED
  BY <1>1, <1>2, <1>3, <1>4, <1>5, <1>6, <1>7 DEF Sections

(* A section granted to a core of version 2 asked for no more than it has  *)
(* room for.                                                               *)
LEMMA GrantedWhole ==
    ASSUME NEW me, NEW s, NEW conf, Set(me, s, conf) # {}, s = "qbv", ver = 2,
           NEW f \in {"reset", "streams"}
    PROVE  conf[f] \in {0, Junk}
<1>1. FALSE \in qbv_conf_has_v3_only_fields(conf)
  <2>1. set_qbv_conf(conf) # {}
    BY DEF Set
  <2>2. ver # 3
    OBVIOUS
  <2> QED
    BY <2>1, <2>2, Zenon DEF set_qbv_conf
<1>2. ~FALSE
  OBVIOUS
<1> QED
  BY <1>1, <1>2, Zenon DEF qbv_conf_has_v3_only_fields

(* What an edit sets keeps what was not typed.                             *)
LEMMA EditLogged ==
    ASSUME CountInv, NEW me, ProcInv(ver, me), me.pc = "set", UNCHANGED ver,
           Logged(me, me.s, me.conf, IF me.edit THEN "edit" ELSE "new", NoSection)
    PROVE  LogInv'
<1> DEFINE by == IF me.edit THEN "edit" ELSE "new"
<1>0. /\ me \in Process /\ me.s \in Sections /\ me.s # "qav" /\ Words(me.s, me.conf)
      /\ me.edit \in BOOLEAN /\ me.got \in BOOLEAN
      /\ (me.edit /\ me.got => Edited(ver, me))
  BY DEF ProcInv, Process
<1>1. PICK value \in Set(me, me.s, me.conf) :
        log' = [by |-> by, s |-> me.s, asked |-> me.conf, value |-> value, before |-> driver[me.s],
                base |-> me.base, got |-> me.got, typed |-> me.typed, from |-> NoSection]
  BY DEF Logged
<1>2. /\ log'.by = by /\ log'.s = me.s /\ log'.value = value /\ log'.base = me.base
      /\ log'.got = me.got /\ log'.typed = me.typed /\ log'.asked = me.conf
  BY <1>1
<1>3. log'.by \notin {"import", "stamp"} /\ (log'.by = "edit" => me.edit)
  BY <1>2
<1>4. \A f \in Fields(me.s) : Made(ver, me.s, me.conf, value, f)
  BY <1>0, <1>1, SetFacts
<1>5. ASSUME me.edit, me.got, NEW f \in Fields(me.s) \ me.typed
      PROVE  \/ value[f] = Low(me.base[f])
             \/ me.s = "rx" /\ f = "id" /\ value["check"] = 0
  <2>1. /\ Held(ver, me.s, me.base)
        /\ \/ me.conf[f] = Low(me.base[f])
           \/ me.s = "rx" /\ f = "id" /\ me.conf["check"] = 0
    BY <1>0, <1>5 DEF Edited
  <2>2. Made(ver, me.s, me.conf, value, f)
    BY <1>4
  <2>3. CASE me.s = "rx" /\ f = "id" /\ me.conf["check"] = 0
    <3>1. value["check"] = me.conf["check"]
      BY <1>4, <2>3, FieldSets DEF Made
    <3> QED
      BY <2>3, <3>1
  <2>4. CASE value[f] = me.conf[f]
    BY <2>1, <2>3, <2>4
  <2>5. CASE ver = 2 /\ me.s = "qbv" /\ f = "cycle" /\ value[f] = Low(me.conf[f])
    <3>1. me.conf[f] = Low(me.base[f]) /\ me.base[f] \in Int
      BY <2>1, <2>5, FieldSets DEF Held, Words, Conf
    <3>2. Low(Low(me.base[f])) = Low(me.base[f])
      BY <3>1, LowFacts
    <3> QED
      BY <2>5, <3>1, <3>2
  <2>6. CASE ver = 2 /\ f \in {"reset", "streams", "rest"} /\ value[f] = 0
    <3>1. me.base[f] = 0
      <4>1. (me.s = "qbv" /\ f \in {"reset", "streams"}) \/ (me.s = "qci" /\ f = "rest")
        BY <1>0, <2>6, VersionFields
      <4> QED
        BY <2>1, <2>6, <4>1 DEF Held, Fits
    <3>2. Low(0) = 0
      BY LowFacts
    <3> QED
      BY <2>6, <3>1, <3>2
  <2> QED
    BY <1>0, <2>1, <2>2, <2>3, <2>4, <2>5, <2>6 DEF Made
<1>6. EditKeeps'
  BY <1>2, <1>3, <1>5 DEF EditKeeps
<1>7. Restores' /\ BaseTimeRight'
  BY <1>3 DEF Restores, BaseTimeRight
<1>8. NothingDropped'
  BY <1>1, <1>2, GrantedWhole DEF NothingDropped
<1> QED
  BY <1>6, <1>7, <1>8 DEF LogInv

LEMMA SetConfigStep == ASSUME Inv, NEW p \in Procs, SetConfig(p) PROVE Inv'
<1> DEFINE me == proc[p]
           by == IF me.edit THEN "edit" ELSE "new"
<1>0. /\ me.pc = "set" /\ ProcInv(ver, me) /\ me \in Process /\ CountInv /\ DriverInv
      /\ ver \in {2, 3} /\ LogInv /\ Text(ver, file) /\ ProcsInv
      /\ UNCHANGED <<ver, file, commands>> /\ Go(p, Idle)
      /\ Request(me, me.s, me.conf, by, NoSection)
  BY DEF SetConfig, Inv, ProcsInv, ProcInv, CountInv
<1> HIDE DEF me
<1>1. me.s \in Sections /\ Words(me.s, me.conf)
  BY <1>0 DEF ProcInv, Process
<1>2. DriverInv' /\ (UNCHANGED log \/ Logged(me, me.s, me.conf, by, NoSection))
  BY <1>0, <1>1, RequestFacts
<1>3. LogInv'
  BY <1>0, <1>2, SameLog, EditLogged
<1>4. ProcsInv'
  BY <1>0, IdleFacts, GoFacts
<1>5. CountInv' /\ Text(ver, file)'
  BY <1>0, SameFile DEF CountInv
<1> QED
  BY <1>2, <1>3, <1>4, <1>5 DEF Inv

-----------------------------------------------------------------------------
(* --get to a file.                                                        *)
LEMMA ExportGetStep == ASSUME Inv, NEW p \in Procs, ExportGet(p) PROVE Inv'
<1> DEFINE me == proc[p]
           s == First(GetOrder, me.todo)
           rest == [me EXCEPT !.s = s, !.todo = @ \ {s}]
<1>0. me.pc = "export" /\ ProcInv(ver, me) /\ me \in Process /\ CountInv /\ DriverInv
      /\ ver \in {2, 3}
  BY DEF ExportGet, Inv, ProcsInv, ProcInv, CountInv
<1>1. PICK g \in Get(me, s, All(s, 0)) :
        Go(p, IF g[1] THEN [rest EXCEPT !.pc = "open", !.conf = g[2]]
              ELSE IF rest.todo = {} THEN Idle ELSE rest)
  BY DEF ExportGet
<1> DEFINE r == IF g[1] THEN [rest EXCEPT !.pc = "open", !.conf = g[2]]
                ELSE IF rest.todo = {} THEN Idle ELSE rest
<1>2. Text(ver, me.text) /\ me.todo # {} /\ me.todo \subseteq Sections
  BY <1>0 DEF ProcInv, Process
<1> HIDE DEF me
<1>3. s \in me.todo /\ s \in Sections
  BY <1>2, FirstFacts
<1> HIDE DEF s
<1>4. Words(s, All(s, 0))
  BY <1>3, Filled
<1>5. /\ g[1] \in BOOLEAN /\ Words(s, g[2])
      /\ (g[1] => g[2] = driver[s] /\ (s = "qci" => me.v3 \/ ver = 2))
  BY <1>0, <1>1, <1>3, <1>4, GetFacts
<1>6. rest \in Process
  <2> DEFINE r1 == [me EXCEPT !.s = s]
             r2 == [r1 EXCEPT !.todo = @ \ {s}]
  <2>1. rest = r2
    BY <1>0 DEF Process
  <2>2. r1 \in Process /\ r1.todo = me.todo
    BY <1>0, <1>3, Updates DEF Process
  <2> HIDE DEF r1
  <2>3. r1.todo \ {s} \in SUBSET Sections
    BY <1>2, <2>2
  <2>4. r2 \in Process
    BY <2>2, <2>3, Updates
  <2> QED
    BY <2>1, <2>4
<1>7. rest.s = s /\ rest.todo = me.todo \ {s} /\ rest.pc = "export" /\ rest.text = me.text
      /\ rest.v3 = me.v3
  BY <1>0 DEF Process
<1> HIDE DEF rest
<1>8. CASE g[1]
  <2> DEFINE r1 == [rest EXCEPT !.pc = "open"]
             r2 == [r1 EXCEPT !.conf = g[2]]
             r3 == [rest EXCEPT !.pc = "open", !.conf = g[2]]
  <2>1. g[2] \in Row /\ "open" \in Places
    BY <1>3, <1>5, WordsRow DEF Places
  <2>2. r1 \in Process
    BY <1>6, <2>1, Updates
  <2>3. r3 = r2
    OBVIOUS
  <2>4. r3.pc = "open" /\ r3.s = s /\ r3.conf = g[2] /\ r3.text = me.text /\ r3.v3 = me.v3
    BY <1>6, <1>7 DEF Process
  <2> HIDE DEF r1
  <2>5. r3 \in Process
    BY <2>1, <2>2, <2>3, Updates
  <2>6. r = r3
    BY <1>8
  <2> HIDE DEF r3
  <2>7. Held(ver, s, g[2])
    BY <1>0, <1>3, <1>5, <1>8 DEF DriverInv
  <2>8. ProcInv(ver, r3)
    BY <1>2, <1>5, <1>8, <2>4, <2>5, <2>7 DEF ProcInv, Exported
  <2> HIDE DEF r
  <2> QED
    BY <1>1, <2>6, <2>8, Quiet DEF ExportGet, Inv, CountInv, r
<1>9. CASE ~g[1]
  <2>1. rest.todo # {} => ProcInv(ver, rest)
    BY <1>2, <1>6, <1>7 DEF ProcInv
  <2>2. ProcInv(ver, Idle)
    BY <1>0, IdleFacts
  <2>3. ProcInv(ver, r)
    BY <1>9, <2>1, <2>2
  <2>4. Go(p, r)
    BY <1>1
  <2> HIDE DEF r
  <2> QED
    BY <2>3, <2>4, Quiet DEF ExportGet, Inv, CountInv
<1> QED
  BY <1>5, <1>8, <1>9

(* A step that writes the file.                                            *)
LEMMA Writes ==
    ASSUME Inv, NEW p \in Procs, NEW r, ProcInv(ver, r), Go(p, r), Text(ver, file'),
           UNCHANGED <<ver, driver, log, commands>>
    PROVE  Inv'
<1>1. CountInv'
  BY DEF Inv, CountInv
<1>2. DriverInv' /\ LogInv'
  BY SameDriver, SameLog DEF Inv
<1>3. Text(ver, file)'
  <2>1. Text(ver', file')
    BY Zenon
  <2> QED
    BY <2>1, Zenon
<1>4. ProcsInv'
  BY GoFacts DEF Inv
<1> QED
  BY <1>1, <1>2, <1>3, <1>4 DEF Inv

LEMMA OpenStep == ASSUME Inv, NEW p \in Procs, Open(p) PROVE Inv'
<1> DEFINE me == proc[p]
           pc == IF me.pc = "open" THEN "close" ELSE "closestamp"
           r == [me EXCEPT !.pc = IF @ = "open" THEN "close" ELSE "closestamp"]
<1>0. me.pc \in {"open", "openstamp"} /\ ProcInv(ver, me) /\ me \in Process
      /\ ver \in {2, 3}
  BY DEF Open, Inv, ProcsInv, ProcInv, CountInv
<1>1. Go(p, r)
  BY DEF Open
<1> HIDE DEF me
<1>2. r = [me EXCEPT !.pc = pc]
  BY <1>0 DEF Process
<1>3. pc \in Places
  BY DEF Places
<1>4. r.pc = pc /\ r.s = me.s /\ r.conf = me.conf /\ r.text = me.text /\ r.v3 = me.v3
  BY <1>0, <1>2 DEF Process
<1>5. r \in Process
  BY <1>0, <1>2, <1>3, Updates
<1> HIDE DEF r
<1>6. pc \in {"close", "closestamp"} /\ (pc = "close" => me.pc = "open")
  OBVIOUS
<1> HIDE DEF pc
<1>7. ProcInv(ver, r)
  BY <1>0, <1>4, <1>5, <1>6 DEF ProcInv, Exported
<1>8. Text(ver, file')
  BY <1>0, EmptyText DEF Open
<1> QED
  BY <1>1, <1>7, <1>8, Writes DEF Open

LEMMA ExportCloseStep == ASSUME Inv, NEW p \in Procs, ExportClose(p) PROVE Inv'
<1> DEFINE me == proc[p]
           r == IF me.todo = {} THEN Idle ELSE [me EXCEPT !.pc = "export"]
<1>0. me.pc = "close" /\ ProcInv(ver, me) /\ me \in Process /\ ver \in {2, 3}
  BY DEF ExportClose, Inv, ProcsInv, ProcInv, CountInv
<1>1. Go(p, r) /\ file' = ExportOf(me, me.s, me.conf)
  BY DEF ExportClose
<1> HIDE DEF me
<1>2. /\ me.s \in Sections /\ Held(ver, me.s, me.conf) /\ (me.s = "qci" => me.v3 \/ ver = 2)
      /\ Text(ver, me.text) /\ "export" \in Places
  BY <1>0 DEF ProcInv, Process, Exported, Places
<1>5. Text(ver, file')
  BY <1>0, <1>1, <1>2, ExportText
<1>6. ProcInv(ver, r)
  <2>1. CASE me.todo = {}
    BY <1>0, <2>1, IdleFacts
  <2>2. CASE me.todo # {}
    <3> DEFINE q == [me EXCEPT !.pc = "export"]
    <3>1. q \in Process
      BY <1>0, <1>2, Updates
    <3>2. q.pc = "export" /\ q.todo = me.todo /\ q.text = me.text
      BY <1>0 DEF Process
    <3>3. r = q
      BY <2>2
    <3> HIDE DEF q, r
    <3> QED
      BY <1>2, <2>2, <3>1, <3>2, <3>3 DEF ProcInv
  <2> QED
    BY <2>1, <2>2
<1> HIDE DEF r
<1> QED
  BY <1>1, <1>5, <1>6, Writes DEF ExportClose

-----------------------------------------------------------------------------
(* --import-conf-file.                                                     *)
LEMMA ImportReadStep == ASSUME Inv, NEW p \in Procs, ImportRead(p) PROVE Inv'
<1> DEFINE me == proc[p]
           present == {s \in Sections : file.json[s] # NoSection}
           q == [me EXCEPT !.pc = "import", !.text = file, !.todo = present]
           r == IF present = {} THEN Idle ELSE q
<1>0. ProcInv(ver, me) /\ me \in Process /\ ver \in {2, 3} /\ Text(ver, file)
  BY DEF Inv, ProcsInv, ProcInv, CountInv
<1>1. Go(p, r)
  BY DEF ImportRead
<1> HIDE DEF me
<1>2. present \in SUBSET Sections /\ file \in [json : Table, from : Table]
      /\ "import" \in Places /\ \A s \in present : file.json[s] # NoSection
  BY <1>0 DEF Text, Places
<1> HIDE DEF present
<1> DEFINE r1 == [me EXCEPT !.pc = "import"]
           r2 == [r1 EXCEPT !.text = file]
           r3 == [r2 EXCEPT !.todo = present]
<1>3. r1 \in Process
  BY <1>0, <1>2, Updates
<1>4. q = r3
  OBVIOUS
<1>5. q.pc = "import" /\ q.text = file /\ q.todo = present
  BY <1>0 DEF Process
<1> HIDE DEF r1
<1>6. r2 \in Process
  BY <1>2, <1>3, Updates
<1> HIDE DEF r2
<1>7. q \in Process
  BY <1>2, <1>4, <1>6, Updates
<1> HIDE DEF q
<1>8. present # {} => ProcInv(ver, q)
  BY <1>0, <1>2, <1>5, <1>7 DEF ProcInv
<1>9. ProcInv(ver, r)
  BY <1>0, <1>8, IdleFacts
<1> HIDE DEF r
<1> QED
  BY <1>1, <1>9, Quiet DEF ImportRead, Inv, CountInv

(* What was exported comes back.                                           *)
LEMMA ImportLogged ==
    ASSUME CountInv, NEW me \in Process, NEW s \in Sections, NEW j, NEW c, Keys(s, j),
           c = NoSection \/ Copied(ver, s, j, c), UNCHANGED ver,
           Logged(me, s, Parsed(me, s, j), "import", c)
    PROVE  LogInv'
<1>1. PICK value \in Set(me, s, Parsed(me, s, j)) :
        log' = [by |-> "import", s |-> s, asked |-> Parsed(me, s, j), value |-> value,
                before |-> driver[s], base |-> me.base, got |-> me.got, typed |-> me.typed, from |-> c]
  BY DEF Logged
<1>2. /\ log'.by = "import" /\ log'.s = s /\ log'.value = value /\ log'.from = c
      /\ log'.asked = Parsed(me, s, j)
  BY <1>1
<1>3. ASSUME Copied(ver, s, j, c), NEW f \in Fields(s)
      PROVE  Lost(log', f) \/ value[f] = Kept(log', f)
  <2>1. CASE \/ c[f] = Missing \/ f = "prios"
             \/ s = "qbv" /\ f # "cycle" /\ c[f] > IntMax
    BY <1>2, <2>1 DEF Lost
  <2>2. CASE /\ c[f] # Missing /\ f # "prios"
             /\ (s = "qbv" /\ f # "cycle" => ~(c[f] > IntMax))
    <3>1. value[f] = IF f \in Flags THEN Bool(c[f]) ELSE c[f]
      BY <1>3, <2>2, RoundTrip
    <3> QED
      BY <1>2, <3>1 DEF Kept
  <2> QED
    BY <2>1, <2>2
<1>4. Restores'
  BY <1>2, <1>3 DEF Restores
<1>5. EditKeeps' /\ BaseTimeRight'
  BY <1>2 DEF EditKeeps, BaseTimeRight
<1>6. NothingDropped'
  BY <1>1, <1>2, GrantedWhole DEF NothingDropped
<1> QED
  BY <1>4, <1>5, <1>6 DEF LogInv

LEMMA ImportSectionStep == ASSUME Inv, NEW p \in Procs, ImportSection(p) PROVE Inv'
<1> DEFINE me == proc[p]
           s == First(ImportOrder, me.todo)
           j == me.text.json[s]
           c == me.text.from[s]
           q == [me EXCEPT !.todo = @ \ {s}]
           r == IF me.todo = {s} THEN Idle ELSE q
<1>0. /\ me.pc = "import" /\ ProcInv(ver, me) /\ me \in Process /\ CountInv /\ DriverInv
      /\ ver \in {2, 3} /\ LogInv /\ Text(ver, file) /\ ProcsInv
      /\ UNCHANGED <<ver, file, commands>>
  BY DEF ImportSection, Inv, ProcsInv, ProcInv, CountInv
<1>1. Request(me, s, Parsed(me, s, j), "import", c) /\ Go(p, r)
  BY DEF ImportSection
<1> HIDE DEF me
<1>2. /\ me.todo # {} /\ me.todo \subseteq Sections /\ Text(ver, me.text)
      /\ \A x \in me.todo : me.text.json[x] # NoSection
  BY <1>0 DEF ProcInv, Process
<1>3. s \in me.todo /\ s \in Sections
  BY <1>2, FirstFacts
<1> HIDE DEF s
<1>4. Keys(s, j) /\ (c = NoSection \/ Copied(ver, s, j, c))
  BY <1>2, <1>3 DEF Text, Section
<1>5. ProcInv(ver, r)
  <2>1. CASE me.todo = {s}
    BY <1>0, <2>1, IdleFacts
  <2>2. CASE me.todo # {s}
    <3>0. me.todo \ {s} \in SUBSET Sections /\ me.todo \ {s} # {}
      BY <1>2, <1>3, <2>2
    <3>1. q.todo = me.todo \ {s} /\ q.pc = "import" /\ q.text = me.text
      BY <1>0 DEF Process
    <3>2. q \in Process
      BY <1>0, <3>0, Updates
    <3>3. r = q
      BY <2>2
    <3> HIDE DEF q, r
    <3> QED
      BY <1>2, <3>0, <3>1, <3>2, <3>3 DEF ProcInv
  <2> QED
    BY <2>1, <2>2
<1> HIDE DEF r, j, c
<1>6. DriverInv' /\ (UNCHANGED log \/ Logged(me, s, Parsed(me, s, j), "import", c))
  BY <1>0, <1>1, <1>3, <1>4, ParsedFacts, RequestFacts
<1>7. LogInv'
  BY <1>0, <1>3, <1>4, <1>6, SameLog, ImportLogged
<1>8. ProcsInv'
  BY <1>0, <1>1, <1>5, GoFacts
<1>9. CountInv' /\ Text(ver, file)'
  BY <1>0, SameFile DEF CountInv
<1> QED
  BY <1>6, <1>7, <1>8, <1>9 DEF Inv

LEMMA ImportCrashStep == ASSUME Inv, NEW p \in Procs, ImportCrash(p) PROVE Inv'
<1>1. ProcInv(ver, Idle)
  BY IdleFacts DEF Inv, CountInv
<1> QED
  BY <1>1, Quiet DEF ImportCrash, Inv, CountInv

-----------------------------------------------------------------------------
(* The base time tool.                                                     *)
Stamped(t, a, b) ==
    [t EXCEPT !.json["qbv"].sec = a, !.json["qbv"].nsec = b, !.from["qbv"] = NoSection]

LEMMA StampText ==
    ASSUME NEW v \in {2, 3}, NEW t, Text(v, t), t.json["qbv"] # NoSection,
           NEW a \in Int, NEW b \in Int
    PROVE  Text(v, Stamped(t, a, b)) /\ Stamped(t, a, b) \in [json : Table, from : Table]
<1> DEFINE j  == t.json["qbv"]
           j1 == [j EXCEPT !.sec = a]
           j2 == [j1 EXCEPT !.nsec = b]
           t1 == [t EXCEPT !.json["qbv"] = j2]
           t2 == [t1 EXCEPT !.from["qbv"] = NoSection]
           new == Stamped(t, a, b)
<1>0. t \in [json : Table, from : Table] /\ Keys("qbv", j) /\ "qbv" \in Sections
  BY DEF Text, Section, Sections
<1>1. Keys("qbv", j2)
  <2>1. j1 \in Conf("qbv") /\ \A f \in Fields("qbv") : f # "sec" => j1[f] = j[f]
    BY <1>0, FieldSets DEF Keys, Conf
  <2> HIDE DEF j1
  <2>2. j2 \in Conf("qbv") /\ \A f \in Fields("qbv") : f # "nsec" => j2[f] = j1[f]
    BY <2>1, FieldSets DEF Conf
  <2> HIDE DEF j2
  <2>3. \A f \in Fields("qbv") \ Wide : j2[f] = j[f]
    BY <2>1, <2>2 DEF Wide
  <2> HIDE DEF j
  <2> QED
    BY <1>0, <2>2, <2>3 DEF Keys
<1>2. new = t2
  BY <1>0 DEF Table, Stamped
<1>3. j2 \in Row
  BY <1>0, <1>1 DEF Keys, Row
<1> HIDE DEF j2
<1>4. /\ t1 \in [json : Table, from : Table] /\ t1.from = t.from
      /\ \A x \in Sections : t1.json[x] = IF x = "qbv" THEN j2 ELSE t.json[x]
  BY <1>0, <1>3 DEF Table
<1> HIDE DEF t1
<1>5. /\ t2 \in [json : Table, from : Table] /\ t2.json = t1.json
      /\ \A x \in Sections : t2.from[x] = IF x = "qbv" THEN NoSection ELSE t1.from[x]
  BY <1>0, <1>4, NoSectionRow DEF Table
<1> HIDE DEF t2
<1>6. \A x \in Sections : Section(v, x, t2.json[x], t2.from[x])
  BY <1>1, <1>4, <1>5 DEF Text, Section
<1>7. Text(v, t2)
  BY <1>5, <1>6 DEF Text
<1> QED
  BY <1>2, <1>5, <1>7

(* What the clock showed, what was added, and what came of it.             *)
LEMMA StampLogged ==
    ASSUME NEW now \in Times, NEW off \in Times, NEW round \in BOOLEAN, NEW ok \in BOOLEAN,
           NEW ts,
           ts = IF ~ok THEN <<Junk, Junk>>
                ELSE IF round THEN RoundedUp(timespec_add(now, off)) ELSE timespec_add(now, off),
           log' = [by |-> "stamp", now |-> now, off |-> off, round |-> round, ok |-> ok,
                   ts |-> ts]
    PROVE  ts \in Times /\ LogInv'
<1> DEFINE sum == timespec_add(now, off)
           N == NSEC_PER_SEC
<1>0. /\ log'.by = "stamp" /\ log'.now = now /\ log'.off = off /\ log'.ts = ts
      /\ (log'.round <=> round) /\ (log'.ok <=> ok)
  OBVIOUS
<1>1. /\ sum \in Times /\ sum[2] \in 0 .. (N - 1)
      /\ Nanoseconds(sum) = Nanoseconds(now) + Nanoseconds(off)
  BY AddFacts
<1>2. /\ RoundedUp(sum) \in Times /\ RoundedUp(sum)[2] = 0
      /\ Nanoseconds(RoundedUp(sum)) - Nanoseconds(sum) \in 0 .. (N - 1)
  BY <1>1, RoundFacts
<1>3. <<Junk, Junk>> \in Times /\ 0 \in 0 .. (N - 1)
  BY TimeAssumption DEF Junk, Times
<1> HIDE DEF sum
<1>4. ts = IF ~ok THEN <<Junk, Junk>> ELSE IF round THEN RoundedUp(sum) ELSE sum
  BY DEF sum
<1>5. ts \in Times
  BY <1>1, <1>2, <1>3, <1>4
<1>6. ok => /\ ts[2] \in 0 .. (N - 1)
            /\ IF round
               THEN /\ ts[2] = 0
                    /\ Nanoseconds(ts) - (Nanoseconds(now) + Nanoseconds(off)) \in 0 .. (N - 1)
               ELSE Nanoseconds(ts) = Nanoseconds(now) + Nanoseconds(off)
  BY <1>1, <1>2, <1>3, <1>4
<1>7. BaseTimeRight'
  BY <1>0, <1>6 DEF BaseTimeRight
<1>8. Restores' /\ EditKeeps' /\ NothingDropped'
  BY <1>0 DEF Restores, EditKeeps, NothingDropped
<1> QED
  BY <1>5, <1>7, <1>8 DEF LogInv

LEMMA StampStep == ASSUME Inv, NEW p \in Procs, Stamp(p) PROVE Inv'
<1> DEFINE me == proc[p]
<1>0. /\ me.pc = "stamp" /\ ProcInv(ver, me) /\ me \in Process /\ CountInv /\ DriverInv
      /\ ver \in {2, 3} /\ LogInv /\ Text(ver, file) /\ ProcsInv
      /\ UNCHANGED <<ver, driver, file, commands>>
  BY DEF Stamp, Inv, ProcsInv, ProcInv, CountInv
<1>1. DriverInv' /\ CountInv' /\ Text(ver, file)'
  BY <1>0, SameDriver, SameFile DEF CountInv
<1>2. CASE Go(p, Idle) /\ UNCHANGED log
  BY <1>0, <1>1, <1>2, IdleFacts, GoFacts, SameLog DEF Inv
<1>3. CASE ~(Go(p, Idle) /\ UNCHANGED log)
  <2>1. file.json["qbv"] # NoSection
    BY <1>3 DEF Stamp
  <2>2. PICK now \in Clock, off \in Offsets, round \in BOOLEAN, ok \in BOOLEAN :
          LET sum == timespec_add(now, off)
              ts == IF ~ok THEN <<Junk, Junk>> ELSE IF round THEN RoundedUp(sum) ELSE sum
              text == [file EXCEPT !.json["qbv"].sec = ts[1], !.json["qbv"].nsec = ts[2],
                                   !.from["qbv"] = NoSection]
          IN  /\ Go(p, [me EXCEPT !.pc = "openstamp", !.text = text])
              /\ log' = [by |-> "stamp", now |-> now, off |-> off,
                         round |-> round, ok |-> ok, ts |-> ts]
    BY <1>3 DEF Stamp, phc_open
  <2> DEFINE sum == timespec_add(now, off)
             ts == IF ~ok THEN <<Junk, Junk>> ELSE IF round THEN RoundedUp(sum) ELSE sum
             text == [file EXCEPT !.json["qbv"].sec = ts[1], !.json["qbv"].nsec = ts[2],
                                  !.from["qbv"] = NoSection]
             r1 == [me EXCEPT !.pc = "openstamp"]
             r2 == [r1 EXCEPT !.text = text]
             r == [me EXCEPT !.pc = "openstamp", !.text = text]
  <2>3. now \in Times /\ off \in Times
    BY TimeAssumption DEF Times
  <2>4. Go(p, r) /\ log' = [by |-> "stamp", now |-> now, off |-> off,
                            round |-> round, ok |-> ok, ts |-> ts]
    BY <2>2
  <2> HIDE DEF me
  <2>5. ts \in Times /\ LogInv'
    BY <2>3, <2>4, StampLogged
  <2> HIDE DEF ts
  <2>6. ts[1] \in Int /\ ts[2] \in Int
    BY <2>5 DEF Times
  <2>7. Text(ver, text) /\ text \in [json : Table, from : Table]
    <3>1. text = Stamped(file, ts[1], ts[2])
      BY DEF Stamped
    <3>2. ver \in {2, 3} /\ Text(ver, file)
      BY <1>0
    <3>3. \A a, b \in Int : /\ Text(ver, Stamped(file, a, b))
                            /\ Stamped(file, a, b) \in [json : Table, from : Table]
      BY <2>1, <3>2, StampText, Zenon
    <3> HIDE DEF text
    <3> QED
      BY <2>6, <3>1, <3>3
  <2> HIDE DEF text
  <2>8. r1 \in Process
    BY <1>0, Updates DEF Places
  <2>9. r = r2
    OBVIOUS
  <2>10. r.pc = "openstamp" /\ r.text = text
    BY <1>0 DEF Process
  <2> HIDE DEF r1
  <2>11. r \in Process
    BY <2>7, <2>8, <2>9, Updates
  <2> HIDE DEF r
  <2>12. ProcInv(ver, r)
    BY <2>7, <2>10, <2>11 DEF ProcInv
  <2>13. ProcsInv'
    BY <1>0, <2>4, <2>12, GoFacts
  <2> QED
    BY <1>1, <2>5, <2>13 DEF Inv
<1> QED
  BY <1>2, <1>3

LEMMA StampCloseStep == ASSUME Inv, NEW p \in Procs, StampClose(p) PROVE Inv'
<1>1. ProcInv(ver, Idle) /\ Text(ver, proc[p].text)
  BY IdleFacts DEF Inv, CountInv, ProcsInv, ProcInv
<1>2. Text(ver, file')
  BY <1>1 DEF StampClose
<1> QED
  BY <1>1, <1>2, Writes DEF StampClose

-----------------------------------------------------------------------------
LEMMA NextInv == Inv /\ [Next]_vars => Inv'
<1> SUFFICES ASSUME Inv, [Next]_vars PROVE Inv'
  OBVIOUS
<1>1. CASE UNCHANGED vars
  <2>1. UNCHANGED <<ver, driver, file, proc, log, commands>>
    BY <1>1 DEF vars
  <2>2. DriverInv' /\ LogInv' /\ Text(ver, file)'
    BY <2>1, SameDriver, SameLog, SameFile DEF Inv
  <2>3. CountInv' /\ ProcsInv'
    BY <2>1 DEF Inv, CountInv, ProcsInv
  <2> QED
    BY <2>2, <2>3 DEF Inv
<1>2. CASE Next
  <2>1. PICK p \in Procs :
           \/ \E s \in Sections, edit \in BOOLEAN : StartSet(p, s, edit)
           \/ EditGet(p) \/ Input(p) \/ SetConfig(p)
           \/ \E s, t \in Sections, csv \in BOOLEAN : StartExport(p, {s, t}, csv)
           \/ GetAll(p) \/ ExportGet(p) \/ Open(p) \/ ExportClose(p)
           \/ StartImport(p) \/ ImportRead(p) \/ ImportSection(p) \/ ImportCrash(p)
           \/ StartStamp(p) \/ Stamp(p) \/ StampClose(p)
    BY <1>2 DEF Next
  <2> QED
    BY <2>1, StartSetStep, EditGetStep, InputStep, SetConfigStep, StartExportStep,
       PlainSteps, ExportGetStep, OpenStep, ExportCloseStep, ImportReadStep,
       ImportSectionStep, ImportCrashStep, StampStep, StampCloseStep
<1> QED
  BY <1>1, <1>2

LEMMA Always == Spec => []Inv
BY InitInv, NextInv, PTL DEF Spec

(* The types, and what a core has no room for: no tool, with any file or   *)
(* answers, gives a core of version 2 what only version 3 has, and no      *)
(* request for it is granted in part.                                      *)
THEOREM TypesCorrect == Spec => []TypeOK
<1>1. Inv => TypeOK
  <2> SUFFICES ASSUME Inv PROVE TypeOK
    OBVIOUS
  <2>1. /\ ver \in {2, 3} /\ commands \in 0 .. MaxCommands
        /\ \A s \in Sections : driver[s] \in [Fields(s) -> Int]
    BY DEF Inv, CountInv, DriverInv, Held, Words, Conf
  <2>2. \A s \in Sections : file.json[s] = NoSection \/ DOMAIN file.json[s] = Fields(s)
    BY DEF Inv, Text, Section, Keys, Conf
  <2>3. \A p \in Procs : proc[p].todo \subseteq Sections
    BY DEF Inv, ProcsInv, Process
  <2>4. ASSUME NEW p \in Procs, proc[p].pc \in {"get", "input", "set", "close"}
        PROVE  DOMAIN proc[p].conf = Fields(proc[p].s)
    <3>1. Words(proc[p].s, proc[p].conf)
      BY <2>4 DEF Inv, ProcsInv, ProcInv, Exported, Held
    <3> QED
      BY <3>1 DEF Words, Conf
  <2>5. VersionFits /\ NothingDropped
    <3> SUFFICES ASSUME ver = 2 PROVE /\ driver.qbv.reset = 0 /\ driver.qbv.streams = 0
                                      /\ driver.qbv.cycle < Word
                                      /\ driver.qci.rest = 0 /\ driver.qav = Configured(2).qav
      BY DEF VersionFits, Inv, LogInv
    <3>1. Held(2, "qbv", driver["qbv"]) /\ Held(2, "qci", driver["qci"])
          /\ Held(2, "qav", driver["qav"])
      BY DEF Inv, DriverInv, Sections
    <3>2. /\ driver.qbv.reset = 0 /\ driver.qbv.streams = 0 /\ driver.qbv.cycle \in Word32
          /\ driver.qci.rest = 0 /\ driver.qav = Configured(2).qav
      BY <3>1 DEF Held, Fits
    <3>3. driver.qbv.cycle < Word
      BY <3>2, WordAssumption DEF Word32
    <3> QED
      BY <3>2, <3>3
  <2> QED
    BY <2>1, <2>2, <2>3, <2>4, <2>5 DEF TypeOK
<1> QED
  BY <1>1, Always, PTL

(* What was exported comes back on import, to any device, through any file *)
(* and after any commands of other processes.                              *)
THEOREM RestoresCorrect == Spec => []Restores
<1>1. Inv => Restores
  BY DEF Inv, LogInv
<1> QED
  BY <1>1, Always, PTL

(* An edit keeps what was read and not answered for, up to 32 bits.        *)
THEOREM EditCorrect == Spec => []EditKeeps
<1>1. Inv => EditKeeps
  BY DEF Inv, LogInv
<1> QED
  BY <1>1, Always, PTL

(* A base time is a time, and the clock's plus the offset, for clocks and  *)
(* offsets of any number of seconds and nanoseconds.                       *)
THEOREM BaseTimeCorrect == Spec => []BaseTimeRight
<1>1. Inv => BaseTimeRight
  BY DEF Inv, LogInv
<1> QED
  BY <1>1, Always, PTL
=============================================================================
