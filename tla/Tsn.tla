--------------------------------- MODULE Tsn ---------------------------------
(***************************************************************************)
(* Configuring a CoreTSN device: the library (microchip-tsn-lib.c), the    *)
(* command line tool (microchip-tsn-cli.c) and the base time tool          *)
(* (microchip-tsn-replace-tsnbasetime.c), run by several processes that    *)
(* share the device and one JSON file.  A library call is one request to   *)
(* the driver; between the requests of a command others may be served.     *)
(*                                                                         *)
(* A section of the configuration is a function of its fields.  Fields     *)
(* that are treated alike are one here: prios stands for what an import    *)
(* does not take from the file (the priorities of the queues and, for a    *)
(* core taken for version 2, whether queue 7 is enabled: both are cleared),*)
(* streams for the table of stream ids, list for the gate control list (0, *)
(* or the interval of its only entry), first for what the layout of        *)
(* version 2 covers of the QCI table and rest for the rest of it.  Left    *)
(* out: statistics, which are only shown.                                  *)
(***************************************************************************)
EXTENDS Integers, Sequences, FiniteSets

CONSTANTS
    Word,               \* 2^32: what 32 bits hold
    NSEC_PER_SEC,
    Procs,              \* processes
    Clock,              \* what the PTP clock shows: pairs <<sec, nsec>>
    Offsets,            \* what is added to it
    Earlier,            \* sections a command may have exported before
    MaxCommands         \* bound: commands run

ASSUME WordAssumption  == Word \in Nat /\ Word > 1
ASSUME TimeAssumption  == NSEC_PER_SEC \in Nat \ {0} /\ Clock \cup Offsets \subseteq Int \X Int
ASSUME BoundAssumption == MaxCommands \in Nat
ASSUME EarlierAssumption ==
    Earlier \subseteq {"qbv", "qbu", "qci", "qav", "rx", "ptp", "ldb"}

VARIABLES
    ver,                \* version of the core, 2 or 3
    driver,             \* section -> fields: the configuration of the device
    file,               \* the JSON file
    proc,               \* process -> what it does and its memory
    log,                \* history: the last thing that came of a command
    commands            \* counter for the bound

vars == <<ver, driver, file, proc, log, commands>>

Fields(s) ==
    CASE s = "qbv" -> {"cycle", "sec", "nsec", "prios", "reset", "streams", "gate", "list"}
      [] s = "qbu" -> {"en", "size"}
      [] s = "qci" -> {"first", "rest"}
      [] s = "qav" -> {"num", "queues"}
      [] s = "rx" -> {"check", "id"}
      [] s = "ptp" -> {"prioq"}
      [] s = "ldb" -> {"len"}

Sections == {"qbv", "qbu", "qci", "qav", "rx", "ptp", "ldb"}
All(s, x) == [f \in Fields(s) |-> x]

Junk == -1              \* memory never written, or written for another section
Missing == -2           \* a key that is not in the file
NoSection == <<>>
IntMax == Word \div 2 - 1
Saturated(x) == IF x > IntMax THEN IntMax ELSE x    \* valueint of cJSON
Low(x) == IF x = Junk THEN Junk ELSE x % Word       \* 32 bits of it
Bool(x) == IF x = 0 THEN 0 ELSE 1

(* from is history: what the device had when the section was exported.     *)
Empty == [json |-> [s \in Sections |-> NoSection],
          from |-> [s \in Sections |-> NoSection]]

NoLog == [by |-> "none"]

(* v3: the tool found the device to have stream ids.                       *)
Idle == [pc |-> "idle", s |-> "ldb", todo |-> {}, v3 |-> FALSE, edit |-> FALSE,
         csv |-> FALSE, conf |-> NoSection, base |-> NoSection, got |-> FALSE,
         typed |-> {}, text |-> Empty]

QciTable(v) == [first |-> 1, rest |-> v - 2]

Configured(v) ==
    [qbv |-> [cycle |-> IF v = 3 THEN Word + 1 ELSE 1, sec |-> 1, nsec |-> 1, prios |-> 1,
              reset |-> v - 2, streams |-> v - 2, gate |-> 1, list |-> Word - 1],
     qbu |-> [en |-> 1, size |-> 1], qci |-> QciTable(v),
     qav |-> [num |-> v - 2, queues |-> v - 2], rx |-> [check |-> 0, id |-> 1],
     ptp |-> [prioq |-> 1], ldb |-> [len |-> 1]]

(* A file someone wrote for a core of version 3.                           *)
Written ==
    [json |->
        [qbv |-> [cycle |-> Word + 1, sec |-> 0, nsec |-> 0, prios |-> 1, reset |-> 1,
                  streams |-> 1, gate |-> 0, list |-> 1],
         qbu |-> [en |-> 0, size |-> 0], qci |-> [first |-> 0, rest |-> 0],
         qav |-> [num |-> 1, queues |-> Missing], rx |-> [check |-> 1, id |-> 0],
         ptp |-> [prioq |-> 0], ldb |-> [len |-> 0]],
     from |-> Empty.from]

-----------------------------------------------------------------------------
(* The library.  A get answers <<TRUE, what the device has>>, or <<FALSE,  *)
(* what it left in memory>> if it fails.                                   *)
Fails(conf) == {<<FALSE, conf>>}

get_qbv_conf(conf) == {<<TRUE, driver.qbv>>, <<FALSE, All("qbv", 0)>>} \cup Fails(conf)
get_qbu_conf(conf) == {<<TRUE, driver.qbu>>} \cup Fails(conf)
get_rx_port_id(conf) == {<<TRUE, driver.rx>>} \cup Fails(conf)
get_tx_ptp_prioq(conf) == {<<TRUE, driver.ptp>>} \cup Fails(conf)
get_length_deduct_byte(conf) == {<<TRUE, driver.ldb>>} \cup Fails(conf)

get_caps == {<<TRUE, ver>>, <<FALSE, 0>>}

(* The driver serves the QCI layout of its core only.                      *)
get_qci_conf(conf) ==
    Fails(conf) \cup IF ver = 2 THEN {<<TRUE, driver.qci>>} ELSE {}
get_qci_conf_v3(conf) ==
    Fails(conf) \cup IF ver = 3 THEN {<<TRUE, driver.qci>>} ELSE {}
get_qav_conf(conf) ==
    Fails(conf) \cup IF ver = 3 THEN {<<TRUE, driver.qav>>} ELSE {}

(* Any value in memory never written may look like one of version 3.       *)
qbv_conf_has_v3_only_fields(conf) ==
    {r \in BOOLEAN : IF r THEN \E f \in {"reset", "streams"} : conf[f] # 0
                     ELSE \A f \in {"reset", "streams"} : conf[f] \in {0, Junk}}

(* Mutant: what version 2 has no room for is not refused, only left out.   *)
set_qbv_unasked(conf) ==
    IF ver = 3 THEN {conf} ELSE {[conf EXCEPT !.cycle = Low(@), !.reset = 0, !.streams = 0]}

(* A set gives what the device has then, or nothing if it is refused.      *)
set_qbv_conf(conf) ==
    IF ver = 3 THEN {conf}
    ELSE IF FALSE \in qbv_conf_has_v3_only_fields(conf)
    THEN {[conf EXCEPT !.cycle = Low(@), !.reset = 0, !.streams = 0]} ELSE {}

set_qbu_conf(conf) == {conf}
set_rx_port_id(conf) == {conf}
set_tx_ptp_prioq(conf) == {conf}
set_length_deduct_byte(conf) == {conf}
set_qci_conf(conf) == IF ver = 2 THEN {[conf EXCEPT !.rest = 0]} ELSE {}
set_qci_conf_v3(conf) == IF ver = 3 THEN {conf} ELSE {}

(* As many queues are sent as there are said to be.                        *)
set_qav_conf(conf) ==
    IF ver # 3 THEN {}
    ELSE IF conf["num"] = 0 THEN {All("qav", 0)} ELSE {conf}

Get(me, s, conf) ==
    CASE s = "qbv" -> get_qbv_conf(conf)
      [] s = "qbu" -> get_qbu_conf(conf)
      [] s = "qci" /\ ~me.v3 -> get_qci_conf(conf)
      [] s = "qci" /\ me.v3 -> get_qci_conf_v3(conf)
      [] s = "qav" -> get_qav_conf(conf)
      [] s = "rx" -> get_rx_port_id(conf)
      [] s = "ptp" -> get_tx_ptp_prioq(conf)
      [] s = "ldb" -> get_length_deduct_byte(conf)

Set(me, s, conf) ==
    CASE s = "qbv" -> set_qbv_conf(conf)
      [] s = "qbu" -> set_qbu_conf(conf)
      [] s = "qci" /\ ~me.v3 -> set_qci_conf(conf)
      [] s = "qci" /\ me.v3 -> set_qci_conf_v3(conf)
      [] s = "qav" -> set_qav_conf(conf)
      [] s = "rx" -> set_rx_port_id(conf)
      [] s = "ptp" -> set_tx_ptp_prioq(conf)
      [] s = "ldb" -> set_length_deduct_byte(conf)

(* A process goes on as r.                                                 *)
Go(p, r) == proc' = [proc EXCEPT ![p] = r]

(* The driver may fail the request too; no caller looks at the answer.     *)
Request(me, s, conf, by, from) ==
    \/ UNCHANGED <<driver, log>>
    \/ \E value \in Set(me, s, conf) :
          /\ driver' = [driver EXCEPT ![s] = value]
          /\ log' = [by |-> by, s |-> s, asked |-> conf, value |-> value, before |-> driver[s],
                     base |-> me.base, got |-> me.got, typed |-> me.typed,
                     from |-> from]

-----------------------------------------------------------------------------
(* auto_detect_caps: without an answer the tool takes the core for one of  *)
(* version 2.                                                              *)
Detected == {r[1] /\ r[2] = 3 : r \in get_caps}

Start(p, what) ==
    /\ proc[p].pc = "idle" /\ commands < MaxCommands
    /\ commands' = commands + 1
    /\ \E v3 \in Detected : Go(p, [what EXCEPT !.v3 = v3])
    /\ UNCHANGED <<ver, driver, file, log>>

(* --set: there is nothing to set the QAV queues with.                     *)
StartSet(p, s, edit) ==
    s # "qav" /\ Start(p, [Idle EXCEPT !.pc = IF edit THEN "get" ELSE "input", !.s = s,
                                       !.edit = edit, !.conf = All(s, Junk)])

(* The result of the get is not looked at.                                 *)
EditGet(p) ==
    /\ proc[p].pc = "get"
    /\ \E r \in Get(proc[p], proc[p].s, proc[p].conf) :
          Go(p, [proc[p] EXCEPT !.pc = "input", !.got = r[1], !.conf = r[2], !.base = r[2]])
    /\ UNCHANGED <<ver, driver, file, log, commands>>

(* unsigned_integer_input, y_n_input and mac_addr_input: without an answer *)
(* the value is the one shown, of which a number has 32 bits.              *)
unsigned_integer_input(typed, f, conf, n) == IF f \in typed THEN n ELSE Low(conf[f])
y_n_input(typed, f, conf, n) == IF f \in typed THEN n ELSE conf[f]
mac_addr_input(typed, f, conf, n) == IF f \in typed THEN n ELSE conf[f]

(* What input_tsn_conf makes of one kind of section; n is what is typed.   *)
InputQbv(typed, conf, n) ==
    [f \in Fields("qbv") |->
        IF f \in {"reset", "streams"} THEN conf[f]
        ELSE unsigned_integer_input(typed, f, conf, n)]

(* Mutant: the size is set whether it was asked for or not.                *)
InputQbuAlways(typed, conf, n) ==
    [f \in Fields("qbu") |-> IF f \in typed THEN n ELSE 0]

InputQbu(typed, conf, n) ==
    LET en == y_n_input(typed, "en", conf, n)
    IN  [en |-> en, size |-> IF en # 0 THEN unsigned_integer_input(typed, "size", conf, n)
                             ELSE conf["size"]]

(* The layout of version 2, whatever the core.                             *)
InputQci(typed, conf, n) == [conf EXCEPT !.first = mac_addr_input(typed, "first", conf, n)]

(* The id that is not asked for becomes the answer to the question before. *)
InputRx(typed, conf, n) ==
    LET check == y_n_input(typed, "check", conf, n)
    IN  [check |-> check, id |-> IF check # 0 THEN unsigned_integer_input(typed, "id", conf, n)
                                 ELSE check]

InputMisc(s, typed, conf, n) ==
    [f \in Fields(s) |-> unsigned_integer_input(typed, f, conf, n)]

input_tsn_conf(s, typed, conf, n) ==
    CASE s = "qbv" -> InputQbv(typed, conf, n)
      [] s = "qbu" -> InputQbu(typed, conf, n)
      [] s = "qci" -> InputQci(typed, conf, n)
      [] s = "rx" -> InputRx(typed, conf, n)
      [] OTHER -> InputMisc(s, typed, conf, n)

(* What is asked for, given the answer n to what is typed of it.           *)
Asked(s, typed, conf, n) ==
    CASE s = "qbv" -> Fields("qbv") \ {"reset", "streams"}
      [] s = "qbu" -> IF y_n_input(typed, "en", conf, n) = 0 THEN {"en"} ELSE {"en", "size"}
      [] s = "qci" -> {"first"}
      [] s = "rx" -> IF y_n_input(typed, "check", conf, n) = 0 THEN {"check"} ELSE {"check", "id"}
      [] OTHER -> Fields(s)

(* Of the numbers that are in range, none and one.                         *)
Answers == {0, 1}

(* Only in edit mode may an answer be empty.  A list that is made longer   *)
(* has an entry never written.                                             *)
Input(p) ==
    /\ proc[p].pc = "input"
    /\ \E typed \in SUBSET Fields(proc[p].s), n \in Answers, grow \in BOOLEAN :
          LET me == proc[p]
              asked == Asked(me.s, typed, me.conf, n)
              conf == input_tsn_conf(me.s, typed, me.conf, n)
          IN  /\ typed \subseteq asked /\ (~me.edit => typed = asked)
              /\ me.s = "qbv" /\ me.edit => Cardinality(typed) <= 1
              /\ grow => me.s = "qbv" /\ me.edit /\ typed = {} /\ me.conf["list"] = 0
              /\ Go(p, [me EXCEPT !.pc = "set", !.typed = IF grow THEN {"list"} ELSE typed,
                                  !.conf = IF grow THEN [conf EXCEPT !.list = Junk] ELSE conf])
    /\ UNCHANGED <<ver, driver, file, log, commands>>

SetConfig(p) ==
    /\ proc[p].pc = "set"
    /\ LET me == proc[p]
       IN  Request(me, me.s, me.conf, IF me.edit THEN "edit" ELSE "new", NoSection)
    /\ Go(p, Idle)
    /\ UNCHANGED <<ver, file, commands>>

-----------------------------------------------------------------------------
(* What display_tsn_conf writes of a section.  A gate state shown as CSV   *)
(* goes under a name that no import looks for.                             *)
QbvJson(conf, csv) ==
    [conf EXCEPT !.streams = Missing, !.gate = IF csv THEN Missing ELSE @]
QbuJson(conf) == [conf EXCEPT !.en = Bool(@)]
QavJson(conf) == [conf EXCEPT !.queues = Missing]
RxJson(conf) == [conf EXCEPT !.check = Bool(@)]

(* The table of version 3 is printed, and is not in the file.              *)
QciJson(me, conf) == IF me.v3 THEN NoSection ELSE conf

display_tsn_conf(me, s, conf) ==
    CASE s = "qbv" -> QbvJson(conf, me.csv)
      [] s = "qbu" -> QbuJson(conf)
      [] s = "qci" -> QciJson(me, conf)
      [] s = "qav" -> QavJson(conf)
      [] s = "rx" -> RxJson(conf)
      [] OTHER -> conf

GetOrder == <<"qbv", "qbu", "qci", "ptp", "rx", "ldb", "qav">>
ImportOrder == <<"qci", "qbu", "qbv", "qav", "rx", "ptp", "ldb">>
First(order, some) ==
    order[CHOOSE i \in DOMAIN order :
              order[i] \in some /\ \A j \in 1..(i - 1) : order[j] \notin some]

(* --get of some sections with --export-conf-file.                         *)
StartExport(p, todo, csv) ==
    Start(p, [Idle EXCEPT !.pc = "export", !.todo = todo, !.csv = csv])

(* A section that cannot be read is left out.                              *)
ExportGet(p) ==
    /\ proc[p].pc = "export"
    /\ LET me == proc[p]
           s == First(GetOrder, me.todo)
           rest == [me EXCEPT !.s = s, !.todo = @ \ {s}]
       IN  \E r \in Get(me, s, All(s, 0)) :
             Go(p, IF r[1] THEN [rest EXCEPT !.pc = "open", !.conf = r[2]]
                   ELSE IF rest.todo = {} THEN Idle ELSE rest)
    /\ UNCHANGED <<ver, driver, file, log, commands>>

(* --get=all reads all and stops at the QAV section, which has no memory.  *)
GetAll(p) == Start(p, Idle)

(* fopen with w+: nothing is in the file until it is closed.               *)
Open(p) ==
    /\ proc[p].pc \in {"open", "openstamp"}
    /\ file' = Empty
    /\ Go(p, [proc[p] EXCEPT !.pc = IF @ = "open" THEN "close" ELSE "closestamp"])
    /\ UNCHANGED <<ver, driver, log, commands>>

(* The file that holds the export of one section, and what the device had  *)
(* of it.                                                                  *)
ExportOf(me, s, conf) ==
    LET json == display_tsn_conf(me, s, conf)
        seen == IF json = NoSection THEN NoSection
                ELSE [f \in DOMAIN json |-> IF json[f] = Missing THEN Missing ELSE conf[f]]
    IN  [Empty EXCEPT !.json[s] = json, !.from[s] = seen]

(* The next section goes to the same file.                                 *)
ExportClose(p) ==
    /\ proc[p].pc = "close"
    /\ LET me == proc[p]
       IN  /\ file' = ExportOf(me, me.s, me.conf)
           /\ Go(p, IF me.todo = {} THEN Idle ELSE [me EXCEPT !.pc = "export"])
    /\ UNCHANGED <<ver, driver, log, commands>>

-----------------------------------------------------------------------------
(* What the import makes of a section.  Of a queue, prios is not looked    *)
(* for, nor are its stream ids on a device without.                        *)
Given(x) == IF x = Missing THEN 0 ELSE x
ParsePrioq(me, json, f) == IF f = "streams" /\ me.v3 THEN Given(json[f]) ELSE 0
ParseGcl(json, f) == Saturated(Given(json[f]))

(* Mutant: numbers are taken for the double they are, cut to 32 bits.      *)
ParseQbvCut(me, json) ==
    [f \in Fields("qbv") |->
        CASE f \in {"prios", "streams"} -> ParsePrioq(me, json, f)
          [] OTHER -> Low(Given(json[f]))]

ParseQbv(me, json) ==
    [f \in Fields("qbv") |->
        CASE f \in {"prios", "streams"} -> ParsePrioq(me, json, f)
          [] f \in {"gate", "list"} -> ParseGcl(json, f)
          [] f = "cycle" -> json[f]
          [] OTHER -> Saturated(Given(json[f]))]

ParseQbu(json) == [json EXCEPT !.en = Bool(@)]
ParseRx(json) == [json EXCEPT !.check = Bool(@)]

(* Queues that are not in the file are what the memory holds.              *)
ParseQav(json) == [json EXCEPT !.queues = IF @ = Missing THEN Junk ELSE @]

(* The layout of version 2 is one stream; with stream ids it is a table of *)
(* ports, of which what is not given is cleared.                           *)
parse_qci_v1_sa(json) == [json EXCEPT !.rest = 0]
parse_psfp_stream_fields(json) == [f \in Fields("qci") |-> Given(json[f])]
ParseQci(me, json) ==
    IF me.v3 THEN parse_psfp_stream_fields(json) ELSE parse_qci_v1_sa(json)

Parsed(me, s, json) ==
    CASE s = "qbv" -> ParseQbv(me, json)
      [] s = "qbu" -> ParseQbu(json)
      [] s = "qci" -> ParseQci(me, json)
      [] s = "qav" -> ParseQav(json)
      [] s = "rx" -> ParseRx(json)
      [] OTHER -> json

StartImport(p) == Start(p, [Idle EXCEPT !.pc = "read"])

(* A file that is being written is no JSON.                                *)
ImportRead(p) ==
    /\ proc[p].pc = "read"
    /\ LET present == {s \in Sections : file.json[s] # NoSection}
       IN  Go(p, IF present = {} THEN Idle
                 ELSE [proc[p] EXCEPT !.pc = "import", !.text = file, !.todo = present])
    /\ UNCHANGED <<ver, driver, file, log, commands>>

ImportSection(p) ==
    /\ proc[p].pc = "import"
    /\ LET me == proc[p]
           s == First(ImportOrder, me.todo)
       IN  /\ Request(me, s, Parsed(me, s, me.text.json[s]), "import", me.text.from[s])
           /\ Go(p, IF me.todo = {s} THEN Idle ELSE [me EXCEPT !.todo = @ \ {s}])
    /\ UNCHANGED <<ver, file, commands>>

(* A table of ports that no tool exported has no address for the layout of *)
(* version 2: the tool reads through a null pointer, before any other      *)
(* section is set.                                                         *)
ImportCrash(p) ==
    /\ proc[p].pc = "import" /\ ~proc[p].v3 /\ "qci" \in proc[p].todo
    /\ proc[p].text.from["qci"] = NoSection
    /\ Go(p, Idle)
    /\ UNCHANGED <<ver, driver, file, log, commands>>

-----------------------------------------------------------------------------
(* The base time tool.                                                     *)
carried[t \in Int \X Int] ==
    IF t[2] >= NSEC_PER_SEC THEN carried[<<t[1] + 1, t[2] - NSEC_PER_SEC>>] ELSE t
borrowed[t \in Int \X Int] ==
    IF t[2] <= -NSEC_PER_SEC THEN borrowed[<<t[1] - 1, t[2] + NSEC_PER_SEC>>] ELSE t
timespec_normalise(ts) ==
    LET n == borrowed[carried[ts]]
    IN  IF n[2] < 0 THEN <<n[1] - 1, NSEC_PER_SEC + n[2]>> ELSE n

(* Mutant: the sum is not normalised.                                      *)
timespec_add_raw(ts1, ts2) ==
    LET a == timespec_normalise(ts1)
        b == timespec_normalise(ts2)
    IN  <<a[1] + b[1], a[2] + b[2]>>

timespec_add(ts1, ts2) ==
    LET a == timespec_normalise(ts1)
        b == timespec_normalise(ts2)
    IN  timespec_normalise(<<a[1] + b[1], a[2] + b[2]>>)

RoundedUp(ts) == IF ts[2] # 0 THEN <<ts[1] + 1, 0>> ELSE ts

StartStamp(p) == Start(p, [Idle EXCEPT !.pc = "stamp"])

(* phc_open: a clock, or CLOCK_INVALID.                                    *)
phc_open == BOOLEAN

(* A clock that does not answer is not noticed: the time is then that of   *)
(* memory never written.                                                   *)
Stamp(p) ==
    /\ proc[p].pc = "stamp"
    /\ \/ /\ file.json["qbv"] = NoSection
          /\ Go(p, Idle)
          /\ UNCHANGED log
       \/ /\ file.json["qbv"] # NoSection
          /\ \E now \in Clock, off \in Offsets, round \in BOOLEAN, ok \in phc_open :
               LET sum == timespec_add(now, off)
                   ts == IF ~ok THEN <<Junk, Junk>> ELSE IF round THEN RoundedUp(sum) ELSE sum
                   text == [file EXCEPT !.json["qbv"].sec = ts[1], !.json["qbv"].nsec = ts[2],
                                        !.from["qbv"] = NoSection]
               IN  /\ Go(p, [proc[p] EXCEPT !.pc = "openstamp", !.text = text])
                   /\ log' = [by |-> "stamp", now |-> now, off |-> off,
                              round |-> round, ok |-> ok, ts |-> ts]
    /\ UNCHANGED <<ver, driver, file, commands>>

StampClose(p) ==
    /\ proc[p].pc = "closestamp"
    /\ file' = proc[p].text
    /\ Go(p, Idle)
    /\ UNCHANGED <<ver, driver, log, commands>>

-----------------------------------------------------------------------------
(* A file that an earlier command exported from the device.                *)
ExportedBefore ==
    {ExportOf([Idle EXCEPT !.v3 = ver = 3], s, Configured(ver)[s]) : s \in Earlier}

Init ==
    /\ ver \in {2, 3}
    /\ driver = Configured(ver)
    /\ file \in {Empty, Written} \cup ExportedBefore
    /\ proc = [p \in Procs |-> Idle]
    /\ log = NoLog
    /\ commands = 0

Next ==
    \E p \in Procs :
       \/ \E s \in Sections, edit \in BOOLEAN : StartSet(p, s, edit)
       \/ EditGet(p) \/ Input(p) \/ SetConfig(p)
       \/ \E s, t \in Sections, csv \in BOOLEAN : StartExport(p, {s, t}, csv)
       \/ GetAll(p) \/ ExportGet(p) \/ Open(p) \/ ExportClose(p)
       \/ StartImport(p) \/ ImportRead(p) \/ ImportSection(p) \/ ImportCrash(p)
       \/ StartStamp(p) \/ Stamp(p) \/ StampClose(p)

Spec == Init /\ [][Next]_vars

-----------------------------------------------------------------------------
(* Whoever sets a core of version 2, and from whatever file or memory: it  *)
(* gets nothing only version 3 has, no cycle beyond 32 bits, no queues.    *)
VersionFits ==
    ver = 2 => /\ driver.qbv.reset = 0 /\ driver.qbv.streams = 0
               /\ driver.qbv.cycle < Word
               /\ driver.qci.rest = 0 /\ driver.qav = Configured(2).qav

(* And it was asked for nothing of the kind: such a request is refused,    *)
(* not cut to what there is room for (qbv_conf_has_v3_only_fields).        *)
NothingDropped ==
    ver = 2 /\ log.by \in {"new", "edit", "import"} /\ log.s = "qbv"
        => \A f \in {"reset", "streams"} : log.asked[f] \in {0, Junk}

(* The types, that the device holds what its core has room for, and that   *)
(* it was asked for no more.                                               *)
TypeOK ==
    /\ ver \in {2, 3} /\ commands \in 0..MaxCommands
    /\ \A s \in Sections : driver[s] \in [Fields(s) -> Int]
    /\ \A s \in Sections : file.json[s] = NoSection \/ DOMAIN file.json[s] = Fields(s)
    /\ \A p \in Procs : /\ proc[p].todo \subseteq Sections
                        /\ proc[p].pc \in {"get", "input", "set", "close"}
                               => DOMAIN proc[p].conf = Fields(proc[p].s)
    /\ VersionFits /\ NothingDropped

(* What was exported comes back when the file is imported, whatever the    *)
(* device was set to since: all of it that is in the file, up to what an   *)
(* import does not take from it and to numbers that valueint cannot hold.  *)
Lost(l, f) ==
    \/ l.from[f] = Missing \/ f = "prios"
    \/ l.s = "qbv" /\ f # "cycle" /\ l.from[f] > IntMax

(* A flag comes back as on or off, whatever byte stood for on.             *)
Flags == {"en", "check"}
Kept(l, f) == IF f \in Flags THEN Bool(l.from[f]) ELSE l.from[f]

Restores ==
    log.by = "import" /\ log.from # NoSection
        => \A f \in Fields(log.s) : Lost(log, f) \/ log.value[f] = Kept(log, f)

(* An edit of what was read keeps what no answer was typed for, to 32      *)
(* bits; but the port id whose check is off, and on version 2 nothing of   *)
(* version 3.                                                              *)
EditKeeps ==
    log.by = "edit" /\ log.got
        => \A f \in Fields(log.s) \ log.typed :
              \/ log.value[f] = Low(log.base[f])
              \/ log.s = "rx" /\ f = "id" /\ log.value["check"] = 0

(* The base time is a time, and the one the clock showed plus the offset,  *)
(* up to the next second if rounded.                                       *)
Nanoseconds(ts) == ts[1] * NSEC_PER_SEC + ts[2]
BaseTimeRight ==
    log.by = "stamp" /\ log.ok =>
        LET sum == Nanoseconds(log.now) + Nanoseconds(log.off)
        IN  /\ log.ts[2] \in 0..(NSEC_PER_SEC - 1)
            /\ IF log.round
               THEN /\ log.ts[2] = 0
                    /\ Nanoseconds(log.ts) - sum \in 0..(NSEC_PER_SEC - 1)
               ELSE Nanoseconds(log.ts) = sum

(* What the README says of edit mode: the parameters that are not edited   *)
(* are unchanged.                                                          *)
EditUnchanged ==
    log.by = "edit" /\ log.got
        => \A f \in Fields(log.s) \ log.typed : log.value[f] = log.before[f]
=============================================================================
