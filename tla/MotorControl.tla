---------------------------- MODULE MotorControl ----------------------------
(***************************************************************************)
(* The web dashboard (motor-control-bldc/app/gui.py), the ROS 2 service    *)
(* that owns the motors (app/sub.py) and the topics between them.  Button  *)
(* and slider commands travel on motor_command, parameter operations on    *)
(* motor_param_request and motor_param_response: three independent queues  *)
(* of a bounded depth that forget the oldest message when they are full.   *)
(* The service handles one message at a time, from either queue.           *)
(*                                                                         *)
(* The history variable good holds a pair <<m, op>> while the last message *)
(* of kind op the dashboard sent for motor m has not been lost.            *)
(***************************************************************************)
EXTENDS MotorLib, Sequences

CONSTANTS
  Motors,          \* the motors in use, among "bldc" and "stepper"
  Specs,           \* Specs[m]: the specs a user may enter
  Gains,           \* the tuning values a user may enter
  Speeds,          \* Speeds[m]: the speeds a user may choose or enter
  Steps,           \* the step counts a user may enter
  UINT_MAX,        \* the largest uint32_t, 4294967295
  Depth,           \* history depth of the topics (10 in the code)
  MaxInputs,       \* bound: inputs of the user
  MaxRestarts      \* bound: ends of the service process

ASSUME MotorsAssumption == Motors \subseteq {"bldc", "stepper"}
ASSUME BoundAssumption  == Depth \in Nat \ {0} /\ MaxInputs \in Nat /\ MaxRestarts \in Nat
ASSUME WidthAssumption  == UINT_MAX \in Nat
\* A rating of 0 is left out: the library divides by it unchecked.
ASSUME SpecAssumption   == \A m \in Motors : Specs[m] \subseteq Int \ {0}
ASSUME InputAssumption  == /\ Gains \subseteq Int /\ Steps \subseteq Int
                           /\ \A m \in Motors : Speeds[m] \subseteq Int

VARIABLES
  gui,       \* [m -> widgets of the panel of m]
  timers,    \* [m -> [live, tracked]]: pending slider callbacks
  handlers,  \* response_handlers: ids of requests with a callback
  armed,     \* [m -> the refresh timeout of m is scheduled]
  cmdq, reqq, respq,   \* the topics, oldest message first
  svc,       \* "up", "down"
  obj,       \* [m -> Motor object of the service]
  reg,       \* [m -> registers of the motor]
  good,      \* history, see above
  dirBy,     \* history: [m -> what settled the direction last: "dir", a
             \* START or a direction command; "apply"; "init"]
  refused,   \* history: <<m, op>> if the service refused the last such request
             \* and the panel was not refreshed since
  overtaken, \* history: [m -> a SET was sent while a GET was outstanding]
  edited,    \* history: [m -> inputs were changed since the last SET or refresh]
  inputs, restarts     \* counters for the bounds

guiVars   == <<gui, timers, handlers, armed, edited, overtaken>>
motorVars == <<obj, reg, dirBy>>
topics    == <<cmdq, reqq, respq, good, refused>>
vars == <<gui, timers, handlers, armed, cmdq, reqq, respq, svc, obj, reg, good,
          dirBy, refused, overtaken, edited, inputs, restarts>>

Ops == {"start", "dir", "rpm", "set_specs", "set_params", "apply", "get_all"}

(* rpm_to_slew_cnt: always with 64 microsteps and 200 steps. *)
RpmToSlew(rpm) ==
  IF rpm <= 0 THEN 79
  ELSE Clamp(SlewCount(rpm, DefaultSpec["stepper"]), StepperSpeedMin, StepperSpeedMax)

(* The ends of the sliders. *)
SliderMin == 20
SliderMax(m) == IF m = "bldc" THEN 4000 ELSE 100

Init ==
  /\ gui = [m \in Motors |->
       [run |-> FALSE, dir |-> 1, slider |-> IF m = "bldc" THEN 2000 ELSE 100,
        spec |-> DefaultSpec[m], gain |-> DefaultGain, rpm |-> DefaultRpm,
        steps |-> DefaultSteps, status |-> "ready"]]
  /\ timers = [m \in Motors |-> [live |-> 0, tracked |-> FALSE]]
  /\ handlers = {} /\ armed = [m \in Motors |-> FALSE]
  /\ cmdq = <<>> /\ reqq = <<>> /\ respq = <<>>
  /\ svc = "up"
  /\ obj = [m \in Motors |-> NewMotor(m)]
  /\ reg = [m \in Motors |-> InitRegs(m,
       [start |-> 0, stop |-> 0, dir |-> 0, speed |-> 0, rated |-> 0, gain |-> 0])]
  /\ good = {} /\ refused = {} /\ dirBy = [m \in Motors |-> "init"]
  /\ overtaken = [m \in Motors |-> FALSE] /\ edited = [m \in Motors |-> FALSE]
  /\ inputs = 0 /\ restarts = 0

-----------------------------------------------------------------------------
(* Publishing.  A message for a service that is down reaches nobody; a     *)
(* full queue forgets its oldest messages.                                 *)

(* Mutant: the depth of the history is off by one.                         *)
NewestPlusOne(q) == SubSeq(q, IF Len(q) > Depth + 1 THEN Len(q) - Depth ELSE 1, Len(q))

Newest(q)   == SubSeq(q, IF Len(q) > Depth THEN Len(q) - Depth + 1 ELSE 1, Len(q))

(* Mutant: later messages are delivered before earlier ones.               *)
DeliverFirst(q, msgs) == IF svc = "up" THEN Newest(msgs \o q) ELSE q

Deliver(q, msgs) == IF svc = "up" THEN Newest(q \o msgs) ELSE q
Kinds(q)    == {<<q[i].m, q[i].op>> : i \in DOMAIN q}
Lost(q, msgs) == Kinds(q \o msgs) \ Kinds(Deliver(q, msgs))

(* send_command and send_param_request, for the messages of one handler. *)
Send(cmds, reqs) ==
  /\ cmdq' = Deliver(cmdq, cmds)
  /\ reqq' = Deliver(reqq, reqs)
  /\ good' = (good \union Kinds(cmds) \union Kinds(reqs))
                \ (Lost(cmdq, cmds) \union Lost(reqq, reqs)
                     \union IF svc = "up" THEN {} ELSE Kinds(cmds) \union Kinds(reqs))
  /\ UNCHANGED <<respq, refused>>

Command(m, op, val) == [m |-> m, op |-> op, val |-> val]
Request(m, op, id) ==
  [m |-> m, op |-> op, id |-> id, spec |-> gui[m].spec, gain |-> gui[m].gain,
   rpm |-> gui[m].rpm, steps |-> gui[m].steps]

(* bldc_schedule_update, stepper_schedule_update: the callback the handle  *)
(* refers to is replaced.  Callbacks fire in the order they were set.      *)
Schedule(t) == [live |-> IF t.tracked THEN t.live ELSE t.live + 1, tracked |-> TRUE]

(* Mutant: a slider moved by the program does not send its speed.          *)
MoveToSilently(m, v) == timers' = timers

(* Assigning the slider calls the schedule_update handler if it moves. *)
MoveTo(m, v) ==
  timers' = IF v = gui[m].slider THEN timers ELSE [timers EXCEPT ![m] = Schedule(@)]

Outstanding(m) == \E h \in handlers : h[2] = m

-----------------------------------------------------------------------------
(* The user.  Each input counts against the bound. *)

UserInput == inputs < MaxInputs /\ inputs' = inputs + 1 /\ UNCHANGED <<svc, motorVars, restarts>>

(* Mutant: the direction is not sent again.                                *)
StartButtonAlone(m) ==
  /\ UserInput
  /\ gui' = [gui EXCEPT ![m].run = TRUE]
  /\ Send(<<Command(m, "start", 1)>>, <<>>)
  /\ UNCHANGED <<timers, handlers, armed, edited, overtaken>>

(* *_start_on_change: start, and the direction once more. *)
StartButton(m) ==
  /\ UserInput
  /\ gui' = [gui EXCEPT ![m].run = TRUE]
  /\ Send(<<Command(m, "start", 1), Command(m, "dir", gui[m].dir)>>, <<>>)
  /\ UNCHANGED <<timers, handlers, armed, edited, overtaken>>

(* *_stop_on_change *)
StopButton(m) ==
  /\ UserInput
  /\ gui' = [gui EXCEPT ![m].run = FALSE]
  /\ Send(<<Command(m, "start", 0)>>, <<>>)
  /\ UNCHANGED <<timers, handlers, armed, edited, overtaken>>

(* *_rev_on_change *)
DirectionButton(m) ==
  /\ UserInput
  /\ gui' = [gui EXCEPT ![m].dir = 1 - @]
  /\ Send(<<Command(m, "dir", 1 - gui[m].dir)>>, <<>>)
  /\ UNCHANGED <<timers, handlers, armed, edited, overtaken>>

(* The user drags the slider. *)
MoveSlider(m) ==
  /\ UserInput
  /\ \E v \in Speeds[m] \ {gui[m].slider} :
       /\ SliderMin <= v /\ v <= SliderMax(m)
       /\ gui' = [gui EXCEPT ![m].slider = v]
       /\ MoveTo(m, v)
  /\ UNCHANGED <<topics, handlers, armed, edited, overtaken>>

(* The user types into the configuration panel. *)
EditInputs(m) ==
  /\ UserInput
  /\ \E s \in Specs[m], g \in Gains :
       \E r \in IF m = "stepper" THEN Speeds[m] ELSE {DefaultRpm},
          n \in IF m = "stepper" THEN Steps ELSE {DefaultSteps} :
         gui' = [gui EXCEPT ![m].spec = s, ![m].gain = g, ![m].rpm = r, ![m].steps = n]
  /\ edited' = [edited EXCEPT ![m] = TRUE]
  /\ UNCHANGED <<topics, timers, handlers, armed, overtaken>>

(* apply_*_params: three requests and, on the other topic, the speed of    *)
(* the slider.  The stepper's slider then follows the typed speed.         *)
SetButton(m) ==
  /\ UserInput
  /\ LET v == IF m = "bldc" THEN gui[m].slider ELSE RpmToSlew(gui[m].slider)
         s == IF m = "bldc" THEN gui[m].slider
              ELSE Clamp(gui[m].rpm, SliderMin, SliderMax(m))
     IN /\ Send(<<Command(m, "rpm", v)>>,
                <<Request(m, "set_specs", 0), Request(m, "set_params", 0), Request(m, "apply", 0)>>)
        /\ gui' = [gui EXCEPT ![m].slider = s, ![m].status = "applied"]
        /\ MoveTo(m, s)
  /\ edited' = [edited EXCEPT ![m] = FALSE]
  /\ overtaken' = [overtaken EXCEPT ![m] = Outstanding(m)]
  /\ UNCHANGED <<handlers, armed>>

(* Mutant: no timeout is set.                                              *)
GetButtonUnarmed(m) ==
  /\ UserInput
  /\ handlers' = handlers \union {<<inputs', m>>}
  /\ Send(<<>>, <<Request(m, "get_all", inputs')>>)
  /\ gui' = [gui EXCEPT ![m].status = "refreshing"]
  /\ UNCHANGED <<timers, armed, edited, overtaken>>

(* refresh_*_params *)
GetButton(m) ==
  /\ UserInput
  /\ handlers' = handlers \union {<<inputs', m>>}
  /\ Send(<<>>, <<Request(m, "get_all", inputs')>>)
  /\ armed' = [armed EXCEPT ![m] = TRUE]
  /\ gui' = [gui EXCEPT ![m].status = "refreshing"]
  /\ UNCHANGED <<timers, edited, overtaken>>

(* set_bldc_defaults and set_stepper_defaults: the stepper's slider follows*)
BldcDefaults(g) ==
  [g EXCEPT !.spec = DefaultSpec["bldc"], !.gain = DefaultGain, !.status = "defaults"]
StepperDefaults(g) ==
  [g EXCEPT !.spec = DefaultSpec["stepper"], !.gain = DefaultGain, !.rpm = DefaultRpm,
            !.steps = DefaultSteps, !.slider = DefaultRpm, !.status = "defaults"]

DefaultsButton(m) ==
  /\ UserInput
  /\ LET g == IF m = "bldc" THEN BldcDefaults(gui[m]) ELSE StepperDefaults(gui[m])
     IN gui' = [gui EXCEPT ![m] = g] /\ MoveTo(m, g.slider)
  /\ edited' = [edited EXCEPT ![m] = TRUE]
  /\ UNCHANGED <<topics, handlers, armed, overtaken>>

-----------------------------------------------------------------------------
(* Callbacks of the dashboard. *)

Quietly == UNCHANGED <<svc, motorVars, inputs, restarts>>

(* The pending callbacks once the oldest has run; it clears the handle,    *)
(* even one that refers to a callback it has just scheduled.               *)
AfterFiring(t, moved) ==
  LET left    == t.live - 1
      replace == moved /\ t.tracked /\ left > 0
  IN [live |-> IF moved /\ ~replace THEN left + 1 ELSE left, tracked |-> FALSE]

(* apply_bldc_slider_value: the speed is clamped to the typed rating. *)
BldcSliderFires ==
  /\ "bldc" \in Motors /\ timers["bldc"].live > 0
  /\ LET g == gui["bldc"]
         v == IF g.slider > g.spec THEN g.spec ELSE g.slider
     IN /\ gui' = [gui EXCEPT !["bldc"].slider = v]
        /\ timers' = [timers EXCEPT !["bldc"] = AfterFiring(@, v # g.slider)]
        /\ Send(<<Command("bldc", "rpm", v)>>, <<>>)
  /\ Quietly /\ UNCHANGED <<handlers, armed, edited, overtaken>>

(* Mutant: the typed speed is sent instead of the slider's.                *)
StepperSliderStale ==
  /\ "stepper" \in Motors /\ timers["stepper"].live > 0
  /\ timers' = [timers EXCEPT !["stepper"] = AfterFiring(@, FALSE)]
  /\ gui' = [gui EXCEPT !["stepper"].rpm = gui["stepper"].slider]
  /\ Send(<<Command("stepper", "rpm", RpmToSlew(gui["stepper"].rpm))>>, <<>>)
  /\ Quietly /\ UNCHANGED <<handlers, armed, edited, overtaken>>

(* apply_stepper_slider_value: the typed speed follows the slider. *)
StepperSliderFires ==
  /\ "stepper" \in Motors /\ timers["stepper"].live > 0
  /\ timers' = [timers EXCEPT !["stepper"] = AfterFiring(@, FALSE)]
  /\ gui' = [gui EXCEPT !["stepper"].rpm = gui["stepper"].slider]
  /\ Send(<<Command("stepper", "rpm", RpmToSlew(gui["stepper"].slider))>>, <<>>)
  /\ Quietly /\ UNCHANGED <<handlers, armed, edited, overtaken>>

(* timeout_handler of refresh_*_params: the response handler stays. *)
RefreshTimeout(m) ==
  /\ armed[m]
  /\ armed' = [armed EXCEPT ![m] = FALSE]
  /\ gui' = [gui EXCEPT ![m].status = "timeout"]
  /\ Quietly /\ UNCHANGED <<topics, timers, handlers, edited, overtaken>>

(* param_response_callback, for a response nobody waits for. *)
ResponseIgnored ==
  /\ respq # <<>> /\ <<Head(respq).id, Head(respq).m>> \notin handlers
  /\ respq' = Tail(respq)
  /\ Quietly /\ UNCHANGED <<guiVars, cmdq, reqq, good, refused>>

(* handle_response of refresh_bldc_params and of refresh_stepper_params:   *)
(* the inputs are overwritten; the stepper's slider follows.               *)
BldcShown(g, r) == [g EXCEPT !.spec = r.spec, !.gain = r.gain, !.status = "refreshed"]
StepperShown(g, r) ==
  [g EXCEPT !.spec = r.spec, !.gain = r.gain, !.rpm = r.rpm, !.steps = r.steps,
            !.slider = Clamp(r.rpm, SliderMin, SliderMax("stepper")),
            !.status = "refreshed"]

(* param_response_callback, for a response somebody waits for. *)
ResponseHandled ==
  /\ respq # <<>>
  /\ LET r == Head(respq)
         m == r.m
         g == IF m = "bldc" THEN BldcShown(gui[m], r) ELSE StepperShown(gui[m], r)
     IN /\ <<r.id, m>> \in handlers
        /\ handlers' = handlers \ {<<r.id, m>>}
        /\ armed' = [armed EXCEPT ![m] = FALSE]
        /\ gui' = [gui EXCEPT ![m] = g]
        /\ MoveTo(m, g.slider)
        /\ edited' = [edited EXCEPT ![m] = FALSE]
        /\ refused' = {k \in refused : k[1] # m}
  /\ respq' = Tail(respq)
  /\ Quietly /\ UNCHANGED <<cmdq, reqq, good, overtaken>>

-----------------------------------------------------------------------------
(* The service. *)

(* handle_command *)
HandleCommand ==
  /\ svc = "up" /\ cmdq # <<>>
  /\ cmdq' = Tail(cmdq)
  /\ LET c == Head(cmdq)
         m == c.m
     IN \/ /\ c.op = "start" /\ c.val = 1
           /\ reg' = [reg EXCEPT ![m] = Start(ClearFault(@))]
           /\ dirBy' = [dirBy EXCEPT ![m] = "dir"]
           /\ UNCHANGED obj
        \/ /\ c.op = "start" /\ c.val # 1
           /\ reg' = [reg EXCEPT ![m] = ClearFault(Stop(@))]
           /\ UNCHANGED <<obj, dirBy>>
        \/ /\ c.op = "dir"
           /\ reg' = [reg EXCEPT ![m] = SetDirection(@, c.val)]
           /\ dirBy' = [dirBy EXCEPT ![m] = "dir"]
           /\ UNCHANGED obj
        \/ /\ c.op = "rpm" /\ SpeedInRange(m, c.val)
           /\ reg' = [reg EXCEPT ![m] = SetSpeedRegs(m, obj[m], @, c.val)]
           /\ obj' = [obj EXCEPT ![m] = SetSpeedObject(m, @, c.val)]
           /\ UNCHANGED dirBy
        \/ /\ c.op = "rpm" /\ ~SpeedInRange(m, c.val)
           /\ UNCHANGED motorVars
  /\ UNCHANGED <<guiVars, reqq, respq, good, refused, svc, inputs, restarts>>

(* _get_specs, _get_params, _get_all                                       *)
GetSpecs(o)  == [spec |-> o.spec]
GetParams(o) == [gain |-> o.gain, rpm |-> o.rpm, steps |-> o.steps]
GetAll(o)    == [specs |-> GetSpecs(o), params |-> GetParams(o)]

(* The answers to other requests name no handler, so what they say of the  *)
(* motor is seen by nobody.                                                *)
Respond(r, o) ==
  LET all == GetAll(o)
  IN respq' = Newest(Append(respq,
       [m |-> r.m, id |-> r.id, spec |-> all.specs.spec, gain |-> all.params.gain,
        rpm |-> all.params.rpm, steps |-> all.params.steps]))

(* Mutant: the rating is missing from the fields that are copied.          *)
SetSpecsForgets(o, r) == o

(* The numbers of a request are uint32_t members, but for the stepper's    *)
(* int32_t steps: the assignment of another number raises, and then        *)
(* nothing of the request is stored.  One typed number stands for each     *)
(* kind of member: spec for the ratings, gain for the tuning values.       *)
SpecsTaken(r) == r.spec \in 1 .. UINT_MAX      \* for 0 see SpecAssumption
ParamsTaken(m, r) ==
  /\ r.gain \in 0 .. UINT_MAX
  /\ m = "stepper" => /\ r.rpm \in 0 .. UINT_MAX
                      /\ r.steps + UINT_MAX \div 2 + 1 \in 0 .. UINT_MAX

(* _set_specs and _set_params *)
SetSpecs(o, r)     == IF SpecsTaken(r) THEN StoreSpecs(o, r.spec) ELSE o
SetParams(m, o, r) ==
  IF ParamsTaken(m, r) THEN StoreParams(m, o, r.gain, r.rpm, r.steps) ELSE o

(* The success field of the answer. *)
Answered(r, taken) ==
  refused' = IF taken THEN refused \ {<<r.m, r.op>>} ELSE refused \union {<<r.m, r.op>>}

(* _apply_params *)
ApplyParams(m, o) ==
  /\ obj' = [obj EXCEPT ![m] = ApplyObject(m, o)]
  /\ reg' = [reg EXCEPT ![m] = ApplyRegs(m, o, @)]
  /\ dirBy' = [dirBy EXCEPT ![m] = "apply"]

(* handle_param_request: every request is answered. *)
HandleParamRequest ==
  /\ svc = "up" /\ reqq # <<>>
  /\ reqq' = Tail(reqq)
  /\ LET r == Head(reqq)
         m == r.m
         o == obj[m]
     IN /\ Respond(r, o)
        /\ \/ /\ r.op = "set_specs"
              /\ obj' = [obj EXCEPT ![m] = SetSpecs(o, r)]
              /\ Answered(r, SpecsTaken(r)) /\ UNCHANGED <<reg, dirBy>>
           \/ /\ r.op = "set_params"
              /\ obj' = [obj EXCEPT ![m] = SetParams(m, o, r)]
              /\ Answered(r, ParamsTaken(m, r)) /\ UNCHANGED <<reg, dirBy>>
           \/ r.op = "apply" /\ ApplyParams(m, o) /\ UNCHANGED refused
           \/ r.op = "get_all" /\ UNCHANGED <<motorVars, refused>>
  /\ UNCHANGED <<guiVars, cmdq, good, svc, inputs, restarts>>

(* The service ends; what was queued for it is lost. *)
ServiceEnds ==
  /\ svc = "up" /\ restarts < MaxRestarts
  /\ svc' = "down" /\ restarts' = restarts + 1
  /\ cmdq' = <<>> /\ reqq' = <<>> /\ good' = {}
  /\ UNCHANGED <<guiVars, respq, refused, obj, dirBy, inputs>>

(* Interrupted or terminated: main's finally runs destroy_node. *)
DestroyNode ==
  /\ ServiceEnds
  /\ reg' = [m \in Motors |-> Stop(reg[m])]

(* kill -9, or a crash: the motors are left as they are. *)
ServiceKilled ==
  /\ ServiceEnds
  /\ UNCHANGED reg

(* __init__ of the service that is started next. *)
ServiceInit ==
  /\ svc = "down"
  /\ svc' = "up"
  /\ obj' = [m \in Motors |-> NewMotor(m)]
  /\ reg' = [m \in Motors |-> InitRegs(m, reg[m])]
  /\ dirBy' = [m \in Motors |-> "init"]
  /\ UNCHANGED <<guiVars, topics, inputs, restarts>>

-----------------------------------------------------------------------------
User ==
  \E m \in Motors :
    \/ StartButton(m) \/ StopButton(m) \/ DirectionButton(m) \/ MoveSlider(m)
    \/ EditInputs(m) \/ SetButton(m) \/ GetButton(m) \/ DefaultsButton(m)

Dashboard ==
  \/ BldcSliderFires \/ StepperSliderFires
  \/ \E m \in Motors : RefreshTimeout(m)
  \/ ResponseIgnored \/ ResponseHandled

Service == HandleCommand \/ HandleParamRequest \/ DestroyNode \/ ServiceKilled \/ ServiceInit

Next == User \/ Dashboard \/ Service

Spec == Init /\ [][Next]_vars

(* The event loop of the dashboard runs its callbacks and timers; the      *)
(* executor of the service rotates over its subscriptions.  Neither the    *)
(* user nor a restart of the service is fair.                              *)
FairSpec ==
  /\ Spec
  /\ WF_vars(BldcSliderFires) /\ WF_vars(StepperSliderFires)
  /\ \A m \in Motors : WF_vars(RefreshTimeout(m))
  /\ WF_vars(ResponseIgnored \/ ResponseHandled)
  /\ WF_vars(HandleCommand) /\ WF_vars(HandleParamRequest)

-----------------------------------------------------------------------------
(* No message of a kind is on its way for m. *)
Settled(m, op) == <<m, op>> \notin Kinds(cmdq) \union Kinds(reqq)

(* The types of the state.  Depth bounds the topics; at most two slider    *)
(* callbacks are pending, though clamping moves the slider inside its own  *)
(* callback and loses the handle.                                          *)
TypeOK ==
  /\ DOMAIN gui = Motors
  /\ \A m \in Motors :
       /\ gui[m].run \in BOOLEAN /\ gui[m].dir \in {0, 1} /\ gui[m].slider \in Int
       /\ timers[m].live \in 0 .. 2 /\ timers[m].tracked \in BOOLEAN
       /\ obj[m] \in Objects /\ reg[m] \in Registers
       /\ m = "stepper" => reg[m].speed \in StepperSpeedMin .. StepperSpeedMax
       /\ dirBy[m] \in {"init", "dir", "apply"}
  /\ \A q \in {cmdq, reqq, respq} : Len(q) <= Depth
  /\ svc \in {"up", "down"} /\ good \subseteq Motors \X Ops

(* START and STOP.  Once the last start or stop click of a panel has been  *)
(* handled, and was not lost on the way, the motor's START and STOP        *)
(* registers say what the panel says, whatever else was sent meanwhile.    *)
RunAgrees ==
  \A m \in Motors :
    <<m, "start">> \in good /\ Settled(m, "start")
      => ((reg[m].start = 1 /\ reg[m].stop = 0) <=> gui[m].run)

(* Direction.  An apply and a restart write the direction register behind  *)
(* the panel's back; START sends the direction again ("in case of          *)
(* mismatch").  So once a START or a direction command was handled after   *)
(* them, and no direction is on its way, the motor turns the way the panel *)
(* shows.                                                                  *)
DirAgrees ==
  \A m \in Motors :
    /\ <<m, "dir">> \in good /\ Settled(m, "dir") /\ dirBy[m] = "dir"
    => reg[m].dir = gui[m].dir

(* No move of the slider is forgotten: when no callback is pending, the    *)
(* last speed sent and handled is the slider's.  For the stepper SET and   *)
(* GET move the slider too, and apply writes the same register from the    *)
(* typed speed; the results agree if the user waits for the requests.      *)
SlewAgrees ==
  "stepper" \in Motors /\ <<"stepper", "rpm">> \in good
    /\ timers["stepper"].live = 0
    /\ (\A op \in {"rpm", "set_params", "apply"} : Settled("stepper", op))
  => reg["stepper"].speed = RpmToSlew(gui["stepper"].slider)

(* SET and GET.  When the last SET was neither lost nor overtaken by the   *)
(* answer to an older GET, and nothing was typed since, the panel shows    *)
(* what the service holds, unless the service refused that request.        *)
InputsAgree ==
  \A m \in Motors :
    /\ {<<m, "set_specs">>, <<m, "set_params">>} \subseteq good
    /\ Settled(m, "set_specs") /\ Settled(m, "set_params")
    /\ ~edited[m] /\ ~overtaken[m]
    => /\ <<m, "set_specs">> \notin refused  => gui[m].spec = obj[m].spec
       /\ <<m, "set_params">> \notin refused => gui[m].gain = obj[m].gain

(* A refresh ends: with an answer or with the timeout. *)
RefreshEnds == \A m \in Motors : gui[m].status = "refreshing" ~> gui[m].status # "refreshing"

(* A motor the panel shows stopped is stopped, if the service stays up and *)
(* the command is not pushed out of the queue.                             *)
StopArrives ==
  \A m \in Motors :
    ~gui[m].run /\ <<m, "start">> \in good
      ~> (reg[m].start = 0 \/ gui[m].run \/ <<m, "start">> \notin good)

(* The stepper settles at the speed its slider shows. *)
SpeedSettles ==
  "stepper" \in Motors => <>[](<<"stepper", "rpm">> \in good
     => reg["stepper"].speed = RpmToSlew(gui["stepper"].slider))

-----------------------------------------------------------------------------
(* What a comment of the dashboard says, and the code does not keep.       *)

Quiet(m) == \A op \in Ops : Settled(m, op)

(* "Re-send current slider speed so new parameters take effect": after SET *)
(* the speed reference is the slider's speed at the new rating.            *)
RefFollowsSet ==
  LET b == "bldc" IN
  b \in Motors /\ Quiet(b) /\ timers[b].live = 0
    /\ {<<b, "set_specs">>, <<b, "apply">>, <<b, "rpm">>} \subseteq good
  => reg[b].speed = RateLimitRef(gui[b].slider, SpeedScale(reg[b].rated))

=============================================================================
