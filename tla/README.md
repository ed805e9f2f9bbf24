# Models and proofs of the PolarFire SoC Linux applications

TLA+ models of the programs of this repository, the TLC configurations that
check them on small instances, and TLAPS proofs of their main properties for
every value of the constants.

    tlc -config Cam2Display.cfg MCCam2Display     # check one run
    tlapm Cam2Display_proofs.tla                  # check the proofs of a module

`PROJECT.json` relates every definition to the lines it models (`map`), every
property to a plausible bug of the code that would break it (`mutants`), and
lists the hazards the properties are aimed at.

## 1. The system

The repository holds independent applications for Linux on PolarFire SoC. They
share no code; the sixteen games share a copied display framework.

| Application | State it keeps | Operations | Talks to |
|---|---|---|---|
| `multimedia/cam2display-zerocopy` | `next_buffer_index`, `curr_buffer_index`, the quit flag; in the kernel the two V4L2 queues, the CRTC and a pending page flip | setup, `mainloop` (poll on stdin, camera, display), `page_flip_handler`, teardown | V4L2 capture driver (DQBUF/QBUF, dmabuf), DRM (dumb buffers, `drmModePageFlip`, events), signals |
| `multimedia/drm-games` (16 programs) | two rings of buffers (primary and overlay plane), one cursor buffer, `pflip_pending`, `quit`, and the state of the game | `drm_init`, the loop (input, `game_update`, draw, `drm_wait_flip`, `drm_atomic_flip`), `drm_cleanup` | DRM atomic API, evdev, signals |
| `multimedia/auto-gain-osd-h264` | the options; the camera's gain and the OSD number are in the driver | one loop: show the compression ratio, read the picture's sum, step the gain | V4L2 controls of the sensor and the OSD |
| `japll-pi-controller` | presets and "written" marks in `g_japll`, the integral, the line counter | read a line of `ptp4l`, run the PI controller, write the presets | UIO registers of a clock that runs meanwhile, `ptp4l` through a pipe, SIGINT |
| `motor-control-bldc` | dashboard: widgets, timers, `response_handlers`; service: two Motor objects; hardware: registers of both motors | buttons, sliders, inputs, SET/GET/Defaults; service handlers; library calls | three ROS 2 topics with a bounded history, UIO registers |
| `opcua` | nodes of two OPC-UA servers; the stream process and the camera settings; a motor script | two polling loops with awaits between every read and write; an operator writes nodes | OPC-UA, ffmpeg, V4L2 controls |
| `tsn` | configuration of the CoreTSN driver; JSON files | library get/set requests, command line tool with edit mode, base time tool | ioctl on a network interface, PTP clock |
| shell scripts (`gst-cam-display`, `drm-display-tests`, `raw-bayer-capture`, `rgb-jpeg-capture`, start scripts) | none | fixed sequences of commands | media-ctl, v4l2-ctl, modetest, GStreamer |

What is hard in each, and what makes it correct:

* **cam2display.** Ownership of a handful of buffers moves between two drivers
  and two index variables by three kinds of events in any order; the display is
  driven by the completion event of its own previous flip. Correct means: every
  buffer has exactly one owner, one flip is in flight, frames are shown in order
  and complete, the chain of flips does not break, quitting works, memory is
  released only after the camera stopped.
* **games, display.** Frames are drawn *before* the wait for the previous
  commit. Correct means: the buffers drawn are neither shown nor about to be,
  both planes and the cursor change together, late vertical blanks and refused
  commits cost frames and nothing else, and the screen is put back.
* **games, rules.** Every pass handles any keys, moves everything in a fixed
  order and tests what meets; tables have fixed sizes, and several things end or
  begin in one pass. Correct means what a player relies on: pieces and gems stay
  whole, nothing scores twice or passes through, levels and speeds are those of
  the score, a game is over when it says so and can go on otherwise.
* **japll.** Two registers hold one number and a clock reads them at any time;
  an interrupt may come between the writes; "written" marks stand for the
  registers. Correct means: the clock is at the last preset, or between the
  previous one and it; nothing is written when the device is missing.
* **motor control.** Three processes' worth of state (panel, service object,
  register) are kept equal by messages on three independent topics that may
  forget messages and reorder between each other. Correct means: the panel, the
  object and the motor agree again when the messages have been handled.
* **opcua.** The handshake by nodes (1111 → 0000) passes through two polling
  loops which suspend at each await. Correct means: a command is executed once,
  with values no older than it, and never lost by an operator who waits.
* **opcua, stepper.** The loop serves clients only while it sleeps, runs a
  script to its end and then resets what was asked for. Correct means: each
  start moves the motor once, by the values of its client, and none is lost.
* **gain control.** A step per pass towards a window, with calls that fail and
  light that changes. Correct means: the picture gets its brightness and keeps it.
* **tsn.** Fields depend on the version of the core; a configuration is edited
  by read, change, write, and goes through a file that other processes write
  too. Correct means: the core gets only what it has room for, an export comes
  back, an edit changes what was edited, base times are times.

## 2. Modules

| Module | Models | Proofs |
|---|---|---|
| `LatestFrame` | abstract: a register for the newest captured frame in front of a screen | – |
| `Cam2Display` | `cam2display.c`, `v4l2_capture.c`, `drm_display.c` and the drivers beside them; implements `LatestFrame` | `Cam2Display_proofs` |
| `AtomicFlip` | the display framework of the games, by `drm-whack.c` and `drm-game.c` | `BoardGames_proofs`, `Games_proofs` |
| `Japll` | `japll-pi.c` and the clock | `MCKits_proofs` |
| `MotorLib` | `motor.cpp`, `motor.h`: the calls as functions on the object and the registers | – |
| `MotorControl` | `gui.py`, `sub.py`, the topics; composes `MotorLib` | `MotorControl_proofs` |
| `VideoProxy` | the OPC-UA video kit server and the proxy in front of it | `OpcuaServers_proofs` |
| `StepperServer` | the OPC-UA stepper motor server and its script | `OpcuaServers_proofs` |
| `AutoGain` | the gain and OSD loops of `auto-enhance-osd.c` | – |
| `Breaker`, `Breakout` (`drm-game.c`), `Pong`, `Whack`, `Snake`, `Puzzle`, `Tetris` | the rules of one game each | `BoardGames_proofs` |
| `Catch`, `Racing`, `Platformer`, `Asteroids`, `Ninja`, `Shooter`, `Tower`, `Flappy`, `Invaders` | the rules of one game each | `Games_proofs` |
| `BoardGames`, `Games` | the suite of the framework and the games: the constants of each, what they need of them (`BoardCourts`, `TableCourts`), and a first state that picks one | `Games_proofs` |
| `Loops` | what holds along a loop over a table, for any step; instantiated by the proofs | itself |
| `Tsn` | the CoreTSN library, the command line tool and the base time tool | `Tsn_proofs` |
| `MCCam2Display`, `MCGames`, `MCTower`, `MCMotorControl`, `MCKits`, `MCTsn` | small instances for TLC; `Games` and `MCKits` hold several programs that share no state, of which the first state picks one (`sel`) | `MCKits_proofs` |

### Cam2Display

`pc` is the place in `main`; `todo` is the set of descriptors `poll` returned
that the loop still has to handle. `queued` and `filled` are the two queues of
the driver, `next` and `curr` the two indexes of the program, `flip`, `event`
and `scanout` the CRTC. `frame[b]` is the number of the frame in buffer b: the
picture is abstracted to its place in time. The camera (`Capture`) fills the
head of `queued` at any moment, the display (`VBlank`) completes a flip at any
moment. One iteration of `mainloop` is `CheckQuit`, `PollReady` (or the other
outcomes of poll), then `Dequeue` and/or one of `PageFlipSwap`,
`PageFlipRepeat`. Each ioctl that calls `errno_exit` has a failing twin that
ends the program where the code does. A requeue of a buffer the driver owns
would be answered `EINVAL`; `einval` records it. The driver may grant fewer
than `BUFCOUNT` buffers (`Grants`).

`LatestFrame` says what the whole is for: a screen that at each refresh shows
the frame handed on, taken from a register that only keeps the newest one.
`ShowsLatestFrame` is the refinement (`slot` ← frame of `next`, `going` ← frame
of `curr`); queues, requeues, dropped frames and failures are stutters.

### AtomicFlip

One pass of the game loop: `LoopTest`, `Update`, `DrawCursor`,
`RenderPrimary`, `RenderOverlay`, `WaitDone`/`HandleEvents`/`WaitGivesUp`
(`drm_wait_flip`), `CommitAccepted`/`CommitRefused` (`drm_atomic_flip`).
`front[p]` are the front indexes, `image[p][b]` the number of the frame drawn
into a buffer, `target`, `busy`, `events` the kernel's pending commit and unread
events. A commit while one is pending is refused with EBUSY. Games without
their own cursor drawing behave as one whose `DrawCursor` draws the same.
`drm_atomic_flip` and `drm_wait_flip` are the same text in all sixteen games.
A game over hold loop after the main loop is entered only with `running`
cleared, which ESC and Q do together with ending the program, and is left out.

### Japll

A preset is a number of fractional units; its quotient by `Units` goes to the
integer register, the remainder to the fraction. `pc` goes through `int`,
`frac`, `enable` for the writes of `japll_main`; `Interrupt` may end the program
at each. `hw` is what the clock sees. `target` and `before` (history) are the
offset the last preset is for and the registers at that moment. The register's
other bits are left out, doubles are whole numbers of units, and a preset is
never negative since an offset is above −10⁹ ppb.

### MotorLib and MotorControl

`MotorLib` gives each library call as an operator: conversions with their
integer divisions and clamps, the direction, START/STOP and the speed register;
the coefficients of the current loops are abstracted to one value `gain`.
`MotorControl` has an action per callback of the dashboard, per handler of the
service, and for the end and the start of the service. Messages published by
one handler are sent in one step: the topics keep their order, and another
process cannot tell. `timers` counts pending slider callbacks (the handle of an
older one can be lost, `StepperSliderStale`). The members of a request are
`uint32_t` or `int32_t`: a typed number that does not fit raises, and the whole
`set_specs` or `set_params` is refused (`SpecsTaken`, `ParamsTaken`); for a
stepper that includes the typed speed. Histories: `good` (the kinds of message
whose last one was not lost), `dirBy` (what settled
the direction last: a START or a direction command, an apply, or a start of the
service), `refused` (requests whose last one was refused), `overtaken` (a GET
answered from before the last SET), `edited`.

### VideoProxy

Each await on the network is a step; `local` says whether an await on the
server's own nodes suspends too (asyncua may not), `direct` that the operator
writes to the video kit itself, `polite` that he gives a command only when its
node reads 0000. All are chosen in `Init`. A value is reduced to its number and
whether it is valid, a command to the number of the write that gave it.

### StepperServer and AutoGain

`StepperServer` has an await of the loop per step (`spc`), and the run of the
script as one, since nobody is served meanwhile. `local` and `polite` are those
of `VideoProxy`. A node's value carries the number of the write that gave it.

`AutoGain` has one action per ioctl, each of which may fail (`Fault`, at most
`MaxFaults` times). The picture is the product of light and gain, cut at
`White`; it is a table because TLC does not evaluate the product of two
variables inside a fairness condition's leaf. `loops` are the two options.

### The games

Each game's `game` is the record of its `struct game_state` with what the
display alone needs left out. A step is one pass of the main loop, or one event
of input before it: `input_process` (or, where keys are only held, what
`input_poll` or `Held` may leave), then `game_update` as a composition of the
functions it goes through in the order of the code (`MoveShip`, `MoveBullets`,
`HitRocks`, ...), each from record to record. Random choices and what the
geometry decides beyond the grid (angles, where a ball meets a paddle) are any
of their outcomes, so these operators give the *set* of records that may
follow. A unit of distance is a sprite or a grid cell, and a unit of time a pass
or, in the games that read the clock, the shortest time of a pass; a late pass
takes up to `MaxLate` of them.

### Tsn

A process runs a command step by step (`pc`): `--set` is `StartSet`, `EditGet`
with `--edit-mode`, `Input`, `SetConfig`; an export `StartExport`, then
`ExportGet`, `Open`, `ExportClose` for each section; an import `StartImport`,
`ImportRead`, `ImportSection` (or `ImportCrash`); the base time tool `StartStamp`, `Stamp`, `Open`,
`StampClose`. A request of the library is one step, and what is left in memory
when it fails is part of the result. The first state's file is empty, one that
someone wrote, or an export made earlier (`Earlier`, the sections it may be of);
the device may be set to something else between it and an import. A section is a function of its fields,
with one field for those that are treated alike. `Word` is 2^32 in small, so
`Low` and `Saturated` cut like the conversions of the code. `from` in the file
(history) is what the device had when the section was exported, `log` the last
thing that came of a command, with what the device was asked for (`asked`). `prios`
stands for the priorities of the queues and, on import, for the enable of queue 7,
which is skipped if the number of queues could not be read
(`microchip-tsn-cli.c:2006`).

## 3. Runs

| Run | Instance | Shows |
|---|---|---|
| `cam` | 4 buffers asked for, 1–4 granted, 5 frames, every ioctl may fail, or (`calm`) none does; fair | ownership, flip discipline, teardown, refinement of `LatestFrame`, quitting ends the program; if calm the chain of flips does not break and each frame is shown or overtaken |
| `games` | the 16 games on small boards; the framework with 3 buffers and 6 frames, with late blanks and failures, with late blanks alone (`late`), and with neither (`reliable`), fair | boards whole, scores true, games end rightly, nothing missed; back buffers free, planes in step, skips only after a wait that gave up, never an older frame; with neither every frame is shown; without failures a quit restores the screen, however late the blanks |
| `motor_safety` | both motors, 3 inputs, depth 3, 1 restart | each motor runs when and as its panel says; inputs agree with the service |
| `motor_live` | stepper, 4 inputs, depth 4, 1 restart, a user who waits for answers | speed agrees and settles, refresh ends, stop arrives |
| `kits` | clock: 4 units per step, 6 lines, counter wraps at 4; both servers: 3 writes, all modes; gain: 2 failures, 2 changes of light | preset complete, tear below a step, no write unmapped, preset arrives; commands executed, as fresh as their values; gain settles |
| `tsn` | 2 processes, 2 commands of any kind, both versions, words of 8, seconds of 4 ns | a core gets what it has room for and is asked for no more, exports come back, edits keep the rest, base times right |
| `cam_tearing` | as `cam` | *violation*: the camera can write the visible buffer |
| `cam_crtc` | as `cam` | *violation*: the CRTC is not restored after a failing ioctl |
| `flip_sprite` | 3 frames, no failures | *violation*: the cursor image runs ahead of the planes |
| `tower_pause` | the tower game | *violation*: no pause between waves |
| `motor_ref` | BLDC, 3 inputs, no restart | *violation*: SET's speed is scaled with the old rating |
| `tsn_edit` | as `tsn` | *violation*: an edit changes what was not edited |

The properties of `games` are one per kind of promise, with a part per game
that has something to say about it; the parts are stated, with a comment each,
in the game's own module.

### Bounds

* *Frames.* A buffer returns to its first role after n frames at the latest; 5
  with 4 buffers (6 with 3) lets each buffer take every role and meet a newer
  copy of itself. The properties relate neighbours in time, and the proofs have
  no such bound.
* *ptp4l lines.* 6, with `INT_MAX` 4: the counter of lines wraps and the second
  line's special branch is reached again. Offsets −1, 0, 9 give the integer
  step at 0 ppb crossed downwards, a whole step exactly, and several steps at once.
* *Inputs and depth.* Three inputs already give a SET or GET (three messages
  on two topics) in the middle of two others, and Depth 3 is less than that
  sequence, so the topics overflow; the live run has Depth 4 and one more input.
  `UINT_MAX` is 65535, as TLC's integers have 32 bits; the inputs include a
  negative rating and a negative stepper speed, which fit no unsigned width.
  One restart, because `init` forgets everything but START and STOP. The live
  run has one tuning value, which none of its properties reads.
* *Writes.* Three: a value, a command, and one more to interfere. The
  invariants of `VideoProxy` were checked with four once (5.75 million states).
* *Gain.* Lights for which a gain in range fits, for which none does, and a
  black picture; two failures and two changes reach every pair of them.
* *Boards.* Two or three of everything: tables of two to four entries fill up
  and empty, boards of 3x3 to 6x5 cells let things meet, pass and touch every
  edge, and speeds above 1 let them jump. Scores stop at the bound, late enough
  for two levels, waves or speeds.
* *Commands.* Two, by one process one after the other or by two at once:
  export and import, edit and edit, stamp and import. That the device is set
  between export and import takes a third, so one export may lie before the
  first state (`Earlier`, of the QBV section, whose fields meet every rule of the
  file). Three are too many for a
  run of minutes, and this bound did hide something: with three an edit of
  memory never written can set a flag to a byte that is neither 0 nor 1, and it
  comes back from a file as 1. `Restores` says so (`Kept`), and is proved for
  any number of commands.

`CHECK_DEADLOCK FALSE` where the program really ends (or the user stops at the
bound).

### Fairness

* Cam2Display, AtomicFlip: `WF(App)`, the process is scheduled and each poll
  with something ready returns; `WF(VBlank)`, a display that is on refreshes
  (in `late` maybe only after waits for it gave up).
  The camera, signals and the user are not fair.
* Japll: `WF` of the steps that compute and write a preset. Neither ptp4l nor
  the interrupt is fair.
* MotorControl: `WF` of each timer and each subscription: both event loops are
  single-threaded executors that rotate. User and restarts are not fair.
  In `PatientSpec` (`MCMotorControl`) the user gives the next input only when requests are
  answered: without it the order of `motor_command` and `motor_param_request`
  decides which speed stays (that is `motor_ref`).
* StepperServer, AutoGain: `WF` of the loop, a single thread. Clients, failures
  and the light are not fair. In `kits` one program is picked and fair.
* The rules of the games have no liveness properties and need none.
* VideoProxy: `WF(Kit)`; `SF(Proxy)`, because a request to the kit is served in
  the second the kit sleeps, again and again but not all the time.

### What the violations say

1. `NoTearing`: `page_flip_handler` queues the current buffer back *before* the
   flip away from it happened (`cam2display.c:47`); the README promises "no
   tearing". `TearingNeedsLag` (proved) says how much slack there is: the
   camera must capture n − 2 frames within one refresh.
2. `CrtcRestored`: `errno_exit` skips `drm_destroy` (README: "On exit, ... the
   original CRTC state is restored").
3. `SpriteInStep`: the one cursor buffer is repainted while scanned out, in the
   eight games that animate it (comments at `drm-whack.c:622` and `:1340`).
4. `RefFollowsSet`: the speed SET sends "so new parameters take effect"
   (`gui.py:647`) may be handled before the parameters.
5. `PauseBetweenWaves`: the tower game puts the time of the last spawn 2 s
   ahead ("brief pause between waves", `drm-tower.c:1367`), and the unsigned
   difference at `:1246` wraps around, so the next enemy comes in the next pass.
6. `EditUnchanged`: edit mode promises to keep the unedited parameters
   (`tsn/README.md:42`); a cycle time is cut to 32 bits, the port id of a check
   that is off is cleared, and what another process set meanwhile is undone.

### Observed while modelling, without a property

* cam2display: the 3 s watchdog is for all of poll and never fires while flips
  complete; a failed page flip freezes the display; `drm_destroy` closes
  descriptor 0 for unused heads; stdin at EOF ends the program; a driver that
  grants more than `BUFCOUNT` buffers makes `v4l2_capture.c:183` read past the
  array (left out of `Grants`).
* AtomicFlip: after one wait that gave up, the stale event clears the flag of
  the next commit, and pacing is off by one until both events are read at once.
* Motor control: SET sends the slider speed unclamped by the new rating
  (`gui.py:649`; `:488` clamps); apply resets the direction (`motor.cpp:509`)
  while the panel keeps it, until START sends it again (`DirAgrees`); a typed number that does not fit its member, such as
  a negative speed of the stepper, refuses the whole request (`sub.py:386`)
  while the panel and the slider go on with it and report "Parameter applied";
  a GET answer that comes after the timeout still overwrites inputs, as it
  would have in time: no property calls that wrong; a rating, current or frequency of 0
  divides (`motor.cpp:92`), so 0 is left out of `Specs`.
* Japll: the program ends with ptp4l's output although its README says it runs
  until interrupted; the integral is not bounded; `memory_unmap` closes
  `uioFd` twice after a failing mmap.
* OPC-UA: with an operator who is not polite a command may be lost; where
  awaits on own nodes suspend, the correction of a resolution can overwrite a
  newer one (4 writes); an invalid quality is corrected in the node and not in
  the value that is sent (`icicle-video-proxy-server.py:112`); starting a stream
  does not wait for the old one to end and may fail although acknowledged.
* Motor control, too: every browser session runs `gui.py` again and the second
  `rclpy.init` of the process fails (`gui.py:370`); `writeReg` prints its
  failures and no caller looks at them (`motorclass_def.h:70`), so a STOP that
  was not written is reported as done.
* Stepper: a start written while an await of the reset lets clients in is lost
  where awaits on own nodes suspend; negative values are not corrected.
* Gain: a black picture ends the program; a gain that cannot be read counts as
  −1, and the next step sets the least gain; a light for which the range has no
  gain keeps it at the end of the range.
* Games, input: Whack reads levels once a pass, so a stroke shorter than a pass
  is lost (`drm-whack.c:1095`); the touch target of Pong stays and pulls the
  paddle back from the keys for the rest of the game (`drm-pong.c:1051`); space
  in the invaders fires once per stroke and not while held, since a repeat
  clears `key_fire`; events after a hard drop still move the
  piece of Tetris in the same pass, which may put it over a hole and off the
  ground it should be locked on (`drm-tetris.c:1063`).
* Games, restarts: Asteroids puts the ship at 0,0 (`drm-asteroids.c:993`), Pong
  keeps speed and rally, Invaders keeps the formation where it won, Platformer
  and several others have no restart; Breakout's ball loses the
  speed of its level with a life, and stays where it was lost: space before the
  next pass sends it off from there, and it may be lost a second time on its way
  back (`drm-game.c:971`, `:1145`).
* Games, tables and geometry: food may appear under the head of the snake,
  which is stored after the food is placed (`drm-snake.c:1037`, `:1149`); asteroids that find no slot vanish; pipes run out on
  modes wide enough for more than the table holds; a mole hit while it rises
  falls from full height (`drm-whack.c:1262`); Racing's lives go below 0 when
  two cars are hit in one pass.
* TSN, in memory: `--get=all` passes a null pointer to the display of the QAV
  section; a list that is made longer has entries never written; importing a
  table of ports on a device without stream ids reads a null pointer; an index
  of the gate control list is used unchecked; `--set=qavconf` returns a value
  never assigned.
* TSN, in files: with several sections the export keeps the last; stream ids,
  the QCI table of version 3, QAV queues and the gate state as CSV are not in
  what an import looks for; numbers above 2³¹ − 1 saturate, a number typed is
  cut to 32 bits; editing the QCI section of version 3 sends the layout of
  version 2, which is refused.
* TSN, failures: a failing read is not noticed by edit mode, which then edits
  what is in memory (`EditKeeps` speaks of edits of what was read), a failing set
  not by the import; a clock that does not answer makes the base time tool write a
  time never set; between `fopen` and `fclose` others find an empty file.

## 4. Proofs

Each proof module has an inductive invariant, `IInv` or one per program where it
holds several (checked by TLC as an invariant first), lemmas `Initial` (`Init => IInv`) and `Step`
(`IInv /\ [Next]_vars => IInv'`, a step per action and below it one per
disturbed conjunct), and theorems for what follows. The assumptions are those
named in the model's `ASSUME`s: sizes are natural numbers, positive where the
code divides or indexes by them. `MaxFrames`, `MaxLines` are arbitrary, so the
theorems have no bound that matters.

* **Cam2Display_proofs** (any `BUFCOUNT`, any grant, any failures).
  Ownership alone is not inductive: a requeue is safe because `next` and `curr`
  differ and neither is in a queue, and flips name `curr` only because an unread
  event means that `curr` is on screen (`EventMeansShown`). Order needs that
  frames grow from the screen to the camera (`NewerUpstream`); the tearing bound
  needs the place of the returned buffer in the queue (`ReturnedBehind`).
  `ChainUnbroken`: a setup that went through without failures never has the
  chain of flips end in a time-out.
  Theorems `OwnershipSafe`, `NothingLost`, `FlipDiscipline`, `ChainUnbroken`, `DmaEndsBeforeFree`,
  `TearingBound`, `Refinement`, `NeverBackwards`.
* **BoardGames_proofs**, the display framework (any `NUM_BUFFERS` ≥ 3). `Ring`: the front buffer
  is shown, or its commit is pending and its predecessor is shown, hence with
  three buffers the next one is free. `Images` and `Drawn` give what they show;
  `Flag` relates `pflip_pending` to unread events also after a wait gave up.
  Theorems `NeverDrawsOnScreen`, `PlanesTogether`, `SkipsExplained`,
  `ScreenNeverBack`. `TidiedUp` says how far the teardown has got when no call
  fails; it gives `ScreenIsRestored`.
* **MotorControl_proofs** (any depth of the topics, any number of inputs and
  restarts, any integer gains, steps and speeds, those the service refuses
  included; `SpecAssumption` says that the
  specs are integers other than 0: the library divides by a rating unchecked,
  so a rating of 0 is left out). `TypeInv` types the registers, the queues and
  the inputs. `ButtonInv` is what makes buttons safe: the last message of a kind
  in the command queue carries what the panel shows, and if there is none the
  register agrees already, unless a message of that kind was lost; and behind
  every START in the queue there is a direction. `InputInv`
  has four parts: no request or answer has a number that no input gave it
  (`IdInv`), a GET whose handler is registered has no SET behind it unless it is
  marked overtaken (`OrderInv`), an answer that will be taken shows what the
  service's object holds, and no SET is pending (`FreshInv`), and a pending SET
  carries what the panel shows, or, if there is none, the object holds it
  (`HeldInv`). Theorems `TypesCorrect`, `RunCorrect`, `DirectionCorrect`,
  `InputsCorrect`.
* **OpcuaServers_proofs**, the video servers (any number of writes, both operators, awaits that
  suspend or not). For each command an invariant follows it through both loops:
  `StreamInv`, `UpdateInv` and `AckInv` say which copies of values are at least
  as new as the command on its way, in the proxy's node (`ProxyNew`), in the
  proxy's copy (`Copied`), in the kit's node (`KitNew`) and at the camera
  (`CameraNew`); `ValidInv` that no invalid resolution is past the check.
  Theorems `TypesCorrect`, `UpdateCorrect`, `StreamCorrect`,
  `ResolutionCorrect`, `AcknowledgedCorrect`.
* **OpcuaServers_proofs**, the stepper motor (any inputs and number of writes; an
  instance of `StepperServer` inside the module). `OnceInv`: a start that was
  carried out is not read again before it is reset. `FreshInv`: while no client
  is served, the loop's copy becomes, node by node, what the nodes hold, so a
  run uses values at least as new as its start. Theorem `RunCorrect`.
* **MCKits_proofs** begins with the clock, `Japll` (any gains, offsets and
  sizes). `Mapping`: writes are enabled only while mapped; `Written`: the marks
  tell what the registers hold; `Writing`, `Progress`, `Fresh`: between which two
  presets the registers are. Theorems `NeverUnmapped`, `PresetComplete`,
  `TearIsBounded`. Then it puts the programs of the suite together: `ClockRuns`, `VideoRuns`, `StepperRuns`
  show that `KitsSpec` implements the specification of the program that was
  picked, so the suite's invariants follow from the theorems of its parts
  (`KitsTypesCorrect`, `CommandsFresh`), for the suite's numbers of writes.
* **Tsn_proofs** (any processes and number of commands, any `Word` above 1, any
  length of a second, clocks and offsets of any size). `DriverInv`: what the
  device holds are numbers of 32 bits where the code has 32 (`Words`) and fits
  its core (`Fits`). `Text`: a file, also one in the memory of an import, holds
  sections as an export writes them, and agrees with what the device had
  (`Copied`). `ProcInv`: what a command holds at each `pc`: while the user is
  asked, memory is what was read (`Read`); before a set it differs by what was
  typed (`Edited`); before the file is closed it is what the core had room for
  (`Exported`). `SetFacts`, `InputFacts`, `ParsedFacts`, `ExportFacts` and
  `RoundTrip` say what the conversions do for every section.
  `timespec_normalise` loops; `CarryMeaning` and `BorrowMeaning` prove what its
  loops compute for every time, by the least counterexample (`Least`), after
  `CarriedFacts` and `BorrowedFacts` have shown that the recursive functions
  exist. Theorems `TypesCorrect`, `RestoresCorrect`, `EditCorrect`,
  `BaseTimeCorrect`.
* **BoardGames_proofs** and **Games_proofs**, the rules (any size of the court,
  the grid, the board or a table, any set of bricks or holes, any number of
  lives, any speeds; each theorem names what it assumes of the constants of its
  game, as `PongCourt`). The constants of `games` fulfil that (TLC evaluates
  `BoardCourts` and `TableCourts`), and the source's do, with one condition on
  the screen: `FlappyScreen` wants a table with room for the pipes of one,
  which 8 pipes 200 apart are up to 1500 pixels, and the pipes do run out on a
  wider one (section 3). The pass of a game is a composition of functions on its
  record, so each game has a `…Kept`, what every part of a pass keeps, and a
  `…Inv` (for some by way of a `…Whole`), what is true between passes, with a
  lemma for every part. What is stronger than the properties:
  * Breakout: a ball past the bottom goes up. Pong: at most one side has won, and
    the greatest speed is at most the width of a paddle and 1.
  * Snake: the points are a multiple of ten and the body is injective, so that a
    cut tail and a new head keep its length (`TenMore`).
  * Whack: hits and moles that can be hit are together at most the ones that
    came out, through strikes, risings and falls in one pass (`AllTheWay`,
    `MoleMoves`).
  * Puzzle: falling keeps each column's gems, so the holes left are at its top
    (`HolesRise`), and the longest fall, a maximum over cells, is a number of
    passes also when nothing falls (`LongestIs`).
  * Tetris: clearing rows is a one-to-one map on the rows that stay
    (`RowsShift`), so the cells that were locked are those on the board and
    those cleared, and none is full (`LinesClear`); a piece that fits fits
    after each of the moves that are tried, and lies at or above the row from
    which it can be locked (`PieceDrops`).
  * Tower: the enemies on the path are no more than have come, and the fights
    of a pass take some away and bring none (`TowerFought`). Ninja: the score is
    at least what the running combo was paid, n points and n(n − 1)/2 bonuses
    (`WorthGrows`). Asteroids: the rocks are counted by size, and splitting one
    never empties the table (`AsteroidsSplit`). Catch, Racing, Shooter: the
    entries up to i are as the property wants them, which the rest of the loop
    does not undo (`CatchFallen`, `RacingDriven`, `ShooterSwept`).
  * Flappy: the pipes stand at all of n places one spacing apart and nowhere
    else, each counted if it has been passed (`Evenly`), and the last is no
    further in than a spacing (`ToCome`); from this follow the distances and that
    an entry is free when one is needed. Invaders: the columns that are left
    decide how far the formation may go; it is inside before and after the step
    down (`Inside`), and a level begun again is inside too (`NewFormation`).

  The games of `Games_proofs` go through a table entry by entry, in the model by
  a recursive function (`Loop`). `Loops` proves for any step that this function
  exists (`Defined`) and that what each step keeps holds after the last (`Kept`),
  by the least index at which it would not. The facts take the least number of a
  set as a hypothesis, which `HasLeast` supplies; a table whose entries have
  several outcomes is a loop over sets of records. Each game instantiates the
  module with its step and what it keeps.

  Theorems: one `…Correct` for each of the 16 games, `PongPaddleHolds`.
* **Games_proofs**, the suite. `sel` never changes, and a step with `sel` of a
  game is a step of that game alone, so each `…InSuite` has the game's theorem
  in the suite, and together they are what the run `games` checks:
  `SuiteTypesCorrect`, `BoardsStayWhole`, `ScoresStayTrue`, `GamesEndRightly`,
  `NothingIsMissed`. `FramesShown`: the suite implements `AtomicFlip`, whose
  theorems it inherits (`FramesStayWhole`); `ScreenLeftAsFound` is the
  safety half of `QuitRestores`, with late blanks (`LateSteps`) and without. Two games that have a constant in common
  share its value in the suite, as `LIVES`, so there the theorems are for all
  sizes of that kind; a game's own theorem has no such limit.

`NeverBackwards` of `Cam2Display` and the type correctness of `Japll` are proved
without being properties of a run: `ShowsLatestFrame` implies the one, and the
suite `kits` checks the other as part of its own. The servers' modules are
instances in the suite, so their theorems carry the assumption on `MaxWrites`
as a hypothesis: it is a natural number.

Only model-checked:

* all liveness, since the prover does neither fairness nor ENABLED;
* `SlewAgrees` of `MotorControl`: it holds only for the patient user and for
  the speeds and step geometry of the run. For every input it would need limits
  on what the user types that the code does not impose, and facts about two
  nested floor divisions;
* `AutoGain`, whose properties are liveness but for its types.

## 5. Plan

Done: `Cam2Display` with `LatestFrame`, `AtomicFlip`, `Japll`, `MotorControl`
with `MotorLib`, `VideoProxy`, `StepperServer`, `Tsn` and the rules of the 16
games (modelled, checked, proved); `AutoGain` (modelled and checked). Next:

1. The rest of the motor library: reading speed and current back, register
   writes that fail.
2. A lemma that `AutoGain`'s step does not pass its window, on which the
   liveness that TLC checks rests.

Programs that share no state are checked in suites (`Games`, `MCKits`), so
that the whole stays checkable in minutes.

## 6. Not modelled

* Scripts: fixed commands without state.
* Drawing, fonts, plots, layout, printing, the parsing of text (`atof`,
  `strtok`, JSON): values after parsing are inputs.
* TSN: statistics, which are only shown, and the search for devices.
* Games: particles, stars, messages, the look of things, and positions finer
  than a sprite.
* Vendored `videodev2.h`, the mmap capture functions nobody calls.
* Undefined behaviour reached by inputs the programs do not check (division by
  a rating of 0, more buffers granted than asked for): listed in section 3.
* Second browser sessions of the dashboard: `rclpy.init` runs twice in one
  process and the second session has no client.
* Failing register writes of the motor library, which every caller ignores.
