---------------------------- MODULE Cam2Display ----------------------------
(***************************************************************************)
(* The zero-copy camera-to-display pipeline of                             *)
(* multimedia/cam2display-zerocopy: one single-threaded process that       *)
(* moves a small set of shared buffers between a V4L2 capture queue and a  *)
(* DRM page-flip queue.                                                    *)
(*                                                                         *)
(* Four actors run concurrently: the process (poll loop and its handlers), *)
(* the camera driver, the display controller and whoever sends signals or  *)
(* presses Enter.  A buffer is an index 0 .. BUFCOUNT-1; its content is    *)
(* the number of the frame last captured into it.                          *)
(***************************************************************************)
EXTENDS Integers, Sequences

CONSTANTS
  BUFCOUNT,    \* dumb buffers allocated by drm_setup_fb (4 in the code)
  Grants,      \* numbers of buffers VIDIOC_REQBUFS may grant
  MaxFrames,   \* bound: frames the camera captures in a behaviour
  FlipMayFail, \* drmModePageFlip may fail in page_flip_handler
  IoctlMayFail \* the ioctls of setup, QBUF, DQBUF and poll may fail

ASSUME BufferAssumption ==
  /\ BUFCOUNT \in Nat \ {0}
  /\ Grants \subseteq 0 .. BUFCOUNT
  /\ MaxFrames \in Nat
  /\ FlipMayFail \in BOOLEAN
  /\ IoctlMayFail \in BOOLEAN

Buffers == 0 .. BUFCOUNT - 1
None    == -1   \* next_buffer_index when no captured frame waits
Saved   == -2   \* the framebuffer the CRTC scanned before the program ran
Off     == -3   \* the CRTC after the kernel released this process's buffers

VARIABLES
  pc,        \* where the process is
  todo,      \* revents of the last poll that are still to be handled
  quit,      \* quit_flag
  n,         \* n_buffers
  next,      \* next_buffer_index
  curr,      \* curr_buffer_index
  einval,    \* a QBUF was refused because the driver already owned the buffer
  queued,    \* driver: buffers waiting for DMA; the head is being written
  filled,    \* driver: captured buffers waiting for DQBUF
  streaming, \* driver: STREAMON in effect
  frame,     \* content of each buffer
  captured,  \* frames captured so far
  scanout,   \* display: the buffer being scanned out
  flip,      \* display: target of the pending page flip
  event,     \* display: a flip-complete event is readable on the DRM fd
  shown,     \* display: the frame latched at the last vertical blank
  freed,     \* drm_destroy released the buffers
  lag        \* history: captured buffers not yet taken when a buffer was
             \* last handed back on a flip, plus captures since then

appVars  == <<pc, todo, quit, n, next, curr, einval, freed>>
camVars  == <<queued, filled, streaming, frame, captured>>
dispVars == <<scanout, flip, event, shown>>
vars     == <<appVars, camVars, dispVars, lag>>

-----------------------------------------------------------------------------
(* main: statics are zero, next_buffer_index is -1.                        *)
Init ==
  /\ pc = "drm_setup" /\ todo = {} /\ quit = FALSE
  /\ n = 0 /\ next = None /\ curr = 0 /\ einval = FALSE /\ freed = FALSE
  /\ queued = <<>> /\ filled = <<>> /\ streaming = FALSE
  /\ frame = [b \in Buffers |-> 0] /\ captured = 0
  /\ scanout = Saved /\ flip = None /\ event = FALSE /\ shown = 0
  /\ lag = 0

(* exit(EXIT_FAILURE): no teardown code runs.  The kernel closes both file *)
(* descriptors: streaming ends, and framebuffers still on the CRTC are     *)
(* taken off it.                                                           *)
Abort ==
  /\ pc' = "aborted"
  /\ todo' = {}
  /\ queued' = <<>> /\ filled' = <<>> /\ streaming' = FALSE
  /\ scanout' = IF scanout = Saved THEN Saved ELSE Off
  /\ flip' = None /\ event' = FALSE
  /\ UNCHANGED <<quit, n, next, curr, frame, captured, shown, freed, lag>>

(* drm_open, drm_find_dev, drm_setup_fb: buffer 0 goes on the CRTC and a   *)
(* first flip to buffer 0 itself is requested to start the event chain.    *)
DrmSetup ==
  /\ pc = "drm_setup"
  /\ pc' = "v4l2_setup"
  /\ scanout' = 0 /\ flip' = 0
  /\ UNCHANGED <<todo, quit, n, next, curr, einval, freed, camVars, event,
                 shown, lag>>

(* v4l2_open, v4l2_init, v4l2_init_dmabuf: the driver grants a number of   *)
(* buffers of its own choice; fewer than two is fatal.                     *)
V4l2Setup ==
  /\ pc = "v4l2_setup"
  /\ \E granted \in Grants :
       \/ /\ granted < 2
          /\ Abort
          /\ UNCHANGED einval
       \/ /\ granted >= 2
          /\ n' = granted
          /\ pc' = "start"
          /\ UNCHANGED <<todo, quit, next, curr, einval, freed, camVars,
                         dispVars, lag>>

(* Mutant: all buffers are queued, buffer 0 on the screen too.             *)
StartQueuesAll ==
  /\ pc = "start"
  /\ queued' = [i \in 1 .. n |-> i - 1]
  /\ streaming' = TRUE
  /\ pc' = "check"
  /\ UNCHANGED <<todo, quit, n, next, curr, einval, freed, filled, frame,
                 captured, dispVars, lag>>

(* v4l2_start_capturing_dmabuf: buffer 0 is held by DRM, the others go to  *)
(* the driver in index order, then STREAMON.                               *)
StartCapturing ==
  /\ pc = "start"
  /\ queued' = [i \in 1 .. n - 1 |-> i]
  /\ streaming' = TRUE
  /\ pc' = "check"
  /\ UNCHANGED <<todo, quit, n, next, curr, einval, freed, filled, frame,
                 captured, dispVars, lag>>

(* Any of the calls of the three setup steps may fail: fatal() or          *)
(* exit(EXIT_FAILURE).  A failure of drm_setup_fb after SetCrtc ends as    *)
(* one of the next step does.                                              *)
Fails(step) == IoctlMayFail /\ pc = step /\ Abort /\ UNCHANGED einval

DrmSetupFails  == Fails("drm_setup")
V4l2SetupFails == Fails("v4l2_setup")
StartFails     == Fails("start")
SetupFails     == DrmSetupFails \/ V4l2SetupFails \/ StartFails

-----------------------------------------------------------------------------
(* The loop of mainloop.                                                   *)

(* Mutant: while (1).                                                      *)
CheckNothing ==
  /\ pc = "check"
  /\ pc' = "poll"
  /\ UNCHANGED <<todo, quit, n, next, curr, einval, freed, camVars, dispVars,
                 lag>>

(* while (!quit_flag)                                                      *)
CheckQuit ==
  /\ pc = "check"
  /\ pc' = IF quit THEN "stop" ELSE "poll"
  /\ UNCHANGED <<todo, quit, n, next, curr, einval, freed, camVars, dispVars,
                 lag>>

(* poll returns the readable descriptors; what it saw is acted on later.   *)
Ready == (IF filled # <<>> THEN {"v4l2"} ELSE {})
           \cup (IF event THEN {"drm"} ELSE {})

PollReady ==
  /\ pc = "poll"
  /\ Ready # {}
  /\ todo' = Ready
  /\ pc' = "handle"
  /\ UNCHANGED <<quit, n, next, curr, einval, freed, camVars, dispVars, lag>>

(* EINTR: the signal handler ran while poll was blocked.                   *)
PollInterrupted ==
  /\ pc = "poll"
  /\ quit
  /\ pc' = "check"
  /\ UNCHANGED <<todo, quit, n, next, curr, einval, freed, camVars, dispVars,
                 lag>>

(* A line on stdin, a poll error, or 3000 ms without any event.  A pending *)
(* flip completes within one refresh, so the timeout needs the flip chain  *)
(* to be broken.                                                           *)
PollEnds ==
  /\ pc = "poll"
  /\ pc' = "stop"
  /\ UNCHANGED <<todo, quit, n, next, curr, einval, freed, camVars, dispVars,
                 lag>>

PollTimeout == Ready = {} /\ flip = None /\ PollEnds
PollStdin   == PollEnds
PollError   == IoctlMayFail /\ PollEnds

(* v4l2_queue_buffer: the driver takes a buffer the process owns and       *)
(* refuses one it already has.                                             *)
DriverOwns(b) ==
  \/ \E i \in 1 .. Len(queued) : queued[i] = b
  \/ \E i \in 1 .. Len(filled) : filled[i] = b

Requeue(b) ==
  /\ ~DriverOwns(b)
  /\ queued' = Append(queued, b)

(* ... and exit(EXIT_FAILURE) follows any failure of the ioctl.            *)
RequeueFails(b) ==
  /\ IoctlMayFail \/ DriverOwns(b)
  /\ einval' = DriverOwns(b)
  /\ Abort

(* Mutant: a next buffer that was never shown is forgotten.                *)
DequeueForgets ==
  /\ pc = "handle" /\ "v4l2" \in todo
  /\ filled # <<>>
  /\ next' = Head(filled)
  /\ filled' = Tail(filled)
  /\ todo' = todo \ {"v4l2"}
  /\ pc' = IF "drm" \in todo THEN "handle" ELSE "check"
  /\ UNCHANGED <<quit, n, curr, einval, freed, queued, streaming, frame,
                 captured, dispVars, lag>>

(* Mutant: a captured frame is flipped to at once.                         *)
DequeueFlips ==
  /\ pc = "handle" /\ "v4l2" \in todo
  /\ filled # <<>>
  /\ next' = Head(filled)
  /\ filled' = Tail(filled)
  /\ IF next # None
     THEN Requeue(next)
     ELSE UNCHANGED queued
  /\ flip' = IF flip = None THEN next' ELSE flip
  /\ todo' = todo \ {"v4l2"}
  /\ pc' = IF "drm" \in todo THEN "handle" ELSE "check"
  /\ UNCHANGED <<quit, n, curr, einval, freed, streaming, frame, captured,
                 scanout, event, shown, lag>>

(* The POLLIN branch of the V4L2 descriptor: one buffer per iteration is   *)
(* dequeued and becomes the next one to show; a next one that was never    *)
(* shown goes back to the camera first (its frame is dropped).             *)
Dequeue ==
  /\ pc = "handle" /\ "v4l2" \in todo
  /\ filled # <<>>
  /\ next' = Head(filled)
  /\ filled' = Tail(filled)
  /\ IF next # None
     THEN Requeue(next)
     ELSE UNCHANGED queued
  /\ todo' = todo \ {"v4l2"}
  /\ pc' = IF "drm" \in todo THEN "handle" ELSE "check"
  /\ UNCHANGED <<quit, n, curr, einval, freed, streaming, frame, captured,
                 dispVars, lag>>

DequeueQbufFails ==
  /\ pc = "handle" /\ "v4l2" \in todo
  /\ filled # <<>>
  /\ next # None
  /\ RequeueFails(next)

(* v4l2_dequeue_buffer returns a negative value: "fatal: dequeue failed".  *)
DequeueFails ==
  /\ IoctlMayFail
  /\ pc = "handle" /\ "v4l2" \in todo
  /\ pc' = "stop" /\ todo' = {}
  /\ UNCHANGED <<quit, n, next, curr, einval, freed, camVars, dispVars, lag>>

(* page_flip_handler: with a next buffer, hand the current one back to the *)
(* camera and make the next one current; then request a flip to the        *)
(* current buffer.  A refused flip only prints a warning.                  *)
RequestFlip(b) ==
  \/ flip = None /\ flip' = b
  \/ (FlipMayFail \/ flip # None) /\ UNCHANGED flip

FlipHandled ==
  /\ pc = "handle" /\ "drm" \in todo /\ "v4l2" \notin todo
  /\ event' = FALSE
  /\ todo' = {}
  /\ pc' = "check"

(* Mutant: next_buffer_index is not reset.                                 *)
SwapKeepsNext ==
  /\ next # None
  /\ FlipHandled
  /\ Requeue(curr)
  /\ curr' = next
  /\ RequestFlip(curr')
  /\ lag' = Len(filled)
  /\ UNCHANGED <<quit, n, next, einval, freed, filled, streaming, frame,
                 captured, scanout, shown>>

(* Mutant: the flip is requested before the buffers are exchanged.         *)
SwapAfterFlip ==
  /\ next # None
  /\ FlipHandled
  /\ Requeue(curr)
  /\ curr' = next
  /\ next' = None
  /\ RequestFlip(curr)
  /\ lag' = Len(filled)
  /\ UNCHANGED <<quit, n, einval, freed, filled, streaming, frame, captured,
                 scanout, shown>>

(* Mutant: the test next_buffer_index >= 0 is gone.                        *)
SwapUnguarded ==
  /\ FlipHandled
  /\ Requeue(curr)
  /\ curr' = next
  /\ next' = None
  /\ RequestFlip(curr')
  /\ lag' = Len(filled)
  /\ UNCHANGED <<quit, n, einval, freed, filled, streaming, frame, captured,
                 scanout, shown>>

PageFlipSwap ==
  /\ next # None
  /\ FlipHandled
  /\ Requeue(curr)
  /\ curr' = next
  /\ next' = None
  /\ RequestFlip(curr')
  /\ lag' = Len(filled)
  /\ UNCHANGED <<quit, n, einval, freed, filled, streaming, frame, captured,
                 scanout, shown>>

(* Mutant: without a new frame no flip is requested.                       *)
RepeatNothing ==
  /\ next = None
  /\ FlipHandled
  /\ UNCHANGED <<quit, n, next, curr, einval, freed, camVars, scanout, flip,
                 shown, lag>>

PageFlipRepeat ==
  /\ next = None
  /\ FlipHandled
  /\ RequestFlip(curr)
  /\ UNCHANGED <<quit, n, next, curr, einval, freed, camVars, scanout, shown,
                 lag>>

PageFlipQbufFails ==
  /\ pc = "handle" /\ "drm" \in todo /\ "v4l2" \notin todo
  /\ next # None
  /\ RequeueFails(curr)

(* Mutant: the capture device is left open.                                *)
StopLeavesOpen ==
  /\ pc = "stop"
  /\ \/ queued' = <<>> /\ filled' = <<>> /\ streaming' = FALSE
     \/ IoctlMayFail /\ UNCHANGED <<queued, filled, streaming>>
  /\ pc' = "destroy"
  /\ UNCHANGED <<todo, quit, n, next, curr, einval, freed, frame, captured,
                 dispVars, lag>>

(* v4l2_stop_capturing: STREAMOFF takes every buffer away from the driver. *)
(* A failure is only printed; close() then has the same effect.            *)
StopCapturing ==
  /\ pc = "stop"
  /\ \/ queued' = <<>> /\ filled' = <<>> /\ streaming' = FALSE
     \/ IoctlMayFail /\ UNCHANGED <<queued, filled, streaming>>
  /\ pc' = "close"
  /\ UNCHANGED <<todo, quit, n, next, curr, einval, freed, frame, captured,
                 dispVars, lag>>

(* v4l2_uninit_device and close(v4l2_fd).                                  *)
CloseCapture ==
  /\ pc = "close"
  /\ queued' = <<>> /\ filled' = <<>> /\ streaming' = FALSE
  /\ pc' = "destroy"
  /\ UNCHANGED <<todo, quit, n, next, curr, einval, freed, frame, captured,
                 dispVars, lag>>

(* drm_destroy: restore the CRTC, then release every buffer.               *)
Destroy ==
  /\ pc = "destroy"
  /\ scanout' = Saved /\ flip' = None /\ event' = FALSE
  /\ freed' = TRUE
  /\ pc' = "done"
  /\ UNCHANGED <<todo, quit, n, next, curr, einval, camVars, shown, lag>>

-----------------------------------------------------------------------------
(* The environment.                                                        *)

(* signal_handler for SIGINT and SIGTERM, installed before the setup.      *)
Signal ==
  /\ ~quit
  /\ quit' = TRUE
  /\ UNCHANGED <<pc, todo, n, next, curr, einval, freed, camVars, dispVars,
                 lag>>

(* The camera finishes writing the buffer at the head of its queue.        *)
Capture ==
  /\ streaming /\ queued # <<>> /\ captured < MaxFrames
  /\ captured' = captured + 1
  /\ frame' = [frame EXCEPT ![Head(queued)] = captured + 1]
  /\ filled' = Append(filled, Head(queued))
  /\ queued' = Tail(queued)
  /\ lag' = lag + 1
  /\ UNCHANGED <<appVars, streaming, dispVars>>

(* A vertical blank latches the pending flip and posts its event.          *)
VBlank ==
  /\ flip # None
  /\ scanout' = flip
  /\ shown' = frame[flip]
  /\ flip' = None
  /\ event' = TRUE
  /\ UNCHANGED <<appVars, camVars, lag>>

-----------------------------------------------------------------------------
App ==
  \/ DrmSetup \/ V4l2Setup \/ StartCapturing \/ SetupFails
  \/ CheckQuit \/ PollReady \/ PollInterrupted \/ PollTimeout
  \/ Dequeue \/ DequeueQbufFails \/ DequeueFails
  \/ PageFlipSwap \/ PageFlipRepeat \/ PageFlipQbufFails
  \/ StopCapturing \/ CloseCapture \/ Destroy

User == PollStdin \/ PollError \/ Signal

Next == App \/ User \/ Capture \/ VBlank

Spec == Init /\ [][Next]_vars

(* The process is scheduled, and a requested flip completes; the camera    *)
(* may stop delivering and nobody has to press Enter or send a signal.     *)
FairSpec == Spec /\ WF_vars(App) /\ WF_vars(VBlank)

-----------------------------------------------------------------------------
Exited == pc \in {"done", "aborted"}

TypeOK ==
  /\ pc \in {"drm_setup", "v4l2_setup", "start", "check", "poll", "handle",
             "stop", "close", "destroy", "done", "aborted"}
  /\ todo \subseteq {"v4l2", "drm"}
  /\ quit \in BOOLEAN /\ einval \in BOOLEAN /\ freed \in BOOLEAN
  /\ n \in 0 .. BUFCOUNT
  /\ next \in Buffers \cup {None} /\ curr \in Buffers
  /\ queued \in Seq(Buffers) /\ filled \in Seq(Buffers)
  /\ streaming \in BOOLEAN /\ event \in BOOLEAN
  /\ frame \in [Buffers -> Nat] /\ captured \in Nat
  /\ scanout \in Buffers \cup {Saved, Off}
  /\ flip \in Buffers \cup {None}
  /\ shown \in Nat /\ lag \in Nat

Distinct(s) == \A i, j \in 1 .. Len(s) : s[i] = s[j] => i = j

(* Every buffer has at most one owner: it is in one place of the camera's  *)
(* two queues, or it is the next one, or it is the current one.  The       *)
(* requeues of mainloop and page_flip_handler depend on it.                *)
SingleOwner ==
  /\ Distinct(queued) /\ Distinct(filled)
  /\ \A i \in 1 .. Len(queued), j \in 1 .. Len(filled) :
       queued[i] # filled[j]
  /\ ~DriverOwns(curr)
  /\ next # None => ~DriverOwns(next)
  /\ next # curr

(* No buffer is ever queued twice, so VIDIOC_QBUF never answers EINVAL     *)
(* (v4l2_capture.c:42 would end the program without any teardown).         *)
NoDoubleQueue == ~einval

(* No buffer is lost either: while capturing, the queues and the two       *)
(* buffers of the process account for all n buffers, so with three or more *)
(* the camera always has one to fill or the process one to take.           *)
NoBufferLost ==
  streaming => Len(queued) + Len(filled)
                 + (IF next = None THEN 0 ELSE 1) + 1 = n

(* There is one flip in flight at most, so drmModePageFlip in              *)
(* page_flip_handler never answers EBUSY and the chain of events that      *)
(* drives the display is never broken by the program itself.               *)
OneFlipInFlight == ~(event /\ flip # None)

(* The chain is not broken as long as no flip request fails: from          *)
(* drm_setup_fb to the end of the loop there is a pending flip or an       *)
(* unread event.                                                           *)
FlipChainAlive ==
  (~FlipMayFail /\ pc \in {"v4l2_setup", "start", "check", "poll", "handle"})
     => (flip # None \/ event)

(* What is pending for the display is the current buffer, and the camera   *)
(* does not own it: a frame is complete when its flip happens.             *)
FlipsCurrent == flip # None => flip = curr

(* The register of LatestFrame: next_buffer_index holds the frame that     *)
(* waits, curr_buffer_index the one handed on.                             *)
Waiting == IF next = None THEN 0 ELSE frame[next]

LF == INSTANCE LatestFrame
        WITH latest <- captured, slot <- Waiting, going <- frame[curr],
             screen <- shown

(* The pipeline implements a register for the newest frame: queues,        *)
(* requeues, dropped frames and failed flips are invisible.                *)
ShowsLatestFrame == LF!Spec

(* The screen never goes back in time: each vertical blank shows the same  *)
(* frame again or a later one, although frames are dropped on the way.     *)
FramesInOrder == [][shown' >= shown]_vars

(* A buffer is released only when the camera has stopped writing.          *)
NoDmaAfterFree == freed => ~streaming /\ queued = <<>>

(* The buffer being scanned out is being written by the camera.            *)
Tearing == streaming /\ queued # <<>> /\ Head(queued) = scanout

(* Page-flip synchronised display, no tearing: README.md, Features.        *)
NoTearing == ~Tearing

(* How far the code is from that: page_flip_handler hands back the buffer  *)
(* that stays on screen until the next vertical blank, behind all other    *)
(* free buffers, so the camera needs n - 2 frames of lead to reach it.     *)
TearingNeedsLag == Tearing => lag >= n - 2

(* The original CRTC state is restored on exit: README.md, How it works.   *)
CrtcRestored == Exited => scanout = Saved

(* A request to quit ends the program, whatever the camera does.           *)
QuitTerminates == quit ~> Exited

(* Every captured frame is shown or overtaken by a later one, unless the   *)
(* program ends.                                                           *)
FrameReachesScreen ==
  \A f \in 1 .. MaxFrames :
    captured >= f ~> (shown >= f \/ pc \in {"stop", "close", "destroy",
                                            "done", "aborted"})

-----------------------------------------------------------------------------
(* The strengthening of the safety properties that is inductive.           *)

Setup == {"drm_setup", "v4l2_setup", "start"}

Phases ==
  /\ pc \in Setup =>
       /\ queued = <<>> /\ filled = <<>> /\ ~streaming
       /\ next = None /\ curr = 0
       /\ IF pc = "drm_setup" THEN flip = None /\ ~event ELSE scanout = 0
  /\ pc # "handle" => todo = {}
  /\ pc = "start" => n >= 2
  /\ freed => pc = "done"
  /\ pc \in {"destroy", "done", "aborted"} => ~streaming /\ queued = <<>>

(* An unread event means that the current buffer is the one on the screen. *)
EventMeansShown ==
  /\ "drm" \in todo => event
  /\ event => flip = None /\ scanout = curr

(* Frames become newer from the screen through the current, the next and   *)
(* the filled buffers.                                                     *)
NewerUpstream ==
  /\ shown <= frame[curr] /\ frame[curr] <= captured
  /\ next # None => frame[next] \in 1 .. captured /\ frame[next] > frame[curr]
  /\ \A i \in 1 .. Len(filled) :
       /\ frame[filled[i]] \in 1 .. captured
       /\ frame[filled[i]] > frame[curr]
       /\ next # None => frame[filled[i]] > frame[next]
       /\ \A j \in 1 .. Len(filled) :
            i < j => frame[filled[i]] < frame[filled[j]]

(* A buffer handed back while on the screen stands n - 1 places, less the  *)
(* lag, from the head of the camera's queue.                               *)
ReturnedBehind ==
  (streaming /\ scanout # curr) =>
     /\ \A i \in 1 .. Len(queued) : queued[i] = scanout => i + lag >= n - 1
     /\ (\A i \in 1 .. Len(queued) : queued[i] # scanout) => lag >= n - 1

IInv ==
  /\ TypeOK /\ Phases /\ SingleOwner /\ NoDoubleQueue /\ NoBufferLost
  /\ EventMeansShown /\ FlipsCurrent /\ NewerUpstream /\ ReturnedBehind
=============================================================================
