----------------------------- MODULE AtomicFlip -----------------------------
(***************************************************************************)
(* The display framework that the 16 games of multimedia/drm-games share:  *)
(* a game loop that renders into the back buffers of two planes and swaps  *)
(* them, with the cursor position, in one non-blocking atomic commit.      *)
(*                                                                         *)
(* drm_atomic_flip and drm_wait_flip are the same code in every game; the  *)
(* model follows drm-whack.c, one of those that redraw the cursor image    *)
(* while it is on the screen.  The process runs concurrently with the      *)
(* display, which completes a commit at a vertical blank.  An image is     *)
(* the number of the game frame it shows.                                  *)
(***************************************************************************)
EXTENDS Integers

CONSTANTS
  NUM_BUFFERS,   \* framebuffers of each plane (3 in every game)
  MaxFrames,     \* bound: frames a game renders in a behaviour
  MayTimeOut,    \* a vertical blank may take longer than the 100 ms of poll
  IoctlMayFail   \* setup, commits and teardown calls may fail

(* Two buffers would not do: the loop renders before it waits.             *)
ASSUME BuffersAssumption ==
  /\ NUM_BUFFERS \in Nat /\ NUM_BUFFERS >= 3
  /\ MaxFrames \in Nat
  /\ MayTimeOut \in BOOLEAN /\ IoctlMayFail \in BOOLEAN

Planes  == {"primary", "overlay"}
Buffers == 0 .. NUM_BUFFERS - 1
Saved   == -1   \* a plane shows what it did before the program ran
Off     == -2   \* a plane is disabled
NotOurs == {Saved, Off}

VARIABLES
  pc,            \* where the process is
  quit,          \* g_quit, or running cleared by ESC
  frame,         \* the game frame computed last
  front,         \* primary_front and overlay_front
  pflip_pending, \* the flag the flip event clears
  image,         \* content of every buffer of the two planes
  sprite,        \* content of the one cursor buffer: the frame it was drawn in
  busy,          \* kernel: a commit waits for the vertical blank
  target,        \* kernel: the buffers of the last commit
  targetAt,      \* kernel: the frame whose cursor position it carries
  events,        \* kernel: flip events readable on the DRM descriptor
  screen,        \* display: the buffer each plane scans out
  cursor,        \* display: the frame whose cursor position is in effect
  gaveUp         \* history: a wait ended although the flag was still set

procVars   == <<pc, quit, frame, front, pflip_pending>>
memory     == <<image, sprite>>
kernelVars == <<busy, target, targetAt, events, screen, cursor>>
vars       == <<procVars, memory, kernelVars, gaveUp>>

-----------------------------------------------------------------------------
(* drm_create_buffer clears the memory it maps.                            *)
Created == [p \in Planes |-> [b \in Buffers |-> 0]]

Init ==
  /\ pc = "init" /\ quit = FALSE /\ frame = 0
  /\ front = [p \in Planes |-> 0] /\ pflip_pending = FALSE
  /\ image = Created /\ sprite = 0
  /\ busy = FALSE /\ target = [p \in Planes |-> 0] /\ targetAt = 0
  /\ events = 0
  /\ screen = [p \in Planes |-> Saved] /\ cursor = Saved
  /\ gaveUp = FALSE

(* drm_init: cleared buffers, then one blocking commit that sets the mode  *)
(* and shows buffer 0 of each plane.  Every failure is before or of that   *)
(* commit: main returns 1 and the screen is as it was.                     *)
DrmInit ==
  /\ pc = "init"
  /\ screen' = [p \in Planes |-> 0] /\ cursor' = 0
  /\ pc' = "loop"
  /\ UNCHANGED <<quit, frame, front, pflip_pending, memory, busy, target,
                 targetAt, events, gaveUp>>

DrmInitFails ==
  /\ IoctlMayFail
  /\ pc = "init"
  /\ pc' = "failed"
  /\ UNCHANGED <<quit, frame, front, pflip_pending, memory, kernelVars,
                 gaveUp>>

(* Mutant: while (1).                                                      *)
LoopForever ==
  /\ pc = "loop"
  /\ frame < MaxFrames
  /\ pc' = "update"
  /\ UNCHANGED <<quit, frame, front, pflip_pending, memory, kernelVars,
                 gaveUp>>

(* while (!g_quit && game.running)                                         *)
LoopTest ==
  /\ pc = "loop"
  /\ quit \/ frame < MaxFrames
  /\ pc' = IF quit THEN "cleanup" ELSE "update"
  /\ UNCHANGED <<quit, frame, front, pflip_pending, memory, kernelVars,
                 gaveUp>>

(* input_poll and game_update compute the next frame; ESC may end the loop *)
(* with this iteration.                                                    *)
Update ==
  /\ pc = "update"
  /\ frame' = frame + 1
  /\ quit' \in {quit, TRUE}
  /\ pc' = "sprite"
  /\ UNCHANGED <<front, pflip_pending, memory, kernelVars, gaveUp>>

(* draw_hammer, when the state of the hammer changed: into the one cursor  *)
(* buffer, the one on the screen.                                          *)
DrawCursor ==
  /\ pc = "sprite"
  /\ sprite' \in {sprite, frame}
  /\ pc' = "primary"
  /\ UNCHANGED <<quit, frame, front, pflip_pending, image, kernelVars, gaveUp>>

(* Mutant: the index does not wrap around.                                 *)
BackUnwrapped(p) == front[p] + 1

(* Mutant: only two buffers of each plane are used.                        *)
BackDouble(p) == (front[p] + 1) % (NUM_BUFFERS - 1)

Back(p) == (front[p] + 1) % NUM_BUFFERS

(* Mutant: the plane is redrawn only when the game thinks it changed.      *)
RenderSometimes(p) ==
  \/ image' = [image EXCEPT ![p][Back(p)] = frame]
  \/ UNCHANGED image

(* render_primary (draw_background) and render_overlay (draw_overlay) draw *)
(* all of the back buffer of their plane.                                  *)
Render(p) == image' = [image EXCEPT ![p][Back(p)] = frame]

RenderPrimary ==
  /\ pc = "primary"
  /\ Render("primary")
  /\ pc' = "overlay"
  /\ UNCHANGED <<quit, frame, front, pflip_pending, sprite, kernelVars, gaveUp>>

RenderOverlay ==
  /\ pc = "overlay"
  /\ Render("overlay")
  /\ pc' = "wait"
  /\ UNCHANGED <<quit, frame, front, pflip_pending, sprite, kernelVars, gaveUp>>

-----------------------------------------------------------------------------
(* drm_wait_flip, called by the loop and by drm_cleanup.                   *)
Waits == {"wait", "cleanup"}

(* Mutant: drm_cleanup leaves the screen alone when the wait gave up.      *)
AfterWaitHasty ==
  IF pc = "wait" THEN "commit"
  ELSE IF pflip_pending THEN "destroy" ELSE "disable"

AfterWait == IF pc = "wait" THEN "commit" ELSE "disable"

WaitDone ==
  /\ pc \in Waits
  /\ ~pflip_pending
  /\ pc' = AfterWait
  /\ UNCHANGED <<quit, frame, front, pflip_pending, memory, kernelVars, gaveUp>>

(* drmHandleEvent reads every event there is and calls page_flip_handler   *)
(* for each: an event of an earlier commit clears the flag as well.        *)
HandleEvents ==
  /\ pc \in Waits
  /\ pflip_pending /\ events > 0
  /\ pflip_pending' = FALSE
  /\ events' = 0
  /\ UNCHANGED <<pc, quit, frame, front, memory, busy, target, targetAt,
                 screen, cursor, gaveUp>>

(* poll times out, or fails with anything but EINTR: the flag stays set.   *)
WaitGivesUp ==
  /\ pc \in Waits
  /\ pflip_pending /\ events = 0
  /\ MayTimeOut \/ IoctlMayFail
  /\ gaveUp' = TRUE
  /\ pc' = AfterWait
  /\ UNCHANGED <<quit, frame, front, pflip_pending, memory, kernelVars>>

(* Mutant: pflip_pending is not set.                                       *)
CommitUnflagged ==
  /\ pc = "commit"
  /\ ~busy
  /\ busy' = TRUE
  /\ target' = [p \in Planes |-> Back(p)]
  /\ targetAt' = frame
  /\ front' = [p \in Planes |-> Back(p)]
  /\ pc' = "loop"
  /\ UNCHANGED <<quit, frame, pflip_pending, memory, events, screen, cursor,
                 gaveUp>>

(* Mutant: the overlay's front index is not advanced.                      *)
CommitHalf ==
  /\ pc = "commit"
  /\ ~busy
  /\ busy' = TRUE
  /\ target' = [p \in Planes |-> Back(p)]
  /\ targetAt' = frame
  /\ pflip_pending' = TRUE
  /\ front' = [front EXCEPT !["primary"] = Back("primary")]
  /\ pc' = "loop"
  /\ UNCHANGED <<quit, frame, memory, events, screen, cursor, gaveUp>>

(* drm_atomic_flip: the kernel takes the commit when no other is waiting.  *)
CommitAccepted ==
  /\ pc = "commit"
  /\ ~busy
  /\ busy' = TRUE
  /\ target' = [p \in Planes |-> Back(p)]
  /\ targetAt' = frame
  /\ pflip_pending' = TRUE
  /\ front' = [p \in Planes |-> Back(p)]
  /\ pc' = "loop"
  /\ UNCHANGED <<quit, frame, memory, events, screen, cursor, gaveUp>>

(* EBUSY: the frame is skipped.  Any other failure only prints.            *)
CommitRefused ==
  /\ pc = "commit"
  /\ busy \/ IoctlMayFail
  /\ pc' = "loop"
  /\ UNCHANGED <<quit, frame, front, pflip_pending, memory, kernelVars,
                 gaveUp>>

-----------------------------------------------------------------------------
(* drm_cleanup after its wait.  The two calls that change the screen block *)
(* until an earlier commit is done; their failures are ignored.            *)
DisablePlanes ==
  /\ pc = "disable"
  /\ \/ /\ ~busy
        /\ screen' = [screen EXCEPT !["overlay"] = Off]
        /\ cursor' = Off
     \/ IoctlMayFail /\ UNCHANGED <<screen, cursor>>
  /\ pc' = "restore"
  /\ UNCHANGED <<quit, frame, front, pflip_pending, memory, busy, target,
                 targetAt, events, gaveUp>>

(* drmModeSetCrtc to the saved CRTC.                                       *)
RestoreCrtc ==
  /\ pc = "restore"
  /\ \/ /\ ~busy
        /\ screen' = [screen EXCEPT !["primary"] = Saved]
     \/ IoctlMayFail /\ UNCHANGED screen
  /\ pc' = "destroy"
  /\ UNCHANGED <<quit, frame, front, pflip_pending, memory, busy, target,
                 targetAt, events, cursor, gaveUp>>

(* drm_destroy_buffer for every buffer: the kernel takes a framebuffer     *)
(* that is still in use off its plane.                                     *)
DestroyBuffers ==
  /\ pc = "destroy"
  /\ busy' = FALSE
  /\ screen' = [p \in Planes |-> IF screen[p] \in NotOurs THEN screen[p]
                                ELSE Off]
  /\ cursor' = Off
  /\ pc' = "done"
  /\ UNCHANGED <<quit, frame, front, pflip_pending, memory, target, targetAt,
                 events, gaveUp>>

-----------------------------------------------------------------------------
(* The environment: a signal, and the vertical blank that completes the    *)
(* commit for all planes at once and posts its event.                      *)
Signal ==
  /\ ~quit
  /\ quit' = TRUE
  /\ UNCHANGED <<pc, frame, front, pflip_pending, memory, kernelVars, gaveUp>>

VBlank ==
  /\ busy
  /\ busy' = FALSE
  /\ screen' = target /\ cursor' = targetAt
  /\ events' = events + 1
  /\ UNCHANGED <<procVars, memory, target, targetAt, gaveUp>>

-----------------------------------------------------------------------------
App ==
  \/ DrmInit \/ DrmInitFails \/ LoopTest \/ Update \/ DrawCursor
  \/ RenderPrimary \/ RenderOverlay
  \/ WaitDone \/ HandleEvents \/ WaitGivesUp
  \/ CommitAccepted \/ CommitRefused
  \/ DisablePlanes \/ RestoreCrtc \/ DestroyBuffers

Next == App \/ Signal \/ VBlank

Spec == Init /\ [][Next]_vars

(* The process is scheduled and the display keeps blanking.                *)
FairSpec == Spec /\ WF_vars(App) /\ WF_vars(VBlank)

-----------------------------------------------------------------------------
Exited == pc \in {"done", "failed"}

TypeOK ==
  /\ pc \in {"init", "loop", "update", "sprite", "primary", "overlay", "wait",
             "commit", "cleanup", "disable", "restore", "destroy", "done",
             "failed"}
  /\ quit \in BOOLEAN /\ frame \in Nat
  /\ front \in [Planes -> Buffers]
  /\ pflip_pending \in BOOLEAN
  /\ image \in [Planes -> [Buffers -> Nat]] /\ sprite \in Nat
  /\ busy \in BOOLEAN /\ target \in [Planes -> Buffers] /\ targetAt \in Nat
  /\ events \in Nat
  /\ screen \in [Planes -> Buffers \cup NotOurs]
  /\ cursor \in Nat \cup NotOurs
  /\ gaveUp \in BOOLEAN

(* The loop renders before it waits for the flip, so a commit may still be *)
(* pending while it draws: the buffer drawn into is neither on the screen  *)
(* nor about to be ("we don't write to a buffer that is still being        *)
(* scanned out", drm-whack.c:1340), also after a wait that gave up.        *)
BackBuffersFree ==
  \A p \in Planes :
    pc = p => screen[p] # Back(p) /\ (busy => target[p] # Back(p))

Shown(p) == IF screen[p] \in NotOurs THEN screen[p] ELSE image[p][screen[p]]

(* While the game runs, what the two planes show and the cursor position   *)
(* belong to the same frame.                                               *)
Running == pc \notin {"init", "failed", "restore", "destroy", "done"}

PlanesInStep == Running => \A p \in Planes : Shown(p) = cursor

(* Every commit the loop makes is accepted, unless a wait gave up before:  *)
(* only then are frames skipped.                                           *)
SkipsOnlyIfLate == pc = "commit" /\ busy => gaveUp

(* Commits whose event has not been read.                                  *)
Outstanding == events + (IF busy THEN 1 ELSE 0)

(* After a wait that gave up, events are read one commit late; they never  *)
(* pile up in the kernel.                                                  *)
EventsBounded == Outstanding <= 2

(* What a plane shows is never replaced by an older frame, neither by a    *)
(* commit nor by drawing into the buffer on the screen.                    *)
ScreenForward ==
  [][\A p \in Planes :
       screen[p] \in Buffers /\ screen'[p] \in Buffers
         => Shown(p)' >= Shown(p)]_vars

(* The image in the single cursor buffer is no newer than the frame on the *)
(* screen: "All planes updated atomically per vblank", drm-whack.c:622.    *)
SpriteInStep == cursor \in Nat => sprite <= cursor

(* Quitting leaves the screen as it was found, unless a call fails.        *)
ScreenRestored ==
  (Exited /\ ~IoctlMayFail)
     => screen["primary"] = Saved /\ screen["overlay"] \in NotOurs

(* A request to quit ends the program.                                     *)
QuitTerminates == quit ~> Exited

(* While the game goes on, every frame it computes gets to the screen.     *)
EveryFrameShown ==
  \A f \in 1 .. MaxFrames : frame = f ~> (cursor >= f \/ quit)

-----------------------------------------------------------------------------
(* The strengthening of the safety properties that is inductive.           *)

(* The buffers form a ring: the front one is on the screen, or its commit  *)
(* is pending and the one before it is on the screen.                      *)
Ring ==
  (Running \/ busy) =>
    \A p \in Planes :
      /\ screen[p] \in Buffers
      /\ IF busy
         THEN target[p] = front[p] /\ (screen[p] + 1) % NUM_BUFFERS = front[p]
         ELSE screen[p] = front[p]

(* What the buffers of the ring show.                                      *)
Newest == IF busy THEN targetAt ELSE cursor

Images ==
  (Running \/ busy) =>
    /\ cursor \in Nat /\ cursor <= Newest /\ Newest <= frame
    /\ \A p \in Planes :
         image[p][screen[p]] = cursor /\ image[p][front[p]] = Newest

(* The back buffers are drawn when the commit is made.                     *)
Drawn ==
  /\ pc \in {"overlay", "wait", "commit"}
       => image["primary"][Back("primary")] = frame
  /\ pc \in {"wait", "commit"}
       => image["overlay"][Back("overlay")] = frame

(* The flag and the commit or event it stands for.                         *)
Flag ==
  /\ Outstanding <= 2
  /\ (~pflip_pending \/ pc = "commit") => Outstanding <= 1
  /\ ~gaveUp => /\ Outstanding = (IF pflip_pending THEN 1 ELSE 0)
                /\ pc \in {"commit", "disable", "restore", "destroy"}
                     => ~pflip_pending

(* Nothing was drawn or committed before drm_init.                         *)
Fresh ==
  pc = "init" => /\ ~busy
                 /\ \A p \in Planes :
                      front[p] = 0 /\ image[p][0] = 0 /\ screen[p] = Saved

IInv == TypeOK /\ Fresh /\ Ring /\ Images /\ Drawn /\ Flag
=============================================================================
