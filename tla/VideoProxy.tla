------------------------------ MODULE VideoProxy ------------------------------
(***************************************************************************)
(* The OPC-UA demo: the server of the video kit (video-kit-server.py),     *)
(* which starts and stops the stream and sets up the camera, the proxy on  *)
(* the Icicle kit (icicle-video-proxy-server.py), a server whose loop      *)
(* forwards its nodes to the video kit's, and an operator who writes nodes *)
(* of the proxy or, with direct, of the video kit.                         *)
(*                                                                         *)
(* A command is a node that reads 1111 until it is taken and 0000 again.   *)
(* Here 0 stands for 0000, and a positive number for 1111: the number of   *)
(* the operator's write that set it.  A value is valid or not and carries  *)
(* the number of its write too.  The numbers are history.  The ip address  *)
(* is never corrected; quality stands for the gains, brightness and        *)
(* contrast as well, res for both resolutions.                             *)
(*                                                                         *)
(* Every await on the network may let others run.  One on the server's own *)
(* nodes does so only if asyncua suspends there, which local says.         *)
(***************************************************************************)
EXTENDS Integers

CONSTANT MaxWrites      \* bound: writes of the operator



VARIABLES
  local, direct, polite,   \* never change; polite: commands wait for 0000
  proxy, kit,    \* the nodes of the two servers
  pc, snap,      \* the proxy: the await it is in, and its local values
  kpc, ksnap,    \* the same of the video kit
  camera,        \* its settings, and the command that set them
  stream,        \* ffmpeg: its address, and the command that started or stopped it
  writes,        \* the operator's writes so far
  last,          \* history: the operator's last update and start-or-stop
  asked          \* history: the values when a command was written

mode == <<local, direct, polite>>
vars == <<mode, proxy, kit, pc, snap, kpc, ksnap, camera, stream, writes, last, asked>>

Flag   == {"start", "stop", "cmd"}
Value  == {"ip", "quality", "res"}
Number == 0 .. MaxWrites
Values == [ver : Number, valid : BOOLEAN]
Nodes  == [start : Number, stop : Number, cmd : Number, ip : Values, quality : Values, res : Values]

Default == [ver |-> 0, valid |-> TRUE]
Fresh   == [start |-> 0, stop |-> 0, cmd |-> 0, ip |-> Default, quality |-> Default, res |-> Default]

(* The servers while none of the operator's or the proxy's requests can be *)
(* served: inside a stretch of code that only awaits its own nodes.        *)
ProxyServes == pc # "ended" /\ (local \/ pc \notin {"quality", "fixQuality", "res", "fixRes"})
KitServes   == local \/ kpc = "sleep"

Init ==
  /\ local \in BOOLEAN /\ direct \in BOOLEAN /\ polite \in BOOLEAN
  /\ proxy = Fresh /\ kit = Fresh /\ snap = Fresh /\ ksnap = Fresh
  /\ pc = (IF direct THEN "ended" ELSE "connect") /\ kpc = "sleep"
  /\ camera = [quality |-> Default, res |-> Default, by |-> 0]
  /\ stream = [on |-> FALSE, ip |-> Default, by |-> 0]
  /\ writes = 0
  /\ last = [update |-> 0, stream |-> 0]
  /\ asked = [n \in 1 .. MaxWrites |-> [v \in Value |-> 0]]

-----------------------------------------------------------------------------
(* The operator. *)
Target == IF direct THEN kit ELSE proxy

Serves == IF direct THEN KitServes ELSE ProxyServes

WriteNode(n, x) ==
  IF direct THEN kit' = [kit EXCEPT ![n] = x] /\ UNCHANGED proxy
            ELSE proxy' = [proxy EXCEPT ![n] = x] /\ UNCHANGED kit

SetValue ==
  /\ Serves /\ writes < MaxWrites
  /\ writes' = writes + 1
  /\ \E v \in Value, ok \in BOOLEAN :
       /\ v = "ip" => ok
       /\ WriteNode(v, [ver |-> writes + 1, valid |-> ok])
  /\ UNCHANGED <<mode, pc, snap, kpc, ksnap, camera, stream, last, asked>>

Command ==
  /\ Serves /\ writes < MaxWrites
  /\ writes' = writes + 1
  /\ \E f \in Flag :
       /\ polite => Target[f] = 0
       /\ WriteNode(f, writes + 1)
       /\ last' = IF f = "cmd" THEN [last EXCEPT !.update = writes + 1]
                               ELSE [last EXCEPT !.stream = writes + 1]
  /\ asked' = [asked EXCEPT ![writes + 1] = [v \in Value |-> Target[v].ver]]
  /\ UNCHANGED <<mode, pc, snap, kpc, ksnap, camera, stream>>

-----------------------------------------------------------------------------
(* Mutant: values are not checked.                                         *)
CorrectedNot(x) == x

(* An invalid value is replaced by the default. *)
Corrected(x) == IF x.valid THEN x ELSE [x EXCEPT !.valid = TRUE]

(* What a loop waits for next, by the commands it has read; Skip is the    *)
(* mutant that forwards without a command.                                 *)
ToUpdateSkip(s) == "sendQuality"
ToUpdate(s) == IF s.cmd # 0 THEN "sendQuality" ELSE "sleep"
ToStop(s)   == IF s.stop # 0 THEN "sendStop" ELSE ToUpdate(s)
ToStart(s)  == IF s.start # 0 THEN "sendIp" ELSE ToStop(s)

others == <<mode, kpc, ksnap, camera, stream, writes, last, asked>>

Connect ==
  /\ pc = "connect"
  /\ pc' \in {"sleep", "ended"}
  /\ UNCHANGED <<others, proxy, kit, snap>>

(* The loop starts: commands and the address, before the values. *)
ReadFlags ==
  /\ pc = "sleep"
  /\ snap' = [snap EXCEPT !.start = proxy.start, !.stop = proxy.stop, !.cmd = proxy.cmd,
                          !.ip = proxy.ip]
  /\ pc' = "quality"
  /\ UNCHANGED <<others, proxy, kit>>

ReadQuality ==
  /\ pc = "quality"
  /\ snap' = [snap EXCEPT !.quality = proxy.quality]
  /\ pc' = IF proxy.quality.valid THEN "res" ELSE "fixQuality"
  /\ UNCHANGED <<others, proxy, kit>>

(* The node is corrected, the value that was read is not. *)
FixQuality ==
  /\ pc = "fixQuality"
  /\ proxy' = [proxy EXCEPT !.quality = Corrected(snap.quality)]
  /\ pc' = "res"
  /\ UNCHANGED <<others, kit, snap>>

ReadRes ==
  /\ pc = "res"
  /\ snap' = [snap EXCEPT !.res = Corrected(proxy.res)]
  /\ pc' = IF proxy.res.valid THEN ToStart(snap) ELSE "fixRes"
  /\ UNCHANGED <<others, proxy, kit>>

FixRes ==
  /\ pc = "fixRes"
  /\ proxy' = [proxy EXCEPT !.res = snap.res]
  /\ pc' = ToStart(snap)
  /\ UNCHANGED <<others, kit, snap>>

(* A value or a command is written to the video kit. *)
Send(at, node, x, next) ==
  /\ pc = at /\ KitServes
  /\ kit' = [kit EXCEPT ![node] = x]
  /\ pc' = next
  /\ UNCHANGED <<others, proxy, snap>>

(* A command that was forwarded reads 0000 again. *)
Clear(at, node, next) ==
  /\ pc = at
  /\ proxy' = [proxy EXCEPT ![node] = 0]
  /\ pc' = next
  /\ UNCHANGED <<others, kit, snap>>

(* Mutant: the proxy's own address node is passed by.                      *)
SendIpNot == Send("sendIp", "ip", kit.ip, "sendStart")
SendIp == Send("sendIp", "ip", snap.ip, "sendStart")
SendStart == Send("sendStart", "start", snap.start, "clearStart")
(* Mutant: the wrong command is reset.                                     *)
ClearStartWrong == Clear("clearStart", "cmd", ToStop(snap))
ClearStart == Clear("clearStart", "start", ToStop(snap))

SendStop  == Send("sendStop", "stop", snap.stop, "clearStop")
ClearStop == Clear("clearStop", "stop", ToUpdate(snap))

(* Mutant: the quality is left out.                                        *)
SendQualityNot == Send("sendQuality", "quality", kit.quality, "sendRes")
SendQuality == Send("sendQuality", "quality", snap.quality, "sendRes")
SendRes  == Send("sendRes", "res", snap.res, "sendCmd")
SendCmd  == Send("sendCmd", "cmd", snap.cmd, "clearCmd")
ClearCmd == Clear("clearCmd", "cmd", "sleep")

(* A request fails: the proxy stops its server and ends. *)
ConnectionLost ==
  /\ pc \in {"sendIp", "sendStart", "sendStop", "sendQuality", "sendRes", "sendCmd"}
  /\ pc' = "ended"
  /\ UNCHANGED <<others, proxy, kit, snap>>

-----------------------------------------------------------------------------
(* The video kit. *)
KitToUpdate(s) == IF s.cmd # 0 THEN "update" ELSE "sleep"
KitToStop(s)   == IF s.stop # 0 THEN "stop" ELSE KitToUpdate(s)
KitToStart(s)  == IF s.start # 0 THEN "start" ELSE KitToStop(s)

kothers == <<mode, proxy, pc, snap, writes, last, asked>>

KitReadFlags ==
  /\ kpc = "sleep"
  /\ ksnap' = [ksnap EXCEPT !.start = kit.start, !.stop = kit.stop, !.cmd = kit.cmd, !.ip = kit.ip]
  /\ kpc' = "values"
  /\ UNCHANGED <<kothers, kit, camera, stream>>

KitReadValues ==
  /\ kpc = "values"
  /\ ksnap' = [ksnap EXCEPT !.quality = kit.quality, !.res = Corrected(kit.res)]
  /\ kpc' = IF kit.res.valid THEN KitToStart(ksnap) ELSE "fixRes"
  /\ UNCHANGED <<kothers, kit, camera, stream>>

KitFixRes ==
  /\ kpc = "fixRes"
  /\ kit' = [kit EXCEPT !.res = ksnap.res]
  /\ kpc' = KitToStart(ksnap)
  /\ UNCHANGED <<kothers, ksnap, camera, stream>>

(* ffmpeg is killed and started again, which fails while the old one still *)
(* holds the camera.                                                       *)
KitStart ==
  /\ kpc = "start"
  /\ stream' \in [on : {TRUE, ~stream.on}, ip : {ksnap.ip}, by : {ksnap.start}]
  /\ kpc' = "started"
  /\ UNCHANGED <<kothers, kit, ksnap, camera>>

KitStarted ==
  /\ kpc = "started"
  /\ kit' = [kit EXCEPT !.start = 0]
  /\ kpc' = KitToStop(ksnap)
  /\ UNCHANGED <<kothers, ksnap, camera, stream>>

KitStop ==
  /\ kpc = "stop"
  /\ stream' = [stream EXCEPT !.on = FALSE, !.by = ksnap.stop]
  /\ kpc' = "stopped"
  /\ UNCHANGED <<kothers, kit, ksnap, camera>>

KitStopped ==
  /\ kpc = "stopped"
  /\ kit' = [kit EXCEPT !.stop = 0]
  /\ kpc' = KitToUpdate(ksnap)
  /\ UNCHANGED <<kothers, ksnap, camera, stream>>

(* Mutant: the values are only set while a stream runs.                    *)
KitUpdateStreaming ==
  /\ kpc = "update"
  /\ camera' = IF stream.on THEN [quality |-> ksnap.quality, res |-> ksnap.res, by |-> ksnap.cmd]
                            ELSE camera
  /\ kpc' = "updated"
  /\ UNCHANGED <<kothers, kit, ksnap, stream>>

KitUpdate ==
  /\ kpc = "update"
  /\ camera' = [quality |-> ksnap.quality, res |-> ksnap.res, by |-> ksnap.cmd]
  /\ kpc' = "updated"
  /\ UNCHANGED <<kothers, kit, ksnap, stream>>

KitUpdated ==
  /\ kpc = "updated"
  /\ kit' = [kit EXCEPT !.cmd = 0]
  /\ kpc' = "sleep"
  /\ UNCHANGED <<kothers, ksnap, camera, stream>>

-----------------------------------------------------------------------------
Operator == SetValue \/ Command
Sends    == SendIp \/ SendStart \/ SendStop \/ SendQuality \/ SendRes \/ SendCmd
Clears   == ClearStart \/ ClearStop \/ ClearCmd
Proxy    == Connect \/ ReadFlags \/ ReadQuality \/ FixQuality \/ ReadRes \/ FixRes \/ Sends \/ Clears
Kit      == \/ KitReadFlags \/ KitReadValues \/ KitFixRes \/ KitStart \/ KitStarted
            \/ KitStop \/ KitStopped \/ KitUpdate \/ KitUpdated
Next == Operator \/ Proxy \/ ConnectionLost \/ Kit

Spec == Init /\ [][Next]_vars

(* Both loops go on for ever, and a request that is waiting is served in a *)
(* second the video kit sleeps: it is possible again and again, not all    *)
(* the time, hence SF.  The operator need not write, and a request may     *)
(* fail.                                                                   *)
FairSpec == Spec /\ WF_vars(Kit) /\ SF_vars(Proxy)

-----------------------------------------------------------------------------
(* The types; a loop forwards or executes only what was commanded. *)
TypeOK ==
  /\ proxy \in Nodes /\ kit \in Nodes /\ snap \in Nodes /\ ksnap \in Nodes
  /\ camera \in [quality : Values, res : Values, by : Number]
  /\ stream \in [on : BOOLEAN, ip : Values, by : Number]
  /\ writes \in Number /\ last \in [update : Number, stream : Number]
  /\ asked \in [1 .. MaxWrites -> [Value -> Number]]
  /\ pc \in {"sendIp", "sendStart", "clearStart"} => snap.start # 0
  /\ pc \in {"sendStop", "clearStop"} => snap.stop # 0
  /\ pc \in {"sendQuality", "sendRes", "sendCmd", "clearCmd"} => snap.cmd # 0

(* The camera never has values older than those the operator saw when he   *)
(* gave the command: both loops read commands before values, and the proxy *)
(* writes values before the command.  Where awaits on own nodes switch,    *)
(* the correction of a value may overwrite a newer one.                    *)
UpdateFresh ==
  ~local /\ camera.by # 0 =>
    /\ camera.quality.ver >= asked[camera.by]["quality"]
    /\ camera.res.ver >= asked[camera.by]["res"]

(* A stream never goes to an address older than the one at its command.    *)
StreamFresh == stream.on => stream.ip.ver >= asked[stream.by]["ip"]

(* No operator can give the camera a resolution it does not have, through  *)
(* the proxy or directly, at any moment.                                   *)
ResolutionValid == camera.res.valid

(* 0000 acknowledges: once an operator who waits for it reads 0000, his    *)
(* update has reached the video kit, if it was not executed already.       *)
Acknowledged ==
  polite /\ ~local /\ Target.cmd = 0 => last.update <= kit.cmd \/ last.update <= camera.by

(* And it is executed in the end, or a later one, unless the connection    *)
(* fails.                                                                  *)
Updating == polite /\ ~local /\ Target.cmd # 0
Updated  == camera.by >= last.update \/ (pc = "ended" /\ ~direct)
UpdateExecuted == Updating ~> Updated
=============================================================================
