------------------------- MODULE OpcuaServers_proofs -------------------------
(***************************************************************************)
(* Proofs about the two OPC-UA servers.  VideoProxy, for any bound on the  *)
(* operator's writes: its types, that what is executed is as new as the    *)
(* command, that the camera never gets a resolution it does not have, and  *)
(* what an acknowledgement means.  StepperServer, for any inputs and any   *)
(* bound on the clients' writes: every start moves the motor once.         *)
(***************************************************************************)
EXTENDS VideoProxy, TLAPS

CONSTANT Inputs                                 \* of the stepper motor's server
VARIABLES nodes, copy, spc, run, given, wanted

Stepper == INSTANCE StepperServer

-----------------------------------------------------------------------------
(* The inductive invariants.                                               *)

(* The states of the two loops.                                            *)
Sending == {"sendIp", "sendStart", "clearStart", "sendStop", "clearStop",
            "sendQuality", "sendRes", "sendCmd", "clearCmd"}
ProxyStates == {"connect", "ended", "sleep", "quality", "fixQuality", "res", "fixRes"} \union Sending
KitStates   == {"sleep", "values", "fixRes", "start", "started", "stop", "stopped", "update", "updated"}

(* Types, with all numbers up to the number of writes so far.              *)
UpTo(n)     == 0 .. n
ValuesTo(n) == [ver : UpTo(n), valid : BOOLEAN]
NodesTo(n)  == [start : UpTo(n), stop : UpTo(n), cmd : UpTo(n),
                ip : ValuesTo(n), quality : ValuesTo(n), res : ValuesTo(n)]

StateType ==
  /\ local \in BOOLEAN /\ direct \in BOOLEAN /\ polite \in BOOLEAN
  /\ pc \in ProxyStates /\ kpc \in KitStates
  /\ writes \in Number
  /\ last \in [update : UpTo(writes), stream : UpTo(writes)]
  /\ asked \in [1 .. MaxWrites -> [Value -> Number]]
NodeType ==
  /\ proxy \in NodesTo(writes) /\ kit \in NodesTo(writes)
  /\ snap \in NodesTo(writes) /\ ksnap \in NodesTo(writes)
OutType ==
  /\ camera \in [quality : ValuesTo(writes), res : ValuesTo(writes), by : UpTo(writes)]
  /\ stream \in [on : BOOLEAN, ip : ValuesTo(writes), by : UpTo(writes)]
CommandsTaken ==
  /\ pc \in {"sendIp", "sendStart", "clearStart"} => snap.start # 0
  /\ pc \in {"sendStop", "clearStop"} => snap.stop # 0
  /\ pc \in {"sendQuality", "sendRes", "sendCmd", "clearCmd"} => snap.cmd # 0
  /\ kpc \in {"start", "started"} => ksnap.start # 0
  /\ kpc \in {"stop", "stopped"} => ksnap.stop # 0
  /\ kpc \in {"update", "updated"} => ksnap.cmd # 0
  /\ direct => pc = "ended"
TypeInv == StateType /\ NodeType /\ OutType /\ CommandsTaken

(* A value w that is there when command n is carried out is as new as the  *)
(* one the operator saw.                                                   *)
New(n, w, v) == n # 0 => w.ver >= asked[n][v]

(* The address, and the start of the stream.                               *)
StreamInv ==
  /\ New(proxy.start, proxy.ip, "ip") /\ New(snap.start, snap.ip, "ip")
  /\ New(kit.start, kit.ip, "ip") /\ New(ksnap.start, ksnap.ip, "ip")
  /\ ~direct => kit.ip.ver <= snap.ip.ver /\ snap.ip.ver <= proxy.ip.ver
  /\ pc = "sendStart" => kit.ip = snap.ip
  /\ stream.on => stream.by # 0 /\ New(stream.by, stream.ip, "ip")

(* The values, and the update of the camera.                               *)
ProxyNew ==
  /\ New(proxy.cmd, proxy.quality, "quality") /\ New(proxy.cmd, proxy.res, "res")
  /\ New(snap.cmd, proxy.quality, "quality") /\ New(snap.cmd, proxy.res, "res")
  /\ pc # "quality" => New(snap.cmd, snap.quality, "quality")
  /\ pc \notin {"quality", "fixQuality", "res"} => New(snap.cmd, snap.res, "res")
KitNew ==
  /\ New(kit.cmd, kit.quality, "quality") /\ New(kit.cmd, kit.res, "res")
  /\ New(ksnap.cmd, kit.quality, "quality") /\ New(ksnap.cmd, kit.res, "res")
  /\ kpc # "values" => New(ksnap.cmd, ksnap.quality, "quality") /\ New(ksnap.cmd, ksnap.res, "res")
Copied ==
  /\ pc = "fixQuality" => snap.quality.ver = proxy.quality.ver
  /\ pc = "fixRes" => snap.res.ver = proxy.res.ver
  /\ kpc = "fixRes" => ksnap.res.ver = kit.res.ver
  /\ ~direct => /\ kit.quality.ver <= snap.quality.ver /\ snap.quality.ver <= proxy.quality.ver
                /\ kit.res.ver <= snap.res.ver /\ snap.res.ver <= proxy.res.ver
  /\ pc \in {"sendRes", "sendCmd"} => kit.quality.ver = snap.quality.ver
  /\ pc = "sendCmd" => kit.res.ver = snap.res.ver
CameraNew == New(camera.by, camera.quality, "quality") /\ New(camera.by, camera.res, "res")
UpdateInv == ~local => ProxyNew /\ KitNew /\ Copied /\ CameraNew

ValidInv == ksnap.res.valid /\ camera.res.valid

(* The acknowledgement.                                                    *)
Reached(n) == n <= kit.cmd \/ n <= camera.by
AckNow ==
  /\ Target.cmd = 0 => Reached(last.update)
  /\ Target.cmd # 0 => Target.cmd = last.update
  /\ pc \notin {"sleep", "connect", "ended"} /\ snap.cmd # 0 => snap.cmd = proxy.cmd
  /\ pc = "clearCmd" => Reached(snap.cmd)
  /\ kpc # "sleep" => ksnap.cmd = kit.cmd
  /\ kpc = "updated" => camera.by = ksnap.cmd
  /\ kit.cmd # 0 => camera.by <= kit.cmd
  /\ camera.by <= last.update /\ kit.cmd <= last.update
AckInv == polite /\ ~local => AckNow

-----------------------------------------------------------------------------
(* Operators of the model.                                                 *)

(* Node f, or v, of r becomes x.                                           *)
PutFlag(s, r, f, x) ==
  /\ s.start = IF f = "start" THEN x ELSE r.start
  /\ s.stop = IF f = "stop" THEN x ELSE r.stop
  /\ s.cmd = IF f = "cmd" THEN x ELSE r.cmd
  /\ s.ip = r.ip /\ s.quality = r.quality /\ s.res = r.res
PutValue(s, r, v, x) ==
  /\ s.start = r.start /\ s.stop = r.stop /\ s.cmd = r.cmd
  /\ s.ip = IF v = "ip" THEN x ELSE r.ip
  /\ s.quality = IF v = "quality" THEN x ELSE r.quality
  /\ s.res = IF v = "res" THEN x ELSE r.res

(* A command node, or a value, is written.                                 *)
LEMMA FlagSet ==
  ASSUME NEW n \in Nat, NEW r \in NodesTo(n), NEW f \in Flag, NEW x \in UpTo(n)
  PROVE  [r EXCEPT ![f] = x] \in NodesTo(n) /\ PutFlag([r EXCEPT ![f] = x], r, f, x)
<1>1. CASE f = "start"
  BY <1>1, SMT DEF NodesTo, PutFlag
<1>2. CASE f = "stop"
  BY <1>2, SMT DEF NodesTo, PutFlag
<1>3. CASE f = "cmd"
  BY <1>3, SMT DEF NodesTo, PutFlag
<1> QED
  BY <1>1, <1>2, <1>3 DEF Flag

LEMMA ValueSet ==
  ASSUME NEW n \in Nat, NEW r \in NodesTo(n), NEW v \in Value, NEW x \in ValuesTo(n)
  PROVE  [r EXCEPT ![v] = x] \in NodesTo(n) /\ PutValue([r EXCEPT ![v] = x], r, v, x)
<1>1. CASE v = "ip"
  BY <1>1, SMT DEF NodesTo, PutValue
<1>2. CASE v = "quality"
  BY <1>2, SMT DEF NodesTo, PutValue
<1>3. CASE v = "res"
  BY <1>3, SMT DEF NodesTo, PutValue
<1> QED
  BY <1>1, <1>2, <1>3 DEF Value

(* A node by its name.                                                     *)
LEMMA NodeFields ==
  ASSUME NEW n \in Nat, NEW r \in NodesTo(n)
  PROVE  /\ \A x \in UpTo(n) :
              /\ [r EXCEPT !.start = x] \in NodesTo(n)
              /\ [r EXCEPT !.stop = x] \in NodesTo(n)
              /\ [r EXCEPT !.cmd = x] \in NodesTo(n)
         /\ \A x \in ValuesTo(n) :
              /\ [r EXCEPT !.ip = x] \in NodesTo(n)
              /\ [r EXCEPT !.quality = x] \in NodesTo(n)
              /\ [r EXCEPT !.res = x] \in NodesTo(n)
<1>1. ASSUME NEW x \in UpTo(n)
      PROVE  /\ [r EXCEPT !.start = x] \in NodesTo(n)
             /\ [r EXCEPT !.stop = x] \in NodesTo(n)
             /\ [r EXCEPT !.cmd = x] \in NodesTo(n)
  BY SMT DEF NodesTo
<1>2. ASSUME NEW x \in ValuesTo(n)
      PROVE  /\ [r EXCEPT !.ip = x] \in NodesTo(n)
             /\ [r EXCEPT !.quality = x] \in NodesTo(n)
             /\ [r EXCEPT !.res = x] \in NodesTo(n)
  BY SMT DEF NodesTo
<1> QED
  BY <1>1, <1>2

(* The commands and the address are read together.                         *)
LEMMA FlagsRead ==
  ASSUME NEW n \in Nat, NEW r \in NodesTo(n), NEW p \in NodesTo(n)
  PROVE  [r EXCEPT !.start = p.start, !.stop = p.stop, !.cmd = p.cmd, !.ip = p.ip]
           \in NodesTo(n)
<1> DEFINE r1 == [r EXCEPT !.start = p.start]
           r2 == [r1 EXCEPT !.stop = p.stop]
           r3 == [r2 EXCEPT !.cmd = p.cmd]
           r4 == [r3 EXCEPT !.ip = p.ip]
<1>1. p.start \in UpTo(n) /\ p.stop \in UpTo(n) /\ p.cmd \in UpTo(n) /\ p.ip \in ValuesTo(n)
  BY DEF NodesTo
<1>2. [r EXCEPT !.start = p.start, !.stop = p.stop, !.cmd = p.cmd, !.ip = p.ip] = r4
  BY SMT
<1> HIDE DEF r4
<1>3. r1 \in NodesTo(n)
  BY <1>1, NodeFields
<1> HIDE DEF r1
<1>4. r2 \in NodesTo(n)
  BY <1>1, <1>3, NodeFields
<1> HIDE DEF r2
<1>5. r3 \in NodesTo(n)
  BY <1>1, <1>4, NodeFields
<1> HIDE DEF r3
<1>6. r4 \in NodesTo(n)
  BY <1>1, <1>5, NodeFields DEF r4
<1> QED
  BY <1>2, <1>6

(* So are the values of the video kit.                                     *)
LEMMA ValuesRead ==
  ASSUME NEW n \in Nat, NEW r \in NodesTo(n), NEW q \in ValuesTo(n), NEW x \in ValuesTo(n)
  PROVE  [r EXCEPT !.quality = q, !.res = x] \in NodesTo(n)
<1> DEFINE r1 == [r EXCEPT !.quality = q]
           r2 == [r1 EXCEPT !.res = x]
<1>1. [r EXCEPT !.quality = q, !.res = x] = r2
  BY SMT
<1> HIDE DEF r2
<1>2. r1 \in NodesTo(n)
  BY NodeFields
<1> HIDE DEF r1
<1>3. r2 \in NodesTo(n)
  BY <1>2, NodeFields DEF r2
<1> QED
  BY <1>1, <1>3

(* A corrected value keeps its number.                                     *)
LEMMA CorrectedFacts ==
  ASSUME NEW n \in Nat, NEW x \in ValuesTo(n)
  PROVE  /\ Corrected(x) \in ValuesTo(n) /\ Corrected(x).ver = x.ver /\ Corrected(x).valid
<1>1. [x EXCEPT !.valid = TRUE] \in ValuesTo(n)
  BY DEF ValuesTo
<1>2. [x EXCEPT !.valid = TRUE].ver = x.ver /\ [x EXCEPT !.valid = TRUE].valid
  BY DEF ValuesTo
<1> QED
  BY <1>1, <1>2 DEF Corrected

(* The numbers up to n are up to n + 1.                                    *)
LEMMA Later ==
  ASSUME NEW n \in Nat
  PROVE  /\ UpTo(n) \subseteq UpTo(n + 1) /\ ValuesTo(n) \subseteq ValuesTo(n + 1)
         /\ NodesTo(n) \subseteq NodesTo(n + 1)
<1>1. UpTo(n) \subseteq UpTo(n + 1)
  BY SMT DEF UpTo
<1>2. ValuesTo(n) \subseteq ValuesTo(n + 1)
  BY <1>1 DEF ValuesTo
<1>3. NodesTo(n) \subseteq NodesTo(n + 1)
  BY <1>1, <1>2 DEF NodesTo
<1> QED
  BY <1>1, <1>2, <1>3
-----------------------------------------------------------------------------
(* What each step does to the fields of the nodes it writes.               *)

(* Parts of what the nodes hold.                                           *)
LEMMA NodeParts ==
  ASSUME NEW n \in Nat, NEW r \in NodesTo(n)
  PROVE  /\ r.start \in UpTo(n) /\ r.stop \in UpTo(n) /\ r.cmd \in UpTo(n)
         /\ r.ip \in ValuesTo(n) /\ r.quality \in ValuesTo(n) /\ r.res \in ValuesTo(n)
         /\ 0 \in UpTo(n)
<1>1. 0 \in UpTo(n)
  BY DEF UpTo
<1> QED
  BY <1>1 DEF NodesTo

LEMMA ConnectFields ==
  ASSUME TypeInv, writes \in Nat, Connect
  PROVE  /\ pc = "connect" /\ pc' \in {"sleep", "ended"}
         /\ UNCHANGED <<local, direct, polite, kpc, ksnap, camera, stream, writes,
                      last, asked, proxy, kit, snap>>
BY DEF Connect, mode, others

LEMMA ReadFlagsFields ==
  ASSUME TypeInv, writes \in Nat, ReadFlags
  PROVE  /\ pc = "sleep" /\ pc' = "quality"
         /\ snap' \in NodesTo(writes)
         /\ snap'.start = proxy.start /\ snap'.stop = proxy.stop /\ snap'.cmd = proxy.cmd
         /\ snap'.ip = proxy.ip /\ snap'.quality = snap.quality /\ snap'.res = snap.res
         /\ UNCHANGED <<local, direct, polite, kpc, ksnap, camera, stream, writes,
                      last, asked, proxy, kit>>
<1>1. /\ pc = "sleep" /\ pc' = "quality"
      /\ UNCHANGED <<local, direct, polite, kpc, ksnap, camera, stream, writes,
                      last, asked, proxy, kit>>
  BY DEF ReadFlags, mode, others
<1>2. snap' = [snap EXCEPT !.start = proxy.start, !.stop = proxy.stop, !.cmd = proxy.cmd,
                         !.ip = proxy.ip]
  BY DEF ReadFlags, mode, others
<1>3. snap \in NodesTo(writes) /\ proxy \in NodesTo(writes)
  BY DEF TypeInv, NodeType
<1>4. snap' \in NodesTo(writes)
  BY <1>2, <1>3, FlagsRead
<1>5. /\ snap'.start = proxy.start /\ snap'.stop = proxy.stop /\ snap'.cmd = proxy.cmd
      /\ snap'.ip = proxy.ip /\ snap'.quality = snap.quality /\ snap'.res = snap.res
  BY <1>2, <1>3, SMT DEF NodesTo
<1> QED
  BY <1>1, <1>4, <1>5

LEMMA ReadQualityFields ==
  ASSUME TypeInv, writes \in Nat, ReadQuality
  PROVE  /\ pc = "quality" /\ pc' = IF proxy.quality.valid THEN "res" ELSE "fixQuality"
         /\ snap' \in NodesTo(writes)
         /\ snap'.start = snap.start /\ snap'.stop = snap.stop /\ snap'.cmd = snap.cmd
         /\ snap'.ip = snap.ip /\ snap'.quality = proxy.quality /\ snap'.res = snap.res
         /\ UNCHANGED <<local, direct, polite, kpc, ksnap, camera, stream, writes,
                      last, asked, proxy, kit>>
<1>1. /\ pc = "quality" /\ pc' = IF proxy.quality.valid THEN "res" ELSE "fixQuality"
      /\ UNCHANGED <<local, direct, polite, kpc, ksnap, camera, stream, writes,
                      last, asked, proxy, kit>>
  BY DEF ReadQuality, mode, others
<1>2. proxy.quality \in ValuesTo(writes) /\ snap \in NodesTo(writes)
  BY NodeParts DEF TypeInv, NodeType
<1>3. snap' = [snap EXCEPT !.quality = proxy.quality]
  BY DEF ReadQuality, mode, others
<1> DEFINE x == proxy.quality
<1> HIDE DEF x
<1>4. snap' = [snap EXCEPT !.quality = x]
  BY <1>3 DEF x
<1>5. snap' \in NodesTo(writes)
  BY <1>2, <1>4, NodeFields DEF x
<1>6. /\ snap'.start = snap.start /\ snap'.stop = snap.stop /\ snap'.cmd = snap.cmd
      /\ snap'.ip = snap.ip /\ snap'.quality = x /\ snap'.res = snap.res
  BY <1>2, <1>4, SMT DEF NodesTo
<1> QED
  BY <1>1, <1>5, <1>6 DEF x

LEMMA FixQualityFields ==
  ASSUME TypeInv, writes \in Nat, FixQuality
  PROVE  /\ pc = "fixQuality" /\ pc' = "res"
         /\ proxy' \in NodesTo(writes)
         /\ proxy'.start = proxy.start /\ proxy'.stop = proxy.stop /\ proxy'.cmd = proxy.cmd
         /\ proxy'.ip = proxy.ip /\ proxy'.quality = Corrected(snap.quality) /\ proxy'.res = proxy.res
         /\ UNCHANGED <<local, direct, polite, kpc, ksnap, camera, stream, writes,
                      last, asked, kit, snap>>
<1>1. /\ pc = "fixQuality" /\ pc' = "res"
      /\ UNCHANGED <<local, direct, polite, kpc, ksnap, camera, stream, writes,
                      last, asked, kit, snap>>
  BY DEF FixQuality, mode, others
<1>2. Corrected(snap.quality) \in ValuesTo(writes) /\ proxy \in NodesTo(writes)
  BY NodeParts, CorrectedFacts DEF TypeInv, NodeType
<1>3. proxy' = [proxy EXCEPT !.quality = Corrected(snap.quality)]
  BY DEF FixQuality, mode, others
<1> DEFINE x == Corrected(snap.quality)
<1> HIDE DEF x
<1>4. proxy' = [proxy EXCEPT !.quality = x]
  BY <1>3 DEF x
<1>5. proxy' \in NodesTo(writes)
  BY <1>2, <1>4, NodeFields DEF x
<1>6. /\ proxy'.start = proxy.start /\ proxy'.stop = proxy.stop /\ proxy'.cmd = proxy.cmd
      /\ proxy'.ip = proxy.ip /\ proxy'.quality = x /\ proxy'.res = proxy.res
  BY <1>2, <1>4, SMT DEF NodesTo
<1> QED
  BY <1>1, <1>5, <1>6 DEF x

LEMMA ReadResFields ==
  ASSUME TypeInv, writes \in Nat, ReadRes
  PROVE  /\ pc = "res" /\ pc' = IF proxy.res.valid THEN ToStart(snap) ELSE "fixRes"
         /\ snap' \in NodesTo(writes)
         /\ snap'.start = snap.start /\ snap'.stop = snap.stop /\ snap'.cmd = snap.cmd
         /\ snap'.ip = snap.ip /\ snap'.quality = snap.quality /\ snap'.res = Corrected(proxy.res)
         /\ UNCHANGED <<local, direct, polite, kpc, ksnap, camera, stream, writes,
                      last, asked, proxy, kit>>
<1>1. /\ pc = "res" /\ pc' = IF proxy.res.valid THEN ToStart(snap) ELSE "fixRes"
      /\ UNCHANGED <<local, direct, polite, kpc, ksnap, camera, stream, writes,
                      last, asked, proxy, kit>>
  BY DEF ReadRes, mode, others
<1>2. Corrected(proxy.res) \in ValuesTo(writes) /\ snap \in NodesTo(writes)
  BY NodeParts, CorrectedFacts DEF TypeInv, NodeType
<1>3. snap' = [snap EXCEPT !.res = Corrected(proxy.res)]
  BY DEF ReadRes, mode, others
<1> DEFINE x == Corrected(proxy.res)
<1> HIDE DEF x
<1>4. snap' = [snap EXCEPT !.res = x]
  BY <1>3 DEF x
<1>5. snap' \in NodesTo(writes)
  BY <1>2, <1>4, NodeFields DEF x
<1>6. /\ snap'.start = snap.start /\ snap'.stop = snap.stop /\ snap'.cmd = snap.cmd
      /\ snap'.ip = snap.ip /\ snap'.quality = snap.quality /\ snap'.res = x
  BY <1>2, <1>4, SMT DEF NodesTo
<1> QED
  BY <1>1, <1>5, <1>6 DEF x

LEMMA FixResFields ==
  ASSUME TypeInv, writes \in Nat, FixRes
  PROVE  /\ pc = "fixRes" /\ pc' = ToStart(snap)
         /\ proxy' \in NodesTo(writes)
         /\ proxy'.start = proxy.start /\ proxy'.stop = proxy.stop /\ proxy'.cmd = proxy.cmd
         /\ proxy'.ip = proxy.ip /\ proxy'.quality = proxy.quality /\ proxy'.res = snap.res
         /\ UNCHANGED <<local, direct, polite, kpc, ksnap, camera, stream, writes,
                      last, asked, kit, snap>>
<1>1. /\ pc = "fixRes" /\ pc' = ToStart(snap)
      /\ UNCHANGED <<local, direct, polite, kpc, ksnap, camera, stream, writes,
                      last, asked, kit, snap>>
  BY DEF FixRes, mode, others
<1>2. snap.res \in ValuesTo(writes) /\ proxy \in NodesTo(writes)
  BY NodeParts DEF TypeInv, NodeType
<1>3. proxy' = [proxy EXCEPT !.res = snap.res]
  BY DEF FixRes, mode, others
<1> DEFINE x == snap.res
<1> HIDE DEF x
<1>4. proxy' = [proxy EXCEPT !.res = x]
  BY <1>3 DEF x
<1>5. proxy' \in NodesTo(writes)
  BY <1>2, <1>4, NodeFields DEF x
<1>6. /\ proxy'.start = proxy.start /\ proxy'.stop = proxy.stop /\ proxy'.cmd = proxy.cmd
      /\ proxy'.ip = proxy.ip /\ proxy'.quality = proxy.quality /\ proxy'.res = x
  BY <1>2, <1>4, SMT DEF NodesTo
<1> QED
  BY <1>1, <1>5, <1>6 DEF x

LEMMA SendIpFields ==
  ASSUME TypeInv, writes \in Nat, SendIp
  PROVE  /\ pc = "sendIp" /\ pc' = "sendStart"
         /\ KitServes
         /\ kit' \in NodesTo(writes)
         /\ kit'.start = kit.start /\ kit'.stop = kit.stop /\ kit'.cmd = kit.cmd
         /\ kit'.ip = snap.ip /\ kit'.quality = kit.quality /\ kit'.res = kit.res
         /\ UNCHANGED <<local, direct, polite, kpc, ksnap, camera, stream, writes,
                      last, asked, proxy, snap>>
<1>1. /\ pc = "sendIp" /\ pc' = "sendStart" /\ KitServes
      /\ UNCHANGED <<local, direct, polite, kpc, ksnap, camera, stream, writes,
                      last, asked, proxy, snap>>
  BY DEF SendIp, mode, others, Send
<1>2. snap.ip \in ValuesTo(writes) /\ kit \in NodesTo(writes)
  BY NodeParts DEF TypeInv, NodeType
<1>3. kit' = [kit EXCEPT !.ip = snap.ip]
  BY DEF SendIp, mode, others, Send
<1> DEFINE x == snap.ip
<1> HIDE DEF x
<1>4. kit' = [kit EXCEPT !.ip = x]
  BY <1>3 DEF x
<1>5. kit' \in NodesTo(writes)
  BY <1>2, <1>4, NodeFields DEF x
<1>6. /\ kit'.start = kit.start /\ kit'.stop = kit.stop /\ kit'.cmd = kit.cmd
      /\ kit'.ip = x /\ kit'.quality = kit.quality /\ kit'.res = kit.res
  BY <1>2, <1>4, SMT DEF NodesTo
<1> QED
  BY <1>1, <1>5, <1>6 DEF x

LEMMA SendStartFields ==
  ASSUME TypeInv, writes \in Nat, SendStart
  PROVE  /\ pc = "sendStart" /\ pc' = "clearStart"
         /\ KitServes
         /\ kit' \in NodesTo(writes)
         /\ kit'.start = snap.start /\ kit'.stop = kit.stop /\ kit'.cmd = kit.cmd
         /\ kit'.ip = kit.ip /\ kit'.quality = kit.quality /\ kit'.res = kit.res
         /\ UNCHANGED <<local, direct, polite, kpc, ksnap, camera, stream, writes,
                      last, asked, proxy, snap>>
<1>1. /\ pc = "sendStart" /\ pc' = "clearStart" /\ KitServes
      /\ UNCHANGED <<local, direct, polite, kpc, ksnap, camera, stream, writes,
                      last, asked, proxy, snap>>
  BY DEF SendStart, mode, others, Send
<1>2. snap.start \in UpTo(writes) /\ kit \in NodesTo(writes)
  BY NodeParts DEF TypeInv, NodeType
<1>3. kit' = [kit EXCEPT !.start = snap.start]
  BY DEF SendStart, mode, others, Send
<1> DEFINE x == snap.start
<1> HIDE DEF x
<1>4. kit' = [kit EXCEPT !.start = x]
  BY <1>3 DEF x
<1>5. kit' \in NodesTo(writes)
  BY <1>2, <1>4, NodeFields DEF x
<1>6. /\ kit'.start = x /\ kit'.stop = kit.stop /\ kit'.cmd = kit.cmd
      /\ kit'.ip = kit.ip /\ kit'.quality = kit.quality /\ kit'.res = kit.res
  BY <1>2, <1>4, SMT DEF NodesTo
<1> QED
  BY <1>1, <1>5, <1>6 DEF x

LEMMA SendStopFields ==
  ASSUME TypeInv, writes \in Nat, SendStop
  PROVE  /\ pc = "sendStop" /\ pc' = "clearStop"
         /\ KitServes
         /\ kit' \in NodesTo(writes)
         /\ kit'.start = kit.start /\ kit'.stop = snap.stop /\ kit'.cmd = kit.cmd
         /\ kit'.ip = kit.ip /\ kit'.quality = kit.quality /\ kit'.res = kit.res
         /\ UNCHANGED <<local, direct, polite, kpc, ksnap, camera, stream, writes,
                      last, asked, proxy, snap>>
<1>1. /\ pc = "sendStop" /\ pc' = "clearStop" /\ KitServes
      /\ UNCHANGED <<local, direct, polite, kpc, ksnap, camera, stream, writes,
                      last, asked, proxy, snap>>
  BY DEF SendStop, mode, others, Send
<1>2. snap.stop \in UpTo(writes) /\ kit \in NodesTo(writes)
  BY NodeParts DEF TypeInv, NodeType
<1>3. kit' = [kit EXCEPT !.stop = snap.stop]
  BY DEF SendStop, mode, others, Send
<1> DEFINE x == snap.stop
<1> HIDE DEF x
<1>4. kit' = [kit EXCEPT !.stop = x]
  BY <1>3 DEF x
<1>5. kit' \in NodesTo(writes)
  BY <1>2, <1>4, NodeFields DEF x
<1>6. /\ kit'.start = kit.start /\ kit'.stop = x /\ kit'.cmd = kit.cmd
      /\ kit'.ip = kit.ip /\ kit'.quality = kit.quality /\ kit'.res = kit.res
  BY <1>2, <1>4, SMT DEF NodesTo
<1> QED
  BY <1>1, <1>5, <1>6 DEF x

LEMMA SendQualityFields ==
  ASSUME TypeInv, writes \in Nat, SendQuality
  PROVE  /\ pc = "sendQuality" /\ pc' = "sendRes"
         /\ KitServes
         /\ kit' \in NodesTo(writes)
         /\ kit'.start = kit.start /\ kit'.stop = kit.stop /\ kit'.cmd = kit.cmd
         /\ kit'.ip = kit.ip /\ kit'.quality = snap.quality /\ kit'.res = kit.res
         /\ UNCHANGED <<local, direct, polite, kpc, ksnap, camera, stream, writes,
                      last, asked, proxy, snap>>
<1>1. /\ pc = "sendQuality" /\ pc' = "sendRes" /\ KitServes
      /\ UNCHANGED <<local, direct, polite, kpc, ksnap, camera, stream, writes,
                      last, asked, proxy, snap>>
  BY DEF SendQuality, mode, others, Send
<1>2. snap.quality \in ValuesTo(writes) /\ kit \in NodesTo(writes)
  BY NodeParts DEF TypeInv, NodeType
<1>3. kit' = [kit EXCEPT !.quality = snap.quality]
  BY DEF SendQuality, mode, others, Send
<1> DEFINE x == snap.quality
<1> HIDE DEF x
<1>4. kit' = [kit EXCEPT !.quality = x]
  BY <1>3 DEF x
<1>5. kit' \in NodesTo(writes)
  BY <1>2, <1>4, NodeFields DEF x
<1>6. /\ kit'.start = kit.start /\ kit'.stop = kit.stop /\ kit'.cmd = kit.cmd
      /\ kit'.ip = kit.ip /\ kit'.quality = x /\ kit'.res = kit.res
  BY <1>2, <1>4, SMT DEF NodesTo
<1> QED
  BY <1>1, <1>5, <1>6 DEF x

LEMMA SendResFields ==
  ASSUME TypeInv, writes \in Nat, SendRes
  PROVE  /\ pc = "sendRes" /\ pc' = "sendCmd"
         /\ KitServes
         /\ kit' \in NodesTo(writes)
         /\ kit'.start = kit.start /\ kit'.stop = kit.stop /\ kit'.cmd = kit.cmd
         /\ kit'.ip = kit.ip /\ kit'.quality = kit.quality /\ kit'.res = snap.res
         /\ UNCHANGED <<local, direct, polite, kpc, ksnap, camera, stream, writes,
                      last, asked, proxy, snap>>
<1>1. /\ pc = "sendRes" /\ pc' = "sendCmd" /\ KitServes
      /\ UNCHANGED <<local, direct, polite, kpc, ksnap, camera, stream, writes,
                      last, asked, proxy, snap>>
  BY DEF SendRes, mode, others, Send
<1>2. snap.res \in ValuesTo(writes) /\ kit \in NodesTo(writes)
  BY NodeParts DEF TypeInv, NodeType
<1>3. kit' = [kit EXCEPT !.res = snap.res]
  BY DEF SendRes, mode, others, Send
<1> DEFINE x == snap.res
<1> HIDE DEF x
<1>4. kit' = [kit EXCEPT !.res = x]
  BY <1>3 DEF x
<1>5. kit' \in NodesTo(writes)
  BY <1>2, <1>4, NodeFields DEF x
<1>6. /\ kit'.start = kit.start /\ kit'.stop = kit.stop /\ kit'.cmd = kit.cmd
      /\ kit'.ip = kit.ip /\ kit'.quality = kit.quality /\ kit'.res = x
  BY <1>2, <1>4, SMT DEF NodesTo
<1> QED
  BY <1>1, <1>5, <1>6 DEF x

LEMMA SendCmdFields ==
  ASSUME TypeInv, writes \in Nat, SendCmd
  PROVE  /\ pc = "sendCmd" /\ pc' = "clearCmd"
         /\ KitServes
         /\ kit' \in NodesTo(writes)
         /\ kit'.start = kit.start /\ kit'.stop = kit.stop /\ kit'.cmd = snap.cmd
         /\ kit'.ip = kit.ip /\ kit'.quality = kit.quality /\ kit'.res = kit.res
         /\ UNCHANGED <<local, direct, polite, kpc, ksnap, camera, stream, writes,
                      last, asked, proxy, snap>>
<1>1. /\ pc = "sendCmd" /\ pc' = "clearCmd" /\ KitServes
      /\ UNCHANGED <<local, direct, polite, kpc, ksnap, camera, stream, writes,
                      last, asked, proxy, snap>>
  BY DEF SendCmd, mode, others, Send
<1>2. snap.cmd \in UpTo(writes) /\ kit \in NodesTo(writes)
  BY NodeParts DEF TypeInv, NodeType
<1>3. kit' = [kit EXCEPT !.cmd = snap.cmd]
  BY DEF SendCmd, mode, others, Send
<1> DEFINE x == snap.cmd
<1> HIDE DEF x
<1>4. kit' = [kit EXCEPT !.cmd = x]
  BY <1>3 DEF x
<1>5. kit' \in NodesTo(writes)
  BY <1>2, <1>4, NodeFields DEF x
<1>6. /\ kit'.start = kit.start /\ kit'.stop = kit.stop /\ kit'.cmd = x
      /\ kit'.ip = kit.ip /\ kit'.quality = kit.quality /\ kit'.res = kit.res
  BY <1>2, <1>4, SMT DEF NodesTo
<1> QED
  BY <1>1, <1>5, <1>6 DEF x

LEMMA ClearStartFields ==
  ASSUME TypeInv, writes \in Nat, ClearStart
  PROVE  /\ pc = "clearStart" /\ pc' = ToStop(snap)
         /\ proxy' \in NodesTo(writes)
         /\ proxy'.start = 0 /\ proxy'.stop = proxy.stop /\ proxy'.cmd = proxy.cmd
         /\ proxy'.ip = proxy.ip /\ proxy'.quality = proxy.quality /\ proxy'.res = proxy.res
         /\ UNCHANGED <<local, direct, polite, kpc, ksnap, camera, stream, writes,
                      last, asked, kit, snap>>
<1>1. /\ pc = "clearStart" /\ pc' = ToStop(snap)
      /\ UNCHANGED <<local, direct, polite, kpc, ksnap, camera, stream, writes,
                      last, asked, kit, snap>>
  BY DEF ClearStart, mode, others, Clear
<1>2. 0 \in UpTo(writes) /\ proxy \in NodesTo(writes)
  BY NodeParts DEF TypeInv, NodeType
<1>3. proxy' = [proxy EXCEPT !.start = 0]
  BY DEF ClearStart, mode, others, Clear
<1> DEFINE x == 0
<1> HIDE DEF x
<1>4. proxy' = [proxy EXCEPT !.start = x]
  BY <1>3 DEF x
<1>5. proxy' \in NodesTo(writes)
  BY <1>2, <1>4, NodeFields DEF x
<1>6. /\ proxy'.start = x /\ proxy'.stop = proxy.stop /\ proxy'.cmd = proxy.cmd
      /\ proxy'.ip = proxy.ip /\ proxy'.quality = proxy.quality /\ proxy'.res = proxy.res
  BY <1>2, <1>4, SMT DEF NodesTo
<1> QED
  BY <1>1, <1>5, <1>6 DEF x

LEMMA ClearStopFields ==
  ASSUME TypeInv, writes \in Nat, ClearStop
  PROVE  /\ pc = "clearStop" /\ pc' = ToUpdate(snap)
         /\ proxy' \in NodesTo(writes)
         /\ proxy'.start = proxy.start /\ proxy'.stop = 0 /\ proxy'.cmd = proxy.cmd
         /\ proxy'.ip = proxy.ip /\ proxy'.quality = proxy.quality /\ proxy'.res = proxy.res
         /\ UNCHANGED <<local, direct, polite, kpc, ksnap, camera, stream, writes,
                      last, asked, kit, snap>>
<1>1. /\ pc = "clearStop" /\ pc' = ToUpdate(snap)
      /\ UNCHANGED <<local, direct, polite, kpc, ksnap, camera, stream, writes,
                      last, asked, kit, snap>>
  BY DEF ClearStop, mode, others, Clear
<1>2. 0 \in UpTo(writes) /\ proxy \in NodesTo(writes)
  BY NodeParts DEF TypeInv, NodeType
<1>3. proxy' = [proxy EXCEPT !.stop = 0]
  BY DEF ClearStop, mode, others, Clear
<1> DEFINE x == 0
<1> HIDE DEF x
<1>4. proxy' = [proxy EXCEPT !.stop = x]
  BY <1>3 DEF x
<1>5. proxy' \in NodesTo(writes)
  BY <1>2, <1>4, NodeFields DEF x
<1>6. /\ proxy'.start = proxy.start /\ proxy'.stop = x /\ proxy'.cmd = proxy.cmd
      /\ proxy'.ip = proxy.ip /\ proxy'.quality = proxy.quality /\ proxy'.res = proxy.res
  BY <1>2, <1>4, SMT DEF NodesTo
<1> QED
  BY <1>1, <1>5, <1>6 DEF x

LEMMA ClearCmdFields ==
  ASSUME TypeInv, writes \in Nat, ClearCmd
  PROVE  /\ pc = "clearCmd" /\ pc' = "sleep"
         /\ proxy' \in NodesTo(writes)
         /\ proxy'.start = proxy.start /\ proxy'.stop = proxy.stop /\ proxy'.cmd = 0
         /\ proxy'.ip = proxy.ip /\ proxy'.quality = proxy.quality /\ proxy'.res = proxy.res
         /\ UNCHANGED <<local, direct, polite, kpc, ksnap, camera, stream, writes,
                      last, asked, kit, snap>>
<1>1. /\ pc = "clearCmd" /\ pc' = "sleep"
      /\ UNCHANGED <<local, direct, polite, kpc, ksnap, camera, stream, writes,
                      last, asked, kit, snap>>
  BY DEF ClearCmd, mode, others, Clear
<1>2. 0 \in UpTo(writes) /\ proxy \in NodesTo(writes)
  BY NodeParts DEF TypeInv, NodeType
<1>3. proxy' = [proxy EXCEPT !.cmd = 0]
  BY DEF ClearCmd, mode, others, Clear
<1> DEFINE x == 0
<1> HIDE DEF x
<1>4. proxy' = [proxy EXCEPT !.cmd = x]
  BY <1>3 DEF x
<1>5. proxy' \in NodesTo(writes)
  BY <1>2, <1>4, NodeFields DEF x
<1>6. /\ proxy'.start = proxy.start /\ proxy'.stop = proxy.stop /\ proxy'.cmd = x
      /\ proxy'.ip = proxy.ip /\ proxy'.quality = proxy.quality /\ proxy'.res = proxy.res
  BY <1>2, <1>4, SMT DEF NodesTo
<1> QED
  BY <1>1, <1>5, <1>6 DEF x

LEMMA KitReadFlagsFields ==
  ASSUME TypeInv, writes \in Nat, KitReadFlags
  PROVE  /\ kpc = "sleep" /\ kpc' = "values"
         /\ ksnap' \in NodesTo(writes)
         /\ ksnap'.start = kit.start /\ ksnap'.stop = kit.stop /\ ksnap'.cmd = kit.cmd
         /\ ksnap'.ip = kit.ip /\ ksnap'.quality = ksnap.quality /\ ksnap'.res = ksnap.res
         /\ UNCHANGED <<local, direct, polite, proxy, pc, snap, writes, last, asked,
                      kit, camera, stream>>
<1>1. /\ kpc = "sleep" /\ kpc' = "values"
      /\ UNCHANGED <<local, direct, polite, proxy, pc, snap, writes, last, asked,
                      kit, camera, stream>>
  BY DEF KitReadFlags, mode, kothers
<1>2. ksnap' = [ksnap EXCEPT !.start = kit.start, !.stop = kit.stop, !.cmd = kit.cmd,
                         !.ip = kit.ip]
  BY DEF KitReadFlags, mode, kothers
<1>3. ksnap \in NodesTo(writes) /\ kit \in NodesTo(writes)
  BY DEF TypeInv, NodeType
<1>4. ksnap' \in NodesTo(writes)
  BY <1>2, <1>3, FlagsRead
<1>5. /\ ksnap'.start = kit.start /\ ksnap'.stop = kit.stop /\ ksnap'.cmd = kit.cmd
      /\ ksnap'.ip = kit.ip /\ ksnap'.quality = ksnap.quality /\ ksnap'.res = ksnap.res
  BY <1>2, <1>3, SMT DEF NodesTo
<1> QED
  BY <1>1, <1>4, <1>5

LEMMA KitReadValuesFields ==
  ASSUME TypeInv, writes \in Nat, KitReadValues
  PROVE  /\ kpc = "values" /\ kpc' = IF kit.res.valid THEN KitToStart(ksnap) ELSE "fixRes"
         /\ ksnap' \in NodesTo(writes)
         /\ ksnap'.start = ksnap.start /\ ksnap'.stop = ksnap.stop /\ ksnap'.cmd = ksnap.cmd
         /\ ksnap'.ip = ksnap.ip /\ ksnap'.quality = kit.quality /\ ksnap'.res = Corrected(kit.res)
         /\ UNCHANGED <<local, direct, polite, proxy, pc, snap, writes, last, asked,
                      kit, camera, stream>>
<1>1. /\ kpc = "values" /\ kpc' = IF kit.res.valid THEN KitToStart(ksnap) ELSE "fixRes"
      /\ UNCHANGED <<local, direct, polite, proxy, pc, snap, writes, last, asked,
                      kit, camera, stream>>
  BY DEF KitReadValues, mode, kothers
<1>2. ksnap' = [ksnap EXCEPT !.quality = kit.quality, !.res = Corrected(kit.res)]
  BY DEF KitReadValues, mode, kothers
<1>3. ksnap \in NodesTo(writes)
  BY DEF TypeInv, NodeType
<1>4. kit.quality \in ValuesTo(writes) /\ Corrected(kit.res) \in ValuesTo(writes)
  BY NodeParts, CorrectedFacts DEF TypeInv, NodeType
<1>5. ksnap' \in NodesTo(writes)
  BY <1>2, <1>3, <1>4, ValuesRead
<1>6. /\ ksnap'.start = ksnap.start /\ ksnap'.stop = ksnap.stop /\ ksnap'.cmd = ksnap.cmd
      /\ ksnap'.ip = ksnap.ip /\ ksnap'.quality = kit.quality /\ ksnap'.res = Corrected(kit.res)
  BY <1>2, <1>3, SMT DEF NodesTo
<1> QED
  BY <1>1, <1>5, <1>6

LEMMA KitFixResFields ==
  ASSUME TypeInv, writes \in Nat, KitFixRes
  PROVE  /\ kpc = "fixRes" /\ kpc' = KitToStart(ksnap)
         /\ kit' \in NodesTo(writes)
         /\ kit'.start = kit.start /\ kit'.stop = kit.stop /\ kit'.cmd = kit.cmd
         /\ kit'.ip = kit.ip /\ kit'.quality = kit.quality /\ kit'.res = ksnap.res
         /\ UNCHANGED <<local, direct, polite, proxy, pc, snap, writes, last, asked,
                      ksnap, camera, stream>>
<1>1. /\ kpc = "fixRes" /\ kpc' = KitToStart(ksnap)
      /\ UNCHANGED <<local, direct, polite, proxy, pc, snap, writes, last, asked,
                      ksnap, camera, stream>>
  BY DEF KitFixRes, mode, kothers
<1>2. ksnap.res \in ValuesTo(writes) /\ kit \in NodesTo(writes)
  BY NodeParts DEF TypeInv, NodeType
<1>3. kit' = [kit EXCEPT !.res = ksnap.res]
  BY DEF KitFixRes, mode, kothers
<1> DEFINE x == ksnap.res
<1> HIDE DEF x
<1>4. kit' = [kit EXCEPT !.res = x]
  BY <1>3 DEF x
<1>5. kit' \in NodesTo(writes)
  BY <1>2, <1>4, NodeFields DEF x
<1>6. /\ kit'.start = kit.start /\ kit'.stop = kit.stop /\ kit'.cmd = kit.cmd
      /\ kit'.ip = kit.ip /\ kit'.quality = kit.quality /\ kit'.res = x
  BY <1>2, <1>4, SMT DEF NodesTo
<1> QED
  BY <1>1, <1>5, <1>6 DEF x

LEMMA KitStartedFields ==
  ASSUME TypeInv, writes \in Nat, KitStarted
  PROVE  /\ kpc = "started" /\ kpc' = KitToStop(ksnap)
         /\ kit' \in NodesTo(writes)
         /\ kit'.start = 0 /\ kit'.stop = kit.stop /\ kit'.cmd = kit.cmd
         /\ kit'.ip = kit.ip /\ kit'.quality = kit.quality /\ kit'.res = kit.res
         /\ UNCHANGED <<local, direct, polite, proxy, pc, snap, writes, last, asked,
                      ksnap, camera, stream>>
<1>1. /\ kpc = "started" /\ kpc' = KitToStop(ksnap)
      /\ UNCHANGED <<local, direct, polite, proxy, pc, snap, writes, last, asked,
                      ksnap, camera, stream>>
  BY DEF KitStarted, mode, kothers
<1>2. 0 \in UpTo(writes) /\ kit \in NodesTo(writes)
  BY NodeParts DEF TypeInv, NodeType
<1>3. kit' = [kit EXCEPT !.start = 0]
  BY DEF KitStarted, mode, kothers
<1> DEFINE x == 0
<1> HIDE DEF x
<1>4. kit' = [kit EXCEPT !.start = x]
  BY <1>3 DEF x
<1>5. kit' \in NodesTo(writes)
  BY <1>2, <1>4, NodeFields DEF x
<1>6. /\ kit'.start = x /\ kit'.stop = kit.stop /\ kit'.cmd = kit.cmd
      /\ kit'.ip = kit.ip /\ kit'.quality = kit.quality /\ kit'.res = kit.res
  BY <1>2, <1>4, SMT DEF NodesTo
<1> QED
  BY <1>1, <1>5, <1>6 DEF x

LEMMA KitStoppedFields ==
  ASSUME TypeInv, writes \in Nat, KitStopped
  PROVE  /\ kpc = "stopped" /\ kpc' = KitToUpdate(ksnap)
         /\ kit' \in NodesTo(writes)
         /\ kit'.start = kit.start /\ kit'.stop = 0 /\ kit'.cmd = kit.cmd
         /\ kit'.ip = kit.ip /\ kit'.quality = kit.quality /\ kit'.res = kit.res
         /\ UNCHANGED <<local, direct, polite, proxy, pc, snap, writes, last, asked,
                      ksnap, camera, stream>>
<1>1. /\ kpc = "stopped" /\ kpc' = KitToUpdate(ksnap)
      /\ UNCHANGED <<local, direct, polite, proxy, pc, snap, writes, last, asked,
                      ksnap, camera, stream>>
  BY DEF KitStopped, mode, kothers
<1>2. 0 \in UpTo(writes) /\ kit \in NodesTo(writes)
  BY NodeParts DEF TypeInv, NodeType
<1>3. kit' = [kit EXCEPT !.stop = 0]
  BY DEF KitStopped, mode, kothers
<1> DEFINE x == 0
<1> HIDE DEF x
<1>4. kit' = [kit EXCEPT !.stop = x]
  BY <1>3 DEF x
<1>5. kit' \in NodesTo(writes)
  BY <1>2, <1>4, NodeFields DEF x
<1>6. /\ kit'.start = kit.start /\ kit'.stop = x /\ kit'.cmd = kit.cmd
      /\ kit'.ip = kit.ip /\ kit'.quality = kit.quality /\ kit'.res = kit.res
  BY <1>2, <1>4, SMT DEF NodesTo
<1> QED
  BY <1>1, <1>5, <1>6 DEF x

LEMMA KitUpdatedFields ==
  ASSUME TypeInv, writes \in Nat, KitUpdated
  PROVE  /\ kpc = "updated" /\ kpc' = "sleep"
         /\ kit' \in NodesTo(writes)
         /\ kit'.start = kit.start /\ kit'.stop = kit.stop /\ kit'.cmd = 0
         /\ kit'.ip = kit.ip /\ kit'.quality = kit.quality /\ kit'.res = kit.res
         /\ UNCHANGED <<local, direct, polite, proxy, pc, snap, writes, last, asked,
                      ksnap, camera, stream>>
<1>1. /\ kpc = "updated" /\ kpc' = "sleep"
      /\ UNCHANGED <<local, direct, polite, proxy, pc, snap, writes, last, asked,
                      ksnap, camera, stream>>
  BY DEF KitUpdated, mode, kothers
<1>2. 0 \in UpTo(writes) /\ kit \in NodesTo(writes)
  BY NodeParts DEF TypeInv, NodeType
<1>3. kit' = [kit EXCEPT !.cmd = 0]
  BY DEF KitUpdated, mode, kothers
<1> DEFINE x == 0
<1> HIDE DEF x
<1>4. kit' = [kit EXCEPT !.cmd = x]
  BY <1>3 DEF x
<1>5. kit' \in NodesTo(writes)
  BY <1>2, <1>4, NodeFields DEF x
<1>6. /\ kit'.start = kit.start /\ kit'.stop = kit.stop /\ kit'.cmd = x
      /\ kit'.ip = kit.ip /\ kit'.quality = kit.quality /\ kit'.res = kit.res
  BY <1>2, <1>4, SMT DEF NodesTo
<1> QED
  BY <1>1, <1>5, <1>6 DEF x

LEMMA KitStartFields ==
  ASSUME TypeInv, writes \in Nat, KitStart
  PROVE  /\ kpc = "start" /\ kpc' = "started"
         /\ stream' \in [on : BOOLEAN, ip : ValuesTo(writes), by : UpTo(writes)]
         /\ stream'.ip = ksnap.ip /\ stream'.by = ksnap.start
         /\ UNCHANGED <<local, direct, polite, proxy, pc, snap, writes, last, asked,
                      kit, ksnap, camera>>
<1>1. /\ kpc = "start" /\ kpc' = "started"
      /\ UNCHANGED <<local, direct, polite, proxy, pc, snap, writes, last, asked,
                      kit, ksnap, camera>>
  BY DEF KitStart, mode, kothers
<1>2. /\ ksnap.start \in UpTo(writes) /\ ksnap.stop \in UpTo(writes) /\ ksnap.cmd \in UpTo(writes)
      /\ ksnap.ip \in ValuesTo(writes) /\ ksnap.quality \in ValuesTo(writes)
      /\ ksnap.res \in ValuesTo(writes)
  BY NodeParts DEF TypeInv, NodeType
<1>3. stream.on \in BOOLEAN
  BY DEF TypeInv, OutType
<1>4. PICK on \in {TRUE, ~stream.on} : stream' = [on |-> on, ip |-> ksnap.ip, by |-> ksnap.start]
  BY DEF KitStart
<1>5. on \in BOOLEAN
  BY <1>3
<1> QED
  BY <1>1, <1>2, <1>4, <1>5

LEMMA KitStopFields ==
  ASSUME TypeInv, writes \in Nat, KitStop
  PROVE  /\ kpc = "stop" /\ kpc' = "stopped"
         /\ stream' \in [on : BOOLEAN, ip : ValuesTo(writes), by : UpTo(writes)]
         /\ ~stream'.on
         /\ UNCHANGED <<local, direct, polite, proxy, pc, snap, writes, last, asked,
                      kit, ksnap, camera>>
<1>1. /\ kpc = "stop" /\ kpc' = "stopped"
      /\ UNCHANGED <<local, direct, polite, proxy, pc, snap, writes, last, asked,
                      kit, ksnap, camera>>
  BY DEF KitStop, mode, kothers
<1>2. /\ ksnap.start \in UpTo(writes) /\ ksnap.stop \in UpTo(writes) /\ ksnap.cmd \in UpTo(writes)
      /\ ksnap.ip \in ValuesTo(writes) /\ ksnap.quality \in ValuesTo(writes)
      /\ ksnap.res \in ValuesTo(writes)
  BY NodeParts DEF TypeInv, NodeType
<1>3. stream \in [on : BOOLEAN, ip : ValuesTo(writes), by : UpTo(writes)]
  BY DEF TypeInv, OutType
<1>4. stream' = [stream EXCEPT !.on = FALSE, !.by = ksnap.stop]
  BY DEF KitStop
<1>5. stream' = [on |-> FALSE, ip |-> stream.ip, by |-> ksnap.stop]
  BY <1>3, <1>4
<1> QED
  BY <1>1, <1>2, <1>3, <1>5

LEMMA KitUpdateFields ==
  ASSUME TypeInv, writes \in Nat, KitUpdate
  PROVE  /\ kpc = "update" /\ kpc' = "updated"
         /\ camera' \in [quality : ValuesTo(writes), res : ValuesTo(writes), by : UpTo(writes)]
         /\ camera'.quality = ksnap.quality /\ camera'.res = ksnap.res /\ camera'.by = ksnap.cmd
         /\ UNCHANGED <<local, direct, polite, proxy, pc, snap, writes, last, asked,
                      kit, ksnap, stream>>
<1>1. /\ kpc = "update" /\ kpc' = "updated"
      /\ UNCHANGED <<local, direct, polite, proxy, pc, snap, writes, last, asked,
                      kit, ksnap, stream>>
  BY DEF KitUpdate, mode, kothers
<1>2. /\ ksnap.start \in UpTo(writes) /\ ksnap.stop \in UpTo(writes) /\ ksnap.cmd \in UpTo(writes)
      /\ ksnap.ip \in ValuesTo(writes) /\ ksnap.quality \in ValuesTo(writes)
      /\ ksnap.res \in ValuesTo(writes)
  BY NodeParts DEF TypeInv, NodeType
<1> QED
  BY <1>1, <1>2, SMT DEF KitUpdate

(* What holds of every write: it has a number, and the rest stays.         *)
Written ==
  /\ Serves /\ writes + 1 \in 1 .. MaxWrites
  /\ writes' = writes + 1
  /\ IF direct THEN proxy' = proxy /\ kit' \in NodesTo(writes + 1)
               ELSE kit' = kit /\ proxy' \in NodesTo(writes + 1)
  /\ UNCHANGED <<local, direct, polite, pc, snap, kpc, ksnap, camera, stream>>

LEMMA SetValueFields ==
  ASSUME MaxWrites \in Nat, TypeInv, writes \in Nat, SetValue
  PROVE  /\ Written /\ UNCHANGED <<last, asked>>
         /\ \E v \in Value, x \in ValuesTo(writes + 1) :
              /\ x.ver = writes + 1
              /\ IF direct THEN PutValue(kit', kit, v, x) ELSE PutValue(proxy', proxy, v, x)
<1>1. PICK v \in Value, ok \in BOOLEAN :
        /\ v = "ip" => ok
        /\ WriteNode(v, [ver |-> writes + 1, valid |-> ok])
  BY DEF SetValue
<1> DEFINE x == [ver |-> writes + 1, valid |-> ok]
<1>2. x \in ValuesTo(writes + 1) /\ x.ver = writes + 1
  BY SMT DEF ValuesTo, UpTo
<1> HIDE DEF x
<1>3. WriteNode(v, x)
  BY <1>1 DEF x
<1>4. /\ Serves /\ writes + 1 \in 1 .. MaxWrites /\ writes' = writes + 1
      /\ UNCHANGED <<local, direct, polite, pc, snap, kpc, ksnap, camera, stream, last, asked>>
  BY SMT DEF SetValue, mode
<1>5. proxy \in NodesTo(writes + 1) /\ kit \in NodesTo(writes + 1)
  BY Later DEF TypeInv, NodeType
<1>6. CASE direct
  <2>1. kit' = [kit EXCEPT ![v] = x] /\ proxy' = proxy
    BY <1>3, <1>6 DEF WriteNode
  <2>2. kit' \in NodesTo(writes + 1) /\ PutValue(kit', kit, v, x)
    BY <2>1, <1>2, <1>5, writes + 1 \in Nat, ValueSet
  <2> QED
    BY <2>1, <2>2, <1>2, <1>4, <1>6 DEF Written
<1>7. CASE ~direct
  <2>1. proxy' = [proxy EXCEPT ![v] = x] /\ kit' = kit
    BY <1>3, <1>7 DEF WriteNode
  <2>2. proxy' \in NodesTo(writes + 1) /\ PutValue(proxy', proxy, v, x)
    BY <2>1, <1>2, <1>5, writes + 1 \in Nat, ValueSet
  <2> QED
    BY <2>1, <2>2, <1>2, <1>4, <1>7 DEF Written
<1> QED
  BY <1>6, <1>7

(* A command notes the values of that moment.                              *)
LEMMA CommandFields ==
  ASSUME MaxWrites \in Nat, TypeInv, writes \in Nat, Command
  PROVE  /\ Written
         /\ \E f \in Flag :
              /\ IF direct THEN PutFlag(kit', kit, f, writes + 1)
                           ELSE PutFlag(proxy', proxy, f, writes + 1)
              /\ f = "cmd" /\ polite => Target.cmd = 0
              /\ last'.update = IF f = "cmd" THEN writes + 1 ELSE last.update
         /\ last' \in [update : UpTo(writes + 1), stream : UpTo(writes + 1)]
         /\ asked' \in [1 .. MaxWrites -> [Value -> Number]]
         /\ \A n \in 1 .. MaxWrites, v \in Value :
              asked'[n][v] = IF n = writes + 1 THEN Target[v].ver ELSE asked[n][v]
<1>1. PICK f \in Flag :
        /\ polite => Target[f] = 0
        /\ WriteNode(f, writes + 1)
        /\ last' = IF f = "cmd" THEN [last EXCEPT !.update = writes + 1]
                                ELSE [last EXCEPT !.stream = writes + 1]
  BY DEF Command
<1>2. writes + 1 \in UpTo(writes + 1)
  BY SMT DEF UpTo
<1>3. /\ Serves /\ writes + 1 \in 1 .. MaxWrites /\ writes' = writes + 1
      /\ UNCHANGED <<local, direct, polite, pc, snap, kpc, ksnap, camera, stream>>
  BY SMT DEF Command, mode
<1>4. proxy \in NodesTo(writes + 1) /\ kit \in NodesTo(writes + 1)
  BY Later DEF TypeInv, NodeType
<1>5. /\ last' \in [update : UpTo(writes + 1), stream : UpTo(writes + 1)]
      /\ last'.update = IF f = "cmd" THEN writes + 1 ELSE last.update
  <2>1. last \in [update : UpTo(writes + 1), stream : UpTo(writes + 1)]
    BY Later DEF TypeInv, StateType
  <2> QED
    BY <1>1, <1>2, <2>1
<1>6. f = "cmd" /\ polite => Target.cmd = 0
  BY <1>1
<1>7. /\ asked' \in [1 .. MaxWrites -> [Value -> Number]]
      /\ \A n \in 1 .. MaxWrites, v \in Value :
           asked'[n][v] = IF n = writes + 1 THEN Target[v].ver ELSE asked[n][v]
  <2>1. asked' = [asked EXCEPT ![writes + 1] = [v \in Value |-> Target[v].ver]]
    BY DEF Command
  <2>2. asked \in [1 .. MaxWrites -> [Value -> Number]]
    BY DEF TypeInv, StateType
  <2>3. Target \in NodesTo(writes)
    BY DEF Target, TypeInv, NodeType
  <2>4. \A v \in Value : Target[v].ver \in Number
    <3>1. ASSUME NEW x \in ValuesTo(writes) PROVE x.ver \in Number
      BY <1>3, SMT DEF ValuesTo, UpTo, Number
    <3>2. Target["ip"] \in ValuesTo(writes) /\ Target["quality"] \in ValuesTo(writes)
          /\ Target["res"] \in ValuesTo(writes)
      BY <2>3 DEF NodesTo
    <3> QED
      BY <3>1, <3>2 DEF Value
  <2>5. [v \in Value |-> Target[v].ver] \in [Value -> Number]
    BY <2>4
  <2> QED
    BY <1>3, <2>1, <2>2, <2>5
<1>8. CASE direct
  <2>1. kit' = [kit EXCEPT ![f] = writes + 1] /\ proxy' = proxy
    BY <1>1, <1>8 DEF WriteNode
  <2>2. kit' \in NodesTo(writes + 1) /\ PutFlag(kit', kit, f, writes + 1)
    BY <2>1, <1>2, <1>4, writes + 1 \in Nat, FlagSet
  <2> QED
    BY <2>1, <2>2, <1>3, <1>5, <1>6, <1>7, <1>8 DEF Written
<1>9. CASE ~direct
  <2>1. proxy' = [proxy EXCEPT ![f] = writes + 1] /\ kit' = kit
    BY <1>1, <1>9 DEF WriteNode
  <2>2. proxy' \in NodesTo(writes + 1) /\ PutFlag(proxy', proxy, f, writes + 1)
    BY <2>1, <1>2, <1>4, writes + 1 \in Nat, FlagSet
  <2> QED
    BY <2>1, <2>2, <1>3, <1>5, <1>6, <1>7, <1>9 DEF Written
<1> QED
  BY <1>8, <1>9

-----------------------------------------------------------------------------
(* Types.                                                                  *)

LEMMA ConnectType ==
  ASSUME TypeInv, writes \in Nat, Connect
  PROVE  TypeInv'
<1>1. StateType'
  BY ConnectFields, SMT DEF TypeInv, StateType, ProxyStates, Sending, KitStates
<1>2. NodeType'
  BY ConnectFields DEF TypeInv, NodeType
<1>3. OutType'
  BY ConnectFields DEF TypeInv, OutType
<1>4. CommandsTaken'
  BY ConnectFields, SMT DEF TypeInv, CommandsTaken
<1> QED
  BY <1>1, <1>2, <1>3, <1>4 DEF TypeInv

LEMMA ReadFlagsType ==
  ASSUME TypeInv, writes \in Nat, ReadFlags
  PROVE  TypeInv'
<1>1. StateType'
  BY ReadFlagsFields, SMT DEF TypeInv, StateType, ProxyStates, Sending, KitStates
<1>2. NodeType'
  BY ReadFlagsFields DEF TypeInv, NodeType
<1>3. OutType'
  BY ReadFlagsFields DEF TypeInv, OutType
<1>4. CommandsTaken'
  BY ReadFlagsFields, SMT DEF TypeInv, CommandsTaken
<1> QED
  BY <1>1, <1>2, <1>3, <1>4 DEF TypeInv

LEMMA ReadQualityType ==
  ASSUME TypeInv, writes \in Nat, ReadQuality
  PROVE  TypeInv'
<1>1. StateType'
  BY ReadQualityFields, SMT DEF TypeInv, StateType, ProxyStates, Sending, KitStates
<1>2. NodeType'
  BY ReadQualityFields DEF TypeInv, NodeType
<1>3. OutType'
  BY ReadQualityFields DEF TypeInv, OutType
<1>4. CommandsTaken'
  BY ReadQualityFields, SMT DEF TypeInv, CommandsTaken
<1> QED
  BY <1>1, <1>2, <1>3, <1>4 DEF TypeInv

LEMMA FixQualityType ==
  ASSUME TypeInv, writes \in Nat, FixQuality
  PROVE  TypeInv'
<1>1. StateType'
  BY FixQualityFields, SMT DEF TypeInv, StateType, ProxyStates, Sending, KitStates
<1>2. NodeType'
  BY FixQualityFields DEF TypeInv, NodeType
<1>3. OutType'
  BY FixQualityFields DEF TypeInv, OutType
<1>4. CommandsTaken'
  BY FixQualityFields, SMT DEF TypeInv, CommandsTaken
<1> QED
  BY <1>1, <1>2, <1>3, <1>4 DEF TypeInv

LEMMA ReadResType ==
  ASSUME TypeInv, writes \in Nat, ReadRes
  PROVE  TypeInv'
<1>1. StateType'
  BY ReadResFields, SMT DEF TypeInv, StateType, ProxyStates, Sending, KitStates, ToStart, ToStop, ToUpdate
<1>2. NodeType'
  BY ReadResFields DEF TypeInv, NodeType
<1>3. OutType'
  BY ReadResFields DEF TypeInv, OutType
<1>4. CommandsTaken'
  BY ReadResFields, SMT DEF TypeInv, CommandsTaken, ToStart, ToStop, ToUpdate
<1> QED
  BY <1>1, <1>2, <1>3, <1>4 DEF TypeInv

LEMMA FixResType ==
  ASSUME TypeInv, writes \in Nat, FixRes
  PROVE  TypeInv'
<1>1. StateType'
  BY FixResFields, SMT DEF TypeInv, StateType, ProxyStates, Sending, KitStates, ToStart, ToStop, ToUpdate
<1>2. NodeType'
  BY FixResFields DEF TypeInv, NodeType
<1>3. OutType'
  BY FixResFields DEF TypeInv, OutType
<1>4. CommandsTaken'
  BY FixResFields, SMT DEF TypeInv, CommandsTaken, ToStart, ToStop, ToUpdate
<1> QED
  BY <1>1, <1>2, <1>3, <1>4 DEF TypeInv

LEMMA SendIpType ==
  ASSUME TypeInv, writes \in Nat, SendIp
  PROVE  TypeInv'
<1>1. StateType'
  BY SendIpFields, SMT DEF TypeInv, StateType, ProxyStates, Sending, KitStates
<1>2. NodeType'
  BY SendIpFields DEF TypeInv, NodeType
<1>3. OutType'
  BY SendIpFields DEF TypeInv, OutType
<1>4. CommandsTaken'
  BY SendIpFields, SMT DEF TypeInv, CommandsTaken
<1> QED
  BY <1>1, <1>2, <1>3, <1>4 DEF TypeInv

LEMMA SendStartType ==
  ASSUME TypeInv, writes \in Nat, SendStart
  PROVE  TypeInv'
<1>1. StateType'
  BY SendStartFields, SMT DEF TypeInv, StateType, ProxyStates, Sending, KitStates
<1>2. NodeType'
  BY SendStartFields DEF TypeInv, NodeType
<1>3. OutType'
  BY SendStartFields DEF TypeInv, OutType
<1>4. CommandsTaken'
  BY SendStartFields, SMT DEF TypeInv, CommandsTaken
<1> QED
  BY <1>1, <1>2, <1>3, <1>4 DEF TypeInv

LEMMA SendStopType ==
  ASSUME TypeInv, writes \in Nat, SendStop
  PROVE  TypeInv'
<1>1. StateType'
  BY SendStopFields, SMT DEF TypeInv, StateType, ProxyStates, Sending, KitStates
<1>2. NodeType'
  BY SendStopFields DEF TypeInv, NodeType
<1>3. OutType'
  BY SendStopFields DEF TypeInv, OutType
<1>4. CommandsTaken'
  BY SendStopFields, SMT DEF TypeInv, CommandsTaken
<1> QED
  BY <1>1, <1>2, <1>3, <1>4 DEF TypeInv

LEMMA SendQualityType ==
  ASSUME TypeInv, writes \in Nat, SendQuality
  PROVE  TypeInv'
<1>1. StateType'
  BY SendQualityFields, SMT DEF TypeInv, StateType, ProxyStates, Sending, KitStates
<1>2. NodeType'
  BY SendQualityFields DEF TypeInv, NodeType
<1>3. OutType'
  BY SendQualityFields DEF TypeInv, OutType
<1>4. CommandsTaken'
  BY SendQualityFields, SMT DEF TypeInv, CommandsTaken
<1> QED
  BY <1>1, <1>2, <1>3, <1>4 DEF TypeInv

LEMMA SendResType ==
  ASSUME TypeInv, writes \in Nat, SendRes
  PROVE  TypeInv'
<1>1. StateType'
  BY SendResFields, SMT DEF TypeInv, StateType, ProxyStates, Sending, KitStates
<1>2. NodeType'
  BY SendResFields DEF TypeInv, NodeType
<1>3. OutType'
  BY SendResFields DEF TypeInv, OutType
<1>4. CommandsTaken'
  BY SendResFields, SMT DEF TypeInv, CommandsTaken
<1> QED
  BY <1>1, <1>2, <1>3, <1>4 DEF TypeInv

LEMMA SendCmdType ==
  ASSUME TypeInv, writes \in Nat, SendCmd
  PROVE  TypeInv'
<1>1. StateType'
  BY SendCmdFields, SMT DEF TypeInv, StateType, ProxyStates, Sending, KitStates
<1>2. NodeType'
  BY SendCmdFields DEF TypeInv, NodeType
<1>3. OutType'
  BY SendCmdFields DEF TypeInv, OutType
<1>4. CommandsTaken'
  BY SendCmdFields, SMT DEF TypeInv, CommandsTaken
<1> QED
  BY <1>1, <1>2, <1>3, <1>4 DEF TypeInv

LEMMA ClearStartType ==
  ASSUME TypeInv, writes \in Nat, ClearStart
  PROVE  TypeInv'
<1>1. StateType'
  BY ClearStartFields, SMT DEF TypeInv, StateType, ProxyStates, Sending, KitStates, ToStart, ToStop, ToUpdate
<1>2. NodeType'
  BY ClearStartFields DEF TypeInv, NodeType
<1>3. OutType'
  BY ClearStartFields DEF TypeInv, OutType
<1>4. CommandsTaken'
  BY ClearStartFields, SMT DEF TypeInv, CommandsTaken, ToStart, ToStop, ToUpdate
<1> QED
  BY <1>1, <1>2, <1>3, <1>4 DEF TypeInv

LEMMA ClearStopType ==
  ASSUME TypeInv, writes \in Nat, ClearStop
  PROVE  TypeInv'
<1>1. StateType'
  BY ClearStopFields, SMT DEF TypeInv, StateType, ProxyStates, Sending, KitStates, ToStart, ToStop, ToUpdate
<1>2. NodeType'
  BY ClearStopFields DEF TypeInv, NodeType
<1>3. OutType'
  BY ClearStopFields DEF TypeInv, OutType
<1>4. CommandsTaken'
  BY ClearStopFields, SMT DEF TypeInv, CommandsTaken, ToStart, ToStop, ToUpdate
<1> QED
  BY <1>1, <1>2, <1>3, <1>4 DEF TypeInv

LEMMA ClearCmdType ==
  ASSUME TypeInv, writes \in Nat, ClearCmd
  PROVE  TypeInv'
<1>1. StateType'
  BY ClearCmdFields, SMT DEF TypeInv, StateType, ProxyStates, Sending, KitStates
<1>2. NodeType'
  BY ClearCmdFields DEF TypeInv, NodeType
<1>3. OutType'
  BY ClearCmdFields DEF TypeInv, OutType
<1>4. CommandsTaken'
  BY ClearCmdFields, SMT DEF TypeInv, CommandsTaken
<1> QED
  BY <1>1, <1>2, <1>3, <1>4 DEF TypeInv

LEMMA KitReadFlagsType ==
  ASSUME TypeInv, writes \in Nat, KitReadFlags
  PROVE  TypeInv'
<1>1. StateType'
  BY KitReadFlagsFields, SMT DEF TypeInv, StateType, ProxyStates, Sending, KitStates
<1>2. NodeType'
  BY KitReadFlagsFields DEF TypeInv, NodeType
<1>3. OutType'
  BY KitReadFlagsFields DEF TypeInv, OutType
<1>4. CommandsTaken'
  BY KitReadFlagsFields, SMT DEF TypeInv, CommandsTaken
<1> QED
  BY <1>1, <1>2, <1>3, <1>4 DEF TypeInv

LEMMA KitReadValuesType ==
  ASSUME TypeInv, writes \in Nat, KitReadValues
  PROVE  TypeInv'
<1>1. StateType'
  BY KitReadValuesFields, SMT DEF TypeInv, StateType, ProxyStates, Sending, KitStates, KitToStart, KitToStop, KitToUpdate
<1>2. NodeType'
  BY KitReadValuesFields DEF TypeInv, NodeType
<1>3. OutType'
  BY KitReadValuesFields DEF TypeInv, OutType
<1>4. CommandsTaken'
  BY KitReadValuesFields, SMT DEF TypeInv, CommandsTaken, KitToStart, KitToStop, KitToUpdate
<1> QED
  BY <1>1, <1>2, <1>3, <1>4 DEF TypeInv

LEMMA KitFixResType ==
  ASSUME TypeInv, writes \in Nat, KitFixRes
  PROVE  TypeInv'
<1>1. StateType'
  BY KitFixResFields, SMT DEF TypeInv, StateType, ProxyStates, Sending, KitStates, KitToStart, KitToStop, KitToUpdate
<1>2. NodeType'
  BY KitFixResFields DEF TypeInv, NodeType
<1>3. OutType'
  BY KitFixResFields DEF TypeInv, OutType
<1>4. CommandsTaken'
  BY KitFixResFields, SMT DEF TypeInv, CommandsTaken, KitToStart, KitToStop, KitToUpdate
<1> QED
  BY <1>1, <1>2, <1>3, <1>4 DEF TypeInv

LEMMA KitStartedType ==
  ASSUME TypeInv, writes \in Nat, KitStarted
  PROVE  TypeInv'
<1>1. StateType'
  BY KitStartedFields, SMT DEF TypeInv, StateType, ProxyStates, Sending, KitStates, KitToStart, KitToStop, KitToUpdate
<1>2. NodeType'
  BY KitStartedFields DEF TypeInv, NodeType
<1>3. OutType'
  BY KitStartedFields DEF TypeInv, OutType
<1>4. CommandsTaken'
  BY KitStartedFields, SMT DEF TypeInv, CommandsTaken, KitToStart, KitToStop, KitToUpdate
<1> QED
  BY <1>1, <1>2, <1>3, <1>4 DEF TypeInv

LEMMA KitStoppedType ==
  ASSUME TypeInv, writes \in Nat, KitStopped
  PROVE  TypeInv'
<1>1. StateType'
  BY KitStoppedFields, SMT DEF TypeInv, StateType, ProxyStates, Sending, KitStates, KitToStart, KitToStop, KitToUpdate
<1>2. NodeType'
  BY KitStoppedFields DEF TypeInv, NodeType
<1>3. OutType'
  BY KitStoppedFields DEF TypeInv, OutType
<1>4. CommandsTaken'
  BY KitStoppedFields, SMT DEF TypeInv, CommandsTaken, KitToStart, KitToStop, KitToUpdate
<1> QED
  BY <1>1, <1>2, <1>3, <1>4 DEF TypeInv

LEMMA KitUpdatedType ==
  ASSUME TypeInv, writes \in Nat, KitUpdated
  PROVE  TypeInv'
<1>1. StateType'
  BY KitUpdatedFields, SMT DEF TypeInv, StateType, ProxyStates, Sending, KitStates
<1>2. NodeType'
  BY KitUpdatedFields DEF TypeInv, NodeType
<1>3. OutType'
  BY KitUpdatedFields DEF TypeInv, OutType
<1>4. CommandsTaken'
  BY KitUpdatedFields, SMT DEF TypeInv, CommandsTaken
<1> QED
  BY <1>1, <1>2, <1>3, <1>4 DEF TypeInv

LEMMA KitStartType ==
  ASSUME TypeInv, writes \in Nat, KitStart
  PROVE  TypeInv'
<1>1. StateType'
  BY KitStartFields, SMT DEF TypeInv, StateType, ProxyStates, Sending, KitStates
<1>2. NodeType'
  BY KitStartFields DEF TypeInv, NodeType
<1>3. OutType'
  BY KitStartFields DEF TypeInv, OutType
<1>4. CommandsTaken'
  BY KitStartFields, SMT DEF TypeInv, CommandsTaken
<1> QED
  BY <1>1, <1>2, <1>3, <1>4 DEF TypeInv

LEMMA KitStopType ==
  ASSUME TypeInv, writes \in Nat, KitStop
  PROVE  TypeInv'
<1>1. StateType'
  BY KitStopFields, SMT DEF TypeInv, StateType, ProxyStates, Sending, KitStates
<1>2. NodeType'
  BY KitStopFields DEF TypeInv, NodeType
<1>3. OutType'
  BY KitStopFields DEF TypeInv, OutType
<1>4. CommandsTaken'
  BY KitStopFields, SMT DEF TypeInv, CommandsTaken
<1> QED
  BY <1>1, <1>2, <1>3, <1>4 DEF TypeInv

LEMMA KitUpdateType ==
  ASSUME TypeInv, writes \in Nat, KitUpdate
  PROVE  TypeInv'
<1>1. StateType'
  BY KitUpdateFields, SMT DEF TypeInv, StateType, ProxyStates, Sending, KitStates
<1>2. NodeType'
  BY KitUpdateFields DEF TypeInv, NodeType
<1>3. OutType'
  BY KitUpdateFields DEF TypeInv, OutType
<1>4. CommandsTaken'
  BY KitUpdateFields, SMT DEF TypeInv, CommandsTaken
<1> QED
  BY <1>1, <1>2, <1>3, <1>4 DEF TypeInv

(* A write of the operator.                                                *)
LEMMA WrittenType ==
  ASSUME MaxWrites \in Nat, TypeInv, writes \in Nat, Written,
         last' \in [update : UpTo(writes + 1), stream : UpTo(writes + 1)],
         asked' \in [1 .. MaxWrites -> [Value -> Number]]
  PROVE  TypeInv'
<1>1. StateType'
  BY SMT DEF TypeInv, StateType, Written, Number
<1>2. NodeType'
  BY Later DEF TypeInv, NodeType, Written
<1>3. OutType'
  BY Later DEF TypeInv, OutType, Written
<1>4. CommandsTaken'
  BY DEF TypeInv, CommandsTaken, Written
<1> QED
  BY <1>1, <1>2, <1>3, <1>4 DEF TypeInv

LEMMA TypeInit ==
  ASSUME MaxWrites \in Nat, Init
  PROVE  TypeInv
<1>1. 0 \in Number /\ 0 \in UpTo(0)
  BY SMT DEF Number, UpTo
<1>2. Default \in ValuesTo(0)
  BY <1>1 DEF Default, ValuesTo
<1>3. Fresh \in NodesTo(0)
  BY <1>1, <1>2 DEF Fresh, NodesTo
<1>4. StateType
  BY <1>1, SMT DEF Init, StateType, ProxyStates, KitStates
<1>5. NodeType
  BY <1>3 DEF Init, NodeType
<1>6. OutType
  BY <1>1, <1>2, SMT DEF Init, OutType
<1>7. CommandsTaken
  BY SMT DEF Init, CommandsTaken
<1> QED
  BY <1>4, <1>5, <1>6, <1>7 DEF TypeInv

LEMMA TypeStep ==
  ASSUME MaxWrites \in Nat, TypeInv, [Next]_vars
  PROVE  TypeInv'
<1>1. writes \in Nat
  BY SMT DEF TypeInv, StateType, Number
<1>2. CASE SetValue
  <2>1. last' \in [update : UpTo(writes + 1), stream : UpTo(writes + 1)]
        /\ asked' \in [1 .. MaxWrites -> [Value -> Number]]
    BY <1>1, <1>2, SetValueFields, Later DEF TypeInv, StateType
  <2> QED
    BY <1>1, <1>2, <2>1, SetValueFields, WrittenType
<1>3. CASE Command
  BY <1>1, <1>3, CommandFields, WrittenType
<1>4. CASE ConnectionLost
  BY <1>4, SMT DEF ConnectionLost, others, mode, TypeInv, StateType, ProxyStates, NodeType, OutType,
                   CommandsTaken
<1>5. CASE UNCHANGED vars
  BY <1>5 DEF vars, mode, TypeInv, StateType, NodeType, OutType, CommandsTaken
<1>6. CASE Connect
  BY <1>1, <1>6, ConnectType
<1>7. CASE ReadFlags
  BY <1>1, <1>7, ReadFlagsType
<1>8. CASE ReadQuality
  BY <1>1, <1>8, ReadQualityType
<1>9. CASE FixQuality
  BY <1>1, <1>9, FixQualityType
<1>10. CASE ReadRes
  BY <1>1, <1>10, ReadResType
<1>11. CASE FixRes
  BY <1>1, <1>11, FixResType
<1>12. CASE SendIp
  BY <1>1, <1>12, SendIpType
<1>13. CASE SendStart
  BY <1>1, <1>13, SendStartType
<1>14. CASE SendStop
  BY <1>1, <1>14, SendStopType
<1>15. CASE SendQuality
  BY <1>1, <1>15, SendQualityType
<1>16. CASE SendRes
  BY <1>1, <1>16, SendResType
<1>17. CASE SendCmd
  BY <1>1, <1>17, SendCmdType
<1>18. CASE ClearStart
  BY <1>1, <1>18, ClearStartType
<1>19. CASE ClearStop
  BY <1>1, <1>19, ClearStopType
<1>20. CASE ClearCmd
  BY <1>1, <1>20, ClearCmdType
<1>21. CASE KitReadFlags
  BY <1>1, <1>21, KitReadFlagsType
<1>22. CASE KitReadValues
  BY <1>1, <1>22, KitReadValuesType
<1>23. CASE KitFixRes
  BY <1>1, <1>23, KitFixResType
<1>24. CASE KitStarted
  BY <1>1, <1>24, KitStartedType
<1>25. CASE KitStopped
  BY <1>1, <1>25, KitStoppedType
<1>26. CASE KitUpdated
  BY <1>1, <1>26, KitUpdatedType
<1>27. CASE KitStart
  BY <1>1, <1>27, KitStartType
<1>28. CASE KitStop
  BY <1>1, <1>28, KitStopType
<1>29. CASE KitUpdate
  BY <1>1, <1>29, KitUpdateType
<1> QED
  BY <1>2, <1>3, <1>4, <1>5, <1>6, <1>7, <1>8, <1>9, <1>10, <1>11, <1>12, <1>13, <1>14, <1>15, <1>16, <1>17, <1>18, <1>19, <1>20, <1>21, <1>22, <1>23, <1>24, <1>25, <1>26, <1>27, <1>28, <1>29
     DEF Next, Operator, Proxy, Kit, Sends, Clears

-----------------------------------------------------------------------------
(* The numbers of the commands, the values and the notes.                  *)
LEMMA NodeNumbers ==
  ASSUME NEW n \in Nat, NEW r \in NodesTo(n)
  PROVE  /\ r.start \in 0 .. n /\ r.stop \in 0 .. n /\ r.cmd \in 0 .. n
         /\ r.ip.ver \in 0 .. n /\ r.quality.ver \in 0 .. n /\ r.res.ver \in 0 .. n
<1>1. \A x \in ValuesTo(n) : x.ver \in 0 .. n
  BY DEF ValuesTo, UpTo
<1> QED
  BY <1>1, NodeParts DEF UpTo

LEMMA Numbers ==
  ASSUME MaxWrites \in Nat, TypeInv
  PROVE  /\ writes \in 0 .. MaxWrites
         /\ last.update \in 0 .. writes
         /\ camera.by \in 0 .. writes /\ stream.by \in 0 .. writes
         /\ camera.quality.ver \in 0 .. writes /\ camera.res.ver \in 0 .. writes
         /\ stream.ip.ver \in 0 .. writes
         /\ \A n \in 1 .. MaxWrites, v \in Value : asked[n][v] \in 0 .. MaxWrites
<1>1. writes \in 0 .. MaxWrites
  BY DEF TypeInv, StateType, Number
<1>2. \A x \in ValuesTo(writes) : x.ver \in 0 .. writes
  BY DEF ValuesTo, UpTo
<1>3. last.update \in 0 .. writes
  BY DEF TypeInv, StateType, UpTo
<1>4. /\ camera.by \in 0 .. writes /\ stream.by \in 0 .. writes
      /\ camera.quality \in ValuesTo(writes) /\ camera.res \in ValuesTo(writes)
      /\ stream.ip \in ValuesTo(writes)
  BY DEF TypeInv, OutType, UpTo
<1>5. \A n \in 1 .. MaxWrites, v \in Value : asked[n][v] \in 0 .. MaxWrites
  BY DEF TypeInv, StateType, Number
<1> QED
  BY <1>1, <1>2, <1>3, <1>4, <1>5

(* A newer value is as new as the command, too.                            *)
LEMMA NewUp ==
  ASSUME MaxWrites \in Nat, TypeInv, NEW v \in Value, NEW n \in 0 .. writes,
         NEW w, NEW x, w.ver \in Int, x.ver \in Int, w.ver <= x.ver, New(n, w, v)
  PROVE  New(n, x, v)
<1> SUFFICES ASSUME n # 0 PROVE x.ver >= asked[n][v]
  BY DEF New
<1>1. n \in 1 .. MaxWrites
  BY Numbers, SMT
<1>2. asked[n][v] \in Int
  BY <1>1, Numbers, SMT
<1> QED
  BY <1>2, SMT DEF New

-----------------------------------------------------------------------------
(* The stream.                                                             *)

LEMMA ConnectStream ==
  ASSUME MaxWrites \in Nat, TypeInv, writes \in Nat, StreamInv, Connect
  PROVE  StreamInv'
BY ConnectFields, SMT DEF StreamInv, New, TypeInv, CommandsTaken

LEMMA ReadFlagsStream ==
  ASSUME MaxWrites \in Nat, TypeInv, writes \in Nat, StreamInv, ReadFlags
  PROVE  StreamInv'
<1>1. kit.ip.ver \in Int /\ snap.ip.ver \in Int /\ proxy.ip.ver \in Int
  BY NodeNumbers, SMT DEF TypeInv, NodeType
<1> QED
  BY <1>1, ReadFlagsFields, SMT DEF StreamInv, New

LEMMA ReadQualityStream ==
  ASSUME MaxWrites \in Nat, TypeInv, writes \in Nat, StreamInv, ReadQuality
  PROVE  StreamInv'
BY ReadQualityFields, SMT DEF StreamInv, New, TypeInv, CommandsTaken

LEMMA FixQualityStream ==
  ASSUME MaxWrites \in Nat, TypeInv, writes \in Nat, StreamInv, FixQuality
  PROVE  StreamInv'
BY FixQualityFields, SMT DEF StreamInv, New, TypeInv, CommandsTaken

LEMMA ReadResStream ==
  ASSUME MaxWrites \in Nat, TypeInv, writes \in Nat, StreamInv, ReadRes
  PROVE  StreamInv'
BY ReadResFields, SMT DEF StreamInv, New, TypeInv, CommandsTaken, ToStart, ToStop, ToUpdate

LEMMA FixResStream ==
  ASSUME MaxWrites \in Nat, TypeInv, writes \in Nat, StreamInv, FixRes
  PROVE  StreamInv'
BY FixResFields, SMT DEF StreamInv, New, TypeInv, CommandsTaken, ToStart, ToStop, ToUpdate

LEMMA SendIpStream ==
  ASSUME MaxWrites \in Nat, TypeInv, writes \in Nat, StreamInv, SendIp
  PROVE  StreamInv'
<1>1. kit.start \in 0 .. writes /\ kit.ip.ver \in Int /\ snap.ip.ver \in Int
  BY NodeNumbers, SMT DEF TypeInv, NodeType
<1>2. ~direct
  BY SendIpFields, SMT DEF TypeInv, CommandsTaken
<1>3. New(kit.start, snap.ip, "ip")
  BY <1>1, <1>2, NewUp DEF StreamInv, Value
<1> QED
  BY <1>1, <1>2, <1>3, SendIpFields, SMT DEF StreamInv, New

LEMMA SendStartStream ==
  ASSUME MaxWrites \in Nat, TypeInv, writes \in Nat, StreamInv, SendStart
  PROVE  StreamInv'
BY SendStartFields, SMT DEF StreamInv, New, TypeInv, CommandsTaken

LEMMA SendStopStream ==
  ASSUME MaxWrites \in Nat, TypeInv, writes \in Nat, StreamInv, SendStop
  PROVE  StreamInv'
BY SendStopFields, SMT DEF StreamInv, New, TypeInv, CommandsTaken

LEMMA SendQualityStream ==
  ASSUME MaxWrites \in Nat, TypeInv, writes \in Nat, StreamInv, SendQuality
  PROVE  StreamInv'
BY SendQualityFields, SMT DEF StreamInv, New, TypeInv, CommandsTaken

LEMMA SendResStream ==
  ASSUME MaxWrites \in Nat, TypeInv, writes \in Nat, StreamInv, SendRes
  PROVE  StreamInv'
BY SendResFields, SMT DEF StreamInv, New, TypeInv, CommandsTaken

LEMMA SendCmdStream ==
  ASSUME MaxWrites \in Nat, TypeInv, writes \in Nat, StreamInv, SendCmd
  PROVE  StreamInv'
BY SendCmdFields, SMT DEF StreamInv, New, TypeInv, CommandsTaken

LEMMA ClearStartStream ==
  ASSUME MaxWrites \in Nat, TypeInv, writes \in Nat, StreamInv, ClearStart
  PROVE  StreamInv'
BY ClearStartFields, SMT DEF StreamInv, New, TypeInv, CommandsTaken, ToStart, ToStop, ToUpdate

LEMMA ClearStopStream ==
  ASSUME MaxWrites \in Nat, TypeInv, writes \in Nat, StreamInv, ClearStop
  PROVE  StreamInv'
BY ClearStopFields, SMT DEF StreamInv, New, TypeInv, CommandsTaken, ToStart, ToStop, ToUpdate

LEMMA ClearCmdStream ==
  ASSUME MaxWrites \in Nat, TypeInv, writes \in Nat, StreamInv, ClearCmd
  PROVE  StreamInv'
BY ClearCmdFields, SMT DEF StreamInv, New, TypeInv, CommandsTaken

LEMMA KitReadFlagsStream ==
  ASSUME MaxWrites \in Nat, TypeInv, writes \in Nat, StreamInv, KitReadFlags
  PROVE  StreamInv'
BY KitReadFlagsFields, SMT DEF StreamInv, New, TypeInv, CommandsTaken

LEMMA KitReadValuesStream ==
  ASSUME MaxWrites \in Nat, TypeInv, writes \in Nat, StreamInv, KitReadValues
  PROVE  StreamInv'
BY KitReadValuesFields, SMT DEF StreamInv, New, TypeInv, CommandsTaken, KitToStart, KitToStop, KitToUpdate

LEMMA KitFixResStream ==
  ASSUME MaxWrites \in Nat, TypeInv, writes \in Nat, StreamInv, KitFixRes
  PROVE  StreamInv'
BY KitFixResFields, SMT DEF StreamInv, New, TypeInv, CommandsTaken, KitToStart, KitToStop, KitToUpdate

LEMMA KitStartedStream ==
  ASSUME MaxWrites \in Nat, TypeInv, writes \in Nat, StreamInv, KitStarted
  PROVE  StreamInv'
BY KitStartedFields, SMT DEF StreamInv, New, TypeInv, CommandsTaken, KitToStart, KitToStop, KitToUpdate

LEMMA KitStoppedStream ==
  ASSUME MaxWrites \in Nat, TypeInv, writes \in Nat, StreamInv, KitStopped
  PROVE  StreamInv'
BY KitStoppedFields, SMT DEF StreamInv, New, TypeInv, CommandsTaken, KitToStart, KitToStop, KitToUpdate

LEMMA KitUpdatedStream ==
  ASSUME MaxWrites \in Nat, TypeInv, writes \in Nat, StreamInv, KitUpdated
  PROVE  StreamInv'
BY KitUpdatedFields, SMT DEF StreamInv, New, TypeInv, CommandsTaken

LEMMA KitStartStream ==
  ASSUME MaxWrites \in Nat, TypeInv, writes \in Nat, StreamInv, KitStart
  PROVE  StreamInv'
BY KitStartFields, SMT DEF StreamInv, New, TypeInv, CommandsTaken

LEMMA KitStopStream ==
  ASSUME MaxWrites \in Nat, TypeInv, writes \in Nat, StreamInv, KitStop
  PROVE  StreamInv'
BY KitStopFields, SMT DEF StreamInv, New, TypeInv, CommandsTaken

LEMMA KitUpdateStream ==
  ASSUME MaxWrites \in Nat, TypeInv, writes \in Nat, StreamInv, KitUpdate
  PROVE  StreamInv'
BY KitUpdateFields, SMT DEF StreamInv, New, TypeInv, CommandsTaken

(* The operator writes a value: the address only gets newer.               *)
LEMMA SetValueStream ==
  ASSUME MaxWrites \in Nat, TypeInv, writes \in Nat, StreamInv, SetValue
  PROVE  StreamInv'
<1>1. Written /\ UNCHANGED <<last, asked>>
  BY SetValueFields
<1>2. PICK v \in Value, x \in ValuesTo(writes + 1) :
        /\ x.ver = writes + 1
        /\ IF direct THEN PutValue(kit', kit, v, x) ELSE PutValue(proxy', proxy, v, x)
  BY SetValueFields
<1>3. proxy \in NodesTo(writes) /\ kit \in NodesTo(writes) /\ snap \in NodesTo(writes)
  BY DEF TypeInv, NodeType
<1>4. CASE direct
  <2>1. kit'.start = kit.start /\ kit'.ip.ver \in Int /\ kit.ip.ver \in Int
        /\ kit.ip.ver <= kit'.ip.ver /\ kit.start \in 0 .. writes
    BY <1>2, <1>3, <1>4, NodeNumbers, SMT DEF PutValue
  <2>2. New(kit.start, kit'.ip, "ip")
    BY <2>1, NewUp DEF StreamInv, Value
  <2> QED
    BY <1>1, <1>4, <2>1, <2>2 DEF StreamInv, New, Written, TypeInv, CommandsTaken
<1>5. CASE ~direct
  <2>1. proxy'.start = proxy.start /\ proxy'.ip.ver \in Int /\ proxy.ip.ver \in Int
        /\ snap.ip.ver \in Int /\ proxy.ip.ver <= proxy'.ip.ver /\ proxy.start \in 0 .. writes
    BY <1>2, <1>3, <1>5, NodeNumbers, SMT DEF PutValue
  <2>2. New(proxy.start, proxy'.ip, "ip")
    BY <2>1, NewUp DEF StreamInv, Value
  <2>3. snap.ip.ver <= proxy'.ip.ver
    BY <1>5, <2>1, SMT DEF StreamInv
  <2> QED
    BY <1>1, <1>5, <2>1, <2>2, <2>3 DEF StreamInv, New, Written
<1> QED
  BY <1>4, <1>5

(* He gives a command: the older commands' notes stay, and a new one notes *)
(* the address of that moment.                                             *)
LEMMA CommandStream ==
  ASSUME MaxWrites \in Nat, TypeInv, writes \in Nat, StreamInv, Command
  PROVE  StreamInv'
<1>1. Written
  BY CommandFields
<1>2. PICK f \in Flag : /\ IF direct THEN PutFlag(kit', kit, f, writes + 1)
                                     ELSE PutFlag(proxy', proxy, f, writes + 1)
                        /\ f = "cmd" /\ polite => Target.cmd = 0
                        /\ last'.update = IF f = "cmd" THEN writes + 1 ELSE last.update
  BY CommandFields
<1>3. /\ \A n \in 1 .. writes : asked'[n]["ip"] = asked[n]["ip"]
      /\ asked'[writes + 1]["ip"] = Target.ip.ver
  <2>1. \A n \in 1 .. MaxWrites :
          asked'[n]["ip"] = IF n = writes + 1 THEN Target["ip"].ver ELSE asked[n]["ip"]
    BY CommandFields DEF Value
  <2>2. writes + 1 \in 1 .. MaxWrites
    BY <1>1 DEF Written
  <2> QED
    BY <2>1, <2>2, SMT
<1>4. /\ proxy.start \in 0 .. writes /\ kit.start \in 0 .. writes /\ snap.start \in 0 .. writes
      /\ ksnap.start \in 0 .. writes
      /\ proxy.ip.ver \in Int /\ kit.ip.ver \in Int
  BY NodeNumbers, SMT DEF TypeInv, NodeType
<1>5. stream.by \in 0 .. writes
  BY Numbers
<1>6. CASE direct
  <2>1. /\ kit'.start \in {kit.start, writes + 1} /\ kit'.ip = kit.ip
        /\ asked'[writes + 1]["ip"] = kit.ip.ver
    BY <1>2, <1>3, <1>6 DEF PutFlag, Target
  <2> QED
    BY <1>1, <1>3, <1>4, <1>5, <1>6, <2>1, SMT DEF StreamInv, New, Written, TypeInv, CommandsTaken
<1>7. CASE ~direct
  <2>1. /\ proxy'.start \in {proxy.start, writes + 1} /\ proxy'.ip = proxy.ip
        /\ asked'[writes + 1]["ip"] = proxy.ip.ver
    BY <1>2, <1>3, <1>7 DEF PutFlag, Target
  <2> QED
    BY <1>1, <1>3, <1>4, <1>5, <1>7, <2>1, SMT DEF StreamInv, New, Written, TypeInv, CommandsTaken
<1> QED
  BY <1>6, <1>7

(* No step gives the stream an older address than that of its command.     *)
LEMMA StreamStep ==
  ASSUME MaxWrites \in Nat, TypeInv, StreamInv, [Next]_vars
  PROVE  StreamInv'
<1>1. writes \in Nat
  BY Numbers, SMT
<1>2. CASE SetValue
  BY <1>1, <1>2, SetValueStream
<1>3. CASE Command
  BY <1>1, <1>3, CommandStream
<1>4. CASE Connect
  BY <1>1, <1>4, ConnectStream
<1>5. CASE ReadFlags
  BY <1>1, <1>5, ReadFlagsStream
<1>6. CASE ReadQuality
  BY <1>1, <1>6, ReadQualityStream
<1>7. CASE FixQuality
  BY <1>1, <1>7, FixQualityStream
<1>8. CASE ReadRes
  BY <1>1, <1>8, ReadResStream
<1>9. CASE FixRes
  BY <1>1, <1>9, FixResStream
<1>10. CASE SendIp
  BY <1>1, <1>10, SendIpStream
<1>11. CASE SendStart
  BY <1>1, <1>11, SendStartStream
<1>12. CASE SendStop
  BY <1>1, <1>12, SendStopStream
<1>13. CASE SendQuality
  BY <1>1, <1>13, SendQualityStream
<1>14. CASE SendRes
  BY <1>1, <1>14, SendResStream
<1>15. CASE SendCmd
  BY <1>1, <1>15, SendCmdStream
<1>16. CASE ClearStart
  BY <1>1, <1>16, ClearStartStream
<1>17. CASE ClearStop
  BY <1>1, <1>17, ClearStopStream
<1>18. CASE ClearCmd
  BY <1>1, <1>18, ClearCmdStream
<1>19. CASE KitReadFlags
  BY <1>1, <1>19, KitReadFlagsStream
<1>20. CASE KitReadValues
  BY <1>1, <1>20, KitReadValuesStream
<1>21. CASE KitFixRes
  BY <1>1, <1>21, KitFixResStream
<1>22. CASE KitStarted
  BY <1>1, <1>22, KitStartedStream
<1>23. CASE KitStopped
  BY <1>1, <1>23, KitStoppedStream
<1>24. CASE KitUpdated
  BY <1>1, <1>24, KitUpdatedStream
<1>25. CASE KitStart
  BY <1>1, <1>25, KitStartStream
<1>26. CASE KitStop
  BY <1>1, <1>26, KitStopStream
<1>27. CASE KitUpdate
  BY <1>1, <1>27, KitUpdateStream
<1>28. CASE ConnectionLost
  BY <1>28 DEF ConnectionLost, others, mode, StreamInv, New
<1>29. CASE UNCHANGED vars
  BY <1>29 DEF vars, mode, StreamInv, New
<1> QED
  BY <1>2, <1>3, <1>4, <1>5, <1>6, <1>7, <1>8, <1>9, <1>10, <1>11, <1>12, <1>13, <1>14, <1>15, <1>16, <1>17, <1>18, <1>19, <1>20, <1>21, <1>22, <1>23, <1>24, <1>25, <1>26, <1>27, <1>28, <1>29
     DEF Next, Operator, Proxy, Kit, Sends, Clears

-----------------------------------------------------------------------------
(* The resolution.                                                         *)

(* Only the video kit's own copies are involved, and they are corrected.   *)
LEMMA ValidStep ==
  ASSUME MaxWrites \in Nat, TypeInv, ValidInv, [Next]_vars
  PROVE  ValidInv'
<1>1. writes \in Nat
  BY Numbers, SMT
<1>2. CASE SetValue
  BY <1>1, <1>2, SetValueFields DEF ValidInv, Written
<1>3. CASE Command
  BY <1>1, <1>3, CommandFields DEF ValidInv, Written
<1>4. CASE ConnectionLost
  BY <1>4 DEF ConnectionLost, others, ValidInv
<1>5. CASE UNCHANGED vars
  BY <1>5 DEF vars, ValidInv
<1>6. CASE Connect
  BY <1>1, <1>6, ConnectFields DEF ValidInv
<1>7. CASE ReadFlags
  BY <1>1, <1>7, ReadFlagsFields DEF ValidInv
<1>8. CASE ReadQuality
  BY <1>1, <1>8, ReadQualityFields DEF ValidInv
<1>9. CASE FixQuality
  BY <1>1, <1>9, FixQualityFields DEF ValidInv
<1>10. CASE ReadRes
  BY <1>1, <1>10, ReadResFields DEF ValidInv
<1>11. CASE FixRes
  BY <1>1, <1>11, FixResFields DEF ValidInv
<1>12. CASE SendIp
  BY <1>1, <1>12, SendIpFields DEF ValidInv
<1>13. CASE SendStart
  BY <1>1, <1>13, SendStartFields DEF ValidInv
<1>14. CASE SendStop
  BY <1>1, <1>14, SendStopFields DEF ValidInv
<1>15. CASE SendQuality
  BY <1>1, <1>15, SendQualityFields DEF ValidInv
<1>16. CASE SendRes
  BY <1>1, <1>16, SendResFields DEF ValidInv
<1>17. CASE SendCmd
  BY <1>1, <1>17, SendCmdFields DEF ValidInv
<1>18. CASE ClearStart
  BY <1>1, <1>18, ClearStartFields DEF ValidInv
<1>19. CASE ClearStop
  BY <1>1, <1>19, ClearStopFields DEF ValidInv
<1>20. CASE ClearCmd
  BY <1>1, <1>20, ClearCmdFields DEF ValidInv
<1>21. CASE KitReadFlags
  BY <1>1, <1>21, KitReadFlagsFields DEF ValidInv
<1>22. CASE KitReadValues
  <2>1. Corrected(kit.res).valid
    BY <1>1, NodeParts, CorrectedFacts DEF TypeInv, NodeType
  <2> QED
    BY <1>1, <1>22, <2>1, KitReadValuesFields DEF ValidInv
<1>23. CASE KitFixRes
  BY <1>1, <1>23, KitFixResFields DEF ValidInv
<1>24. CASE KitStarted
  BY <1>1, <1>24, KitStartedFields DEF ValidInv
<1>25. CASE KitStopped
  BY <1>1, <1>25, KitStoppedFields DEF ValidInv
<1>26. CASE KitUpdated
  BY <1>1, <1>26, KitUpdatedFields DEF ValidInv
<1>27. CASE KitStart
  BY <1>1, <1>27, KitStartFields DEF ValidInv
<1>28. CASE KitStop
  BY <1>1, <1>28, KitStopFields DEF ValidInv
<1>29. CASE KitUpdate
  BY <1>1, <1>29, KitUpdateFields DEF ValidInv
<1> QED
  BY <1>2, <1>3, <1>4, <1>5, <1>6, <1>7, <1>8, <1>9, <1>10, <1>11, <1>12, <1>13, <1>14, <1>15, <1>16, <1>17, <1>18, <1>19, <1>20, <1>21, <1>22, <1>23, <1>24, <1>25, <1>26, <1>27, <1>28, <1>29
     DEF Next, Operator, Proxy, Kit, Sends, Clears

-----------------------------------------------------------------------------
(* The update.                                                             *)

(* What the nodes, the copies and the camera hold are numbers.             *)
LEMMA Integers ==
  ASSUME MaxWrites \in Nat, TypeInv
  PROVE  /\ proxy.quality.ver \in Int /\ proxy.res.ver \in Int
         /\ snap.quality.ver \in Int /\ snap.res.ver \in Int
         /\ kit.quality.ver \in Int /\ kit.res.ver \in Int
         /\ ksnap.quality.ver \in Int /\ ksnap.res.ver \in Int
         /\ proxy.cmd \in 0 .. writes /\ snap.cmd \in 0 .. writes
         /\ kit.cmd \in 0 .. writes /\ ksnap.cmd \in 0 .. writes
         /\ Corrected(proxy.res).ver = proxy.res.ver
         /\ Corrected(kit.res).ver = kit.res.ver
         /\ Corrected(snap.quality).ver = snap.quality.ver
<1>1. writes \in Nat
  BY Numbers, SMT
<1>2. /\ proxy \in NodesTo(writes) /\ kit \in NodesTo(writes)
      /\ snap \in NodesTo(writes) /\ ksnap \in NodesTo(writes)
  BY DEF TypeInv, NodeType
<1>3. proxy.res \in ValuesTo(writes) /\ kit.res \in ValuesTo(writes)
      /\ snap.quality \in ValuesTo(writes)
  BY <1>1, <1>2, NodeParts
<1>4. /\ Corrected(proxy.res).ver = proxy.res.ver
      /\ Corrected(kit.res).ver = kit.res.ver
      /\ Corrected(snap.quality).ver = snap.quality.ver
  BY <1>1, <1>3, CorrectedFacts
<1>5. \A r \in NodesTo(writes) :
        r.cmd \in 0 .. writes /\ r.quality.ver \in 0 .. writes /\ r.res.ver \in 0 .. writes
  BY <1>1, NodeNumbers
<1>6. 0 .. writes \subseteq Int
  BY <1>1
<1> QED
  BY <1>2, <1>4, <1>5, <1>6

LEMMA ConnectUpdate ==
  ASSUME MaxWrites \in Nat, TypeInv, writes \in Nat, UpdateInv, Connect
  PROVE  UpdateInv'
<1> SUFFICES ASSUME ~local PROVE ProxyNew' /\ KitNew' /\ Copied' /\ CameraNew'
  BY ConnectFields DEF UpdateInv
<1>1. ProxyNew'
  BY ConnectFields, Integers, SMT DEF UpdateInv, ProxyNew, Copied, New
<1>2. KitNew'
  BY ConnectFields, Integers, SMT DEF UpdateInv, KitNew, ProxyNew, Copied, New, TypeInv, CommandsTaken, KitServes
<1>3. Copied'
  BY ConnectFields, Integers, SMT DEF UpdateInv, Copied, TypeInv, CommandsTaken, KitServes
<1>4. CameraNew'
  BY ConnectFields, SMT DEF UpdateInv, CameraNew, KitNew, New
<1> QED
  BY <1>1, <1>2, <1>3, <1>4

LEMMA ReadFlagsUpdate ==
  ASSUME MaxWrites \in Nat, TypeInv, writes \in Nat, UpdateInv, ReadFlags
  PROVE  UpdateInv'
<1> SUFFICES ASSUME ~local PROVE ProxyNew' /\ KitNew' /\ Copied' /\ CameraNew'
  BY ReadFlagsFields DEF UpdateInv
<1>1. ProxyNew'
  BY ReadFlagsFields, Integers, SMT DEF UpdateInv, ProxyNew, Copied, New
<1>2. KitNew'
  BY ReadFlagsFields, Integers, SMT DEF UpdateInv, KitNew, ProxyNew, Copied, New, TypeInv, CommandsTaken, KitServes
<1>3. Copied'
  BY ReadFlagsFields, Integers, SMT DEF UpdateInv, Copied, TypeInv, CommandsTaken, KitServes
<1>4. CameraNew'
  BY ReadFlagsFields, SMT DEF UpdateInv, CameraNew, KitNew, New
<1> QED
  BY <1>1, <1>2, <1>3, <1>4

LEMMA ReadQualityUpdate ==
  ASSUME MaxWrites \in Nat, TypeInv, writes \in Nat, UpdateInv, ReadQuality
  PROVE  UpdateInv'
<1> SUFFICES ASSUME ~local PROVE ProxyNew' /\ KitNew' /\ Copied' /\ CameraNew'
  BY ReadQualityFields DEF UpdateInv
<1>1. ProxyNew'
  BY ReadQualityFields, Integers, SMT DEF UpdateInv, ProxyNew, Copied, New
<1>2. KitNew'
  BY ReadQualityFields, Integers, SMT DEF UpdateInv, KitNew, ProxyNew, Copied, New, TypeInv, CommandsTaken, KitServes
<1>3. Copied'
  BY ReadQualityFields, Integers, SMT DEF UpdateInv, Copied, TypeInv, CommandsTaken, KitServes
<1>4. CameraNew'
  BY ReadQualityFields, SMT DEF UpdateInv, CameraNew, KitNew, New
<1> QED
  BY <1>1, <1>2, <1>3, <1>4

LEMMA FixQualityUpdate ==
  ASSUME MaxWrites \in Nat, TypeInv, writes \in Nat, UpdateInv, FixQuality
  PROVE  UpdateInv'
<1> SUFFICES ASSUME ~local PROVE ProxyNew' /\ KitNew' /\ Copied' /\ CameraNew'
  BY FixQualityFields DEF UpdateInv
<1>1. ProxyNew'
  BY FixQualityFields, Integers, SMT DEF UpdateInv, ProxyNew, Copied, New
<1>2. KitNew'
  BY FixQualityFields, Integers, SMT DEF UpdateInv, KitNew, ProxyNew, Copied, New, TypeInv, CommandsTaken, KitServes
<1>3. Copied'
  BY FixQualityFields, Integers, SMT DEF UpdateInv, Copied, TypeInv, CommandsTaken, KitServes
<1>4. CameraNew'
  BY FixQualityFields, SMT DEF UpdateInv, CameraNew, KitNew, New
<1> QED
  BY <1>1, <1>2, <1>3, <1>4

LEMMA ReadResUpdate ==
  ASSUME MaxWrites \in Nat, TypeInv, writes \in Nat, UpdateInv, ReadRes
  PROVE  UpdateInv'
<1> SUFFICES ASSUME ~local PROVE ProxyNew' /\ KitNew' /\ Copied' /\ CameraNew'
  BY ReadResFields DEF UpdateInv
<1>1. ProxyNew'
  BY ReadResFields, Integers, SMT DEF UpdateInv, ProxyNew, Copied, New, ToStart, ToStop, ToUpdate
<1>2. KitNew'
  BY ReadResFields, Integers, SMT DEF UpdateInv, KitNew, ProxyNew, Copied, New, TypeInv, CommandsTaken, KitServes, ToStart, ToStop, ToUpdate
<1>3. Copied'
  BY ReadResFields, Integers, SMT DEF UpdateInv, Copied, TypeInv, CommandsTaken, KitServes, ToStart, ToStop, ToUpdate
<1>4. CameraNew'
  BY ReadResFields, SMT DEF UpdateInv, CameraNew, KitNew, New
<1> QED
  BY <1>1, <1>2, <1>3, <1>4

LEMMA FixResUpdate ==
  ASSUME MaxWrites \in Nat, TypeInv, writes \in Nat, UpdateInv, FixRes
  PROVE  UpdateInv'
<1> SUFFICES ASSUME ~local PROVE ProxyNew' /\ KitNew' /\ Copied' /\ CameraNew'
  BY FixResFields DEF UpdateInv
<1>1. ProxyNew'
  BY FixResFields, Integers, SMT DEF UpdateInv, ProxyNew, Copied, New, ToStart, ToStop, ToUpdate
<1>2. KitNew'
  BY FixResFields, Integers, SMT DEF UpdateInv, KitNew, ProxyNew, Copied, New, TypeInv, CommandsTaken, KitServes, ToStart, ToStop, ToUpdate
<1>3. Copied'
  BY FixResFields, Integers, SMT DEF UpdateInv, Copied, TypeInv, CommandsTaken, KitServes, ToStart, ToStop, ToUpdate
<1>4. CameraNew'
  BY FixResFields, SMT DEF UpdateInv, CameraNew, KitNew, New
<1> QED
  BY <1>1, <1>2, <1>3, <1>4

LEMMA SendIpUpdate ==
  ASSUME MaxWrites \in Nat, TypeInv, writes \in Nat, UpdateInv, SendIp
  PROVE  UpdateInv'
<1> SUFFICES ASSUME ~local PROVE ProxyNew' /\ KitNew' /\ Copied' /\ CameraNew'
  BY SendIpFields DEF UpdateInv
<1>1. ProxyNew'
  BY SendIpFields, Integers, SMT DEF UpdateInv, ProxyNew, Copied, New
<1>2. KitNew'
  BY SendIpFields, Integers, SMT DEF UpdateInv, KitNew, ProxyNew, Copied, New, TypeInv, CommandsTaken, KitServes
<1>3. Copied'
  BY SendIpFields, Integers, SMT DEF UpdateInv, Copied, TypeInv, CommandsTaken, KitServes
<1>4. CameraNew'
  BY SendIpFields, SMT DEF UpdateInv, CameraNew, KitNew, New
<1> QED
  BY <1>1, <1>2, <1>3, <1>4

LEMMA SendStartUpdate ==
  ASSUME MaxWrites \in Nat, TypeInv, writes \in Nat, UpdateInv, SendStart
  PROVE  UpdateInv'
<1> SUFFICES ASSUME ~local PROVE ProxyNew' /\ KitNew' /\ Copied' /\ CameraNew'
  BY SendStartFields DEF UpdateInv
<1>1. ProxyNew'
  BY SendStartFields, Integers, SMT DEF UpdateInv, ProxyNew, Copied, New
<1>2. KitNew'
  BY SendStartFields, Integers, SMT DEF UpdateInv, KitNew, ProxyNew, Copied, New, TypeInv, CommandsTaken, KitServes
<1>3. Copied'
  BY SendStartFields, Integers, SMT DEF UpdateInv, Copied, TypeInv, CommandsTaken, KitServes
<1>4. CameraNew'
  BY SendStartFields, SMT DEF UpdateInv, CameraNew, KitNew, New
<1> QED
  BY <1>1, <1>2, <1>3, <1>4

LEMMA SendStopUpdate ==
  ASSUME MaxWrites \in Nat, TypeInv, writes \in Nat, UpdateInv, SendStop
  PROVE  UpdateInv'
<1> SUFFICES ASSUME ~local PROVE ProxyNew' /\ KitNew' /\ Copied' /\ CameraNew'
  BY SendStopFields DEF UpdateInv
<1>1. ProxyNew'
  BY SendStopFields, Integers, SMT DEF UpdateInv, ProxyNew, Copied, New
<1>2. KitNew'
  BY SendStopFields, Integers, SMT DEF UpdateInv, KitNew, ProxyNew, Copied, New, TypeInv, CommandsTaken, KitServes
<1>3. Copied'
  BY SendStopFields, Integers, SMT DEF UpdateInv, Copied, TypeInv, CommandsTaken, KitServes
<1>4. CameraNew'
  BY SendStopFields, SMT DEF UpdateInv, CameraNew, KitNew, New
<1> QED
  BY <1>1, <1>2, <1>3, <1>4

LEMMA SendQualityUpdate ==
  ASSUME MaxWrites \in Nat, TypeInv, writes \in Nat, UpdateInv, SendQuality
  PROVE  UpdateInv'
<1> SUFFICES ASSUME ~local PROVE ProxyNew' /\ KitNew' /\ Copied' /\ CameraNew'
  BY SendQualityFields DEF UpdateInv
<1>1. ProxyNew'
  BY SendQualityFields, Integers, SMT DEF UpdateInv, ProxyNew, Copied, New
<1>2. KitNew'
  <2>1. ~direct
    BY SendQualityFields, SMT DEF TypeInv, CommandsTaken
  <2>2. kit.quality.ver <= snap.quality.ver
    BY <2>1 DEF UpdateInv, Copied
  <2>3. New(kit.cmd, snap.quality, "quality") /\ New(ksnap.cmd, snap.quality, "quality")
    BY <2>2, Integers, NewUp DEF UpdateInv, KitNew, Value
  <2> QED
    BY <2>3, SendQualityFields, Integers, SMT DEF UpdateInv, KitNew, ProxyNew, Copied, New, TypeInv, CommandsTaken, KitServes
<1>3. Copied'
  BY SendQualityFields, Integers, SMT DEF UpdateInv, Copied, TypeInv, CommandsTaken, KitServes
<1>4. CameraNew'
  BY SendQualityFields, SMT DEF UpdateInv, CameraNew, KitNew, New
<1> QED
  BY <1>1, <1>2, <1>3, <1>4

LEMMA SendResUpdate ==
  ASSUME MaxWrites \in Nat, TypeInv, writes \in Nat, UpdateInv, SendRes
  PROVE  UpdateInv'
<1> SUFFICES ASSUME ~local PROVE ProxyNew' /\ KitNew' /\ Copied' /\ CameraNew'
  BY SendResFields DEF UpdateInv
<1>1. ProxyNew'
  BY SendResFields, Integers, SMT DEF UpdateInv, ProxyNew, Copied, New
<1>2. KitNew'
  <2>1. ~direct
    BY SendResFields, SMT DEF TypeInv, CommandsTaken
  <2>2. kit.res.ver <= snap.res.ver
    BY <2>1 DEF UpdateInv, Copied
  <2>3. New(kit.cmd, snap.res, "res") /\ New(ksnap.cmd, snap.res, "res")
    BY <2>2, Integers, NewUp DEF UpdateInv, KitNew, Value
  <2> QED
    BY <2>3, SendResFields, Integers, SMT DEF UpdateInv, KitNew, ProxyNew, Copied, New, TypeInv, CommandsTaken, KitServes
<1>3. Copied'
  BY SendResFields, Integers, SMT DEF UpdateInv, Copied, TypeInv, CommandsTaken, KitServes
<1>4. CameraNew'
  BY SendResFields, SMT DEF UpdateInv, CameraNew, KitNew, New
<1> QED
  BY <1>1, <1>2, <1>3, <1>4

LEMMA SendCmdUpdate ==
  ASSUME MaxWrites \in Nat, TypeInv, writes \in Nat, UpdateInv, SendCmd
  PROVE  UpdateInv'
<1> SUFFICES ASSUME ~local PROVE ProxyNew' /\ KitNew' /\ Copied' /\ CameraNew'
  BY SendCmdFields DEF UpdateInv
<1>1. ProxyNew'
  BY SendCmdFields, Integers, SMT DEF UpdateInv, ProxyNew, Copied, New
<1>2. KitNew'
  BY SendCmdFields, Integers, SMT DEF UpdateInv, KitNew, ProxyNew, Copied, New, TypeInv, CommandsTaken, KitServes
<1>3. Copied'
  BY SendCmdFields, Integers, SMT DEF UpdateInv, Copied, TypeInv, CommandsTaken, KitServes
<1>4. CameraNew'
  BY SendCmdFields, SMT DEF UpdateInv, CameraNew, KitNew, New
<1> QED
  BY <1>1, <1>2, <1>3, <1>4

LEMMA ClearStartUpdate ==
  ASSUME MaxWrites \in Nat, TypeInv, writes \in Nat, UpdateInv, ClearStart
  PROVE  UpdateInv'
<1> SUFFICES ASSUME ~local PROVE ProxyNew' /\ KitNew' /\ Copied' /\ CameraNew'
  BY ClearStartFields DEF UpdateInv
<1>1. ProxyNew'
  BY ClearStartFields, Integers, SMT DEF UpdateInv, ProxyNew, Copied, New, ToStart, ToStop, ToUpdate
<1>2. KitNew'
  BY ClearStartFields, Integers, SMT DEF UpdateInv, KitNew, ProxyNew, Copied, New, TypeInv, CommandsTaken, KitServes, ToStart, ToStop, ToUpdate
<1>3. Copied'
  BY ClearStartFields, Integers, SMT DEF UpdateInv, Copied, TypeInv, CommandsTaken, KitServes, ToStart, ToStop, ToUpdate
<1>4. CameraNew'
  BY ClearStartFields, SMT DEF UpdateInv, CameraNew, KitNew, New
<1> QED
  BY <1>1, <1>2, <1>3, <1>4

LEMMA ClearStopUpdate ==
  ASSUME MaxWrites \in Nat, TypeInv, writes \in Nat, UpdateInv, ClearStop
  PROVE  UpdateInv'
<1> SUFFICES ASSUME ~local PROVE ProxyNew' /\ KitNew' /\ Copied' /\ CameraNew'
  BY ClearStopFields DEF UpdateInv
<1>1. ProxyNew'
  BY ClearStopFields, Integers, SMT DEF UpdateInv, ProxyNew, Copied, New, ToStart, ToStop, ToUpdate
<1>2. KitNew'
  BY ClearStopFields, Integers, SMT DEF UpdateInv, KitNew, ProxyNew, Copied, New, TypeInv, CommandsTaken, KitServes, ToStart, ToStop, ToUpdate
<1>3. Copied'
  BY ClearStopFields, Integers, SMT DEF UpdateInv, Copied, TypeInv, CommandsTaken, KitServes, ToStart, ToStop, ToUpdate
<1>4. CameraNew'
  BY ClearStopFields, SMT DEF UpdateInv, CameraNew, KitNew, New
<1> QED
  BY <1>1, <1>2, <1>3, <1>4

LEMMA ClearCmdUpdate ==
  ASSUME MaxWrites \in Nat, TypeInv, writes \in Nat, UpdateInv, ClearCmd
  PROVE  UpdateInv'
<1> SUFFICES ASSUME ~local PROVE ProxyNew' /\ KitNew' /\ Copied' /\ CameraNew'
  BY ClearCmdFields DEF UpdateInv
<1>1. ProxyNew'
  BY ClearCmdFields, Integers, SMT DEF UpdateInv, ProxyNew, Copied, New
<1>2. KitNew'
  BY ClearCmdFields, Integers, SMT DEF UpdateInv, KitNew, ProxyNew, Copied, New, TypeInv, CommandsTaken, KitServes
<1>3. Copied'
  BY ClearCmdFields, Integers, SMT DEF UpdateInv, Copied, TypeInv, CommandsTaken, KitServes
<1>4. CameraNew'
  BY ClearCmdFields, SMT DEF UpdateInv, CameraNew, KitNew, New
<1> QED
  BY <1>1, <1>2, <1>3, <1>4

LEMMA KitReadFlagsUpdate ==
  ASSUME MaxWrites \in Nat, TypeInv, writes \in Nat, UpdateInv, KitReadFlags
  PROVE  UpdateInv'
<1> SUFFICES ASSUME ~local PROVE ProxyNew' /\ KitNew' /\ Copied' /\ CameraNew'
  BY KitReadFlagsFields DEF UpdateInv
<1>1. ProxyNew'
  BY KitReadFlagsFields, Integers, SMT DEF UpdateInv, ProxyNew, Copied, New
<1>2. KitNew'
  BY KitReadFlagsFields, Integers, SMT DEF UpdateInv, KitNew, ProxyNew, Copied, New, TypeInv, CommandsTaken, KitServes
<1>3. Copied'
  BY KitReadFlagsFields, Integers, SMT DEF UpdateInv, Copied, TypeInv, CommandsTaken, KitServes
<1>4. CameraNew'
  BY KitReadFlagsFields, SMT DEF UpdateInv, CameraNew, KitNew, New
<1> QED
  BY <1>1, <1>2, <1>3, <1>4

LEMMA KitReadValuesUpdate ==
  ASSUME MaxWrites \in Nat, TypeInv, writes \in Nat, UpdateInv, KitReadValues
  PROVE  UpdateInv'
<1> SUFFICES ASSUME ~local PROVE ProxyNew' /\ KitNew' /\ Copied' /\ CameraNew'
  BY KitReadValuesFields DEF UpdateInv
<1>1. ProxyNew'
  BY KitReadValuesFields, Integers, SMT DEF UpdateInv, ProxyNew, Copied, New, KitToStart, KitToStop, KitToUpdate
<1>2. KitNew'
  BY KitReadValuesFields, Integers, SMT DEF UpdateInv, KitNew, ProxyNew, Copied, New, TypeInv, CommandsTaken, KitServes, KitToStart, KitToStop, KitToUpdate
<1>3. Copied'
  BY KitReadValuesFields, Integers, SMT DEF UpdateInv, Copied, TypeInv, CommandsTaken, KitServes, KitToStart, KitToStop, KitToUpdate
<1>4. CameraNew'
  BY KitReadValuesFields, SMT DEF UpdateInv, CameraNew, KitNew, New
<1> QED
  BY <1>1, <1>2, <1>3, <1>4

LEMMA KitFixResUpdate ==
  ASSUME MaxWrites \in Nat, TypeInv, writes \in Nat, UpdateInv, KitFixRes
  PROVE  UpdateInv'
<1> SUFFICES ASSUME ~local PROVE ProxyNew' /\ KitNew' /\ Copied' /\ CameraNew'
  BY KitFixResFields DEF UpdateInv
<1>1. ProxyNew'
  BY KitFixResFields, Integers, SMT DEF UpdateInv, ProxyNew, Copied, New, KitToStart, KitToStop, KitToUpdate
<1>2. KitNew'
  BY KitFixResFields, Integers, SMT DEF UpdateInv, KitNew, ProxyNew, Copied, New, TypeInv, CommandsTaken, KitServes, KitToStart, KitToStop, KitToUpdate
<1>3. Copied'
  BY KitFixResFields, Integers, SMT DEF UpdateInv, Copied, TypeInv, CommandsTaken, KitServes, KitToStart, KitToStop, KitToUpdate
<1>4. CameraNew'
  BY KitFixResFields, SMT DEF UpdateInv, CameraNew, KitNew, New
<1> QED
  BY <1>1, <1>2, <1>3, <1>4

LEMMA KitStartedUpdate ==
  ASSUME MaxWrites \in Nat, TypeInv, writes \in Nat, UpdateInv, KitStarted
  PROVE  UpdateInv'
<1> SUFFICES ASSUME ~local PROVE ProxyNew' /\ KitNew' /\ Copied' /\ CameraNew'
  BY KitStartedFields DEF UpdateInv
<1>1. ProxyNew'
  BY KitStartedFields, Integers, SMT DEF UpdateInv, ProxyNew, Copied, New, KitToStart, KitToStop, KitToUpdate
<1>2. KitNew'
  BY KitStartedFields, Integers, SMT DEF UpdateInv, KitNew, ProxyNew, Copied, New, TypeInv, CommandsTaken, KitServes, KitToStart, KitToStop, KitToUpdate
<1>3. Copied'
  BY KitStartedFields, Integers, SMT DEF UpdateInv, Copied, TypeInv, CommandsTaken, KitServes, KitToStart, KitToStop, KitToUpdate
<1>4. CameraNew'
  BY KitStartedFields, SMT DEF UpdateInv, CameraNew, KitNew, New
<1> QED
  BY <1>1, <1>2, <1>3, <1>4

LEMMA KitStoppedUpdate ==
  ASSUME MaxWrites \in Nat, TypeInv, writes \in Nat, UpdateInv, KitStopped
  PROVE  UpdateInv'
<1> SUFFICES ASSUME ~local PROVE ProxyNew' /\ KitNew' /\ Copied' /\ CameraNew'
  BY KitStoppedFields DEF UpdateInv
<1>1. ProxyNew'
  BY KitStoppedFields, Integers, SMT DEF UpdateInv, ProxyNew, Copied, New, KitToStart, KitToStop, KitToUpdate
<1>2. KitNew'
  BY KitStoppedFields, Integers, SMT DEF UpdateInv, KitNew, ProxyNew, Copied, New, TypeInv, CommandsTaken, KitServes, KitToStart, KitToStop, KitToUpdate
<1>3. Copied'
  BY KitStoppedFields, Integers, SMT DEF UpdateInv, Copied, TypeInv, CommandsTaken, KitServes, KitToStart, KitToStop, KitToUpdate
<1>4. CameraNew'
  BY KitStoppedFields, SMT DEF UpdateInv, CameraNew, KitNew, New
<1> QED
  BY <1>1, <1>2, <1>3, <1>4

LEMMA KitUpdatedUpdate ==
  ASSUME MaxWrites \in Nat, TypeInv, writes \in Nat, UpdateInv, KitUpdated
  PROVE  UpdateInv'
<1> SUFFICES ASSUME ~local PROVE ProxyNew' /\ KitNew' /\ Copied' /\ CameraNew'
  BY KitUpdatedFields DEF UpdateInv
<1>1. ProxyNew'
  BY KitUpdatedFields, Integers, SMT DEF UpdateInv, ProxyNew, Copied, New
<1>2. KitNew'
  BY KitUpdatedFields, Integers, SMT DEF UpdateInv, KitNew, ProxyNew, Copied, New, TypeInv, CommandsTaken, KitServes
<1>3. Copied'
  BY KitUpdatedFields, Integers, SMT DEF UpdateInv, Copied, TypeInv, CommandsTaken, KitServes
<1>4. CameraNew'
  BY KitUpdatedFields, SMT DEF UpdateInv, CameraNew, KitNew, New
<1> QED
  BY <1>1, <1>2, <1>3, <1>4

LEMMA KitStartUpdate ==
  ASSUME MaxWrites \in Nat, TypeInv, writes \in Nat, UpdateInv, KitStart
  PROVE  UpdateInv'
<1> SUFFICES ASSUME ~local PROVE ProxyNew' /\ KitNew' /\ Copied' /\ CameraNew'
  BY KitStartFields DEF UpdateInv
<1>1. ProxyNew'
  BY KitStartFields, Integers, SMT DEF UpdateInv, ProxyNew, Copied, New
<1>2. KitNew'
  BY KitStartFields, Integers, SMT DEF UpdateInv, KitNew, ProxyNew, Copied, New, TypeInv, CommandsTaken, KitServes
<1>3. Copied'
  BY KitStartFields, Integers, SMT DEF UpdateInv, Copied, TypeInv, CommandsTaken, KitServes
<1>4. CameraNew'
  BY KitStartFields, SMT DEF UpdateInv, CameraNew, KitNew, New
<1> QED
  BY <1>1, <1>2, <1>3, <1>4

LEMMA KitStopUpdate ==
  ASSUME MaxWrites \in Nat, TypeInv, writes \in Nat, UpdateInv, KitStop
  PROVE  UpdateInv'
<1> SUFFICES ASSUME ~local PROVE ProxyNew' /\ KitNew' /\ Copied' /\ CameraNew'
  BY KitStopFields DEF UpdateInv
<1>1. ProxyNew'
  BY KitStopFields, Integers, SMT DEF UpdateInv, ProxyNew, Copied, New
<1>2. KitNew'
  BY KitStopFields, Integers, SMT DEF UpdateInv, KitNew, ProxyNew, Copied, New, TypeInv, CommandsTaken, KitServes
<1>3. Copied'
  BY KitStopFields, Integers, SMT DEF UpdateInv, Copied, TypeInv, CommandsTaken, KitServes
<1>4. CameraNew'
  BY KitStopFields, SMT DEF UpdateInv, CameraNew, KitNew, New
<1> QED
  BY <1>1, <1>2, <1>3, <1>4

LEMMA KitUpdateUpdate ==
  ASSUME MaxWrites \in Nat, TypeInv, writes \in Nat, UpdateInv, KitUpdate
  PROVE  UpdateInv'
<1> SUFFICES ASSUME ~local PROVE ProxyNew' /\ KitNew' /\ Copied' /\ CameraNew'
  BY KitUpdateFields DEF UpdateInv
<1>1. ProxyNew'
  BY KitUpdateFields, Integers, SMT DEF UpdateInv, ProxyNew, Copied, New
<1>2. KitNew'
  BY KitUpdateFields, Integers, SMT DEF UpdateInv, KitNew, ProxyNew, Copied, New, TypeInv, CommandsTaken, KitServes
<1>3. Copied'
  BY KitUpdateFields, Integers, SMT DEF UpdateInv, Copied, TypeInv, CommandsTaken, KitServes
<1>4. CameraNew'
  BY KitUpdateFields, SMT DEF UpdateInv, CameraNew, KitNew, New
<1> QED
  BY <1>1, <1>2, <1>3, <1>4

(* The operator writes a value: what was there only gets newer, and no     *)
(* loop is between reading a value and correcting it.                      *)
LEMMA SetValueUpdate ==
  ASSUME MaxWrites \in Nat, TypeInv, writes \in Nat, UpdateInv, SetValue
  PROVE  UpdateInv'
<1> SUFFICES ASSUME ~local PROVE ProxyNew' /\ KitNew' /\ Copied' /\ CameraNew'
  BY SetValueFields DEF UpdateInv, Written
<1>1. Written /\ UNCHANGED <<last, asked>>
  BY SetValueFields
<1>2. PICK v \in Value, x \in ValuesTo(writes + 1) :
        /\ x.ver = writes + 1
        /\ IF direct THEN PutValue(kit', kit, v, x) ELSE PutValue(proxy', proxy, v, x)
  BY SetValueFields
<1>3. proxy \in NodesTo(writes) /\ kit \in NodesTo(writes)
  BY DEF TypeInv, NodeType
<1>4. CameraNew'
  BY <1>1 DEF UpdateInv, CameraNew, New, Written
<1>5. CASE direct
  <2>1. kpc = "sleep" /\ pc = "ended"
    BY <1>1, <1>5, SMT DEF Written, Serves, KitServes, TypeInv, CommandsTaken
  <2>2. /\ kit'.cmd = kit.cmd
        /\ kit'.quality.ver \in Int /\ kit.quality.ver <= kit'.quality.ver
        /\ kit'.res.ver \in Int /\ kit.res.ver <= kit'.res.ver
    BY <1>2, <1>3, <1>5, NodeNumbers, SMT DEF PutValue
  <2>3. ProxyNew'
    BY <1>1, <1>5 DEF UpdateInv, ProxyNew, New, Written
  <2>4. /\ New(kit.cmd, kit'.quality, "quality") /\ New(kit.cmd, kit'.res, "res")
        /\ New(ksnap.cmd, kit'.quality, "quality") /\ New(ksnap.cmd, kit'.res, "res")
    BY <2>2, Integers, NewUp DEF UpdateInv, KitNew, Value
  <2>5. KitNew'
    BY <1>1, <2>1, <2>2, <2>4 DEF UpdateInv, KitNew, New, Written
  <2>6. Copied'
    BY <1>1, <1>5, <2>1, SMT DEF Copied, Written
  <2> QED
    BY <1>4, <2>3, <2>5, <2>6
<1>6. CASE ~direct
  <2>1. pc \notin {"quality", "fixQuality", "res", "fixRes"}
    BY <1>1, <1>6, SMT DEF Written, Serves, ProxyServes
  <2>2. /\ proxy'.cmd = proxy.cmd
        /\ proxy'.quality.ver \in Int /\ proxy.quality.ver <= proxy'.quality.ver
        /\ proxy'.res.ver \in Int /\ proxy.res.ver <= proxy'.res.ver
    BY <1>2, <1>3, <1>6, NodeNumbers, SMT DEF PutValue
  <2>3. KitNew'
    BY <1>1, <1>6 DEF UpdateInv, KitNew, New, Written
  <2>4. /\ New(proxy.cmd, proxy'.quality, "quality") /\ New(proxy.cmd, proxy'.res, "res")
        /\ New(snap.cmd, proxy'.quality, "quality") /\ New(snap.cmd, proxy'.res, "res")
    BY <2>2, Integers, NewUp DEF UpdateInv, ProxyNew, Value
  <2>5. ProxyNew'
    BY <1>1, <2>2, <2>4 DEF UpdateInv, ProxyNew, New, Written
  <2>6. Copied'
    BY <1>1, <1>6, <2>1, <2>2, Integers, SMT DEF UpdateInv, Copied, Written
  <2> QED
    BY <1>4, <2>3, <2>5, <2>6
<1> QED
  BY <1>5, <1>6

(* He gives a command: it notes the values of that moment.                 *)
LEMMA CommandUpdate ==
  ASSUME MaxWrites \in Nat, TypeInv, writes \in Nat, UpdateInv, Command
  PROVE  UpdateInv'
<1> SUFFICES ASSUME ~local PROVE ProxyNew' /\ KitNew' /\ Copied' /\ CameraNew'
  BY CommandFields DEF UpdateInv, Written
<1>1. Written
  BY CommandFields
<1>2. PICK f \in Flag : /\ IF direct THEN PutFlag(kit', kit, f, writes + 1)
                                     ELSE PutFlag(proxy', proxy, f, writes + 1)
                        /\ f = "cmd" /\ polite => Target.cmd = 0
                        /\ last'.update = IF f = "cmd" THEN writes + 1 ELSE last.update
  BY CommandFields
<1>3. /\ \A n \in 1 .. writes : asked'[n]["quality"] = asked[n]["quality"]
      /\ \A n \in 1 .. writes : asked'[n]["res"] = asked[n]["res"]
      /\ asked'[writes + 1]["quality"] = Target.quality.ver
      /\ asked'[writes + 1]["res"] = Target.res.ver
  <2>1. \A n \in 1 .. MaxWrites, v \in {"quality", "res"} :
          asked'[n][v] = IF n = writes + 1 THEN Target[v].ver ELSE asked[n][v]
    BY CommandFields DEF Value
  <2>2. writes + 1 \in 1 .. MaxWrites
    BY <1>1 DEF Written
  <2>3. \A n \in 1 .. writes : n \in 1 .. MaxWrites /\ n # writes + 1
    BY <2>2, SMT
  <2> QED
    BY <2>1, <2>2, <2>3
<1>4. \A n \in 0 .. writes : n # 0 => n \in 1 .. writes
  BY SMT
<1>5. CameraNew'
  <2>1. camera.by \in 0 .. writes
    BY Numbers
  <2> QED
    BY <1>1, <1>3, <1>4, <2>1 DEF UpdateInv, CameraNew, New, Written
<1>6. CASE direct
  <2>1. /\ kit'.cmd \in {kit.cmd, writes + 1} /\ kit'.quality = kit.quality /\ kit'.res = kit.res
        /\ asked'[writes + 1]["quality"] = kit.quality.ver
        /\ asked'[writes + 1]["res"] = kit.res.ver
    BY <1>2, <1>3, <1>6 DEF PutFlag, Target
  <2>2. proxy' = proxy
    BY <1>1, <1>6 DEF Written
  <2>3. ProxyNew'
    BY <1>1, <1>3, <2>2, Integers, SMT DEF UpdateInv, ProxyNew, New, Written
  <2>4. KitNew'
    BY <1>1, <1>3, <2>1, Integers, SMT DEF UpdateInv, KitNew, New, Written
  <2>5. Copied'
    BY <1>1, <2>1, <2>2 DEF UpdateInv, Copied, Written
  <2> QED
    BY <1>5, <2>3, <2>4, <2>5
<1>7. CASE ~direct
  <2>1. /\ proxy'.cmd \in {proxy.cmd, writes + 1}
        /\ proxy'.quality = proxy.quality /\ proxy'.res = proxy.res
        /\ asked'[writes + 1]["quality"] = proxy.quality.ver
        /\ asked'[writes + 1]["res"] = proxy.res.ver
    BY <1>2, <1>3, <1>7 DEF PutFlag, Target
  <2>2. kit' = kit
    BY <1>1, <1>7 DEF Written
  <2>3. KitNew'
    BY <1>1, <1>3, <2>2, Integers, SMT DEF UpdateInv, KitNew, New, Written
  <2>4. ProxyNew'
    BY <1>1, <1>3, <2>1, Integers, SMT DEF UpdateInv, ProxyNew, New, Written
  <2>5. Copied'
    BY <1>1, <2>1, <2>2 DEF UpdateInv, Copied, Written
  <2> QED
    BY <1>5, <2>3, <2>4, <2>5
<1> QED
  BY <1>6, <1>7

(* No step makes what an update uses older than the command.               *)
LEMMA UpdateStep ==
  ASSUME MaxWrites \in Nat, TypeInv, UpdateInv, [Next]_vars
  PROVE  UpdateInv'
<1>1. writes \in Nat
  BY Numbers, SMT
<1>2. CASE SetValue
  BY <1>1, <1>2, SetValueUpdate
<1>3. CASE Command
  BY <1>1, <1>3, CommandUpdate
<1>4. CASE Connect
  BY <1>1, <1>4, ConnectUpdate
<1>5. CASE ReadFlags
  BY <1>1, <1>5, ReadFlagsUpdate
<1>6. CASE ReadQuality
  BY <1>1, <1>6, ReadQualityUpdate
<1>7. CASE FixQuality
  BY <1>1, <1>7, FixQualityUpdate
<1>8. CASE ReadRes
  BY <1>1, <1>8, ReadResUpdate
<1>9. CASE FixRes
  BY <1>1, <1>9, FixResUpdate
<1>10. CASE SendIp
  BY <1>1, <1>10, SendIpUpdate
<1>11. CASE SendStart
  BY <1>1, <1>11, SendStartUpdate
<1>12. CASE SendStop
  BY <1>1, <1>12, SendStopUpdate
<1>13. CASE SendQuality
  BY <1>1, <1>13, SendQualityUpdate
<1>14. CASE SendRes
  BY <1>1, <1>14, SendResUpdate
<1>15. CASE SendCmd
  BY <1>1, <1>15, SendCmdUpdate
<1>16. CASE ClearStart
  BY <1>1, <1>16, ClearStartUpdate
<1>17. CASE ClearStop
  BY <1>1, <1>17, ClearStopUpdate
<1>18. CASE ClearCmd
  BY <1>1, <1>18, ClearCmdUpdate
<1>19. CASE KitReadFlags
  BY <1>1, <1>19, KitReadFlagsUpdate
<1>20. CASE KitReadValues
  BY <1>1, <1>20, KitReadValuesUpdate
<1>21. CASE KitFixRes
  BY <1>1, <1>21, KitFixResUpdate
<1>22. CASE KitStarted
  BY <1>1, <1>22, KitStartedUpdate
<1>23. CASE KitStopped
  BY <1>1, <1>23, KitStoppedUpdate
<1>24. CASE KitUpdated
  BY <1>1, <1>24, KitUpdatedUpdate
<1>25. CASE KitStart
  BY <1>1, <1>25, KitStartUpdate
<1>26. CASE KitStop
  BY <1>1, <1>26, KitStopUpdate
<1>27. CASE KitUpdate
  BY <1>1, <1>27, KitUpdateUpdate
<1>28. CASE ConnectionLost
  BY <1>28 DEF ConnectionLost, others, mode, UpdateInv,
         ProxyNew, KitNew, Copied, CameraNew, New
<1>29. CASE UNCHANGED vars
  BY <1>29 DEF vars, mode, UpdateInv,
         ProxyNew, KitNew, Copied, CameraNew, New
<1> QED
  BY <1>2, <1>3, <1>4, <1>5, <1>6, <1>7, <1>8, <1>9, <1>10, <1>11, <1>12, <1>13, <1>14, <1>15, <1>16, <1>17, <1>18, <1>19, <1>20, <1>21, <1>22, <1>23, <1>24, <1>25, <1>26, <1>27, <1>28, <1>29
     DEF Next, Operator, Proxy, Kit, Sends, Clears

-----------------------------------------------------------------------------
(* The acknowledgement.                                                    *)

LEMMA AckNumbers ==
  ASSUME MaxWrites \in Nat, TypeInv
  PROVE  /\ proxy.cmd \in Nat /\ snap.cmd \in Nat /\ kit.cmd \in Nat /\ ksnap.cmd \in Nat
         /\ camera.by \in Nat /\ last.update \in Nat
         /\ kit.cmd <= writes /\ camera.by <= writes
<1>1. writes \in Nat
  BY Numbers, SMT
<1>2. camera.by \in 0 .. writes /\ last.update \in 0 .. writes
  BY Numbers
<1>3. /\ proxy.cmd \in 0 .. writes /\ snap.cmd \in 0 .. writes
      /\ kit.cmd \in 0 .. writes /\ ksnap.cmd \in 0 .. writes
  BY Integers
<1> QED
  BY <1>1, <1>2, <1>3, SMT

LEMMA ConnectAck ==
  ASSUME MaxWrites \in Nat, TypeInv, writes \in Nat, AckInv, Connect
  PROVE  AckInv'
<1> SUFFICES ASSUME polite, ~local, AckNow PROVE AckNow'
  BY ConnectFields DEF AckInv
<1>1. CommandsTaken
  BY DEF TypeInv
<1> QED
  BY <1>1, ConnectFields, AckNumbers, SMT DEF AckNow, Reached, Target, CommandsTaken, KitServes

LEMMA ReadFlagsAck ==
  ASSUME MaxWrites \in Nat, TypeInv, writes \in Nat, AckInv, ReadFlags
  PROVE  AckInv'
<1> SUFFICES ASSUME polite, ~local, AckNow PROVE AckNow'
  BY ReadFlagsFields DEF AckInv
<1>1. CommandsTaken
  BY DEF TypeInv
<1> QED
  BY <1>1, ReadFlagsFields, AckNumbers, SMT DEF AckNow, Reached, Target, CommandsTaken, KitServes

LEMMA ReadQualityAck ==
  ASSUME MaxWrites \in Nat, TypeInv, writes \in Nat, AckInv, ReadQuality
  PROVE  AckInv'
<1> SUFFICES ASSUME polite, ~local, AckNow PROVE AckNow'
  BY ReadQualityFields DEF AckInv
<1>1. CommandsTaken
  BY DEF TypeInv
<1> QED
  BY <1>1, ReadQualityFields, AckNumbers, SMT DEF AckNow, Reached, Target, CommandsTaken, KitServes

LEMMA FixQualityAck ==
  ASSUME MaxWrites \in Nat, TypeInv, writes \in Nat, AckInv, FixQuality
  PROVE  AckInv'
<1> SUFFICES ASSUME polite, ~local, AckNow PROVE AckNow'
  BY FixQualityFields DEF AckInv
<1>1. CommandsTaken
  BY DEF TypeInv
<1> QED
  BY <1>1, FixQualityFields, AckNumbers, SMT DEF AckNow, Reached, Target, CommandsTaken, KitServes

LEMMA ReadResAck ==
  ASSUME MaxWrites \in Nat, TypeInv, writes \in Nat, AckInv, ReadRes
  PROVE  AckInv'
<1> SUFFICES ASSUME polite, ~local, AckNow PROVE AckNow'
  BY ReadResFields DEF AckInv
<1>1. CommandsTaken
  BY DEF TypeInv
<1> QED
  BY <1>1, ReadResFields, AckNumbers, SMT DEF AckNow, Reached, Target, CommandsTaken, KitServes, ToStart, ToStop, ToUpdate

LEMMA FixResAck ==
  ASSUME MaxWrites \in Nat, TypeInv, writes \in Nat, AckInv, FixRes
  PROVE  AckInv'
<1> SUFFICES ASSUME polite, ~local, AckNow PROVE AckNow'
  BY FixResFields DEF AckInv
<1>1. CommandsTaken
  BY DEF TypeInv
<1> QED
  BY <1>1, FixResFields, AckNumbers, SMT DEF AckNow, Reached, Target, CommandsTaken, KitServes, ToStart, ToStop, ToUpdate

LEMMA SendIpAck ==
  ASSUME MaxWrites \in Nat, TypeInv, writes \in Nat, AckInv, SendIp
  PROVE  AckInv'
<1> SUFFICES ASSUME polite, ~local, AckNow PROVE AckNow'
  BY SendIpFields DEF AckInv
<1>1. CommandsTaken
  BY DEF TypeInv
<1> QED
  BY <1>1, SendIpFields, AckNumbers, SMT DEF AckNow, Reached, Target, CommandsTaken, KitServes

LEMMA SendStartAck ==
  ASSUME MaxWrites \in Nat, TypeInv, writes \in Nat, AckInv, SendStart
  PROVE  AckInv'
<1> SUFFICES ASSUME polite, ~local, AckNow PROVE AckNow'
  BY SendStartFields DEF AckInv
<1>1. CommandsTaken
  BY DEF TypeInv
<1> QED
  BY <1>1, SendStartFields, AckNumbers, SMT DEF AckNow, Reached, Target, CommandsTaken, KitServes

LEMMA SendStopAck ==
  ASSUME MaxWrites \in Nat, TypeInv, writes \in Nat, AckInv, SendStop
  PROVE  AckInv'
<1> SUFFICES ASSUME polite, ~local, AckNow PROVE AckNow'
  BY SendStopFields DEF AckInv
<1>1. CommandsTaken
  BY DEF TypeInv
<1> QED
  BY <1>1, SendStopFields, AckNumbers, SMT DEF AckNow, Reached, Target, CommandsTaken, KitServes

LEMMA SendQualityAck ==
  ASSUME MaxWrites \in Nat, TypeInv, writes \in Nat, AckInv, SendQuality
  PROVE  AckInv'
<1> SUFFICES ASSUME polite, ~local, AckNow PROVE AckNow'
  BY SendQualityFields DEF AckInv
<1>1. CommandsTaken
  BY DEF TypeInv
<1> QED
  BY <1>1, SendQualityFields, AckNumbers, SMT DEF AckNow, Reached, Target, CommandsTaken, KitServes

LEMMA SendResAck ==
  ASSUME MaxWrites \in Nat, TypeInv, writes \in Nat, AckInv, SendRes
  PROVE  AckInv'
<1> SUFFICES ASSUME polite, ~local, AckNow PROVE AckNow'
  BY SendResFields DEF AckInv
<1>1. CommandsTaken
  BY DEF TypeInv
<1> QED
  BY <1>1, SendResFields, AckNumbers, SMT DEF AckNow, Reached, Target, CommandsTaken, KitServes

LEMMA SendCmdAck ==
  ASSUME MaxWrites \in Nat, TypeInv, writes \in Nat, AckInv, SendCmd
  PROVE  AckInv'
<1> SUFFICES ASSUME polite, ~local, AckNow PROVE AckNow'
  BY SendCmdFields DEF AckInv
<1>1. CommandsTaken
  BY DEF TypeInv
<1> QED
  BY <1>1, SendCmdFields, AckNumbers, SMT DEF AckNow, Reached, Target, CommandsTaken, KitServes

LEMMA ClearStartAck ==
  ASSUME MaxWrites \in Nat, TypeInv, writes \in Nat, AckInv, ClearStart
  PROVE  AckInv'
<1> SUFFICES ASSUME polite, ~local, AckNow PROVE AckNow'
  BY ClearStartFields DEF AckInv
<1>1. CommandsTaken
  BY DEF TypeInv
<1> QED
  BY <1>1, ClearStartFields, AckNumbers, SMT DEF AckNow, Reached, Target, CommandsTaken, KitServes, ToStart, ToStop, ToUpdate

LEMMA ClearStopAck ==
  ASSUME MaxWrites \in Nat, TypeInv, writes \in Nat, AckInv, ClearStop
  PROVE  AckInv'
<1> SUFFICES ASSUME polite, ~local, AckNow PROVE AckNow'
  BY ClearStopFields DEF AckInv
<1>1. CommandsTaken
  BY DEF TypeInv
<1> QED
  BY <1>1, ClearStopFields, AckNumbers, SMT DEF AckNow, Reached, Target, CommandsTaken, KitServes, ToStart, ToStop, ToUpdate

LEMMA ClearCmdAck ==
  ASSUME MaxWrites \in Nat, TypeInv, writes \in Nat, AckInv, ClearCmd
  PROVE  AckInv'
<1> SUFFICES ASSUME polite, ~local, AckNow PROVE AckNow'
  BY ClearCmdFields DEF AckInv
<1>1. CommandsTaken
  BY DEF TypeInv
<1> QED
  BY <1>1, ClearCmdFields, AckNumbers, SMT DEF AckNow, Reached, Target, CommandsTaken, KitServes

LEMMA KitReadFlagsAck ==
  ASSUME MaxWrites \in Nat, TypeInv, writes \in Nat, AckInv, KitReadFlags
  PROVE  AckInv'
<1> SUFFICES ASSUME polite, ~local, AckNow PROVE AckNow'
  BY KitReadFlagsFields DEF AckInv
<1>1. CommandsTaken
  BY DEF TypeInv
<1> QED
  BY <1>1, KitReadFlagsFields, AckNumbers, SMT DEF AckNow, Reached, Target, CommandsTaken, KitServes

LEMMA KitReadValuesAck ==
  ASSUME MaxWrites \in Nat, TypeInv, writes \in Nat, AckInv, KitReadValues
  PROVE  AckInv'
<1> SUFFICES ASSUME polite, ~local, AckNow PROVE AckNow'
  BY KitReadValuesFields DEF AckInv
<1>1. CommandsTaken
  BY DEF TypeInv
<1> QED
  BY <1>1, KitReadValuesFields, AckNumbers, SMT DEF AckNow, Reached, Target, CommandsTaken, KitServes, KitToStart, KitToStop, KitToUpdate

LEMMA KitFixResAck ==
  ASSUME MaxWrites \in Nat, TypeInv, writes \in Nat, AckInv, KitFixRes
  PROVE  AckInv'
<1> SUFFICES ASSUME polite, ~local, AckNow PROVE AckNow'
  BY KitFixResFields DEF AckInv
<1>1. CommandsTaken
  BY DEF TypeInv
<1> QED
  BY <1>1, KitFixResFields, AckNumbers, SMT DEF AckNow, Reached, Target, CommandsTaken, KitServes, KitToStart, KitToStop, KitToUpdate

LEMMA KitStartedAck ==
  ASSUME MaxWrites \in Nat, TypeInv, writes \in Nat, AckInv, KitStarted
  PROVE  AckInv'
<1> SUFFICES ASSUME polite, ~local, AckNow PROVE AckNow'
  BY KitStartedFields DEF AckInv
<1>1. CommandsTaken
  BY DEF TypeInv
<1> QED
  BY <1>1, KitStartedFields, AckNumbers, SMT DEF AckNow, Reached, Target, CommandsTaken, KitServes, KitToStart, KitToStop, KitToUpdate

LEMMA KitStoppedAck ==
  ASSUME MaxWrites \in Nat, TypeInv, writes \in Nat, AckInv, KitStopped
  PROVE  AckInv'
<1> SUFFICES ASSUME polite, ~local, AckNow PROVE AckNow'
  BY KitStoppedFields DEF AckInv
<1>1. CommandsTaken
  BY DEF TypeInv
<1> QED
  BY <1>1, KitStoppedFields, AckNumbers, SMT DEF AckNow, Reached, Target, CommandsTaken, KitServes, KitToStart, KitToStop, KitToUpdate

LEMMA KitUpdatedAck ==
  ASSUME MaxWrites \in Nat, TypeInv, writes \in Nat, AckInv, KitUpdated
  PROVE  AckInv'
<1> SUFFICES ASSUME polite, ~local, AckNow PROVE AckNow'
  BY KitUpdatedFields DEF AckInv
<1>1. CommandsTaken
  BY DEF TypeInv
<1> QED
  BY <1>1, KitUpdatedFields, AckNumbers, SMT DEF AckNow, Reached, Target, CommandsTaken, KitServes

LEMMA KitStartAck ==
  ASSUME MaxWrites \in Nat, TypeInv, writes \in Nat, AckInv, KitStart
  PROVE  AckInv'
<1> SUFFICES ASSUME polite, ~local, AckNow PROVE AckNow'
  BY KitStartFields DEF AckInv
<1>1. CommandsTaken
  BY DEF TypeInv
<1> QED
  BY <1>1, KitStartFields, AckNumbers, SMT DEF AckNow, Reached, Target, CommandsTaken, KitServes

LEMMA KitStopAck ==
  ASSUME MaxWrites \in Nat, TypeInv, writes \in Nat, AckInv, KitStop
  PROVE  AckInv'
<1> SUFFICES ASSUME polite, ~local, AckNow PROVE AckNow'
  BY KitStopFields DEF AckInv
<1>1. CommandsTaken
  BY DEF TypeInv
<1> QED
  BY <1>1, KitStopFields, AckNumbers, SMT DEF AckNow, Reached, Target, CommandsTaken, KitServes

LEMMA KitUpdateAck ==
  ASSUME MaxWrites \in Nat, TypeInv, writes \in Nat, AckInv, KitUpdate
  PROVE  AckInv'
<1> SUFFICES ASSUME polite, ~local, AckNow PROVE AckNow'
  BY KitUpdateFields DEF AckInv
<1>1. CommandsTaken
  BY DEF TypeInv
<1> QED
  BY <1>1, KitUpdateFields, AckNumbers, SMT DEF AckNow, Reached, Target, CommandsTaken, KitServes

(* A value is written: no command changes.                                 *)
LEMMA SetValueAck ==
  ASSUME MaxWrites \in Nat, TypeInv, writes \in Nat, AckInv, SetValue
  PROVE  AckInv'
<1>1. Written /\ UNCHANGED <<last, asked>>
  BY SetValueFields
<1>2. proxy'.cmd = proxy.cmd /\ kit'.cmd = kit.cmd
  BY SetValueFields DEF PutValue, Written
<1> QED
  BY <1>1, <1>2 DEF AckInv, AckNow, Reached, Target, Written

(* A command is written: polite, the operator waited for 0000.             *)
LEMMA CommandAck ==
  ASSUME MaxWrites \in Nat, TypeInv, writes \in Nat, AckInv, Command
  PROVE  AckInv'
<1> SUFFICES ASSUME polite, ~local, AckNow PROVE AckNow'
  BY CommandFields DEF AckInv, Written
<1>1. Written
  BY CommandFields
<1>2. PICK f \in Flag : /\ IF direct THEN PutFlag(kit', kit, f, writes + 1)
                                     ELSE PutFlag(proxy', proxy, f, writes + 1)
                        /\ f = "cmd" /\ polite => Target.cmd = 0
                        /\ last'.update = IF f = "cmd" THEN writes + 1 ELSE last.update
  BY CommandFields
<1>3. CASE direct
  <2>1. kpc = "sleep" /\ pc = "ended"
    BY <1>1, <1>3, SMT DEF Written, Serves, KitServes, TypeInv, CommandsTaken
  <2>2. kit'.cmd = IF f = "cmd" THEN writes + 1 ELSE kit.cmd
    BY <1>2, <1>3 DEF PutFlag
  <2> QED
    BY <1>1, <1>2, <1>3, <2>1, <2>2, AckNumbers, SMT DEF AckNow, Reached, Target, Written
<1>4. CASE ~direct
  <2>1. kit' = kit
    BY <1>1, <1>4 DEF Written
  <2>2. proxy'.cmd = IF f = "cmd" THEN writes + 1 ELSE proxy.cmd
    BY <1>2, <1>4 DEF PutFlag
  <2> QED
    BY <1>1, <1>2, <1>4, <2>1, <2>2, AckNumbers, SMT DEF AckNow, Reached, Target, Written
<1> QED
  BY <1>3, <1>4

(* No step acknowledges an update that did not reach the video kit.        *)
LEMMA AckStep ==
  ASSUME MaxWrites \in Nat, TypeInv, AckInv, [Next]_vars
  PROVE  AckInv'
<1>1. writes \in Nat
  BY Numbers, SMT
<1>2. CASE SetValue
  BY <1>1, <1>2, SetValueAck
<1>3. CASE Command
  BY <1>1, <1>3, CommandAck
<1>4. CASE Connect
  BY <1>1, <1>4, ConnectAck
<1>5. CASE ReadFlags
  BY <1>1, <1>5, ReadFlagsAck
<1>6. CASE ReadQuality
  BY <1>1, <1>6, ReadQualityAck
<1>7. CASE FixQuality
  BY <1>1, <1>7, FixQualityAck
<1>8. CASE ReadRes
  BY <1>1, <1>8, ReadResAck
<1>9. CASE FixRes
  BY <1>1, <1>9, FixResAck
<1>10. CASE SendIp
  BY <1>1, <1>10, SendIpAck
<1>11. CASE SendStart
  BY <1>1, <1>11, SendStartAck
<1>12. CASE SendStop
  BY <1>1, <1>12, SendStopAck
<1>13. CASE SendQuality
  BY <1>1, <1>13, SendQualityAck
<1>14. CASE SendRes
  BY <1>1, <1>14, SendResAck
<1>15. CASE SendCmd
  BY <1>1, <1>15, SendCmdAck
<1>16. CASE ClearStart
  BY <1>1, <1>16, ClearStartAck
<1>17. CASE ClearStop
  BY <1>1, <1>17, ClearStopAck
<1>18. CASE ClearCmd
  BY <1>1, <1>18, ClearCmdAck
<1>19. CASE KitReadFlags
  BY <1>1, <1>19, KitReadFlagsAck
<1>20. CASE KitReadValues
  BY <1>1, <1>20, KitReadValuesAck
<1>21. CASE KitFixRes
  BY <1>1, <1>21, KitFixResAck
<1>22. CASE KitStarted
  BY <1>1, <1>22, KitStartedAck
<1>23. CASE KitStopped
  BY <1>1, <1>23, KitStoppedAck
<1>24. CASE KitUpdated
  BY <1>1, <1>24, KitUpdatedAck
<1>25. CASE KitStart
  BY <1>1, <1>25, KitStartAck
<1>26. CASE KitStop
  BY <1>1, <1>26, KitStopAck
<1>27. CASE KitUpdate
  BY <1>1, <1>27, KitUpdateAck
<1>28. CASE ConnectionLost
  BY <1>28 DEF ConnectionLost, others, mode, AckInv, AckNow,
         Reached, Target
<1>29. CASE UNCHANGED vars
  BY <1>29 DEF vars, mode, AckInv, AckNow,
         Reached, Target
<1> QED
  BY <1>2, <1>3, <1>4, <1>5, <1>6, <1>7, <1>8, <1>9, <1>10, <1>11, <1>12, <1>13, <1>14, <1>15, <1>16, <1>17, <1>18, <1>19, <1>20, <1>21, <1>22, <1>23, <1>24, <1>25, <1>26, <1>27, <1>28, <1>29
     DEF Next, Operator, Proxy, Kit, Sends, Clears

-----------------------------------------------------------------------------
(* The invariants of every behaviour.                                      *)
LEMMA FirstState ==
  ASSUME MaxWrites \in Nat, Init
  PROVE  StreamInv /\ ValidInv /\ UpdateInv /\ AckInv
<1>1. 0 >= 0 /\ 0 <= 0
  BY SMT
<1>2. /\ Default.ver = 0 /\ Default.valid
      /\ Fresh.start = 0 /\ Fresh.cmd = 0
      /\ Fresh.ip = Default /\ Fresh.quality = Default /\ Fresh.res = Default
  BY DEF Default, Fresh
<1>3. /\ proxy = Fresh /\ kit = Fresh /\ snap = Fresh /\ ksnap = Fresh
      /\ pc \in {"connect", "ended"} /\ kpc = "sleep"
      /\ camera.quality = Default /\ camera.res = Default /\ camera.by = 0
      /\ ~stream.on /\ last.update = 0
  BY DEF Init
<1>4. StreamInv
  BY <1>1, <1>2, <1>3 DEF StreamInv, New
<1>5. ValidInv
  BY <1>2, <1>3 DEF ValidInv
<1>6. ProxyNew /\ KitNew /\ Copied /\ CameraNew
  BY <1>1, <1>2, <1>3, SMT DEF ProxyNew, KitNew, Copied, CameraNew, New
<1>7. AckNow
  BY <1>1, <1>2, <1>3, SMT DEF AckNow, Reached, Target
<1> QED
  BY <1>4, <1>5, <1>6, <1>7 DEF UpdateInv, AckInv

Inv == TypeInv /\ StreamInv /\ ValidInv /\ UpdateInv /\ AckInv

THEOREM Invariant ==
  ASSUME MaxWrites \in Nat
  PROVE  Spec => []Inv
<1>1. Init => Inv
  BY TypeInit, FirstState DEF Inv
<1>2. Inv /\ [Next]_vars => Inv'
  BY TypeStep, StreamStep, ValidStep, UpdateStep, AckStep DEF Inv
<1> QED
  BY <1>1, <1>2, PTL DEF Spec

(* The types; neither loop forwards or executes what was not commanded.    *)
THEOREM TypesCorrect ==
  ASSUME MaxWrites \in Nat
  PROVE  Spec => []TypeOK
<1>1. ASSUME Inv PROVE TypeOK
  <2>1. TypeInv /\ writes \in Number
    BY <1>1 DEF Inv, TypeInv, StateType
  <2>2. UpTo(writes) \subseteq Number
    BY <2>1, SMT DEF UpTo, Number
  <2>3. ValuesTo(writes) \subseteq Values
    BY <2>2 DEF ValuesTo, Values
  <2>4. NodesTo(writes) \subseteq Nodes
    BY <2>2, <2>3 DEF NodesTo, Nodes
  <2>5. proxy \in Nodes /\ kit \in Nodes /\ snap \in Nodes /\ ksnap \in Nodes
    BY <2>1, <2>4 DEF TypeInv, NodeType
  <2>6. /\ camera \in [quality : Values, res : Values, by : Number]
        /\ stream \in [on : BOOLEAN, ip : Values, by : Number]
    BY <2>1, <2>2, <2>3 DEF TypeInv, OutType
  <2>7. /\ last \in [update : Number, stream : Number]
        /\ asked \in [1 .. MaxWrites -> [Value -> Number]]
    BY <2>1, <2>2 DEF TypeInv, StateType
  <2> QED
    BY <2>1, <2>5, <2>6, <2>7 DEF TypeOK, TypeInv, CommandsTaken
<1> QED
  BY <1>1, Invariant, PTL

(* The camera never gets values older than those the operator saw when he  *)
(* gave the command.                                                       *)
THEOREM UpdateCorrect ==
  ASSUME MaxWrites \in Nat
  PROVE  Spec => []UpdateFresh
<1>1. Inv => UpdateFresh
  BY DEF Inv, UpdateInv, CameraNew, New, UpdateFresh
<1> QED
  BY <1>1, Invariant, PTL

(* The stream never goes to an address older than that of its command.     *)
THEOREM StreamCorrect ==
  ASSUME MaxWrites \in Nat
  PROVE  Spec => []StreamFresh
<1>1. Inv => StreamFresh
  BY DEF Inv, StreamInv, New, StreamFresh
<1> QED
  BY <1>1, Invariant, PTL

(* The camera never gets a resolution it does not have.                    *)
THEOREM ResolutionCorrect ==
  ASSUME MaxWrites \in Nat
  PROVE  Spec => []ResolutionValid
<1>1. Inv => ResolutionValid
  BY DEF Inv, ValidInv, ResolutionValid
<1> QED
  BY <1>1, Invariant, PTL

(* To an operator who waits for it, 0000 says that his update reached the  *)
(* video kit.                                                              *)
THEOREM AcknowledgedCorrect ==
  ASSUME MaxWrites \in Nat
  PROVE  Spec => []Acknowledged
<1>1. Inv => Acknowledged
  BY DEF Inv, AckInv, AckNow, Reached, Acknowledged
<1> QED
  BY <1>1, Invariant, PTL

-----------------------------------------------------------------------------
(* The stepper motor's server: every start moves the motor once, by values *)
(* as new as the client saw, and none is reset that was not carried out.   *)
(* The inductive invariant.                                                *)

(* Types, with all numbers up to the number of writes so far.              *)
Data        == (UNION {Inputs[v] : v \in Stepper!Value}) \union {Stepper!default[v] : v \in Stepper!Value}
MotorValuesTo(n) == [ver : 0 .. n, is : Data]
MotorNodesTo(n)  == [start : 0 .. n, value : [Stepper!Value -> MotorValuesTo(n)]]

Reading  == {"dir", "revolutions", "rotation", "correct"}
Resetting == {"resetRotation", "resetRevolutions", "resetStart"}

MotorTypeInv ==
    /\ local \in BOOLEAN /\ polite \in BOOLEAN
    /\ given \in 0 .. MaxWrites
    /\ spc \in {"sleep", "run"} \union Reading \union Resetting
    /\ nodes \in MotorNodesTo(given) /\ copy \in MotorNodesTo(given)
    /\ run.by \in 0 .. given
    /\ wanted \in [1 .. MaxWrites -> [Stepper!Value -> 0 .. MaxWrites]]
    /\ spc = "run" => copy.start # 0

(* A start that was carried out is not read again: it is reset before the  *)
(* loop sleeps, and the next one has another number.                       *)
OnceInv ==
    spc \notin Resetting =>
        /\ nodes.start # 0 => nodes.start # run.by
        /\ spc # "sleep" /\ copy.start # 0 => copy.start # run.by

(* Values w are as new as those seen at start n.                           *)
MotorNew(n, w) == n # 0 => \A v \in Stepper!Value : w[v].ver >= wanted[n][v]

(* While nobody is served the copy becomes, node by node, what the nodes   *)
(* hold.                                                                   *)
FreshInv ==
    ~local =>
        /\ spc \notin Resetting => MotorNew(nodes.start, nodes.value)
        /\ spc # "sleep" => copy.start = nodes.start
        /\ spc \in {"revolutions", "rotation", "correct", "run"} =>
               copy.value["dir"] = nodes.value["dir"]
        /\ spc \in {"rotation", "correct", "run"} =>
               copy.value["revolutions"] = nodes.value["revolutions"]
        /\ spc \in {"correct", "run"} => copy.value["rotation"] = nodes.value["rotation"]
        /\ run.by # 0 => \A v \in Stepper!Value : run.ver[v] >= wanted[run.by][v]
        /\ spc \in Resetting => run.by = nodes.start

MotorInv == MotorTypeInv /\ OnceInv /\ FreshInv

-----------------------------------------------------------------------------
(* Operators of the model.                                                 *)

LEMMA StartSet ==
    ASSUME NEW n \in Nat, NEW r \in MotorNodesTo(n), NEW x \in 0 .. n
    PROVE  /\ [r EXCEPT !.start = x] \in MotorNodesTo(n)
           /\ [r EXCEPT !.start = x].start = x
           /\ [r EXCEPT !.start = x].value = r.value
BY DEF MotorNodesTo

LEMMA MotorValueSet ==
    ASSUME NEW n \in Nat, NEW r \in MotorNodesTo(n), NEW v \in Stepper!Value, NEW x \in MotorValuesTo(n)
    PROVE  /\ [r EXCEPT !.value[v] = x] \in MotorNodesTo(n)
           /\ [r EXCEPT !.value[v] = x].start = r.start
           /\ \A u \in Stepper!Value : [r EXCEPT !.value[v] = x].value[u]
                                 = IF u = v THEN x ELSE r.value[u]
BY DEF MotorNodesTo

(* The numbers up to n are up to n + 1.                                    *)
LEMMA MotorLater ==
    ASSUME NEW n \in Nat
    PROVE  /\ 0 .. n \subseteq 0 .. n + 1 /\ MotorNodesTo(n) \subseteq MotorNodesTo(n + 1)
<1>1. 0 .. n \subseteq 0 .. n + 1
  BY SMT
<1>2. MotorValuesTo(n) \subseteq MotorValuesTo(n + 1)
  BY <1>1 DEF MotorValuesTo
<1>3. [Stepper!Value -> MotorValuesTo(n)] \subseteq [Stepper!Value -> MotorValuesTo(n + 1)]
  BY <1>2
<1> QED
  BY <1>1, <1>3 DEF MotorNodesTo

(* A default is among the data, and the value to correct is one of the     *)
(* three.                                                                  *)
LEMMA Defaults ==
    /\ \A v \in Stepper!Value : Stepper!default[v] \in Data
    /\ \A n \in Nat, v \in Stepper!Value : [ver |-> 0, is |-> Stepper!default[v]] \in MotorValuesTo(n)
    /\ Stepper!First \in Stepper!Value
<1>1. \A v \in Stepper!Value : Stepper!default[v] \in Data
  BY DEF Data
<1>2. \A n \in Nat : 0 \in 0 .. n
  BY SMT
<1> QED
  BY <1>1, <1>2 DEF MotorValuesTo, Stepper!First, Stepper!Value

-----------------------------------------------------------------------------
(* The steps.                                                              *)

(* A client writes a value or gives a start.                               *)
LEMMA WriteFields ==
    ASSUME MaxWrites \in Nat, MotorInv, given \in Nat, Stepper!Write
    PROVE  /\ Stepper!Serves /\ given + 1 \in 1 .. MaxWrites /\ given' = given + 1
           /\ UNCHANGED <<local, polite, copy, spc, run>>
           /\ nodes' \in MotorNodesTo(given + 1)
           /\ \/ /\ \E v \in Stepper!Value : \E x \in MotorValuesTo(given + 1) :
                      /\ x.ver = given + 1
                      /\ \A u \in Stepper!Value : nodes'.value[u] = IF u = v THEN x ELSE nodes.value[u]
                 /\ nodes'.start = nodes.start /\ wanted' = wanted
              \/ /\ nodes'.start = given + 1 /\ nodes'.value = nodes.value
                 /\ wanted' = [wanted EXCEPT ![given + 1] =
                                   [v \in Stepper!Value |-> nodes.value[v].ver]]
<1>1. /\ Stepper!Serves /\ given + 1 \in 1 .. MaxWrites /\ given' = given + 1
      /\ UNCHANGED <<local, polite, copy, spc, run>>
  BY SMT DEF Stepper!Write
<1>2. nodes \in MotorNodesTo(given + 1) /\ given + 1 \in Nat
  BY MotorLater, SMT DEF MotorInv, MotorTypeInv
<1>3. CASE /\ \E v \in Stepper!Value : \E x \in Inputs[v] :
                  nodes' = [nodes EXCEPT !.value[v] = [ver |-> given + 1, is |-> x]]
           /\ wanted' = wanted
  <2>0. PICK v \in Stepper!Value : \E x \in Inputs[v] :
               nodes' = [nodes EXCEPT !.value[v] = [ver |-> given + 1, is |-> x]]
    BY <1>3
  <2>1. PICK y \in Inputs[v] :
          nodes' = [nodes EXCEPT !.value[v] = [ver |-> given + 1, is |-> y]]
    BY <2>0
  <2> DEFINE x == [ver |-> given + 1, is |-> y]
  <2>2. x \in MotorValuesTo(given + 1) /\ x.ver = given + 1
    <3>1. y \in Data
      BY <2>1 DEF Data
    <3>2. given + 1 \in 0 .. given + 1
      BY SMT
    <3> QED
      BY <3>1, <3>2 DEF MotorValuesTo
  <2> HIDE DEF x
  <2>3. nodes' = [nodes EXCEPT !.value[v] = x]
    BY <2>1 DEF x
  <2>4. /\ nodes' \in MotorNodesTo(given + 1) /\ nodes'.start = nodes.start
        /\ \A u \in Stepper!Value : nodes'.value[u] = IF u = v THEN x ELSE nodes.value[u]
    BY <1>2, <2>2, <2>3, MotorValueSet
  <2>5. \E z \in MotorValuesTo(given + 1) :
          /\ z.ver = given + 1
          /\ \A u \in Stepper!Value : nodes'.value[u] = IF u = v THEN z ELSE nodes.value[u]
    BY <2>2, <2>4
  <2> QED
    BY <1>1, <1>3, <2>4, <2>5
<1>4. CASE /\ nodes' = [nodes EXCEPT !.start = given + 1]
           /\ wanted' = [wanted EXCEPT ![given + 1] = [v \in Stepper!Value |-> nodes.value[v].ver]]
  <2>1. given + 1 \in 0 .. given + 1
    BY SMT
  <2> QED
    BY <1>1, <1>2, <1>4, <2>1, StartSet
<1> QED
  BY <1>3, <1>4 DEF Stepper!Write

(* The loop copies a value of the nodes.                                   *)
LEMMA ReadFields ==
    ASSUME MaxWrites \in Nat, MotorInv, given \in Nat, NEW at, NEW next, NEW v \in Stepper!Value,
           Stepper!Read(at, v, next)
    PROVE  /\ spc = at /\ spc' = next
           /\ UNCHANGED <<local, polite, nodes, run, given, wanted>>
           /\ copy' \in MotorNodesTo(given) /\ copy'.start = copy.start
           /\ \A u \in Stepper!Value : copy'.value[u] = IF u = v THEN nodes.value[v] ELSE copy.value[u]
<1>1. nodes.value[v] \in MotorValuesTo(given)
  BY DEF MotorInv, MotorTypeInv, MotorNodesTo
<1>2. copy \in MotorNodesTo(given)
  BY DEF MotorInv, MotorTypeInv
<1> DEFINE x == nodes.value[v]
<1>3. copy' = [copy EXCEPT !.value[v] = x]
  BY DEF Stepper!Read
<1>4. x \in MotorValuesTo(given)
  BY <1>1
<1> HIDE DEF x
<1>5. /\ copy' \in MotorNodesTo(given) /\ copy'.start = copy.start
      /\ \A u \in Stepper!Value : copy'.value[u] = IF u = v THEN x ELSE copy.value[u]
  BY <1>2, <1>3, <1>4, MotorValueSet
<1> QED
  BY <1>5 DEF Stepper!Read, x

(* It corrects a value, in the nodes and in the copy.                      *)
LEMMA CorrectFields ==
    ASSUME MaxWrites \in Nat, MotorInv, given \in Nat, Stepper!Correct
    PROVE  /\ spc = "correct" /\ spc' = "correct"
           /\ UNCHANGED <<local, polite, run, given, wanted>>
           /\ nodes' \in MotorNodesTo(given) /\ copy' \in MotorNodesTo(given)
           /\ nodes'.start = nodes.start /\ copy'.start = copy.start
           /\ \E f \in Stepper!Value, x \in MotorValuesTo(given) :
                /\ x.ver = copy.value[f].ver
                /\ \A u \in Stepper!Value :
                     /\ nodes'.value[u] = IF u = f THEN x ELSE nodes.value[u]
                     /\ copy'.value[u] = IF u = f THEN x ELSE copy.value[u]
<1> DEFINE f == Stepper!First
           x == [copy.value[f] EXCEPT !.is = Stepper!default[f]]
<1>1. nodes \in MotorNodesTo(given) /\ copy \in MotorNodesTo(given)
  BY DEF MotorInv, MotorTypeInv
<1>2. f \in Stepper!Value /\ Stepper!default[f] \in Data
  BY Defaults
<1>3. /\ nodes' = [nodes EXCEPT !.value[f] = x]
      /\ copy' = [copy EXCEPT !.value[f].is = Stepper!default[f]]
      /\ spc = "correct" /\ spc' = "correct"
      /\ UNCHANGED <<local, polite, run, given, wanted>>
  BY DEF Stepper!Correct
<1> HIDE DEF f
<1>4. copy.value[f] \in MotorValuesTo(given)
  BY <1>1, <1>2 DEF MotorNodesTo
<1>5. x \in MotorValuesTo(given) /\ x.ver = copy.value[f].ver
  BY <1>2, <1>4 DEF MotorValuesTo
<1>6. copy' = [copy EXCEPT !.value[f] = x]
  <2>1. [copy EXCEPT !.value[f].is = Stepper!default[f]] = [copy EXCEPT !.value[f] = x]
    BY <1>1, <1>2, SMT DEF MotorNodesTo
  <2> QED
    BY <1>3, <2>1
<1> HIDE DEF x
<1>7. /\ nodes' \in MotorNodesTo(given) /\ nodes'.start = nodes.start
      /\ \A u \in Stepper!Value : nodes'.value[u] = IF u = f THEN x ELSE nodes.value[u]
  BY <1>1, <1>2, <1>3, <1>5, MotorValueSet
<1>8. /\ copy' \in MotorNodesTo(given) /\ copy'.start = copy.start
      /\ \A u \in Stepper!Value : copy'.value[u] = IF u = f THEN x ELSE copy.value[u]
  BY <1>1, <1>2, <1>5, <1>6, MotorValueSet
<1> QED
  BY <1>2, <1>3, <1>5, <1>7, <1>8

(* It runs the motor: the versions are those of the copy.                  *)
LEMMA RunFields ==
    ASSUME Stepper!RunMotor
    PROVE  /\ spc = "run" /\ spc' = "resetRotation"
           /\ run'.by = copy.start /\ \A v \in Stepper!Value : run'.ver[v] = copy.value[v].ver
           /\ UNCHANGED <<local, polite, nodes, copy, given, wanted>>
BY DEF Stepper!RunMotor

(* It resets a value.                                                      *)
LEMMA ResetFields ==
    ASSUME MaxWrites \in Nat, MotorInv, given \in Nat, NEW v \in Stepper!Value, Stepper!Reset(v)
    PROVE  nodes' \in MotorNodesTo(given) /\ nodes'.start = nodes.start
<1>1. nodes \in MotorNodesTo(given)
  BY DEF MotorInv, MotorTypeInv
<1>2. [ver |-> 0, is |-> Stepper!default[v]] \in MotorValuesTo(given)
  BY Defaults
<1> DEFINE x == [ver |-> 0, is |-> Stepper!default[v]]
<1>3. nodes' = [nodes EXCEPT !.value[v] = x] /\ x \in MotorValuesTo(given)
  BY <1>2 DEF Stepper!Reset
<1> HIDE DEF x
<1> QED
  BY <1>1, <1>3, MotorValueSet

-----------------------------------------------------------------------------
(* The invariant.                                                          *)

LEMMA MotorTypeStep ==
    ASSUME MaxWrites \in Nat, MotorInv, [Stepper!Next]_(Stepper!vars)
    PROVE  MotorTypeInv'
<1>1. given \in Nat /\ 0 \in 0 .. given
  BY SMT DEF MotorInv, MotorTypeInv
<1>2. nodes \in MotorNodesTo(given) /\ copy \in MotorNodesTo(given)
  BY DEF MotorInv, MotorTypeInv
<1>3. nodes.start \in 0 .. given /\ copy.start \in 0 .. given
  BY <1>2 DEF MotorNodesTo
<1>4. CASE Stepper!Write
  <2>1. /\ given + 1 \in 1 .. MaxWrites /\ given' = given + 1
        /\ UNCHANGED <<local, polite, copy, spc, run>>
        /\ nodes' \in MotorNodesTo(given + 1)
    BY <1>1, <1>4, WriteFields
  <2>2. copy' \in MotorNodesTo(given') /\ run'.by \in 0 .. given'
    BY <1>1, <1>2, <2>1, MotorLater DEF MotorInv, MotorTypeInv
  <2>3. given' \in 0 .. MaxWrites
    BY <1>1, <2>1, SMT
  <2>4. wanted' \in [1 .. MaxWrites -> [Stepper!Value -> 0 .. MaxWrites]]
    <3>1. \A v \in Stepper!Value : nodes.value[v].ver \in 0 .. given
      BY <1>2 DEF MotorNodesTo, MotorValuesTo
    <3>2. 0 .. given \subseteq 0 .. MaxWrites
      BY <1>1, <2>1, SMT
    <3>3. [v \in Stepper!Value |-> nodes.value[v].ver] \in [Stepper!Value -> 0 .. MaxWrites]
      BY <3>1, <3>2
    <3>4. wanted \in [1 .. MaxWrites -> [Stepper!Value -> 0 .. MaxWrites]]
      BY DEF MotorInv, MotorTypeInv
    <3>5. wanted' = wanted \/ wanted' = [wanted EXCEPT ![given + 1] =
                                             [v \in Stepper!Value |-> nodes.value[v].ver]]
      BY <1>1, <1>4, WriteFields
    <3> QED
      BY <2>1, <3>3, <3>4, <3>5
  <2> QED
    BY <2>1, <2>2, <2>3, <2>4 DEF MotorInv, MotorTypeInv
<1>5. CASE Stepper!ReadStart
  <2>1. copy' \in MotorNodesTo(given)
    BY <1>1, <1>2, <1>3, <1>5, StartSet DEF Stepper!ReadStart
  <2> QED
    BY <1>5, <2>1, SMT DEF Stepper!ReadStart, MotorInv, MotorTypeInv, Reading
<1>6. CASE Stepper!ReadDir
  BY <1>1, <1>6, ReadFields DEF Stepper!ReadDir, Stepper!Value, MotorInv, MotorTypeInv, Reading
<1>7. CASE Stepper!ReadRevolutions
  BY <1>1, <1>7, ReadFields DEF Stepper!ReadRevolutions, Stepper!Value, MotorInv, MotorTypeInv, Reading
<1>8. CASE Stepper!ReadRotation
  BY <1>1, <1>8, ReadFields DEF Stepper!ReadRotation, Stepper!Value, MotorInv, MotorTypeInv, Reading
<1>9. CASE Stepper!Correct
  BY <1>1, <1>9, CorrectFields DEF MotorInv, MotorTypeInv
<1>10. CASE Stepper!Decide
  BY <1>10, SMT DEF Stepper!Decide, MotorInv, MotorTypeInv
<1>11. CASE Stepper!RunMotor
  BY <1>3, <1>11, RunFields DEF MotorInv, MotorTypeInv, Resetting
<1>12. CASE Stepper!ResetRotation
  BY <1>1, <1>12, ResetFields DEF Stepper!ResetRotation, Stepper!Value, MotorInv, MotorTypeInv, Resetting
<1>13. CASE Stepper!ResetRevolutions
  BY <1>1, <1>13, ResetFields DEF Stepper!ResetRevolutions, Stepper!Value, MotorInv, MotorTypeInv, Resetting
<1>14. CASE Stepper!ResetStart
  <2>1. nodes' \in MotorNodesTo(given)
    BY <1>1, <1>2, <1>14, StartSet DEF Stepper!ResetStart
  <2> QED
    BY <1>14, <2>1 DEF Stepper!ResetStart, MotorInv, MotorTypeInv
<1>15. CASE UNCHANGED Stepper!vars
  BY <1>15 DEF Stepper!vars, MotorInv, MotorTypeInv
<1> QED
  BY <1>4, <1>5, <1>6, <1>7, <1>8, <1>9, <1>10, <1>11, <1>12, <1>13, <1>14, <1>15
     DEF Stepper!Next, Stepper!Loop

(* No start is carried out twice.                                          *)
LEMMA OnceStep ==
    ASSUME MaxWrites \in Nat, MotorInv, [Stepper!Next]_(Stepper!vars)
    PROVE  OnceInv'
<1>1. given \in Nat
  BY SMT DEF MotorInv, MotorTypeInv
<1>2. nodes.start \in 0 .. given /\ copy.start \in 0 .. given /\ run.by \in 0 .. given
  BY DEF MotorInv, MotorTypeInv, MotorNodesTo
<1>3. OnceInv
  BY DEF MotorInv
<1>4. CASE Stepper!Write
  <2>1. given' = given + 1 /\ UNCHANGED <<copy, spc, run>>
        /\ nodes'.start \in {nodes.start, given + 1}
    BY <1>1, <1>4, WriteFields
  <2> QED
    BY <1>1, <1>2, <1>3, <2>1, SMT DEF OnceInv
<1>5. CASE Stepper!ReadStart
  <2>1. copy'.start = nodes.start
    BY <1>1, <1>2, <1>5, StartSet DEF Stepper!ReadStart, MotorInv, MotorTypeInv
  <2> QED
    BY <1>3, <1>5, <2>1 DEF Stepper!ReadStart, OnceInv, Resetting
<1>6. CASE Stepper!ReadDir
  BY <1>1, <1>3, <1>6, ReadFields DEF Stepper!ReadDir, Stepper!Value, OnceInv, Resetting
<1>7. CASE Stepper!ReadRevolutions
  BY <1>1, <1>3, <1>7, ReadFields DEF Stepper!ReadRevolutions, Stepper!Value, OnceInv, Resetting
<1>8. CASE Stepper!ReadRotation
  BY <1>1, <1>3, <1>8, ReadFields DEF Stepper!ReadRotation, Stepper!Value, OnceInv, Resetting
<1>9. CASE Stepper!Correct
  BY <1>1, <1>3, <1>9, CorrectFields DEF OnceInv
<1>10. CASE Stepper!Decide
  BY <1>3, <1>10 DEF Stepper!Decide, OnceInv, Resetting
<1>11. CASE Stepper!RunMotor
  BY <1>11, RunFields DEF OnceInv, Resetting
<1>12. CASE Stepper!ResetRotation
  BY <1>12 DEF Stepper!ResetRotation, OnceInv, Resetting
<1>13. CASE Stepper!ResetRevolutions
  BY <1>13 DEF Stepper!ResetRevolutions, OnceInv, Resetting
<1>14. CASE Stepper!ResetStart
  <2>1. nodes'.start = 0 /\ spc' = "sleep"
    BY <1>1, <1>14, StartSet DEF Stepper!ResetStart, MotorInv, MotorTypeInv
  <2> QED
    BY <2>1 DEF OnceInv
<1>15. CASE UNCHANGED Stepper!vars
  BY <1>3, <1>15 DEF Stepper!vars, OnceInv
<1> QED
  BY <1>4, <1>5, <1>6, <1>7, <1>8, <1>9, <1>10, <1>11, <1>12, <1>13, <1>14, <1>15
     DEF Stepper!Next, Stepper!Loop

(* Nothing is carried out that is older than its start.                    *)
LEMMA FreshStep ==
    ASSUME MaxWrites \in Nat, MotorInv, [Stepper!Next]_(Stepper!vars)
    PROVE  FreshInv'
<1>1. given \in 0 .. MaxWrites /\ given \in Nat
  BY SMT DEF MotorInv, MotorTypeInv
<1>2. nodes \in MotorNodesTo(given) /\ copy \in MotorNodesTo(given)
  BY DEF MotorInv, MotorTypeInv
<1>3. nodes.start \in 0 .. given /\ run.by \in 0 .. given
  BY <1>2 DEF MotorNodesTo, MotorInv, MotorTypeInv
<1>4. SUFFICES ASSUME ~local PROVE FreshInv'
  BY DEF FreshInv, Stepper!Next, Stepper!Loop, Stepper!vars, Stepper!Write, Stepper!ReadStart, Stepper!ReadDir, Stepper!ReadRevolutions, Stepper!ReadRotation,
         Stepper!Read, Stepper!Correct, Stepper!Decide, Stepper!RunMotor, Stepper!ResetRotation, Stepper!ResetRevolutions, Stepper!ResetStart
<1>5. FreshInv
  BY DEF MotorInv
<1>6. \A n \in 1 .. MaxWrites, v \in Stepper!Value : wanted[n][v] \in 0 .. MaxWrites
  BY DEF MotorInv, MotorTypeInv
<1>7. \A v \in Stepper!Value : nodes.value[v].ver \in 0 .. given
  BY <1>2 DEF MotorNodesTo, MotorValuesTo
<1>8. CASE Stepper!Write
  <2>1. /\ Stepper!Serves /\ given + 1 \in 1 .. MaxWrites
        /\ UNCHANGED <<local, copy, spc, run>>
    BY <1>1, <1>8, WriteFields
  <2>2. spc = "sleep" /\ spc' = "sleep"
    BY <1>4, <2>1 DEF Stepper!Serves
  <2>3. CASE /\ \E v \in Stepper!Value : \E x \in MotorValuesTo(given + 1) :
                  /\ x.ver = given + 1
                  /\ \A u \in Stepper!Value : nodes'.value[u] = IF u = v THEN x ELSE nodes.value[u]
             /\ nodes'.start = nodes.start /\ wanted' = wanted
    <3>1. \A u \in Stepper!Value : nodes'.value[u].ver \in {given + 1, nodes.value[u].ver}
      BY <2>3
    <3>2. MotorNew(nodes.start, nodes.value)
      BY <1>5, <1>4, <2>2 DEF FreshInv, Resetting
    <3>3. ASSUME nodes.start # 0, NEW u \in Stepper!Value
          PROVE  nodes'.value[u].ver >= wanted[nodes.start][u]
      <4>1. nodes.value[u].ver >= wanted[nodes.start][u] /\ nodes.value[u].ver \in 0 .. given
        BY <1>7, <3>2, <3>3 DEF MotorNew
      <4>2. wanted[nodes.start][u] \in 0 .. MaxWrites
        <5>1. nodes.start \in 1 .. MaxWrites
          BY <1>1, <1>3, <3>3, SMT
        <5> QED
          BY <5>1, <1>6
      <4>3. nodes'.value[u].ver \in {given + 1, nodes.value[u].ver}
        BY <3>1
      <4> QED
        BY <1>1, <4>1, <4>2, <4>3, SMT
    <3> QED
      BY <1>4, <1>5, <2>1, <2>2, <2>3, <3>3 DEF FreshInv, MotorNew, Reading, Resetting
  <2>4. CASE /\ nodes'.start = given + 1 /\ nodes'.value = nodes.value
             /\ wanted' = [wanted EXCEPT ![given + 1] = [v \in Stepper!Value |-> nodes.value[v].ver]]
    <3>1. \A v \in Stepper!Value : wanted'[given + 1][v] = nodes.value[v].ver
      BY <2>1, <2>4 DEF MotorInv, MotorTypeInv
    <3>2. \A v \in Stepper!Value : nodes.value[v].ver >= nodes.value[v].ver
      BY <1>7, SMT
    <3>3. run.by # 0 => wanted'[run.by] = wanted[run.by]
      <4>1. run.by # 0 => run.by # given + 1 /\ run.by \in 1 .. MaxWrites
        BY <1>1, <1>3, SMT
      <4> QED
        BY <4>1, <2>4 DEF MotorInv, MotorTypeInv
    <3> QED
      BY <1>4, <1>5, <2>1, <2>2, <2>4, <3>1, <3>2, <3>3 DEF FreshInv, MotorNew, Reading, Resetting
  <2> QED
    BY <1>1, <1>8, <2>3, <2>4, WriteFields
<1>9. CASE Stepper!ReadStart
  <2>1. copy'.start = nodes.start
    BY <1>1, <1>2, <1>3, <1>9, StartSet DEF Stepper!ReadStart
  <2> QED
    BY <1>4, <1>5, <1>9, <2>1 DEF Stepper!ReadStart, FreshInv, MotorNew, Resetting
<1>10. CASE Stepper!ReadDir
  <2>1. /\ spc' # "sleep" /\ UNCHANGED <<local, nodes, run, given, wanted>>
        /\ copy'.start = copy.start
        /\ \A u \in Stepper!Value : copy'.value[u] = IF u = "dir" THEN nodes.value["dir"]
                                                 ELSE copy.value[u]
    BY <1>1, <1>10, ReadFields DEF Stepper!ReadDir, Stepper!Value
  <2>2. copy'.value["dir"] = nodes.value["dir"]
        /\ copy'.value["revolutions"] = copy.value["revolutions"]
        /\ copy'.value["rotation"] = copy.value["rotation"]
    BY <2>1 DEF Stepper!Value
  <2> QED
    BY <1>4, <1>5, <1>10, <2>1, <2>2, SMT DEF Stepper!ReadDir, Stepper!Read, FreshInv, MotorNew, Resetting
<1>11. CASE Stepper!ReadRevolutions
  <2>1. /\ spc' # "sleep" /\ UNCHANGED <<local, nodes, run, given, wanted>>
        /\ copy'.start = copy.start
        /\ \A u \in Stepper!Value : copy'.value[u] = IF u = "revolutions" THEN nodes.value["revolutions"]
                                                 ELSE copy.value[u]
    BY <1>1, <1>11, ReadFields DEF Stepper!ReadRevolutions, Stepper!Value
  <2>2. copy'.value["dir"] = copy.value["dir"]
        /\ copy'.value["revolutions"] = nodes.value["revolutions"]
        /\ copy'.value["rotation"] = copy.value["rotation"]
    BY <2>1 DEF Stepper!Value
  <2> QED
    BY <1>4, <1>5, <1>11, <2>1, <2>2, SMT DEF Stepper!ReadRevolutions, Stepper!Read, FreshInv, MotorNew, Resetting
<1>12. CASE Stepper!ReadRotation
  <2>1. /\ spc' # "sleep" /\ UNCHANGED <<local, nodes, run, given, wanted>>
        /\ copy'.start = copy.start
        /\ \A u \in Stepper!Value : copy'.value[u] = IF u = "rotation" THEN nodes.value["rotation"]
                                                 ELSE copy.value[u]
    BY <1>1, <1>12, ReadFields DEF Stepper!ReadRotation, Stepper!Value
  <2>2. copy'.value["dir"] = copy.value["dir"]
        /\ copy'.value["revolutions"] = copy.value["revolutions"]
        /\ copy'.value["rotation"] = nodes.value["rotation"]
    BY <2>1 DEF Stepper!Value
  <2> QED
    BY <1>4, <1>5, <1>12, <2>1, <2>2, SMT DEF Stepper!ReadRotation, Stepper!Read, FreshInv, MotorNew, Resetting
<1>13. CASE Stepper!Correct
  <2>1. /\ spc = "correct" /\ spc' = "correct" /\ UNCHANGED <<local, run, given, wanted>>
        /\ nodes'.start = nodes.start /\ copy'.start = copy.start
    BY <1>1, <1>13, CorrectFields
  <2>2. PICK f \in Stepper!Value, x \in MotorValuesTo(given) :
           /\ x.ver = copy.value[f].ver
           /\ \A u \in Stepper!Value : /\ nodes'.value[u] = IF u = f THEN x ELSE nodes.value[u]
                               /\ copy'.value[u] = IF u = f THEN x ELSE copy.value[u]
    BY <1>1, <1>13, CorrectFields
  <2>3. \A u \in Stepper!Value : copy.value[u] = nodes.value[u]
    BY <1>4, <1>5, <2>1 DEF FreshInv, Stepper!Value
  <2>4. \A u \in Stepper!Value : copy'.value[u] = nodes'.value[u]
                         /\ nodes'.value[u].ver = nodes.value[u].ver
    BY <2>2, <2>3
  <2>5. MotorNew(nodes.start, nodes.value) /\ copy.start = nodes.start
    BY <1>4, <1>5, <2>1 DEF FreshInv, Resetting
  <2>6. nodes'.start # 0 => \A v \in Stepper!Value : nodes'.value[v].ver >= wanted'[nodes'.start][v]
    BY <2>1, <2>4, <2>5 DEF MotorNew
  <2>7. /\ copy'.value["dir"] = nodes'.value["dir"]
        /\ copy'.value["revolutions"] = nodes'.value["revolutions"]
        /\ copy'.value["rotation"] = nodes'.value["rotation"]
    BY <2>4 DEF Stepper!Value
  <2> QED
    BY <1>4, <1>5, <2>1, <2>5, <2>6, <2>7 DEF FreshInv, MotorNew, Resetting
<1>14. CASE Stepper!Decide
  BY <1>4, <1>5, <1>14, SMT DEF Stepper!Decide, FreshInv, MotorNew, Resetting
<1>15. CASE Stepper!RunMotor
  <2>1. /\ spc = "run" /\ spc' = "resetRotation" /\ UNCHANGED <<local, nodes, copy, given, wanted>>
        /\ run'.by = copy.start /\ \A v \in Stepper!Value : run'.ver[v] = copy.value[v].ver
    BY <1>15, RunFields
  <2>2. copy.start = nodes.start /\ MotorNew(nodes.start, nodes.value)
        /\ \A v \in Stepper!Value : copy.value[v] = nodes.value[v]
    BY <1>4, <1>5, <2>1 DEF FreshInv, Resetting, Stepper!Value
  <2>3. run'.by # 0 => \A v \in Stepper!Value : run'.ver[v] >= wanted'[run'.by][v]
    BY <2>1, <2>2 DEF MotorNew
  <2> QED
    BY <2>1, <2>2, <2>3 DEF FreshInv, Resetting
<1>16. CASE Stepper!ResetRotation
  <2>1. nodes'.start = nodes.start
    BY <1>1, <1>16, ResetFields DEF Stepper!ResetRotation, Stepper!Value
  <2> QED
    BY <1>4, <1>5, <1>16, <2>1 DEF Stepper!ResetRotation, FreshInv, Resetting
<1>17. CASE Stepper!ResetRevolutions
  <2>1. nodes'.start = nodes.start
    BY <1>1, <1>17, ResetFields DEF Stepper!ResetRevolutions, Stepper!Value
  <2> QED
    BY <1>4, <1>5, <1>17, <2>1 DEF Stepper!ResetRevolutions, FreshInv, Resetting
<1>18. CASE Stepper!ResetStart
  <2>1. nodes'.start = 0
    BY <1>1, <1>2, <1>18, StartSet DEF Stepper!ResetStart
  <2> QED
    BY <1>4, <1>5, <1>18, <2>1 DEF Stepper!ResetStart, FreshInv, MotorNew, Resetting
<1>19. CASE UNCHANGED Stepper!vars
  BY <1>5, <1>19 DEF Stepper!vars, FreshInv, MotorNew
<1> QED
  BY <1>8, <1>9, <1>10, <1>11, <1>12, <1>13, <1>14, <1>15, <1>16, <1>17, <1>18, <1>19
     DEF Stepper!Next, Stepper!Loop

LEMMA MotorFirstState ==
    ASSUME MaxWrites \in Nat, Stepper!Init
    PROVE  MotorInv
<1>1. 0 \in 0 .. 0 /\ 0 \in 0 .. MaxWrites /\ 0 \in Nat /\ 0 >= 0
  BY SMT
<1>2. Stepper!Fresh.start = 0 /\ \A v \in Stepper!Value : Stepper!Fresh.value[v].ver = 0
  BY DEF Stepper!Fresh
<1>3. Stepper!Fresh \in MotorNodesTo(0)
  BY <1>1, Defaults DEF Stepper!Fresh, MotorNodesTo
<1>4. run.by = 0 /\ spc = "sleep" /\ given = 0 /\ nodes = Stepper!Fresh /\ copy = Stepper!Fresh
  BY DEF Stepper!Init
<1>5. MotorTypeInv
  BY <1>1, <1>3, <1>4 DEF Stepper!Init, MotorTypeInv
<1>6. OnceInv /\ FreshInv
  BY <1>2, <1>4 DEF OnceInv, FreshInv, MotorNew, Reading, Resetting
<1> QED
  BY <1>5, <1>6 DEF MotorInv

(* Unless awaits on own nodes switch, a start moves the motor once and by  *)
(* the values the client had seen written, or newer ones, and no start is  *)
(* reset that was not carried out.  The fairness in Spec is not needed.     *)
THEOREM RunCorrect ==
    ASSUME MaxWrites \in Nat
    PROVE  Stepper!Init /\ [][Stepper!Next]_(Stepper!vars) => []Stepper!RunFresh
<1>1. Stepper!Init => MotorInv
  BY MotorFirstState
<1>2. MotorInv /\ [Stepper!Next]_(Stepper!vars) => MotorInv'
  BY MotorTypeStep, OnceStep, FreshStep DEF MotorInv
<1>3. MotorInv => Stepper!RunFresh
  BY DEF MotorInv, MotorTypeInv, OnceInv, FreshInv, Stepper!RunFresh, Resetting
<1> QED
  BY <1>1, <1>2, <1>3, PTL
=============================================================================
