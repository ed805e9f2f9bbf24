------------------------ MODULE MotorControl_proofs -------------------------
(***************************************************************************)
(* Theorems about MotorControl, for every set of motors and inputs, every  *)
(* depth of the topics and every number of inputs and restarts.            *)
(*                                                                         *)
(* The idea of the invariant: while a kind of message is in good, the last *)
(* message of that kind on its topic carries what the panel shows, and if  *)
(* there is none on its way the service has what the panel shows.  Taking  *)
(* the oldest message and forgetting the oldest ones keep that.            *)
(***************************************************************************)
EXTENDS MotorControl, SequenceTheorems, TLAPS

(* The messages of the three topics.                                       *)
CmdOps == {"start", "dir", "rpm"}
ReqOps == {"set_specs", "set_params", "apply", "get_all"}
Cmds  == {c \in [m : Motors, op : CmdOps, val : Int] : c.op # "rpm" => c.val \in {0, 1}}
Reqs  == [m : Motors, op : ReqOps, id : Nat, spec : Int, gain : Int, rpm : Int, steps : Int]
Resps == [m : Motors, id : Nat, spec : Int, gain : Int, rpm : Int, steps : Int]

(* The last message of a kind in q has v in its field f.                   *)
Is(x, m, op) == x.m = m /\ x.op = op
LastHas(q, m, op, f, v) ==
  \A i \in DOMAIN q :
    Is(q[i], m, op) /\ (\A j \in DOMAIN q : j > i => ~Is(q[j], m, op)) => q[i][f] = v

-----------------------------------------------------------------------------
(* Facts about queues.                                                     *)
LEMMA KindsDef ==
  ASSUME NEW q, NEW m, NEW op
  PROVE  <<m, op>> \in Kinds(q) <=> \E i \in DOMAIN q : Is(q[i], m, op)
BY DEF Kinds, Is

(* Newest keeps the end of a sequence.                                     *)
LEMMA NewestFacts ==
  ASSUME NEW S, NEW s \in Seq(S)
  PROVE  /\ Newest(s) \in Seq(S) /\ Len(Newest(s)) <= Depth
         /\ \E d \in Nat : /\ Len(s) = Len(Newest(s)) + d
                           /\ \A i \in 1 .. Len(Newest(s)) : Newest(s)[i] = s[i + d]
<1> DEFINE a == IF Len(s) > Depth THEN Len(s) - Depth + 1 ELSE 1
<1>1. /\ Len(s) \in Nat /\ Depth \in Nat /\ Depth > 0 /\ a \in Int /\ a >= 1 /\ a <= Len(s) + 1
      /\ \A i \in a .. Len(s) : s[i] \in S
  BY BoundAssumption
<1>2. /\ SubSeq(s, a, Len(s)) \in Seq(S)
      /\ Len(SubSeq(s, a, Len(s))) = IF a <= Len(s) THEN Len(s) - a + 1 ELSE 0
      /\ \A i \in 1 .. Len(s) - a + 1 : SubSeq(s, a, Len(s))[i] = s[a + i - 1]
  <2> HIDE DEF a
  <2> QED BY <1>1, SubSeqProperties
<1>3. Newest(s) = SubSeq(s, a, Len(s))
  BY DEF Newest
<1>4. Len(s) - (a - 1) <= Depth
  BY <1>1
<1> HIDE DEF a
<1>5. Len(Newest(s)) = Len(s) - (a - 1) /\ a - 1 \in Nat
  BY <1>1, <1>2, <1>3
<1>6. \A i \in 1 .. Len(Newest(s)) : Newest(s)[i] = s[i + (a - 1)]
  BY <1>1, <1>2, <1>3, <1>5
<1>7. Len(s) = Len(Newest(s)) + (a - 1)
  BY <1>1, <1>5
<1> QED
  BY <1>2, <1>3, <1>4, <1>5, <1>6, <1>7

(* A topic stays a topic of bounded length.                                *)
LEMMA DeliverType ==
  ASSUME NEW S, NEW q \in Seq(S), NEW msgs \in Seq(S), Len(q) <= Depth
  PROVE  Deliver(q, msgs) \in Seq(S) /\ Len(Deliver(q, msgs)) <= Depth
<1>1. q \o msgs \in Seq(S)
  BY ConcatProperties
<1> QED
  BY <1>1, NewestFacts DEF Deliver

LEMMA LastOfConcat ==
  ASSUME NEW S, NEW q \in Seq(S), NEW msgs \in Seq(S), NEW m, NEW op, NEW f, NEW v,
         LastHas(msgs, m, op, f, v),
         LastHas(q, m, op, f, v) \/ <<m, op>> \in Kinds(msgs)
  PROVE  LastHas(q \o msgs, m, op, f, v)
<1> DEFINE c == q \o msgs
<1>1. /\ Len(q) \in Nat /\ Len(msgs) \in Nat /\ DOMAIN q = 1 .. Len(q)
      /\ DOMAIN msgs = 1 .. Len(msgs) /\ DOMAIN c = 1 .. Len(q) + Len(msgs)
      /\ \A i \in 1 .. Len(q) : c[i] = q[i]
      /\ \A i \in 1 .. Len(msgs) : c[i + Len(q)] = msgs[i]
  BY ConcatProperties
<1> HIDE DEF c
<1> SUFFICES ASSUME NEW i \in 1 .. Len(q) + Len(msgs), Is(c[i], m, op),
                    \A j \in 1 .. Len(q) + Len(msgs) : j > i => ~Is(c[j], m, op)
             PROVE  c[i][f] = v
  BY <1>1 DEF LastHas, c
<1>2. CASE i > Len(q)
  <2>1. i - Len(q) \in 1 .. Len(msgs) /\ c[i] = msgs[i - Len(q)]
    BY <1>1, <1>2
  <2>2. \A j \in 1 .. Len(msgs) : j > i - Len(q) => ~Is(msgs[j], m, op)
    BY <1>1, <1>2
  <2> QED
    BY <1>1, <2>1, <2>2 DEF LastHas
<1>3. CASE i <= Len(q)
  <2>1. \A j \in 1 .. Len(msgs) : ~Is(msgs[j], m, op)
    BY <1>1, <1>3
  <2>2. LastHas(q, m, op, f, v)
    BY <2>1, <1>1, KindsDef
  <2>3. i \in 1 .. Len(q) /\ c[i] = q[i] /\ \A j \in 1 .. Len(q) : j > i => ~Is(q[j], m, op)
    BY <1>1, <1>3
  <2> QED
    BY <1>1, <2>2, <2>3 DEF LastHas
<1> QED
  BY <1>1, <1>2, <1>3

LEMMA LastOfEnd ==
  ASSUME NEW S, NEW s \in Seq(S), NEW t \in Seq(S), NEW d \in Nat, Len(s) = Len(t) + d,
         \A i \in 1 .. Len(t) : t[i] = s[i + d],
         NEW m, NEW op, NEW f, NEW v, LastHas(s, m, op, f, v)
  PROVE  LastHas(t, m, op, f, v)
<1>1. /\ Len(s) \in Nat /\ Len(t) \in Nat
      /\ DOMAIN s = 1 .. Len(s) /\ DOMAIN t = 1 .. Len(t)
  OBVIOUS
<1> SUFFICES ASSUME NEW i \in 1 .. Len(t), Is(t[i], m, op),
                    \A j \in 1 .. Len(t) : j > i => ~Is(t[j], m, op)
             PROVE  t[i][f] = v
  BY <1>1 DEF LastHas
<1>2. i + d \in 1 .. Len(s) /\ t[i] = s[i + d]
  BY <1>1
<1>3. ASSUME NEW j \in 1 .. Len(s), j > i + d PROVE ~Is(s[j], m, op)
  <2>1. j - d \in 1 .. Len(t) /\ j - d > i /\ t[j - d] = s[j]
    BY <1>1, <1>3
  <2> QED
    BY <2>1
<1> QED
  BY <1>1, <1>2, <1>3 DEF LastHas

(* The end of the queue in general: what is in it is among what was there. *)
LEMMA LastOfDeliver ==
  ASSUME NEW S, NEW q \in Seq(S), NEW msgs \in Seq(S), svc = "up",
         NEW m, NEW op, NEW f, NEW v, LastHas(msgs, m, op, f, v),
         LastHas(q, m, op, f, v) \/ <<m, op>> \in Kinds(msgs)
  PROVE  LastHas(Deliver(q, msgs), m, op, f, v)
<1>1. q \o msgs \in Seq(S) /\ LastHas(q \o msgs, m, op, f, v)
  BY LastOfConcat, ConcatProperties
<1>2. /\ Deliver(q, msgs) \in Seq(S)
      /\ \E d \in Nat : /\ Len(q \o msgs) = Len(Deliver(q, msgs)) + d
                        /\ \A i \in 1 .. Len(Deliver(q, msgs)) :
                             Deliver(q, msgs)[i] = (q \o msgs)[i + d]
  BY <1>1, NewestFacts DEF Deliver
<1> QED
  BY <1>1, <1>2, LastOfEnd

LEMMA LastOfTail ==
  ASSUME NEW S, NEW q \in Seq(S), q # <<>>, NEW m, NEW op, NEW f, NEW v,
         LastHas(q, m, op, f, v)
  PROVE  /\ LastHas(Tail(q), m, op, f, v)
         /\ <<m, op>> \in Kinds(q) /\ <<m, op>> \notin Kinds(Tail(q))
              => Is(Head(q), m, op) /\ Head(q)[f] = v
<1>1. /\ Len(q) \in Nat /\ Len(q) >= 1 /\ Head(q) = q[1]
      /\ Tail(q) \in Seq(S) /\ Len(q) = Len(Tail(q)) + 1
      /\ \A i \in 1 .. Len(Tail(q)) : Tail(q)[i] = q[i + 1]
      /\ DOMAIN q = 1 .. Len(q) /\ DOMAIN Tail(q) = 1 .. Len(Tail(q))
  BY HeadTailProperties
<1>2. LastHas(Tail(q), m, op, f, v)
  BY <1>1, LastOfEnd
<1>3. ASSUME <<m, op>> \in Kinds(q), <<m, op>> \notin Kinds(Tail(q))
      PROVE  Is(Head(q), m, op) /\ Head(q)[f] = v
  <2>1. \A i \in 1 .. Len(Tail(q)) : ~Is(Tail(q)[i], m, op)
    BY <1>1, <1>3, KindsDef
  <2>2. ASSUME NEW j \in 1 .. Len(q), j > 1 PROVE ~Is(q[j], m, op)
    <3>1. j - 1 \in 1 .. Len(Tail(q)) /\ Tail(q)[j - 1] = q[j]
      BY <1>1, <2>2
    <3> QED
      BY <2>1, <3>1
  <2>3. Is(q[1], m, op)
    BY <1>1, <1>3, <2>2, KindsDef
  <2> QED
    BY <1>1, <2>2, <2>3 DEF LastHas
<1> QED
  BY <1>2, <1>3

(* The kinds of a shorter, a longer and a taken-from queue.                *)
LEMMA KindsOfTail ==
  ASSUME NEW S, NEW q \in Seq(S), q # <<>>
  PROVE  /\ Kinds(Tail(q)) \subseteq Kinds(q)
         /\ Kinds(q) \subseteq Kinds(Tail(q)) \union {<<Head(q).m, Head(q).op>>}
         /\ <<Head(q).m, Head(q).op>> \in Kinds(q)
<1>1. /\ Len(q) \in Nat /\ Len(q) >= 1 /\ Head(q) = q[1]
      /\ Tail(q) \in Seq(S) /\ Len(q) = Len(Tail(q)) + 1
      /\ \A i \in 1 .. Len(Tail(q)) : Tail(q)[i] = q[i + 1]
      /\ DOMAIN q = 1 .. Len(q) /\ DOMAIN Tail(q) = 1 .. Len(Tail(q))
  BY HeadTailProperties
<1>2. Kinds(Tail(q)) \subseteq Kinds(q)
  BY <1>1 DEF Kinds
<1>3. <<Head(q).m, Head(q).op>> \in Kinds(q)
  BY <1>1 DEF Kinds
<1>4. ASSUME NEW i \in 1 .. Len(q), i # 1
      PROVE  i - 1 \in 1 .. Len(Tail(q)) /\ Tail(q)[i - 1] = q[i]
  BY <1>1, <1>4
<1>5. Kinds(q) \subseteq Kinds(Tail(q)) \union {<<Head(q).m, Head(q).op>>}
  <2> SUFFICES ASSUME NEW i \in 1 .. Len(q), i # 1
               PROVE  <<q[i].m, q[i].op>> \in Kinds(Tail(q))
    BY <1>1 DEF Kinds
  <2> QED
    BY <1>1, <1>4 DEF Kinds
<1> QED
  BY <1>2, <1>3, <1>5

LEMMA KindsOfConcat ==
  ASSUME NEW S, NEW q \in Seq(S), NEW msgs \in Seq(S)
  PROVE  Kinds(q \o msgs) = Kinds(q) \union Kinds(msgs)
<1>1. /\ Len(q) \in Nat /\ Len(msgs) \in Nat /\ DOMAIN q = 1 .. Len(q)
      /\ DOMAIN msgs = 1 .. Len(msgs) /\ DOMAIN (q \o msgs) = 1 .. Len(q) + Len(msgs)
      /\ \A i \in 1 .. Len(q) : (q \o msgs)[i] = q[i]
      /\ \A i \in 1 .. Len(msgs) : (q \o msgs)[i + Len(q)] = msgs[i]
  BY ConcatProperties
<1>2. Kinds(q) \union Kinds(msgs) \subseteq Kinds(q \o msgs)
  <2>1. \A i \in 1 .. Len(q) : i \in 1 .. Len(q) + Len(msgs)
    BY <1>1
  <2>2. \A i \in 1 .. Len(msgs) : i + Len(q) \in 1 .. Len(q) + Len(msgs)
    BY <1>1
  <2> QED
    BY <1>1, <2>1, <2>2 DEF Kinds
<1>3. ASSUME NEW i \in 1 .. Len(q) + Len(msgs)
      PROVE  \/ i \in 1 .. Len(q) /\ (q \o msgs)[i] = q[i]
             \/ \E j \in 1 .. Len(msgs) : (q \o msgs)[i] = msgs[j]
  <2>1. CASE i > Len(q)
    <3>1. i - Len(q) \in 1 .. Len(msgs) /\ (i - Len(q)) + Len(q) = i
      BY <1>1, <2>1
    <3> QED
      BY <3>1, <1>1
  <2> QED
    BY <1>1, <2>1
<1>4. Kinds(q \o msgs) \subseteq Kinds(q) \union Kinds(msgs)
  BY <1>1, <1>3 DEF Kinds
<1> QED
  BY <1>2, <1>4

LEMMA KindsOfDeliver ==
  ASSUME NEW S, NEW q \in Seq(S), NEW msgs \in Seq(S), Len(q) <= Depth
  PROVE  /\ Kinds(Deliver(q, msgs)) \subseteq Kinds(q) \union Kinds(msgs)
         /\ Lost(q, msgs) = (Kinds(q) \union Kinds(msgs)) \ Kinds(Deliver(q, msgs))
<1>1. q \o msgs \in Seq(S) /\ Kinds(q \o msgs) = Kinds(q) \union Kinds(msgs)
  BY KindsOfConcat, ConcatProperties
<1>2. Kinds(Deliver(q, msgs)) \subseteq Kinds(q) \union Kinds(msgs)
  <2>1. CASE svc = "up"
    <3>1. /\ Deliver(q, msgs) = Newest(q \o msgs) /\ Newest(q \o msgs) \in Seq(S)
          /\ \E d \in Nat : /\ Len(q \o msgs) = Len(Newest(q \o msgs)) + d
                            /\ \A i \in 1 .. Len(Newest(q \o msgs)) :
                                 Newest(q \o msgs)[i] = (q \o msgs)[i + d]
      BY <1>1, <2>1, NewestFacts DEF Deliver
    <3> DEFINE s == q \o msgs
               t == Newest(s)
    <3>2. PICK d \in Nat : Len(s) = Len(t) + d /\ \A i \in 1 .. Len(t) : t[i] = s[i + d]
      BY <3>1
    <3>3. s \in Seq(S) /\ t \in Seq(S)
      BY <1>1, <3>1
    <3> HIDE DEF s, t
    <3>4. /\ DOMAIN s = 1 .. Len(s) /\ DOMAIN t = 1 .. Len(t) /\ Len(t) \in Nat
          /\ \A i \in 1 .. Len(t) : i + d \in 1 .. Len(s)
      BY <3>2, <3>3
    <3>5. Kinds(t) \subseteq Kinds(s)
      BY <3>2, <3>4 DEF Kinds
    <3> QED
      BY <3>1, <3>5, <1>1 DEF s, t
  <2> QED
    BY <2>1 DEF Deliver
<1> QED
  BY <1>1, <1>2 DEF Lost

(* Short sequences of messages.                                            *)
LEMMA NoMessage ==
  ASSUME NEW m, NEW op, NEW f, NEW v
  PROVE  Kinds(<<>>) = {} /\ LastHas(<<>>, m, op, f, v)
BY DEF Kinds, LastHas

LEMMA OneMessage ==
  ASSUME NEW c, NEW m, NEW op, NEW f, NEW v
  PROVE  /\ <<m, op>> \in Kinds(<<c>>) <=> Is(c, m, op)
         /\ (Is(c, m, op) => c[f] = v) => LastHas(<<c>>, m, op, f, v)
BY KindsDef DEF LastHas

LEMMA TwoMessages ==
  ASSUME NEW c, NEW d, NEW m, NEW op, NEW f, NEW v, c.op # d.op
  PROVE  /\ <<m, op>> \in Kinds(<<c, d>>) <=> Is(c, m, op) \/ Is(d, m, op)
         /\ (Is(c, m, op) => c[f] = v) /\ (Is(d, m, op) => d[f] = v)
              => LastHas(<<c, d>>, m, op, f, v)
BY KindsDef DEF LastHas, Is

LEMMA ThreeMessages ==
  ASSUME NEW c, NEW d, NEW e, NEW m, NEW op, NEW f, NEW v,
         c.op # d.op, c.op # e.op, d.op # e.op
  PROVE  /\ <<m, op>> \in Kinds(<<c, d, e>>)
              <=> Is(c, m, op) \/ Is(d, m, op) \/ Is(e, m, op)
         /\ (Is(c, m, op) => c[f] = v) /\ (Is(d, m, op) => d[f] = v)
               /\ (Is(e, m, op) => e[f] = v)
              => LastHas(<<c, d, e>>, m, op, f, v)
BY KindsDef DEF LastHas, Is

-----------------------------------------------------------------------------
(* Types.                                                                  *)
Guis   == [run : BOOLEAN, dir : {0, 1}, slider : Int, spec : Int, gain : Int,
           rpm : Int, steps : Int,
           status : {"ready", "applied", "refreshing", "defaults", "timeout", "refreshed"}]
Timers == {t \in [live : 0 .. 2, tracked : BOOLEAN] :
             (t.live = 2 => t.tracked) /\ (t.live = 0 => ~t.tracked)}

PanelType ==
  /\ gui \in [Motors -> Guis] /\ timers \in [Motors -> Timers]
  /\ armed \in [Motors -> BOOLEAN] /\ edited \in [Motors -> BOOLEAN]
  /\ overtaken \in [Motors -> BOOLEAN]
  /\ inputs \in Nat /\ handlers \subseteq (1 .. inputs) \X Motors

TopicType ==
  /\ cmdq \in Seq(Cmds) /\ reqq \in Seq(Reqs) /\ respq \in Seq(Resps)
  /\ Len(cmdq) <= Depth /\ Len(reqq) <= Depth /\ Len(respq) <= Depth
  /\ good \subseteq Motors \X Ops
  /\ svc \in {"up", "down"}
  /\ svc = "down" => cmdq = <<>> /\ reqq = <<>> /\ good = {}

MotorType ==
  /\ obj \in [Motors -> Objects] /\ reg \in [Motors -> Registers]
  /\ dirBy \in [Motors -> {"init", "dir", "apply"}]
  /\ \A m \in Motors : m = "stepper" => reg[m].speed \in StepperSpeedMin .. StepperSpeedMax

TypeInv == PanelType /\ TopicType /\ MotorType

(* What sending does to the topics, for every handler that sends.          *)
LEMMA SendFacts ==
  ASSUME TopicType, NEW cmds \in Seq(Cmds), NEW reqs \in Seq(Reqs), Send(cmds, reqs),
         svc' = svc
  PROVE  /\ TopicType'
         /\ \A m \in Motors, op \in CmdOps : <<m, op>> \in good' =>
              /\ svc = "up"
              /\ <<m, op>> \in good \/ <<m, op>> \in Kinds(cmds)
              /\ Settled(m, op)' => Settled(m, op) /\ <<m, op>> \notin Kinds(cmds)
         /\ \A m \in Motors, op \in ReqOps : <<m, op>> \in good' =>
              /\ svc = "up"
              /\ <<m, op>> \in good \/ <<m, op>> \in Kinds(reqs)
              /\ Settled(m, op)' => Settled(m, op) /\ <<m, op>> \notin Kinds(reqs)
<1>1. /\ cmdq' \in Seq(Cmds) /\ Len(cmdq') <= Depth
      /\ reqq' \in Seq(Reqs) /\ Len(reqq') <= Depth
      /\ respq' = respq
  BY DeliverType DEF TopicType, Send
<1>2. Kinds(cmds) \subseteq Motors \X CmdOps /\ Kinds(reqs) \subseteq Motors \X ReqOps
      /\ Kinds(cmdq) \subseteq Motors \X CmdOps /\ Kinds(reqq) \subseteq Motors \X ReqOps
  <2>1. ASSUME NEW q \in Seq(Cmds) PROVE Kinds(q) \subseteq Motors \X CmdOps
    BY DEF Kinds, Cmds
  <2>2. ASSUME NEW q \in Seq(Reqs) PROVE Kinds(q) \subseteq Motors \X ReqOps
    <3>1. \A i \in DOMAIN q : q[i] \in Reqs
      OBVIOUS
    <3>2. \A r \in Reqs : r.m \in Motors /\ r.op \in ReqOps
      BY DEF Reqs
    <3> QED
      BY <3>1, <3>2 DEF Kinds
  <2> QED
    BY <2>1, <2>2 DEF TopicType
<1>3. (Motors \X CmdOps) \cap (Motors \X ReqOps) = {}
  BY DEF CmdOps, ReqOps
<1>4. good' \subseteq Motors \X Ops
  <2>1. Motors \X CmdOps \subseteq Motors \X Ops /\ Motors \X ReqOps \subseteq Motors \X Ops
    BY DEF CmdOps, ReqOps, Ops
  <2> QED
    BY <1>2, <2>1 DEF Send, TopicType
<1>5. svc = "down" => cmdq' = <<>> /\ reqq' = <<>> /\ good' = {}
  BY DEF Send, Deliver, TopicType
<1>6. TopicType'
  BY <1>1, <1>4, <1>5 DEF TopicType
<1>7. /\ Lost(cmdq, cmds) = (Kinds(cmdq) \union Kinds(cmds)) \ Kinds(cmdq')
      /\ Lost(reqq, reqs) = (Kinds(reqq) \union Kinds(reqs)) \ Kinds(reqq')
  BY KindsOfDeliver DEF TopicType, Send
<1>8. good' \subseteq (good \union Kinds(cmds) \union Kinds(reqs))
                        \ (Lost(cmdq, cmds) \union Lost(reqq, reqs))
  BY DEF Send
<1>9. ASSUME NEW m \in Motors, NEW op, <<m, op>> \in good'
      PROVE  /\ svc = "up"
             /\ Settled(m, op)' => Settled(m, op) /\ <<m, op>> \notin Kinds(cmds)
                                                  /\ <<m, op>> \notin Kinds(reqs)
  <2>1. svc = "up"
    BY <1>5, <1>9 DEF TopicType
  <2> QED
    BY <1>7, <1>8, <1>9, <2>1 DEF Settled
<1>10. \A m \in Motors, op \in CmdOps : <<m, op>> \notin Kinds(reqs)
  BY <1>2 DEF CmdOps, ReqOps
<1>11. \A m \in Motors, op \in ReqOps : <<m, op>> \notin Kinds(cmds)
  BY <1>2 DEF CmdOps, ReqOps
<1> QED
  BY <1>6, <1>8, <1>9, <1>10, <1>11

(* Arithmetic of the library.                                              *)
LEMMA Products ==
  /\ \A a \in Int, b \in Int : a > 0 /\ b > 0 => a * b \in Int /\ a * b > 0
  /\ \A a \in Int, b \in Int : a * b \in Int
OBVIOUS

LEMMA Remainder ==
  ASSUME NEW a \in Int, NEW b \in Nat, b > 0
  PROVE  a \div b \in Int /\ a % b \in 0 .. b - 1
BY SMT

LEMMA ClampType ==
  ASSUME NEW x \in Int, NEW lo \in Int, NEW hi \in Int
  PROVE  Clamp(x, lo, hi) \in Int /\ (lo <= hi => Clamp(x, lo, hi) \in lo .. hi)
BY DEF Clamp

LEMMA SlewType ==
  ASSUME NEW rpm \in Int, NEW usteps \in Int, rpm > 0, usteps > 0
  PROVE  SlewCount(rpm, usteps) \in Int /\ RpmOfSlew(rpm, usteps) \in Int
<1>1. rpm * usteps \in Nat /\ rpm * usteps > 0
  BY Products
<1> QED
  BY <1>1, Remainder, SMT DEF SlewCount, RpmOfSlew

LEMMA ScaleType ==
  ASSUME NEW rated \in Int, rated > 0 PROVE SpeedScale(rated) \in Int
BY Remainder, SMT DEF SpeedScale

LEMMA SizeFacts == RateLimitSize \in Nat /\ RateLimitSize > 32767
BY SMT DEF RateLimitSize

LEMMA RefType ==
  ASSUME NEW rpm \in Int, NEW scale \in Int
  PROVE  RateLimitRef(rpm, scale) \in 0 .. RateLimitSize - 1
<1>1. rpm * scale \in Int
  BY Products
<1>2. (rpm * scale) \div 1024 \in Int
  BY <1>1, Remainder
<1> QED
  BY <1>2, SizeFacts, Remainder, SMT DEF RateLimitRef

LEMMA DefaultTypes ==
  ASSUME NEW m \in Motors
  PROVE  SliderMax(m) \in Int /\ DefaultSpec[m] \in Int /\ DefaultSpec[m] > 0
<1>1. DefaultSpec["stepper"] = 51200 /\ DefaultSpec["bldc"] = 4000
  BY SMT DEF DefaultSpec
<1> QED
  BY <1>1, MotorsAssumption, SMT DEF SliderMax

LEMMA SlewRange ==
  ASSUME NEW rpm \in Int PROVE RpmToSlew(rpm) \in StepperSpeedMin .. StepperSpeedMax
<1>1. /\ StepperSpeedMin \in Int /\ StepperSpeedMax \in Int
      /\ StepperSpeedMin <= 79 /\ 79 <= StepperSpeedMax
  BY SMT DEF StepperSpeedMin, StepperSpeedMax
<1>2. DefaultSpec["stepper"] \in Int /\ DefaultSpec["stepper"] > 0
  BY SMT DEF DefaultSpec
<1>3. CASE rpm <= 0
  BY <1>1, <1>3, SMT DEF RpmToSlew
<1>4. CASE ~(rpm <= 0)
  <2>1. SlewCount(rpm, DefaultSpec["stepper"]) \in Int
    BY <1>2, <1>4, SlewType, SMT
  <2>2. StepperSpeedMin <= StepperSpeedMax
    BY <1>1, SMT
  <2>3. Clamp(SlewCount(rpm, DefaultSpec["stepper"]), StepperSpeedMin, StepperSpeedMax)
          \in StepperSpeedMin .. StepperSpeedMax
    BY <1>1, <2>1, <2>2, ClampType
  <2> QED
    BY <1>4, <2>3 DEF RpmToSlew
<1> QED
  BY <1>3, <1>4

(* What the handlers put on the topics.                                    *)
LEMMA MessageTypes ==
  ASSUME PanelType, NEW m \in Motors
  PROVE  /\ \A v \in {0, 1} : Command(m, "start", v) \in Cmds /\ Command(m, "dir", v) \in Cmds
         /\ \A v \in Int : Command(m, "rpm", v) \in Cmds
         /\ \A op \in ReqOps, id \in Nat : Request(m, op, id) \in Reqs
<1>1. gui[m] \in Guis
  BY DEF PanelType
<1> QED
  BY <1>1 DEF Cmds, CmdOps, Command, Reqs, Request, Guis

(* Writing one register.                                                   *)
LEMMA RegFields ==
  ASSUME NEW r \in Registers
  PROVE  /\ \A v \in {0, 1} : /\ [r EXCEPT !.start = v] \in Registers
                             /\ [r EXCEPT !.start = v].speed = r.speed
                             /\ [r EXCEPT !.stop = v] \in Registers
                             /\ [r EXCEPT !.stop = v].speed = r.speed
                             /\ [r EXCEPT !.dir = v] \in Registers
                             /\ [r EXCEPT !.dir = v].speed = r.speed
         /\ \A v \in 0 .. RateLimitSize - 1 : [r EXCEPT !.speed = v] \in Registers
         /\ \A v \in Int : /\ [r EXCEPT !.rated = v] \in Registers
                          /\ [r EXCEPT !.rated = v].speed = r.speed
                          /\ [r EXCEPT !.gain = v] \in Registers
                          /\ [r EXCEPT !.gain = v].speed = r.speed
BY SMT DEF Registers

(* start, stop and set_direction.                                          *)
LEMMA SwitchTypes ==
  ASSUME NEW r \in Registers
  PROVE  /\ Start(ClearFault(r)) \in Registers /\ Start(ClearFault(r)).speed = r.speed
         /\ ClearFault(Stop(r)) \in Registers /\ ClearFault(Stop(r)).speed = r.speed
         /\ \A v \in {0, 1} : SetDirection(r, v) \in Registers /\ SetDirection(r, v).speed = r.speed
<1>1. ASSUME NEW s \in Registers PROVE ClearFault(s) \in Registers /\ ClearFault(s).speed = s.speed
  <2> DEFINE s1 == [s EXCEPT !.start = 0]
  <2>1. ClearFault(s) = [s1 EXCEPT !.stop = 0]
    BY SMT DEF ClearFault
  <2>2. s1 \in Registers /\ s1.speed = s.speed
    BY RegFields
  <2> HIDE DEF s1
  <2> QED
    BY <2>1, <2>2, RegFields
<1>2. ClearFault(r) \in Registers /\ ClearFault(r).speed = r.speed
  BY <1>1
<1>3. Stop(r) \in Registers /\ Stop(r).speed = r.speed
  BY RegFields DEF Stop
<1>4. Start(ClearFault(r)) \in Registers /\ Start(ClearFault(r)).speed = r.speed
  BY <1>2, RegFields DEF Start
<1>5. ClearFault(Stop(r)) \in Registers /\ ClearFault(Stop(r)).speed = r.speed
  BY <1>1, <1>3
<1>6. \A v \in {0, 1} : SetDirection(r, v) \in Registers /\ SetDirection(r, v).speed = r.speed
  BY RegFields DEF SetDirection
<1> QED
  BY <1>4, <1>5, <1>6

(* Writing the speed.                                                      *)
LEMMA SpeedObjectType ==
  ASSUME NEW m \in Motors, NEW o \in Objects, NEW v \in Int, SpeedInRange(m, v)
  PROVE  SetSpeedObject(m, o, v) \in Objects
<1>1. CASE m = "bldc"
  BY <1>1 DEF SetSpeedObject
<1>2. CASE m # "bldc"
  <2>1. v > 0 /\ o.spec \in Int /\ o.spec > 0
    BY <1>2, SMT DEF SpeedInRange, StepperSpeedMin, StepperSpeedMax, Objects
  <2>2. RpmOfSlew(v, o.spec) \in Int
    BY <2>1, SlewType
  <2> QED
    BY <1>2, <2>2 DEF SetSpeedObject, Objects
<1> QED
  BY <1>1, <1>2

LEMMA SpeedRegsType ==
  ASSUME NEW m \in Motors, NEW o \in Objects, NEW r \in Registers, NEW v \in Int,
         SpeedInRange(m, v)
  PROVE  /\ SetSpeedRegs(m, o, r, v) \in Registers
         /\ m = "stepper" => SetSpeedRegs(m, o, r, v).speed \in StepperSpeedMin .. StepperSpeedMax
<1> DEFINE x == IF m = "bldc" THEN RateLimitRef(v, o.scale) ELSE v
<1>1. x \in 0 .. RateLimitSize - 1
  <2>1. CASE m = "bldc"
    BY <2>1, RefType DEF Objects
  <2>2. CASE m # "bldc"
    <3>1. v \in StepperSpeedMin .. StepperSpeedMax
      BY <2>2 DEF SpeedInRange
    <3>2. v \in 0 .. RateLimitSize - 1
      BY <3>1, SizeFacts, SMT DEF StepperSpeedMin, StepperSpeedMax
    <3> QED
      BY <2>2, <3>2
  <2> QED
    BY <2>1, <2>2
<1>2. m = "stepper" => x \in StepperSpeedMin .. StepperSpeedMax
  BY DEF SpeedInRange
<1>3. SetSpeedRegs(m, o, r, v) = [r EXCEPT !.speed = x]
  BY DEF SetSpeedRegs
<1> HIDE DEF x
<1>4. [r EXCEPT !.speed = x].speed = x
  BY SMT DEF Registers
<1>5. [r EXCEPT !.speed = x] \in Registers
  BY <1>1, RegFields
<1> QED
  BY <1>2, <1>3, <1>4, <1>5

(* A new object, and the registers after init.                             *)
LEMMA NewTypes ==
  ASSUME NEW m \in Motors PROVE NewMotor(m) \in Objects
<1>1. DefaultSpec[m] \in Int /\ DefaultSpec[m] > 0 /\ SpeedScale(DefaultSpec[m]) \in Int
  BY DefaultTypes, ScaleType
<1> QED
  BY <1>1, SMT DEF Objects, NewMotor, DefaultGain, DefaultRpm, DefaultSteps

LEMMA StartedRegs ==
  ASSUME NEW m \in Motors, NEW r \in Registers
  PROVE  InitRegs(m, r) \in Registers /\ (m = "stepper" => InitRegs(m, r).speed = 79)
<1>1. DefaultSpec[m] \in Int
  BY DefaultTypes
<1>2. 32767 \in 0 .. RateLimitSize - 1 /\ 79 \in 0 .. RateLimitSize - 1
  BY SizeFacts, SMT
<1>11. DefaultGain \in Int
  BY SMT DEF DefaultGain
<1> DEFINE v == IF m = "bldc" THEN 32767 ELSE 79
<1>3. v \in 0 .. RateLimitSize - 1 /\ (m = "stepper" => v = 79)
  BY <1>2
<1>4. InitRegs(m, r) = [r EXCEPT !.dir = 1, !.speed = v, !.rated = DefaultSpec[m],
                                 !.gain = DefaultGain]
  BY DEF InitRegs
<1> HIDE DEF v
<1> DEFINE r1 == [r EXCEPT !.dir = 1]
           r2 == [r1 EXCEPT !.speed = v]
           r3 == [r2 EXCEPT !.rated = DefaultSpec[m]]
           r4 == [r3 EXCEPT !.gain = DefaultGain]
<1>5. InitRegs(m, r) = r4
  BY <1>4, SMT
<1>6. r1 \in Registers
  BY RegFields
<1> HIDE DEF r1
<1>7. r2 \in Registers
  BY <1>3, <1>6, RegFields
<1>8. r2.speed = v
  BY <1>6, SMT DEF Registers
<1> HIDE DEF r2
<1>9. r3 \in Registers /\ r3.speed = r2.speed
  BY <1>1, <1>7, RegFields
<1> HIDE DEF r3
<1>10. r4 \in Registers /\ r4.speed = r3.speed
  BY <1>11, <1>9, RegFields
<1> QED
  BY <1>3, <1>5, <1>8, <1>9, <1>10

LEMMA NoRegs ==
  [start |-> 0, stop |-> 0, dir |-> 0, speed |-> 0, rated |-> 0, gain |-> 0] \in Registers
<1>1. 0 \in 0 .. RateLimitSize - 1
  BY SizeFacts, SMT
<1> QED
  BY <1>1, SMT DEF Registers

LEMMA InitTypes == Init => TypeInv
<1> SUFFICES ASSUME Init PROVE TypeInv
  OBVIOUS
<1>1. PanelType
  <2>1. gui \in [Motors -> Guis]
    BY DefaultTypes, SMT DEF Init, Guis, DefaultGain, DefaultRpm, DefaultSteps
  <2>2. timers \in [Motors -> Timers]
    BY DEF Init, Timers
  <2> QED
    BY <2>1, <2>2 DEF Init, PanelType
<1>2. TopicType
  BY BoundAssumption DEF Init, TopicType
<1>3. MotorType
  <2>1. \A m \in Motors : NewMotor(m) \in Objects
    BY NewTypes
  <2>2. \A m \in Motors :
          /\ reg[m] = InitRegs(m, [start |-> 0, stop |-> 0, dir |-> 0, speed |-> 0,
                                   rated |-> 0, gain |-> 0])
          /\ [start |-> 0, stop |-> 0, dir |-> 0, speed |-> 0, rated |-> 0, gain |-> 0] \in Registers
    BY NoRegs DEF Init
  <2>3. \A m \in Motors : reg[m] \in Registers /\ (m = "stepper" => reg[m].speed = 79)
    <3> SUFFICES ASSUME NEW m \in Motors
                 PROVE  reg[m] \in Registers /\ (m = "stepper" => reg[m].speed = 79)
      OBVIOUS
    <3> DEFINE r == [start |-> 0, stop |-> 0, dir |-> 0, speed |-> 0, rated |-> 0, gain |-> 0]
    <3>1. r \in Registers /\ reg[m] = InitRegs(m, r)
      BY <2>2
    <3> HIDE DEF r
    <3> QED
      BY <3>1, StartedRegs
  <2> QED
    BY <2>1, <2>3, SMT DEF Init, MotorType, StepperSpeedMin, StepperSpeedMax
<1> QED
  BY <1>1, <1>2, <1>3 DEF TypeInv

-----------------------------------------------------------------------------
(* The types are kept, by the user, ...                                    *)
LEMMA MoveToType ==
  ASSUME PanelType, NEW m \in Motors, NEW v, MoveTo(m, v)
  PROVE  timers' \in [Motors -> Timers]
<1>1. \A t \in Timers : Schedule(t) \in Timers
  BY SMT DEF Timers, Schedule
<1> QED
  BY <1>1 DEF MoveTo, PanelType

(* Writing one widget.                                                     *)
LEMMA GuiFields ==
  ASSUME NEW g \in Guis
  PROVE  /\ \A v \in Int : /\ [g EXCEPT !.slider = v] \in Guis
                           /\ [g EXCEPT !.spec = v] \in Guis
                           /\ [g EXCEPT !.gain = v] \in Guis
                           /\ [g EXCEPT !.rpm = v] \in Guis
                           /\ [g EXCEPT !.steps = v] \in Guis
         /\ \A v \in {"applied", "refreshing", "defaults", "timeout", "refreshed"} :
              [g EXCEPT !.status = v] \in Guis
BY SMT DEF Guis

LEMMA MotorSame == ASSUME MotorType, UNCHANGED motorVars PROVE MotorType'
BY DEF MotorType, motorVars

LEMMA TopicSame == ASSUME TopicType, UNCHANGED topics, svc' = svc PROVE TopicType'
BY DEF TopicType, topics

LEMMA UserTypes ==
  ASSUME TypeInv, NEW m \in Motors, UserInput
  PROVE  /\ MotorType' /\ svc' = svc /\ inputs' \in Nat
         /\ (1 .. inputs) \X Motors \subseteq (1 .. inputs') \X Motors
         /\ (UNCHANGED topics => TopicType')
         /\ \A v \in {0, 1} : 1 - v \in {0, 1}
         /\ gui[m] \in Guis
<1>1. /\ UNCHANGED motorVars /\ svc' = svc /\ inputs \in Nat /\ inputs' = inputs + 1
  BY DEF UserInput, TypeInv, PanelType
<1>2. 1 .. inputs \subseteq 1 .. inputs'
  BY <1>1
<1> QED
  BY <1>1, <1>2, MotorSame, TopicSame DEF TypeInv, PanelType

LEMMA StartButtonTypes == ASSUME TypeInv, NEW m \in Motors, StartButton(m) PROVE TypeInv'
<1>1. UserInput /\ gui[m] \in Guis
  BY DEF StartButton, TypeInv, PanelType
<1>2. gui' \in [Motors -> Guis]
  BY DEF StartButton, TypeInv, PanelType, Guis
<1>3. PanelType'
  BY <1>1, <1>2, UserTypes DEF StartButton, TypeInv, PanelType
<1>4. <<Command(m, "start", 1), Command(m, "dir", gui[m].dir)>> \in Seq(Cmds) /\ <<>> \in Seq(Reqs)
  BY <1>1, MessageTypes DEF TypeInv, Guis
<1>5. TopicType'
  BY <1>1, <1>4, SendFacts, UserTypes DEF StartButton, TypeInv
<1> QED
  BY <1>1, <1>3, <1>5, UserTypes DEF TypeInv

LEMMA StopButtonTypes == ASSUME TypeInv, NEW m \in Motors, StopButton(m) PROVE TypeInv'
<1>1. UserInput /\ gui[m] \in Guis
  BY DEF StopButton, TypeInv, PanelType
<1>2. gui' \in [Motors -> Guis]
  BY DEF StopButton, TypeInv, PanelType, Guis
<1>3. PanelType'
  BY <1>1, <1>2, UserTypes DEF StopButton, TypeInv, PanelType
<1>4. <<Command(m, "start", 0)>> \in Seq(Cmds) /\ <<>> \in Seq(Reqs)
  BY <1>1, MessageTypes DEF TypeInv
<1>5. TopicType'
  BY <1>1, <1>4, SendFacts, UserTypes DEF StopButton, TypeInv
<1> QED
  BY <1>1, <1>3, <1>5, UserTypes DEF TypeInv

LEMMA DirectionButtonTypes == ASSUME TypeInv, NEW m \in Motors, DirectionButton(m) PROVE TypeInv'
<1>1. UserInput /\ gui[m] \in Guis /\ 1 - gui[m].dir \in {0, 1}
  BY DEF DirectionButton, TypeInv, PanelType, Guis
<1>2. gui' \in [Motors -> Guis]
  BY <1>1 DEF DirectionButton, TypeInv, PanelType, Guis
<1>3. PanelType'
  BY <1>1, <1>2, UserTypes DEF DirectionButton, TypeInv, PanelType
<1>4. <<Command(m, "dir", 1 - gui[m].dir)>> \in Seq(Cmds) /\ <<>> \in Seq(Reqs)
  BY <1>1, MessageTypes DEF TypeInv
<1>5. TopicType'
  BY <1>1, <1>4, SendFacts, UserTypes DEF DirectionButton, TypeInv
<1> QED
  BY <1>1, <1>3, <1>5, UserTypes DEF TypeInv

LEMMA MoveSliderTypes == ASSUME TypeInv, NEW m \in Motors, MoveSlider(m) PROVE TypeInv'
<1>1. UserInput /\ gui[m] \in Guis
  BY DEF MoveSlider, TypeInv, PanelType
<1>2. PICK v \in Speeds[m] : gui' = [gui EXCEPT ![m].slider = v] /\ MoveTo(m, v)
  BY DEF MoveSlider
<1>3. v \in Int
  BY InputAssumption
<1>4. gui' \in [Motors -> Guis] /\ timers' \in [Motors -> Timers]
  BY <1>2, <1>3, MoveToType DEF TypeInv, PanelType, Guis
<1>5. PanelType'
  BY <1>1, <1>4, UserTypes DEF MoveSlider, TypeInv, PanelType
<1> QED
  BY <1>1, <1>5, UserTypes DEF TypeInv, MoveSlider

LEMMA EditInputsTypes == ASSUME TypeInv, NEW m \in Motors, EditInputs(m) PROVE TypeInv'
<1>1. UserInput /\ gui[m] \in Guis
  BY DEF EditInputs, TypeInv, PanelType
<1>2. PICK s \in Specs[m], g \in Gains,
           r \in IF m = "stepper" THEN Speeds[m] ELSE {DefaultRpm},
           n \in IF m = "stepper" THEN Steps ELSE {DefaultSteps} :
             gui' = [gui EXCEPT ![m].spec = s, ![m].gain = g, ![m].rpm = r, ![m].steps = n]
  BY DEF EditInputs
<1>3. s \in Int /\ g \in Int
  BY SpecAssumption, InputAssumption
<1>4. r \in Int /\ n \in Int
  BY InputAssumption, SMT DEF DefaultRpm, DefaultSteps
<1> DEFINE g1 == [gui[m] EXCEPT !.spec = s]
           g2 == [g1 EXCEPT !.gain = g]
           g3 == [g2 EXCEPT !.rpm = r]
           g4 == [g3 EXCEPT !.steps = n]
<1>5. gui' = [gui EXCEPT ![m] = g4]
  BY <1>2 DEF TypeInv, PanelType
<1>6. g1 \in Guis
  BY <1>1, <1>3, GuiFields
<1> HIDE DEF g1
<1>7. g2 \in Guis
  BY <1>6, <1>3, GuiFields
<1> HIDE DEF g2
<1>8. g3 \in Guis
  BY <1>7, <1>4, GuiFields
<1> HIDE DEF g3
<1>9. g4 \in Guis
  BY <1>8, <1>4, GuiFields
<1> HIDE DEF g4
<1>10. gui' \in [Motors -> Guis]
  BY <1>5, <1>9 DEF TypeInv, PanelType
<1>11. PanelType'
  BY <1>1, <1>10, UserTypes DEF EditInputs, TypeInv, PanelType
<1> QED
  BY <1>1, <1>11, UserTypes DEF TypeInv, EditInputs

LEMMA SetButtonTypes == ASSUME TypeInv, NEW m \in Motors, SetButton(m) PROVE TypeInv'
<1>1. UserInput /\ gui[m] \in Guis
  BY DEF SetButton, TypeInv, PanelType
<1> DEFINE v == IF m = "bldc" THEN gui[m].slider ELSE RpmToSlew(gui[m].slider)
           s == IF m = "bldc" THEN gui[m].slider
                ELSE Clamp(gui[m].rpm, SliderMin, SliderMax(m))
<1>2. v \in Int /\ s \in Int
  <2>1. gui[m].slider \in Int /\ gui[m].rpm \in Int
    BY <1>1 DEF Guis
  <2>2. SliderMin \in Int /\ SliderMax(m) \in Int
    BY DefaultTypes, SMT DEF SliderMin
  <2>3. RpmToSlew(gui[m].slider) \in Int
    BY <2>1, SlewRange
  <2> QED
    BY <2>1, <2>2, <2>3, ClampType
<1>3. /\ Send(<<Command(m, "rpm", v)>>,
              <<Request(m, "set_specs", 0), Request(m, "set_params", 0), Request(m, "apply", 0)>>)
      /\ gui' = [gui EXCEPT ![m].slider = s, ![m].status = "applied"]
      /\ MoveTo(m, s)
  BY DEF SetButton
<1> HIDE DEF v, s
<1> DEFINE g1 == [gui[m] EXCEPT !.slider = s]
           g2 == [g1 EXCEPT !.status = "applied"]
<1>5. gui' = [gui EXCEPT ![m] = g2]
  BY <1>3 DEF TypeInv, PanelType
<1>6. g1 \in Guis
  BY <1>1, <1>2, GuiFields
<1> HIDE DEF g1
<1>7. g2 \in Guis
  BY <1>6, GuiFields
<1> HIDE DEF g2
<1>8. gui' \in [Motors -> Guis] /\ timers' \in [Motors -> Timers]
  BY <1>3, <1>5, <1>7, MoveToType DEF TypeInv, PanelType
<1>9. overtaken' \in [Motors -> BOOLEAN]
  BY DEF SetButton, TypeInv, PanelType, Outstanding
<1>10. PanelType'
  BY <1>1, <1>8, <1>9, UserTypes DEF SetButton, TypeInv, PanelType
<1>11. /\ <<Command(m, "rpm", v)>> \in Seq(Cmds)
       /\ <<Request(m, "set_specs", 0), Request(m, "set_params", 0), Request(m, "apply", 0)>> \in Seq(Reqs)
  <2>1. Command(m, "rpm", v) \in Cmds
    BY <1>2, MessageTypes DEF TypeInv
  <2>2. /\ Request(m, "set_specs", 0) \in Reqs /\ Request(m, "set_params", 0) \in Reqs
        /\ Request(m, "apply", 0) \in Reqs
    BY MessageTypes DEF TypeInv, ReqOps
  <2> QED
    BY <2>1, <2>2
<1>12. TopicType'
  BY <1>1, <1>3, <1>11, SendFacts, UserTypes DEF TypeInv
<1> QED
  BY <1>1, <1>10, <1>12, UserTypes DEF TypeInv

LEMMA GetButtonTypes == ASSUME TypeInv, NEW m \in Motors, GetButton(m) PROVE TypeInv'
<1>1. UserInput /\ gui[m] \in Guis /\ inputs' = inputs + 1 /\ inputs \in Nat
  BY DEF GetButton, UserInput, TypeInv, PanelType
<1>2. gui' \in [Motors -> Guis]
  BY <1>1, GuiFields DEF GetButton, TypeInv, PanelType
<1>3. <<inputs', m>> \in (1 .. inputs') \X Motors
  BY <1>1
<1>4. handlers' \subseteq (1 .. inputs') \X Motors
  BY <1>1, <1>3, UserTypes DEF GetButton, TypeInv, PanelType
<1>5. PanelType'
  BY <1>1, <1>2, <1>4, UserTypes DEF GetButton, TypeInv, PanelType
<1>6. <<Request(m, "get_all", inputs')>> \in Seq(Reqs) /\ <<>> \in Seq(Cmds)
  BY <1>1, MessageTypes DEF TypeInv, ReqOps
<1>7. TopicType'
  BY <1>1, <1>6, SendFacts, UserTypes DEF GetButton, TypeInv
<1> QED
  BY <1>1, <1>5, <1>7, UserTypes DEF TypeInv

LEMMA DefaultsTypes ==
  ASSUME NEW m \in Motors, NEW g \in Guis
  PROVE  (IF m = "bldc" THEN BldcDefaults(g) ELSE StepperDefaults(g)) \in Guis
<1> DEFINE d == IF m = "bldc" THEN DefaultSpec["bldc"] ELSE DefaultSpec["stepper"]
<1>1. d \in Int
  BY SMT DEF DefaultSpec
<1>2. DefaultGain \in Int /\ DefaultRpm \in Int /\ DefaultSteps \in Int
  BY SMT DEF DefaultGain, DefaultRpm, DefaultSteps
<1>3. /\ m = "bldc" => BldcDefaults(g) = [g EXCEPT !.spec = d, !.gain = DefaultGain, !.status = "defaults"]
      /\ m # "bldc" => StepperDefaults(g) =
           [g EXCEPT !.spec = d, !.gain = DefaultGain, !.rpm = DefaultRpm,
                     !.steps = DefaultSteps, !.slider = DefaultRpm, !.status = "defaults"]
  BY DEF BldcDefaults, StepperDefaults
<1> HIDE DEF d
<1> DEFINE g1 == [g EXCEPT !.spec = d]
           g2 == [g1 EXCEPT !.gain = DefaultGain]
           g3 == [g2 EXCEPT !.rpm = DefaultRpm]
           g4 == [g3 EXCEPT !.steps = DefaultSteps]
           g5 == [g4 EXCEPT !.slider = DefaultRpm]
<1>4. /\ m = "bldc" => BldcDefaults(g) = [g2 EXCEPT !.status = "defaults"]
      /\ m # "bldc" => StepperDefaults(g) = [g5 EXCEPT !.status = "defaults"]
  BY <1>3, SMT
<1>5. g1 \in Guis
  BY <1>1, GuiFields
<1> HIDE DEF g1
<1>6. g2 \in Guis
  BY <1>2, <1>5, GuiFields
<1> HIDE DEF g2
<1>7. g3 \in Guis
  BY <1>2, <1>6, GuiFields
<1> HIDE DEF g3
<1>8. g4 \in Guis
  BY <1>2, <1>7, GuiFields
<1> HIDE DEF g4
<1>9. g5 \in Guis
  BY <1>2, <1>8, GuiFields
<1> HIDE DEF g5
<1>10. [g2 EXCEPT !.status = "defaults"] \in Guis /\ [g5 EXCEPT !.status = "defaults"] \in Guis
  BY <1>6, <1>9, GuiFields
<1> QED
  BY <1>4, <1>10

LEMMA DefaultsButtonTypes == ASSUME TypeInv, NEW m \in Motors, DefaultsButton(m) PROVE TypeInv'
<1> DEFINE g == IF m = "bldc" THEN BldcDefaults(gui[m]) ELSE StepperDefaults(gui[m])
<1>1. UserInput /\ gui[m] \in Guis /\ gui' = [gui EXCEPT ![m] = g] /\ MoveTo(m, g.slider)
  BY DEF DefaultsButton, TypeInv, PanelType
<1>2. g \in Guis
  BY <1>1, DefaultsTypes
<1> HIDE DEF g
<1>3. gui' \in [Motors -> Guis] /\ timers' \in [Motors -> Timers]
  BY <1>1, <1>2, MoveToType DEF TypeInv, PanelType
<1>4. PanelType'
  BY <1>1, <1>3, UserTypes DEF DefaultsButton, TypeInv, PanelType
<1> QED
  BY <1>1, <1>4, UserTypes DEF TypeInv, DefaultsButton

(* ... by the callbacks, ...                                               *)
LEMMA QuietTypes ==
  ASSUME TypeInv, Quietly
  PROVE  /\ MotorType' /\ svc' = svc /\ inputs' = inputs
         /\ (UNCHANGED topics => TopicType')
BY MotorSame, TopicSame DEF Quietly, TypeInv

LEMMA AfterFiringType ==
  ASSUME NEW t \in Timers, t.live > 0, NEW moved \in BOOLEAN
  PROVE  AfterFiring(t, moved) \in Timers
BY SMT DEF AfterFiring, Timers

LEMMA BldcSliderTypes == ASSUME TypeInv, BldcSliderFires PROVE TypeInv'
<1> DEFINE m == "bldc"
           g == gui[m]
           v == IF g.slider > g.spec THEN g.spec ELSE g.slider
<1>1. /\ m \in Motors /\ g \in Guis /\ timers[m].live > 0 /\ timers[m] \in Timers
      /\ gui' = [gui EXCEPT ![m].slider = v]
      /\ timers' = [timers EXCEPT ![m] = AfterFiring(@, v # g.slider)]
      /\ Send(<<Command(m, "rpm", v)>>, <<>>)
      /\ Quietly /\ UNCHANGED <<handlers, armed, edited, overtaken>>
  BY DEF BldcSliderFires, TypeInv, PanelType
<1>2. v \in Int
  BY <1>1 DEF Guis
<1> HIDE DEF v, m
<1>3. gui' \in [Motors -> Guis]
  BY <1>1, <1>2, GuiFields DEF TypeInv, PanelType
<1>4. timers' \in [Motors -> Timers]
  BY <1>1, AfterFiringType DEF TypeInv, PanelType
<1>5. PanelType'
  BY <1>1, <1>3, <1>4, QuietTypes DEF TypeInv, PanelType
<1>6. <<Command(m, "rpm", v)>> \in Seq(Cmds) /\ <<>> \in Seq(Reqs)
  BY <1>1, <1>2, MessageTypes DEF TypeInv
<1>7. TopicType'
  BY <1>1, <1>6, SendFacts, QuietTypes DEF TypeInv
<1> QED
  BY <1>1, <1>5, <1>7, QuietTypes DEF TypeInv

LEMMA StepperSliderTypes == ASSUME TypeInv, StepperSliderFires PROVE TypeInv'
<1> DEFINE m == "stepper"
           v == RpmToSlew(gui[m].slider)
<1>1. /\ m \in Motors /\ gui[m] \in Guis /\ timers[m].live > 0 /\ timers[m] \in Timers
      /\ gui' = [gui EXCEPT ![m].rpm = gui[m].slider]
      /\ timers' = [timers EXCEPT ![m] = AfterFiring(@, FALSE)]
      /\ Send(<<Command(m, "rpm", v)>>, <<>>)
      /\ Quietly /\ UNCHANGED <<handlers, armed, edited, overtaken>>
  BY DEF StepperSliderFires, TypeInv, PanelType
<1>2. gui[m].slider \in Int
  BY <1>1 DEF Guis
<1>3. v \in Int
  BY <1>2, SlewRange
<1> HIDE DEF v, m
<1>4. gui' \in [Motors -> Guis]
  BY <1>1, <1>2, GuiFields DEF TypeInv, PanelType
<1>5. timers' \in [Motors -> Timers]
  BY <1>1, AfterFiringType DEF TypeInv, PanelType
<1>6. PanelType'
  BY <1>1, <1>4, <1>5, QuietTypes DEF TypeInv, PanelType
<1>7. <<Command(m, "rpm", v)>> \in Seq(Cmds) /\ <<>> \in Seq(Reqs)
  BY <1>1, <1>3, MessageTypes DEF TypeInv
<1>8. TopicType'
  BY <1>1, <1>7, SendFacts, QuietTypes DEF TypeInv
<1> QED
  BY <1>1, <1>6, <1>8, QuietTypes DEF TypeInv

LEMMA RefreshTimeoutTypes == ASSUME TypeInv, NEW m \in Motors, RefreshTimeout(m) PROVE TypeInv'
<1>1. gui' \in [Motors -> Guis]
  BY GuiFields DEF RefreshTimeout, TypeInv, PanelType
<1>2. PanelType'
  BY <1>1, QuietTypes DEF RefreshTimeout, TypeInv, PanelType
<1> QED
  BY <1>2, QuietTypes DEF TypeInv, RefreshTimeout

(* The topics when the dashboard takes a response.                         *)
LEMMA ResponseTaken ==
  ASSUME TypeInv, respq # <<>>, respq' = Tail(respq), UNCHANGED <<cmdq, reqq, good>>, svc' = svc
  PROVE  TopicType' /\ Head(respq) \in Resps
<1>1. /\ Head(respq) \in Resps /\ Tail(respq) \in Seq(Resps)
      /\ Len(Tail(respq)) = Len(respq) - 1 /\ Len(respq) \in Nat
      /\ Len(respq) <= Depth /\ Depth \in Nat
  BY HeadTailProperties, BoundAssumption DEF TypeInv, TopicType
<1> QED
  BY <1>1 DEF TypeInv, TopicType

LEMMA ResponseIgnoredTypes == ASSUME TypeInv, ResponseIgnored PROVE TypeInv'
<1>1. PanelType'
  BY QuietTypes DEF ResponseIgnored, TypeInv, PanelType, guiVars
<1> QED
  BY <1>1, QuietTypes, ResponseTaken DEF TypeInv, ResponseIgnored

(* What a refresh shows.                                                   *)
LEMMA ShownTypes ==
  ASSUME NEW m \in Motors, NEW g \in Guis, NEW r \in Resps
  PROVE  (IF m = "bldc" THEN BldcShown(g, r) ELSE StepperShown(g, r)) \in Guis
<1>1. r.spec \in Int /\ r.gain \in Int /\ r.rpm \in Int /\ r.steps \in Int
  BY DEF Resps
<1>2. Clamp(r.rpm, SliderMin, SliderMax("stepper")) \in Int
  <2>1. SliderMin \in Int /\ SliderMax("stepper") \in Int
    BY SMT DEF SliderMin, SliderMax
  <2> QED
    BY <1>1, <2>1, ClampType
<1> DEFINE c == Clamp(r.rpm, SliderMin, SliderMax("stepper"))
           g1 == [g EXCEPT !.spec = r.spec]
           g2 == [g1 EXCEPT !.gain = r.gain]
           g3 == [g2 EXCEPT !.rpm = r.rpm]
           g4 == [g3 EXCEPT !.steps = r.steps]
           g5 == [g4 EXCEPT !.slider = c]
<1>3. /\ BldcShown(g, r) = [g EXCEPT !.spec = r.spec, !.gain = r.gain, !.status = "refreshed"]
      /\ StepperShown(g, r) = [g EXCEPT !.spec = r.spec, !.gain = r.gain, !.rpm = r.rpm,
                                 !.steps = r.steps, !.slider = c, !.status = "refreshed"]
  BY DEF BldcShown, StepperShown
<1>4. c \in Int
  BY <1>2
<1> HIDE DEF c
<1>5. /\ BldcShown(g, r) = [g2 EXCEPT !.status = "refreshed"]
      /\ StepperShown(g, r) = [g5 EXCEPT !.status = "refreshed"]
  BY <1>3, SMT
<1>6. g1 \in Guis
  BY <1>1, GuiFields
<1> HIDE DEF g1
<1>7. g2 \in Guis
  BY <1>1, <1>6, GuiFields
<1> HIDE DEF g2
<1>8. g3 \in Guis
  BY <1>1, <1>7, GuiFields
<1> HIDE DEF g3
<1>9. g4 \in Guis
  BY <1>1, <1>8, GuiFields
<1> HIDE DEF g4
<1>10. g5 \in Guis
  BY <1>4, <1>9, GuiFields
<1> HIDE DEF g5
<1>11. [g2 EXCEPT !.status = "refreshed"] \in Guis /\ [g5 EXCEPT !.status = "refreshed"] \in Guis
  BY <1>7, <1>10, GuiFields
<1> QED
  BY <1>5, <1>11

LEMMA ResponseHandledTypes == ASSUME TypeInv, ResponseHandled PROVE TypeInv'
<1> DEFINE r == Head(respq)
           m == r.m
           g == IF m = "bldc" THEN BldcShown(gui[m], r) ELSE StepperShown(gui[m], r)
<1>1. /\ respq # <<>> /\ <<r.id, m>> \in handlers
      /\ handlers' = handlers \ {<<r.id, m>>} /\ armed' = [armed EXCEPT ![m] = FALSE]
      /\ gui' = [gui EXCEPT ![m] = g] /\ MoveTo(m, g.slider)
      /\ edited' = [edited EXCEPT ![m] = FALSE] /\ respq' = Tail(respq)
      /\ Quietly /\ UNCHANGED <<cmdq, reqq, good, overtaken>>
  BY DEF ResponseHandled
<1>2. TopicType' /\ r \in Resps
  BY <1>1, ResponseTaken, QuietTypes
<1>3. m \in Motors /\ gui[m] \in Guis
  BY <1>2 DEF Resps, TypeInv, PanelType
<1>4. g \in Guis
  BY <1>2, <1>3, ShownTypes
<1> HIDE DEF g, m, r
<1>5. gui' \in [Motors -> Guis] /\ timers' \in [Motors -> Timers]
  BY <1>1, <1>3, <1>4, MoveToType DEF TypeInv, PanelType
<1>6. PanelType'
  BY <1>1, <1>3, <1>5, QuietTypes DEF TypeInv, PanelType
<1> QED
  BY <1>1, <1>2, <1>6, QuietTypes DEF TypeInv

(* ... and by the service.                                                 *)
LEMMA PanelSame == ASSUME PanelType, UNCHANGED guiVars, inputs' = inputs PROVE PanelType'
BY DEF PanelType, guiVars

LEMMA HandleCommandTypes == ASSUME TypeInv, HandleCommand PROVE TypeInv'
<1> DEFINE c == Head(cmdq)
           m == c.m
<1>1. /\ c \in Cmds /\ Tail(cmdq) \in Seq(Cmds) /\ Len(Tail(cmdq)) = Len(cmdq) - 1
      /\ Len(cmdq) \in Nat /\ Len(cmdq) <= Depth /\ Depth \in Nat
  BY HeadTailProperties, BoundAssumption DEF TypeInv, TopicType, HandleCommand
<1>2. TopicType'
  BY <1>1 DEF TypeInv, TopicType, HandleCommand
<1>3. /\ m \in Motors /\ c.val \in Int /\ (c.op # "rpm" => c.val \in {0, 1})
      /\ obj[m] \in Objects /\ reg[m] \in Registers
      /\ (m = "stepper" => reg[m].speed \in StepperSpeedMin .. StepperSpeedMax)
  BY <1>1 DEF Cmds, TypeInv, MotorType
<1>4. \A r \in Registers :
        /\ Start(ClearFault(r)) \in Registers /\ Start(ClearFault(r)).speed = r.speed
        /\ ClearFault(Stop(r)) \in Registers /\ ClearFault(Stop(r)).speed = r.speed
        /\ \A v \in {0, 1} : SetDirection(r, v) \in Registers /\ SetDirection(r, v).speed = r.speed
  BY SwitchTypes
<1>5. MotorType'
  <2>1. CASE c.op = "start" /\ c.val = 1 /\ reg' = [reg EXCEPT ![m] = Start(ClearFault(@))]
             /\ dirBy' = [dirBy EXCEPT ![m] = "dir"] /\ UNCHANGED obj
    BY <1>3, <1>4, <2>1 DEF TypeInv, MotorType
  <2>2. CASE c.op = "start" /\ c.val # 1 /\ reg' = [reg EXCEPT ![m] = ClearFault(Stop(@))]
             /\ UNCHANGED <<obj, dirBy>>
    BY <1>3, <1>4, <2>2 DEF TypeInv, MotorType
  <2>3. CASE c.op = "dir" /\ reg' = [reg EXCEPT ![m] = SetDirection(@, c.val)]
             /\ dirBy' = [dirBy EXCEPT ![m] = "dir"] /\ UNCHANGED obj
    BY <1>3, <1>4, <2>3 DEF TypeInv, MotorType
  <2>4. CASE c.op = "rpm" /\ SpeedInRange(m, c.val)
             /\ reg' = [reg EXCEPT ![m] = SetSpeedRegs(m, obj[m], @, c.val)]
             /\ obj' = [obj EXCEPT ![m] = SetSpeedObject(m, @, c.val)] /\ UNCHANGED dirBy
    <3>1. SetSpeedObject(m, obj[m], c.val) \in Objects
      BY <1>3, <2>4, SpeedObjectType
    <3>2. /\ SetSpeedRegs(m, obj[m], reg[m], c.val) \in Registers
          /\ m = "stepper" => SetSpeedRegs(m, obj[m], reg[m], c.val).speed
                                  \in StepperSpeedMin .. StepperSpeedMax
      BY <1>3, <2>4, SpeedRegsType
    <3> QED
      BY <1>3, <2>4, <3>1, <3>2 DEF TypeInv, MotorType
  <2>5. CASE UNCHANGED motorVars
    BY <2>5, MotorSame DEF TypeInv
  <2> QED
    BY <2>1, <2>2, <2>3, <2>4, <2>5 DEF HandleCommand
<1> QED
  BY <1>2, <1>5, PanelSame DEF TypeInv, HandleCommand

(* apply_parameters.                                                       *)
LEMMA ApplyTypes ==
  ASSUME NEW m \in Motors, NEW o \in Objects, NEW r \in Registers,
         m = "stepper" => r.speed \in StepperSpeedMin .. StepperSpeedMax
  PROVE  /\ ApplyObject(m, o) \in Objects /\ ApplyRegs(m, o, r) \in Registers
         /\ m = "stepper" => ApplyRegs(m, o, r).speed \in StepperSpeedMin .. StepperSpeedMax
<1>1. /\ o.spec \in Int /\ o.spec > 0 /\ o.gain \in Int /\ o.rpm \in Int /\ o.steps \in Int
      /\ r.speed \in 0 .. RateLimitSize - 1 /\ r.rated \in Int
  BY DEF Objects, Registers
<1>2. ApplyObject(m, o) \in Objects
  <2>1. SpeedScale(o.spec) \in Int
    BY <1>1, ScaleType
  <2> QED
    BY <2>1 DEF ApplyObject, Objects
<1> DEFINE d == IF m = "bldc" THEN 1 ELSE IF o.steps < 0 THEN 1 ELSE 0
           v == IF m = "bldc" THEN r.speed ELSE ApplySlew(o)
           w == IF m = "bldc" THEN o.spec ELSE r.rated
<1>3. d \in {0, 1} /\ w \in Int
  BY <1>1
<1>4. ApplySlew(o) \in StepperSpeedMin .. StepperSpeedMax
  <2>1. /\ StepperSpeedMin \in Int /\ StepperSpeedMax \in Int
        /\ StepperSpeedMin <= 79 /\ 79 <= StepperSpeedMax
        /\ StepperSpeedMin <= StepperSpeedMax
    BY SMT DEF StepperSpeedMin, StepperSpeedMax
  <2>2. CASE o.rpm > 0
    <3>1. SlewCount(o.rpm, o.spec) \in Int
      BY <1>1, <2>2, SlewType
    <3> QED
      BY <2>1, <2>2, <3>1, ClampType DEF ApplySlew
  <2>3. CASE ~(o.rpm > 0)
    BY <2>1, <2>3, SMT DEF ApplySlew
  <2> QED
    BY <2>2, <2>3
<1>5. v \in 0 .. RateLimitSize - 1
  <2>1. StepperSpeedMin .. StepperSpeedMax \subseteq 0 .. RateLimitSize - 1
    BY SizeFacts, SMT DEF StepperSpeedMin, StepperSpeedMax
  <2> QED
    BY <1>1, <1>4, <2>1
<1>6. m = "stepper" => v \in StepperSpeedMin .. StepperSpeedMax
  BY <1>4
<1>7. ApplyRegs(m, o, r) = [r EXCEPT !.gain = o.gain, !.rated = w, !.dir = d, !.speed = v]
  BY SMT DEF ApplyRegs
<1> HIDE DEF d, v, w
<1> DEFINE r1 == [r EXCEPT !.gain = o.gain]
           r2 == [r1 EXCEPT !.rated = w]
           r3 == [r2 EXCEPT !.dir = d]
           r4 == [r3 EXCEPT !.speed = v]
<1>8. ApplyRegs(m, o, r) = r4
  BY <1>7, SMT
<1>9. r1 \in Registers
  BY <1>1, RegFields
<1> HIDE DEF r1
<1>10. r2 \in Registers
  BY <1>3, <1>9, RegFields
<1> HIDE DEF r2
<1>11. r3 \in Registers
  BY <1>3, <1>10, RegFields
<1> HIDE DEF r3
<1>12. r4 \in Registers /\ r4.speed = v
  BY <1>5, <1>11, SMT DEF Registers
<1> QED
  BY <1>2, <1>6, <1>8, <1>12

(* set_*_specs and set_*_params.                                           *)
LEMMA StoreTypes ==
  ASSUME NEW m \in Motors, NEW o \in Objects, NEW r \in Reqs
  PROVE  SetSpecs(o, r) \in Objects /\ SetParams(m, o, r) \in Objects
<1>1. r.spec \in Int /\ r.gain \in Int /\ r.rpm \in Int /\ r.steps \in Int
  BY DEF Reqs
<1>2. SetSpecs(o, r) \in Objects
  BY <1>1, WidthAssumption, SMT DEF SetSpecs, SpecsTaken, StoreSpecs, Objects
<1>3. StoreParams(m, o, r.gain, r.rpm, r.steps) \in Objects
  <2> DEFINE o1 == [o EXCEPT !.gain = r.gain]
             o2 == [o1 EXCEPT !.rpm = r.rpm]
             o3 == [o2 EXCEPT !.steps = r.steps]
  <2>1. StoreParams(m, o, r.gain, r.rpm, r.steps) = IF m = "bldc" THEN o1 ELSE o3
    BY SMT DEF StoreParams
  <2>2. o1 \in Objects
    BY <1>1, SMT DEF Objects
  <2> HIDE DEF o1
  <2>3. o2 \in Objects
    BY <1>1, <2>2, SMT DEF Objects
  <2> HIDE DEF o2
  <2>4. o3 \in Objects
    BY <1>1, <2>3, SMT DEF Objects
  <2> HIDE DEF o3
  <2> QED
    BY <2>1, <2>2, <2>4
<1> QED
  BY <1>2, <1>3 DEF SetParams

LEMMA HandleParamRequestTypes == ASSUME TypeInv, HandleParamRequest PROVE TypeInv'
<1> DEFINE r == Head(reqq)
           m == r.m
           o == obj[m]
<1>1. /\ r \in Reqs /\ Tail(reqq) \in Seq(Reqs) /\ Len(Tail(reqq)) = Len(reqq) - 1
      /\ Len(reqq) \in Nat /\ Len(reqq) <= Depth /\ Depth \in Nat
  BY HeadTailProperties, BoundAssumption DEF TypeInv, TopicType, HandleParamRequest
<1>2. /\ m \in Motors /\ o \in Objects /\ reg[m] \in Registers
      /\ (m = "stepper" => reg[m].speed \in StepperSpeedMin .. StepperSpeedMax)
  BY <1>1 DEF Reqs, TypeInv, MotorType
<1>3. respq' \in Seq(Resps) /\ Len(respq') <= Depth
  <2> DEFINE a == [m |-> r.m, id |-> r.id, spec |-> o.spec, gain |-> o.gain,
                   rpm |-> o.rpm, steps |-> o.steps]
  <2>1. a \in Resps
    <3>1. r.m \in Motors /\ r.id \in Nat
      BY <1>1 DEF Reqs
    <3>2. o.spec \in Int /\ o.gain \in Int /\ o.rpm \in Int /\ o.steps \in Int
      BY <1>2 DEF Objects
    <3> QED
      BY <3>1, <3>2 DEF Resps
  <2>2. respq' = Newest(Append(respq, a))
    BY DEF HandleParamRequest, Respond, GetAll, GetSpecs, GetParams
  <2> HIDE DEF a
  <2>3. Append(respq, a) \in Seq(Resps)
    BY <2>1, AppendProperties DEF TypeInv, TopicType
  <2> QED
    BY <2>2, <2>3, NewestFacts
<1>4. TopicType'
  BY <1>1, <1>3 DEF TypeInv, TopicType, HandleParamRequest
<1>5. MotorType'
  <2>1. CASE obj' = [obj EXCEPT ![m] = SetSpecs(o, r)] /\ UNCHANGED <<reg, dirBy>>
    BY <1>1, <1>2, <2>1, StoreTypes DEF TypeInv, MotorType
  <2>2. CASE obj' = [obj EXCEPT ![m] = SetParams(m, o, r)] /\ UNCHANGED <<reg, dirBy>>
    BY <1>1, <1>2, <2>2, StoreTypes DEF TypeInv, MotorType
  <2>3. CASE ApplyParams(m, o)
    <3>1. /\ ApplyObject(m, o) \in Objects /\ ApplyRegs(m, o, reg[m]) \in Registers
          /\ m = "stepper" => ApplyRegs(m, o, reg[m]).speed \in StepperSpeedMin .. StepperSpeedMax
      BY <1>2, ApplyTypes
    <3> QED
      BY <1>2, <2>3, <3>1 DEF TypeInv, MotorType, ApplyParams
  <2>4. CASE UNCHANGED motorVars
    BY <2>4, MotorSame DEF TypeInv
  <2> QED
    BY <2>1, <2>2, <2>3, <2>4 DEF HandleParamRequest
<1> QED
  BY <1>4, <1>5, PanelSame DEF TypeInv, HandleParamRequest

LEMMA ServiceEndsTypes ==
  ASSUME TypeInv, ServiceEnds, UNCHANGED reg \/ reg' = [m \in Motors |-> Stop(reg[m])]
  PROVE  TypeInv'
<1>1. PanelType'
  BY PanelSame DEF TypeInv, ServiceEnds
<1>2. TopicType'
  BY BoundAssumption DEF TypeInv, TopicType, ServiceEnds
<1>3. \A r \in Registers : Stop(r) \in Registers /\ Stop(r).speed = r.speed
  BY RegFields DEF Stop
<1>4. MotorType'
  BY <1>3 DEF TypeInv, MotorType, ServiceEnds
<1> QED
  BY <1>1, <1>2, <1>4 DEF TypeInv

LEMMA ServiceInitTypes == ASSUME TypeInv, ServiceInit PROVE TypeInv'
<1>1. PanelType'
  BY PanelSame DEF TypeInv, ServiceInit
<1>2. TopicType'
  BY DEF TypeInv, TopicType, ServiceInit, topics
<1>3. \A m \in Motors : NewMotor(m) \in Objects
  BY NewTypes
<1>4. \A m \in Motors : InitRegs(m, reg[m]) \in Registers /\ (m = "stepper" => InitRegs(m, reg[m]).speed = 79)
  BY StartedRegs DEF TypeInv, MotorType
<1>5. 79 \in StepperSpeedMin .. StepperSpeedMax
  BY SMT DEF StepperSpeedMin, StepperSpeedMax
<1>6. MotorType'
  BY <1>3, <1>4, <1>5 DEF MotorType, ServiceInit
<1> QED
  BY <1>1, <1>2, <1>6 DEF TypeInv

(* Every step keeps the types.                                             *)
LEMMA NextTypes == TypeInv /\ [Next]_vars => TypeInv'
<1> SUFFICES ASSUME TypeInv, [Next]_vars PROVE TypeInv'
  OBVIOUS
<1>1. ASSUME User PROVE TypeInv'
  BY <1>1, StartButtonTypes, StopButtonTypes, DirectionButtonTypes, MoveSliderTypes,
     EditInputsTypes, SetButtonTypes, GetButtonTypes, DefaultsButtonTypes DEF User
<1>2. ASSUME Dashboard PROVE TypeInv'
  BY <1>2, BldcSliderTypes, StepperSliderTypes, RefreshTimeoutTypes, ResponseIgnoredTypes,
     ResponseHandledTypes DEF Dashboard
<1>3. ASSUME Service PROVE TypeInv'
  BY <1>3, HandleCommandTypes, HandleParamRequestTypes, ServiceEndsTypes, ServiceInitTypes
  DEF Service, DestroyNode, ServiceKilled
<1>4. ASSUME UNCHANGED vars PROVE TypeInv'
  <2>1. UNCHANGED guiVars /\ UNCHANGED motorVars /\ UNCHANGED topics /\ svc' = svc /\ inputs' = inputs
    BY <1>4 DEF vars, guiVars, motorVars, topics
  <2> QED
    BY <2>1, PanelSame, MotorSame, TopicSame DEF TypeInv
<1> QED
  BY <1>1, <1>2, <1>3, <1>4 DEF Next

THEOREM Typed == Spec => []TypeInv
<1> QED
  BY InitTypes, NextTypes, PTL DEF Spec

(* The state has its types, whatever is sent and in whatever order: above  *)
(* all, no more than two slider callbacks are ever pending, a topic never  *)
(* passes its depth, and the stepper's SLEW_CNT stays in its range.        *)
THEOREM TypesCorrect == Spec => []TypeOK
<1>1. TypeInv => TypeOK
  BY DEF TypeInv, PanelType, TopicType, MotorType, TypeOK, Guis, Timers, Registers
<1> QED
  BY <1>1, Typed, PTL

-----------------------------------------------------------------------------
(* START, STOP and the direction.                                          *)
ButtonOps == {"start", "dir"}
Shown(m, op) == IF op = "start" THEN IF gui[m].run THEN 1 ELSE 0 ELSE gui[m].dir
Obeyed(m, op) ==
  IF op = "start" THEN (reg[m].start = 1 /\ reg[m].stop = 0) <=> Shown(m, op) = 1
                  ELSE dirBy[m] = "dir" => reg[m].dir = Shown(m, op)

(* Behind every START in q there is a direction.                           *)
Starts(x, m) == Is(x, m, "start") /\ x.val = 1
Followed(q, m) ==
  \A i \in DOMAIN q : Starts(q[i], m) => \E j \in DOMAIN q : j > i /\ Is(q[j], m, "dir")

ButtonInv ==
  \A m \in Motors, op \in ButtonOps :
    <<m, op>> \in good => /\ LastHas(cmdq, m, op, "val", Shown(m, op))
                          /\ <<m, op>> \notin Kinds(cmdq) => Obeyed(m, op)
                          /\ op = "dir" => Followed(cmdq, m)

LEMMA FollowedConcat ==
  ASSUME NEW S, NEW q \in Seq(S), NEW msgs \in Seq(S), NEW m, Followed(msgs, m),
         Followed(q, m) \/ <<m, "dir">> \in Kinds(msgs)
  PROVE  Followed(q \o msgs, m)
<1> DEFINE c == q \o msgs
<1>1. /\ Len(q) \in Nat /\ Len(msgs) \in Nat /\ DOMAIN q = 1 .. Len(q)
      /\ DOMAIN msgs = 1 .. Len(msgs) /\ DOMAIN c = 1 .. Len(q) + Len(msgs)
      /\ \A i \in 1 .. Len(q) : c[i] = q[i]
      /\ \A i \in 1 .. Len(msgs) : c[i + Len(q)] = msgs[i]
  BY ConcatProperties
<1> HIDE DEF c
<1> SUFFICES ASSUME NEW i \in 1 .. Len(q) + Len(msgs), Starts(c[i], m)
             PROVE  \E j \in 1 .. Len(q) + Len(msgs) : j > i /\ Is(c[j], m, "dir")
  BY <1>1 DEF Followed, c
<1>2. ASSUME NEW k \in 1 .. Len(msgs), Is(msgs[k], m, "dir"), k + Len(q) > i
      PROVE  \E j \in 1 .. Len(q) + Len(msgs) : j > i /\ Is(c[j], m, "dir")
  <2>1. k + Len(q) \in 1 .. Len(q) + Len(msgs) /\ c[k + Len(q)] = msgs[k]
    BY <1>1
  <2> QED
    BY <1>2, <2>1
<1>3. CASE i > Len(q)
  <2>1. i - Len(q) \in 1 .. Len(msgs) /\ c[i] = msgs[i - Len(q)]
    BY <1>1, <1>3
  <2>2. PICK k \in 1 .. Len(msgs) : k > i - Len(q) /\ Is(msgs[k], m, "dir")
    BY <1>1, <2>1 DEF Followed
  <2>3. k + Len(q) > i
    BY <1>1, <2>2
  <2> QED
    BY <1>2, <2>2, <2>3
<1>4. CASE i <= Len(q)
  <2>1. i \in 1 .. Len(q) /\ c[i] = q[i]
    BY <1>1, <1>4
  <2>2. CASE Followed(q, m)
    <3>1. PICK j \in 1 .. Len(q) : j > i /\ Is(q[j], m, "dir")
      BY <1>1, <2>1, <2>2 DEF Followed
    <3>2. j \in 1 .. Len(q) + Len(msgs) /\ c[j] = q[j]
      BY <1>1
    <3> QED
      BY <3>1, <3>2
  <2>3. CASE <<m, "dir">> \in Kinds(msgs)
    <3>1. PICK k \in 1 .. Len(msgs) : Is(msgs[k], m, "dir")
      BY <1>1, <2>3, KindsDef
    <3>2. k + Len(q) > i
      BY <1>1, <1>4
    <3> QED
      BY <1>2, <3>1, <3>2
  <2> QED
    BY <2>2, <2>3
<1> QED
  BY <1>1, <1>3, <1>4

LEMMA FollowedEnd ==
  ASSUME NEW S, NEW s \in Seq(S), NEW t \in Seq(S), NEW d \in Nat, Len(s) = Len(t) + d,
         \A i \in 1 .. Len(t) : t[i] = s[i + d], NEW m, Followed(s, m)
  PROVE  Followed(t, m)
<1>1. /\ Len(s) \in Nat /\ Len(t) \in Nat
      /\ DOMAIN s = 1 .. Len(s) /\ DOMAIN t = 1 .. Len(t)
  OBVIOUS
<1> SUFFICES ASSUME NEW i \in 1 .. Len(t), Starts(t[i], m)
             PROVE  \E j \in 1 .. Len(t) : j > i /\ Is(t[j], m, "dir")
  BY <1>1 DEF Followed
<1>2. i + d \in 1 .. Len(s) /\ t[i] = s[i + d]
  BY <1>1
<1>3. PICK j \in 1 .. Len(s) : j > i + d /\ Is(s[j], m, "dir")
  BY <1>1, <1>2 DEF Followed
<1>4. j - d \in 1 .. Len(t) /\ j - d > i /\ t[j - d] = s[j]
  BY <1>1, <1>3
<1> QED
  BY <1>3, <1>4

LEMMA FollowedDeliver ==
  ASSUME NEW S, NEW q \in Seq(S), NEW msgs \in Seq(S), svc = "up",
         NEW m, Followed(msgs, m), Followed(q, m) \/ <<m, "dir">> \in Kinds(msgs)
  PROVE  Followed(Deliver(q, msgs), m)
<1>1. q \o msgs \in Seq(S) /\ Followed(q \o msgs, m)
  BY FollowedConcat, ConcatProperties
<1>2. /\ Deliver(q, msgs) \in Seq(S)
      /\ \E d \in Nat : /\ Len(q \o msgs) = Len(Deliver(q, msgs)) + d
                        /\ \A i \in 1 .. Len(Deliver(q, msgs)) :
                             Deliver(q, msgs)[i] = (q \o msgs)[i + d]
  BY <1>1, NewestFacts DEF Deliver
<1> QED
  BY <1>1, <1>2, FollowedEnd

LEMMA FollowedShort ==
  ASSUME NEW m
  PROVE  /\ Followed(<<>>, m)
         /\ \A c : (c.op = "start" => c.val = 0) => Followed(<<c>>, m)
         /\ \A c, d : d.op = "dir" /\ c.m = d.m => Followed(<<c, d>>, m)
<1>1. \A c : (c.op = "start" => c.val = 0) => Followed(<<c>>, m)
  BY DEF Followed, Starts, Is
<1>2. \A c, d : d.op = "dir" /\ c.m = d.m => Followed(<<c, d>>, m)
  <2> SUFFICES ASSUME NEW c, NEW d, d.op = "dir", c.m = d.m PROVE Followed(<<c, d>>, m)
    OBVIOUS
  <2>1. ~Starts(d, m) /\ (Starts(c, m) => Is(d, m, "dir"))
    BY DEF Starts, Is
  <2>2. DOMAIN <<c, d>> = 1 .. 2 /\ <<c, d>>[1] = c /\ <<c, d>>[2] = d
    OBVIOUS
  <2> QED
    BY <2>1, <2>2 DEF Followed
<1> QED
  BY <1>1, <1>2 DEF Followed

(* Requests are not commands.                                              *)
LEMMA NoCommandAmongRequests ==
  ASSUME NEW q \in Seq(Reqs), NEW m, NEW op \in CmdOps
  PROVE  <<m, op>> \notin Kinds(q)
<1>1. \A i \in DOMAIN q : q[i].op \in ReqOps
  <2>1. \A i \in DOMAIN q : q[i] \in Reqs
    OBVIOUS
  <2>2. \A r \in Reqs : r.op \in ReqOps
    BY DEF Reqs
  <2> QED
    BY <2>1, <2>2
<1> QED
  BY <1>1, KindsDef DEF Is, CmdOps, ReqOps

LEMMA NoRequestAmongCommands ==
  ASSUME NEW q \in Seq(Cmds), NEW m, NEW op \in ReqOps
  PROVE  <<m, op>> \notin Kinds(q)
<1>1. \A i \in DOMAIN q : q[i].op \in CmdOps
  <2>1. \A i \in DOMAIN q : q[i] \in Cmds
    OBVIOUS
  <2>2. \A c \in Cmds : c.op \in CmdOps
    BY DEF Cmds
  <2> QED
    BY <2>1, <2>2
<1> QED
  BY <1>1, KindsDef DEF Is, CmdOps, ReqOps

(* What the library does to the registers a button is about.               *)
LEMMA SwitchEffects ==
  ASSUME NEW r \in Registers
  PROVE  /\ Start(ClearFault(r)).start = 1 /\ Start(ClearFault(r)).stop = 0
         /\ Start(ClearFault(r)).dir = r.dir
         /\ ClearFault(Stop(r)).start = 0 /\ ClearFault(Stop(r)).dir = r.dir
         /\ \A v : /\ SetDirection(r, v).start = r.start /\ SetDirection(r, v).stop = r.stop
                   /\ SetDirection(r, v).dir = v
BY SMT DEF Registers, Start, Stop, ClearFault, SetDirection

LEMMA SpeedEffects ==
  ASSUME NEW m, NEW o, NEW r \in Registers, NEW v
  PROVE  /\ SetSpeedRegs(m, o, r, v).start = r.start /\ SetSpeedRegs(m, o, r, v).stop = r.stop
         /\ SetSpeedRegs(m, o, r, v).dir = r.dir
BY SMT DEF Registers, SetSpeedRegs

LEMMA ApplyEffects ==
  ASSUME NEW m, NEW o, NEW r \in Registers
  PROVE  ApplyRegs(m, o, r).start = r.start /\ ApplyRegs(m, o, r).stop = r.stop
BY SMT DEF Registers, ApplyRegs

LEMMA InitButtons == Init => ButtonInv
BY DEF Init, ButtonInv

(* A handler that sends keeps the invariant if the last message of a kind  *)
(* it sends carries what the panel then shows, and the panel shows the     *)
(* same where it sends nothing.                                            *)
LEMMA SendButtons ==
  ASSUME TypeInv, ButtonInv, NEW cmds \in Seq(Cmds), NEW reqs \in Seq(Reqs),
         Send(cmds, reqs), svc' = svc, UNCHANGED motorVars,
         \A m \in Motors, op \in ButtonOps :
           /\ LastHas(cmds, m, op, "val", Shown(m, op)')
           /\ <<m, op>> \in Kinds(cmds) \/ Shown(m, op)' = Shown(m, op),
         \A m \in Motors : Followed(cmds, m)
  PROVE  ButtonInv'
<1> SUFFICES ASSUME NEW m \in Motors, NEW op \in ButtonOps, (<<m, op>> \in good)'
             PROVE  /\ LastHas(cmdq, m, op, "val", Shown(m, op))'
                    /\ <<m, op>> \notin Kinds(cmdq') => Obeyed(m, op)'
                    /\ op = "dir" => Followed(cmdq', m)
  BY DEF ButtonInv
<1>1. /\ TopicType' /\ svc = "up" /\ (<<m, op>> \in good \/ <<m, op>> \in Kinds(cmds))
      /\ Settled(m, op)' => Settled(m, op) /\ <<m, op>> \notin Kinds(cmds)
  BY SendFacts DEF TypeInv, ButtonOps, CmdOps
<1>2. <<m, op>> \notin Kinds(reqq')
  BY <1>1, NoCommandAmongRequests DEF TopicType, ButtonOps, CmdOps
<1>3. <<m, op>> \notin Kinds(cmds) => /\ LastHas(cmdq, m, op, "val", Shown(m, op)')
                                      /\ Shown(m, op)' = Shown(m, op)
  BY <1>1 DEF ButtonInv
<1>4. cmdq \in Seq(Cmds) /\ cmdq' = Deliver(cmdq, cmds)
  BY DEF TypeInv, TopicType, Send
<1>5. LastHas(cmdq', m, op, "val", Shown(m, op)')
  BY <1>1, <1>3, <1>4, LastOfDeliver
<1>6. ASSUME <<m, op>> \notin Kinds(cmdq') PROVE Obeyed(m, op)'
  <2>1. Settled(m, op) /\ <<m, op>> \notin Kinds(cmds)
    BY <1>1, <1>2, <1>6 DEF Settled
  <2>2. Obeyed(m, op) /\ Shown(m, op)' = Shown(m, op)
    BY <1>1, <1>3, <2>1 DEF ButtonInv, Settled
  <2> QED
    BY <2>2 DEF Obeyed, motorVars
<1>7. ASSUME op = "dir" PROVE Followed(cmdq', m)
  <2>1. Followed(cmdq, m) \/ <<m, "dir">> \in Kinds(cmds)
    BY <1>1, <1>7 DEF ButtonInv
  <2> QED
    BY <1>1, <1>4, <2>1, FollowedDeliver
<1> QED
  BY <1>5, <1>6, <1>7

(* A step that leaves alone all that the invariant is about.               *)
LEMMA SameButtons ==
  ASSUME ButtonInv, good' = good, cmdq' = cmdq,
         \A m \in Motors, op \in ButtonOps :
           Shown(m, op)' = Shown(m, op) /\ (Obeyed(m, op) => Obeyed(m, op)')
  PROVE  ButtonInv'
BY DEF ButtonInv

LEMMA UserButtons ==
  ASSUME TypeInv, ButtonInv, NEW m \in Motors,
         \/ StartButton(m) \/ StopButton(m) \/ DirectionButton(m) \/ MoveSlider(m)
         \/ EditInputs(m) \/ SetButton(m) \/ GetButton(m) \/ DefaultsButton(m)
  PROVE  ButtonInv'
<1>1. gui[m] \in Guis /\ gui[m].dir \in {0, 1} /\ gui[m].run \in BOOLEAN
  BY DEF TypeInv, PanelType, Guis
<1>2. UNCHANGED motorVars /\ svc' = svc
  BY DEF StartButton, StopButton, DirectionButton, MoveSlider, EditInputs, SetButton,
     GetButton, DefaultsButton, UserInput
<1>3. ASSUME NEW c \in Cmds, NEW n \in Motors, NEW op \in ButtonOps, NEW v,
             Is(c, n, op) => c.val = v
      PROVE  LastHas(<<c>>, n, op, "val", v)
  BY <1>3, OneMessage
<1>4. ASSUME StartButton(m) PROVE ButtonInv'
  <2> DEFINE c == Command(m, "start", 1)
             d == Command(m, "dir", gui[m].dir)
  <2>1. c \in Cmds /\ d \in Cmds
    BY <1>1, MessageTypes DEF TypeInv
  <2>2. Send(<<c, d>>, <<>>) /\ gui' = [gui EXCEPT ![m].run = TRUE] /\ gui \in [Motors -> Guis]
    BY <1>4 DEF StartButton, TypeInv, PanelType
  <2>3. c.m = m /\ c.op = "start" /\ c.val = 1 /\ d.m = m /\ d.op = "dir" /\ d.val = gui[m].dir
    BY DEF Command
  <2> HIDE DEF c, d
  <2>4. Shown(m, "start")' = 1 /\ Shown(m, "dir")' = gui[m].dir
    BY <2>2 DEF Shown, Guis
  <2>5. \A n \in Motors, op \in ButtonOps : n # m => Shown(n, op)' = Shown(n, op)
    BY <2>2 DEF Shown
  <2>6. ASSUME NEW n \in Motors, NEW op \in ButtonOps
        PROVE  /\ LastHas(<<c, d>>, n, op, "val", Shown(n, op)')
               /\ <<n, op>> \in Kinds(<<c, d>>) \/ Shown(n, op)' = Shown(n, op)
    <3>1. (Is(c, n, op) => c.val = Shown(n, op)') /\ (Is(d, n, op) => d.val = Shown(n, op)')
      BY <2>3, <2>4 DEF Is
    <3>2. n = m => Is(c, n, op) \/ Is(d, n, op)
      BY <2>3 DEF Is, ButtonOps
    <3>3. c.op # d.op
      BY <2>3
    <3> QED
      BY <2>5, <3>1, <3>2, <3>3, TwoMessages
  <2>7. <<c, d>> \in Seq(Cmds) /\ <<>> \in Seq(Reqs)
    BY <2>1
  <2>8. \A n \in Motors : Followed(<<c, d>>, n)
    BY <2>3, FollowedShort
  <2> QED
    BY <1>2, <2>2, <2>6, <2>7, <2>8, SendButtons
<1>5. ASSUME NEW c \in Cmds, NEW reqs \in Seq(Reqs), Send(<<c>>, reqs),
             c.op = "start" => c.val = 0,
             \A n \in Motors, op \in ButtonOps :
               /\ Is(c, n, op) => c.val = Shown(n, op)'
               /\ Is(c, n, op) \/ Shown(n, op)' = Shown(n, op)
      PROVE  ButtonInv'
  <2>1. <<c>> \in Seq(Cmds)
    OBVIOUS
  <2>2. \A n \in Motors, op \in ButtonOps :
          /\ LastHas(<<c>>, n, op, "val", Shown(n, op)')
          /\ <<n, op>> \in Kinds(<<c>>) \/ Shown(n, op)' = Shown(n, op)
    BY <1>5, OneMessage
  <2>3. \A n \in Motors : Followed(<<c>>, n)
    BY <1>5, FollowedShort
  <2> QED
    BY <1>2, <1>5, <2>1, <2>2, <2>3, SendButtons
<1>6. ASSUME StopButton(m) PROVE ButtonInv'
  <2> DEFINE c == Command(m, "start", 0)
  <2>1. /\ c \in Cmds /\ Send(<<c>>, <<>>) /\ gui' = [gui EXCEPT ![m].run = FALSE]
        /\ gui \in [Motors -> Guis] /\ <<>> \in Seq(Reqs)
    BY <1>6, MessageTypes DEF StopButton, TypeInv, PanelType
  <2>2. c.m = m /\ c.op = "start" /\ c.val = 0
    BY DEF Command
  <2> HIDE DEF c
  <2>3. ASSUME NEW n \in Motors, NEW op \in ButtonOps
        PROVE  /\ Is(c, n, op) => c.val = Shown(n, op)'
               /\ Is(c, n, op) \/ Shown(n, op)' = Shown(n, op)
    BY <2>1, <2>2 DEF Is, Shown, ButtonOps, Guis
  <2> QED
    BY <1>5, <2>1, <2>2, <2>3
<1>7. ASSUME DirectionButton(m) PROVE ButtonInv'
  <2> DEFINE c == Command(m, "dir", 1 - gui[m].dir)
  <2>1. /\ c \in Cmds /\ Send(<<c>>, <<>>) /\ gui' = [gui EXCEPT ![m].dir = 1 - @]
        /\ gui \in [Motors -> Guis] /\ <<>> \in Seq(Reqs)
    <3>1. 1 - gui[m].dir \in {0, 1}
      BY <1>1
    <3> QED
      BY <1>7, <3>1, MessageTypes DEF DirectionButton, TypeInv, PanelType
  <2>2. c.m = m /\ c.op = "dir" /\ c.val = 1 - gui[m].dir
    BY DEF Command
  <2> HIDE DEF c
  <2>3. ASSUME NEW n \in Motors, NEW op \in ButtonOps
        PROVE  /\ Is(c, n, op) => c.val = Shown(n, op)'
               /\ Is(c, n, op) \/ Shown(n, op)' = Shown(n, op)
    BY <2>1, <2>2 DEF Is, Shown, ButtonOps, Guis
  <2> QED
    BY <1>5, <2>1, <2>2, <2>3
<1>8. ASSUME MoveSlider(m) \/ EditInputs(m) \/ SetButton(m) \/ GetButton(m) \/ DefaultsButton(m)
      PROVE  \A n \in Motors, op \in ButtonOps : Shown(n, op)' = Shown(n, op)
  <2>1. \A n \in Motors : gui'[n].run = gui[n].run /\ gui'[n].dir = gui[n].dir
    <3>1. ASSUME NEW g, gui' = [gui EXCEPT ![m] = g], g.run = gui[m].run, g.dir = gui[m].dir
          PROVE  \A n \in Motors : gui'[n].run = gui[n].run /\ gui'[n].dir = gui[n].dir
      BY <3>1 DEF TypeInv, PanelType
    <3>2. CASE MoveSlider(m)
      BY <1>1, <3>1, <3>2 DEF MoveSlider, TypeInv, PanelType, Guis
    <3>3. CASE EditInputs(m)
      <4>1. PICK s \in Specs[m], g \in Gains,
                 r \in IF m = "stepper" THEN Speeds[m] ELSE {DefaultRpm},
                 n \in IF m = "stepper" THEN Steps ELSE {DefaultSteps} :
              gui' = [gui EXCEPT ![m].spec = s, ![m].gain = g, ![m].rpm = r, ![m].steps = n]
        BY <3>3 DEF EditInputs
      <4> DEFINE h == [gui[m] EXCEPT !.spec = s, !.gain = g, !.rpm = r, !.steps = n]
      <4>2. gui' = [gui EXCEPT ![m] = h]
        BY <4>1 DEF TypeInv, PanelType
      <4>3. h.run = gui[m].run /\ h.dir = gui[m].dir
        BY <1>1, SMT DEF Guis
      <4> QED
        BY <3>1, <4>2, <4>3
    <3>4. CASE SetButton(m)
      BY <1>1, <3>4 DEF SetButton, TypeInv, PanelType, Guis
    <3>5. CASE GetButton(m)
      BY <1>1, <3>5 DEF GetButton, TypeInv, PanelType, Guis
    <3>6. CASE DefaultsButton(m)
      <4>1. PICK g : /\ gui' = [gui EXCEPT ![m] = g]
                     /\ g = IF m = "bldc" THEN BldcDefaults(gui[m]) ELSE StepperDefaults(gui[m])
        BY <3>6 DEF DefaultsButton
      <4>2. /\ BldcDefaults(gui[m]).run = gui[m].run /\ BldcDefaults(gui[m]).dir = gui[m].dir
        BY <1>1, SMT DEF BldcDefaults, Guis
      <4>3. StepperDefaults(gui[m]).run = gui[m].run /\ StepperDefaults(gui[m]).dir = gui[m].dir
        BY <1>1, SMT DEF StepperDefaults, Guis
      <4> QED
        BY <3>1, <4>1, <4>2, <4>3
    <3> QED
      BY <1>8, <3>2, <3>3, <3>4, <3>5, <3>6
  <2> QED
    BY <2>1 DEF Shown
<1>9. ASSUME MoveSlider(m) \/ EditInputs(m) \/ DefaultsButton(m) PROVE ButtonInv'
  <2>1. good' = good /\ cmdq' = cmdq
    BY <1>9 DEF MoveSlider, EditInputs, DefaultsButton, topics
  <2>2. \A n \in Motors, op \in ButtonOps : Obeyed(n, op) => Obeyed(n, op)'
    BY <1>2, <1>8, <1>9 DEF Obeyed, motorVars
  <2> QED
    BY <1>8, <1>9, <2>1, <2>2, SameButtons
<1>10. ASSUME SetButton(m) PROVE ButtonInv'
  <2> DEFINE v == IF m = "bldc" THEN gui[m].slider ELSE RpmToSlew(gui[m].slider)
             c == Command(m, "rpm", v)
             reqs == <<Request(m, "set_specs", 0), Request(m, "set_params", 0), Request(m, "apply", 0)>>
  <2>1. Send(<<c>>, reqs)
    BY <1>10 DEF SetButton
  <2>2. v \in Int
    BY <1>1, SlewRange DEF Guis
  <2>3. c.op = "rpm" /\ c \in Cmds
    BY <2>2, MessageTypes DEF Command, TypeInv
  <2>4. reqs \in Seq(Reqs)
    <3>1. /\ Request(m, "set_specs", 0) \in Reqs /\ Request(m, "set_params", 0) \in Reqs
          /\ Request(m, "apply", 0) \in Reqs
      BY MessageTypes DEF TypeInv, ReqOps
    <3> QED
      BY <3>1
  <2> HIDE DEF c, reqs
  <2>5. \A n \in Motors, op \in ButtonOps : ~Is(c, n, op)
    BY <2>3 DEF Is, ButtonOps
  <2> QED
    BY <1>5, <1>8, <1>10, <2>1, <2>3, <2>4, <2>5
<1>11. ASSUME GetButton(m) PROVE ButtonInv'
  <2> DEFINE reqs == <<Request(m, "get_all", inputs')>>
  <2>1. Send(<<>>, reqs) /\ <<>> \in Seq(Cmds)
    BY <1>11 DEF GetButton
  <2>2. reqs \in Seq(Reqs)
    <3>1. inputs' \in Nat
      BY <1>11 DEF GetButton, UserInput, TypeInv, PanelType
    <3> QED
      BY <3>1, MessageTypes DEF TypeInv, ReqOps
  <2> HIDE DEF reqs
  <2>3. \A n \in Motors, op \in ButtonOps : LastHas(<<>>, n, op, "val", Shown(n, op)')
    BY NoMessage
  <2>4. \A n \in Motors : Followed(<<>>, n)
    BY FollowedShort
  <2> QED
    BY <1>2, <1>8, <1>11, <2>1, <2>2, <2>3, <2>4, SendButtons
<1> QED
  BY <1>4, <1>6, <1>7, <1>9, <1>10, <1>11

LEMMA CallbackButtons ==
  ASSUME TypeInv, ButtonInv, Dashboard PROVE ButtonInv'
<1>1. Quietly
  BY DEF Dashboard, BldcSliderFires, StepperSliderFires, RefreshTimeout, ResponseIgnored,
     ResponseHandled
<1>2. UNCHANGED motorVars /\ svc' = svc
  BY <1>1 DEF Quietly
<1>3. ASSUME NEW m \in Motors, NEW g, gui' = [gui EXCEPT ![m] = g],
             g.run = gui[m].run, g.dir = gui[m].dir
      PROVE  \A n \in Motors, op \in ButtonOps : Shown(n, op)' = Shown(n, op)
  BY <1>3 DEF Shown, TypeInv, PanelType
<1>4. ASSUME NEW m \in Motors, NEW v \in Int, Send(<<Command(m, "rpm", v)>>, <<>>),
             \A n \in Motors, op \in ButtonOps : Shown(n, op)' = Shown(n, op)
      PROVE  ButtonInv'
  <2> DEFINE c == Command(m, "rpm", v)
  <2>1. c.op = "rpm" /\ c \in Cmds
    BY MessageTypes DEF Command, TypeInv
  <2>2. Send(<<c>>, <<>>) /\ <<>> \in Seq(Reqs)
    BY <1>4
  <2> HIDE DEF c
  <2>3. <<c>> \in Seq(Cmds)
    BY <2>1
  <2>4. \A n \in Motors, op \in ButtonOps : LastHas(<<c>>, n, op, "val", Shown(n, op)')
    BY <2>1, OneMessage DEF Is, ButtonOps
  <2>5. \A n \in Motors : Followed(<<c>>, n)
    BY <2>1, FollowedShort
  <2> QED
    BY <1>2, <1>4, <2>2, <2>3, <2>4, <2>5, SendButtons
<1>5. CASE BldcSliderFires
  <2> DEFINE v == IF gui["bldc"].slider > gui["bldc"].spec THEN gui["bldc"].spec
                  ELSE gui["bldc"].slider
             h == [gui["bldc"] EXCEPT !.slider = v]
  <2>1. /\ "bldc" \in Motors /\ gui["bldc"] \in Guis
        /\ gui' = [gui EXCEPT !["bldc"] = h] /\ Send(<<Command("bldc", "rpm", v)>>, <<>>)
    BY <1>5 DEF BldcSliderFires, TypeInv, PanelType
  <2>2. v \in Int
    BY <2>1 DEF Guis
  <2> HIDE DEF v
  <2>3. h.run = gui["bldc"].run /\ h.dir = gui["bldc"].dir
    BY <2>1, SMT DEF Guis
  <2> QED
    BY <1>3, <1>4, <2>1, <2>2, <2>3
<1>6. CASE StepperSliderFires
  <2> DEFINE v == RpmToSlew(gui["stepper"].slider)
             h == [gui["stepper"] EXCEPT !.rpm = gui["stepper"].slider]
  <2>1. /\ "stepper" \in Motors /\ gui["stepper"] \in Guis
        /\ gui' = [gui EXCEPT !["stepper"] = h] /\ Send(<<Command("stepper", "rpm", v)>>, <<>>)
    BY <1>6 DEF StepperSliderFires, TypeInv, PanelType
  <2>2. v \in Int
    BY <2>1, SlewRange DEF Guis
  <2> HIDE DEF v
  <2>3. h.run = gui["stepper"].run /\ h.dir = gui["stepper"].dir
    BY <2>1, SMT DEF Guis
  <2> QED
    BY <1>3, <1>4, <2>1, <2>2, <2>3
<1>7. ASSUME \A n \in Motors, op \in ButtonOps : Shown(n, op)' = Shown(n, op),
             good' = good, cmdq' = cmdq
      PROVE  ButtonInv'
  <2>1. \A n \in Motors, op \in ButtonOps : Obeyed(n, op) => Obeyed(n, op)'
    BY <1>2, <1>7 DEF Obeyed, motorVars
  <2> QED
    BY <1>7, <2>1, SameButtons
<1>8. CASE \E m \in Motors : RefreshTimeout(m)
  <2>1. PICK m \in Motors : RefreshTimeout(m)
    BY <1>8
  <2> DEFINE h == [gui[m] EXCEPT !.status = "timeout"]
  <2>2. gui[m] \in Guis /\ gui' = [gui EXCEPT ![m] = h] /\ good' = good /\ cmdq' = cmdq
    BY <2>1 DEF RefreshTimeout, topics, TypeInv, PanelType
  <2>3. h.run = gui[m].run /\ h.dir = gui[m].dir
    BY <2>2, SMT DEF Guis
  <2> QED
    BY <1>3, <1>7, <2>2, <2>3
<1>9. CASE ResponseIgnored
  BY <1>7, <1>9 DEF ResponseIgnored, guiVars, Shown
<1>10. CASE ResponseHandled
  <2> DEFINE r == Head(respq)
             m == r.m
             h == IF m = "bldc" THEN BldcShown(gui[m], r) ELSE StepperShown(gui[m], r)
  <2>1. gui' = [gui EXCEPT ![m] = h] /\ good' = good /\ cmdq' = cmdq
    BY <1>10 DEF ResponseHandled
  <2>2. m \in Motors /\ gui[m] \in Guis
    BY <1>1, <1>10, ResponseTaken, QuietTypes DEF ResponseHandled, Resps, TypeInv, PanelType
  <2>3. BldcShown(gui[m], r).run = gui[m].run /\ BldcShown(gui[m], r).dir = gui[m].dir
    BY <2>2, SMT DEF BldcShown, Guis
  <2>4. StepperShown(gui[m], r).run = gui[m].run /\ StepperShown(gui[m], r).dir = gui[m].dir
    BY <2>2, SMT DEF StepperShown, Guis
  <2>5. h.run = gui[m].run /\ h.dir = gui[m].dir
    BY <2>3, <2>4
  <2> HIDE DEF h, m
  <2> QED
    BY <1>3, <1>7, <2>1, <2>2, <2>5
<1> QED
  BY <1>5, <1>6, <1>8, <1>9, <1>10 DEF Dashboard

(* The service takes the oldest command.                                   *)
LEMMA CommandButtons ==
  ASSUME TypeInv, ButtonInv, HandleCommand PROVE ButtonInv'
<1> DEFINE c == Head(cmdq)
<1>1. /\ cmdq \in Seq(Cmds) /\ cmdq # <<>> /\ cmdq' = Tail(cmdq) /\ good' = good /\ gui' = gui
      /\ c \in Cmds
  BY HeadTailProperties DEF HandleCommand, guiVars, TypeInv, TopicType
<1>2. /\ c.m \in Motors /\ c.op \in CmdOps /\ (c.op # "rpm" => c.val \in {0, 1})
      /\ reg \in [Motors -> Registers] /\ reg[c.m] \in Registers
      /\ dirBy \in [Motors -> {"init", "dir", "apply"}]
  BY <1>1 DEF Cmds, TypeInv, MotorType
<1>3. <<c.m, c.op>> \in Kinds(cmdq)
  BY <1>1, KindsOfTail
(* What the command does to the registers a button is about.               *)
<1>4. ASSUME NEW m \in Motors, m # c.m PROVE reg'[m] = reg[m] /\ dirBy'[m] = dirBy[m]
  BY <1>2, <1>4 DEF HandleCommand, motorVars
<1>5. c.op = "start" => /\ (reg'[c.m].start = 1 /\ reg'[c.m].stop = 0) <=> c.val = 1
                        /\ reg'[c.m].dir = reg[c.m].dir
                        /\ c.val # 1 => dirBy' = dirBy
  BY <1>2, SwitchEffects DEF HandleCommand
<1>6. c.op = "dir" => /\ reg'[c.m].start = reg[c.m].start /\ reg'[c.m].stop = reg[c.m].stop
                      /\ reg'[c.m].dir = c.val
  BY <1>2, SwitchEffects DEF HandleCommand
<1>7. c.op = "rpm" => /\ reg'[c.m].start = reg[c.m].start /\ reg'[c.m].stop = reg[c.m].stop
                      /\ reg'[c.m].dir = reg[c.m].dir /\ dirBy' = dirBy
  BY <1>2, SpeedEffects DEF HandleCommand, motorVars
<1> SUFFICES ASSUME NEW m \in Motors, NEW op \in ButtonOps, <<m, op>> \in good
             PROVE  /\ LastHas(Tail(cmdq), m, op, "val", Shown(m, op))
                    /\ <<m, op>> \notin Kinds(Tail(cmdq)) => Obeyed(m, op)'
                    /\ op = "dir" => Followed(Tail(cmdq), m)
  BY <1>1 DEF ButtonInv, Shown
<1>8. /\ LastHas(Tail(cmdq), m, op, "val", Shown(m, op))
      /\ <<m, op>> \in Kinds(cmdq) /\ <<m, op>> \notin Kinds(Tail(cmdq))
           => Is(c, m, op) /\ c["val"] = Shown(m, op)
  BY <1>1, LastOfTail DEF ButtonInv
<1>9. Shown(m, op)' = Shown(m, op)
  BY <1>1 DEF Shown
<1>10. ASSUME op = "dir" PROVE Followed(Tail(cmdq), m)
  <2>1. /\ Tail(cmdq) \in Seq(Cmds) /\ Len(cmdq) = Len(Tail(cmdq)) + 1
        /\ \A i \in 1 .. Len(Tail(cmdq)) : Tail(cmdq)[i] = cmdq[i + 1]
    BY <1>1, HeadTailProperties
  <2>2. Followed(cmdq, m)
    BY <1>10 DEF ButtonInv
  <2> QED
    BY <1>1, <2>1, <2>2, FollowedEnd
<1>11. CASE <<m, op>> \notin Kinds(cmdq)
  <2>1. Obeyed(m, op)
    BY <1>11 DEF ButtonInv
  <2>2. m = c.m => c.op # op
    BY <1>3, <1>11
  (* A START has a direction behind it.                                    *)
  <2>3. ASSUME m = c.m, op = "dir", c.op = "start", c.val = 1 PROVE FALSE
    <3>1. Followed(cmdq, m) /\ Starts(c, m)
      BY <2>3 DEF ButtonInv, Starts, Is
    <3>2. 1 \in DOMAIN cmdq /\ cmdq[1] = c
      BY <1>1, HeadTailProperties
    <3>3. <<m, "dir">> \in Kinds(cmdq)
      BY <3>1, <3>2, KindsDef DEF Followed
    <3> QED
      BY <1>11, <2>3, <3>3
  <2>4. Obeyed(m, op)'
    <3>1. CASE op = "start"
      BY <1>2, <1>4, <1>6, <1>7, <1>9, <2>1, <2>2, <3>1 DEF Obeyed, CmdOps
    <3>2. CASE op = "dir"
      BY <1>2, <1>4, <1>5, <1>7, <1>9, <2>1, <2>2, <2>3, <3>2 DEF Obeyed, CmdOps
    <3> QED
      BY <3>1, <3>2 DEF ButtonOps
  <2> QED
    BY <1>8, <1>10, <2>4
<1>12. CASE Is(c, m, op) /\ c.val = Shown(m, op)
  <2>1. Obeyed(m, op)'
    BY <1>2, <1>5, <1>6, <1>9, <1>12 DEF Obeyed, ButtonOps, Is
  <2> QED
    BY <1>8, <1>10, <2>1
<1> QED
  BY <1>8, <1>10, <1>11, <1>12

LEMMA RequestButtons ==
  ASSUME TypeInv, ButtonInv, HandleParamRequest PROVE ButtonInv'
<1> DEFINE r == Head(reqq)
<1>1. /\ cmdq' = cmdq /\ good' = good /\ gui' = gui /\ r \in Reqs
  BY HeadTailProperties DEF HandleParamRequest, guiVars, TypeInv, TopicType
<1>2. /\ r.m \in Motors /\ reg \in [Motors -> Registers] /\ reg[r.m] \in Registers
      /\ dirBy \in [Motors -> {"init", "dir", "apply"}]
  BY <1>1 DEF Reqs, TypeInv, MotorType
<1>3. ASSUME NEW m \in Motors
      PROVE  /\ reg'[m].start = reg[m].start /\ reg'[m].stop = reg[m].stop
             /\ dirBy'[m] = "dir" => dirBy[m] = "dir" /\ reg'[m].dir = reg[m].dir
  <2>1. CASE UNCHANGED <<reg, dirBy>>
    BY <2>1
  <2>2. CASE ApplyParams(r.m, obj[r.m])
    BY <1>2, <2>2, ApplyEffects DEF ApplyParams
  <2> QED
    BY <2>1, <2>2 DEF HandleParamRequest, motorVars
<1>4. \A m \in Motors, op \in ButtonOps :
        Shown(m, op)' = Shown(m, op) /\ (Obeyed(m, op) => Obeyed(m, op)')
  BY <1>1, <1>3 DEF Shown, Obeyed
<1> QED
  BY <1>1, <1>4, SameButtons

LEMMA NextButtons == TypeInv /\ ButtonInv /\ [Next]_vars => ButtonInv'
<1> SUFFICES ASSUME TypeInv, ButtonInv, [Next]_vars PROVE ButtonInv'
  OBVIOUS
<1>1. CASE User
  BY <1>1, UserButtons DEF User
<1>2. CASE Dashboard
  BY <1>2, CallbackButtons
<1>3. CASE Service
  <2>1. CASE ServiceEnds
    BY <2>1 DEF ServiceEnds, ButtonInv
  <2>2. CASE ServiceInit
    <3>1. good' = {}
      BY <2>2 DEF ServiceInit, topics, TypeInv, TopicType
    <3> QED
      BY <3>1 DEF ButtonInv
  <2> QED
    BY <1>3, <2>1, <2>2, CommandButtons, RequestButtons DEF Service, DestroyNode, ServiceKilled
<1>4. CASE UNCHANGED vars
  <2>1. gui' = gui /\ good' = good /\ cmdq' = cmdq /\ reg' = reg /\ dirBy' = dirBy
    BY <1>4 DEF vars
  <2> QED
    BY <2>1, SameButtons DEF Shown, Obeyed
<1> QED
  BY <1>1, <1>2, <1>3, <1>4 DEF Next

THEOREM ButtonsTracked == Spec => []ButtonInv
<1> QED
  BY InitButtons, NextButtons, Typed, PTL DEF Spec

(* START and STOP: when the last start or stop click of a panel has been   *)
(* handled and was not lost, the registers say what the panel says.        *)
THEOREM RunCorrect == Spec => []RunAgrees
<1>1. TypeInv /\ ButtonInv => RunAgrees
  <2> SUFFICES ASSUME TypeInv, ButtonInv, NEW m \in Motors, <<m, "start">> \in good,
                      <<m, "start">> \notin Kinds(cmdq)
               PROVE  (reg[m].start = 1 /\ reg[m].stop = 0) <=> gui[m].run
    BY DEF RunAgrees, Settled
  <2>1. Obeyed(m, "start")
    BY DEF ButtonInv, ButtonOps
  <2>2. gui[m].run \in BOOLEAN
    BY DEF TypeInv, PanelType, Guis
  <2> QED
    BY <2>1, <2>2 DEF Obeyed, Shown
<1> QED
  BY <1>1, Typed, ButtonsTracked, PTL

(* The direction: the motor turns the way the panel shows once a START or  *)
(* a direction command was handled after the last apply or restart.        *)
THEOREM DirectionCorrect == Spec => []DirAgrees
<1>1. ButtonInv => DirAgrees
  BY DEF ButtonInv, ButtonOps, Shown, Obeyed, DirAgrees, Settled
<1> QED
  BY <1>1, ButtonsTracked, PTL

-----------------------------------------------------------------------------
(* SET and GET.  Four things are kept together: ids are what GetButton     *)
(* gave out; while a GET is waited for and was not overtaken, no SET for   *)
(* the same motor is behind it; its answer is still true of the service    *)
(* and no SET is on its way; and what the panel shows is in the last SET   *)
(* on its way, or with the service.                                        *)
SetOps == {"set_specs", "set_params"}
SetGood(m)  == \A op \in SetOps : <<m, op>> \in good
NoSet(q, m) == \A op \in SetOps : <<m, op>> \notin Kinds(q)

IdsRight(r, n) == r.id <= n /\ (r.op # "get_all" => r.id = 0)
IdInv ==
  /\ \A i \in DOMAIN reqq : IdsRight(reqq[i], inputs)
  /\ \A i \in DOMAIN respq : respq[i].id <= inputs

(* A SET for its motor comes after the GET with handler h.                 *)
Overtakes(q, h) ==
  \E i, j \in DOMAIN q : /\ i < j /\ <<q[i].id, q[i].m>> = h
                         /\ q[j].m = h[2] /\ q[j].op \in SetOps
OrderInv == \A h \in handlers : ~overtaken[h[2]] => ~Overtakes(reqq, h)

Fresh(r) ==
  <<r.id, r.m>> \in handlers /\ ~overtaken[r.m] /\ SetGood(r.m)
    => NoSet(reqq, r.m) /\ r.spec = obj[r.m].spec /\ r.gain = obj[r.m].gain
FreshInv == \A i \in DOMAIN respq : Fresh(respq[i])

Held(m) ==
  /\ LastHas(reqq, m, "set_specs", "spec", gui[m].spec)
  /\ LastHas(reqq, m, "set_params", "gain", gui[m].gain)
  /\ <<m, "set_specs">> \notin Kinds(reqq) \union refused => gui[m].spec = obj[m].spec
  /\ <<m, "set_params">> \notin Kinds(reqq) \union refused => gui[m].gain = obj[m].gain
HeldInv == \A m \in Motors : ~edited[m] /\ ~overtaken[m] /\ SetGood(m) => Held(m)

InputInv == IdInv /\ OrderInv /\ FreshInv /\ HeldInv

LEMMA NotThere ==
  ASSUME NEW q, NEW m, NEW op, NEW f, NEW v, <<m, op>> \notin Kinds(q)
  PROVE  LastHas(q, m, op, f, v)
BY KindsDef DEF LastHas

LEMMA OvertakesEnd ==
  ASSUME NEW S, NEW s \in Seq(S), NEW t \in Seq(S), NEW d \in Nat, Len(s) = Len(t) + d,
         \A i \in 1 .. Len(t) : t[i] = s[i + d], NEW h, Overtakes(t, h)
  PROVE  Overtakes(s, h)
<1>1. /\ Len(s) \in Nat /\ Len(t) \in Nat
      /\ DOMAIN s = 1 .. Len(s) /\ DOMAIN t = 1 .. Len(t)
  OBVIOUS
<1>2. PICK i \in 1 .. Len(t), j \in 1 .. Len(t) :
        i < j /\ <<t[i].id, t[i].m>> = h /\ t[j].m = h[2] /\ t[j].op \in SetOps
  BY <1>1 DEF Overtakes
<1>3. /\ i + d \in 1 .. Len(s) /\ j + d \in 1 .. Len(s) /\ i + d < j + d
      /\ t[i] = s[i + d] /\ t[j] = s[j + d]
  BY <1>1, <1>2
<1> QED
  BY <1>1, <1>2, <1>3 DEF Overtakes

LEMMA OvertakesConcat ==
  ASSUME NEW S, NEW q \in Seq(S), NEW msgs \in Seq(S), NEW h, NoSet(msgs, h[2]),
         Overtakes(q \o msgs, h)
  PROVE  Overtakes(q, h)
<1>1. /\ Len(q) \in Nat /\ Len(msgs) \in Nat /\ DOMAIN q = 1 .. Len(q)
      /\ DOMAIN msgs = 1 .. Len(msgs) /\ DOMAIN (q \o msgs) = 1 .. Len(q) + Len(msgs)
      /\ \A i \in 1 .. Len(q) : (q \o msgs)[i] = q[i]
      /\ \A i \in 1 .. Len(msgs) : (q \o msgs)[i + Len(q)] = msgs[i]
  BY ConcatProperties
<1> DEFINE c == q \o msgs
<1>2. PICK i \in 1 .. Len(q) + Len(msgs), j \in 1 .. Len(q) + Len(msgs) :
        i < j /\ <<c[i].id, c[i].m>> = h /\ c[j].m = h[2] /\ c[j].op \in SetOps
  BY <1>1 DEF Overtakes
<1>3. j <= Len(q)
  <2> SUFFICES ASSUME j > Len(q) PROVE FALSE
    BY <1>1
  <2>1. j - Len(q) \in 1 .. Len(msgs) /\ c[j] = msgs[j - Len(q)]
    BY <1>1
  <2>2. <<h[2], msgs[j - Len(q)].op>> \in Kinds(msgs)
    BY <1>1, <1>2, <2>1 DEF Kinds
  <2> QED
    BY <1>2, <2>1, <2>2 DEF NoSet
<1>4. i \in 1 .. Len(q) /\ j \in 1 .. Len(q) /\ c[i] = q[i] /\ c[j] = q[j]
  BY <1>1, <1>2, <1>3
<1> QED
  BY <1>1, <1>2, <1>4 DEF Overtakes

LEMMA OvertakesDeliver ==
  ASSUME NEW S, NEW q \in Seq(S), NEW msgs \in Seq(S), NEW h, NoSet(msgs, h[2]),
         Overtakes(Deliver(q, msgs), h)
  PROVE  Overtakes(q, h)
<1>1. CASE svc = "up"
  <2>1. q \o msgs \in Seq(S)
    BY ConcatProperties
  <2>2. /\ Deliver(q, msgs) = Newest(q \o msgs) /\ Newest(q \o msgs) \in Seq(S)
        /\ \E d \in Nat : /\ Len(q \o msgs) = Len(Newest(q \o msgs)) + d
                          /\ \A i \in 1 .. Len(Newest(q \o msgs)) :
                               Newest(q \o msgs)[i] = (q \o msgs)[i + d]
    BY <1>1, <2>1, NewestFacts DEF Deliver
  <2>3. Overtakes(q \o msgs, h)
    BY <2>1, <2>2, OvertakesEnd
  <2> QED
    BY <2>3, OvertakesConcat
<1> QED
  BY <1>1 DEF Deliver

LEMMA OvertakesHead ==
  ASSUME NEW S, NEW q \in Seq(S), q # <<>>, ~NoSet(Tail(q), Head(q).m)
  PROVE  Overtakes(q, <<Head(q).id, Head(q).m>>)
<1>1. /\ Len(q) \in Nat /\ Len(q) >= 1 /\ Head(q) = q[1]
      /\ Tail(q) \in Seq(S) /\ Len(q) = Len(Tail(q)) + 1
      /\ \A i \in 1 .. Len(Tail(q)) : Tail(q)[i] = q[i + 1]
      /\ DOMAIN q = 1 .. Len(q) /\ DOMAIN Tail(q) = 1 .. Len(Tail(q))
  BY HeadTailProperties
<1>2. PICK op \in SetOps : <<Head(q).m, op>> \in Kinds(Tail(q))
  BY DEF NoSet
<1>3. PICK j \in 1 .. Len(Tail(q)) : Is(Tail(q)[j], Head(q).m, op)
  BY <1>1, <1>2, KindsDef
<1>4. j + 1 \in 1 .. Len(q) /\ 1 \in 1 .. Len(q) /\ 1 < j + 1 /\ q[j + 1] = Tail(q)[j]
  BY <1>1
<1>5. q[j + 1].m = q[1].m /\ q[j + 1].op \in SetOps
  BY <1>1, <1>3, <1>4 DEF Is
<1> DEFINE h == <<Head(q).id, Head(q).m>>
<1>6. <<q[1].id, q[1].m>> = h /\ h[2] = q[1].m
  BY <1>1
<1> HIDE DEF h
<1>7. Overtakes(q, h)
  BY <1>1, <1>4, <1>5, <1>6 DEF Overtakes
<1> QED
  BY <1>7 DEF h

(* What is in a shorter queue was in the longer one.                       *)
LEMMA DeliverElements ==
  ASSUME NEW S, NEW q \in Seq(S), NEW msgs \in Seq(S), NEW i \in DOMAIN Deliver(q, msgs)
  PROVE  \/ \E j \in DOMAIN q : Deliver(q, msgs)[i] = q[j]
         \/ \E j \in DOMAIN msgs : Deliver(q, msgs)[i] = msgs[j]
<1>1. CASE svc = "up"
  <2> DEFINE s == q \o msgs
             t == Newest(s)
  <2>1. /\ Len(q) \in Nat /\ Len(msgs) \in Nat /\ DOMAIN q = 1 .. Len(q)
        /\ DOMAIN msgs = 1 .. Len(msgs) /\ s \in Seq(S) /\ Len(s) = Len(q) + Len(msgs)
        /\ \A k \in 1 .. Len(q) : s[k] = q[k]
        /\ \A k \in 1 .. Len(msgs) : s[k + Len(q)] = msgs[k]
    BY ConcatProperties
  <2>2. t = Deliver(q, msgs)
    BY <1>1 DEF Deliver
  <2> HIDE DEF s
  <2>3. t \in Seq(S) /\ \E d \in Nat : /\ Len(s) = Len(t) + d
                                       /\ \A k \in 1 .. Len(t) : t[k] = s[k + d]
    BY <2>1, NewestFacts
  <2> HIDE DEF t
  <2>4. PICK d \in Nat : Len(s) = Len(t) + d /\ \A k \in 1 .. Len(t) : t[k] = s[k + d]
    BY <2>3
  <2>5. i \in 1 .. Len(t) /\ Len(t) \in Nat /\ i + d \in 1 .. Len(q) + Len(msgs) /\ t[i] = s[i + d]
    BY <2>1, <2>2, <2>3, <2>4
  <2>6. CASE i + d > Len(q)
    <3>1. (i + d) - Len(q) \in 1 .. Len(msgs) /\ ((i + d) - Len(q)) + Len(q) = i + d
      BY <2>1, <2>5, <2>6
    <3> QED
      BY <2>1, <2>2, <2>5, <3>1
  <2>7. CASE ~(i + d > Len(q))
    <3>1. i + d \in 1 .. Len(q)
      BY <2>1, <2>5, <2>7
    <3> QED
      BY <2>1, <2>2, <2>5, <3>1
  <2> QED
    BY <2>6, <2>7
<1> QED
  BY <1>1 DEF Deliver

LEMMA TailElements ==
  ASSUME NEW S, NEW q \in Seq(S), q # <<>>, NEW i \in DOMAIN Tail(q)
  PROVE  \E j \in DOMAIN q : Tail(q)[i] = q[j]
<1>1. /\ Len(q) \in Nat /\ Tail(q) \in Seq(S) /\ Len(q) = Len(Tail(q)) + 1
      /\ \A k \in 1 .. Len(Tail(q)) : Tail(q)[k] = q[k + 1]
      /\ DOMAIN q = 1 .. Len(q) /\ DOMAIN Tail(q) = 1 .. Len(Tail(q))
  BY HeadTailProperties
<1>2. i + 1 \in DOMAIN q
  BY <1>1
<1> QED
  BY <1>1, <1>2

(* What the service does to the fields a panel shows.                      *)
LEMMA ObjectEffects ==
  ASSUME NEW m, NEW o \in Objects, NEW v, NEW r \in Reqs
  PROVE  /\ SetSpeedObject(m, o, v).spec = o.spec /\ SetSpeedObject(m, o, v).gain = o.gain
         /\ ApplyObject(m, o).spec = o.spec /\ ApplyObject(m, o).gain = o.gain
         /\ SetSpecs(o, r).gain = o.gain
         /\ SpecsTaken(r) => SetSpecs(o, r).spec = r.spec
         /\ SetParams(m, o, r).spec = o.spec
         /\ ParamsTaken(m, r) => SetParams(m, o, r).gain = r.gain
<1>1. SetSpeedObject(m, o, v).spec = o.spec /\ SetSpeedObject(m, o, v).gain = o.gain
  BY SMT DEF Objects, SetSpeedObject
<1>2. ApplyObject(m, o).spec = o.spec /\ ApplyObject(m, o).gain = o.gain
  BY SMT DEF Objects, ApplyObject
<1>3. SetSpecs(o, r).gain = o.gain /\ (SpecsTaken(r) => SetSpecs(o, r).spec = r.spec)
  BY SMT DEF Objects, SetSpecs, StoreSpecs
<1>4. r.gain \in Int
  BY DEF Reqs
<1>5. SetParams(m, o, r).spec = o.spec /\ (ParamsTaken(m, r) => SetParams(m, o, r).gain = r.gain)
  BY <1>4, SMT DEF Objects, SetParams, StoreParams
<1> QED
  BY <1>1, <1>2, <1>3, <1>5

LEMMA InitInputs == Init => InputInv
BY DEF Init, InputInv, IdInv, OrderInv, FreshInv, HeldInv, SetGood, SetOps

LEMMA IdTypes ==
  ASSUME TypeInv
  PROVE  /\ \A i \in DOMAIN reqq : reqq[i] \in Reqs /\ reqq[i].id \in Nat
         /\ \A i \in DOMAIN respq : respq[i] \in Resps /\ respq[i].id \in Nat
<1>1. (\A i \in DOMAIN reqq : reqq[i] \in Reqs) /\ (\A i \in DOMAIN respq : respq[i] \in Resps)
  BY DEF TypeInv, TopicType
<1>2. (\A r \in Reqs : r.id \in Nat) /\ (\A r \in Resps : r.id \in Nat)
  BY DEF Reqs, Resps
<1> QED
  BY <1>1, <1>2

(* A handler that sends: a panel is then as its last SET says, or it was   *)
(* so before; and a GET that is waited for is new, or nothing was set.     *)
LEMMA SendInputs ==
  ASSUME TypeInv, InputInv, NEW cmds \in Seq(Cmds), NEW reqs \in Seq(Reqs),
         Send(cmds, reqs), svc' = svc, UNCHANGED motorVars, inputs' \in Nat, inputs <= inputs',
         \A i \in DOMAIN reqs : IdsRight(reqs[i], inputs'),
         \A h \in handlers' : ~overtaken'[h[2]] =>
           /\ NoSet(reqs, h[2])
           /\ (h \in handlers /\ ~overtaken[h[2]]) \/ h[1] > inputs,
         \A m \in Motors : ~edited'[m] /\ ~overtaken'[m] =>
           \/ /\ ~NoSet(reqs, m) /\ \A op \in SetOps : <<m, op>> \in Kinds(reqs)
              /\ LastHas(reqs, m, "set_specs", "spec", gui'[m].spec)
              /\ LastHas(reqs, m, "set_params", "gain", gui'[m].gain)
           \/ /\ NoSet(reqs, m) /\ ~edited[m] /\ ~overtaken[m]
              /\ gui'[m].spec = gui[m].spec /\ gui'[m].gain = gui[m].gain
  PROVE  InputInv'
<1>1. /\ reqq \in Seq(Reqs) /\ reqq' = Deliver(reqq, reqs) /\ respq' = respq
      /\ respq \in Seq(Resps) /\ inputs \in Nat /\ Len(reqq) <= Depth /\ refused' = refused
  BY DEF TypeInv, TopicType, PanelType, Send
<1>2. IdInv'
  <2>1. ASSUME NEW i \in DOMAIN reqq' PROVE IdsRight(reqq'[i], inputs')
    <3>1. ASSUME NEW j \in DOMAIN reqq PROVE IdsRight(reqq[j], inputs')
      <4>1. reqq[j].id \in Nat /\ IdsRight(reqq[j], inputs)
        BY IdTypes DEF InputInv, IdInv
      <4>2. (reqq[j].id <= inputs => reqq[j].id <= inputs')
        BY <1>1, <4>1
      <4> QED
        BY <4>1, <4>2 DEF IdsRight
    <3> QED
      BY <1>1, <2>1, <3>1, DeliverElements
  <2>2. ASSUME NEW i \in DOMAIN respq PROVE respq[i].id <= inputs'
    <3>1. respq[i].id \in Nat /\ respq[i].id <= inputs
      BY IdTypes DEF InputInv, IdInv
    <3> QED
      BY <1>1, <3>1
  <2> QED
    BY <1>1, <2>1, <2>2 DEF IdInv
<1>3. ASSUME NEW i \in DOMAIN reqq PROVE reqq[i].id \in Nat /\ reqq[i].id <= inputs
  BY IdTypes DEF InputInv, IdInv, IdsRight
<1>4. OrderInv'
  <2> SUFFICES ASSUME NEW h \in handlers', ~overtaken'[h[2]], Overtakes(reqq', h) PROVE FALSE
    BY DEF OrderInv
  <2>1. Overtakes(reqq, h)
    BY <1>1, OvertakesDeliver
  <2>2. h \in handlers => overtaken[h[2]]
    BY <2>1 DEF InputInv, OrderInv
  <2>3. h[1] > inputs
    BY <2>2
  <2>4. PICK i \in DOMAIN reqq : <<reqq[i].id, reqq[i].m>> = h
    BY <2>1 DEF Overtakes
  <2>5. reqq[i].id = h[1]
    BY <2>4
  <2> QED
    BY <1>1, <1>3, <2>3, <2>5
<1>5. Kinds(reqq') \subseteq Kinds(reqq) \union Kinds(reqs)
  BY <1>1, KindsOfDeliver
<1>6. ASSUME NEW m \in Motors, SetGood(m)', NoSet(reqs, m) PROVE SetGood(m)
  BY <1>6, SendFacts DEF TypeInv, SetGood, SetOps, ReqOps, NoSet
<1>7. FreshInv'
  <2>0. \A i \in DOMAIN respq : respq[i] \in Resps /\ respq[i].id <= inputs /\ Fresh(respq[i])
    BY <1>1 DEF InputInv, IdInv, FreshInv
  <2> SUFFICES ASSUME NEW r \in Resps, r.id <= inputs, Fresh(r),
                      <<r.id, r.m>> \in handlers', ~overtaken'[r.m], SetGood(r.m)'
               PROVE  NoSet(reqq', r.m) /\ r.spec = obj'[r.m].spec /\ r.gain = obj'[r.m].gain
    BY <1>1, <2>0 DEF FreshInv, Fresh
  <2>1. r.m \in Motors /\ r.id \in Nat
    BY DEF Resps
  <2> DEFINE h == <<r.id, r.m>>
  <2>2. NoSet(reqs, r.m) /\ ((<<r.id, r.m>> \in handlers /\ ~overtaken[r.m]) \/ r.id > inputs)
    <3>1. h \in handlers' /\ h[1] = r.id /\ h[2] = r.m
      OBVIOUS
    <3> HIDE DEF h
    <3>2. NoSet(reqs, h[2]) /\ ((h \in handlers /\ ~overtaken[h[2]]) \/ h[1] > inputs)
      BY <3>1
    <3> QED
      BY <3>1, <3>2 DEF h
  <2>3. <<r.id, r.m>> \in handlers /\ ~overtaken[r.m]
    BY <1>1, <2>1, <2>2
  <2>4. NoSet(reqq, r.m) /\ r.spec = obj[r.m].spec /\ r.gain = obj[r.m].gain
    BY <1>6, <2>1, <2>2, <2>3 DEF Fresh
  <2> QED
    BY <1>5, <2>2, <2>4 DEF NoSet, motorVars
<1>8. HeldInv'
  <2> SUFFICES ASSUME NEW m \in Motors, ~edited'[m], ~overtaken'[m], SetGood(m)' PROVE Held(m)'
    BY DEF HeldInv
  <2>1. ASSUME NEW op \in SetOps
        PROVE  /\ svc = "up"
               /\ <<m, op>> \notin Kinds(reqq') => <<m, op>> \notin Kinds(reqq) /\ <<m, op>> \notin Kinds(reqs)
    <3>1. <<m, op>> \in good' /\ op \in ReqOps
      BY DEF SetGood, SetOps, ReqOps
    <3>2. svc = "up" /\ (Settled(m, op)' => Settled(m, op) /\ <<m, op>> \notin Kinds(reqs))
      BY <3>1, SendFacts DEF TypeInv
    <3>3. <<m, op>> \notin Kinds(cmdq')
      <4>1. cmdq' \in Seq(Cmds)
        BY SendFacts DEF TypeInv, TopicType
      <4> QED
        BY <4>1, NoRequestAmongCommands, <3>1
    <3> QED
      BY <3>2, <3>3 DEF Settled
  <2>2. CASE /\ \A op \in SetOps : <<m, op>> \in Kinds(reqs)
             /\ LastHas(reqs, m, "set_specs", "spec", gui'[m].spec)
             /\ LastHas(reqs, m, "set_params", "gain", gui'[m].gain)
    <3>1. svc = "up" /\ <<m, "set_specs">> \in Kinds(reqs) /\ <<m, "set_params">> \in Kinds(reqs)
      BY <2>1, <2>2 DEF SetOps
    <3>2. LastHas(reqq', m, "set_specs", "spec", gui'[m].spec)
      BY <1>1, <2>2, <3>1, LastOfDeliver
    <3>3. LastHas(reqq', m, "set_params", "gain", gui'[m].gain)
      BY <1>1, <2>2, <3>1, LastOfDeliver
    <3>4. <<m, "set_specs">> \in Kinds(reqq') /\ <<m, "set_params">> \in Kinds(reqq')
      BY <2>1, <3>1 DEF SetOps
    <3> QED
      BY <3>2, <3>3, <3>4 DEF Held
  <2>3. CASE /\ NoSet(reqs, m) /\ ~edited[m] /\ ~overtaken[m]
             /\ gui'[m].spec = gui[m].spec /\ gui'[m].gain = gui[m].gain
    <3>1. Held(m) /\ svc = "up"
      BY <1>6, <2>1, <2>3 DEF InputInv, HeldInv, SetOps
    <3>2. LastHas(reqq', m, "set_specs", "spec", gui'[m].spec)
      <4>1. LastHas(reqs, m, "set_specs", "spec", gui'[m].spec)
        BY <2>3, NotThere DEF NoSet, SetOps
      <4>2. LastHas(reqq, m, "set_specs", "spec", gui'[m].spec)
        BY <2>3, <3>1 DEF Held
      <4> QED
        BY <1>1, <3>1, <4>1, <4>2, LastOfDeliver
    <3>3. LastHas(reqq', m, "set_params", "gain", gui'[m].gain)
      <4>1. LastHas(reqs, m, "set_params", "gain", gui'[m].gain)
        BY <2>3, NotThere DEF NoSet, SetOps
      <4>2. LastHas(reqq, m, "set_params", "gain", gui'[m].gain)
        BY <2>3, <3>1 DEF Held
      <4> QED
        BY <1>1, <3>1, <4>1, <4>2, LastOfDeliver
    <3>4. \A op \in SetOps : <<m, op>> \notin Kinds(reqq') => <<m, op>> \notin Kinds(reqq)
      BY <2>1
    <3> QED
      BY <1>1, <2>3, <3>1, <3>2, <3>3, <3>4 DEF Held, SetOps, motorVars
  <2> QED
    BY <2>2, <2>3
<1> QED
  BY <1>2, <1>4, <1>7, <1>8 DEF InputInv

(* A step that sends nothing and takes nothing.                            *)
LEMMA SameInputs ==
  ASSUME TypeInv, InputInv, UNCHANGED <<reqq, respq, good, refused, handlers, overtaken>>,
         UNCHANGED motorVars, inputs' \in Nat, inputs <= inputs',
         \A m \in Motors : ~edited'[m] => /\ ~edited[m]
                                          /\ gui'[m].spec = gui[m].spec /\ gui'[m].gain = gui[m].gain
  PROVE  InputInv'
<1>0. obj' = obj
  BY DEF motorVars
<1>1. IdInv'
  BY IdTypes DEF IdInv, IdsRight, InputInv, TypeInv, PanelType
<1>2. OrderInv'
  BY DEF OrderInv, InputInv
<1>3. FreshInv'
  BY <1>0 DEF FreshInv, Fresh, SetGood, InputInv
<1>4. HeldInv'
  <2> SUFFICES ASSUME NEW m \in Motors, ~edited'[m], ~overtaken[m], SetGood(m) PROVE Held(m)'
    BY DEF HeldInv, SetGood
  <2>1. Held(m) /\ gui'[m].spec = gui[m].spec /\ gui'[m].gain = gui[m].gain
    BY DEF InputInv, HeldInv
  <2> QED
    BY <1>0, <2>1 DEF Held
<1> QED
  BY <1>1, <1>2, <1>3, <1>4 DEF InputInv

(* A handler that sends commands only.                                     *)
LEMMA CommandInputs ==
  ASSUME TypeInv, InputInv, NEW cmds \in Seq(Cmds), Send(cmds, <<>>), svc' = svc,
         UNCHANGED motorVars, inputs' \in Nat, inputs <= inputs',
         UNCHANGED <<handlers, edited, overtaken>>,
         \A m \in Motors : gui'[m].spec = gui[m].spec /\ gui'[m].gain = gui[m].gain
  PROVE  InputInv'
<1>1. <<>> \in Seq(Reqs) /\ DOMAIN <<>> = {}
  OBVIOUS
<1>2. \A m : NoSet(<<>>, m)
  BY NoMessage DEF NoSet
<1>3. \A i \in DOMAIN <<>> : IdsRight(<<>>[i], inputs')
  BY <1>1
<1> DEFINE none == <<>>
<1>4. /\ none \in Seq(Reqs) /\ Send(cmds, none)
      /\ \A i \in DOMAIN none : IdsRight(none[i], inputs')
      /\ \A h \in handlers' : ~overtaken'[h[2]] =>
           NoSet(none, h[2]) /\ ((h \in handlers /\ ~overtaken[h[2]]) \/ h[1] > inputs)
      /\ \A m \in Motors : ~edited'[m] /\ ~overtaken'[m] =>
           /\ NoSet(none, m) /\ ~edited[m] /\ ~overtaken[m]
           /\ gui'[m].spec = gui[m].spec /\ gui'[m].gain = gui[m].gain
  BY <1>1, <1>2, <1>3
<1> HIDE DEF none
<1> QED
  BY <1>4, SendInputs

(* Writing other widgets than the two inputs.                              *)
LEMMA OtherWidgets ==
  ASSUME TypeInv, NEW m \in Motors
  PROVE  /\ \A v : /\ [gui[m] EXCEPT !.run = v].spec = gui[m].spec
                   /\ [gui[m] EXCEPT !.run = v].gain = gui[m].gain
                   /\ [gui[m] EXCEPT !.dir = v].spec = gui[m].spec
                   /\ [gui[m] EXCEPT !.dir = v].gain = gui[m].gain
         /\ \A v : /\ [gui[m] EXCEPT !.slider = v].spec = gui[m].spec
                   /\ [gui[m] EXCEPT !.slider = v].gain = gui[m].gain
                   /\ [gui[m] EXCEPT !.rpm = v].spec = gui[m].spec
                   /\ [gui[m] EXCEPT !.rpm = v].gain = gui[m].gain
         /\ \A v : /\ [gui[m] EXCEPT !.status = v].spec = gui[m].spec
                   /\ [gui[m] EXCEPT !.status = v].gain = gui[m].gain
         /\ \A v, w : /\ [gui[m] EXCEPT !.slider = v, !.status = w].spec = gui[m].spec
                      /\ [gui[m] EXCEPT !.slider = v, !.status = w].gain = gui[m].gain
<1>1. gui[m] \in Guis
  BY DEF TypeInv, PanelType
<1> QED
  BY <1>1, SMT DEF Guis

LEMMA PanelKept ==
  ASSUME TypeInv, NEW m \in Motors, NEW g, gui' = [gui EXCEPT ![m] = g],
         g.spec = gui[m].spec, g.gain = gui[m].gain
  PROVE  \A n \in Motors : gui'[n].spec = gui[n].spec /\ gui'[n].gain = gui[n].gain
BY DEF TypeInv, PanelType

LEMMA UserInputs ==
  ASSUME TypeInv, InputInv, NEW m \in Motors,
         \/ StartButton(m) \/ StopButton(m) \/ DirectionButton(m) \/ MoveSlider(m)
         \/ EditInputs(m) \/ SetButton(m) \/ GetButton(m) \/ DefaultsButton(m)
  PROVE  InputInv'
<1>1. /\ UNCHANGED motorVars /\ svc' = svc /\ inputs' \in Nat /\ inputs <= inputs'
      /\ inputs \in Nat /\ inputs' = inputs + 1
  <2>1. UserInput
    BY DEF StartButton, StopButton, DirectionButton, MoveSlider, EditInputs, SetButton,
       GetButton, DefaultsButton
  <2>2. inputs \in Nat
    BY DEF TypeInv, PanelType
  <2> QED
    BY <2>1, <2>2 DEF UserInput
<1>2. gui[m] \in Guis /\ gui \in [Motors -> Guis]
  BY DEF TypeInv, PanelType
<1>3. CASE StartButton(m)
  <2>1. /\ <<Command(m, "start", 1), Command(m, "dir", gui[m].dir)>> \in Seq(Cmds)
    <3>1. Command(m, "start", 1) \in Cmds /\ Command(m, "dir", gui[m].dir) \in Cmds
      BY <1>2, MessageTypes DEF TypeInv, Guis
    <3> QED
      BY <3>1
  <2>2. \A n \in Motors : gui'[n].spec = gui[n].spec /\ gui'[n].gain = gui[n].gain
    <3> DEFINE g == [gui[m] EXCEPT !.run = TRUE]
    <3>1. gui' = [gui EXCEPT ![m] = g]
      BY <1>2, <1>3 DEF StartButton
    <3>2. g.spec = gui[m].spec /\ g.gain = gui[m].gain
      BY OtherWidgets
    <3> HIDE DEF g
    <3> QED
      BY <3>1, <3>2, PanelKept
  <2> QED
    BY <1>1, <1>3, <2>1, <2>2, CommandInputs DEF StartButton
<1>4. CASE StopButton(m)
  <2>1. <<Command(m, "start", 0)>> \in Seq(Cmds)
    BY MessageTypes DEF TypeInv
  <2>2. \A n \in Motors : gui'[n].spec = gui[n].spec /\ gui'[n].gain = gui[n].gain
    <3> DEFINE g == [gui[m] EXCEPT !.run = FALSE]
    <3>1. gui' = [gui EXCEPT ![m] = g]
      BY <1>2, <1>4 DEF StopButton
    <3>2. g.spec = gui[m].spec /\ g.gain = gui[m].gain
      BY OtherWidgets
    <3> HIDE DEF g
    <3> QED
      BY <3>1, <3>2, PanelKept
  <2> QED
    BY <1>1, <1>4, <2>1, <2>2, CommandInputs DEF StopButton
<1>5. CASE DirectionButton(m)
  <2>1. <<Command(m, "dir", 1 - gui[m].dir)>> \in Seq(Cmds)
    <3>1. 1 - gui[m].dir \in {0, 1}
      BY <1>2 DEF Guis
    <3> QED
      BY <3>1, MessageTypes DEF TypeInv
  <2>2. \A n \in Motors : gui'[n].spec = gui[n].spec /\ gui'[n].gain = gui[n].gain
    <3> DEFINE g == [gui[m] EXCEPT !.dir = 1 - gui[m].dir]
    <3>1. gui' = [gui EXCEPT ![m] = g]
      BY <1>2, <1>5 DEF DirectionButton
    <3>2. g.spec = gui[m].spec /\ g.gain = gui[m].gain
      BY OtherWidgets
    <3> HIDE DEF g
    <3> QED
      BY <3>1, <3>2, PanelKept
  <2> QED
    BY <1>1, <1>5, <2>1, <2>2, CommandInputs DEF DirectionButton
<1>6. CASE MoveSlider(m)
  <2>1. \A n \in Motors : gui'[n].spec = gui[n].spec /\ gui'[n].gain = gui[n].gain
    <3>1. PICK v \in Speeds[m] : gui' = [gui EXCEPT ![m].slider = v]
      BY <1>6 DEF MoveSlider
    <3> DEFINE g == [gui[m] EXCEPT !.slider = v]
    <3>2. gui' = [gui EXCEPT ![m] = g]
      BY <1>2, <3>1
    <3>3. g.spec = gui[m].spec /\ g.gain = gui[m].gain
      BY OtherWidgets
    <3> HIDE DEF g
    <3> QED
      BY <3>2, <3>3, PanelKept
  <2> QED
    BY <1>1, <1>6, <2>1, SameInputs DEF MoveSlider, topics
<1>7. CASE EditInputs(m) \/ DefaultsButton(m)
  <2>1. /\ edited' = [edited EXCEPT ![m] = TRUE] /\ edited \in [Motors -> BOOLEAN]
        /\ UNCHANGED <<reqq, respq, good, refused, handlers, overtaken>>
    BY <1>7 DEF EditInputs, DefaultsButton, topics, TypeInv, PanelType
  <2>2. PICK g : gui' = [gui EXCEPT ![m] = g]
    <3>1. CASE DefaultsButton(m)
      BY <3>1 DEF DefaultsButton
    <3>2. CASE EditInputs(m)
      <4>1. PICK s \in Specs[m], g \in Gains,
                 r \in IF m = "stepper" THEN Speeds[m] ELSE {DefaultRpm},
                 n \in IF m = "stepper" THEN Steps ELSE {DefaultSteps} :
              gui' = [gui EXCEPT ![m].spec = s, ![m].gain = g, ![m].rpm = r, ![m].steps = n]
        BY <3>2 DEF EditInputs
      <4> DEFINE h == [gui[m] EXCEPT !.spec = s, !.gain = g, !.rpm = r, !.steps = n]
      <4>2. gui' = [gui EXCEPT ![m] = h]
        BY <4>1, <1>2
      <4> QED
        BY <4>2
    <3> QED
      BY <1>7, <3>1, <3>2
  <2>3. \A n \in Motors : ~edited'[n] => ~edited[n] /\ gui'[n] = gui[n]
    BY <1>2, <2>1, <2>2
  <2> QED
    BY <1>1, <2>1, <2>3, SameInputs
<1>8. CASE SetButton(m)
  <2> DEFINE v == IF m = "bldc" THEN gui[m].slider ELSE RpmToSlew(gui[m].slider)
             s == IF m = "bldc" THEN gui[m].slider
                  ELSE Clamp(gui[m].rpm, SliderMin, SliderMax(m))
             p == Request(m, "set_specs", 0)
             q == Request(m, "set_params", 0)
             a == Request(m, "apply", 0)
  <2>1. /\ Send(<<Command(m, "rpm", v)>>, <<p, q, a>>)
        /\ gui' = [gui EXCEPT ![m].slider = s, ![m].status = "applied"]
    BY <1>8 DEF SetButton
  <2>2. <<Command(m, "rpm", v)>> \in Seq(Cmds)
    <3>1. v \in Int
      BY <1>2, SlewRange DEF Guis
    <3> QED
      BY <3>1, MessageTypes DEF TypeInv
  <2>3. /\ p \in Reqs /\ q \in Reqs /\ a \in Reqs
        /\ p.m = m /\ p.op = "set_specs" /\ p.id = 0 /\ p.spec = gui[m].spec
        /\ q.m = m /\ q.op = "set_params" /\ q.id = 0 /\ q.gain = gui[m].gain
        /\ a.m = m /\ a.op = "apply" /\ a.id = 0
    <3>1. p \in Reqs /\ q \in Reqs /\ a \in Reqs
      BY MessageTypes DEF TypeInv, ReqOps
    <3>2. /\ p.m = m /\ p.op = "set_specs" /\ p.id = 0 /\ p.spec = gui[m].spec
          /\ q.m = m /\ q.op = "set_params" /\ q.id = 0 /\ q.gain = gui[m].gain
          /\ a.m = m /\ a.op = "apply" /\ a.id = 0
      BY DEF Request
    <3> QED
      BY <3>1, <3>2
  <2>4. \A n \in Motors : gui'[n].spec = gui[n].spec /\ gui'[n].gain = gui[n].gain
    <3> DEFINE g == [gui[m] EXCEPT !.slider = s, !.status = "applied"]
    <3>1. gui' = [gui EXCEPT ![m] = g]
      BY <1>2, <2>1
    <3>2. g.spec = gui[m].spec /\ g.gain = gui[m].gain
      <4> HIDE DEF s
      <4> QED
        BY OtherWidgets
    <3> HIDE DEF g
    <3> QED
      BY <3>1, <3>2, PanelKept
  <2> HIDE DEF v, s, p, q, a
  <2> DEFINE reqs == <<p, q, a>>
  <2>5. /\ reqs \in Seq(Reqs) /\ DOMAIN reqs = 1 .. 3
        /\ \A i \in DOMAIN reqs : reqs[i].id = 0
    BY <2>3
  <2>6. \A i \in DOMAIN reqs : IdsRight(reqs[i], inputs')
    BY <1>1, <2>5 DEF IdsRight
  <2>7. /\ \A n, op : <<n, op>> \in Kinds(reqs) <=> n = m /\ op \in {"set_specs", "set_params", "apply"}
    <3>1. \A n, op : <<n, op>> \in Kinds(reqs) <=> Is(p, n, op) \/ Is(q, n, op) \/ Is(a, n, op)
      BY <2>3, ThreeMessages
    <3> QED
      BY <2>3, <3>1 DEF Is
  <2>8. /\ LastHas(reqs, m, "set_specs", "spec", gui[m].spec)
        /\ LastHas(reqs, m, "set_params", "gain", gui[m].gain)
    BY <2>3, ThreeMessages DEF Is
  <2> HIDE DEF reqs
  <2>9. /\ handlers' = handlers /\ overtaken' = [overtaken EXCEPT ![m] = Outstanding(m)]
        /\ edited' = [edited EXCEPT ![m] = FALSE]
        /\ overtaken \in [Motors -> BOOLEAN] /\ edited \in [Motors -> BOOLEAN]
        /\ handlers \subseteq (1 .. inputs) \X Motors
    BY <1>8 DEF SetButton, TypeInv, PanelType
  <2>10. ASSUME NEW h \in handlers', ~overtaken'[h[2]]
         PROVE  NoSet(reqs, h[2]) /\ h \in handlers /\ ~overtaken[h[2]]
    <3>1. h[2] # m
      BY <2>9, <2>10 DEF Outstanding
    <3>2. h[2] \in Motors
      BY <2>9
    <3> QED
      BY <2>7, <2>9, <2>10, <3>1, <3>2 DEF NoSet
  <2>11. ASSUME NEW n \in Motors, ~edited'[n], ~overtaken'[n]
         PROVE  \/ /\ ~NoSet(reqs, n) /\ \A op \in SetOps : <<n, op>> \in Kinds(reqs)
                   /\ LastHas(reqs, n, "set_specs", "spec", gui'[n].spec)
                   /\ LastHas(reqs, n, "set_params", "gain", gui'[n].gain)
                \/ /\ NoSet(reqs, n) /\ ~edited[n] /\ ~overtaken[n]
                   /\ gui'[n].spec = gui[n].spec /\ gui'[n].gain = gui[n].gain
    <3>1. CASE n = m
      BY <2>4, <2>7, <2>8, <3>1 DEF NoSet, SetOps
    <3>2. CASE n # m
      BY <2>4, <2>7, <2>9, <2>11, <3>2 DEF NoSet
    <3> QED
      BY <3>1, <3>2
  <2>12. Send(<<Command(m, "rpm", v)>>, reqs)
    BY <2>1 DEF reqs
  <2> QED
    BY <1>1, <2>2, <2>5, <2>6, <2>10, <2>11, <2>12, SendInputs
<1>9. CASE GetButton(m)
  <2> DEFINE r == Request(m, "get_all", inputs')
             reqs == <<r>>
  <2>1. /\ Send(<<>>, reqs) /\ handlers' = handlers \union {<<inputs', m>>}
        /\ UNCHANGED <<edited, overtaken>> /\ <<>> \in Seq(Cmds)
        /\ gui' = [gui EXCEPT ![m].status = "refreshing"]
    BY <1>9 DEF GetButton
  <2>2. r \in Reqs /\ r.op = "get_all" /\ r.id = inputs'
    BY <1>1, MessageTypes DEF Request, TypeInv, ReqOps
  <2>3. \A n \in Motors : gui'[n].spec = gui[n].spec /\ gui'[n].gain = gui[n].gain
    <3> DEFINE g == [gui[m] EXCEPT !.status = "refreshing"]
    <3>1. gui' = [gui EXCEPT ![m] = g]
      BY <1>2, <2>1
    <3>2. g.spec = gui[m].spec /\ g.gain = gui[m].gain
      BY OtherWidgets
    <3> HIDE DEF g
    <3> QED
      BY <3>1, <3>2, PanelKept
  <2> HIDE DEF r
  <2>4. /\ reqs \in Seq(Reqs) /\ \A i \in DOMAIN reqs : IdsRight(reqs[i], inputs')
    BY <1>1, <2>2 DEF IdsRight
  <2>5. \A n : NoSet(reqs, n)
    BY <2>2, OneMessage DEF NoSet, SetOps, Is
  <2> HIDE DEF reqs
  <2>6. \A h \in handlers' : ~overtaken'[h[2]] =>
           /\ NoSet(reqs, h[2])
           /\ (h \in handlers /\ ~overtaken[h[2]]) \/ h[1] > inputs
    <3>1. <<inputs', m>>[1] > inputs
      BY <1>1
    <3> QED
      BY <2>1, <2>5, <3>1
  <2> QED
    BY <1>1, <2>1, <2>3, <2>4, <2>5, <2>6, SendInputs
<1> QED
  BY <1>3, <1>4, <1>5, <1>6, <1>7, <1>8, <1>9

(* The dashboard takes a response: the topics lose their oldest response,  *)
(* and no more GETs are waited for.                                        *)
LEMMA TakenInputs ==
  ASSUME TypeInv, InputInv, respq # <<>>, respq' = Tail(respq),
         UNCHANGED <<reqq, good, overtaken, inputs>>, UNCHANGED motorVars,
         handlers' \subseteq handlers
  PROVE  IdInv' /\ OrderInv' /\ FreshInv'
<1>1. respq \in Seq(Resps) /\ obj' = obj
  BY DEF TypeInv, TopicType, motorVars
<1>2. \A i \in DOMAIN Tail(respq) : \E j \in DOMAIN respq : Tail(respq)[i] = respq[j]
  BY <1>1, TailElements
<1>3. IdInv'
  BY <1>2 DEF IdInv, InputInv
<1>4. OrderInv'
  BY DEF OrderInv, InputInv
<1>5. \A r : Fresh(r) => (<<r.id, r.m>> \in handlers' /\ ~overtaken'[r.m] /\ SetGood(r.m)'
                           => NoSet(reqq', r.m) /\ r.spec = obj'[r.m].spec /\ r.gain = obj'[r.m].gain)
  BY <1>1 DEF Fresh, SetGood
<1>6. FreshInv'
  <2> SUFFICES ASSUME NEW i \in DOMAIN Tail(respq) PROVE Fresh(respq[i])'
    BY DEF FreshInv
  <2>1. PICK j \in DOMAIN respq : Tail(respq)[i] = respq[j]
    BY <1>2
  <2>2. Fresh(respq[j])
    BY DEF FreshInv, InputInv
  <2>3. PICK r : r = respq[j]
    OBVIOUS
  <2> QED
    BY <1>5, <2>1, <2>2, <2>3 DEF Fresh
<1> QED
  BY <1>3, <1>4, <1>6

LEMMA CallbackInputs ==
  ASSUME TypeInv, InputInv, Dashboard PROVE InputInv'
<1>1. /\ UNCHANGED motorVars /\ svc' = svc /\ inputs' = inputs /\ inputs' \in Nat
      /\ inputs <= inputs'
  <2>1. Quietly
    BY DEF Dashboard, BldcSliderFires, StepperSliderFires, RefreshTimeout, ResponseIgnored,
       ResponseHandled
  <2>2. inputs \in Nat
    BY DEF TypeInv, PanelType
  <2> QED
    BY <2>1, <2>2 DEF Quietly
<1>2. gui \in [Motors -> Guis]
  BY DEF TypeInv, PanelType
<1>3. CASE BldcSliderFires
  <2> DEFINE v == IF gui["bldc"].slider > gui["bldc"].spec THEN gui["bldc"].spec
                  ELSE gui["bldc"].slider
             h == [gui["bldc"] EXCEPT !.slider = v]
             cmds == <<Command("bldc", "rpm", v)>>
  <2>1. /\ "bldc" \in Motors /\ gui["bldc"] \in Guis
        /\ gui' = [gui EXCEPT !["bldc"] = h] /\ Send(cmds, <<>>)
        /\ UNCHANGED <<handlers, edited, overtaken>>
    BY <1>2, <1>3 DEF BldcSliderFires
  <2>2. v \in Int
    BY <2>1 DEF Guis
  <2> HIDE DEF v
  <2>3. h.spec = gui["bldc"].spec /\ h.gain = gui["bldc"].gain
    BY <2>1, OtherWidgets
  <2>4. cmds \in Seq(Cmds)
    BY <2>1, <2>2, MessageTypes DEF TypeInv
  <2> HIDE DEF h, cmds
  <2>5. \A n \in Motors : gui'[n].spec = gui[n].spec /\ gui'[n].gain = gui[n].gain
    BY <2>1, <2>3, PanelKept
  <2> QED
    BY <1>1, <2>1, <2>4, <2>5, CommandInputs
<1>4. CASE StepperSliderFires
  <2> DEFINE v == RpmToSlew(gui["stepper"].slider)
             h == [gui["stepper"] EXCEPT !.rpm = gui["stepper"].slider]
             cmds == <<Command("stepper", "rpm", v)>>
  <2>1. /\ "stepper" \in Motors /\ gui["stepper"] \in Guis
        /\ gui' = [gui EXCEPT !["stepper"] = h] /\ Send(cmds, <<>>)
        /\ UNCHANGED <<handlers, edited, overtaken>>
    BY <1>2, <1>4 DEF StepperSliderFires
  <2>2. v \in Int
    BY <2>1, SlewRange DEF Guis
  <2> HIDE DEF v
  <2>3. h.spec = gui["stepper"].spec /\ h.gain = gui["stepper"].gain
    BY <2>1, OtherWidgets
  <2>4. cmds \in Seq(Cmds)
    BY <2>1, <2>2, MessageTypes DEF TypeInv
  <2> HIDE DEF h, cmds
  <2>5. \A n \in Motors : gui'[n].spec = gui[n].spec /\ gui'[n].gain = gui[n].gain
    BY <2>1, <2>3, PanelKept
  <2> QED
    BY <1>1, <2>1, <2>4, <2>5, CommandInputs
<1>5. ASSUME NEW m \in Motors, RefreshTimeout(m) PROVE InputInv'
  <2> DEFINE h == [gui[m] EXCEPT !.status = "timeout"]
  <2>1. /\ gui' = [gui EXCEPT ![m] = h]
        /\ UNCHANGED <<reqq, respq, good, refused, handlers, overtaken>> /\ edited' = edited
    BY <1>2, <1>5 DEF RefreshTimeout, topics
  <2>2. h.spec = gui[m].spec /\ h.gain = gui[m].gain
    BY OtherWidgets
  <2> HIDE DEF h
  <2>3. \A n \in Motors : gui'[n].spec = gui[n].spec /\ gui'[n].gain = gui[n].gain
    BY <2>1, <2>2, PanelKept
  <2> QED
    BY <1>1, <2>1, <2>3, SameInputs
<1>6. CASE ResponseIgnored
  <2>1. /\ respq # <<>> /\ respq' = Tail(respq) /\ UNCHANGED <<reqq, good, overtaken, inputs>>
        /\ handlers' = handlers /\ edited' = edited /\ gui' = gui /\ obj' = obj
        /\ refused' = refused
    BY <1>1, <1>6 DEF ResponseIgnored, guiVars, motorVars
  <2>2. IdInv' /\ OrderInv' /\ FreshInv'
    BY <1>1, <2>1, TakenInputs
  <2>3. HeldInv'
    BY <2>1 DEF HeldInv, Held, SetGood, InputInv
  <2> QED
    BY <2>2, <2>3 DEF InputInv
<1>7. CASE ResponseHandled
  <2> DEFINE r == Head(respq)
             m == r.m
             h == IF m = "bldc" THEN BldcShown(gui[m], r) ELSE StepperShown(gui[m], r)
  <2>1. /\ respq # <<>> /\ respq' = Tail(respq) /\ UNCHANGED <<reqq, good, overtaken, inputs>>
        /\ handlers' \subseteq handlers /\ <<r.id, m>> \in handlers
        /\ gui' = [gui EXCEPT ![m] = h] /\ edited' = [edited EXCEPT ![m] = FALSE] /\ obj' = obj
        /\ refused' = {k \in refused : k[1] # m}
    BY <1>1, <1>7 DEF ResponseHandled, motorVars
  <2>2. IdInv' /\ OrderInv' /\ FreshInv'
    BY <1>1, <2>1, TakenInputs
  <2>3. r \in Resps /\ m \in Motors /\ gui[m] \in Guis /\ edited \in [Motors -> BOOLEAN] /\ Fresh(r)
    <3>1. respq \in Seq(Resps) /\ edited \in [Motors -> BOOLEAN]
      BY DEF TypeInv, TopicType, PanelType
    <3>2. r \in Resps /\ r = respq[1] /\ 1 \in DOMAIN respq
      BY <2>1, <3>1, HeadTailProperties
    <3>3. Fresh(respq[1])
      BY <3>2 DEF InputInv, FreshInv
    <3>4. \A x \in Resps : x.m \in Motors
      BY DEF Resps
    <3>5. m \in Motors
      BY <3>2, <3>4
    <3> QED
      BY <1>2, <3>1, <3>2, <3>3, <3>5
  <2>4. h.spec = r.spec /\ h.gain = r.gain
    <3>1. BldcShown(gui[m], r).spec = r.spec /\ BldcShown(gui[m], r).gain = r.gain
      BY <2>3, SMT DEF BldcShown, Guis
    <3>2. StepperShown(gui[m], r).spec = r.spec /\ StepperShown(gui[m], r).gain = r.gain
      BY <2>3, SMT DEF StepperShown, Guis
    <3> QED
      BY <3>1, <3>2
  <2> HIDE DEF h, r
  <2>5. HeldInv'
    <3> SUFFICES ASSUME NEW n \in Motors, ~edited'[n], ~overtaken[n], SetGood(n) PROVE Held(n)'
      BY <2>1 DEF HeldInv, SetGood
    <3>1. CASE n # m
      <4>1. Held(n) /\ gui'[n] = gui[n]
        BY <1>2, <2>1, <2>3, <3>1 DEF InputInv, HeldInv
      <4>2. \A op : <<n, op>> \notin refused' => <<n, op>> \notin refused
        BY <2>1, <3>1
      <4> QED
        BY <2>1, <4>1, <4>2 DEF Held
    <3>2. CASE n = m
      <4>1. gui'[m].spec = r.spec /\ gui'[m].gain = r.gain
        BY <1>2, <2>1, <2>3, <2>4
      <4>2. NoSet(reqq, m) /\ r.spec = obj[m].spec /\ r.gain = obj[m].gain
        BY <2>1, <2>3, <3>2 DEF Fresh
      <4>3. /\ LastHas(reqq, m, "set_specs", "spec", gui'[m].spec)
            /\ LastHas(reqq, m, "set_params", "gain", gui'[m].gain)
        BY <4>2, NotThere DEF NoSet, SetOps
      <4> QED
        BY <2>1, <3>2, <4>1, <4>2, <4>3 DEF Held
    <3> QED
      BY <3>1, <3>2
  <2> QED
    BY <2>2, <2>5 DEF InputInv
<1> QED
  BY <1>3, <1>4, <1>5, <1>6, <1>7 DEF Dashboard

(* A button or slider command changes nothing a panel's inputs show.       *)
LEMMA HandleCommandInputs ==
  ASSUME TypeInv, InputInv, HandleCommand PROVE InputInv'
<1> DEFINE c == Head(cmdq)
<1>1. /\ UNCHANGED <<gui, handlers, edited, overtaken, reqq, respq, good, refused, inputs>>
  BY DEF HandleCommand, guiVars
<1>2. c \in Cmds /\ c.m \in Motors
  <2>1. c \in Cmds
    BY HeadTailProperties DEF HandleCommand, TypeInv, TopicType
  <2> QED
    BY <2>1 DEF Cmds
<1>3. obj' = obj \/ obj' = [obj EXCEPT ![c.m] = SetSpeedObject(c.m, @, c.val)]
  BY DEF HandleCommand, motorVars
<1>4. obj \in [Motors -> Objects]
  BY DEF TypeInv, MotorType
<1>5. /\ SetSpeedObject(c.m, obj[c.m], c.val).spec = obj[c.m].spec
      /\ SetSpeedObject(c.m, obj[c.m], c.val).gain = obj[c.m].gain
  BY <1>2, <1>4, SMT DEF Objects, SetSpeedObject
<1>6. \A m \in Motors : obj'[m].spec = obj[m].spec /\ obj'[m].gain = obj[m].gain
  BY <1>2, <1>3, <1>4, <1>5
<1>7. IdInv' /\ OrderInv'
  BY <1>1 DEF IdInv, OrderInv, InputInv
<1>8. FreshInv'
  <2>1. \A i \in DOMAIN respq : respq[i].m \in Motors
    <3>1. \A r \in Resps : r.m \in Motors
      BY DEF Resps
    <3> QED
      BY <3>1, IdTypes
  <2> QED
    BY <1>1, <1>6, <2>1 DEF FreshInv, Fresh, SetGood, InputInv
<1>9. HeldInv'
  BY <1>1, <1>6 DEF HeldInv, Held, SetGood, InputInv
<1> QED
  BY <1>7, <1>8, <1>9 DEF InputInv

(* The service takes the oldest request and answers it.                    *)
LEMMA HandleRequestInputs ==
  ASSUME TypeInv, InputInv, HandleParamRequest PROVE InputInv'
<1> DEFINE r == Head(reqq)
           m == r.m
           o == obj[m]
           a == [m |-> r.m, id |-> r.id, spec |-> o.spec, gain |-> o.gain,
                 rpm |-> o.rpm, steps |-> o.steps]
<1>1. /\ UNCHANGED <<gui, handlers, edited, overtaken, good, inputs>>
      /\ reqq' = Tail(reqq) /\ reqq # <<>> /\ reqq \in Seq(Reqs) /\ respq \in Seq(Resps)
      /\ obj \in [Motors -> Objects]
  BY DEF HandleParamRequest, guiVars, TypeInv, TopicType, MotorType
<1>2. respq' = Newest(Append(respq, a))
  BY DEF HandleParamRequest, Respond, GetAll, GetSpecs, GetParams
<1>3. r \in Reqs /\ r = reqq[1] /\ 1 \in DOMAIN reqq
  BY <1>1, HeadTailProperties
<1>4. m \in Motors /\ o \in Objects /\ r.id \in Nat /\ r.op \in ReqOps
  BY <1>1, <1>3 DEF Reqs
<1>5. IdsRight(r, inputs)
  BY <1>3 DEF InputInv, IdInv
<1>6. /\ a.m = m /\ a.id = r.id /\ a.spec = o.spec /\ a.gain = o.gain
  OBVIOUS
<1>7. a \in Resps
  <2>1. o.spec \in Int /\ o.gain \in Int /\ o.rpm \in Int /\ o.steps \in Int
    BY <1>4 DEF Objects
  <2> QED
    BY <1>4, <2>1 DEF Resps
<1>8. /\ r.op = "set_specs" => obj' = [obj EXCEPT ![m] = SetSpecs(o, r)]
      /\ r.op = "set_params" => obj' = [obj EXCEPT ![m] = SetParams(m, o, r)]
      /\ r.op = "apply" => obj' = [obj EXCEPT ![m] = ApplyObject(m, o)]
      /\ r.op = "get_all" => obj' = obj
      /\ r.op = "set_specs" => Answered(r, SpecsTaken(r))
      /\ r.op = "set_params" => Answered(r, ParamsTaken(m, r))
      /\ r.op \notin SetOps => refused' = refused
  BY DEF HandleParamRequest, ApplyParams, motorVars, SetOps
<1> HIDE DEF a
<1>9. ASSUME NEW i \in DOMAIN respq'
      PROVE  respq'[i] = a \/ \E j \in DOMAIN respq : respq'[i] = respq[j]
  <2> DEFINE s == Append(respq, a)
  <2>1. /\ s \in Seq(Resps) /\ Len(s) = Len(respq) + 1 /\ Len(respq) \in Nat
        /\ DOMAIN respq = 1 .. Len(respq)
        /\ s[Len(respq) + 1] = a /\ \A k \in 1 .. Len(respq) : s[k] = respq[k]
    BY <1>1, <1>7, AppendProperties
  <2> HIDE DEF s
  <2>2. /\ Newest(s) \in Seq(Resps)
        /\ \E d \in Nat : /\ Len(s) = Len(Newest(s)) + d
                          /\ \A k \in 1 .. Len(Newest(s)) : Newest(s)[k] = s[k + d]
    BY <2>1, NewestFacts
  <2>3. respq' = Newest(s)
    BY <1>2 DEF s
  <2>4. PICK d \in Nat : Len(s) = Len(respq') + d /\ \A k \in 1 .. Len(respq') : respq'[k] = s[k + d]
    BY <2>2, <2>3
  <2>5. i \in 1 .. Len(respq') /\ Len(respq') \in Nat
    BY <2>2, <2>3
  <2>6. i + d \in 1 .. Len(respq) + 1 /\ respq'[i] = s[i + d]
    BY <2>1, <2>4, <2>5
  <2>7. CASE i + d = Len(respq) + 1
    BY <2>1, <2>6, <2>7
  <2>8. CASE i + d # Len(respq) + 1
    <3>1. i + d \in 1 .. Len(respq)
      BY <2>1, <2>6, <2>8
    <3> QED
      BY <2>1, <2>6, <3>1
  <2> QED
    BY <2>7, <2>8
<1>10. Kinds(Tail(reqq)) \subseteq Kinds(reqq) /\ <<m, r.op>> \in Kinds(reqq)
  BY <1>1, KindsOfTail
<1>11. \A n \in Motors : NoSet(reqq, n) => /\ NoSet(reqq', n)
                                           /\ obj'[n].spec = obj[n].spec /\ obj'[n].gain = obj[n].gain
  <2> SUFFICES ASSUME NEW n \in Motors, NoSet(reqq, n)
               PROVE  obj'[n].spec = obj[n].spec /\ obj'[n].gain = obj[n].gain
    BY <1>1, <1>10 DEF NoSet
  <2>1. n = m => r.op \in {"apply", "get_all"}
    BY <1>4, <1>10 DEF NoSet, SetOps, ReqOps
  <2>2. ApplyObject(m, o).spec = o.spec /\ ApplyObject(m, o).gain = o.gain
    BY <1>3, <1>4, ObjectEffects
  <2> QED
    BY <1>1, <1>4, <1>8, <2>1, <2>2 DEF ReqOps
<1>12. IdInv'
  <2>1. \A i \in DOMAIN Tail(reqq) : \E j \in DOMAIN reqq : Tail(reqq)[i] = reqq[j]
    BY <1>1, TailElements
  <2>2. a.id <= inputs
    BY <1>5, <1>6 DEF IdsRight
  <2> QED
    BY <1>1, <1>9, <2>1, <2>2 DEF IdInv, InputInv
<1>13. OrderInv'
  <2>1. ASSUME NEW h, Overtakes(Tail(reqq), h) PROVE Overtakes(reqq, h)
    <3>1. /\ Tail(reqq) \in Seq(Reqs) /\ Len(reqq) = Len(Tail(reqq)) + 1
          /\ \A i \in 1 .. Len(Tail(reqq)) : Tail(reqq)[i] = reqq[i + 1]
      BY <1>1, HeadTailProperties
    <3> QED
      BY <1>1, <2>1, <3>1, OvertakesEnd
  <2> QED
    BY <1>1, <2>1 DEF OrderInv, InputInv
<1>14. FreshInv'
  <2>1. ASSUME NEW x \in Resps, Fresh(x), <<x.id, x.m>> \in handlers, ~overtaken[x.m], SetGood(x.m)
        PROVE  NoSet(reqq', x.m) /\ x.spec = obj'[x.m].spec /\ x.gain = obj'[x.m].gain
    <3>1. NoSet(reqq, x.m) /\ x.spec = obj[x.m].spec /\ x.gain = obj[x.m].gain
      BY <2>1 DEF Fresh
    <3>2. x.m \in Motors
      BY DEF Resps
    <3> QED
      BY <1>11, <3>1, <3>2
  <2>2. ASSUME <<r.id, m>> \in handlers, ~overtaken[m]
        PROVE  NoSet(reqq', m) /\ a.spec = obj'[m].spec /\ a.gain = obj'[m].gain
    <3>1. r.id # 0
      BY <2>2 DEF TypeInv, PanelType
    <3>2. r.op = "get_all"
      BY <1>5, <3>1 DEF IdsRight
    <3>3. NoSet(Tail(reqq), m)
      <4>1. ~Overtakes(reqq, <<r.id, m>>)
        <5> DEFINE h == <<r.id, m>>
        <5>1. h \in handlers /\ ~overtaken[h[2]]
          BY <2>2
        <5> HIDE DEF h
        <5>2. ~Overtakes(reqq, h)
          BY <5>1 DEF InputInv, OrderInv
        <5> QED
          BY <5>2 DEF h
      <4> QED
        BY <1>1, <4>1, OvertakesHead
    <3> QED
      BY <1>1, <1>6, <1>8, <3>2, <3>3
  <2> SUFFICES ASSUME NEW x \in Resps, x = a \/ Fresh(x),
                      <<x.id, x.m>> \in handlers, ~overtaken[x.m], SetGood(x.m)
               PROVE  NoSet(reqq', x.m) /\ x.spec = obj'[x.m].spec /\ x.gain = obj'[x.m].gain
    <3>1. ASSUME NEW i \in DOMAIN respq'
          PROVE  \E x \in Resps : respq'[i] = x /\ (x = a \/ Fresh(x))
      BY <1>7, <1>9, <3>1, IdTypes DEF InputInv, FreshInv
    <3> QED
      BY <1>1, <3>1 DEF FreshInv, Fresh, SetGood
  <2>3. CASE Fresh(x)
    BY <2>1, <2>3
  <2>4. CASE x = a
    BY <1>6, <2>2, <2>4
  <2> QED
    BY <2>3, <2>4
<1>15. HeldInv'
  <2> SUFFICES ASSUME NEW n \in Motors, ~edited[n], ~overtaken[n], SetGood(n) PROVE Held(n)'
    BY <1>1 DEF HeldInv, SetGood
  <2>1. Held(n)
    BY DEF InputInv, HeldInv
  <2>2. /\ LastHas(Tail(reqq), n, "set_specs", "spec", gui[n].spec)
        /\ <<n, "set_specs">> \in Kinds(reqq) /\ <<n, "set_specs">> \notin Kinds(Tail(reqq))
              => Is(r, n, "set_specs") /\ r["spec"] = gui[n].spec
    BY <1>1, <2>1, LastOfTail DEF Held
  <2>3. /\ LastHas(Tail(reqq), n, "set_params", "gain", gui[n].gain)
        /\ <<n, "set_params">> \in Kinds(reqq) /\ <<n, "set_params">> \notin Kinds(Tail(reqq))
              => Is(r, n, "set_params") /\ r["gain"] = gui[n].gain
    BY <1>1, <2>1, LastOfTail DEF Held
  <2>4. /\ SetSpecs(o, r).gain = o.gain
        /\ SpecsTaken(r) => SetSpecs(o, r).spec = r.spec
        /\ SetParams(m, o, r).spec = o.spec
        /\ ParamsTaken(m, r) => SetParams(m, o, r).gain = r.gain
        /\ ApplyObject(m, o).spec = o.spec /\ ApplyObject(m, o).gain = o.gain
    BY <1>3, <1>4, ObjectEffects
  <2>5. n # m \/ r.op # "set_specs" => obj'[n].spec = obj[n].spec
    BY <1>1, <1>4, <1>8, <2>4 DEF ReqOps
  <2>6. n # m \/ r.op # "set_params" => obj'[n].gain = obj[n].gain
    BY <1>1, <1>4, <1>8, <2>4 DEF ReqOps
  <2>7. ASSUME NEW op \in SetOps, <<n, op>> \notin refused', n # m \/ r.op # op
        PROVE  <<n, op>> \notin refused
    BY <1>4, <1>8, <2>7 DEF Answered, SetOps, ReqOps
  <2>8. ASSUME <<n, "set_specs">> \notin Kinds(Tail(reqq)), <<n, "set_specs">> \notin refused'
        PROVE  gui[n].spec = obj'[n].spec
    <3>1. CASE Is(r, n, "set_specs") /\ r.spec = gui[n].spec
      <4>1. SpecsTaken(r)
        BY <1>8, <2>8, <3>1 DEF Answered, Is
      <4> QED
        BY <1>1, <1>4, <1>8, <2>4, <3>1, <4>1 DEF Is
    <3>2. CASE <<n, "set_specs">> \notin Kinds(reqq)
      <4>1. n # m \/ r.op # "set_specs"
        BY <1>10, <3>2
      <4> QED
        BY <2>1, <2>5, <2>7, <2>8, <3>2, <4>1 DEF Held, SetOps
    <3> QED
      BY <2>2, <2>8, <3>1, <3>2
  <2>9. ASSUME <<n, "set_params">> \notin Kinds(Tail(reqq)), <<n, "set_params">> \notin refused'
        PROVE  gui[n].gain = obj'[n].gain
    <3>1. CASE Is(r, n, "set_params") /\ r.gain = gui[n].gain
      <4>1. ParamsTaken(m, r)
        BY <1>8, <2>9, <3>1 DEF Answered, Is
      <4> QED
        BY <1>1, <1>4, <1>8, <2>4, <3>1, <4>1 DEF Is
    <3>2. CASE <<n, "set_params">> \notin Kinds(reqq)
      <4>1. n # m \/ r.op # "set_params"
        BY <1>10, <3>2
      <4> QED
        BY <2>1, <2>6, <2>7, <2>9, <3>2, <4>1 DEF Held, SetOps
    <3> QED
      BY <2>3, <2>9, <3>1, <3>2
  <2> QED
    BY <1>1, <2>2, <2>3, <2>8, <2>9 DEF Held
<1> QED
  BY <1>12, <1>13, <1>14, <1>15 DEF InputInv

(* The service ends, or starts: nothing sent before is good.               *)
LEMMA RestartInputs ==
  ASSUME TypeInv, InputInv, UNCHANGED guiVars, inputs' = inputs, respq' = respq,
         good' = {}, reqq' = <<>>
  PROVE  InputInv'
<1>1. (\A m : ~SetGood(m)') /\ DOMAIN reqq' = {}
  BY DEF SetGood, SetOps
<1> QED
  BY <1>1 DEF InputInv, IdInv, OrderInv, Overtakes, FreshInv, Fresh, HeldInv, guiVars

LEMMA NextInputs == TypeInv /\ InputInv /\ [Next]_vars => InputInv'
<1> SUFFICES ASSUME TypeInv, InputInv, [Next]_vars PROVE InputInv'
  OBVIOUS
<1>1. CASE User
  BY <1>1, UserInputs DEF User
<1>2. CASE Dashboard
  BY <1>2, CallbackInputs
<1>3. CASE Service
  <2>1. CASE ServiceEnds
    BY <2>1, RestartInputs DEF ServiceEnds
  <2>2. CASE ServiceInit
    BY <2>2, RestartInputs DEF ServiceInit, topics, TypeInv, TopicType
  <2> QED
    BY <1>3, <2>1, <2>2, HandleCommandInputs, HandleRequestInputs
    DEF Service, DestroyNode, ServiceKilled
<1>4. CASE UNCHANGED vars
  <2>1. /\ UNCHANGED <<reqq, respq, good, refused, handlers, overtaken, edited, gui>>
        /\ UNCHANGED motorVars /\ inputs' = inputs /\ inputs \in Nat
    BY <1>4 DEF vars, motorVars, TypeInv, PanelType
  <2>2. inputs <= inputs'
    BY <2>1
  <2> QED
    BY <2>1, <2>2, SameInputs
<1> QED
  BY <1>1, <1>2, <1>3, <1>4 DEF Next

THEOREM InputsTracked == Spec => []InputInv
<1> QED
  BY InitInputs, NextInputs, Typed, PTL DEF Spec

(* SET and GET: a panel whose last SET was neither lost nor overtaken by   *)
(* the answer to an older GET shows what the service holds, unless the     *)
(* service refused that request.                                           *)
THEOREM InputsCorrect == Spec => []InputsAgree
<1>1. InputInv => InputsAgree
  BY DEF InputInv, HeldInv, Held, SetGood, SetOps, InputsAgree, Settled
<1> QED
  BY <1>1, InputsTracked, PTL
=============================================================================
