-------------------------- MODULE BoardGames_proofs --------------------------
(***************************************************************************)
(* Theorems about the display framework of the games, for every number of  *)
(* buffers of three or more, and about the rules of the games of           *)
(* BoardGames, for every size of the court or board and every length of a  *)
(* game.  A theorem about a game names what it assumes of its constants.   *)
(***************************************************************************)
EXTENDS BoardGames, FunctionTheorems, FiniteSetTheorems, WellFoundedInduction, TLAPS

(* The games take Cardinality from the same module.                        *)
LEMMA SameCardinality ==
    \A S : /\ Breaker!Cardinality(S) = Cardinality(S)
           /\ Breakout!Cardinality(S) = Cardinality(S)
           /\ Whack!Cardinality(S) = Cardinality(S)
           /\ Snake!Cardinality(S) = Cardinality(S)
           /\ Puzzle!Cardinality(S) = Cardinality(S)
           /\ Tetris!Cardinality(S) = Cardinality(S)
BY Zenon DEF Cardinality, Breaker!Cardinality, Breakout!Cardinality,
             Whack!Cardinality, Snake!Cardinality, Puzzle!Cardinality,
             Tetris!Cardinality

(* A set of numbers has a least one.                                       *)
LEMMA HasLeast == \A T : T \subseteq Nat /\ T # {} => \E m \in T : \A k \in T : m <= k
<1> SUFFICES ASSUME NEW T, T \subseteq Nat, T # {}
             PROVE  \E m \in T : \A k \in T : m <= k
  OBVIOUS
<1>1. PICK m \in T : \A k \in T : <<k, m>> \notin OpToRel(<, Nat)
  BY WFMin, NatLessThanWellFounded, Zenon
<1>2. \A k \in T : m <= k
  <2>1. ASSUME NEW k \in T PROVE ~(k < m)
    BY <1>1, Zenon DEF OpToRel
  <2> QED
    BY <2>1
<1> QED
  BY <1>2

(* What a one-to-one map leaves as many.                                   *)
LEMMA SameBijection ==
    ASSUME NEW S, NEW T, NEW f, f \in Bijection(S, T), IsFiniteSet(S)
    PROVE  IsFiniteSet(T) /\ Cardinality(T) = Cardinality(S)
BY FS_Bijection DEF ExistsBijection

(* As many as a function has arguments, or less.                           *)
LEMMA AtMostAsMany ==
    ASSUME NEW S, IsFiniteSet(S), NEW f, DOMAIN f = S, f = [x \in S |-> f[x]], NEW T,
           T = {f[x] : x \in S}
    PROVE  IsFiniteSet(T) /\ Cardinality(T) <= Cardinality(S)
<1>1. f \in [S -> T]
  OBVIOUS
<1>2. \A t \in T : \E x \in S : f[x] = t
  OBVIOUS
<1>3. f \in Surjection(S, T)
  BY <1>1, <1>2 DEF Surjection
<1> QED
  BY <1>3, FS_Surjection

(* What a number is divided by has one quotient and one remainder.         *)
LEMMA Quotients ==
    ASSUME NEW N \in Nat \ {0}, NEW q \in Int, NEW q2 \in Int,
           NEW r \in 0..(N - 1), NEW r2 \in 0..(N - 1), q * N + r = q2 * N + r2
    PROVE  q = q2 /\ r = r2
<1>1. ASSUME NEW a \in Int, NEW b \in Int, a < b PROVE b * N >= a * N + N
  BY <1>1, SMT
<1>2. q * N \in Int /\ q2 * N \in Int
  BY SMT
<1>3. ~(q < q2) /\ ~(q2 < q)
  BY <1>1, <1>2, SMT
<1> QED
  BY <1>2, <1>3, SMT

(* A number is its quotient times the divisor, and the remainder.          *)
LEMMA Dividing ==
    ASSUME NEW N \in Nat \ {0}, NEW n \in Int
    PROVE  n \div N \in Int /\ n % N \in 0..(N - 1) /\ n = (n \div N) * N + (n % N)
<1>1. n \div N \in Int
  BY SMT
<1>2. n % N \in 0..(N - 1)
  BY SMT
<1>3. n = (n \div N) * N + (n % N)
  BY SMT
<1> QED
  BY <1>1, <1>2, <1>3

(* Counting up, a quotient stays or grows by one.                          *)
LEMMA OneMore ==
    ASSUME NEW N \in Nat \ {0}, NEW n \in Nat
    PROVE  /\ n \div N \in Nat /\ (n + 1) \div N \in Nat /\ 0 \div N = 0
           /\ (n + 1) \div N \in {n \div N, n \div N + 1}
<1> DEFINE q == n \div N
           r == n % N
           q2 == (n + 1) \div N
           r2 == (n + 1) % N
<1>1. /\ q \in Int /\ r \in 0..(N - 1) /\ n = q * N + r
      /\ q2 \in Int /\ r2 \in 0..(N - 1) /\ n + 1 = q2 * N + r2
  BY Dividing
<1>2. n \div N \in Nat /\ (n + 1) \div N \in Nat /\ 0 \div N = 0
  BY SMT
<1> HIDE DEF q, r, q2, r2
<1>3. CASE r + 1 < N
  <2>1. q * N + (r + 1) = q2 * N + r2
    BY <1>1, SMT
  <2>2. q = q2
    BY <1>1, <1>3, <2>1, Quotients
  <2> QED
    BY <1>2, <2>2 DEF q, q2
<1>4. CASE r + 1 = N
  <2>1. (q + 1) * N + 0 = q2 * N + r2
    BY <1>1, <1>4, SMT
  <2>2. q + 1 = q2
    BY <1>1, <2>1, Quotients
  <2> QED
    BY <1>2, <2>2 DEF q, q2
<1> QED
  BY <1>1, <1>3, <1>4

(* The bricks of a level can be counted, and a brick that is hit is one    *)
(* less.                                                                   *)
LEMMA BricksFinite ==
    ASSUME IsFiniteSet(BRICKS), BRICKS # {}
    PROVE  /\ Cardinality(BRICKS) \in Nat /\ Cardinality(BRICKS) > 0
           /\ \A b \in SUBSET BRICKS : Cardinality(b) \in Nat
           /\ \A b \in SUBSET BRICKS : \A c \in b : Cardinality(b \ {c}) = Cardinality(b) - 1
<1>1. \A b \in SUBSET BRICKS : IsFiniteSet(b) /\ Cardinality(b) \in Nat
  BY FS_Subset, FS_CardinalityType
<1>2. Cardinality(BRICKS) # 0
  BY FS_EmptySet
<1> QED
  BY <1>1, <1>2, FS_RemoveElement

-----------------------------------------------------------------------------
(* The display framework.                                                  *)
(* The ring of buffer indexes.                                             *)
LEMMA NextIndex ==
  ASSUME NEW i \in Buffers
  PROVE  /\ (i + 1) % NUM_BUFFERS \in Buffers
         /\ (i + 1) % NUM_BUFFERS = IF i + 1 = NUM_BUFFERS THEN 0 ELSE i + 1
<1>1. NUM_BUFFERS \in Nat /\ NUM_BUFFERS >= 3 /\ i \in 0 .. NUM_BUFFERS - 1
  BY BuffersAssumption DEF Buffers
<1>2. CASE i + 1 = NUM_BUFFERS
  <2>1. /\ (i + 1) % NUM_BUFFERS \in 0 .. NUM_BUFFERS - 1
        /\ i + 1 = NUM_BUFFERS * ((i + 1) \div NUM_BUFFERS)
                     + ((i + 1) % NUM_BUFFERS)
    BY <1>1, SMT
  <2> QED
    BY <1>1, <1>2, <2>1, SMT DEF Buffers
<1>3. CASE i + 1 # NUM_BUFFERS
  BY <1>1, <1>3, SMT DEF Buffers
<1> QED
  BY <1>2, <1>3

(* Three consecutive buffers of the ring are different.                    *)
LEMMA ThreeBuffers ==
  ASSUME NEW i \in Buffers, NEW j, NEW k,
         j = (i + 1) % NUM_BUFFERS, k = (j + 1) % NUM_BUFFERS
  PROVE  j \in Buffers /\ k \in Buffers /\ i # j /\ j # k /\ i # k
<1>1. j \in Buffers /\ j = IF i + 1 = NUM_BUFFERS THEN 0 ELSE i + 1
  BY NextIndex
<1>2. k \in Buffers /\ k = IF j + 1 = NUM_BUFFERS THEN 0 ELSE j + 1
  BY <1>1, NextIndex
<1> QED
  BY <1>1, <1>2, BuffersAssumption DEF Buffers

(* The back buffer of a plane is neither on the screen nor pending.        *)
LEMMA BackIsFree ==
  ASSUME TypeOK, Ring, Running, NEW p \in Planes
  PROVE  /\ Back(p) \in Buffers /\ Back(p) # front[p]
         /\ screen[p] \in Buffers /\ screen[p] # Back(p)
         /\ busy => target[p] # Back(p)
<1>1. front[p] \in Buffers /\ screen[p] \in Buffers
  BY DEF TypeOK, Ring
<1>2. CASE busy
  <2>1. target[p] = front[p] /\ front[p] = (screen[p] + 1) % NUM_BUFFERS
    BY <1>2 DEF Ring
  <2> QED
    BY <1>1, <2>1, ThreeBuffers DEF Back
<1>3. CASE ~busy
  <2>1. screen[p] = front[p]
    BY <1>3 DEF Ring
  <2> QED
    BY <1>1, <1>3, <2>1, ThreeBuffers DEF Back
<1> QED
  BY <1>2, <1>3

-----------------------------------------------------------------------------
(* The inductive invariant.                                                *)
LEMMA InitIInv == Init => IInv
<1> SUFFICES ASSUME Init PROVE IInv
  OBVIOUS
<1>1. 0 \in Buffers
  BY BuffersAssumption DEF Buffers
<1>2. TypeOK /\ Fresh
  BY <1>1 DEF Init, Created, TypeOK, Fresh, NotOurs, Saved
<1>3. Ring /\ Images /\ Drawn
  BY DEF Init, Created, Ring, Images, Drawn, Running
<1>4. Flag
  BY DEF Init, Flag, Outstanding
<1> QED
  BY <1>2, <1>3, <1>4 DEF IInv

(* drm_init shows buffer 0 of both planes.                                 *)
LEMMA DrmInitIInv == IInv /\ DrmInit => IInv'
<1> SUFFICES ASSUME IInv, DrmInit PROVE IInv'
  OBVIOUS
<1>1. TypeOK /\ Fresh /\ Flag
  BY DEF IInv
<1>2. /\ pc = "init" /\ pc' = "loop"
      /\ screen' = [p \in Planes |-> 0] /\ cursor' = 0
      /\ UNCHANGED <<quit, frame, front, pflip_pending, image, sprite, busy,
                     target, targetAt, events, gaveUp>>
  BY DEF DrmInit, memory
<1>3. 0 \in Buffers
  BY BuffersAssumption DEF Buffers
<1>4. TypeOK' /\ Fresh'
  BY <1>1, <1>2, <1>3 DEF TypeOK, Fresh
<1>5. Ring'
  BY <1>1, <1>2, <1>3 DEF Fresh, Ring
<1>6. Images'
  <2>1. /\ cursor' = 0 /\ Newest' = 0 /\ frame' \in Nat
        /\ \A p \in Planes : screen'[p] = 0 /\ front'[p] = 0
                            /\ image'[p][0] = 0
    BY <1>1, <1>2 DEF Fresh, Newest, TypeOK
  <2> QED
    BY <2>1 DEF Images
<1>7. Drawn' /\ Flag'
  BY <1>1, <1>2 DEF Drawn, Flag, Outstanding
<1> QED
  BY <1>4, <1>5, <1>6, <1>7 DEF IInv

(* Steps that leave the buffers and the screen alone.                      *)
LEMMA Still ==
  ASSUME Ring, Images, Running' => Running,
         UNCHANGED <<screen, cursor, busy, target, targetAt, front, image,
                     frame>>
  PROVE  Ring' /\ Images'
BY DEF Ring, Images, Newest

(* The steps of the loop and of drm_wait_flip that draw and commit nothing.*)
LEMMA ControlIInv ==
  ASSUME IInv,
         DrmInitFails \/ LoopTest \/ DrawCursor \/ WaitDone \/ HandleEvents
           \/ WaitGivesUp \/ CommitRefused \/ Signal
  PROVE  IInv'
<1>1. TypeOK /\ Fresh /\ Ring /\ Images /\ Drawn /\ Flag
  BY DEF IInv
<1>2. UNCHANGED <<screen, cursor, busy, target, targetAt, front, image, frame>>
  BY DEF DrmInitFails, LoopTest, DrawCursor, WaitDone, HandleEvents,
         WaitGivesUp, CommitRefused, Signal, kernelVars, memory
<1>3. /\ Running' => Running
      /\ pc' = "init" => pc = "init"
  BY DEF DrmInitFails, LoopTest, DrawCursor, WaitDone, HandleEvents,
         WaitGivesUp, CommitRefused, Signal, Running, Waits, AfterWait
<1>4. Ring' /\ Images'
  BY <1>1, <1>2, <1>3, Still
<1>5. TypeOK'
  <2>1. /\ quit \in BOOLEAN /\ pflip_pending \in BOOLEAN /\ gaveUp \in BOOLEAN
        /\ sprite \in Nat /\ frame \in Nat /\ events \in Nat
    BY <1>1 DEF TypeOK
  <2>2. /\ quit' \in {quit, TRUE} /\ gaveUp' \in {gaveUp, TRUE}
        /\ sprite' \in {sprite, frame} /\ events' \in {events, 0}
        /\ pflip_pending' \in {pflip_pending, FALSE}
    BY DEF DrmInitFails, LoopTest, DrawCursor, WaitDone, HandleEvents,
           WaitGivesUp, CommitRefused, Signal, kernelVars, memory
  <2>3. pc' \in {pc, "failed", "cleanup", "update", "primary", "commit",
                 "disable", "loop"}
    BY DEF DrmInitFails, LoopTest, DrawCursor, WaitDone, HandleEvents,
           WaitGivesUp, CommitRefused, Signal, AfterWait
  <2>4. /\ quit' \in BOOLEAN /\ pflip_pending' \in BOOLEAN
        /\ gaveUp' \in BOOLEAN
    BY <2>1, <2>2, Zenon
  <2>5. sprite' \in Nat /\ events' \in Nat
    BY <2>1, <2>2
  <2> QED
    BY <1>1, <1>2, <2>3, <2>4, <2>5 DEF TypeOK
<1>6. Fresh'
  BY <1>1, <1>2, <1>3 DEF Fresh
<1>7. Drawn'
  <2>1. /\ pc' \in {"overlay", "wait", "commit"}
             => pc \in {"overlay", "wait", "commit"}
        /\ pc' \in {"wait", "commit"} => pc \in {"wait", "commit"}
    BY DEF DrmInitFails, LoopTest, DrawCursor, WaitDone, HandleEvents,
           WaitGivesUp, CommitRefused, Signal, Waits, AfterWait
  <2> QED
    BY <1>1, <1>2, <2>1 DEF Drawn, Back
<1>8. Flag'
  <2>1. CASE DrmInitFails \/ LoopTest \/ DrawCursor \/ CommitRefused \/ Signal
    <3>1. /\ UNCHANGED <<pflip_pending, events, gaveUp>>
          /\ pc' \in {pc, "failed", "cleanup", "update", "primary", "loop"}
      BY <2>1 DEF DrmInitFails, LoopTest, DrawCursor, CommitRefused, Signal,
                  kernelVars
    <3> QED
      BY <1>1, <1>2, <3>1 DEF Flag, Outstanding
  <2>2. CASE WaitDone
    BY <1>1, <1>2, <2>2 DEF Flag, Outstanding, WaitDone, kernelVars
  <2>3. CASE HandleEvents
    <3>1. pc # "commit" /\ pc' = pc /\ ~pflip_pending' /\ events' = 0
          /\ pflip_pending /\ events \in Nat /\ events > 0 /\ gaveUp' = gaveUp
      BY <1>1, <2>3 DEF HandleEvents, Waits, TypeOK
    <3> QED
      BY <1>1, <1>2, <3>1 DEF Flag, Outstanding
  <2>4. CASE WaitGivesUp
    <3>1. gaveUp' /\ events' = 0
      BY <2>4 DEF WaitGivesUp, kernelVars
    <3> QED
      BY <1>2, <3>1 DEF Flag, Outstanding
  <2> QED
    BY <2>1, <2>2, <2>3, <2>4
<1> QED
  BY <1>1, <1>4, <1>5, <1>6, <1>7, <1>8 DEF IInv

(* The game computes the next frame.                                       *)
LEMMA UpdateIInv == IInv /\ Update => IInv'
<1> SUFFICES ASSUME IInv, Update PROVE IInv'
  OBVIOUS
<1>1. TypeOK /\ Fresh /\ Ring /\ Images /\ Drawn /\ Flag
  BY DEF IInv
<1>2. /\ pc = "update" /\ pc' = "sprite" /\ frame' = frame + 1
      /\ quit' \in BOOLEAN
      /\ UNCHANGED <<front, pflip_pending, image, sprite, busy, target,
                     targetAt, events, screen, cursor, gaveUp>>
  BY <1>1 DEF Update, memory, kernelVars, TypeOK
<1>3. TypeOK' /\ Fresh'
  BY <1>1, <1>2 DEF TypeOK, Fresh
<1>4. Ring'
  BY <1>1, <1>2 DEF Ring, Running
<1>5. Images'
  <2>1. /\ cursor \in Nat /\ cursor <= Newest /\ Newest <= frame
        /\ \A p \in Planes :
             image[p][screen[p]] = cursor /\ image[p][front[p]] = Newest
    BY <1>1, <1>2 DEF Images, Running
  <2>2. Newest \in Int /\ frame \in Nat /\ Newest' = Newest
    BY <1>1, <1>2, <2>1 DEF TypeOK, Newest
  <2>3. Newest' <= frame'
    BY <1>2, <2>1, <2>2
  <2> QED
    BY <1>2, <2>1, <2>2, <2>3 DEF Images
<1>6. Drawn' /\ Flag'
  BY <1>1, <1>2 DEF Drawn, Flag, Outstanding
<1> QED
  BY <1>3, <1>4, <1>5, <1>6 DEF IInv

(* Drawing into a back buffer leaves the ring's other buffers alone.       *)
LEMMA RenderKeeps ==
  ASSUME IInv, Running, NEW q \in Planes, Render(q),
         UNCHANGED <<screen, cursor, busy, target, targetAt, front, frame>>
  PROVE  /\ image' \in [Planes -> [Buffers -> Nat]]
         /\ image'[q][Back(q)] = frame
         /\ \A p \in Planes : p # q => image'[p] = image[p]
         /\ Ring' /\ Images'
<1>1. TypeOK /\ Ring /\ Images
  BY DEF IInv
<1>2. /\ image \in [Planes -> [Buffers -> Nat]] /\ frame \in Nat
      /\ front \in [Planes -> Buffers]
  BY <1>1 DEF TypeOK
<1>3. /\ Back(q) \in Buffers /\ Back(q) # front[q]
      /\ screen[q] \in Buffers /\ screen[q] # Back(q)
  BY <1>1, BackIsFree
<1>4. image' = [image EXCEPT ![q] = [image[q] EXCEPT ![Back(q)] = frame]]
  BY DEF Render
<1>5. /\ image' \in [Planes -> [Buffers -> Nat]]
      /\ image'[q] = [image[q] EXCEPT ![Back(q)] = frame]
      /\ \A p \in Planes : p # q => image'[p] = image[p]
  BY <1>2, <1>3, <1>4
<1>6. /\ image[q] \in [Buffers -> Nat]
      /\ image'[q][Back(q)] = frame
      /\ \A b \in Buffers : b # Back(q) => image'[q][b] = image[q][b]
  BY <1>2, <1>3, <1>5
<1>7. Ring'
  BY <1>1 DEF Ring
<1>8. Images'
  <2>1. /\ cursor \in Nat /\ cursor <= Newest /\ Newest <= frame
        /\ \A p \in Planes :
             image[p][screen[p]] = cursor /\ image[p][front[p]] = Newest
    BY <1>1 DEF Images
  <2>2. Newest' = Newest
    BY DEF Newest
  <2>3. \A p \in Planes :
          image'[p][screen[p]] = cursor /\ image'[p][front[p]] = Newest
    <3> TAKE p \in Planes
    <3>1. CASE p = q
      BY <1>2, <1>3, <1>6, <2>1, <3>1
    <3>2. CASE p # q
      BY <1>5, <2>1, <3>2
    <3> QED
      BY <3>1, <3>2
  <2> QED
    BY <2>1, <2>2, <2>3 DEF Images
<1> QED
  BY <1>5, <1>6, <1>7, <1>8

(* Drawing keeps the invariant.                                            *)
LEMMA RenderIInv == IInv /\ (RenderPrimary \/ RenderOverlay) => IInv'
<1> SUFFICES ASSUME IInv, RenderPrimary \/ RenderOverlay PROVE IInv'
  OBVIOUS
<1>1. TypeOK /\ Fresh /\ Drawn /\ Flag
  BY DEF IInv
<1>2. /\ pc' \notin {"init", "commit"} /\ pc \in {"primary", "overlay"}
      /\ pc' \in {"overlay", "wait"}
      /\ UNCHANGED <<quit, frame, front, pflip_pending, sprite, busy, target,
                     targetAt, events, screen, cursor, gaveUp>>
  BY DEF RenderPrimary, RenderOverlay, kernelVars
<1>3. Running
  BY <1>2 DEF Running
<1>4. Flag'
  BY <1>1, <1>2 DEF Flag, Outstanding
<1>5. CASE RenderPrimary
  <2>1. /\ pc' = "overlay" /\ Render("primary") /\ "primary" \in Planes
    BY <1>5 DEF RenderPrimary, Planes
  <2>2. /\ image' \in [Planes -> [Buffers -> Nat]]
        /\ image'["primary"][Back("primary")] = frame
        /\ Ring' /\ Images'
    BY <1>2, <1>3, <2>1, RenderKeeps
  <2>3. TypeOK' /\ Fresh'
    BY <1>1, <1>2, <2>1, <2>2 DEF TypeOK, Fresh
  <2>4. Drawn'
    BY <1>2, <2>1, <2>2 DEF Drawn, Back
  <2> QED
    BY <1>4, <2>2, <2>3, <2>4 DEF IInv
<1>6. CASE RenderOverlay
  <2>1. /\ pc = "overlay" /\ pc' = "wait" /\ Render("overlay")
        /\ "overlay" \in Planes /\ "primary" \in Planes
    BY <1>6 DEF RenderOverlay, Planes
  <2>2. /\ image' \in [Planes -> [Buffers -> Nat]]
        /\ image'["overlay"][Back("overlay")] = frame
        /\ image'["primary"] = image["primary"]
        /\ Ring' /\ Images'
    BY <1>2, <1>3, <2>1, RenderKeeps
  <2>3. TypeOK' /\ Fresh'
    BY <1>1, <1>2, <2>1, <2>2 DEF TypeOK, Fresh
  <2>4. Drawn'
    BY <1>1, <1>2, <2>1, <2>2 DEF Drawn, Back
  <2> QED
    BY <1>4, <2>2, <2>3, <2>4 DEF IInv
<1> QED
  BY <1>5, <1>6

(* An accepted commit turns the ring by one buffer.                        *)
LEMMA CommitIInv == IInv /\ CommitAccepted => IInv'
<1> SUFFICES ASSUME IInv, CommitAccepted PROVE IInv'
  OBVIOUS
<1>1. TypeOK /\ Fresh /\ Ring /\ Images /\ Drawn /\ Flag
  BY DEF IInv
<1>2. /\ pc = "commit" /\ pc' = "loop" /\ ~busy /\ busy' = TRUE
      /\ target' = [p \in Planes |-> Back(p)] /\ targetAt' = frame
      /\ front' = [p \in Planes |-> Back(p)] /\ pflip_pending' = TRUE
      /\ UNCHANGED <<quit, frame, image, sprite, events, screen, cursor,
                     gaveUp>>
  BY DEF CommitAccepted, memory
<1>3. Running
  BY <1>2 DEF Running
<1>4. \A p \in Planes : Back(p) \in Buffers /\ screen[p] = front[p]
                        /\ screen[p] \in Buffers
  BY <1>1, <1>2, <1>3, BackIsFree DEF Ring
<1>5. TypeOK' /\ Fresh'
  BY <1>1, <1>2, <1>4 DEF TypeOK, Fresh
<1>6. Ring'
  BY <1>2, <1>4 DEF Ring, Back
<1>7. Images'
  <2>1. /\ cursor \in Nat /\ cursor <= frame /\ frame \in Nat
        /\ \A p \in Planes : image[p][screen[p]] = cursor
    BY <1>1, <1>2, <1>3 DEF Images, Newest, TypeOK
  <2>2. \A p \in Planes : image[p][Back(p)] = frame
    BY <1>1, <1>2 DEF Drawn, Planes
  <2>3. Newest' = frame
    BY <1>2 DEF Newest
  <2> QED
    BY <1>2, <2>1, <2>2, <2>3 DEF Images
<1>8. Drawn'
  BY <1>2 DEF Drawn
<1>9. Flag'
  <2>1. Outstanding <= 1 /\ Outstanding = events /\ events \in Nat
        /\ (~gaveUp => events = 0)
    BY <1>1, <1>2 DEF Flag, Outstanding, TypeOK
  <2>2. Outstanding' = events + 1
    BY <1>2 DEF Outstanding
  <2> QED
    BY <1>2, <2>1, <2>2 DEF Flag
<1> QED
  BY <1>5, <1>6, <1>7, <1>8, <1>9 DEF IInv

(* The vertical blank makes the pending buffers the visible ones.          *)
LEMMA VBlankIInv == IInv /\ VBlank => IInv'
<1> SUFFICES ASSUME IInv, VBlank PROVE IInv'
  OBVIOUS
<1>1. TypeOK /\ Fresh /\ Ring /\ Images /\ Drawn /\ Flag
  BY DEF IInv
<1>2. /\ busy /\ busy' = FALSE /\ screen' = target /\ cursor' = targetAt
      /\ events' = events + 1
      /\ UNCHANGED <<pc, quit, frame, front, pflip_pending, image, sprite,
                     target, targetAt, gaveUp>>
  BY DEF VBlank, procVars, memory
<1>3. \A p \in Planes : target[p] = front[p] /\ front[p] \in Buffers
  BY <1>1, <1>2 DEF Ring, TypeOK
<1>4. TypeOK' /\ Fresh'
  <2>1. target \in [Planes -> Buffers \cup NotOurs] /\ events + 1 \in Nat
    BY <1>1 DEF TypeOK
  <2> QED
    BY <1>1, <1>2, <2>1 DEF TypeOK, Fresh
<1>5. Ring'
  BY <1>2, <1>3 DEF Ring
<1>6. Images'
  <2>1. /\ targetAt <= frame /\ targetAt \in Nat
        /\ \A p \in Planes : image[p][front[p]] = targetAt
    BY <1>1, <1>2 DEF Images, Newest, TypeOK
  <2>2. Newest' = targetAt
    BY <1>2 DEF Newest
  <2> QED
    BY <1>2, <1>3, <2>1, <2>2 DEF Images
<1>7. Drawn'
  BY <1>1, <1>2 DEF Drawn, Back
<1>8. Flag'
  <2>1. events \in Nat /\ Outstanding = events + 1 /\ Outstanding' = events + 1
    BY <1>1, <1>2 DEF Outstanding, TypeOK
  <2> QED
    BY <1>1, <1>2, <2>1 DEF Flag
<1> QED
  BY <1>4, <1>5, <1>6, <1>7, <1>8 DEF IInv

(* The steps of drm_cleanup after its wait.                                *)
LEMMA CleanupIInv ==
  IInv /\ (DisablePlanes \/ RestoreCrtc \/ DestroyBuffers) => IInv'
<1> SUFFICES ASSUME IInv, DisablePlanes \/ RestoreCrtc \/ DestroyBuffers
             PROVE IInv'
  OBVIOUS
<1>1. TypeOK /\ Fresh /\ Ring /\ Images /\ Drawn /\ Flag
  BY DEF IInv
<1>2. /\ pc \in {"disable", "restore", "destroy"}
      /\ pc' \in {"restore", "destroy", "done"}
      /\ UNCHANGED <<quit, frame, front, pflip_pending, image, sprite, target,
                     targetAt, events, gaveUp>>
      /\ busy' = busy \/ busy' = FALSE
  BY DEF DisablePlanes, RestoreCrtc, DestroyBuffers, memory
<1>3. TypeOK'
  <2>1. screen' \in [Planes -> Buffers \cup NotOurs]
        /\ cursor' \in Nat \cup NotOurs /\ busy' \in BOOLEAN
    BY <1>1 DEF DisablePlanes, RestoreCrtc, DestroyBuffers, TypeOK, NotOurs
  <2> QED
    BY <1>1, <1>2, <2>1 DEF TypeOK
<1>4. Fresh' /\ Drawn'
  BY <1>2 DEF Fresh, Drawn
<1>5. ~Running'
  BY <1>2 DEF Running
<1>6. Ring' /\ Images'
  <2>1. CASE busy'
    <3>1. UNCHANGED <<screen, cursor, busy>>
      BY <2>1 DEF DisablePlanes, RestoreCrtc, DestroyBuffers
    <3> QED
      BY <1>1, <1>2, <1>5, <3>1, Still
  <2>2. CASE ~busy'
    BY <1>5, <2>2 DEF Ring, Images
  <2> QED
    BY <2>1, <2>2
<1>7. Flag'
  <2>1. ~gaveUp => ~busy /\ Outstanding = 0 /\ ~pflip_pending
    BY <1>1, <1>2 DEF Flag, Outstanding, TypeOK
  <2>2. Outstanding \in Int /\ Outstanding' \in Int
        /\ Outstanding' <= Outstanding
    BY <1>1, <1>2 DEF Outstanding, TypeOK
  <2>3. ~gaveUp => Outstanding' = 0
    BY <1>2, <2>1 DEF Outstanding
  <2>4. Outstanding <= 2 /\ (~pflip_pending => Outstanding <= 1)
    BY <1>1 DEF Flag
  <2> QED
    BY <1>2, <2>1, <2>2, <2>3, <2>4 DEF Flag
<1> QED
  BY <1>1, <1>3, <1>4, <1>6, <1>7 DEF IInv

(* Every step does, and doing nothing.                                     *)
LEMMA NextIInv == IInv /\ [Next]_vars => IInv'
<1> SUFFICES ASSUME IInv, [Next]_vars PROVE IInv'
  OBVIOUS
<1>1. CASE Next
  BY <1>1, DrmInitIInv, ControlIInv, UpdateIInv, RenderIInv, CommitIInv,
     VBlankIInv, CleanupIInv DEF Next, App
<1>2. CASE UNCHANGED vars
  <2>1. UNCHANGED <<pc, quit, frame, front, pflip_pending, image, sprite, busy,
                    target, targetAt, events, screen, cursor, gaveUp>>
    BY <1>2 DEF vars, procVars, memory, kernelVars
  <2> QED
    BY <2>1 DEF IInv, TypeOK, Fresh, Ring, Images, Newest, Drawn, Flag,
                Outstanding, Running, Back
<1> QED
  BY <1>1, <1>2

(* The inductive invariant holds in every reachable state.                 *)
THEOREM Invariance == Spec => []IInv
<1> QED
  BY InitIInv, NextIInv, PTL DEF Spec

-----------------------------------------------------------------------------
(* Every variable keeps its type.                                          *)
THEOREM TypeCorrect == Spec => []TypeOK
<1>1. IInv => TypeOK
  BY DEF IInv
<1> QED
  BY <1>1, Invariance, PTL

(* The loop never draws into a buffer the display uses or is about to use. *)
THEOREM NeverDrawsOnScreen == Spec => []BackBuffersFree
<1>1. IInv => BackBuffersFree
  <2> SUFFICES ASSUME IInv, NEW p \in Planes, pc = p
               PROVE  screen[p] # Back(p) /\ (busy => target[p] # Back(p))
    BY DEF BackBuffersFree
  <2>1. Running
    BY DEF Running, Planes
  <2> QED
    BY <2>1, BackIsFree DEF IInv
<1> QED
  BY <1>1, Invariance, PTL

(* Both planes and the cursor position change together.                    *)
THEOREM PlanesTogether == Spec => []PlanesInStep
<1>1. IInv => PlanesInStep
  <2> SUFFICES ASSUME IInv, Running, NEW p \in Planes PROVE Shown(p) = cursor
    BY DEF PlanesInStep
  <2>1. screen[p] \in Buffers /\ image[p][screen[p]] = cursor
    BY DEF IInv, Ring, Images
  <2>2. screen[p] \notin NotOurs
    BY <2>1, BuffersAssumption DEF Buffers, NotOurs, Saved, Off
  <2> QED
    BY <2>1, <2>2 DEF Shown
<1> QED
  BY <1>1, Invariance, PTL

(* Frames are skipped only after a wait that gave up, and unread events    *)
(* never pile up.                                                          *)
THEOREM SkipsExplained == Spec => [](SkipsOnlyIfLate /\ EventsBounded)
<1>1. IInv => SkipsOnlyIfLate /\ EventsBounded
  <2> SUFFICES ASSUME IInv PROVE SkipsOnlyIfLate /\ EventsBounded
    OBVIOUS
  <2>1. Flag /\ events \in Nat
    BY DEF IInv, TypeOK
  <2>2. EventsBounded
    BY <2>1 DEF Flag, EventsBounded
  <2>3. ASSUME pc = "commit", busy, ~gaveUp PROVE FALSE
    <3>1. Outstanding = 0
      BY <2>1, <2>3 DEF Flag
    <3> QED
      BY <2>1, <2>3, <3>1 DEF Outstanding
  <2> QED
    BY <2>2, <2>3 DEF SkipsOnlyIfLate
<1> QED
  BY <1>1, Invariance, PTL

(* A step replaces no image on the screen by an older one.                 *)
LEMMA StepForward ==
  ASSUME IInv, Next, NEW p \in Planes,
         screen[p] \in Buffers, screen'[p] \in Buffers
  PROVE  image'[p][screen'[p]] >= image[p][screen[p]]
<1>1. TypeOK /\ Ring /\ Images
  BY DEF IInv
<1>2. image[p][screen[p]] \in Nat
  BY <1>1 DEF TypeOK
<1>3. CASE VBlank
  <2>1. /\ image[p][screen[p]] = cursor /\ cursor <= Newest
        /\ image[p][front[p]] = Newest
        /\ target[p] = front[p]
    BY <1>1, <1>3 DEF VBlank, Images, Ring
  <2>2. Newest \in Nat
    BY <1>1, <1>3 DEF TypeOK, Newest, VBlank
  <2>3. image' = image /\ screen'[p] = front[p]
    BY <1>3, <2>1 DEF VBlank, memory
  <2> QED
    BY <2>1, <2>2, <2>3, <1>2
<1>4. CASE RenderPrimary \/ RenderOverlay
  <2>1. PICK q \in Planes :
          Running /\ Render(q) /\ screen' = screen /\ cursor' = cursor
          /\ UNCHANGED <<busy, target, targetAt, front, frame>> /\ Running'
    BY <1>4 DEF RenderPrimary, RenderOverlay, kernelVars, Planes, Running
  <2>2. Images'
    BY <2>1, RenderKeeps
  <2>3. /\ image[p][screen[p]] = cursor
        /\ image'[p][screen'[p]] = cursor'
    BY <1>1, <2>1, <2>2 DEF Images
  <2> QED
    BY <1>2, <2>1, <2>3
<1>5. CASE DrmInit
  BY <1>5, BuffersAssumption DEF DrmInit, IInv, Fresh, Saved, Buffers
<1>6. CASE \/ DrmInitFails \/ LoopTest \/ Update \/ DrawCursor \/ WaitDone
           \/ HandleEvents \/ WaitGivesUp \/ CommitAccepted \/ CommitRefused
           \/ DisablePlanes \/ RestoreCrtc \/ DestroyBuffers \/ Signal
  <2>1. image' = image
    BY <1>6 DEF DrmInitFails, LoopTest, Update, DrawCursor, WaitDone,
                HandleEvents, WaitGivesUp, CommitAccepted, CommitRefused,
                DisablePlanes, RestoreCrtc, DestroyBuffers, Signal, memory
  <2>2. screen \in [Planes -> Buffers \cup NotOurs]
    BY <1>1 DEF TypeOK
  <2>3. Saved \notin Buffers /\ Off \notin Buffers
    BY BuffersAssumption DEF Saved, Off, Buffers
  <2>4. \/ screen' = screen
        \/ \E q \in Planes, v \in NotOurs : screen' = [screen EXCEPT ![q] = v]
        \/ screen' = [r \in Planes |->
                        IF screen[r] \in NotOurs THEN screen[r] ELSE Off]
    BY <1>6
       DEF DrmInitFails, LoopTest, Update, DrawCursor, WaitDone,
           HandleEvents, WaitGivesUp, CommitAccepted, CommitRefused,
           DisablePlanes, RestoreCrtc, DestroyBuffers, Signal, kernelVars,
           Planes, NotOurs
  <2>5. screen'[p] = screen[p]
    BY <2>2, <2>3, <2>4 DEF NotOurs
  <2> QED
    BY <1>2, <2>1, <2>5
<1> QED
  BY <1>3, <1>4, <1>5, <1>6 DEF Next, App

(* What a plane shows is never replaced by an older frame.                 *)
THEOREM ScreenNeverBack == Spec => ScreenForward
<1>1. IInv /\ [Next]_vars
        => [\A p \in Planes :
              screen[p] \in Buffers /\ screen'[p] \in Buffers
                => Shown(p)' >= Shown(p)]_vars
  <2> SUFFICES ASSUME IInv, Next, NEW p \in Planes,
                      screen[p] \in Buffers, screen'[p] \in Buffers
               PROVE  Shown(p)' >= Shown(p)
    OBVIOUS
  <2>1. /\ Shown(p) = image[p][screen[p]]
        /\ Shown(p)' = image'[p][screen'[p]]
    BY BuffersAssumption DEF Shown, Buffers, NotOurs, Saved, Off
  <2> QED
    BY <2>1, StepForward
<1> QED
  BY <1>1, Invariance, PTL DEF Spec, ScreenForward

(* What drm_cleanup has done to the screen when every call succeeded.      *)
TidiedUp ==
  /\ pc # "failed"
  /\ pc \in {"restore", "destroy", "done"} => ~busy /\ screen["overlay"] \in NotOurs
  /\ pc \in {"destroy", "done"} => screen["primary"] = Saved

(* No step undoes it, once the two calls that change the screen succeed.   *)
LEMMA TidyStep ==
  ASSUME TypeOK, TidiedUp, [Next]_vars, pc' # "failed",
         pc = "disable" /\ pc' = "restore"
           => ~busy /\ screen' = [screen EXCEPT !["overlay"] = Off],
         pc = "restore" /\ pc' = "destroy"
           => screen' = [screen EXCEPT !["primary"] = Saved]
  PROVE  TidiedUp'
<1>1. DOMAIN screen = Planes /\ "primary" \in Planes /\ "overlay" \in Planes
  BY DEF TypeOK, Planes
<1>2. Saved \in NotOurs /\ Off \in NotOurs
  BY DEF NotOurs
<1>3. CASE DrmInit \/ LoopTest \/ Update \/ DrawCursor \/ RenderPrimary \/ RenderOverlay
  BY <1>3 DEF DrmInit, LoopTest, Update, DrawCursor, RenderPrimary, RenderOverlay, TidiedUp
<1>4. CASE WaitDone \/ HandleEvents \/ WaitGivesUp \/ CommitAccepted \/ CommitRefused
  BY <1>4 DEF WaitDone, HandleEvents, WaitGivesUp, CommitAccepted, CommitRefused, Waits,
              AfterWait, TidiedUp
<1>5. CASE DisablePlanes
  <2>1. ~busy /\ busy' = busy /\ pc' = "restore" /\ screen'["overlay"] = Off
    BY <1>1, <1>5 DEF DisablePlanes
  <2> QED
    BY <1>2, <2>1 DEF TidiedUp
<1>6. CASE RestoreCrtc
  <2>1. /\ busy' = busy /\ pc' = "destroy" /\ pc = "restore"
        /\ screen'["overlay"] = screen["overlay"] /\ screen'["primary"] = Saved
    BY <1>1, <1>6 DEF RestoreCrtc
  <2> QED
    BY <2>1 DEF TidiedUp
<1>7. CASE DestroyBuffers
  <2>1. /\ busy' = FALSE /\ pc' = "done" /\ pc = "destroy"
        /\ \A p \in Planes : screen[p] \in NotOurs => screen'[p] = screen[p]
    BY <1>7 DEF DestroyBuffers
  <2> QED
    BY <1>1, <1>2, <2>1 DEF TidiedUp
<1>8. CASE Signal \/ UNCHANGED vars
  BY <1>8 DEF Signal, kernelVars, vars, procVars, TidiedUp
<1>9. CASE VBlank
  BY <1>9 DEF VBlank, procVars, TidiedUp
<1>10. CASE DrmInitFails
  BY <1>10 DEF DrmInitFails
<1> QED
  BY <1>3, <1>4, <1>5, <1>6, <1>7, <1>8, <1>9, <1>10 DEF Next, App

(* Whatever was drawn and committed, and whenever the request to quit      *)
(* came, drm_cleanup leaves the screen as drm_init found it when its calls *)
(* succeed.                                                                *)
THEOREM ScreenIsRestored == Spec => []ScreenRestored
<1>1. Init => (~IoctlMayFail => TidiedUp)
  BY DEF Init, TidiedUp
<1>2. TypeOK /\ (~IoctlMayFail => TidiedUp) /\ [Next]_vars => (~IoctlMayFail => TidiedUp)'
  <2> SUFFICES ASSUME TypeOK, TidiedUp, [Next]_vars, ~IoctlMayFail PROVE TidiedUp'
    OBVIOUS
  <2>1. /\ pc' # "failed"
        /\ pc = "disable" /\ pc' = "restore"
             => ~busy /\ screen' = [screen EXCEPT !["overlay"] = Off]
        /\ pc = "restore" /\ pc' = "destroy"
             => screen' = [screen EXCEPT !["primary"] = Saved]
    BY DEF TidiedUp, Next, App, DrmInit, DrmInitFails, LoopTest, Update, DrawCursor,
           RenderPrimary, RenderOverlay, WaitDone, HandleEvents, WaitGivesUp, AfterWait,
           CommitAccepted, CommitRefused, DisablePlanes, RestoreCrtc, DestroyBuffers,
           Signal, VBlank, vars, procVars
  <2> QED
    BY <2>1, TidyStep
<1>3. (~IoctlMayFail => TidiedUp) => ScreenRestored
  BY DEF TidiedUp, ScreenRestored, Exited
<1> QED
  BY <1>1, <1>2, <1>3, TypeCorrect, PTL DEF Spec

-----------------------------------------------------------------------------
(* Breaker.                                                                *)
BreakerFields ==
    {"paddle", "x", "y", "dx", "dy", "launched", "bricks", "remaining", "lives", "level",
     "level_complete", "over"}

(* What every part of a pass keeps.                                        *)
BreakerKept(g) ==
    /\ DOMAIN g = BreakerFields
    /\ g.paddle \in PADDLE_HALF..(WIDTH - 1 - PADDLE_HALF)
    /\ g.x \in 0..(WIDTH - 1) /\ g.y \in 0..(HEIGHT + 1) /\ g.dx \in -1..1 /\ g.dy \in -1..1
    /\ g.launched => g.dy # 0
    /\ g.bricks \subseteq BRICKS /\ g.remaining = Cardinality(g.bricks)
    /\ g.lives \in 0..MAX_LIVES /\ (g.over <=> g.lives = 0)

(* What a pass keeps.                                                      *)
BreakerWhole(g) ==
    /\ BreakerKept(g)
    /\ g.remaining > 0 /\ ~g.level_complete
    /\ ~g.over => g.y <= HEIGHT
    /\ ~g.launched => g.x = g.paddle /\ g.y = PADDLE_Y - 1

BreakerInv == BreakerWhole(game)

(* A ball that is lost is put back on the paddle, or the game is over.     *)
LEMMA BreakerReset ==
    ASSUME BreakerCourt, NEW g, BreakerKept(g), g.remaining > 0, ~g.level_complete
    PROVE  BreakerWhole(Breaker!reset_ball(g))
BY DEF BreakerCourt, BreakerKept, BreakerWhole, BreakerFields, Breaker!reset_ball,
       Breaker!OnPaddle

(* The ball is in play, or on the paddle again.                            *)
LEMMA BreakerLaunch ==
    ASSUME BreakerCourt, NEW g, BreakerWhole(g), ~g.over, NEW keys \in -1..1, NEW space,
           NEW h \in Breaker!launch_ball(Breaker!MovePaddle(g, keys), space)
    PROVE  /\ BreakerKept(h) /\ h.remaining > 0 /\ ~h.level_complete /\ ~h.over
           /\ h.y <= HEIGHT
<1> DEFINE m == Breaker!MovePaddle(g, keys)
<1>1. Breaker!Clamp(g.paddle + keys) \in PADDLE_HALF..(WIDTH - 1 - PADDLE_HALF)
  BY DEF BreakerCourt, BreakerWhole, BreakerKept, Breaker!Clamp
<1>2. /\ BreakerKept(m) /\ m.remaining > 0 /\ ~m.level_complete /\ ~m.over /\ m.y <= HEIGHT
  BY <1>1 DEF BreakerCourt, BreakerWhole, BreakerKept, BreakerFields, Breaker!MovePaddle
<1> HIDE DEF m
<1>3. CASE h = m
  BY <1>2, <1>3
<1>4. ASSUME NEW dx \in -1..1, h = [m EXCEPT !.launched = TRUE, !.dx = dx, !.dy = -1]
      PROVE  /\ BreakerKept(h) /\ h.remaining > 0 /\ ~h.level_complete /\ ~h.over
             /\ h.y <= HEIGHT
  BY <1>2, <1>4 DEF BreakerCourt, BreakerKept, BreakerFields
<1> QED
  BY <1>3, <1>4 DEF Breaker!launch_ball, m

(* A ball in flight, whatever it meets, and the level that may end with it.*)
LEMMA BreakerFlies ==
    ASSUME BreakerCourt, NEW g, BreakerKept(g), g.remaining > 0, ~g.level_complete, ~g.over,
           g.y <= HEIGHT, g.launched, NEW k \in Breaker!Fly(g)
    PROVE  BreakerWhole(Breaker!NextLevel(k))
<1> DEFINE w == Breaker!Walls(g)
           p == Breaker!Paddle(w)
<1>1. BreakerKept(w) /\ w.remaining > 0 /\ ~w.level_complete /\ ~w.over /\ w.launched
  BY DEF BreakerCourt, BreakerKept, BreakerFields, Breaker!Walls
<1> HIDE DEF w
<1>2. CASE w.y > HEIGHT
  <2>1. k = Breaker!Lost(w)
    BY <1>2 DEF Breaker!Fly, w
  <2>2. CASE w.lives <= 1
    <3>1. BreakerWhole(k) /\ ~k.level_complete
      BY <1>1, <2>1, <2>2 DEF Breaker!Lost, BreakerCourt, BreakerKept, BreakerFields, BreakerWhole
    <3> QED
      BY <3>1 DEF Breaker!NextLevel
  <2>3. CASE ~(w.lives <= 1)
    <3> DEFINE l == [w EXCEPT !.lives = @ - 1]
    <3>1. BreakerKept(l) /\ l.remaining > 0 /\ ~l.level_complete
      BY <1>1, <2>3 DEF BreakerCourt, BreakerKept, BreakerFields
    <3>2. k = Breaker!reset_ball(l)
      BY <2>1, <2>3 DEF Breaker!Lost
    <3> HIDE DEF l
    <3>3. BreakerWhole(k)
      BY <3>1, <3>2, BreakerReset
    <3> QED
      BY <3>3 DEF Breaker!NextLevel, BreakerWhole
  <2> QED
    BY <2>2, <2>3
<1>3. CASE ~(w.y > HEIGHT)
  <2>1. PICK b \in Breaker!Brick(p) : k = Breaker!LevelDone(b)
    BY <1>3 DEF Breaker!Fly, w
  <2>2. /\ BreakerKept(p) /\ p.remaining > 0 /\ ~p.level_complete /\ ~p.over /\ p.launched
        /\ p.y <= HEIGHT
    <3>1. Breaker!Sign(w.x - w.paddle) \in -1..1
      BY <1>1 DEF Breaker!Sign
    <3> QED
      BY <1>1, <1>3, <3>1 DEF BreakerCourt, BreakerKept, BreakerFields, Breaker!Paddle
  <2> HIDE DEF p
  <2>3. BreakerKept(b) /\ ~b.level_complete /\ ~b.over /\ b.launched /\ b.y <= HEIGHT
    <3>1. CASE b = p
      BY <2>2, <3>1
    <3>2. CASE <<p.x, p.y>> \in p.bricks
      <4> DEFINE rest == p.bricks \ {<<p.x, p.y>>}
                 h == [p EXCEPT !.bricks = rest, !.remaining = @ - 1]
      <4>1. rest \subseteq BRICKS /\ Cardinality(rest) = p.remaining - 1
        BY <2>2, <3>2, BricksFinite DEF BreakerCourt, BreakerKept
      <4> HIDE DEF rest
      <4>2. BreakerKept(h) /\ ~h.level_complete /\ ~h.over /\ h.launched /\ h.y <= HEIGHT
        BY <2>2, <4>1 DEF BreakerKept, BreakerFields
      <4>3. b = [h EXCEPT !.dx = -@] \/ b = [h EXCEPT !.dy = -@]
        BY <2>1, <3>2 DEF Breaker!Brick, rest
      <4> HIDE DEF h
      <4> QED
        BY <4>2, <4>3 DEF BreakerKept, BreakerFields
    <3> QED
      BY <2>1, <3>1, <3>2 DEF Breaker!Brick
  <2>4. CASE b.remaining > 0
    <3>1. k = b
      BY <2>1, <2>4 DEF Breaker!LevelDone
    <3> QED
      BY <2>3, <2>4, <3>1 DEF Breaker!NextLevel, BreakerWhole
  <2>5. CASE ~(b.remaining > 0)
    <3> DEFINE n == [k EXCEPT !.level_complete = FALSE]
               i == Breaker!init_bricks(n)
    <3>1. k = [b EXCEPT !.level_complete = TRUE, !.level = @ + 1]
      BY <2>1, <2>5 DEF Breaker!LevelDone
    <3>2. BreakerKept(i) /\ i.remaining > 0 /\ ~i.level_complete
      <4>1. Cardinality(BRICKS) \in Nat /\ Cardinality(BRICKS) > 0
        BY BricksFinite DEF BreakerCourt
      <4>2. /\ DOMAIN n = BreakerFields /\ ~n.level_complete
            /\ n.paddle = b.paddle /\ n.x = b.x /\ n.y = b.y /\ n.dx = b.dx /\ n.dy = b.dy
            /\ n.launched = b.launched /\ n.lives = b.lives /\ n.over = b.over
        BY <2>3, <3>1 DEF BreakerKept, BreakerFields
      <4> HIDE DEF n
      <4>3. /\ DOMAIN i = BreakerFields /\ ~i.level_complete
            /\ i.paddle = n.paddle /\ i.x = n.x /\ i.y = n.y /\ i.dx = n.dx /\ i.dy = n.dy
            /\ i.launched = n.launched /\ i.lives = n.lives /\ i.over = n.over
            /\ i.bricks = BRICKS /\ i.remaining = Cardinality(BRICKS)
        BY <4>2, SameCardinality DEF BreakerFields, Breaker!init_bricks
      <4> HIDE DEF i
      <4> QED
        BY <2>3, <4>1, <4>2, <4>3 DEF BreakerKept
    <3>3. Breaker!NextLevel(k) = Breaker!reset_ball(i)
      BY <2>3, <3>1 DEF Breaker!NextLevel, BreakerKept, BreakerFields
    <3> HIDE DEF i
    <3> QED
      BY <3>2, <3>3, BreakerReset
  <2> QED
    BY <2>4, <2>5
<1> QED
  BY <1>2, <1>3

(* Every step of the game keeps the invariant.                             *)
LEMMA BreakerStep == ASSUME BreakerCourt, BreakerInv, Breaker!Next PROVE BreakerInv'
<1>0. BreakerWhole(game)
  BY DEF BreakerInv
<1>1. PICK keys \in Breaker!input_poll :
        game' \in {Breaker!NextLevel(h) : h \in Breaker!game_update(game, keys.arrows, keys.space)}
  BY DEF Breaker!Next, Breaker!Update
<1>2. PICK k \in Breaker!game_update(game, keys.arrows, keys.space) :
        game' = Breaker!NextLevel(k)
  BY <1>1
<1>3. CASE game.over
  BY <1>0, <1>2, <1>3 DEF Breaker!game_update, Breaker!NextLevel, BreakerWhole, BreakerInv
<1>4. CASE ~game.over
  <2>1. PICK h \in Breaker!launch_ball(Breaker!MovePaddle(game, keys.arrows), keys.space) :
          k \in IF h.launched THEN Breaker!Fly(h) ELSE {Breaker!OnPaddle(h)}
    BY <1>2, <1>4 DEF Breaker!game_update
  <2>2. keys.arrows \in -1..1
    BY DEF Breaker!input_poll
  <2>3. /\ BreakerKept(h) /\ h.remaining > 0 /\ ~h.level_complete /\ ~h.over /\ h.y <= HEIGHT
    BY <1>0, <1>4, <2>1, <2>2, BreakerLaunch
  <2>4. CASE h.launched
    BY <1>2, <2>1, <2>3, <2>4, BreakerFlies DEF BreakerInv
  <2>5. CASE ~h.launched
    <3>1. k = Breaker!OnPaddle(h)
      BY <2>1, <2>5
    <3>2. BreakerWhole(k)
      BY <2>3, <3>1 DEF BreakerCourt, BreakerKept, BreakerWhole, BreakerFields, Breaker!OnPaddle
    <3> QED
      BY <1>2, <3>2 DEF Breaker!NextLevel, BreakerWhole, BreakerInv
  <2> QED
    BY <2>4, <2>5
<1> QED
  BY <1>3, <1>4

(* The invariant holds when a game begins.                                 *)
LEMMA BreakerInit == ASSUME BreakerCourt, Breaker!Init PROVE BreakerInv
<1> DEFINE g == [paddle |-> WIDTH \div 2, x |-> 0, y |-> 0, dx |-> 0, dy |-> 0,
                 launched |-> FALSE, bricks |-> {}, remaining |-> 0, lives |-> MAX_LIVES,
                 level |-> 1, level_complete |-> FALSE, over |-> FALSE]
           i == Breaker!init_bricks(g)
<1>1. WIDTH \div 2 \in PADDLE_HALF..(WIDTH - 1 - PADDLE_HALF)
  BY SMT DEF BreakerCourt
<1>2. BreakerKept(i) /\ i.remaining > 0 /\ ~i.level_complete
  <2>1. Cardinality(BRICKS) \in Nat /\ Cardinality(BRICKS) > 0
    BY BricksFinite DEF BreakerCourt
  <2>2. PADDLE_HALF \in Nat /\ WIDTH \in Nat /\ HEIGHT \in Nat /\ MAX_LIVES \in Nat /\ MAX_LIVES > 0
    BY DEF BreakerCourt
  <2>3. WIDTH > 0
    BY DEF BreakerCourt
  <2>4. /\ DOMAIN i = BreakerFields /\ i.level_complete = FALSE
        /\ i.paddle = WIDTH \div 2 /\ i.x = 0 /\ i.y = 0 /\ i.dx = 0 /\ i.dy = 0
        /\ i.launched = FALSE /\ i.lives = MAX_LIVES /\ i.over = FALSE
        /\ i.bricks = BRICKS /\ i.remaining = Cardinality(BRICKS)
    BY SameCardinality DEF BreakerFields, Breaker!init_bricks
  <2> HIDE DEF i
  <2> QED
    BY <1>1, <2>1, <2>2, <2>3, <2>4 DEF BreakerKept
<1>3. game = Breaker!reset_ball(i)
  BY DEF Breaker!Init, Breaker!game_init
<1> HIDE DEF i
<1> QED
  BY <1>2, <1>3, BreakerReset DEF BreakerInv

(* Nothing but the end of the game stops it: a ball in play moves, a level *)
(* has a brick left however the last one was hit, and the game is over     *)
(* with the last life (game_update of drm-breaker.c).  A ball that is not  *)
(* in play lies on the paddle after every pass.                            *)
THEOREM BreakerCorrect ==
    ASSUME BreakerCourt
    PROVE  Breaker!Spec => [](Breaker!TypeOK /\ Breaker!GameGoesOn /\ Breaker!BallOnPaddle)
<1>1. BreakerInv => Breaker!TypeOK /\ Breaker!GameGoesOn /\ Breaker!BallOnPaddle
  <2> SUFFICES ASSUME BreakerInv
               PROVE  Breaker!TypeOK /\ Breaker!GameGoesOn /\ Breaker!BallOnPaddle
    OBVIOUS
  <2>1. BreakerWhole(game)
    BY DEF BreakerInv
  <2>2. Breaker!TypeOK
    BY <2>1 DEF BreakerWhole, BreakerKept, Breaker!TypeOK
  <2>3. Breaker!GameGoesOn
    <3>1. /\ game.launched => game.dy # 0
          /\ game.remaining = Cardinality(game.bricks) /\ game.remaining > 0
          /\ game.over <=> game.lives = 0
      BY <2>1, Zenon DEF BreakerWhole, BreakerKept
    <3> QED
      BY <3>1, SameCardinality DEF Breaker!GameGoesOn
  <2>4. Breaker!BallOnPaddle
    BY <2>1 DEF BreakerWhole, Breaker!BallOnPaddle
  <2> QED
    BY <2>2, <2>3, <2>4
<1>2. Breaker!Init => BreakerInv
  BY BreakerInit
<1>3. BreakerInv /\ [Breaker!Next]_game => BreakerInv'
  BY BreakerStep DEF BreakerInv
<1> QED
  BY <1>1, <1>2, <1>3, PTL DEF Breaker!Spec

-----------------------------------------------------------------------------
(* Breakout.                                                               *)
BreakoutFields ==
    {"paddle", "x", "y", "vx", "vy", "bricks", "remaining", "lives", "level", "attached",
     "paused"}

(* What every part of a pass keeps but the ball at the bottom.             *)
BreakoutKept(g) ==
    /\ DOMAIN g = BreakoutFields
    /\ g.paddle \in 0..(WIDTH - PADDLE_WIDTH)
    /\ g.x \in 0..(WIDTH - 1) /\ g.y \in 0..(BREAKOUT_HEIGHT + 2) /\ g.vx \in -1..1 /\ g.vy \in {-1, 1}
    /\ g.bricks \subseteq BRICKS /\ g.remaining = Cardinality(g.bricks)
    /\ g.lives \in 1..LIVES /\ g.level \in Nat \ {0}

(* A ball past the bottom goes up: it was lost, and attached to the paddle.*)
BreakoutWhole(g) ==
    /\ BreakoutKept(g) /\ g.remaining > 0 /\ g.level <= MaxLevel
    /\ g.attached \/ g.y >= BREAKOUT_HEIGHT => g.vy = -1

BreakoutInv == BreakoutWhole(game)

(* The end of a pass: a lost ball, a last brick, or both at once.          *)
LEMMA BreakoutEnds ==
    ASSUME BreakoutCourt, NEW g, BreakoutKept(g), ~g.attached, g.level < MaxLevel,
           g.remaining \in Nat, NEW b \in Breakout!Bottom(g)
    PROVE  BreakoutWhole(Breakout!LevelDone(b))
<1>0. Cardinality(BRICKS) \in Nat /\ Cardinality(BRICKS) > 0
  BY BricksFinite DEF BreakoutCourt
<1>1. /\ BreakoutKept(b) /\ b.remaining \in Nat /\ b.level < MaxLevel
      /\ b.attached \/ b.y >= BREAKOUT_HEIGHT => b.vy = -1
  <2>1. CASE g.y < BREAKOUT_HEIGHT
    <3>1. b = g
      BY <2>1 DEF Breakout!Bottom
    <3> QED
      BY <2>1, <3>1 DEF BreakoutKept, BreakoutCourt
  <2>2. CASE ~(g.y < BREAKOUT_HEIGHT)
    <3> DEFINE h == [g EXCEPT !.lives = @ - 1]
               n == IF h.lives <= 0 THEN Breakout!NewGame(h) ELSE h
    <3>1. /\ DOMAIN h = BreakoutFields /\ h.lives = g.lives - 1 /\ h.paddle = g.paddle
          /\ h.x = g.x /\ h.bricks = g.bricks /\ h.remaining = g.remaining
          /\ h.level = g.level
      BY DEF BreakoutKept, BreakoutFields
    <3> HIDE DEF h
    <3>2. /\ DOMAIN n = BreakoutFields /\ n.paddle = g.paddle /\ n.x = g.x
          /\ n.lives \in 1..LIVES /\ n.level \in Nat \ {0} /\ n.level < MaxLevel
          /\ n.bricks \subseteq BRICKS /\ n.remaining = Cardinality(n.bricks)
          /\ n.remaining \in Nat
      <4>1. CASE h.lives <= 0
        BY <1>0, <3>1, <4>1, SameCardinality
           DEF BreakoutCourt, BreakoutKept, BreakoutFields, Breakout!NewGame,
               Breakout!game_reset_bricks
      <4>2. CASE ~(h.lives <= 0)
        BY <3>1, <4>2 DEF BreakoutCourt, BreakoutKept
      <4> QED
        BY <4>1, <4>2
    <3> DEFINE i == Breakout!game_reset_ball(n)
    <3>3. PICK y : /\ y \in IF g.vy > 0 THEN BREAKOUT_HEIGHT..(BREAKOUT_HEIGHT + Breakout!DEEP)
                            ELSE {g.y}
                   /\ b = [i EXCEPT !.y = y]
      BY <2>2 DEF Breakout!Bottom, h
    <3>4. y \in 0..(BREAKOUT_HEIGHT + 2)
      BY <3>3 DEF Breakout!DEEP, BreakoutKept, BreakoutCourt
    <3> HIDE DEF n
    <3>5. /\ DOMAIN i = BreakoutFields /\ i.paddle = n.paddle /\ i.x = n.x /\ i.lives = n.lives
          /\ i.level = n.level /\ i.bricks = n.bricks /\ i.remaining = n.remaining
          /\ i.vx = 1 /\ i.vy = -1
      BY <3>2 DEF BreakoutFields, Breakout!game_reset_ball
    <3> HIDE DEF i
    <3>6. /\ DOMAIN b = BreakoutFields /\ b.paddle = n.paddle /\ b.x = n.x /\ b.lives = n.lives
          /\ b.level = n.level /\ b.bricks = n.bricks /\ b.remaining = n.remaining
          /\ b.vx = 1 /\ b.vy = -1 /\ b.y = y
      BY <3>3, <3>5 DEF BreakoutFields
    <3> QED
      BY <3>2, <3>4, <3>6 DEF BreakoutKept
  <2> QED
    BY <2>1, <2>2
<1>2. CASE b.remaining > 0
  <2>1. Breakout!LevelDone(b) = b
    BY <1>2 DEF Breakout!LevelDone
  <2>2. b.level <= MaxLevel
    BY <1>1 DEF BreakoutKept, BreakoutCourt
  <2>3. BreakoutWhole(b)
    BY <1>1, <1>2, <2>2, Zenon DEF BreakoutWhole
  <2> QED
    BY <2>1, <2>3
<1>3. CASE ~(b.remaining > 0)
  <2> DEFINE i == Breakout!game_reset_bricks([b EXCEPT !.level = @ + 1])
  <2>1. /\ DOMAIN i = BreakoutFields /\ i.paddle = b.paddle /\ i.x = b.x /\ i.y = b.y
        /\ i.lives = b.lives /\ i.level = b.level + 1 /\ i.bricks = BRICKS
        /\ i.remaining = Cardinality(BRICKS)
    BY <1>1, SameCardinality DEF BreakoutKept, BreakoutFields, Breakout!game_reset_bricks
  <2>2. Breakout!LevelDone(b) = Breakout!game_reset_ball(i)
    BY <1>3 DEF Breakout!LevelDone
  <2> HIDE DEF i
  <2>3. 1 \in -1..1 /\ -1 \in {-1, 1} /\ b.level + 1 \in Nat \ {0} /\ b.level + 1 <= MaxLevel
    BY <1>1 DEF BreakoutKept, BreakoutCourt
  <2> QED
    BY <1>0, <1>1, <2>1, <2>2, <2>3
       DEF BreakoutWhole, BreakoutKept, BreakoutFields, Breakout!game_reset_ball
<1> QED
  BY <1>2, <1>3

(* A ball in play moves one cell, and what it meets turns it.              *)
LEMMA BreakoutFlies ==
    ASSUME BreakoutCourt, NEW g, BreakoutWhole(g), ~g.attached, g.level < MaxLevel,
           NEW h \in Breakout!Brick(Breakout!Paddle(Breakout!Walls(g)))
    PROVE  BreakoutKept(h) /\ ~h.attached /\ h.level < MaxLevel /\ h.remaining \in Nat
<1> DEFINE w == Breakout!Walls(g)
           p == Breakout!Paddle(w)
<1>1. BreakoutKept(w) /\ ~w.attached /\ w.level < MaxLevel /\ w.remaining \in Nat
  <2>1. /\ DOMAIN g = BreakoutFields /\ g.x \in 0..(WIDTH - 1) /\ g.y \in 0..(BREAKOUT_HEIGHT + 2)
        /\ g.vx \in -1..1 /\ g.vy \in {-1, 1}
        /\ g.y >= BREAKOUT_HEIGHT => g.vy = -1
    BY DEF BreakoutWhole, BreakoutKept
  <2>2. /\ DOMAIN w = BreakoutFields /\ w.x \in 0..(WIDTH - 1) /\ w.y \in 0..(BREAKOUT_HEIGHT + 2)
        /\ w.vx \in -1..1 /\ w.vy \in {-1, 1}
    BY <2>1 DEF BreakoutCourt, BreakoutFields, Breakout!Walls
  <2>3. /\ w.paddle = g.paddle /\ w.bricks = g.bricks /\ w.remaining = g.remaining
        /\ w.lives = g.lives /\ w.level = g.level /\ w.attached = g.attached
    BY <2>1 DEF BreakoutFields, Breakout!Walls
  <2> HIDE DEF w
  <2> QED
    BY <2>2, <2>3, BricksFinite DEF BreakoutCourt, BreakoutWhole, BreakoutKept
<1> HIDE DEF w
<1>2. BreakoutKept(p) /\ ~p.attached /\ p.level < MaxLevel /\ p.remaining \in Nat
  <2>1. Breakout!Sign(2 * (w.x - w.paddle) - (PADDLE_WIDTH - 1)) \in -1..1
    BY DEF Breakout!Sign
  <2> QED
    BY <1>1, <2>1 DEF BreakoutKept, BreakoutFields, Breakout!Paddle
<1> HIDE DEF p
<1>3. CASE h = p
  BY <1>2, <1>3
<1>4. CASE <<p.x, p.y>> \in p.bricks
  <2> DEFINE rest == p.bricks \ {<<p.x, p.y>>}
             k == [p EXCEPT !.bricks = rest, !.remaining = @ - 1]
  <2>1. /\ rest \subseteq BRICKS /\ Cardinality(rest) = p.remaining - 1
        /\ Cardinality(rest) \in Nat
    BY <1>2, <1>4, BricksFinite DEF BreakoutCourt, BreakoutKept
  <2> HIDE DEF rest
  <2>2. BreakoutKept(k) /\ ~k.attached /\ k.level < MaxLevel /\ k.remaining \in Nat
    BY <1>2, <2>1 DEF BreakoutKept, BreakoutFields
  <2>3. h = [k EXCEPT !.vx = -@] \/ h = [k EXCEPT !.vy = -@]
    BY <1>4 DEF Breakout!Brick, rest, p, w
  <2> HIDE DEF k
  <2> QED
    BY <2>2, <2>3 DEF BreakoutKept, BreakoutFields
<1> QED
  BY <1>3, <1>4 DEF Breakout!Brick, p, w

(* Every step of the game keeps the invariant.                             *)
LEMMA BreakoutStep == ASSUME BreakoutCourt, BreakoutInv, Breakout!Next PROVE BreakoutInv'
<1>0. BreakoutWhole(game)
  BY DEF BreakoutInv
<1>1. ASSUME NEW x \in Breakout!PaddleXs, Breakout!MovePaddle(x) PROVE BreakoutInv'
  BY <1>0, <1>1
     DEF BreakoutCourt, BreakoutInv, BreakoutWhole, BreakoutKept, BreakoutFields,
         Breakout!PaddleXs, Breakout!MovePaddle
<1>2. CASE Breakout!Space
  BY <1>0, <1>2 DEF BreakoutInv, BreakoutWhole, BreakoutKept, BreakoutFields, Breakout!Space
<1>3. CASE Breakout!Pause
  BY <1>0, <1>3 DEF BreakoutInv, BreakoutWhole, BreakoutKept, BreakoutFields, Breakout!Pause
<1>4. CASE Breakout!Update
  <2>1. CASE game.attached
    <3>1. game' = Breakout!OverPaddle(game)
      BY <1>4, <2>1 DEF Breakout!Update, Breakout!game_update
    <3>2. /\ game.paddle + PADDLE_WIDTH \div 2 \in 0..(WIDTH - 1)
          /\ PADDLE_Y - 1 \in 0..(BREAKOUT_HEIGHT + 2)
      BY <1>0, SMT DEF BreakoutCourt, BreakoutWhole, BreakoutKept
    <3>3. /\ DOMAIN game' = BreakoutFields /\ game'.x = game.paddle + PADDLE_WIDTH \div 2
          /\ game'.y = PADDLE_Y - 1
          /\ \A f \in BreakoutFields \ {"x", "y"} : game'[f] = game[f]
      BY <1>0, <3>1 DEF BreakoutWhole, BreakoutKept, BreakoutFields, Breakout!OverPaddle
    <3>4. /\ game'.paddle = game.paddle /\ game'.vx = game.vx /\ game'.vy = game.vy
          /\ game'.bricks = game.bricks /\ game'.remaining = game.remaining
          /\ game'.lives = game.lives /\ game'.level = game.level
          /\ game'.attached = game.attached
      BY <3>3 DEF BreakoutFields
    <3> QED
      BY <1>0, <2>1, <3>2, <3>3, <3>4, SMTT(20) DEF BreakoutInv, BreakoutWhole, BreakoutKept
  <2>2. CASE ~game.attached
    <3>1. PICK h \in Breakout!Brick(Breakout!Paddle(Breakout!Walls(game))) :
            \E b \in Breakout!Bottom(h) : game' = Breakout!LevelDone(b)
      BY <1>4, <2>2 DEF Breakout!Update, Breakout!game_update
    <3>2. PICK b \in Breakout!Bottom(h) : game' = Breakout!LevelDone(b)
      BY <3>1
    <3>3. game.level < MaxLevel
      BY <1>4 DEF Breakout!Update
    <3>4. BreakoutKept(h) /\ ~h.attached /\ h.level < MaxLevel /\ h.remaining \in Nat
      BY <1>0, <2>2, <3>3, BreakoutFlies
    <3> QED
      BY <3>2, <3>4, BreakoutEnds DEF BreakoutInv
  <2> QED
    BY <2>1, <2>2
<1> QED
  BY <1>1, <1>2, <1>3, <1>4 DEF Breakout!Next

(* The invariant holds when a game begins.                                 *)
LEMMA BreakoutInit == ASSUME BreakoutCourt, Breakout!Init PROVE BreakoutInv
<1> DEFINE g == [paddle |-> (WIDTH - PADDLE_WIDTH) \div 2,
                 x |-> WIDTH \div 2, y |-> PADDLE_Y - 1, vx |-> 1, vy |-> -1,
                 bricks |-> {}, remaining |-> 0, lives |-> LIVES, level |-> 1,
                 attached |-> TRUE, paused |-> FALSE]
           i == Breakout!game_reset_bricks(g)
<1>1. /\ (WIDTH - PADDLE_WIDTH) \div 2 \in 0..(WIDTH - PADDLE_WIDTH)
      /\ WIDTH \div 2 \in 0..(WIDTH - 1) /\ PADDLE_Y - 1 \in 0..BREAKOUT_HEIGHT
  BY SMT DEF BreakoutCourt
<1>2. Cardinality(BRICKS) \in Nat /\ Cardinality(BRICKS) > 0
  BY BricksFinite DEF BreakoutCourt
<1>3. /\ DOMAIN i = BreakoutFields
      /\ i.paddle = (WIDTH - PADDLE_WIDTH) \div 2 /\ i.x = WIDTH \div 2 /\ i.y = PADDLE_Y - 1
      /\ i.bricks = BRICKS /\ i.remaining = Cardinality(BRICKS)
      /\ i.lives = LIVES /\ i.level = 1
  BY SameCardinality DEF BreakoutFields, Breakout!game_reset_bricks
<1>4. game = Breakout!game_reset_ball(i)
  BY DEF Breakout!Init, Breakout!game_init
<1> HIDE DEF i
<1> QED
  BY <1>1, <1>2, <1>3, <1>4
     DEF BreakoutCourt, BreakoutInv, BreakoutWhole, BreakoutKept, BreakoutFields,
         Breakout!game_reset_ball

(* The ball of drm-game.c is in the court whatever it meets in one pass,   *)
(* also where it was lost and space is hit before the next pass puts it on *)
(* the paddle; and there is a brick and a life left between passes when    *)
(* the last ball, the last life and the last brick come together.          *)
THEOREM BreakoutCorrect ==
    ASSUME BreakoutCourt
    PROVE  Breakout!Spec => [](Breakout!TypeOK /\ Breakout!BallInCourt /\ Breakout!GameGoesOn)
<1>1. BreakoutInv => Breakout!TypeOK /\ Breakout!BallInCourt /\ Breakout!GameGoesOn
  BY SameCardinality
     DEF BreakoutInv, BreakoutWhole, BreakoutKept, Breakout!TypeOK, Breakout!BallInCourt,
         Breakout!GameGoesOn, Breakout!PaddleXs, Breakout!DEEP
<1>2. Breakout!Init => BreakoutInv
  BY BreakoutInit
<1>3. BreakoutInv /\ [Breakout!Next]_game => BreakoutInv'
  BY BreakoutStep DEF BreakoutInv
<1> QED
  BY <1>1, <1>2, <1>3, PTL DEF Breakout!Spec

-----------------------------------------------------------------------------
(* Pong.                                                                   *)
PongFields ==
    {"player", "ai", "x", "y", "dx", "dy", "speed", "rally", "score_p1", "score_p2",
     "serving", "serve_timer", "paused", "over"}

RallySpeed(rally) ==
    LET v == BALL_SPEED_INIT + rally * BALL_SPEED_INC
    IN  IF v > BALL_MAX_SPEED THEN BALL_MAX_SPEED ELSE v

(* What every part of a pass keeps: the game is not won yet.               *)
PongKept(g) ==
    /\ DOMAIN g = PongFields
    /\ g.player \in 0..(PONG_HEIGHT - PADDLE_H) /\ g.ai \in 0..(PONG_HEIGHT - PADDLE_H)
    /\ g.x \in Int /\ g.y \in 0..(PONG_HEIGHT - 1) /\ g.dx \in {-1, 1} /\ g.dy \in -1..1
    /\ g.speed \in 1..BALL_MAX_SPEED /\ g.rally \in Nat /\ g.speed = RallySpeed(g.rally)
    /\ g.serve_timer \in Int

PongPlays(g) ==
    /\ PongKept(g) /\ ~g.over
    /\ g.score_p1 \in 0..(WIN_SCORE - 1) /\ g.score_p2 \in 0..(WIN_SCORE - 1)

PongWon(g) ==
    /\ PongKept(g) /\ g.over
    /\ \/ g.score_p1 = WIN_SCORE /\ g.score_p2 \in 0..(WIN_SCORE - 1)
       \/ g.score_p2 = WIN_SCORE /\ g.score_p1 \in 0..(WIN_SCORE - 1)

PongWhole(g) == PongWon(g) \/ (PongPlays(g) /\ (g.x \in 0..PONG_WIDTH \/ g.serving))

PongInv == PongWhole(game)

(* A paddle stays on the court.                                            *)
LEMMA PongClamps == ASSUME PongCourt, NEW y \in Int PROVE Pong!Clamp(y) \in 0..(PONG_HEIGHT - PADDLE_H)
BY DEF PongCourt, Pong!Clamp

(* A new ball.                                                             *)
LEMMA PongServes ==
    ASSUME PongCourt, NEW g, DOMAIN g = PongFields, ~g.over,
           g.player \in 0..(PONG_HEIGHT - PADDLE_H), g.ai \in 0..(PONG_HEIGHT - PADDLE_H),
           g.score_p1 \in 0..(WIN_SCORE - 1), g.score_p2 \in 0..(WIN_SCORE - 1),
           NEW k \in Pong!reset_ball(g)
    PROVE  PongPlays(k) /\ k.x = PONG_WIDTH \div 2 /\ k.x \in 0..PONG_WIDTH
<1>1. PICK dx \in {-1, 1}, dy \in -1..1 :
        k = [g EXCEPT !.x = PONG_WIDTH \div 2, !.y = PONG_HEIGHT \div 2, !.speed = BALL_SPEED_INIT,
                      !.dx = dx, !.dy = dy, !.rally = 0, !.serving = TRUE,
                      !.serve_timer = SERVE]
  BY DEF Pong!reset_ball
<1>2. /\ PONG_WIDTH \div 2 \in 0..PONG_WIDTH /\ PONG_HEIGHT \div 2 \in 0..(PONG_HEIGHT - 1)
      /\ BALL_SPEED_INIT \in 1..BALL_MAX_SPEED /\ SERVE \in Int
      /\ BALL_SPEED_INIT = RallySpeed(0)
  BY SMT DEF PongCourt, RallySpeed
<1>3. /\ DOMAIN k = PongFields /\ k.x = PONG_WIDTH \div 2 /\ k.y = PONG_HEIGHT \div 2
      /\ k.speed = BALL_SPEED_INIT /\ k.dx = dx /\ k.dy = dy /\ k.rally = 0
      /\ k.serve_timer = SERVE /\ k.player = g.player /\ k.ai = g.ai /\ ~k.over
      /\ k.score_p1 = g.score_p1 /\ k.score_p2 = g.score_p2
  BY <1>1 DEF PongFields
<1> QED
  BY <1>2, <1>3 DEF PongPlays, PongKept

(* The paddles move; a ball to be served waits in the middle.              *)
LEMMA PongMoves ==
    ASSUME PongCourt, NEW g, PongPlays(g), NEW move \in -1..1
    PROVE  LET h == Pong!MoveAi(Pong!MovePlayer(Pong!Serve(g), move))
           IN  /\ PongPlays(h) /\ h.dx = g.dx
               /\ h.x = IF g.serving THEN PONG_WIDTH \div 2 ELSE g.x
<1> DEFINE s == Pong!Serve(g)
           m == Pong!MovePlayer(s, move)
           h == Pong!MoveAi(m)
<1>1. PongPlays(s) /\ s.dx = g.dx /\ s.x = IF g.serving THEN PONG_WIDTH \div 2 ELSE g.x
  <2>1. PONG_WIDTH \div 2 \in Int /\ PONG_HEIGHT \div 2 \in 0..(PONG_HEIGHT - 1)
    BY SMT DEF PongCourt
  <2>2. CASE g.serving
    <3>1. /\ DOMAIN s = PongFields /\ s.x = PONG_WIDTH \div 2 /\ s.y = PONG_HEIGHT \div 2
          /\ s.speed = g.speed /\ s.dx = g.dx /\ s.dy = g.dy /\ s.rally = g.rally
          /\ s.serve_timer = g.serve_timer - 1 /\ s.player = g.player /\ s.ai = g.ai
          /\ s.over = g.over /\ s.score_p1 = g.score_p1 /\ s.score_p2 = g.score_p2
      BY <2>2 DEF PongPlays, PongKept, PongFields, Pong!Serve
    <3> QED
      BY <2>1, <2>2, <3>1 DEF PongPlays, PongKept
  <2>3. CASE ~g.serving
    BY <2>3 DEF Pong!Serve
  <2> QED
    BY <2>2, <2>3
<1> HIDE DEF s
<1>2. PongPlays(m) /\ m.dx = s.dx /\ m.x = s.x
  <2>1. Pong!Clamp(s.player + move) \in 0..(PONG_HEIGHT - PADDLE_H)
    BY <1>1, PongClamps DEF PongPlays, PongKept, PongCourt
  <2> QED
    BY <1>1, <2>1 DEF PongPlays, PongKept, PongFields, Pong!MovePlayer
<1> HIDE DEF m
<1>3. PongPlays(h) /\ h.dx = m.dx /\ h.x = m.x
  <2> DEFINE diff  == m.y - PADDLE_H \div 2 - m.ai
             speed == Pong!Min({AI_SPEED + m.rally \div AI_RALLY, AI_MAX_SPEED})
             step  == IF diff > speed THEN speed ELSE IF diff < -speed THEN -speed ELSE diff
  <2>1. diff \in Int
    BY <1>2, SMT DEF PongPlays, PongKept, PongCourt
  <2>2. speed \in Int
    <3>1. m.rally \div AI_RALLY \in Int
      <4>1. m.rally \in Int /\ AI_RALLY \in Nat \ {0}
        BY <1>2 DEF PongPlays, PongKept, PongCourt
      <4> QED
        BY <4>1, Dividing
    <3> DEFINE a == AI_SPEED + m.rally \div AI_RALLY
    <3>2. a \in Int /\ AI_MAX_SPEED \in Int
      BY <3>1 DEF PongCourt
    <3> HIDE DEF a
    <3>3. \E v \in {a, AI_MAX_SPEED} : \A w \in {a, AI_MAX_SPEED} : v <= w
      BY <3>2
    <3>4. Pong!Min({a, AI_MAX_SPEED}) \in {a, AI_MAX_SPEED}
      BY <3>3 DEF Pong!Min
    <3> QED
      BY <3>2, <3>4 DEF a
  <2>3. h = [m EXCEPT !.ai = Pong!Clamp(@ + step)]
    BY DEF Pong!MoveAi
  <2> HIDE DEF diff, speed
  <2>4. step \in Int
    BY <2>1, <2>2
  <2> HIDE DEF step, h
  <2>5. Pong!Clamp(m.ai + step) \in 0..(PONG_HEIGHT - PADDLE_H)
    BY <1>2, <2>4, PongClamps DEF PongPlays, PongKept, PongCourt
  <2> QED
    BY <1>2, <2>3, <2>5 DEF PongPlays, PongKept, PongFields
<1> QED
  BY <1>1, <1>2, <1>3 DEF m, s

(* A ball that is hit is as fast as its rally then is long.                *)
LEMMA PongFaster ==
    ASSUME PongCourt, NEW r \in Nat
    PROVE  /\ Pong!Faster(RallySpeed(r)) = RallySpeed(r + 1)
           /\ RallySpeed(r) \in 1..BALL_MAX_SPEED /\ RallySpeed(r + 1) \in 1..BALL_MAX_SPEED
<1>1. r * BALL_SPEED_INC \in Nat /\ (r + 1) * BALL_SPEED_INC = r * BALL_SPEED_INC + BALL_SPEED_INC
  BY SMT DEF PongCourt
<1> QED
  BY <1>1 DEF PongCourt, RallySpeed, Pong!Faster

(* A ball that is hit back lies where the paddle was, faster or as fast.   *)
LEMMA PongStroke ==
    ASSUME PongCourt, NEW g, PongPlays(g), NEW x \in Int, NEW dx \in {-1, 1},
           NEW paddle \in 0..(PONG_HEIGHT - PADDLE_H)
    PROVE  PongPlays(Pong!Stroke(g, x, dx, paddle)) /\ Pong!Stroke(g, x, dx, paddle).x = x
<1> DEFINE k == Pong!Stroke(g, x, dx, paddle)
<1>1. /\ DOMAIN k = PongFields /\ k.x = x /\ k.y = g.y /\ k.dx = dx
      /\ k.dy = Pong!Angle(g, paddle) /\ k.speed = Pong!Faster(g.speed)
      /\ k.rally = g.rally + 1 /\ k.serve_timer = g.serve_timer /\ k.player = g.player
      /\ k.ai = g.ai /\ k.over = g.over /\ k.score_p1 = g.score_p1 /\ k.score_p2 = g.score_p2
  BY DEF PongPlays, PongKept, PongFields, Pong!Stroke
<1>2. Pong!Angle(g, paddle) \in -1..1
  BY DEF Pong!Angle, Pong!Sign
<1> HIDE DEF k
<1>3. k.speed \in 1..BALL_MAX_SPEED /\ k.speed = RallySpeed(k.rally)
  BY <1>1, PongFaster DEF PongPlays, PongKept
<1> QED
  BY <1>1, <1>2, <1>3 DEF PongPlays, PongKept, k

(* A ball in play: where the pass takes it, and what it comes to.          *)
LEMMA PongFlies ==
    ASSUME PongCourt, NEW g, PongPlays(g),
           NEW k \in Pong!Score(Pong!AiStroke(Pong!PlayerStroke(Pong!MoveBall(g))))
    PROVE  PongWhole(k) /\ (g.x > PLAYER_X + PADDLE_W => k.x >= PLAYER_X)
<1> DEFINE b == Pong!MoveBall(g)
           p == Pong!PlayerStroke(b)
           a == Pong!AiStroke(p)
<1>1. PongPlays(b) /\ (g.x > PLAYER_X + PADDLE_W => b.x >= PLAYER_X)
  <2>1. /\ DOMAIN b = PongFields /\ b.x = g.x + g.dx * g.speed
        /\ b.speed = g.speed /\ b.dx = g.dx /\ b.rally = g.rally
        /\ b.serve_timer = g.serve_timer /\ b.player = g.player /\ b.ai = g.ai
        /\ b.over = g.over /\ b.score_p1 = g.score_p1 /\ b.score_p2 = g.score_p2
    BY DEF PongPlays, PongKept, PongFields, Pong!MoveBall
  <2>2. b.y \in 0..(PONG_HEIGHT - 1) /\ b.dy \in -1..1
    BY DEF PongPlays, PongKept, PongFields, Pong!MoveBall, PongCourt
  <2>3. g.dx * g.speed \in {g.speed, -g.speed}
    BY DEF PongPlays, PongKept
  <2> HIDE DEF b
  <2> QED
    BY <2>1, <2>2, <2>3 DEF PongPlays, PongKept, PongCourt
<1> HIDE DEF b
<1>2. PongPlays(p) /\ (g.x > PLAYER_X + PADDLE_W => p.x >= PLAYER_X)
  <2>1. PLAYER_X + PADDLE_W \in Int /\ PLAYER_X + PADDLE_W >= PLAYER_X
    BY DEF PongCourt
  <2>2. b.player \in 0..(PONG_HEIGHT - PADDLE_H)
    BY <1>1 DEF PongPlays, PongKept
  <2>3. p = b \/ p = Pong!Stroke(b, PLAYER_X + PADDLE_W, 1, b.player)
    BY DEF Pong!PlayerStroke
  <2> HIDE DEF p
  <2> QED
    <3>1. CASE p = b
      BY <1>1, <3>1
    <3>2. CASE p = Pong!Stroke(b, PLAYER_X + PADDLE_W, 1, b.player)
      <4>1. PongPlays(p) /\ p.x = PLAYER_X + PADDLE_W
        BY <1>1, <2>1, <2>2, <3>2, PongStroke
      <4> QED
        BY <2>1, <4>1
    <3> QED
      BY <2>3, <3>1, <3>2
<1> HIDE DEF p
<1>3. PongPlays(a) /\ (g.x > PLAYER_X + PADDLE_W => a.x >= PLAYER_X)
  <2>1. AI_X \in Int /\ PLAYER_X <= AI_X
    BY DEF PongCourt
  <2>2. p.ai \in 0..(PONG_HEIGHT - PADDLE_H)
    BY <1>2 DEF PongPlays, PongKept
  <2>3. a = p \/ a = Pong!Stroke(p, AI_X, -1, p.ai)
    BY DEF Pong!AiStroke
  <2> HIDE DEF a
  <2> QED
    <3>1. CASE a = p
      BY <1>2, <3>1
    <3>2. CASE a = Pong!Stroke(p, AI_X, -1, p.ai)
      <4>1. PongPlays(a) /\ a.x = AI_X
        BY <1>2, <2>1, <2>2, <3>2, PongStroke
      <4> QED
        BY <2>1, <4>1
    <3> QED
      BY <2>3, <3>1, <3>2
<1> HIDE DEF a
<1>4. k \in Pong!Score(a)
  BY DEF a, p, b
<1>5. CASE a.x < 0
  <2> DEFINE h == [a EXCEPT !.score_p2 = @ + 1]
  <2>1. /\ DOMAIN h = PongFields /\ PongKept(h) /\ ~h.over /\ h.x = a.x
        /\ h.score_p1 = a.score_p1 /\ h.score_p2 = a.score_p2 + 1
    BY <1>3 DEF PongPlays, PongKept, PongFields
  <2>2. k \in IF h.score_p2 >= WIN_SCORE THEN {[h EXCEPT !.over = TRUE]} ELSE Pong!reset_ball(h)
    <3>1. ~(a.x > PONG_WIDTH)
      BY <1>3, <1>5 DEF PongPlays, PongKept, PongCourt
    <3> QED
      BY <1>4, <1>5, <3>1 DEF Pong!Score
  <2> HIDE DEF h
  <2>3. CASE h.score_p2 >= WIN_SCORE
    BY <1>3, <2>1, <2>2, <2>3 DEF PongWhole, PongWon, PongPlays, PongKept, PongFields, PongCourt
  <2>4. CASE ~(h.score_p2 >= WIN_SCORE)
    <3>1. h.score_p1 \in 0..(WIN_SCORE - 1) /\ h.score_p2 \in 0..(WIN_SCORE - 1)
      BY <1>3, <2>1, <2>4 DEF PongPlays, PongCourt
    <3>2. h.player \in 0..(PONG_HEIGHT - PADDLE_H) /\ h.ai \in 0..(PONG_HEIGHT - PADDLE_H)
      BY <2>1 DEF PongKept
    <3>3. PongPlays(k) /\ k.x = PONG_WIDTH \div 2 /\ k.x \in 0..PONG_WIDTH
      BY <2>1, <2>2, <2>4, <3>1, <3>2, PongServes
    <3> QED
      BY <3>3 DEF PongWhole, PongCourt
  <2> QED
    BY <2>3, <2>4
<1>6. CASE a.x > PONG_WIDTH /\ ~(a.x < 0)
  <2> DEFINE h == [a EXCEPT !.score_p1 = @ + 1]
  <2>1. /\ DOMAIN h = PongFields /\ PongKept(h) /\ ~h.over /\ h.x = a.x
        /\ h.score_p2 = a.score_p2 /\ h.score_p1 = a.score_p1 + 1
    BY <1>3 DEF PongPlays, PongKept, PongFields
  <2>2. k \in IF h.score_p1 >= WIN_SCORE THEN {[h EXCEPT !.over = TRUE]} ELSE Pong!reset_ball(h)
    BY <1>4, <1>6 DEF Pong!Score
  <2> HIDE DEF h
  <2>3. CASE h.score_p1 >= WIN_SCORE
    BY <1>3, <2>1, <2>2, <2>3 DEF PongWhole, PongWon, PongPlays, PongKept, PongFields, PongCourt
  <2>4. CASE ~(h.score_p1 >= WIN_SCORE)
    <3>1. h.score_p1 \in 0..(WIN_SCORE - 1) /\ h.score_p2 \in 0..(WIN_SCORE - 1)
      BY <1>3, <2>1, <2>4 DEF PongPlays, PongCourt
    <3>2. h.player \in 0..(PONG_HEIGHT - PADDLE_H) /\ h.ai \in 0..(PONG_HEIGHT - PADDLE_H)
      BY <2>1 DEF PongKept
    <3>3. PongPlays(k) /\ k.x = PONG_WIDTH \div 2 /\ k.x \in 0..PONG_WIDTH
      BY <2>1, <2>2, <2>4, <3>1, <3>2, PongServes
    <3> QED
      BY <3>3 DEF PongWhole, PongCourt
  <2> QED
    BY <2>3, <2>4
<1>7. CASE ~(a.x < 0) /\ ~(a.x > PONG_WIDTH)
  <2>1. k = a
    BY <1>4, <1>7 DEF Pong!Score
  <2>2. a.x \in 0..PONG_WIDTH
    BY <1>3, <1>7 DEF PongPlays, PongKept, PongCourt
  <2> QED
    BY <1>3, <2>1, <2>2 DEF PongWhole
<1> QED
  BY <1>5, <1>6, <1>7

(* Every step of the game keeps the invariant.                             *)
LEMMA PongStep ==
    ASSUME PongCourt, PongInv, Pong!Next
    PROVE  PongInv' /\ Pong!BallMeetsPaddle
<1>0. PongWhole(game)
  BY DEF PongInv
<1>1. CASE Pong!Pause
  <2>1. /\ DOMAIN game' = PongFields /\ game'.x = game.x /\ game'.y = game.y
        /\ game'.speed = game.speed /\ game'.dx = game.dx /\ game'.dy = game.dy
        /\ game'.rally = game.rally /\ game'.serve_timer = game.serve_timer
        /\ game'.player = game.player /\ game'.ai = game.ai /\ game'.over = game.over
        /\ game'.score_p1 = game.score_p1 /\ game'.score_p2 = game.score_p2
        /\ game'.serving = game.serving
    BY <1>0, <1>1 DEF Pong!Pause, PongWhole, PongWon, PongPlays, PongKept, PongFields
  <2>2. PongWhole(game')
    BY <1>0, <2>1 DEF PongWhole, PongWon, PongPlays, PongKept
  <2>3. game.x \in Int
    BY <1>0 DEF PongWhole, PongWon, PongPlays, PongKept
  <2> QED
    BY <2>1, <2>2, <2>3 DEF PongInv, PongCourt, Pong!BallMeetsPaddle
<1>2. CASE Pong!Restart
  <2>1. PongKept(game)
    BY <1>0 DEF PongWhole, PongWon, PongPlays
  <2>2. /\ DOMAIN game' = PongFields /\ game'.x = game.x /\ game'.y = game.y
        /\ game'.speed = game.speed /\ game'.dx = game.dx /\ game'.dy = game.dy
        /\ game'.rally = game.rally /\ game'.serve_timer = SERVE
        /\ game'.player = game.player /\ game'.ai = game.ai /\ ~game'.over
        /\ game'.score_p1 = 0 /\ game'.score_p2 = 0 /\ game'.serving
    BY <1>2, <2>1 DEF Pong!Restart, PongKept, PongFields
  <2>3. PongWhole(game')
    BY <2>1, <2>2 DEF PongWhole, PongPlays, PongKept, PongCourt
  <2> QED
    BY <2>1, <2>2, <2>3 DEF PongInv, PongKept, PongCourt, Pong!BallMeetsPaddle
<1>3. CASE Pong!Update
  <2>1. PICK move \in -1..1 : game' \in Pong!game_update(game, move)
    BY <1>3 DEF Pong!Update, Pong!Held
  <2> DEFINE h == Pong!MoveAi(Pong!MovePlayer(Pong!Serve(game), move))
  <2>2. PongPlays(game)
    BY <1>0, <1>3 DEF PongWhole, PongWon, Pong!Update
  <2>3. PongPlays(h) /\ h.dx = game.dx /\ h.x = IF game.serving THEN PONG_WIDTH \div 2 ELSE game.x
    BY <2>2, PongMoves
  <2>4. game' \in IF h.serving THEN {h}
                  ELSE Pong!Score(Pong!AiStroke(Pong!PlayerStroke(Pong!MoveBall(h))))
    BY <2>1 DEF Pong!game_update
  <2> HIDE DEF h
  <2>5. game.x > PLAYER_X + PADDLE_W => h.x > PLAYER_X + PADDLE_W
    BY <2>3 DEF PongCourt
  <2>6. CASE h.serving
    <3>1. game' = h
      BY <2>4, <2>6
    <3>2. game'.x \in Int
      BY <2>3, <3>1 DEF PongPlays, PongKept
    <3> QED
      BY <2>3, <2>5, <2>6, <3>1, <3>2 DEF PongInv, PongWhole, PongCourt, Pong!BallMeetsPaddle
  <2>7. CASE ~h.serving
    <3>1. PongWhole(game') /\ (h.x > PLAYER_X + PADDLE_W => game'.x >= PLAYER_X)
      BY <2>3, <2>4, <2>7, PongFlies
    <3> QED
      BY <2>5, <3>1 DEF PongInv, Pong!BallMeetsPaddle
  <2> QED
    BY <2>6, <2>7
<1> QED
  BY <1>1, <1>2, <1>3 DEF Pong!Next, Pong!input_poll

(* The invariant holds when a game begins.                                 *)
LEMMA PongInit == ASSUME PongCourt, Pong!Init PROVE PongInv
<1> DEFINE g == [player |-> (PONG_HEIGHT - PADDLE_H) \div 2, ai |-> (PONG_HEIGHT - PADDLE_H) \div 2,
                 x |-> 0, y |-> 0, dx |-> 0, dy |-> 0, speed |-> 0, rally |-> 0,
                 score_p1 |-> 0, score_p2 |-> 0, serving |-> FALSE,
                 serve_timer |-> 0, paused |-> FALSE, over |-> FALSE]
<1>1. game \in Pong!reset_ball(g)
  BY DEF Pong!Init, Pong!game_init
<1>2. (PONG_HEIGHT - PADDLE_H) \div 2 \in 0..(PONG_HEIGHT - PADDLE_H) /\ 0 \in 0..(WIN_SCORE - 1)
  BY SMT DEF PongCourt
<1>3. /\ DOMAIN g = PongFields /\ ~g.over /\ g.player \in 0..(PONG_HEIGHT - PADDLE_H)
      /\ g.ai \in 0..(PONG_HEIGHT - PADDLE_H) /\ g.score_p1 \in 0..(WIN_SCORE - 1)
      /\ g.score_p2 \in 0..(WIN_SCORE - 1)
  BY <1>2 DEF PongFields
<1> HIDE DEF g
<1> QED
  BY <1>1, <1>3, PongServes DEF PongInv, PongWhole

(* A game of drm-pong.c is won by the one player whose point makes         *)
(* WIN_SCORE, and until then the ball is in the court or served again; it  *)
(* is as fast as its rally is long.                                        *)
THEOREM PongCorrect ==
    ASSUME PongCourt
    PROVE  Pong!Spec => [](Pong!TypeOK /\ Pong!WonByOne /\ Pong!SpeedOfRally)
<1>1. PongInv => Pong!TypeOK /\ Pong!WonByOne /\ Pong!SpeedOfRally
  <2> SUFFICES ASSUME PongInv PROVE Pong!TypeOK /\ Pong!WonByOne /\ Pong!SpeedOfRally
    OBVIOUS
  <2>1. PongWhole(game) /\ PongKept(game)
    BY DEF PongInv, PongWhole, PongWon, PongPlays
  <2>2. /\ game.score_p1 \in 0..WIN_SCORE /\ game.score_p2 \in 0..WIN_SCORE
        /\ game.over <=> (game.score_p1 = WIN_SCORE \/ game.score_p2 = WIN_SCORE)
        /\ ~(game.score_p1 = WIN_SCORE /\ game.score_p2 = WIN_SCORE)
        /\ ~game.over => game.x \in 0..PONG_WIDTH \/ game.serving
    BY <2>1 DEF PongWhole, PongWon, PongPlays, PongCourt
  <2>3. Pong!TypeOK
    BY <2>1, <2>2 DEF PongKept, Pong!TypeOK
  <2>4. Pong!WonByOne
    BY <2>2 DEF Pong!WonByOne
  <2>5. Pong!SpeedOfRally
    BY <2>1 DEF PongKept, RallySpeed, Pong!SpeedOfRally
  <2> QED
    BY <2>3, <2>4, <2>5
<1>2. Pong!Init => PongInv
  BY PongInit
<1>3. PongInv /\ [Pong!Next]_game => PongInv'
  BY PongStep DEF PongInv
<1> QED
  BY <1>1, <1>2, <1>3, PTL DEF Pong!Spec

(* The ball of drm-pong.c is never too fast to be hit: its greatest speed  *)
(* does not take it across a paddle in one pass.                           *)
THEOREM PongPaddleHolds ==
    ASSUME PongCourt
    PROVE  Pong!Spec => Pong!NoBallPassesThrough
<1>1. Pong!Init => PongInv
  BY PongInit
<1>2. PongInv /\ [Pong!Next]_game => PongInv'
  BY PongStep DEF PongInv
<1>3. PongInv /\ [Pong!Next]_game => [Pong!BallMeetsPaddle]_game
  BY PongStep
<1> QED
  BY <1>1, <1>2, <1>3, PTL DEF Pong!Spec, Pong!NoBallPassesThrough

-----------------------------------------------------------------------------
(* Whack-a-mole.                                                           *)
WhackFields ==
    {"moles", "score", "combo", "best_combo", "hits", "misses", "time", "over", "space", "risen"}

States == {"hidden", "rising", "up", "falling", "whacked"}

MoleIs(m) ==
    /\ DOMAIN m = {"state", "age", "rise", "golden"}
    /\ m.state \in States /\ m.age \in Nat /\ m.rise \in 0..40 /\ m.golden \in BOOLEAN
    /\ m.state = "hidden" => m.rise = 0

(* The moles that can be hit.                                              *)
Targets(g) == {h \in HOLES : g.moles[h].state \in Whack!Hittable}

(* What every part of a pass keeps.                                        *)
WhackKept(g) ==
    /\ DOMAIN g = WhackFields
    /\ DOMAIN g.moles = HOLES /\ g.moles \in [HOLES -> Whack!Mole]
    /\ \A h \in HOLES : MoleIs(g.moles[h])
    /\ g.score \in Nat /\ g.combo \in Nat /\ g.best_combo \in Nat /\ g.hits \in Nat
    /\ g.misses \in Nat /\ g.time \in Nat /\ g.risen \in Nat
    /\ g.hits + Cardinality(Targets(g)) <= g.risen
    /\ g.combo <= g.best_combo /\ g.best_combo <= g.hits /\ g.score >= 10 * g.hits
    /\ Cardinality(Whack!Active(g)) <= Whack!MaxActive(g)

WhackWhole(g) ==
    WhackKept(g) /\ (g.over \/ \A h \in HOLES : ~Whack!Outstays(g.moles[h]))

WhackInv == WhackWhole(game)

(* The moles that are out can be counted.                                  *)
LEMMA HolesFinite ==
    ASSUME WhackField
    PROVE  /\ \A s \in SUBSET HOLES : Cardinality(s) \in Nat
           /\ \A s, t \in SUBSET HOLES : s \subseteq t => Cardinality(s) <= Cardinality(t)
           /\ \A s \in SUBSET HOLES : \A h \in s : Cardinality(s \ {h}) = Cardinality(s) - 1
           /\ \A s \in SUBSET HOLES : \A h \in HOLES \ s : Cardinality(s \cup {h}) = Cardinality(s) + 1
<1>1. \A s \in SUBSET HOLES : IsFiniteSet(s) /\ Cardinality(s) \in Nat
  BY FS_Subset, FS_CardinalityType DEF WhackField
<1>2. \A s, t \in SUBSET HOLES : s \subseteq t => Cardinality(s) <= Cardinality(t)
  BY <1>1, FS_Subset
<1>3. \A s \in SUBSET HOLES : \A h \in s : Cardinality(s \ {h}) = Cardinality(s) - 1
  BY <1>1, FS_RemoveElement
<1>4. \A s \in SUBSET HOLES : \A h \in HOLES \ s : Cardinality(s \cup {h}) = Cardinality(s) + 1
  BY <1>1, FS_AddElement
<1> QED
  BY <1>1, <1>2, <1>3, <1>4

(* A mole is as high as the time that it has been rising: all the way just *)
(* when that time is over.                                                 *)
LEMMA AllTheWay ==
    ASSUME WhackField, NEW age \in Nat
    PROVE  /\ (40 * age) \div RISE_TIME \in Nat
           /\ (40 * age) \div RISE_TIME >= 40 <=> age >= RISE_TIME
<1> DEFINE q == (40 * age) \div RISE_TIME
           r == (40 * age) % RISE_TIME
<1>1. RISE_TIME \in Nat \ {0}
  BY DEF WhackField
<1>2. q \in Int /\ r \in 0..(RISE_TIME - 1) /\ 40 * age = q * RISE_TIME + r
  BY <1>1, Dividing
<1> HIDE DEF q, r
<1>3. q >= 0
  <2>1. q < 0 => q * RISE_TIME <= -RISE_TIME
    BY <1>1, <1>2, SMT
  <2> QED
    BY <1>1, <1>2, <2>1, SMT
<1>4. ASSUME q >= 40 PROVE age >= RISE_TIME
  <2>1. q * RISE_TIME >= 40 * RISE_TIME
    BY <1>1, <1>2, <1>4, SMT
  <2>2. q * RISE_TIME \in Int
    BY <1>1, <1>2, SMT
  <2> QED
    BY <1>1, <1>2, <2>1, <2>2
<1>5. ASSUME age >= RISE_TIME PROVE q >= 40
  <2>1. q <= 39 => q * RISE_TIME <= 39 * RISE_TIME
    BY <1>1, <1>2, <1>3, SMT
  <2>2. q * RISE_TIME \in Int
    BY <1>1, <1>2, SMT
  <2> QED
    BY <1>1, <1>2, <1>5, <2>1, <2>2
<1> QED
  BY <1>2, <1>3, <1>4, <1>5 DEF q

(* A mole whose phase changes is still a mole.                             *)
LEMMA MoleSet ==
    ASSUME NEW m \in Whack!Mole, NEW s \in States, NEW a \in Nat, NEW r \in 0..40
    PROVE  [m EXCEPT !.rise = r, !.state = s, !.age = a] \in Whack!Mole
BY DEF Whack!Mole, Whack!FULL, States

(* What the switch does to a mole: it is in time, out only if it was, and  *)
(* to be hit only if it was.                                               *)
LEMMA MoleMoves ==
    ASSUME WhackField, NEW m \in Whack!Mole, MoleIs(m)
    PROVE  /\ Whack!Moved(m) \in Whack!Mole /\ MoleIs(Whack!Moved(m))
           /\ ~Whack!Outstays(Whack!Moved(m))
           /\ Whack!Moved(m).state # "hidden" => m.state # "hidden"
           /\ Whack!Moved(m).state \in Whack!Hittable => m.state \in Whack!Hittable
<1> DEFINE r == (40 * m.age) \div RISE_TIME
           k == Whack!Moved(m)
<1>1. r \in Nat /\ (r >= 40 <=> m.age >= RISE_TIME)
  BY AllTheWay DEF MoleIs
<1>2. RISE_TIME \in Nat \ {0} /\ MOLE_UP_TIME \in Nat /\ STUN_TIME \in Nat
  BY DEF WhackField
<1> HIDE DEF r
<1>3. CASE m.state = "hidden"
  <2>1. k = m
    BY <1>3 DEF Whack!Moved
  <2> QED
    BY <1>3, <2>1 DEF Whack!Outstays
<1>4. CASE m.state = "rising"
  <2>1. k = IF r >= 40 THEN [m EXCEPT !.rise = 40, !.state = "up", !.age = 0]
            ELSE [m EXCEPT !.rise = r]
    BY <1>4 DEF Whack!Moved, Whack!FULL, r
  <2>2. k \in Whack!Mole
    <3>1. r < 40 => [m EXCEPT !.rise = r] \in Whack!Mole
      BY <1>1 DEF Whack!Mole, Whack!FULL
    <3>2. [m EXCEPT !.rise = 40, !.state = "up", !.age = 0] \in Whack!Mole
      <4>1. 40 \in 0..40 /\ "up" \in States /\ 0 \in Nat
        BY DEF States
      <4> QED
        BY <4>1, MoleSet, Zenon
    <3> QED
      BY <1>1, <2>1, <3>1, <3>2
  <2> QED
    BY <1>1, <1>2, <1>4, <2>1, <2>2 DEF MoleIs, States, Whack!Outstays, Whack!Hittable
<1>5. CASE m.state = "up"
  <2>1. k = IF m.age > MOLE_UP_TIME THEN [m EXCEPT !.state = "falling", !.age = 0] ELSE m
    BY <1>5 DEF Whack!Moved
  <2>2. k \in Whack!Mole
    <3>1. [m EXCEPT !.state = "falling", !.age = 0] \in Whack!Mole
      BY DEF Whack!Mole, Whack!FULL
    <3> QED
      BY <2>1, <3>1
  <2> QED
    BY <1>2, <1>5, <2>1, <2>2 DEF MoleIs, States, Whack!Outstays, Whack!Hittable
<1>6. CASE m.state = "falling"
  <2>1. k = IF 40 - r <= 0 THEN [m EXCEPT !.rise = 0, !.state = "hidden", !.age = 0]
            ELSE [m EXCEPT !.rise = 40 - r]
    BY <1>6 DEF Whack!Moved, Whack!FULL, r
  <2>2. k \in Whack!Mole
    <3>1. r < 40 => [m EXCEPT !.rise = 40 - r] \in Whack!Mole
      BY <1>1 DEF Whack!Mole, Whack!FULL
    <3>2. [m EXCEPT !.rise = 0, !.state = "hidden", !.age = 0] \in Whack!Mole
      <4>1. 0 \in 0..40 /\ "hidden" \in States /\ 0 \in Nat
        BY DEF States
      <4> QED
        BY <4>1, MoleSet, Zenon
    <3> QED
      BY <1>1, <2>1, <3>1, <3>2
  <2> QED
    BY <1>1, <1>2, <1>6, <2>1, <2>2 DEF MoleIs, States, Whack!Outstays, Whack!Hittable
<1>7. CASE m.state = "whacked"
  <2>1. k = IF m.age > STUN_TIME THEN [m EXCEPT !.state = "falling", !.age = 0] ELSE m
    BY <1>7 DEF Whack!Moved
  <2>2. k \in Whack!Mole
    <3>1. [m EXCEPT !.state = "falling", !.age = 0] \in Whack!Mole
      BY DEF Whack!Mole, Whack!FULL
    <3> QED
      BY <2>1, <3>1
  <2> QED
    BY <1>2, <1>7, <2>1, <2>2 DEF MoleIs, States, Whack!Outstays, Whack!Hittable
<1> QED
  BY <1>3, <1>4, <1>5, <1>6, <1>7 DEF MoleIs, States

(* All moles have moved.                                                   *)
LEMMA WhackMoves ==
    ASSUME WhackField, NEW g, WhackKept(g)
    PROVE  WhackWhole(Whack!MoveMoles(g))
<1> DEFINE k == Whack!MoveMoles(g)
<1>1. /\ DOMAIN k = WhackFields /\ k.score = g.score /\ k.combo = g.combo
      /\ k.best_combo = g.best_combo /\ k.hits = g.hits /\ k.misses = g.misses
      /\ k.time = g.time /\ k.risen = g.risen
      /\ k.moles = [h \in HOLES |-> Whack!Moved(g.moles[h])]
  BY DEF WhackKept, WhackFields, Whack!MoveMoles
<1> HIDE DEF k
<1>2. \A h \in HOLES :
         /\ k.moles[h] \in Whack!Mole /\ MoleIs(k.moles[h]) /\ ~Whack!Outstays(k.moles[h])
         /\ k.moles[h].state # "hidden" => g.moles[h].state # "hidden"
         /\ k.moles[h].state \in Whack!Hittable => g.moles[h].state \in Whack!Hittable
  BY <1>1, MoleMoves DEF WhackKept
<1>3. Cardinality(Targets(k)) <= Cardinality(Targets(g))
  <2>1. Targets(k) \subseteq Targets(g) /\ Targets(g) \subseteq HOLES
    BY <1>2 DEF Targets
  <2> QED
    BY <2>1, HolesFinite
<1>4. Cardinality(Whack!Active(k)) <= Cardinality(Whack!Active(g))
  <2>1. Whack!Active(k) \subseteq Whack!Active(g) /\ Whack!Active(g) \subseteq HOLES
    BY <1>2 DEF Whack!Active, Whack!Hidden
  <2> QED
    BY <2>1, HolesFinite
<1>5. Whack!MaxActive(k) = Whack!MaxActive(g) /\ Whack!MaxActive(g) \in Int
  <2>1. g.time \in Int /\ MORE_MOLES \in Nat \ {0}
    BY DEF WhackField, WhackKept
  <2>2. g.time \div MORE_MOLES \in Int
    BY <2>1, Dividing
  <2> QED
    BY <1>1, <2>2 DEF Whack!MaxActive
<1>6. /\ Cardinality(Targets(g)) \in Nat /\ Cardinality(Targets(k)) \in Nat
      /\ Cardinality(Whack!Active(g)) \in Nat /\ Cardinality(Whack!Active(k)) \in Nat
  <2>1. /\ Targets(g) \subseteq HOLES /\ Targets(k) \subseteq HOLES
        /\ Whack!Active(g) \subseteq HOLES /\ Whack!Active(k) \subseteq HOLES
    BY DEF Targets, Whack!Active
  <2> QED
    BY <2>1, HolesFinite
<1>7. k.hits + Cardinality(Targets(k)) <= k.risen
  BY <1>1, <1>3, <1>6 DEF WhackKept
<1>8. Cardinality(Whack!Active(k)) <= Whack!MaxActive(k)
  BY <1>4, <1>5, <1>6 DEF WhackKept
<1>9. k.moles \in [HOLES -> Whack!Mole]
  BY <1>1, <1>2
<1> QED
  BY <1>1, <1>2, <1>7, <1>8, <1>9 DEF WhackWhole, WhackKept, k

(* A strike hits a mole that is counted as out, or none.                   *)
LEMMA WhackStrikes ==
    ASSUME WhackField, NEW g, WhackKept(g), NEW h \in HOLES \cup {Whack!NoHole}
    PROVE  WhackKept(Whack!Whack(g, h)) /\ Whack!Active(Whack!Whack(g, h)) = Whack!Active(g)
<1> DEFINE k == Whack!Whack(g, h)
<1>1. CASE h # Whack!NoHole /\ g.moles[h].state \in Whack!Hittable
  <2>1. h \in HOLES /\ g.moles[h].state # "hidden" /\ MoleIs(g.moles[h])
    BY <1>1 DEF Whack!Hittable, WhackKept
  <2> DEFINE n == [g.moles[h] EXCEPT !.state = "whacked", !.age = 0]
  <2>2. /\ DOMAIN k = WhackFields /\ k.hits = g.hits + 1 /\ k.combo = g.combo + 1
        /\ k.best_combo = (IF g.combo + 1 > g.best_combo THEN g.combo + 1 ELSE g.best_combo)
        /\ k.misses = g.misses /\ k.time = g.time /\ k.risen = g.risen
    BY <1>1 DEF WhackKept, WhackFields, Whack!Whack
  <2>3. k.score \in Nat /\ k.score >= 10 * k.hits
    <3>1. k.score = g.score + g.combo * 5
                      + (IF g.moles[h].golden THEN Whack!GOLDEN_MOLE_SCORE ELSE Whack!MOLE_SCORE)
      BY <1>1 DEF WhackKept, WhackFields, Whack!Whack
    <3>2. \E s \in {10, 50} : k.score = g.score + g.combo * 5 + s
      BY <3>1 DEF Whack!GOLDEN_MOLE_SCORE, Whack!MOLE_SCORE
    <3> QED
      BY <2>2, <3>2 DEF WhackKept
  <2>4. /\ DOMAIN k.moles = HOLES /\ k.moles[h] = n
        /\ \A x \in HOLES \ {h} : k.moles[x] = g.moles[x]
    BY <1>1, <2>1 DEF WhackKept, WhackFields, Whack!Whack
  <2>5. MoleIs(n) /\ n.state = "whacked"
    BY <2>1 DEF MoleIs, States
  <2>50. k.moles = [g.moles EXCEPT ![h] = n] /\ n \in Whack!Mole
    <3>1. k.moles = [g.moles EXCEPT ![h] = n]
      BY <1>1, <2>1 DEF WhackKept, WhackFields, Whack!Whack
    <3>2. n \in Whack!Mole
        BY <2>1 DEF WhackKept, Whack!Mole, States
    <3> QED
      BY <3>1, <3>2
  <2> HIDE DEF k, n
  <2>6. \A x \in HOLES : MoleIs(k.moles[x])
    BY <2>4, <2>5 DEF WhackKept
  <2>7. Targets(k) = Targets(g) \ {h} /\ h \in Targets(g)
    BY <1>1, <2>1, <2>4, <2>5 DEF Targets, Whack!Hittable
  <2>8. Whack!Active(k) = Whack!Active(g)
    BY <2>1, <2>4, <2>5 DEF Whack!Active, Whack!Hidden
  <2>9. /\ Cardinality(Targets(k)) = Cardinality(Targets(g)) - 1
        /\ Cardinality(Targets(g)) \in Nat
    <3>1. Targets(g) \subseteq HOLES
      BY DEF Targets
    <3> QED
      BY <2>7, <3>1, HolesFinite
  <2>10. Whack!MaxActive(k) = Whack!MaxActive(g)
    BY <2>2 DEF Whack!MaxActive
  <2>11. WhackKept(k)
    <3>1. k.moles \in [HOLES -> Whack!Mole]
      BY <2>50 DEF WhackKept
    <3> QED
      BY <2>2, <2>3, <2>4, <2>6, <2>8, <2>9, <2>10, <3>1 DEF WhackKept
  <2> QED
    BY <2>8, <2>11 DEF k
<1>2. CASE ~(h # Whack!NoHole /\ g.moles[h].state \in Whack!Hittable)
  <2>1. k = [g EXCEPT !.combo = 0, !.misses = @ + 1]
    BY <1>2 DEF Whack!Whack
  <2>2. /\ DOMAIN k = WhackFields /\ k.hits = g.hits /\ k.combo = 0
        /\ k.best_combo = g.best_combo /\ k.misses = g.misses + 1 /\ k.time = g.time
        /\ k.risen = g.risen /\ k.score = g.score /\ k.moles = g.moles
    BY <2>1 DEF WhackKept, WhackFields
  <2> HIDE DEF k
  <2>3. /\ Targets(k) = Targets(g) /\ Whack!Active(k) = Whack!Active(g)
        /\ Whack!MaxActive(k) = Whack!MaxActive(g)
    BY <2>2 DEF Targets, Whack!Active, Whack!Hidden, Whack!MaxActive
  <2>4. WhackKept(k)
    BY <2>2, <2>3 DEF WhackKept
  <2> QED
    BY <2>3, <2>4 DEF k
<1> QED
  BY <1>1, <1>2

(* A mole comes out where none was.                                        *)
LEMMA WhackSpawns ==
    ASSUME WhackField, NEW g, WhackKept(g), Whack!MaySpawn(g),
           NEW h \in HOLES, Whack!Hidden(h, g), NEW golden \in BOOLEAN
    PROVE  WhackKept(Whack!Spawn(g, h, golden))
<1> DEFINE k == Whack!Spawn(g, h, golden)
           n == [state |-> "rising", age |-> 0, rise |-> 0, golden |-> golden]
<1>1. /\ DOMAIN k = WhackFields /\ k.score = g.score /\ k.combo = g.combo
      /\ k.best_combo = g.best_combo /\ k.hits = g.hits /\ k.misses = g.misses
      /\ k.time = g.time /\ k.risen = g.risen + 1
      /\ DOMAIN k.moles = HOLES /\ k.moles[h] = n
      /\ \A x \in HOLES \ {h} : k.moles[x] = g.moles[x]
      /\ k.moles = [g.moles EXCEPT ![h] = n]
  BY DEF WhackKept, WhackFields, Whack!Spawn
<1>2. MoleIs(n) /\ n.state = "rising"
  BY DEF MoleIs, States
<1>20. n \in Whack!Mole
  BY DEF Whack!Mole, Whack!FULL
<1> HIDE DEF k, n
<1>3. \A x \in HOLES : MoleIs(k.moles[x])
  BY <1>1, <1>2 DEF WhackKept
<1>4. /\ Targets(k) = Targets(g) \cup {h} /\ h \in HOLES \ Targets(g)
      /\ Whack!Active(k) = Whack!Active(g) \cup {h} /\ h \in HOLES \ Whack!Active(g)
  BY <1>1, <1>2 DEF Targets, Whack!Active, Whack!Hidden, Whack!Hittable
<1>5. /\ Cardinality(Targets(k)) = Cardinality(Targets(g)) + 1
      /\ Cardinality(Targets(g)) \in Nat /\ Cardinality(Whack!Active(g)) \in Nat
      /\ Cardinality(Whack!Active(k)) = Cardinality(Whack!Active(g)) + 1
  <2>1. Targets(g) \subseteq HOLES /\ Whack!Active(g) \subseteq HOLES
    BY DEF Targets, Whack!Active
  <2> QED
    BY <1>4, <2>1, HolesFinite
<1>6. /\ Whack!MaxActive(k) = Whack!MaxActive(g) /\ Whack!MaxActive(g) \in Int
      /\ Cardinality(Whack!Active(g)) < Whack!MaxActive(g)
  <2>1. g.time \in Int /\ MORE_MOLES \in Nat \ {0}
    BY DEF WhackField, WhackKept
  <2>2. g.time \div MORE_MOLES \in Int
    BY <2>1, Dividing
  <2> QED
    BY <1>1, <2>2, SameCardinality DEF Whack!MaxActive, Whack!MaySpawn
<1>7. k.moles \in [HOLES -> Whack!Mole]
  BY <1>1, <1>20 DEF WhackKept
<1> QED
  BY <1>1, <1>3, <1>5, <1>6, <1>7 DEF WhackKept, k

(* Time passes, and the space bar is read.                                 *)
LEMMA WhackElapses ==
    ASSUME WhackField, NEW g, WhackKept(g), NEW dt \in 1..MaxLate, NEW space \in BOOLEAN
    PROVE  WhackKept([Whack!Elapse(g, dt) EXCEPT !.space = space])
<1> DEFINE k == [Whack!Elapse(g, dt) EXCEPT !.space = space]
           ms == Whack!Elapse(g, dt).moles
<1>1. dt \in Nat
  BY DEF WhackField
<1>2. /\ DOMAIN k = WhackFields /\ k.score = g.score /\ k.combo = g.combo
      /\ k.best_combo = g.best_combo /\ k.hits = g.hits /\ k.misses = g.misses
      /\ k.time = g.time + dt /\ k.risen = g.risen /\ k.moles = ms
  <2> DEFINE e == Whack!Elapse(g, dt)
  <2>1. /\ DOMAIN e = WhackFields /\ e.score = g.score /\ e.combo = g.combo
        /\ e.best_combo = g.best_combo /\ e.hits = g.hits /\ e.misses = g.misses
        /\ e.time = g.time + dt /\ e.risen = g.risen /\ e.moles = ms
    BY DEF WhackKept, WhackFields, Whack!Elapse
  <2> HIDE DEF e, ms
  <2>2. k = [e EXCEPT !.space = space]
    BY DEF e
  <2> HIDE DEF k
  <2> QED
    BY <2>1, <2>2 DEF WhackFields
<1>25. /\ DOMAIN ms = HOLES
       /\ \A h \in HOLES : ms[h] = IF Whack!Hidden(h, g) THEN g.moles[h]
                                   ELSE [g.moles[h] EXCEPT !.age = g.moles[h].age + dt]
  <2>1. DOMAIN ms = HOLES
    BY DEF WhackKept, WhackFields, Whack!Elapse
  <2>2. ASSUME NEW h \in HOLES, Whack!Hidden(h, g) PROVE ms[h] = g.moles[h]
    BY <2>2 DEF WhackKept, WhackFields, Whack!Elapse
  <2>3. ASSUME NEW h \in HOLES, ~Whack!Hidden(h, g)
        PROVE  ms[h] = [g.moles[h] EXCEPT !.age = g.moles[h].age + dt]
    BY <2>3 DEF WhackKept, WhackFields, Whack!Elapse
  <2> HIDE DEF ms
  <2> QED
    BY <2>1, <2>2, <2>3
<1>30. ms \in [HOLES -> Whack!Mole]
  <2>1. ASSUME NEW h \in HOLES PROVE ms[h] \in Whack!Mole
    <3>1. g.moles[h] \in Whack!Mole /\ g.moles[h].age + dt \in Nat
      BY <1>1 DEF WhackKept, MoleIs
    <3>2. [g.moles[h] EXCEPT !.age = g.moles[h].age + dt] \in Whack!Mole
      BY <3>1 DEF Whack!Mole
    <3> QED
      BY <1>25, <3>1, <3>2
  <2> QED
    BY <2>1 DEF WhackKept, WhackFields, Whack!Elapse
<1>3. \A h \in HOLES : MoleIs(ms[h]) /\ ms[h].state = g.moles[h].state
  <2> HIDE DEF ms
  <2> QED
    BY <1>1, <1>25 DEF WhackKept, MoleIs
<1> HIDE DEF k, ms
<1>4. Targets(k) = Targets(g) /\ Whack!Active(k) = Whack!Active(g)
  BY <1>2, <1>3 DEF Targets, Whack!Active, Whack!Hidden
<1>5. Whack!MaxActive(g) <= Whack!MaxActive(k) /\ Whack!MaxActive(g) \in Int /\ Whack!MaxActive(k) \in Int
  <2> DEFINE a == g.time \div MORE_MOLES
             b == k.time \div MORE_MOLES
             ra == g.time % MORE_MOLES
             rb == k.time % MORE_MOLES
  <2>1. g.time \in Int /\ k.time \in Int /\ MORE_MOLES \in Nat \ {0} /\ g.time <= k.time
    BY <1>1, <1>2 DEF WhackField, WhackKept
  <2>2. /\ a \in Int /\ b \in Int /\ ra \in 0..(MORE_MOLES - 1) /\ rb \in 0..(MORE_MOLES - 1)
        /\ g.time = a * MORE_MOLES + ra /\ k.time = b * MORE_MOLES + rb
    BY <2>1, Dividing
  <2> HIDE DEF a, b, ra, rb
  <2>3. b < a => b * MORE_MOLES + MORE_MOLES <= a * MORE_MOLES
    BY <2>1, <2>2, SMT
  <2>4. a * MORE_MOLES \in Int /\ b * MORE_MOLES \in Int
    BY <2>1, <2>2, SMT
  <2>5. a <= b
    BY <2>1, <2>2, <2>3, <2>4
  <2> QED
    BY <2>2, <2>5 DEF Whack!MaxActive, a, b
<1>6. Cardinality(Whack!Active(g)) \in Nat
  BY HolesFinite DEF Whack!Active
<1>7. Cardinality(Whack!Active(k)) <= Whack!MaxActive(k)
  BY <1>4, <1>5, <1>6 DEF WhackKept
<1> QED
  BY <1>1, <1>2, <1>25, <1>3, <1>30, <1>4, <1>7 DEF WhackKept, k

(* Every step of the game keeps the invariant.                             *)
LEMMA WhackStep == ASSUME WhackField, WhackInv, Whack!Next PROVE WhackInv'
<1>0. WhackWhole(game)
  BY DEF WhackInv
<1>1. CASE Whack!Frame
  <2>1. PICK dt \in 1..MaxLate, space \in BOOLEAN, near \in HOLES \cup {Whack!NoHole} :
          /\ ~game.over
          /\ game' \in Whack!game_update([Whack!Elapse(game, dt) EXCEPT !.space = space],
                                         game.space, near)
    BY <1>1 DEF Whack!Frame
  <2> DEFINE g == [Whack!Elapse(game, dt) EXCEPT !.space = space]
  <2>2. WhackKept(g)
    BY <1>0, WhackElapses DEF WhackWhole
  <2>3. game' \in Whack!game_update(g, game.space, near)
    BY <2>1
  <2> HIDE DEF g
  <2>4. CASE g.over
    BY <2>2, <2>3, <2>4 DEF Whack!game_update, WhackInv, WhackWhole
  <2>5. CASE ~g.over /\ g.time >= GAME_TIME
    <3>1. game' = [g EXCEPT !.over = TRUE]
      BY <2>3, <2>5 DEF Whack!game_update
    <3>2. /\ DOMAIN game' = WhackFields /\ game'.score = g.score /\ game'.combo = g.combo
          /\ game'.best_combo = g.best_combo /\ game'.hits = g.hits
          /\ game'.misses = g.misses /\ game'.time = g.time /\ game'.risen = g.risen
          /\ game'.moles = g.moles /\ game'.over
      BY <2>2, <3>1 DEF WhackKept, WhackFields
    <3>3. WhackKept(game')
      BY <2>2, <3>2 DEF WhackKept, Targets, Whack!Active, Whack!Hidden, Whack!MaxActive
    <3> QED
      BY <3>2, <3>3 DEF WhackInv, WhackWhole
  <2>6. CASE ~g.over /\ ~(g.time >= GAME_TIME)
    <3> DEFINE w == IF g.space /\ ~game.space THEN Whack!Whack(g, near) ELSE g
    <3>1. WhackKept(w)
      BY <2>2, WhackStrikes
    <3>2. \/ game' = Whack!MoveMoles(w)
          \/ /\ Whack!MaySpawn(w)
             /\ \E h \in {x \in HOLES : Whack!Hidden(x, w)}, gold \in BOOLEAN :
                   game' = Whack!MoveMoles(Whack!Spawn(w, h, gold))
      BY <2>3, <2>6 DEF Whack!game_update
    <3> HIDE DEF w
    <3>3. CASE game' = Whack!MoveMoles(w)
      BY <3>1, <3>3, WhackMoves DEF WhackInv
    <3>4. ASSUME Whack!MaySpawn(w), NEW h \in {x \in HOLES : Whack!Hidden(x, w)},
                 NEW gold \in BOOLEAN, game' = Whack!MoveMoles(Whack!Spawn(w, h, gold))
          PROVE  WhackInv'
      BY <3>1, <3>4, WhackSpawns, WhackMoves DEF WhackInv
    <3> QED
      BY <3>2, <3>3, <3>4
  <2> QED
    BY <2>4, <2>5, <2>6
<1>2. CASE Whack!GameOver
  BY <1>0, <1>2 DEF Whack!GameOver, Whack!game_update, WhackInv
<1> QED
  BY <1>1, <1>2 DEF Whack!Next

(* The invariant holds when a game begins.                                 *)
LEMMA WhackInit == ASSUME WhackField, Whack!Init PROVE WhackInv
<1> DEFINE hidden == [state |-> "hidden", age |-> 0, rise |-> 0, golden |-> FALSE]
<1>1. /\ DOMAIN game = WhackFields /\ game.score = 0 /\ game.combo = 0 /\ game.best_combo = 0
      /\ game.hits = 0 /\ game.misses = 0 /\ game.time = 0 /\ game.risen = 0
      /\ game.moles = [h \in HOLES |-> hidden]
  BY DEF Whack!Init, Whack!game_init, WhackFields
<1>2. MoleIs(hidden) /\ hidden.state = "hidden" /\ ~Whack!Outstays(hidden)
  BY DEF MoleIs, States, Whack!Outstays
<1>20. hidden \in Whack!Mole
  BY DEF Whack!Mole, Whack!FULL
<1> HIDE DEF hidden
<1>3. Targets(game) = {} /\ Whack!Active(game) = {} /\ Cardinality({}) = 0
  BY <1>1, <1>2, FS_EmptySet DEF Targets, Whack!Active, Whack!Hidden, Whack!Hittable
<1>4. Whack!MaxActive(game) \in Nat
  <2>1. 0 \div MORE_MOLES = 0
    BY SMT DEF WhackField
  <2> QED
    BY <1>1, <2>1 DEF Whack!MaxActive
<1> QED
  BY <1>1, <1>2, <1>20, <1>3, <1>4 DEF WhackInv, WhackWhole, WhackKept

(* A mole of drm-whack.c is hit at most once each time it comes out: the   *)
(* moles that came out are as many as the hits and the moles that can be   *)
(* hit at least, whatever a pass strikes, brings out and takes back.  And  *)
(* however late a pass is, no mole outstays its phase while the game goes  *)
(* on, and no more are out than the time allows.                           *)
THEOREM WhackCorrect ==
    ASSUME WhackField
    PROVE  Whack!Spec => [](/\ Whack!TypeOK /\ Whack!HitOncePerAppearance
                            /\ Whack!MolesBounded)
<1>1. WhackInv => Whack!TypeOK /\ Whack!HitOncePerAppearance /\ Whack!MolesBounded
  <2> SUFFICES ASSUME WhackInv
               PROVE  Whack!TypeOK /\ Whack!HitOncePerAppearance /\ Whack!MolesBounded
    OBVIOUS
  <2>1. WhackWhole(game)
    BY DEF WhackInv
  <2>2. Whack!TypeOK
    BY <2>1 DEF WhackWhole, WhackKept, Whack!TypeOK
  <2>3. Whack!HitOncePerAppearance
    BY <2>1, SameCardinality
       DEF WhackWhole, WhackKept, Targets, Whack!HitOncePerAppearance, Whack!MOLE_SCORE
  <2>4. Whack!MolesBounded
    BY <2>1, SameCardinality
       DEF WhackWhole, WhackKept, MoleIs, Whack!Hidden, Whack!MolesBounded
  <2> QED
    BY <2>2, <2>3, <2>4
<1>2. Whack!Init => WhackInv
  BY WhackInit
<1>3. WhackInv /\ [Whack!Next]_game => WhackInv'
  BY WhackStep DEF WhackInv
<1> QED
  BY <1>1, <1>2, <1>3, PTL DEF Whack!Spec

-----------------------------------------------------------------------------
(* Snake.                                                                  *)
SnakeFields ==
    {"snake", "dir", "next_dir", "food", "score", "high_score", "speed", "frame_counter",
     "paused", "over"}

(* A path of cells that does not cross itself.                             *)
SnakePath(s) ==
    /\ s \in Seq(Snake!Grid) /\ Len(s) > 0
    /\ \A i, j \in 1..Len(s) : s[i] = s[j] => i = j
    /\ \A i \in 1..(Len(s) - 1) : Snake!Adjacent(s[i], s[i + 1])

LengthAt(score) == LET grown == INITIAL_SNAKE_LEN + score \div 10
                   IN  IF grown < SNAKE_MAX_LEN THEN grown ELSE SNAKE_MAX_LEN

SpeedAt(score) == LET speed == GAME_SPEED_INITIAL - score \div SPEED_UP
                  IN  IF speed > GAME_SPEED_MIN THEN speed ELSE GAME_SPEED_MIN

SnakeWhole(g) ==
    /\ DOMAIN g = SnakeFields
    /\ SnakePath(g.snake) /\ g.food \in Snake!Grid
    /\ g.dir \in Snake!Dirs /\ g.next_dir \in Snake!Dirs
    /\ g.next_dir # Snake!Opposite[g.dir]
    /\ g.score \in Nat /\ g.score % 10 = 0 /\ g.high_score \in Nat /\ g.frame_counter \in Nat
    /\ Len(g.snake) = LengthAt(g.score) /\ g.speed = SpeedAt(g.score)

SnakeInv == SnakeWhole(game)

(* The opposite of the opposite is the direction itself.                   *)
LEMMA Opposites ==
    \A d \in Snake!Dirs : /\ Snake!Opposite[d] \in Snake!Dirs /\ Snake!Opposite[d] # d
                          /\ Snake!Opposite[Snake!Opposite[d]] = d
BY DEF Snake!Dirs, Snake!Opposite

(* A cell next to the head that is not of the body becomes the head of a   *)
(* path as long as the body or one longer.                                 *)
LEMMA SnakeMoves ==
    ASSUME NEW s, SnakePath(s), NEW head \in Snake!Grid, head \notin Snake!Body(s),
           Snake!Adjacent(head, s[1]), NEW m \in {Len(s), Len(s) + 1},
           NEW t \in Seq(Snake!Grid), Len(t) = m, t[1] = head,
           \A i \in 2..m : t[i] = s[i - 1]
    PROVE  SnakePath(t)
<1>1. Len(s) \in Nat \ {0} /\ m \in Nat \ {0} /\ m <= Len(s) + 1
  BY DEF SnakePath
<1>2. \A i \in 1..Len(s) : s[i] # head
  BY <1>1 DEF Snake!Body, SnakePath
<1>3. ASSUME NEW i \in 1..m, NEW j \in 1..m, t[i] = t[j] PROVE i = j
  <2>1. CASE i = 1 /\ j > 1
    BY <1>1, <1>2, <1>3, <2>1
  <2>2. CASE i > 1 /\ j = 1
    BY <1>1, <1>2, <1>3, <2>2
  <2>3. CASE i > 1 /\ j > 1
    <3>1. i - 1 \in 1..Len(s) /\ j - 1 \in 1..Len(s) /\ s[i - 1] = s[j - 1]
      BY <1>1, <1>3, <2>3
    <3>2. i - 1 = j - 1
      BY <3>1 DEF SnakePath
    <3> QED
      BY <3>2
  <2> QED
    BY <2>1, <2>2, <2>3
<1>4. ASSUME NEW i \in 1..(m - 1) PROVE Snake!Adjacent(t[i], t[i + 1])
  <2>1. t[i + 1] = s[i]
    BY <1>1
  <2>2. CASE i = 1
    BY <2>1, <2>2
  <2>3. CASE i > 1
    <3>1. t[i] = s[i - 1] /\ i - 1 \in 1..(Len(s) - 1) /\ (i - 1) + 1 = i
      BY <1>1, <2>3
    <3>2. Snake!Adjacent(s[i - 1], s[(i - 1) + 1])
      BY <3>1 DEF SnakePath
    <3> QED
      BY <2>1, <3>1, <3>2
  <2> QED
    BY <2>2, <2>3
<1> QED
  BY <1>1, <1>3, <1>4 DEF SnakePath

(* What shift and growth do to the segments.                               *)
LEMMA SnakeFollows ==
    ASSUME NEW s, SnakePath(s), NEW head \in Snake!Grid
    PROVE  /\ \A t \in {Snake!Shift(s), Snake!Grow(s)} :
                 /\ t \in Seq(Snake!Grid) /\ Snake!WithHead(t, head) \in Seq(Snake!Grid)
                 /\ Len(Snake!WithHead(t, head)) = Len(t) /\ Snake!WithHead(t, head)[1] = head
                 /\ \A i \in 2..Len(t) : Snake!WithHead(t, head)[i] = s[i - 1]
           /\ Len(Snake!Shift(s)) = Len(s)
           /\ Len(Snake!Grow(s)) = IF Len(s) < SNAKE_MAX_LEN THEN Len(s) + 1 ELSE Len(s)
<1>1. Len(s) \in Nat \ {0} /\ DOMAIN s = 1..Len(s) /\ \A i \in 1..Len(s) : s[i] \in Snake!Grid
  BY DEF SnakePath
<1>2. /\ Snake!Shift(s) \in Seq(Snake!Grid) /\ Len(Snake!Shift(s)) = Len(s)
      /\ \A i \in 2..Len(s) : Snake!Shift(s)[i] = s[i - 1]
  BY <1>1 DEF Snake!Shift
<1>3. /\ (<<s[1]>> \o s) \in Seq(Snake!Grid) /\ Len(<<s[1]>> \o s) = Len(s) + 1
      /\ \A i \in 2..(Len(s) + 1) : (<<s[1]>> \o s)[i] = s[i - 1]
  BY <1>1 DEF SnakePath
<1>4. /\ Snake!Grow(s) \in Seq(Snake!Grid)
      /\ Len(Snake!Grow(s)) = IF Len(s) < SNAKE_MAX_LEN THEN Len(s) + 1 ELSE Len(s)
      /\ \A i \in 2..Len(Snake!Grow(s)) : Snake!Grow(s)[i] = s[i - 1]
  BY <1>2, <1>3 DEF Snake!Grow
<1>5. ASSUME NEW t \in Seq(Snake!Grid), Len(t) \in Nat \ {0}
      PROVE  /\ Snake!WithHead(t, head) \in Seq(Snake!Grid)
             /\ Len(Snake!WithHead(t, head)) = Len(t) /\ Snake!WithHead(t, head)[1] = head
             /\ \A i \in 2..Len(t) : Snake!WithHead(t, head)[i] = t[i]
  BY <1>5 DEF Snake!WithHead
<1> QED
  BY <1>1, <1>2, <1>4, <1>5

(* Ten points more are one step of the speed more just when they are the   *)
(* points of a step.                                                       *)
LEMMA TenMore ==
    ASSUME NEW S \in Nat \ {0}, S % 10 = 0, NEW n \in Nat, n % 10 = 0
    PROVE  (n + 10) \div S = IF (n + 10) % S = 0 THEN n \div S + 1 ELSE n \div S
<1> DEFINE a  == n \div S
           ra == n % S
           b  == (n + 10) \div S
           rb == (n + 10) % S
<1>1. /\ a \in Int /\ b \in Int /\ ra \in 0..(S - 1) /\ rb \in 0..(S - 1)
      /\ n = a * S + ra /\ n + 10 = b * S + rb
  <2>1. n \in Int /\ n + 10 \in Int
    OBVIOUS
  <2> QED
    BY <2>1, Dividing
<1>2. PICK k \in Int, j \in Int : S = 10 * k /\ n = 10 * j
  <2>1. S = 10 * (S \div 10) /\ n = 10 * (n \div 10) /\ S \div 10 \in Int /\ n \div 10 \in Int
    OBVIOUS
  <2> QED
    BY <2>1
<1> HIDE DEF a, b, ra, rb
<1>3. ra + 10 <= S
  <2>1. a * k \in Int /\ a * S = 10 * (a * k)
    BY <1>1, <1>2, SMT
  <2>2. ra = 10 * j - 10 * (a * k)
    BY <1>1, <1>2, <2>1
  <2> QED
    BY <1>1, <1>2, <2>1, <2>2
<1>4. a * S \in Int /\ (a + 1) * S = a * S + S /\ a + 1 \in Int
  BY <1>1, SMT
<1>5. CASE ra + 10 = S
  <2>1. (a + 1) * S + 0 = b * S + rb /\ 0 \in 0..(S - 1)
    BY <1>1, <1>4, <1>5
  <2>2. a + 1 = b /\ 0 = rb
    BY <1>1, <1>4, <2>1, Quotients
  <2> QED
    BY <2>2 DEF a, b, rb
<1>6. CASE ra + 10 < S
  <2>1. a * S + (ra + 10) = b * S + rb /\ ra + 10 \in 0..(S - 1)
    BY <1>1, <1>4, <1>6
  <2>2. a = b /\ ra + 10 = rb
    BY <1>1, <2>1, Quotients
  <2>3. rb # 0
    BY <1>1, <2>2
  <2> QED
    BY <2>2, <2>3 DEF a, b, rb
<1> QED
  BY <1>1, <1>3, <1>5, <1>6

(* One move: the end, a longer snake or a shifted one.                     *)
LEMMA SnakeSteps ==
    ASSUME SnakeGrid, NEW g, SnakeWhole(g), NEW k \in Snake!Step(g)
    PROVE  /\ DOMAIN k = SnakeFields /\ SnakePath(k.snake) /\ k.food \in Snake!Grid
           /\ k.dir = g.dir /\ k.next_dir = g.next_dir /\ k.frame_counter = g.frame_counter
           /\ k.score \in Nat /\ k.score % 10 = 0 /\ k.high_score \in Nat
           /\ Len(k.snake) = LengthAt(k.score) /\ k.speed = SpeedAt(k.score)
<1> DEFINE s    == g.snake
           head == Snake!NewHead(s, g.dir)
<1>1. SnakePath(s) /\ Len(s) = LengthAt(g.score) /\ g.speed = SpeedAt(g.score)
  BY DEF SnakeWhole
<1>2. CASE Snake!Hits(s, head)
  <2>1. k = Snake!Die(g)
    BY <1>2 DEF Snake!Step
  <2> QED
    BY <2>1 DEF Snake!Die, SnakeWhole, SnakeFields
<1>3. CASE ~Snake!Hits(s, head)
  <2>1. head \in Snake!Grid /\ head \notin Snake!Body(s)
    BY <1>3 DEF Snake!Hits
  <2>2. Snake!Adjacent(head, s[1])
    <3>1. s[1] \in Snake!Grid
      BY <1>1 DEF SnakePath
    <3>2. PICK x \in Int, y \in Int : s[1] = <<x, y>>
      BY <3>1 DEF Snake!Grid, SnakeGrid
    <3>3. PICK v \in {0, 1, -1}, w \in {0, 1, -1} :
            head = <<x + v, y + w>> /\ v * v + w * w = 1
      BY <3>2 DEF Snake!NewHead, Snake!Vector, Snake!Dirs, SnakeWhole
    <3>4. head[1] - s[1][1] = v /\ head[2] - s[1][2] = w
      BY <3>2, <3>3
    <3> QED
      BY <3>3, <3>4 DEF Snake!Adjacent
  <2> HIDE DEF head
  <2>3. CASE head = g.food
    <3> DEFINE grown == Snake!Grow(s)
               t     == Snake!WithHead(grown, head)
    <3>1. PICK f \in Snake!FoodCells(grown) :
            k = [g EXCEPT !.snake = t, !.score = g.score + 10,
                          !.speed = IF @ > GAME_SPEED_MIN /\ (g.score + 10) % SPEED_UP = 0
                                    THEN @ - 1 ELSE @,
                          !.food = f]
      BY <1>3, <2>3 DEF Snake!Step, Snake!Eat, head
    <3>2. /\ t \in Seq(Snake!Grid) /\ Len(t) = Len(grown) /\ t[1] = head
          /\ \A i \in 2..Len(grown) : t[i] = s[i - 1]
          /\ Len(grown) = IF Len(s) < SNAKE_MAX_LEN THEN Len(s) + 1 ELSE Len(s)
      BY <1>1, <2>1, SnakeFollows
    <3> HIDE DEF grown, t
    <3>3. SnakePath(t)
      <4>1. Len(grown) \in {Len(s), Len(s) + 1}
        BY <3>2
      <4> QED
        BY <1>1, <2>1, <2>2, <3>2, <4>1, SnakeMoves
    <3>4. (g.score + 10) \in Nat /\ (g.score + 10) % 10 = 0
      BY DEF SnakeWhole
    <3>5. Len(t) = LengthAt(g.score + 10)
      <4>1. g.score \in Nat /\ g.score % 10 = 0 /\ (g.score + 10) \div 10 = g.score \div 10 + 1
            /\ g.score \div 10 \in Nat
        BY DEF SnakeWhole
      <4>2. Len(s) = LengthAt(g.score) /\ SNAKE_MAX_LEN \in Nat /\ INITIAL_SNAKE_LEN \in Nat
        BY DEF SnakeWhole, SnakeGrid
      <4>3. Len(t) = IF Len(s) < SNAKE_MAX_LEN THEN Len(s) + 1 ELSE Len(s)
        BY <3>2
      <4> HIDE DEF s
      <4> QED
        BY <4>1, <4>2, <4>3 DEF LengthAt
    <3>6. k.speed = SpeedAt(g.score + 10)
      <4>1. (g.score + 10) \div SPEED_UP
              = IF (g.score + 10) % SPEED_UP = 0 THEN g.score \div SPEED_UP + 1
                ELSE g.score \div SPEED_UP
        BY TenMore DEF SnakeGrid, SnakeWhole
      <4>2. g.score \div SPEED_UP \in Int
        <5>1. g.score \in Int /\ SPEED_UP \in Nat \ {0}
          BY DEF SnakeGrid, SnakeWhole
        <5> QED
          BY <5>1, Dividing
      <4>3. k.speed = IF g.speed > GAME_SPEED_MIN /\ (g.score + 10) % SPEED_UP = 0
                      THEN g.speed - 1 ELSE g.speed
        BY <3>1 DEF SnakeWhole, SnakeFields
      <4> QED
        BY <1>1, <4>1, <4>2, <4>3 DEF SpeedAt, SnakeGrid
    <3>7. /\ DOMAIN k = SnakeFields /\ k.snake = t /\ k.food = f /\ k.score = g.score + 10
          /\ k.dir = g.dir /\ k.next_dir = g.next_dir /\ k.frame_counter = g.frame_counter
          /\ k.high_score = g.high_score
      BY <3>1 DEF SnakeWhole, SnakeFields
    <3>8. f \in Snake!Grid
      BY DEF Snake!FoodCells
    <3> QED
      BY <3>3, <3>4, <3>5, <3>6, <3>7, <3>8 DEF SnakeWhole
  <2>4. CASE head # g.food
    <3> DEFINE t == Snake!WithHead(Snake!Shift(s), head)
    <3>1. k = [g EXCEPT !.snake = t]
      BY <1>3, <2>4 DEF Snake!Step, head
    <3>2. /\ t \in Seq(Snake!Grid) /\ Len(t) = Len(s) /\ t[1] = head
          /\ \A i \in 2..Len(s) : t[i] = s[i - 1]
      <4> DEFINE u == Snake!Shift(s)
      <4>1. /\ Snake!WithHead(u, head) \in Seq(Snake!Grid)
            /\ Len(Snake!WithHead(u, head)) = Len(u) /\ Snake!WithHead(u, head)[1] = head
            /\ \A i \in 2..Len(u) : Snake!WithHead(u, head)[i] = s[i - 1]
            /\ Len(u) = Len(s)
        BY <1>1, <2>1, SnakeFollows, Zenon
      <4> HIDE DEF u
      <4> QED
        BY <4>1 DEF u
    <3> HIDE DEF t
    <3>3. SnakePath(t)
      BY <1>1, <2>1, <2>2, <3>2, SnakeMoves
    <3>4. k.snake = t /\ Len(k.snake) = Len(s)
      BY <3>1, <3>2 DEF SnakeWhole, SnakeFields
    <3> QED
      BY <3>1, <3>3, <3>4 DEF SnakeWhole, SnakeFields
  <2> QED
    BY <2>3, <2>4
<1> QED
  BY <1>2, <1>3

(* The snake a game begins with.                                           *)
LEMMA SnakeCentered ==
    ASSUME SnakeGrid
    PROVE  /\ SnakePath(Snake!Centered) /\ Len(Snake!Centered) = LengthAt(0)
           /\ GAME_SPEED_INITIAL = SpeedAt(0)
<1> DEFINE c == Snake!Centered
           x == GRID_W \div 2
           y == GRID_H \div 2
<1>1. x \in 0..(GRID_W - 1) /\ y \in 0..(GRID_H - 1) /\ INITIAL_SNAKE_LEN <= x + 1
  BY SMT DEF SnakeGrid
<1>2. c = [i \in 1..INITIAL_SNAKE_LEN |-> <<x - (i - 1), y>>]
  BY DEF Snake!Centered
<1> HIDE DEF c, x, y
<1>3. \A i \in 1..INITIAL_SNAKE_LEN : c[i] = <<x - (i - 1), y>> /\ c[i] \in Snake!Grid
  BY <1>1, <1>2 DEF Snake!Grid, SnakeGrid
<1>4. c \in Seq(Snake!Grid) /\ Len(c) = INITIAL_SNAKE_LEN
  BY <1>2, <1>3 DEF SnakeGrid
<1>5. ASSUME NEW i \in 1..(INITIAL_SNAKE_LEN - 1) PROVE Snake!Adjacent(c[i], c[i + 1])
  <2>1. c[i] = <<x - (i - 1), y>> /\ c[i + 1] = <<x - i, y>>
    BY <1>3 DEF SnakeGrid
  <2>2. c[i][1] - c[i + 1][1] = 1 /\ c[i][2] - c[i + 1][2] = 0
    BY <1>1, <2>1 DEF SnakeGrid
  <2> QED
    BY <2>2 DEF Snake!Adjacent
<1>6. ASSUME NEW i \in 1..INITIAL_SNAKE_LEN, NEW j \in 1..INITIAL_SNAKE_LEN, c[i] = c[j]
      PROVE  i = j
  BY <1>1, <1>3, <1>6 DEF SnakeGrid
<1>7. SnakePath(c)
  BY <1>4, <1>5, <1>6 DEF SnakePath, SnakeGrid
<1>8. 0 \div SPEED_UP = 0
  BY SMT DEF SnakeGrid
<1> QED
  BY <1>4, <1>7, <1>8 DEF c, LengthAt, SpeedAt, SnakeGrid

(* Every step of the game keeps the invariant.                             *)
LEMMA SnakeStep == ASSUME SnakeGrid, SnakeInv, Snake!Next PROVE SnakeInv'
<1>0. SnakeWhole(game)
  BY DEF SnakeInv
<1>1. ASSUME NEW d \in Snake!Dirs, Snake!Turn(d) PROVE SnakeInv'
  <2>1. d # Snake!Opposite[game.dir]
    BY <1>0, <1>1, Opposites DEF Snake!Turn, SnakeWhole
  <2> QED
    BY <1>0, <1>1, <2>1 DEF Snake!Turn, SnakeInv, SnakeWhole, SnakeFields
<1>2. CASE Snake!Restart
  <2>1. "right" \in Snake!Dirs /\ "right" # Snake!Opposite["right"]
    BY DEF Snake!Dirs, Snake!Opposite
  <2>2. /\ DOMAIN game' = SnakeFields /\ game'.snake = Snake!Centered /\ game'.food = game.food
        /\ game'.dir = "right" /\ game'.next_dir = "right" /\ game'.score = 0
        /\ game'.high_score = game.high_score /\ game'.speed = GAME_SPEED_INITIAL
        /\ game'.frame_counter = game.frame_counter
    BY <1>0, <1>2 DEF Snake!Restart, SnakeWhole, SnakeFields
  <2> QED
    BY <1>0, <2>1, <2>2, SnakeCentered DEF SnakeInv, SnakeWhole
<1>3. CASE Snake!Unpause
  BY <1>0, <1>3 DEF Snake!Unpause, SnakeInv, SnakeWhole, SnakeFields
<1>4. CASE Snake!Pause
  BY <1>0, <1>4 DEF Snake!Pause, SnakeInv, SnakeWhole, SnakeFields
<1>5. CASE Snake!Update
  <2>1. game' \in Snake!game_update(game)
    BY <1>5 DEF Snake!Update
  <2>2. CASE game.paused \/ game.over
    BY <1>0, <2>1, <2>2 DEF Snake!game_update, SnakeInv
  <2>3. CASE ~(game.paused \/ game.over) /\ game.frame_counter + 1 < game.speed
    BY <1>0, <2>1, <2>3 DEF Snake!game_update, SnakeInv, SnakeWhole, SnakeFields
  <2>4. CASE ~(game.paused \/ game.over) /\ ~(game.frame_counter + 1 < game.speed)
    <3> DEFINE g == [game EXCEPT !.frame_counter = 0, !.dir = game.next_dir]
    <3>1. game' \in Snake!Step(g)
      BY <2>1, <2>4 DEF Snake!game_update
    <3>2. SnakeWhole(g) /\ g.next_dir = g.dir /\ g.frame_counter = 0
      BY <1>0, Opposites DEF SnakeWhole, SnakeFields
    <3> HIDE DEF g
    <3>3. /\ DOMAIN game' = SnakeFields /\ SnakePath(game'.snake) /\ game'.food \in Snake!Grid
          /\ game'.dir = g.dir /\ game'.next_dir = g.next_dir
          /\ game'.frame_counter = g.frame_counter
          /\ game'.score \in Nat /\ game'.score % 10 = 0 /\ game'.high_score \in Nat
          /\ Len(game'.snake) = LengthAt(game'.score) /\ game'.speed = SpeedAt(game'.score)
      BY <3>1, <3>2, SnakeSteps
    <3> QED
      BY <3>2, <3>3, Opposites DEF SnakeInv, SnakeWhole
  <2> QED
    BY <2>2, <2>3, <2>4
<1> QED
  BY <1>1, <1>2, <1>3, <1>4, <1>5 DEF Snake!Next

(* The invariant holds when a game begins.                                 *)
LEMMA SnakeInit == ASSUME SnakeGrid, Snake!Init PROVE SnakeInv
<1>1. PICK f \in Snake!FoodCells(Snake!Centered) : game = Snake!game_init(f)
  BY DEF Snake!Init
<1>2. "right" \in Snake!Dirs /\ "right" # Snake!Opposite["right"] /\ f \in Snake!Grid
  BY DEF Snake!Dirs, Snake!Opposite, Snake!FoodCells
<1>3. /\ DOMAIN game = SnakeFields /\ game.snake = Snake!Centered /\ game.food = f
      /\ game.dir = "right" /\ game.next_dir = "right" /\ game.score = 0
      /\ game.high_score = 0 /\ game.speed = GAME_SPEED_INITIAL /\ game.frame_counter = 0
  BY <1>1 DEF Snake!game_init, SnakeFields
<1> QED
  BY <1>2, <1>3, SnakeCentered DEF SnakeInv, SnakeWhole

(* A path has as many cells as segments.                                   *)
LEMMA SnakeSegments ==
    ASSUME NEW s, SnakePath(s)
    PROVE  Snake!Cardinality(Snake!Body(s)) = Len(s)
<1>1. Len(s) \in Nat /\ DOMAIN s = 1..Len(s)
  BY DEF SnakePath
<1>2. s \in Bijection(1..Len(s), Snake!Body(s))
  <2>1. s \in [1..Len(s) -> Snake!Body(s)]
    BY <1>1 DEF Snake!Body, SnakePath
  <2>2. \A c \in Snake!Body(s) : \E i \in 1..Len(s) : s[i] = c
    BY <1>1 DEF Snake!Body
  <2>3. \A i, j \in 1..Len(s) : s[i] = s[j] => i = j
    BY DEF SnakePath
  <2> QED
    BY <2>1, <2>2, <2>3, Fun_IsBij
<1>3. ExistsBijection(1..Len(s), Snake!Body(s))
  BY <1>2, Zenon DEF ExistsBijection
<1> QED
  BY <1>1, <1>3, FS_CountingElements, SameCardinality

(* The segments of the snake of drm-snake.c are one path that does not     *)
(* cross itself, however it turns, grows, stops growing, dies and begins   *)
(* again; no turns within one move send the head back into the neck; the   *)
(* snake is as long and as fast as the points of this game make it.        *)
THEOREM SnakeCorrect ==
    ASSUME SnakeGrid
    PROVE  Snake!Spec => [](/\ Snake!TypeOK /\ Snake!BodyIsPath
                            /\ Snake!NeverReverses /\ Snake!LengthOfScore)
<1>1. SnakeInv => Snake!TypeOK /\ Snake!BodyIsPath /\ Snake!NeverReverses /\ Snake!LengthOfScore
  <2> SUFFICES ASSUME SnakeInv
               PROVE  /\ Snake!TypeOK /\ Snake!BodyIsPath
                      /\ Snake!NeverReverses /\ Snake!LengthOfScore
    OBVIOUS
  <2>1. SnakeWhole(game)
    BY DEF SnakeInv
  <2>2. Snake!TypeOK
    <3>1. game.speed \in Nat
      <4>1. game.score \div SPEED_UP \in Int
        <5>1. game.score \in Int /\ SPEED_UP \in Nat \ {0}
          BY <2>1 DEF SnakeGrid, SnakeWhole
        <5> QED
          BY <5>1, Dividing
      <4> QED
        BY <2>1, <4>1 DEF SnakeGrid, SnakeWhole, SpeedAt
    <3> QED
      BY <2>1, <3>1 DEF SnakeWhole, SnakePath, Snake!TypeOK
  <2>3. Snake!BodyIsPath
    BY <2>1, SnakeSegments DEF SnakeWhole, SnakePath, Snake!BodyIsPath
  <2>4. Snake!NeverReverses
    BY <2>1 DEF SnakeWhole, Snake!NeverReverses
  <2>5. Snake!LengthOfScore
    BY <2>1 DEF SnakeWhole, LengthAt, SpeedAt, Snake!LengthOfScore
  <2> QED
    BY <2>2, <2>3, <2>4, <2>5
<1>2. Snake!Init => SnakeInv
  BY SnakeInit
<1>3. SnakeInv /\ [Snake!Next]_game => SnakeInv'
  BY SnakeStep DEF SnakeInv
<1> QED
  BY <1>1, <1>2, <1>3, PTL DEF Snake!Spec

-----------------------------------------------------------------------------
(* Puzzle.                                                                 *)
PuzzleFields == {"grid", "selected", "anim", "timer", "swap", "matched", "falls", "paused"}

Full(grid) == grid \in [Puzzle!Cells -> Puzzle!Gems]

PuzzleKept(g) ==
    /\ DOMAIN g = PuzzleFields
    /\ Full(g.grid)
    /\ g.selected \in Puzzle!Cells \cup {Puzzle!NoCell}
    /\ g.anim \in {"none", "swapping", "matching", "falling"}
    /\ g.matched \subseteq Puzzle!Cells /\ g.timer \in Nat /\ g.falls \in Nat
    /\ g.anim = "swapping" => g.swap \in Puzzle!Cells \X Puzzle!Cells
    /\ g.anim \in {"none", "swapping"} => Puzzle!Matched(g.grid) = {}
    /\ g.anim = "matching" => g.matched # {} /\ g.matched = Puzzle!Matched(g.grid)
    /\ g.anim # "none" => g.selected = Puzzle!NoCell

PuzzleInv == PuzzleKept(game)

(* What matches is on the board.                                           *)
LEMMA MatchedCells == \A grid : Puzzle!Matched(grid) \subseteq Puzzle!Cells
BY DEF Puzzle!Matched, Puzzle!Equal

(* A board full of gems has no hole.                                       *)
LEMMA FullBoard ==
    ASSUME NEW grid, Full(grid) PROVE Puzzle!Holes(grid) = {}
BY DEF Full, Puzzle!Holes, Puzzle!Gems, Puzzle!Empty

(* Falling leaves gems and holes, and nothing else.                        *)
LEMMA GemsFall ==
    ASSUME NEW grid, grid \in [Puzzle!Cells -> Puzzle!Gems \cup {Puzzle!Empty}]
    PROVE  Puzzle!Fallen(grid) \in [Puzzle!Cells -> Puzzle!Gems \cup {Puzzle!Empty}]
<1> SUFFICES ASSUME NEW c \in Puzzle!Cells
             PROVE  Puzzle!Fallen(grid)[c] \in Puzzle!Gems \cup {Puzzle!Empty}
  BY DEF Puzzle!Fallen
<1> DEFINE s == Puzzle!Source(grid, c[1], c[2])
           r == CHOOSE t \in s : TRUE
<1>1. Puzzle!Fallen(grid)[c] = IF s = {} THEN Puzzle!Empty ELSE grid[<<r, c[2]>>]
  BY DEF Puzzle!Fallen
<1>2. s # {} => r \in s
  OBVIOUS
<1>3. s \subseteq Puzzle!Ys
  BY DEF Puzzle!Source, Puzzle!GemsInColumn
<1>4. c[2] \in Puzzle!Xs
  BY DEF Puzzle!Cells
<1> HIDE DEF s, r
<1>5. s # {} => <<r, c[2]>> \in Puzzle!Cells
  BY <1>2, <1>3, <1>4 DEF Puzzle!Cells
<1> QED
  BY <1>1, <1>5

(* Where there was a hole there is one on top.                             *)
LEMMA HolesRise ==
    ASSUME PuzzleBoard, NEW grid, NEW c \in Puzzle!Holes(grid)
    PROVE  <<0, c[2]>> \in Puzzle!Holes(Puzzle!Fallen(grid))
<1> DEFINE x == c[2]
           G == Puzzle!GemsInColumn(grid, x)
<1>1. c \in Puzzle!Cells /\ c[1] \in Puzzle!Ys /\ x \in Puzzle!Xs /\ c = <<c[1], x>>
      /\ grid[c] = Puzzle!Empty
  BY DEF Puzzle!Holes, Puzzle!Cells
<1>2. 0 \in Puzzle!Ys /\ PUZZLE_H \in Nat
  BY <1>1 DEF Puzzle!Ys, PuzzleBoard
<1>3. IsFiniteSet(Puzzle!Ys) /\ Cardinality(Puzzle!Ys) = PUZZLE_H
  <2>1. 0 \in Int /\ PUZZLE_H - 1 \in Int /\ ~(0 > PUZZLE_H - 1) /\ (PUZZLE_H - 1) - 0 + 1 = PUZZLE_H
    BY <1>2 DEF Puzzle!Ys
  <2> QED
    BY <2>1, FS_Interval DEF Puzzle!Ys
<1>4. G \subseteq Puzzle!Ys /\ c[1] \notin G
  BY <1>1 DEF Puzzle!GemsInColumn
<1> HIDE DEF G
<1>5. IsFiniteSet(G) /\ Cardinality(G) \in Nat /\ Cardinality(G) < PUZZLE_H
  <2>1. IsFiniteSet(G) /\ Cardinality(G) <= Cardinality(Puzzle!Ys)
        /\ (Cardinality(G) = Cardinality(Puzzle!Ys) => G = Puzzle!Ys)
    BY <1>3, <1>4, FS_Subset
  <2>2. Cardinality(G) \in Nat
    BY <2>1, FS_CardinalityType
  <2>3. G # Puzzle!Ys
    BY <1>1, <1>4
  <2> QED
    BY <1>2, <1>3, <2>1, <2>2, <2>3
<1>6. Puzzle!Source(grid, 0, x) = {}
  <2> SUFFICES ASSUME NEW r \in G,
                      Puzzle!Cardinality({q \in G : q > r}) = PUZZLE_H - 1 - 0
               PROVE  FALSE
    BY DEF Puzzle!Source, G
  <2> DEFINE B == {q \in G : q > r}
  <2>1. B \subseteq G /\ r \notin B
    BY <1>4 DEF Puzzle!Ys
  <2>2. Cardinality(B) = PUZZLE_H - 1 - 0
    BY SameCardinality
  <2> HIDE DEF B
  <2>3. IsFiniteSet(B)
    BY <1>5, <2>1, FS_Subset
  <2>4. IsFiniteSet(B \cup {r}) /\ Cardinality(B \cup {r}) = Cardinality(B) + 1
    BY <2>1, <2>3, FS_AddElement
  <2>5. Cardinality(B \cup {r}) <= Cardinality(G)
    <3>1. B \cup {r} \subseteq G
      BY <2>1
    <3> QED
      BY <1>5, <3>1, FS_Subset
  <2> QED
    BY <1>2, <1>5, <2>2, <2>4, <2>5
<1>7. <<0, x>> \in Puzzle!Cells
  BY <1>1, <1>2 DEF Puzzle!Cells
<1>8. Puzzle!Fallen(grid)[<<0, x>>] = Puzzle!Empty
  BY <1>6, <1>7 DEF Puzzle!Fallen
<1> QED
  BY <1>7, <1>8 DEF Puzzle!Holes

(* The longest fall is a number of passes, also on a board without holes.  *)
LEMMA LongestIs ==
    ASSUME PuzzleBoard, NEW grid
    PROVE  Puzzle!LongestFall(grid) \in Nat
<1>1. CASE Puzzle!Holes(grid) = {}
  BY <1>1 DEF Puzzle!LongestFall
<1>2. CASE Puzzle!Holes(grid) # {}
  <2> DEFINE depth == {c[1] + 1 : c \in Puzzle!Holes(Puzzle!Fallen(grid))}
             T == {n \in Nat : \E m \in depth : n + m = PUZZLE_H}
  <2>1. PICK c \in Puzzle!Holes(grid) : TRUE
    BY <1>2
  <2>2. <<0, c[2]>> \in Puzzle!Holes(Puzzle!Fallen(grid))
    BY <2>1, HolesRise
  <2>3. \A e \in Puzzle!Holes(Puzzle!Fallen(grid)) : e \in Puzzle!Cells /\ e[1] \in 0..(PUZZLE_H - 1)
    BY DEF Puzzle!Holes, Puzzle!Cells, Puzzle!Ys
  <2>4. PUZZLE_H \in Nat
    BY DEF PuzzleBoard
  <2>5. depth \subseteq 1..PUZZLE_H /\ depth # {}
    BY <2>2, <2>3, <2>4
  <2>7. Puzzle!LongestFall(grid) = Puzzle!Max(depth)
    BY <1>2 DEF Puzzle!LongestFall
  <2> HIDE DEF depth
  <2>8. T # {} /\ T \subseteq Nat
    <3>1. PICK m \in depth : m \in 1..PUZZLE_H
      BY <2>5
    <3>2. PUZZLE_H - m \in Nat /\ (PUZZLE_H - m) + m = PUZZLE_H
      BY <2>4, <3>1
    <3> QED
      BY <3>2
  <2> HIDE DEF T
  <2>9. PICK n \in T : \A m \in T : n <= m
    BY <2>8, HasLeast
  <2>10. PICK d \in depth : n + d = PUZZLE_H /\ n \in Nat
    BY <2>9 DEF T
  <2>11. ASSUME NEW m \in depth PROVE m <= d
    <3>1. m \in 1..PUZZLE_H /\ d \in 1..PUZZLE_H
      BY <2>5
    <3>2. PUZZLE_H - m \in T
      <4>1. PUZZLE_H - m \in Nat /\ (PUZZLE_H - m) + m = PUZZLE_H
        BY <2>4, <3>1
      <4> QED
        BY <4>1 DEF T
    <3>3. n <= PUZZLE_H - m
      BY <2>9, <3>2
    <3> QED
      BY <2>4, <2>10, <3>1, <3>3
  <2>12. \A m \in depth : d >= m
    BY <2>4, <2>5, <2>11
  <2>13. Puzzle!LongestFall(grid) \in depth
    BY <2>7, <2>12 DEF Puzzle!Max
  <2>14. \A m \in depth : m \in Nat
    BY <2>4, <2>5
  <2> QED
    BY <2>13, <2>14
<1> QED
  BY <1>1, <1>2

(* A swap that has been shown is made, or taken back.                      *)
LEMMA PuzzleSwaps ==
    ASSUME PuzzleBoard, NEW g, PuzzleKept(g), g.anim = "swapping", NEW k, k = Puzzle!EndSwap(g)
    PROVE  PuzzleKept(k)
<1> DEFINE grid == Puzzle!Swapped(g.grid, g.swap)
<1>1. DOMAIN g = PuzzleFields /\ Full(g.grid) /\ g.swap \in Puzzle!Cells \X Puzzle!Cells
      /\ g.selected = Puzzle!NoCell
  BY DEF PuzzleKept
<1>2. Full(grid)
  <2>1. g.swap[1] \in Puzzle!Cells /\ g.swap[2] \in Puzzle!Cells
    BY <1>1
  <2> QED
    BY <1>1, <2>1 DEF Full, Puzzle!Swapped
<1> HIDE DEF grid
<1>3. CASE Puzzle!Matched(grid) # {}
  <2>1. k = [g EXCEPT !.grid = grid, !.matched = Puzzle!Matched(grid),
                      !.swap = <<Puzzle!NoCell, Puzzle!NoCell>>,
                      !.anim = "matching", !.timer = MATCH_FRAMES]
    BY <1>3 DEF Puzzle!EndSwap, grid
  <2>2. /\ DOMAIN k = PuzzleFields /\ k.grid = grid /\ k.selected = g.selected
        /\ k.anim = "matching" /\ k.timer = MATCH_FRAMES
        /\ k.matched = Puzzle!Matched(grid) /\ k.falls = g.falls
    BY <1>1, <2>1 DEF PuzzleFields
  <2>3. MATCH_FRAMES \in Nat
    BY DEF PuzzleBoard
  <2> QED
    BY <1>1, <1>2, <1>3, <2>2, <2>3, MatchedCells DEF PuzzleKept
<1>4. CASE Puzzle!Matched(grid) = {}
  <2>1. k = [g EXCEPT !.anim = "none", !.matched = {},
                      !.swap = <<Puzzle!NoCell, Puzzle!NoCell>>]
    BY <1>4 DEF Puzzle!EndSwap, grid
  <2>2. /\ DOMAIN k = PuzzleFields /\ k.grid = g.grid /\ k.selected = g.selected
        /\ k.anim = "none" /\ k.timer = g.timer /\ k.matched = {} /\ k.falls = g.falls
    BY <1>1, <2>1 DEF PuzzleFields
  <2> QED
    BY <1>1, <2>2 DEF PuzzleKept
<1> QED
  BY <1>3, <1>4

(* A match that has been shown goes, and what is above it falls.           *)
LEMMA PuzzleCascades ==
    ASSUME PuzzleBoard, NEW g, PuzzleKept(g), g.anim = "matching", NEW k \in Puzzle!Cascade(g)
    PROVE  PuzzleKept(k)
<1> DEFINE removed == [c \in Puzzle!Cells |-> IF c \in g.matched THEN Puzzle!Empty ELSE g.grid[c]]
           down == Puzzle!Fallen(removed)
<1>1. PICK new \in [Puzzle!Holes(down) -> Puzzle!Gems] :
        k = [g EXCEPT !.grid = [c \in Puzzle!Cells |-> IF down[c] = Puzzle!Empty THEN new[c] ELSE down[c]],
                      !.matched = {}, !.anim = "falling", !.falls = Puzzle!LongestFall(removed)]
  BY DEF Puzzle!Cascade
<1> DEFINE grid == [c \in Puzzle!Cells |-> IF down[c] = Puzzle!Empty THEN new[c] ELSE down[c]]
<1>2. DOMAIN g = PuzzleFields /\ Full(g.grid) /\ g.selected = Puzzle!NoCell /\ g.timer \in Nat
  BY DEF PuzzleKept
<1>3. removed \in [Puzzle!Cells -> Puzzle!Gems \cup {Puzzle!Empty}]
  BY <1>2 DEF Full
<1> HIDE DEF removed
<1>4. down \in [Puzzle!Cells -> Puzzle!Gems \cup {Puzzle!Empty}]
  BY <1>3, GemsFall
<1> HIDE DEF down
<1>5. Full(grid)
  BY <1>1, <1>4 DEF Full, Puzzle!Holes
<1>6. Puzzle!LongestFall(removed) \in Nat
  BY LongestIs
<1>7. /\ DOMAIN k = PuzzleFields /\ k.grid = grid /\ k.selected = g.selected
      /\ k.anim = "falling" /\ k.timer = g.timer /\ k.matched = {}
      /\ k.falls = Puzzle!LongestFall(removed)
  BY <1>1, <1>2 DEF PuzzleFields
<1> HIDE DEF grid
<1> QED
  BY <1>2, <1>5, <1>6, <1>7 DEF PuzzleKept

(* A pass, in any part of the game.                                        *)
LEMMA PuzzleUpdates ==
    ASSUME PuzzleBoard, NEW g, PuzzleKept(g), NEW k \in Puzzle!game_update(g)
    PROVE  PuzzleKept(k)
<1>1. /\ DOMAIN g = PuzzleFields /\ Full(g.grid) /\ g.timer \in Nat /\ g.falls \in Nat
      /\ g.anim \in {"none", "swapping", "matching", "falling"}
  BY DEF PuzzleKept
<1> DEFINE t == [g EXCEPT !.timer = 0]
           s == [g EXCEPT !.timer = @ - 1]
<1>2. /\ DOMAIN t = PuzzleFields /\ t.grid = g.grid /\ t.selected = g.selected
      /\ t.anim = g.anim /\ t.timer = 0 /\ t.matched = g.matched /\ t.falls = g.falls
      /\ t.swap = g.swap
  BY <1>1 DEF PuzzleFields
<1>3. PuzzleKept(t)
  <2> HIDE DEF t
  <2> QED
    BY <1>2 DEF PuzzleKept
<1>4. ASSUME g.timer > 1 PROVE PuzzleKept(s)
  <2>1. /\ DOMAIN s = PuzzleFields /\ s.grid = g.grid /\ s.selected = g.selected
        /\ s.anim = g.anim /\ s.timer = g.timer - 1 /\ s.matched = g.matched /\ s.falls = g.falls
        /\ s.swap = g.swap
    BY <1>1 DEF PuzzleFields
  <2> HIDE DEF s
  <2>2. s.timer \in Nat
    BY <1>1, <1>4, <2>1
  <2> QED
    BY <2>1, <2>2 DEF PuzzleKept
<1> HIDE DEF s, t
<1>5. CASE g.anim = "none"
  <2>1. k = g
    BY <1>5 DEF Puzzle!game_update
  <2> QED
    BY <2>1
<1>6. CASE g.anim = "swapping"
  <2>1. k = IF g.timer > 1 THEN s ELSE Puzzle!EndSwap(t)
    BY <1>6 DEF Puzzle!game_update, s, t
  <2> QED
    BY <1>2, <1>3, <1>4, <1>6, <2>1, PuzzleSwaps
<1>7. CASE g.anim = "matching"
  <2>1. IF g.timer > 1 THEN k = s ELSE k \in Puzzle!Cascade(t)
    BY <1>7 DEF Puzzle!game_update, s, t
  <2> QED
    BY <1>2, <1>3, <1>4, <1>7, <2>1, PuzzleCascades
<1>8. CASE g.anim = "falling"
  <2>1. k = IF g.falls > 0 THEN [g EXCEPT !.falls = @ - 1] ELSE Puzzle!EndFall(g)
    BY <1>8 DEF Puzzle!game_update
  <2>2. CASE g.falls > 0
    <3>1. /\ DOMAIN k = PuzzleFields /\ k.grid = g.grid /\ k.selected = g.selected
          /\ k.anim = g.anim /\ k.timer = g.timer /\ k.matched = g.matched /\ k.falls = g.falls - 1
          /\ k.swap = g.swap
      BY <1>1, <2>1, <2>2 DEF PuzzleFields
    <3>2. k.falls \in Nat
      BY <1>1, <2>2, <3>1
    <3> QED
      BY <3>1, <3>2 DEF PuzzleKept
  <2>3. CASE ~(g.falls > 0) /\ Puzzle!Matched(g.grid) # {}
    <3>1. /\ DOMAIN k = PuzzleFields /\ k.grid = g.grid /\ k.selected = g.selected
          /\ k.anim = "matching" /\ k.timer = MATCH_FRAMES
          /\ k.matched = Puzzle!Matched(g.grid) /\ k.falls = g.falls
      BY <1>1, <2>1, <2>3 DEF PuzzleFields, Puzzle!EndFall
    <3>2. MATCH_FRAMES \in Nat
      BY DEF PuzzleBoard
    <3> QED
      BY <1>8, <2>3, <3>1, <3>2, MatchedCells DEF PuzzleKept
  <2>4. CASE ~(g.falls > 0) /\ Puzzle!Matched(g.grid) = {}
    <3>1. /\ DOMAIN k = PuzzleFields /\ k.grid = g.grid /\ k.selected = g.selected
          /\ k.anim = "none" /\ k.timer = g.timer /\ k.matched = {} /\ k.falls = g.falls
      BY <1>1, <2>1, <2>4 DEF PuzzleFields, Puzzle!EndFall
    <3> QED
      BY <1>8, <2>4, <3>1 DEF PuzzleKept
  <2> QED
    BY <2>2, <2>3, <2>4
<1> QED
  BY <1>1, <1>5, <1>6, <1>7, <1>8

(* Every step of the game keeps the invariant.                             *)
LEMMA PuzzleStep == ASSUME PuzzleBoard, PuzzleInv, Puzzle!Next PROVE PuzzleInv'
<1>1. PuzzleKept(game) /\ DOMAIN game = PuzzleFields
  BY DEF PuzzleInv, PuzzleKept
<1>2. CASE Puzzle!Update
  <2>1. game' \in Puzzle!game_update(game)
    BY <1>2 DEF Puzzle!Update
  <2> QED
    BY <1>1, <2>1, PuzzleUpdates DEF PuzzleInv
<1>3. CASE Puzzle!Pause
  <2>1. /\ DOMAIN game' = PuzzleFields /\ game'.grid = game.grid /\ game'.selected = game.selected
        /\ game'.anim = game.anim /\ game'.timer = game.timer /\ game'.matched = game.matched
        /\ game'.falls = game.falls /\ game'.swap = game.swap
    BY <1>1, <1>3 DEF PuzzleFields, Puzzle!Pause
  <2> QED
    BY <1>1, <2>1 DEF PuzzleInv, PuzzleKept
<1>4. ASSUME NEW c \in Puzzle!Cells, Puzzle!Select(c) PROVE PuzzleInv'
  <2>1. game.anim = "none"
    BY <1>4 DEF Puzzle!Select
  <2>2. CASE game.selected = Puzzle!NoCell
    <3>1. game' = [game EXCEPT !.selected = c]
      BY <1>4, <2>2 DEF Puzzle!Select
    <3>2. /\ DOMAIN game' = PuzzleFields /\ game'.grid = game.grid /\ game'.selected = c
          /\ game'.anim = game.anim /\ game'.timer = game.timer /\ game'.matched = game.matched
          /\ game'.falls = game.falls /\ game'.swap = game.swap
      BY <1>1, <3>1 DEF PuzzleFields
    <3> QED
      BY <1>1, <2>1, <3>2 DEF PuzzleInv, PuzzleKept
  <2>3. CASE game.selected # Puzzle!NoCell /\ Puzzle!Neighbours(c, game.selected)
    <3>1. game' = [game EXCEPT !.selected = Puzzle!NoCell, !.swap = <<game.selected, c>>,
                               !.anim = "swapping", !.timer = ANIM_SWAP_FRAMES]
      BY <1>4, <2>3 DEF Puzzle!Select
    <3>2. /\ DOMAIN game' = PuzzleFields /\ game'.grid = game.grid /\ game'.selected = Puzzle!NoCell
          /\ game'.anim = "swapping" /\ game'.timer = ANIM_SWAP_FRAMES /\ game'.matched = game.matched
          /\ game'.falls = game.falls /\ game'.swap = <<game.selected, c>>
      BY <1>1, <3>1 DEF PuzzleFields
    <3>3. <<game.selected, c>> \in Puzzle!Cells \X Puzzle!Cells /\ ANIM_SWAP_FRAMES \in Nat
      BY <1>1, <2>3 DEF PuzzleKept, PuzzleBoard
    <3> QED
      BY <1>1, <2>1, <3>2, <3>3 DEF PuzzleInv, PuzzleKept
  <2>4. CASE game.selected # Puzzle!NoCell /\ ~Puzzle!Neighbours(c, game.selected)
    <3>1. game' = [game EXCEPT !.selected = Puzzle!NoCell]
      BY <1>4, <2>4 DEF Puzzle!Select
    <3>2. /\ DOMAIN game' = PuzzleFields /\ game'.grid = game.grid /\ game'.selected = Puzzle!NoCell
          /\ game'.anim = game.anim /\ game'.timer = game.timer /\ game'.matched = game.matched
          /\ game'.falls = game.falls /\ game'.swap = game.swap
      BY <1>1, <3>1 DEF PuzzleFields
    <3> QED
      BY <1>1, <2>1, <3>2 DEF PuzzleInv, PuzzleKept
  <2> QED
    BY <2>2, <2>3, <2>4
<1> QED
  BY <1>2, <1>3, <1>4 DEF Puzzle!Next, Puzzle!input_process

(* The invariant holds when a game begins.                                 *)
LEMMA PuzzleInit == ASSUME PuzzleBoard, Puzzle!Init PROVE PuzzleInv
<1>1. PICK grid \in Puzzle!Filled : game = Puzzle!game_init(grid)
  BY DEF Puzzle!Init
<1>2. Full(grid) /\ Puzzle!Matched(grid) = {}
  BY DEF Full, Puzzle!Filled
<1>3. /\ DOMAIN game = PuzzleFields /\ game.grid = grid /\ game.selected = Puzzle!NoCell
      /\ game.anim = "none" /\ game.timer = 0 /\ game.matched = {} /\ game.falls = 0
  BY <1>1 DEF PuzzleFields, Puzzle!game_init
<1> QED
  BY <1>2, <1>3 DEF PuzzleInv, PuzzleKept

(* When it is the player's turn in drm-puzzle.c, the board is full and has *)
(* no match left, however the gems fell; a match is shown only where there *)
(* is one; and nothing is selected while gems move.                        *)
THEOREM PuzzleCorrect ==
    ASSUME PuzzleBoard
    PROVE  Puzzle!Spec => [](Puzzle!TypeOK /\ Puzzle!BoardSettled /\ Puzzle!SelectionStill)
<1>1. Puzzle!Init => PuzzleInv
  BY PuzzleInit
<1>2. PuzzleInv /\ [Puzzle!Next]_game => PuzzleInv'
  BY PuzzleStep DEF PuzzleInv
<1>3. PuzzleInv => Puzzle!TypeOK /\ Puzzle!BoardSettled /\ Puzzle!SelectionStill
  <2> SUFFICES ASSUME PuzzleInv
               PROVE  Puzzle!TypeOK /\ Puzzle!BoardSettled /\ Puzzle!SelectionStill
    OBVIOUS
  <2>1. Full(game.grid)
    BY DEF PuzzleInv, PuzzleKept
  <2>2. game.grid \in [Puzzle!Cells -> Puzzle!Gems \cup {Puzzle!Empty}]
    BY <2>1 DEF Full
  <2>3. Puzzle!Holes(game.grid) = {}
    BY <2>1, FullBoard
  <2> QED
    BY <2>2, <2>3 DEF PuzzleInv, PuzzleKept, Puzzle!TypeOK, Puzzle!BoardSettled,
                      Puzzle!SelectionStill
<1> QED
  BY <1>1, <1>2, <1>3, PTL DEF Puzzle!Spec

-----------------------------------------------------------------------------
(* Tetris.                                                                 *)
Below(full, r) == Cardinality({f \in full : f > r})
Fallen(board, full) == {<<c[1] + Below(full, c[1]), c[2]>> : c \in {d \in board : d[1] \notin full}}

(* The cells of the well can be counted.                                   *)
LEMMA WellFinite ==
    ASSUME TetrisWell
    PROVE  /\ IsFiniteSet(Tetris!Rows) /\ IsFiniteSet(Tetris!Cols)
           /\ Cardinality(Tetris!Cols) = BOARD_WIDTH /\ Tetris!Cols # {}
           /\ \A b \in SUBSET (Tetris!Rows \X Tetris!Cols) : IsFiniteSet(b) /\ Cardinality(b) \in Nat
           /\ \A f \in SUBSET Tetris!Rows : IsFiniteSet(f) /\ Cardinality(f) \in Nat
<1>1. IsFiniteSet(Tetris!Rows)
  BY FS_Interval DEF Tetris!Rows, TetrisWell
<1>2. IsFiniteSet(Tetris!Cols) /\ Cardinality(Tetris!Cols) = BOARD_WIDTH
  <2>1. 0 \in Int /\ BOARD_WIDTH - 1 \in Int /\ ~(0 > BOARD_WIDTH - 1)
        /\ (BOARD_WIDTH - 1) - 0 + 1 = BOARD_WIDTH
    BY DEF TetrisWell
  <2> QED
    BY <2>1, FS_Interval DEF Tetris!Cols
<1>3. 0 \in Tetris!Cols
  BY DEF Tetris!Cols, TetrisWell
<1>4. IsFiniteSet(Tetris!Rows \X Tetris!Cols)
  BY <1>1, <1>2, FS_Product
<1>5. \A b \in SUBSET (Tetris!Rows \X Tetris!Cols) : IsFiniteSet(b)
  BY <1>4, FS_Subset
<1>6. \A f \in SUBSET Tetris!Rows : IsFiniteSet(f)
  BY <1>1, FS_Subset
<1> QED
  BY <1>1, <1>2, <1>3, <1>5, <1>6, FS_CardinalityType

(* A row comes down inside the well, and the rows keep their order.        *)
LEMMA RowsShift ==
    ASSUME TetrisWell, NEW full, full \subseteq Tetris!Rows
    PROVE  /\ \A r \in Tetris!Rows : Below(full, r) \in Nat /\ r + Below(full, r) \in Tetris!Rows
           /\ \A r, s \in Tetris!Rows :
                 r < s /\ s \notin full => r + Below(full, r) < s + Below(full, s)
<1> DEFINE A(r) == {f \in full : f > r}
<1>1. \A r : A(r) \subseteq Tetris!Rows
  OBVIOUS
<1>2. \A r : IsFiniteSet(A(r)) /\ Cardinality(A(r)) \in Nat
  BY <1>1, WellFinite
<1>3. ASSUME NEW r \in Tetris!Rows PROVE Below(full, r) \in Nat /\ r + Below(full, r) \in Tetris!Rows
  <2> DEFINE I == (r + 1)..(BOARD_HEIGHT - 1)
  <2>1. r \in Int /\ 0 <= r /\ r <= BOARD_HEIGHT - 1 /\ BOARD_HEIGHT \in Int
    BY DEF Tetris!Rows, TetrisWell
  <2>2. A(r) \subseteq I
    <3> SUFFICES ASSUME NEW f \in full, f > r PROVE f \in I
      OBVIOUS
    <3>1. f \in Int /\ f <= BOARD_HEIGHT - 1
      BY <2>1 DEF Tetris!Rows
    <3> QED
      BY <2>1, <3>1
  <2>3. r + 1 \in Int /\ BOARD_HEIGHT - 1 \in Int
    BY <2>1
  <2>4. IsFiniteSet(I) /\ Cardinality(I) = IF r + 1 > BOARD_HEIGHT - 1 THEN 0
                                           ELSE (BOARD_HEIGHT - 1) - (r + 1) + 1
    BY <2>3, FS_Interval
  <2> HIDE DEF I, A
  <2>5. Cardinality(A(r)) <= Cardinality(I)
    BY <2>2, <2>4, FS_Subset
  <2>6. Cardinality(A(r)) \in Nat /\ r + Cardinality(A(r)) <= BOARD_HEIGHT - 1
    BY <1>2, <2>1, <2>4, <2>5
  <2>7. r + Cardinality(A(r)) \in Tetris!Rows
    BY <2>1, <2>6 DEF Tetris!Rows
  <2> QED
    BY <2>6, <2>7 DEF Below, A
<1>4. ASSUME NEW r \in Tetris!Rows, NEW s \in Tetris!Rows, r < s, s \notin full
      PROVE  r + Below(full, r) < s + Below(full, s)
  <2> DEFINE I == (r + 1)..(s - 1)
  <2>1. r \in Int /\ s \in Int
    BY DEF Tetris!Rows
  <2>2. A(r) \subseteq A(s) \cup I
    BY <1>1, <1>4, <2>1 DEF Tetris!Rows
  <2>3. r + 1 \in Int /\ s - 1 \in Int
    BY <2>1
  <2>4. IsFiniteSet(I) /\ Cardinality(I) = IF r + 1 > s - 1 THEN 0 ELSE (s - 1) - (r + 1) + 1
    BY <2>3, FS_Interval
  <2>5. Cardinality(I) = s - r - 1
    <3> HIDE DEF I
    <3> QED
      BY <1>4, <2>1, <2>4
  <2> HIDE DEF I, A
  <2>6. /\ IsFiniteSet(A(s) \cup I)
        /\ Cardinality(A(s) \cup I) = Cardinality(A(s)) + Cardinality(I) - Cardinality(A(s) \cap I)
    BY <1>2, <2>4, FS_Union
  <2>7. Cardinality(A(s) \cap I) \in Nat
    <3>1. IsFiniteSet(A(s) \cap I)
      BY <1>2, FS_Intersection
    <3> QED
      BY <3>1, FS_CardinalityType
  <2>8. Cardinality(A(r)) <= Cardinality(A(s) \cup I)
    BY <2>2, <2>6, FS_Subset
  <2>9. Cardinality(A(r)) \in Nat /\ Cardinality(A(s)) \in Nat
    BY <1>2
  <2>10. Cardinality(A(r)) <= Cardinality(A(s)) + (s - r - 1)
    BY <2>1, <2>5, <2>6, <2>7, <2>8, <2>9
  <2>11. r + Cardinality(A(r)) < s + Cardinality(A(s))
    BY <2>1, <2>9, <2>10
  <2> QED
    BY <2>11 DEF Below, A
<1> QED
  BY <1>3, <1>4

(* Full lines go, and what is left comes down: no cell is lost or doubled, *)
(* and no line is full.                                                    *)
LEMMA LinesClear ==
    ASSUME TetrisWell, NEW board, board \subseteq Tetris!Rows \X Tetris!Cols,
           NEW full, full = Tetris!FullRows(board),
           NEW after, after = Fallen(board, full)
    PROVE  /\ after \subseteq Tetris!Rows \X Tetris!Cols
           /\ Cardinality(after) = Cardinality(board) - Cardinality(full) * BOARD_WIDTH
           /\ Tetris!FullRows(after) = {}
<1> DEFINE left == {d \in board : d[1] \notin full}
           gone == {d \in board : d[1] \in full}
           to(c) == <<c[1] + Below(full, c[1]), c[2]>>
           f == [c \in left |-> to(c)]
<1>1. full \subseteq Tetris!Rows /\ \A r \in full : \A x \in Tetris!Cols : <<r, x>> \in board
  BY DEF Tetris!FullRows
<1>2. \A c \in board : c[1] \in Tetris!Rows /\ c[2] \in Tetris!Cols /\ c = <<c[1], c[2]>>
  OBVIOUS
<1>3. \A c \in left : c \in board /\ c[1] \notin full
  OBVIOUS
<1>4. after = {to(c) : c \in left}
  BY DEF Fallen
<1>5. \A r \in Tetris!Rows : Below(full, r) \in Nat /\ r + Below(full, r) \in Tetris!Rows
  BY <1>1, RowsShift
<1>6. \A r, s \in Tetris!Rows : s \notin full /\ r \notin full /\ r + Below(full, r) = s + Below(full, s)
                                => r = s
  <2>1. \A r, s \in Tetris!Rows : r < s /\ s \notin full => r + Below(full, r) < s + Below(full, s)
    BY <1>1, RowsShift
  <2> SUFFICES ASSUME NEW r \in Tetris!Rows, NEW s \in Tetris!Rows, r \notin full, s \notin full,
                      r + Below(full, r) = s + Below(full, s)
               PROVE  r = s
    OBVIOUS
  <2>2. r \in Int /\ s \in Int /\ Below(full, r) \in Int /\ Below(full, s) \in Int
    BY <1>5 DEF Tetris!Rows
  <2>3. ~(r < s) /\ ~(s < r)
    BY <2>1, <2>2
  <2> QED
    BY <2>2, <2>3
<1>7. after \subseteq Tetris!Rows \X Tetris!Cols
  BY <1>2, <1>3, <1>4, <1>5
<1>8. IsFiniteSet(board) /\ Cardinality(board) \in Nat /\ IsFiniteSet(full) /\ Cardinality(full) \in Nat
  BY <1>1, WellFinite
<1>9. Cardinality(after) = Cardinality(left)
  <2>1. IsFiniteSet(left)
    BY <1>8, FS_Subset
  <2>2. \A c, d \in left : to(c) = to(d) => c = d
    <3> SUFFICES ASSUME NEW c \in left, NEW d \in left, to(c) = to(d) PROVE c = d
      OBVIOUS
    <3>1. c[1] + Below(full, c[1]) = d[1] + Below(full, d[1]) /\ c[2] = d[2]
      OBVIOUS
    <3> HIDE DEF left, to
    <3>2. c[1] = d[1]
      BY <1>2, <1>3, <1>6, <3>1
    <3> QED
      BY <1>2, <1>3, <3>1, <3>2
  <2> HIDE DEF left, to
  <2>3. f \in [left -> after] /\ \A c \in left : f[c] = to(c)
    BY <1>4
  <2>4. f \in Bijection(left, after)
    BY <1>4, <2>2, <2>3 DEF Bijection, Injection, Surjection, IsInjective
  <2> HIDE DEF f
  <2> QED
    BY <2>1, <2>4, SameBijection
<1>10. Cardinality(gone) = Cardinality(full) * BOARD_WIDTH
  <2>1. gone = full \X Tetris!Cols
    BY <1>1, <1>2
  <2> HIDE DEF gone
  <2> QED
    BY <1>8, <2>1, WellFinite, FS_Product
<1>11. Cardinality(left) = Cardinality(board) - Cardinality(gone)
  <2>1. left = board \ gone /\ board \cap gone = gone
    OBVIOUS
  <2> HIDE DEF left, gone
  <2>2. Cardinality(board \ gone) = Cardinality(board) - Cardinality(board \cap gone)
    BY <1>8, FS_Difference
  <2> QED
    BY <2>1, <2>2
<1>12. Tetris!FullRows(after) = {}
  <2> SUFFICES ASSUME NEW q \in Tetris!Rows, \A x \in Tetris!Cols : <<q, x>> \in after PROVE FALSE
    BY DEF Tetris!FullRows
  <2>1. \A x \in Tetris!Cols : \E c \in left : <<q, x>> = to(c)
    BY <1>4
  <2>2. \A x \in Tetris!Cols :
          \E r \in Tetris!Rows : r \notin full /\ q = r + Below(full, r) /\ <<r, x>> \in board
    <3> SUFFICES ASSUME NEW x \in Tetris!Cols
                 PROVE  \E r \in Tetris!Rows :
                           r \notin full /\ q = r + Below(full, r) /\ <<r, x>> \in board
      OBVIOUS
    <3>1. PICK c \in left : <<q, x>> = to(c)
      BY <2>1
    <3>2. q = c[1] + Below(full, c[1]) /\ x = c[2]
      BY <3>1
    <3> HIDE DEF left, to
    <3> QED
      BY <1>2, <1>3, <3>2
  <2>3. PICK y \in Tetris!Cols : TRUE
    BY WellFinite
  <2>4. PICK r \in Tetris!Rows : r \notin full /\ q = r + Below(full, r)
    BY <2>2, <2>3
  <2>5. \A x \in Tetris!Cols : <<r, x>> \in board
    BY <1>6, <2>2, <2>4
  <2>6. r \in full
    BY <2>5 DEF Tetris!FullRows
  <2> QED
    BY <2>4, <2>6
<1> QED
  BY <1>7, <1>9, <1>10, <1>11, <1>12

TetrisFields ==
    {"board", "current", "next", "lines", "level", "drop_timer", "drop_speed", "soft_drop",
     "das_timer", "das_dir", "paused", "over", "cells"}

Pieces == [type : Tetris!Types, rotation : 0..3, x : Int, y : Int]

(* The board and what was cleared from it.                                 *)
WellKept(g) ==
    /\ g.board \subseteq Tetris!Rows \X Tetris!Cols
    /\ Cardinality(g.board) = g.cells /\ Tetris!FullRows(g.board) = {}
    /\ g.lines \in Nat /\ g.level = g.lines \div LINES_PER_LEVEL + 1
    /\ g.drop_speed = Tetris!Speed(g.level)

PieceKept(g) ==
    /\ g.current \in Pieces /\ g.current.y >= -1 /\ g.next \in Tetris!Types
    /\ g.over \/ Tetris!piece_fits(g, g.current)

TetrisKept(g) ==
    /\ DOMAIN g = TetrisFields
    /\ WellKept(g)
    /\ PieceKept(g)
    /\ g.drop_timer \in Nat /\ g.das_timer \in Nat /\ g.das_dir \in {-1, 0, 1}

TetrisInv == TetrisKept(game) /\ read \in 0..MaxEvents

(* The cells of a piece lie below its corner.                              *)
LEMMA PieceCells ==
    ASSUME TetrisShapes, NEW p \in Pieces
    PROVE  /\ Tetris!Cells(p) # {} /\ IsFiniteSet(Tetris!Cells(p))
           /\ \A c \in Tetris!Cells(p) : c = <<c[1], c[2]>> /\ c[1] \in Int /\ c[2] \in Int
                                         /\ c[1] >= p.y
<1> DEFINE S == SHAPES[p.type][p.rotation]
           f == [s \in S |-> <<p.y + s[1], p.x + s[2]>>]
<1>1. S # {} /\ IsFiniteSet(S) /\ S \subseteq Nat \X Nat
  BY DEF TetrisShapes, Pieces
<1>2. p.x \in Int /\ p.y \in Int
  BY DEF Pieces
<1>3. Tetris!Cells(p) = {<<p.y + s[1], p.x + s[2]>> : s \in S}
  BY DEF Tetris!Cells
<1> HIDE DEF S
<1>4. IsFiniteSet(Tetris!Cells(p))
  <2>1. Tetris!Cells(p) = {f[s] : s \in S} /\ DOMAIN f = S /\ f = [s \in S |-> f[s]]
    BY <1>3
  <2> HIDE DEF f
  <2> QED
    BY <1>1, <2>1, AtMostAsMany
<1>5. \A s \in S : s[1] \in Nat /\ s[2] \in Nat
  BY <1>1
<1>6. \A s \in S : p.y + s[1] \in Int /\ p.x + s[2] \in Int /\ p.y + s[1] >= p.y
  BY <1>2, <1>5
<1>7. Tetris!Cells(p) # {}
  <2>1. PICK s \in S : TRUE
    BY <1>1
  <2>2. <<p.y + s[1], p.x + s[2]>> \in Tetris!Cells(p)
    BY <1>3
  <2> QED
    BY <2>2
<1>8. ASSUME NEW c \in Tetris!Cells(p)
      PROVE  c = <<c[1], c[2]>> /\ c[1] \in Int /\ c[2] \in Int /\ c[1] >= p.y
  <2>1. PICK s \in S : c = <<p.y + s[1], p.x + s[2]>>
    BY <1>3
  <2>2. p.y + s[1] \in Int /\ p.x + s[2] \in Int /\ p.y + s[1] >= p.y
    BY <1>6
  <2>3. c[1] = p.y + s[1] /\ c[2] = p.x + s[2]
    BY <2>1
  <2> QED
    BY <2>1, <2>2, <2>3
<1> QED
  BY <1>4, <1>7, <1>8

(* A piece that is shifted, lowered or turned is a piece.                  *)
LEMMA PieceGoes ==
    ASSUME NEW p \in Pieces, NEW d \in Int
    PROVE  /\ Tetris!Shifted(p, d) \in Pieces /\ Tetris!Shifted(p, d).y = p.y
           /\ Tetris!Lowered(p, d) \in Pieces /\ Tetris!Lowered(p, d).y = p.y + d
           /\ Tetris!Lowered(p, 0) = p
           /\ [p EXCEPT !.rotation = (@ + 1) % 4] \in Pieces
           /\ [p EXCEPT !.rotation = (@ + 1) % 4].y = p.y
<1>1. PICK t \in Tetris!Types, r \in 0..3, x \in Int, y \in Int :
        p = [type |-> t, rotation |-> r, x |-> x, y |-> y]
  BY DEF Pieces
<1>2. x + d \in Int /\ y + d \in Int /\ y + 0 = y
  OBVIOUS
<1>3. (r + 1) % 4 \in 0..3
  OBVIOUS
<1>4. Tetris!Shifted(p, d) = [type |-> t, rotation |-> r, x |-> x + d, y |-> y]
  BY <1>1 DEF Tetris!Shifted
<1>5. Tetris!Lowered(p, d) = [type |-> t, rotation |-> r, x |-> x, y |-> y + d]
  BY <1>1 DEF Tetris!Lowered
<1>6. Tetris!Lowered(p, 0) = [type |-> t, rotation |-> r, x |-> x, y |-> y + 0]
  BY <1>1 DEF Tetris!Lowered
<1>7. [p EXCEPT !.rotation = (@ + 1) % 4] = [type |-> t, rotation |-> (r + 1) % 4, x |-> x, y |-> y]
  BY <1>1
<1>8. p.y = y
  BY <1>1
<1>9. Tetris!Lowered(p, 0) = p
  BY <1>1, <1>2, <1>6
<1>10. Tetris!Shifted(p, d) \in Pieces /\ Tetris!Shifted(p, d).y = p.y
  BY <1>2, <1>4, <1>8 DEF Pieces
<1>11. Tetris!Lowered(p, d) \in Pieces /\ Tetris!Lowered(p, d).y = p.y + d
  BY <1>2, <1>5, <1>8 DEF Pieces
<1>12. [type |-> t, rotation |-> (r + 1) % 4, x |-> x, y |-> y] \in Pieces
  BY <1>3 DEF Pieces
<1> QED
  BY <1>7, <1>8, <1>9, <1>10, <1>11, <1>12

(* What fits depends on the board alone.                                   *)
LEMMA FitsBoard ==
    ASSUME NEW g, NEW h, h.board = g.board, NEW p
    PROVE  Tetris!piece_fits(h, p) <=> Tetris!piece_fits(g, p)
BY DEF Tetris!piece_fits

(* A new piece fits in the empty well.                                     *)
LEMMA NewPieceFits ==
    ASSUME TetrisWell, TetrisShapes, NEW t \in Tetris!Types, NEW g, g.board = {}
    PROVE  /\ Tetris!Fresh(t) \in Pieces /\ Tetris!Fresh(t).y >= -1
           /\ Tetris!piece_fits(g, Tetris!Fresh(t))
<1> DEFINE p == Tetris!Fresh(t)
           x == BOARD_WIDTH \div 2 - 2
<1>1. x \in Int /\ 0 \in 0..3 /\ -1 \in Int
  BY DEF TetrisWell
<1>2. p = [type |-> t, rotation |-> 0, x |-> x, y |-> -1]
  BY DEF Tetris!Fresh
<1>3. p \in Pieces /\ p.y = -1 /\ p.x = x /\ p.type = t /\ p.rotation = 0
  BY <1>1, <1>2 DEF Pieces
<1> HIDE DEF p
<1>4. ASSUME NEW c \in Tetris!Cells(p)
      PROVE  c[2] \in Tetris!Cols /\ c[1] < BOARD_HEIGHT /\ c \notin g.board
  <2>1. PICK s \in SHAPES[t][0] : c = <<p.y + s[1], p.x + s[2]>>
    BY <1>3 DEF Tetris!Cells
  <2>2. s[1] - 1 < BOARD_HEIGHT /\ x + s[2] \in Tetris!Cols /\ s[1] \in Nat
    <3>1. SHAPES[t][0] \subseteq Nat \X Nat
      BY DEF TetrisShapes
    <3>2. s[1] - 1 < BOARD_HEIGHT /\ x + s[2] \in Tetris!Cols
      BY DEF TetrisShapes
    <3> QED
      BY <3>1, <3>2
  <2>3. -1 + s[1] < BOARD_HEIGHT
    BY <2>2 DEF TetrisWell
  <2> HIDE DEF x
  <2> QED
    BY <1>3, <2>1, <2>2, <2>3
<1>5. Tetris!piece_fits(g, p)
  BY <1>4 DEF Tetris!piece_fits
<1>6. p.y >= -1
  BY <1>3
<1> QED
  BY <1>3, <1>5, <1>6 DEF p

(* A piece that lies free comes to rest on something.                      *)
LEMMA PieceDrops ==
    ASSUME TetrisWell, TetrisShapes, NEW g, g.current \in Pieces, g.current.y >= -1,
           Tetris!piece_fits(g, g.current)
    PROVE  /\ Tetris!Drop(g) \in Pieces /\ Tetris!Drop(g).y >= -1
           /\ Tetris!piece_fits(g, Tetris!Drop(g))
<1> DEFINE p == g.current
           F(n) == Tetris!piece_fits(g, Tetris!Lowered(p, n))
           T == {n \in Nat : ~F(n + 1)}
           D == {n \in 0..BOARD_HEIGHT + 1 : (\A m \in 1..n : F(m)) /\ ~F(n + 1)}
           d == CHOOSE n \in 0..BOARD_HEIGHT + 1 : (\A m \in 1..n : F(m)) /\ ~F(n + 1)
<1>1. BOARD_HEIGHT \in Nat
  BY DEF TetrisWell
<1>2. BOARD_HEIGHT + 1 \in T
  <2> DEFINE q == Tetris!Lowered(p, BOARD_HEIGHT + 1 + 1)
  <2>1. BOARD_HEIGHT + 1 + 1 \in Int
    BY <1>1
  <2>2. q \in Pieces /\ q.y = p.y + (BOARD_HEIGHT + 1 + 1)
    BY <2>1, PieceGoes
  <2>3. PICK c \in Tetris!Cells(q) : c[1] \in Int /\ c[1] >= q.y
    BY <2>2, PieceCells
  <2>4. p.y \in Int
    BY DEF Pieces
  <2>5. q.y >= BOARD_HEIGHT + 1 /\ q.y \in Int
    BY <1>1, <2>2, <2>4
  <2>6. ~(c[1] < BOARD_HEIGHT)
    BY <1>1, <2>3, <2>5
  <2> HIDE DEF q
  <2>7. ~Tetris!piece_fits(g, q)
    BY <2>3, <2>6 DEF Tetris!piece_fits
  <2> QED
    BY <1>1, <2>7 DEF q
<1>3. T \subseteq Nat /\ T # {}
  BY <1>2
<1>4. PICK n \in T : \A m \in T : n <= m
  <2> HIDE DEF T
  <2> QED
    BY <1>3, HasLeast
<1>5. n \in Nat /\ n <= BOARD_HEIGHT + 1 /\ ~F(n + 1)
  BY <1>2, <1>4
<1>6. ASSUME NEW m \in 1..n PROVE F(m)
  <2>1. m \in Nat /\ m - 1 \in Nat /\ (m - 1) + 1 = m /\ ~(n <= m - 1)
    BY <1>5
  <2>2. m - 1 \notin T
    BY <1>4, <2>1
  <2> HIDE DEF F
  <2> QED
    BY <2>1, <2>2
<1>7. n \in 0..BOARD_HEIGHT + 1
  BY <1>1, <1>5
<1> HIDE DEF F
<1>8. d \in 0..BOARD_HEIGHT + 1 /\ (\A m \in 1..d : F(m))
  BY <1>5, <1>6, <1>7
<1>9. Tetris!Drop(g) = Tetris!Lowered(p, d)
  BY DEF Tetris!Drop, F
<1> HIDE DEF d
<1>10. d \in Int /\ d >= 0 /\ (d = 0 \/ d \in 1..d)
  BY <1>1, <1>8
<1>11. Tetris!Lowered(p, d) \in Pieces /\ Tetris!Lowered(p, d).y = p.y + d
       /\ Tetris!Lowered(p, 0) = p
  BY <1>10, PieceGoes
<1>12. p.y \in Int
  BY DEF Pieces
<1>13. F(d)
  <2>1. CASE d = 0
    BY <1>11, <2>1 DEF F
  <2>2. CASE d \in 1..d
    BY <1>8, <2>2
  <2> QED
    BY <1>10, <2>1, <2>2
<1>14. Tetris!Drop(g).y >= -1
  <2> HIDE DEF p
  <2>1. p.y >= -1
    BY DEF p
  <2> QED
    BY <1>9, <1>10, <1>11, <1>12, <2>1
<1> QED
  BY <1>9, <1>11, <1>13, <1>14 DEF F

(* The level sets the speed, and the game begins at the slowest.           *)
LEMMA SpeedIs ==
    ASSUME TetrisWell, NEW lines \in Nat
    PROVE  /\ lines \div LINES_PER_LEVEL + 1 \in Nat /\ Tetris!Speed(lines \div LINES_PER_LEVEL + 1) \in Nat
           /\ 0 \div LINES_PER_LEVEL + 1 = 1 /\ Tetris!Speed(1) = INITIAL_DROP_FRAMES
<1>1. LINES_PER_LEVEL \in Nat \ {0} /\ INITIAL_DROP_FRAMES \in Nat /\ MIN_DROP_FRAMES \in Nat
      /\ MIN_DROP_FRAMES <= INITIAL_DROP_FRAMES /\ DROP_STEP \in Nat
  BY DEF TetrisWell
<1>2. lines \div LINES_PER_LEVEL \in Nat
  BY <1>1
<1>3. 0 \div LINES_PER_LEVEL = 0
  BY <1>1
<1>4. ASSUME NEW n \in Nat PROVE Tetris!Speed(n + 1) \in Nat
  <2> DEFINE take == (n + 1 - 1) * DROP_STEP
             s == INITIAL_DROP_FRAMES - take
  <2>1. take \in Nat
    BY <1>1
  <2>2. s \in Int
    BY <1>1, <2>1
  <2>3. Tetris!Speed(n + 1) = IF s < MIN_DROP_FRAMES THEN MIN_DROP_FRAMES ELSE s
    BY DEF Tetris!Speed
  <2> HIDE DEF s
  <2> QED
    BY <1>1, <2>2, <2>3
<1>5. Tetris!Speed(1) = INITIAL_DROP_FRAMES
  <2>1. (1 - 1) * DROP_STEP = 0
    BY <1>1
  <2>2. Tetris!Speed(1) = IF INITIAL_DROP_FRAMES - 0 < MIN_DROP_FRAMES THEN MIN_DROP_FRAMES
                          ELSE INITIAL_DROP_FRAMES - 0
    BY <2>1 DEF Tetris!Speed
  <2> QED
    BY <1>1, <2>2
<1> QED
  BY <1>2, <1>3, <1>4, <1>5

(* The well a game begins with.                                            *)
LEMMA EmptyWell ==
    ASSUME TetrisWell, NEW g, g.board = {}, g.cells = 0, g.lines = 0, g.level = 1,
           g.drop_speed = INITIAL_DROP_FRAMES
    PROVE  WellKept(g)
<1>1. Cardinality(g.board) = 0
  BY FS_EmptySet
<1>2. 0 \in Nat /\ 0 \div LINES_PER_LEVEL + 1 = 1 /\ Tetris!Speed(1) = INITIAL_DROP_FRAMES
  BY SpeedIs
<1>3. Tetris!FullRows(g.board) = {}
  BY WellFinite DEF Tetris!FullRows
<1> QED
  BY <1>1, <1>2, <1>3 DEF WellKept

(* Timers, held keys and the pause matter to no piece and no cell.         *)
LEMMA TimersApart ==
    ASSUME NEW g, TetrisKept(g), NEW h, DOMAIN h = TetrisFields,
           h.board = g.board, h.current = g.current, h.next = g.next, h.lines = g.lines,
           h.level = g.level, h.drop_speed = g.drop_speed, h.over = g.over, h.cells = g.cells,
           h.drop_timer \in Nat, h.das_timer \in Nat, h.das_dir \in {-1, 0, 1}
    PROVE  TetrisKept(h)
<1>1. WellKept(h)
  BY DEF TetrisKept, WellKept
<1>2. g.over \/ Tetris!piece_fits(g, g.current)
  BY DEF TetrisKept, PieceKept
<1>3. Tetris!piece_fits(h, g.current) <=> Tetris!piece_fits(g, g.current)
  BY FitsBoard
<1>4. h.over \/ Tetris!piece_fits(h, h.current)
  BY <1>2, <1>3
<1>5. PieceKept(h)
  BY <1>4 DEF TetrisKept, PieceKept
<1> QED
  BY <1>1, <1>5 DEF TetrisKept

(* A piece goes where it fits.                                             *)
LEMMA PieceMoves ==
    ASSUME NEW g, TetrisKept(g), NEW p \in Pieces, p.y >= -1, Tetris!piece_fits(g, p),
           NEW h, h = [g EXCEPT !.current = p]
    PROVE  TetrisKept(h) /\ h.over = g.over /\ h.paused = g.paused
<1>1. DOMAIN g = TetrisFields
  BY DEF TetrisKept
<1>2. /\ DOMAIN h = TetrisFields /\ h.current = p
      /\ h.board = g.board /\ h.next = g.next /\ h.lines = g.lines /\ h.level = g.level
      /\ h.drop_speed = g.drop_speed /\ h.over = g.over /\ h.cells = g.cells
      /\ h.drop_timer = g.drop_timer /\ h.das_timer = g.das_timer /\ h.das_dir = g.das_dir
      /\ h.paused = g.paused
  BY <1>1 DEF TetrisFields
<1>3. WellKept(h)
  BY <1>2 DEF TetrisKept, WellKept
<1>4. Tetris!piece_fits(h, p)
  BY <1>2, FitsBoard
<1>5. PieceKept(h)
  BY <1>2, <1>4 DEF TetrisKept, PieceKept
<1> QED
  BY <1>2, <1>3, <1>5 DEF TetrisKept

(* A move to the side keeps what a pass keeps.                             *)
LEMMA MoveKept ==
    ASSUME NEW g, TetrisKept(g), NEW d \in Int
    PROVE  /\ TetrisKept(Tetris!Move(g, d))
           /\ Tetris!Move(g, d).over = g.over /\ Tetris!Move(g, d).paused = g.paused
<1> DEFINE p == Tetris!Shifted(g.current, d)
<1>1. g.current \in Pieces /\ g.current.y >= -1
  BY DEF TetrisKept, PieceKept
<1>2. p \in Pieces /\ p.y >= -1
  BY <1>1, PieceGoes
<1>3. CASE Tetris!piece_fits(g, p)
  <2>1. Tetris!Move(g, d) = [g EXCEPT !.current = p]
    BY <1>3 DEF Tetris!Move
  <2> HIDE DEF p
  <2> QED
    BY <1>2, <1>3, <2>1, PieceMoves
<1>4. CASE ~Tetris!piece_fits(g, p)
  BY <1>4 DEF Tetris!Move
<1> QED
  BY <1>3, <1>4

(* What the keys make of the game.                                         *)
LEMMA TetrisSide ==
    ASSUME NEW g, TetrisKept(g), NEW d \in {-1, 1}
    PROVE  TetrisKept(Tetris!Side(g, d)) /\ TetrisKept(Tetris!SideUp(g, d))
<1> DEFINE m == Tetris!Move(g, d)
           h == [m EXCEPT !.das_timer = 0, !.das_dir = d]
           u == [g EXCEPT !.das_dir = 0]
<1>1. d \in Int
  OBVIOUS
<1>2. TetrisKept(m)
  BY <1>1, MoveKept
<1>3. TetrisKept(h)
  <2> HIDE DEF m
  <2>1. DOMAIN m = TetrisFields /\ m.drop_timer \in Nat
    BY <1>2 DEF TetrisKept
  <2>2. /\ DOMAIN h = TetrisFields /\ h.board = m.board /\ h.current = m.current /\ h.next = m.next
        /\ h.lines = m.lines /\ h.level = m.level /\ h.drop_speed = m.drop_speed
        /\ h.over = m.over /\ h.cells = m.cells /\ h.drop_timer = m.drop_timer
        /\ h.das_timer = 0 /\ h.das_dir = d
    BY <2>1 DEF TetrisFields
  <2> HIDE DEF h
  <2> QED
    BY <1>2, <2>1, <2>2, TimersApart
<1>4. TetrisKept(u)
  <2>1. DOMAIN g = TetrisFields /\ g.drop_timer \in Nat /\ g.das_timer \in Nat
    BY DEF TetrisKept
  <2>2. /\ DOMAIN u = TetrisFields /\ u.board = g.board /\ u.current = g.current /\ u.next = g.next
        /\ u.lines = g.lines /\ u.level = g.level /\ u.drop_speed = g.drop_speed
        /\ u.over = g.over /\ u.cells = g.cells /\ u.drop_timer = g.drop_timer
        /\ u.das_timer = g.das_timer /\ u.das_dir = 0
    BY <2>1 DEF TetrisFields
  <2> HIDE DEF u
  <2> QED
    BY <2>1, <2>2, TimersApart
<1>5. Tetris!Side(g, d) = h \/ Tetris!Side(g, d) = g
  BY DEF Tetris!Side
<1>6. Tetris!SideUp(g, d) = u \/ Tetris!SideUp(g, d) = g
  BY DEF Tetris!SideUp
<1> QED
  BY <1>3, <1>4, <1>5, <1>6

(* So does a rotation,                                                     *)
LEMMA TetrisRotate ==
    ASSUME NEW g, TetrisKept(g)
    PROVE  TetrisKept(Tetris!Rotate(g))
<1> DEFINE p == [g.current EXCEPT !.rotation = (@ + 1) % 4]
<1>1. g.current \in Pieces /\ g.current.y >= -1
  BY DEF TetrisKept, PieceKept
<1>2. p \in Pieces /\ p.y >= -1
  <2>1. p \in Pieces /\ p.y = g.current.y
    <3>1. 0 \in Int
      OBVIOUS
    <3> QED
      BY <1>1, <3>1, PieceGoes
  <2> QED
    BY <1>1, <2>1
<1>3. Tetris!Shifted(p, 0) = p
  <2> HIDE DEF p
  <2>1. PICK t \in Tetris!Types, r \in 0..3, x \in Int, y \in Int :
          p = [type |-> t, rotation |-> r, x |-> x, y |-> y]
    BY <1>2 DEF Pieces
  <2>2. Tetris!Shifted(p, 0) = [type |-> t, rotation |-> r, x |-> x + 0, y |-> y]
    BY <2>1 DEF Tetris!Shifted
  <2> QED
    BY <2>1, <2>2
<1>4. \/ Tetris!Rotate(g) = g
      \/ Tetris!piece_fits(g, Tetris!Shifted(p, 0)) /\ Tetris!Rotate(g) = [g EXCEPT !.current = p]
      \/ \E d \in {-1, 1} : /\ Tetris!piece_fits(g, Tetris!Shifted(p, d))
                            /\ Tetris!Rotate(g) = [g EXCEPT !.current = Tetris!Shifted(p, d)]
  BY DEF Tetris!Rotate
<1> HIDE DEF p
<1>5. CASE Tetris!piece_fits(g, Tetris!Shifted(p, 0)) /\ Tetris!Rotate(g) = [g EXCEPT !.current = p]
  BY <1>2, <1>3, <1>5, PieceMoves
<1>6. ASSUME NEW d \in {-1, 1}, Tetris!piece_fits(g, Tetris!Shifted(p, d)),
             Tetris!Rotate(g) = [g EXCEPT !.current = Tetris!Shifted(p, d)]
      PROVE  TetrisKept(Tetris!Rotate(g))
  <2>1. d \in Int
    OBVIOUS
  <2>2. Tetris!Shifted(p, d) \in Pieces /\ Tetris!Shifted(p, d).y >= -1
    BY <1>2, <2>1, PieceGoes
  <2> QED
    BY <1>6, <2>2, PieceMoves
<1> QED
  BY <1>4, <1>5, <1>6

(* a hard drop,                                                            *)
LEMMA TetrisHardDrop ==
    ASSUME TetrisWell, TetrisShapes, NEW g, TetrisKept(g), Tetris!Playing(g)
    PROVE  TetrisKept(Tetris!HardDrop(g))
<1> DEFINE p == Tetris!Drop(g)
           m == [g EXCEPT !.current = p]
           h == [g EXCEPT !.current = p, !.drop_timer = g.drop_speed]
<1>1. g.current \in Pieces /\ g.current.y >= -1 /\ Tetris!piece_fits(g, g.current)
  BY DEF TetrisKept, PieceKept, Tetris!Playing
<1>2. p \in Pieces /\ p.y >= -1 /\ Tetris!piece_fits(g, p)
  BY <1>1, PieceDrops
<1>3. DOMAIN g = TetrisFields /\ g.das_timer \in Nat /\ g.das_dir \in {-1, 0, 1}
  BY DEF TetrisKept
<1>4. g.drop_speed \in Nat
  BY SpeedIs DEF TetrisKept, WellKept
<1> HIDE DEF p
<1>5. TetrisKept(m)
  BY <1>2, PieceMoves
<1>6. /\ DOMAIN h = TetrisFields /\ h.board = m.board /\ h.current = m.current /\ h.next = m.next
      /\ h.lines = m.lines /\ h.level = m.level /\ h.drop_speed = m.drop_speed
      /\ h.over = m.over /\ h.cells = m.cells /\ h.drop_timer = g.drop_speed
      /\ h.das_timer = g.das_timer /\ h.das_dir = g.das_dir
  BY <1>3 DEF TetrisFields
<1>7. Tetris!HardDrop(g) = h
  BY DEF Tetris!HardDrop, p
<1> HIDE DEF h, m
<1> QED
  BY <1>3, <1>4, <1>5, <1>6, <1>7, TimersApart

(* and a new game.                                                         *)
LEMMA TetrisRestart ==
    ASSUME TetrisWell, TetrisShapes, NEW g, TetrisKept(g),
           NEW t \in Tetris!Types, NEW n \in Tetris!Types
    PROVE  TetrisKept(Tetris!Restart(g, t, n))
<1> DEFINE h == Tetris!Restart(g, t, n)
<1>1. DOMAIN g = TetrisFields /\ g.drop_timer \in Nat /\ g.das_timer \in Nat /\ g.das_dir \in {-1, 0, 1}
  BY DEF TetrisKept
<1>2. /\ DOMAIN h = TetrisFields /\ h.board = {} /\ h.lines = 0 /\ h.level = 1
      /\ h.drop_speed = INITIAL_DROP_FRAMES /\ h.current = Tetris!Fresh(t) /\ h.next = n
      /\ h.cells = 0 /\ h.drop_timer = g.drop_timer /\ h.das_timer = g.das_timer
      /\ h.das_dir = g.das_dir
  BY <1>1 DEF Tetris!Restart, TetrisFields
<1> HIDE DEF h
<1>3. WellKept(h)
  BY <1>2, EmptyWell
<1>4. PieceKept(h)
  BY <1>2, NewPieceFits DEF PieceKept
<1>5. TetrisKept(h)
  BY <1>1, <1>2, <1>3, <1>4 DEF TetrisKept
<1> QED
  BY <1>5 DEF h

(* A held key repeats as often as the timer says, where the piece fits.    *)
LEMMA TetrisAutoShift ==
    ASSUME TetrisWell, NEW g, TetrisKept(g)
    PROVE  /\ TetrisKept(Tetris!AutoShift(g))
           /\ Tetris!AutoShift(g).over = g.over /\ Tetris!AutoShift(g).paused = g.paused
<1> DEFINE t == IF g.das_timer + 1 > DAS_DELAY + DAS_PERIOD
                THEN g.das_timer + 1 - DAS_PERIOD ELSE g.das_timer + 1
           h == [g EXCEPT !.das_timer = t]
<1>1. DOMAIN g = TetrisFields /\ g.drop_timer \in Nat /\ g.das_timer \in Nat /\ g.das_dir \in {-1, 0, 1}
  BY DEF TetrisKept
<1>2. t \in Nat
  BY <1>1 DEF TetrisWell
<1>3. \/ Tetris!AutoShift(g) = g
      \/ Tetris!AutoShift(g) = h
      \/ Tetris!AutoShift(g) = Tetris!Move(h, g.das_dir)
  BY DEF Tetris!AutoShift
<1> HIDE DEF t
<1>4. /\ DOMAIN h = TetrisFields /\ h.board = g.board /\ h.current = g.current /\ h.next = g.next
      /\ h.lines = g.lines /\ h.level = g.level /\ h.drop_speed = g.drop_speed
      /\ h.over = g.over /\ h.cells = g.cells /\ h.drop_timer = g.drop_timer
      /\ h.das_timer = t /\ h.das_dir = g.das_dir /\ h.paused = g.paused
  BY <1>1 DEF TetrisFields
<1> HIDE DEF h
<1>5. TetrisKept(h)
  BY <1>1, <1>2, <1>4, TimersApart
<1>6. g.das_dir \in Int
  BY <1>1
<1>7. /\ TetrisKept(Tetris!Move(h, g.das_dir))
      /\ Tetris!Move(h, g.das_dir).over = h.over /\ Tetris!Move(h, g.das_dir).paused = h.paused
  BY <1>5, <1>6, MoveKept
<1> QED
  BY <1>3, <1>4, <1>5, <1>7

(* A piece that lies free adds all its cells on the board.                 *)
LEMMA TetrisLock ==
    ASSUME TetrisWell, TetrisShapes, NEW g, TetrisKept(g), Tetris!piece_fits(g, g.current),
           NEW h, h = Tetris!lock_piece(g)
    PROVE  /\ DOMAIN h = TetrisFields
           /\ h.board \subseteq Tetris!Rows \X Tetris!Cols /\ Cardinality(h.board) = h.cells
           /\ h.lines = g.lines /\ h.level = g.level /\ h.drop_speed = g.drop_speed
           /\ h.next = g.next /\ h.drop_timer = g.drop_timer /\ h.das_timer = g.das_timer
           /\ h.das_dir = g.das_dir
<1> DEFINE K == {c \in Tetris!Cells(g.current) : c[1] >= 0}
<1>1. /\ DOMAIN g = TetrisFields /\ g.board \subseteq Tetris!Rows \X Tetris!Cols
      /\ Cardinality(g.board) = g.cells /\ g.current \in Pieces
  BY DEF TetrisKept, WellKept, PieceKept
<1>2. Tetris!Cardinality(K) = Cardinality(K)
  BY SameCardinality
<1>3. h = [g EXCEPT !.board = @ \cup K, !.cells = @ + Tetris!Cardinality(K)]
  BY DEF Tetris!lock_piece
<1>4. IsFiniteSet(K)
  <2>1. IsFiniteSet(Tetris!Cells(g.current))
    BY <1>1, PieceCells
  <2> QED
    BY <2>1, FS_Subset
<1>5. K \subseteq Tetris!Rows \X Tetris!Cols /\ g.board \cap K = {}
  <2> SUFFICES ASSUME NEW c \in K PROVE c \in Tetris!Rows \X Tetris!Cols /\ c \notin g.board
    OBVIOUS
  <2>1. c \in Tetris!Cells(g.current) /\ c[1] >= 0
    OBVIOUS
  <2>2. c = <<c[1], c[2]>> /\ c[1] \in Int
    BY <1>1, <2>1, PieceCells
  <2>3. c[2] \in Tetris!Cols /\ c[1] < BOARD_HEIGHT /\ c \notin g.board
    BY <2>1 DEF Tetris!piece_fits
  <2>4. c[1] \in Tetris!Rows
    BY <2>1, <2>2, <2>3 DEF Tetris!Rows, TetrisWell
  <2> HIDE DEF K
  <2> QED
    BY <2>2, <2>3, <2>4
<1> HIDE DEF K
<1>6. IsFiniteSet(g.board)
  BY <1>1, WellFinite
<1>7. Cardinality(g.board \cup K) = Cardinality(g.board) + Cardinality(K)
  <2>1. Cardinality(g.board \cup K) = Cardinality(g.board) + Cardinality(K) - Cardinality(g.board \cap K)
    BY <1>4, <1>6, FS_Union
  <2>2. Cardinality(g.board \cap K) = 0
    BY <1>5, FS_EmptySet
  <2>3. Cardinality(g.board) \in Nat /\ Cardinality(K) \in Nat
    BY <1>4, <1>6, FS_CardinalityType
  <2> QED
    BY <2>1, <2>2, <2>3
<1>8. h.board = g.board \cup K /\ h.cells = g.cells + Cardinality(K)
  BY <1>1, <1>2, <1>3 DEF TetrisFields
<1>9. h.board \subseteq Tetris!Rows \X Tetris!Cols /\ Cardinality(h.board) = h.cells
  BY <1>1, <1>5, <1>7, <1>8
<1> QED
  BY <1>1, <1>3, <1>9 DEF TetrisFields

(* The rows that are full go: the account of the cells is even again, and  *)
(* the speed is that of the lines.                                         *)
LEMMA TetrisClear ==
    ASSUME TetrisWell, NEW g, DOMAIN g = TetrisFields,
           g.board \subseteq Tetris!Rows \X Tetris!Cols, Cardinality(g.board) = g.cells,
           g.lines \in Nat, g.level = g.lines \div LINES_PER_LEVEL + 1,
           g.drop_speed = Tetris!Speed(g.level), NEW h, h = Tetris!clear_lines(g)
    PROVE  /\ DOMAIN h = TetrisFields /\ WellKept(h)
           /\ h.next = g.next /\ h.drop_timer = g.drop_timer /\ h.das_timer = g.das_timer
           /\ h.das_dir = g.das_dir
<1> DEFINE full == Tetris!FullRows(g.board)
           n == Tetris!Cardinality(full)
           below(r) == Tetris!Cardinality({f \in full : f > r})
           after == {<<c[1] + below(c[1]), c[2]>> : c \in {d \in g.board : d[1] \notin full}}
           level == (g.lines + n) \div LINES_PER_LEVEL + 1
           k == [g EXCEPT !.board = after, !.lines = @ + n, !.level = level,
                          !.drop_speed = Tetris!Speed(level), !.cells = @ - n * BOARD_WIDTH]
<1>1. CASE full = {}
  <2>1. h = g
    BY <1>1 DEF Tetris!clear_lines
  <2>2. WellKept(h)
    BY <1>1, <2>1 DEF WellKept
  <2> QED
    BY <2>1, <2>2
<1>2. CASE full # {}
  <2>1. h = k
    BY <1>2 DEF Tetris!clear_lines
  <2>2. n = Cardinality(full) /\ \A r : below(r) = Below(full, r)
    BY SameCardinality DEF Below
  <2>3. full \subseteq Tetris!Rows
    BY DEF Tetris!FullRows
  <2> HIDE DEF full
  <2>4. n \in Nat
    BY <2>2, <2>3, WellFinite
  <2>5. after = Fallen(g.board, full)
    <3> HIDE DEF below
    <3> QED
      BY <2>2 DEF Fallen
  <2> HIDE DEF after
  <2>6. full = Tetris!FullRows(g.board)
    BY DEF full
  <2>7. /\ after \subseteq Tetris!Rows \X Tetris!Cols
        /\ Cardinality(after) = Cardinality(g.board) - Cardinality(full) * BOARD_WIDTH
        /\ Tetris!FullRows(after) = {}
    BY <2>5, <2>6, LinesClear
  <2> HIDE DEF n
  <2>8. g.lines + n \in Nat
    BY <2>4
  <2>9. /\ DOMAIN k = TetrisFields /\ k.board = after /\ k.lines = g.lines + n
        /\ k.level = (g.lines + n) \div LINES_PER_LEVEL + 1
        /\ k.drop_speed = Tetris!Speed((g.lines + n) \div LINES_PER_LEVEL + 1)
        /\ k.cells = g.cells - n * BOARD_WIDTH
        /\ k.next = g.next /\ k.drop_timer = g.drop_timer /\ k.das_timer = g.das_timer
        /\ k.das_dir = g.das_dir
    BY DEF TetrisFields
  <2> HIDE DEF k
  <2>10. WellKept(k)
    BY <2>2, <2>7, <2>8, <2>9 DEF WellKept
  <2> QED
    BY <2>1, <2>9, <2>10
<1> QED
  BY <1>1, <1>2

(* A new piece fits, or the game is over.                                  *)
LEMMA TetrisSpawn ==
    ASSUME TetrisWell, TetrisShapes, NEW g, DOMAIN g = TetrisFields, WellKept(g),
           g.next \in Tetris!Types, g.drop_timer \in Nat, g.das_timer \in Nat,
           g.das_dir \in {-1, 0, 1}, NEW n \in Tetris!Types
    PROVE  TetrisKept(Tetris!spawn_piece(g, n))
<1> DEFINE h == Tetris!spawn_piece(g, n)
           p == Tetris!Fresh(g.next)
<1>1. /\ DOMAIN h = TetrisFields /\ h.current = p /\ h.next = n
      /\ h.over = ~Tetris!piece_fits(g, p)
      /\ h.board = g.board /\ h.lines = g.lines /\ h.level = g.level
      /\ h.drop_speed = g.drop_speed /\ h.cells = g.cells /\ h.drop_timer = g.drop_timer
      /\ h.das_timer = g.das_timer /\ h.das_dir = g.das_dir
  BY DEF Tetris!spawn_piece, TetrisFields
<1>2. p \in Pieces /\ p.y >= -1
  <2> DEFINE e == [board |-> {}]
  <2>1. e.board = {}
    OBVIOUS
  <2> HIDE DEF e
  <2> QED
    BY <2>1, NewPieceFits
<1> HIDE DEF h, p
<1>3. Tetris!piece_fits(h, p) <=> Tetris!piece_fits(g, p)
  BY <1>1, FitsBoard
<1>4. h.over \/ Tetris!piece_fits(h, p)
  <2>1. CASE Tetris!piece_fits(g, p)
    BY <1>3, <2>1
  <2>2. CASE ~Tetris!piece_fits(g, p)
    BY <1>1, <2>2
  <2> QED
    BY <2>1, <2>2
<1>5. PieceKept(h)
  BY <1>1, <1>2, <1>4 DEF PieceKept
<1>6. WellKept(h)
  BY <1>1 DEF WellKept
<1>7. TetrisKept(h)
  BY <1>1, <1>5, <1>6 DEF TetrisKept
<1> QED
  BY <1>7 DEF h

(* The piece falls by one row, or is locked.                               *)
LEMMA TetrisFall ==
    ASSUME TetrisWell, TetrisShapes, NEW g, TetrisKept(g), Tetris!Playing(g)
    PROVE  \A h \in Tetris!Fall(g) : TetrisKept(h)
<1> DEFINE p == Tetris!Lowered(g.current, 1)
<1>1. /\ g.current \in Pieces /\ g.current.y >= -1 /\ g.next \in Tetris!Types
      /\ Tetris!piece_fits(g, g.current)
  BY DEF TetrisKept, PieceKept, Tetris!Playing
<1>2. CASE Tetris!piece_fits(g, p)
  <2> DEFINE k == [g EXCEPT !.current = p]
  <2>1. 1 \in Int /\ g.current.y \in Int
    BY <1>1 DEF Pieces
  <2>2. p \in Pieces /\ p.y = g.current.y + 1
    BY <1>1, <2>1, PieceGoes
  <2>3. p.y >= -1
    BY <1>1, <2>1, <2>2
  <2>4. Tetris!Fall(g) = {k}
    BY <1>2 DEF Tetris!Fall
  <2> HIDE DEF p
  <2>5. TetrisKept(k)
    BY <1>2, <2>2, <2>3, PieceMoves
  <2> HIDE DEF k
  <2> QED
    BY <2>4, <2>5
<1>3. CASE ~Tetris!piece_fits(g, p)
  <2> DEFINE l == Tetris!lock_piece(g)
             k == Tetris!clear_lines(l)
  <2>1. Tetris!Fall(g) = {Tetris!spawn_piece(k, n) : n \in Tetris!Types}
    BY <1>3 DEF Tetris!Fall
  <2>2. /\ g.lines \in Nat /\ g.level = g.lines \div LINES_PER_LEVEL + 1
        /\ g.drop_speed = Tetris!Speed(g.level)
        /\ g.drop_timer \in Nat /\ g.das_timer \in Nat /\ g.das_dir \in {-1, 0, 1}
    BY DEF TetrisKept, WellKept
  <2> HIDE DEF k, l
  <2>3. /\ DOMAIN l = TetrisFields
        /\ l.board \subseteq Tetris!Rows \X Tetris!Cols /\ Cardinality(l.board) = l.cells
        /\ l.lines = g.lines /\ l.level = g.level /\ l.drop_speed = g.drop_speed
        /\ l.next = g.next /\ l.drop_timer = g.drop_timer /\ l.das_timer = g.das_timer
        /\ l.das_dir = g.das_dir
    BY <1>1, TetrisLock DEF l
  <2>4. /\ DOMAIN k = TetrisFields /\ WellKept(k)
        /\ k.next = l.next /\ k.drop_timer = l.drop_timer /\ k.das_timer = l.das_timer
        /\ k.das_dir = l.das_dir
    BY <2>2, <2>3, TetrisClear DEF k
  <2>5. \A n \in Tetris!Types : TetrisKept(Tetris!spawn_piece(k, n))
    BY <1>1, <2>2, <2>3, <2>4, TetrisSpawn
  <2> QED
    BY <2>1, <2>5
<1> QED
  BY <1>2, <1>3

(* A pass: the auto-shift, and the fall when its time has come.            *)
LEMMA TetrisUpdate ==
    ASSUME TetrisWell, TetrisShapes, NEW g, TetrisKept(g)
    PROVE  \A h \in Tetris!game_update(g) : TetrisKept(h)
<1> DEFINE later == [g EXCEPT !.drop_timer = @ + 1]
           now == [g EXCEPT !.drop_timer = 0]
<1>1. DOMAIN g = TetrisFields /\ g.drop_timer \in Nat /\ g.das_timer \in Nat /\ g.das_dir \in {-1, 0, 1}
  BY DEF TetrisKept
<1>2. ASSUME NEW h, NEW t \in Nat, h = [g EXCEPT !.drop_timer = t]
      PROVE  TetrisKept(h) /\ h.over = g.over /\ h.paused = g.paused
  <2>1. /\ DOMAIN h = TetrisFields /\ h.board = g.board /\ h.current = g.current /\ h.next = g.next
        /\ h.lines = g.lines /\ h.level = g.level /\ h.drop_speed = g.drop_speed
        /\ h.over = g.over /\ h.cells = g.cells /\ h.drop_timer = t
        /\ h.das_timer = g.das_timer /\ h.das_dir = g.das_dir /\ h.paused = g.paused
    BY <1>1, <1>2 DEF TetrisFields
  <2> QED
    BY <1>1, <2>1, TimersApart
<1>3. g.drop_timer + 1 \in Nat /\ 0 \in Nat /\ later = [g EXCEPT !.drop_timer = g.drop_timer + 1]
  BY <1>1
<1>4. TetrisKept(later) /\ TetrisKept(now) /\ now.over = g.over /\ now.paused = g.paused
  <2> HIDE DEF later, now
  <2>1. TetrisKept(later)
    BY <1>2, <1>3
  <2>2. now = [g EXCEPT !.drop_timer = 0]
    BY DEF now
  <2>3. TetrisKept(now) /\ now.over = g.over /\ now.paused = g.paused
    BY <1>2, <1>3, <2>2
  <2> QED
    BY <2>1, <2>3
<1>5. \/ Tetris!game_update(g) = {g}
      \/ Tetris!game_update(g) = {later}
      \/ Tetris!Playing(g) /\ Tetris!game_update(g) = Tetris!Fall(now)
  BY DEF Tetris!game_update
<1> HIDE DEF later, now
<1>6. ASSUME Tetris!Playing(g) PROVE \A h \in Tetris!Fall(now) : TetrisKept(h)
  <2>1. Tetris!Playing(now)
    BY <1>4, <1>6 DEF Tetris!Playing
  <2> QED
    BY <1>4, <2>1, TetrisFall
<1> QED
  BY <1>4, <1>5, <1>6

(* Every step of the game keeps the invariant.                             *)
LEMMA TetrisStep ==
    ASSUME TetrisWell, TetrisShapes, TetrisInv, [Tetris!Next]_(Tetris!vars)
    PROVE  TetrisInv'
<1>1. TetrisKept(game) /\ read \in 0..MaxEvents /\ MaxEvents \in Nat
  BY DEF TetrisInv, TetrisWell
<1>2. CASE Tetris!Key
  <2>1. read' \in 0..MaxEvents
    BY <1>1, <1>2 DEF Tetris!Key
  <2>2. DOMAIN game = TetrisFields /\ game.drop_timer \in Nat /\ game.das_timer \in Nat
        /\ game.das_dir \in {-1, 0, 1}
    BY <1>1 DEF TetrisKept
  <2>3. CASE Tetris!KeyLeft \/ Tetris!KeyRight \/ Tetris!LeftUp \/ Tetris!RightUp
    <3>1. -1 \in {-1, 1} /\ 1 \in {-1, 1}
      OBVIOUS
    <3>2. TetrisKept(game')
      BY <1>1, <2>3, <3>1, TetrisSide DEF Tetris!KeyLeft, Tetris!KeyRight, Tetris!LeftUp, Tetris!RightUp
    <3> QED
      BY <2>1, <3>2 DEF TetrisInv
  <2>4. CASE Tetris!KeyUp
    BY <1>1, <2>1, <2>4, TetrisRotate DEF Tetris!KeyUp, TetrisInv
  <2>5. CASE Tetris!KeyDown
    <3>1. PICK down \in BOOLEAN : game' = [game EXCEPT !.soft_drop = down]
      BY <2>5 DEF Tetris!KeyDown
    <3>2. TetrisKept(game')
      <4> DEFINE g == game
                 h == game'
      <4>1. /\ DOMAIN h = TetrisFields /\ h.board = g.board /\ h.current = g.current /\ h.next = g.next
            /\ h.lines = g.lines /\ h.level = g.level /\ h.drop_speed = g.drop_speed
            /\ h.over = g.over /\ h.cells = g.cells /\ h.drop_timer = g.drop_timer
            /\ h.das_timer = g.das_timer /\ h.das_dir = g.das_dir
        BY <2>2, <3>1 DEF TetrisFields
      <4> HIDE DEF h
      <4>2. TetrisKept(h)
        BY <1>1, <2>2, <4>1, TimersApart
      <4> QED
        BY <4>2 DEF h
    <3> QED
      BY <2>1, <3>2 DEF TetrisInv
  <2>6. CASE Tetris!KeySpace
    <3>1. TetrisKept(game')
      BY <1>1, <2>6, TetrisHardDrop, TetrisRestart DEF Tetris!KeySpace
    <3> QED
      BY <2>1, <3>1 DEF TetrisInv
  <2>7. CASE Tetris!KeyPause
    <3>1. game' = [game EXCEPT !.paused = ~@]
      BY <2>7 DEF Tetris!KeyPause
    <3>2. TetrisKept(game')
      <4> DEFINE g == game
                 h == game'
      <4>1. /\ DOMAIN h = TetrisFields /\ h.board = g.board /\ h.current = g.current /\ h.next = g.next
            /\ h.lines = g.lines /\ h.level = g.level /\ h.drop_speed = g.drop_speed
            /\ h.over = g.over /\ h.cells = g.cells /\ h.drop_timer = g.drop_timer
            /\ h.das_timer = g.das_timer /\ h.das_dir = g.das_dir
        BY <2>2, <3>1 DEF TetrisFields
      <4> HIDE DEF h
      <4>2. TetrisKept(h)
        BY <1>1, <2>2, <4>1, TimersApart
      <4> QED
        BY <4>2 DEF h
    <3> QED
      BY <2>1, <3>2 DEF TetrisInv
  <2> QED
    BY <1>2, <2>3, <2>4, <2>5, <2>6, <2>7 DEF Tetris!Key
<1>3. CASE Tetris!Update
  <2>1. TetrisKept(Tetris!AutoShift(game))
    BY <1>1, TetrisAutoShift
  <2>2. game' \in Tetris!game_update(Tetris!AutoShift(game)) /\ read' = 0
    BY <1>3 DEF Tetris!Update
  <2>3. TetrisKept(game')
    BY <2>1, <2>2, TetrisUpdate
  <2> QED
    BY <1>1, <2>2, <2>3 DEF TetrisInv
<1>4. CASE UNCHANGED <<game, read>>
  BY <1>1, <1>4 DEF TetrisInv
<1> QED
  BY <1>2, <1>3, <1>4 DEF Tetris!Next, Tetris!vars

(* The invariant holds when a game begins.                                 *)
LEMMA TetrisBegins ==
    ASSUME TetrisWell, TetrisShapes, Tetris!Init
    PROVE  TetrisInv
<1>1. PICK t \in Tetris!Types, n \in Tetris!Types : game = Tetris!game_init(t, n)
  BY DEF Tetris!Init
<1> DEFINE g == game
<1>2. /\ DOMAIN g = TetrisFields /\ g.board = {} /\ g.lines = 0 /\ g.level = 1
      /\ g.drop_speed = INITIAL_DROP_FRAMES /\ g.current = Tetris!Fresh(t) /\ g.next = n
      /\ g.cells = 0 /\ g.drop_timer = 0 /\ g.das_timer = 0 /\ g.das_dir = 0
  BY <1>1 DEF Tetris!game_init, TetrisFields
<1>3. read \in 0..MaxEvents
  BY DEF Tetris!Init, TetrisWell
<1> HIDE DEF g
<1>4. WellKept(g)
  BY <1>2, EmptyWell
<1>5. PieceKept(g)
  BY <1>2, NewPieceFits DEF PieceKept
<1>6. 0 \in Nat /\ 0 \in {-1, 0, 1}
  OBVIOUS
<1>7. TetrisKept(g)
  BY <1>2, <1>4, <1>5, <1>6 DEF TetrisKept
<1> QED
  BY <1>3, <1>7 DEF TetrisInv, g

(* It is what the properties need.                                         *)
LEMMA TetrisHolds ==
    ASSUME TetrisWell, TetrisInv
    PROVE  Tetris!TypeOK /\ Tetris!PieceFits /\ Tetris!BoardAccount /\ Tetris!SpeedOfLevel
<1>1. WellKept(game) /\ PieceKept(game) /\ game.drop_timer \in Nat /\ game.das_timer \in Nat
      /\ game.das_dir \in {-1, 0, 1} /\ read \in 0..MaxEvents
  BY DEF TetrisInv, TetrisKept
<1>2. game.level \in Nat /\ game.drop_speed \in Nat
  BY <1>1, SpeedIs DEF WellKept
<1>3. /\ game.current.type \in Tetris!Types /\ game.current.rotation \in 0..3
      /\ game.current.x \in Int /\ game.current.y \in Int
  BY <1>1 DEF PieceKept, Pieces
<1>4. Tetris!TypeOK
  BY <1>1, <1>2, <1>3 DEF Tetris!TypeOK, WellKept, PieceKept
<1>5. Tetris!PieceFits
  BY <1>1 DEF PieceKept, Tetris!PieceFits
<1>6. Tetris!BoardAccount
  <2>1. Tetris!Cardinality(game.board) = Cardinality(game.board)
    BY SameCardinality
  <2> QED
    BY <1>1, <2>1 DEF WellKept, Tetris!BoardAccount
<1>7. Tetris!SpeedOfLevel
  BY <1>1 DEF WellKept, Tetris!SpeedOfLevel
<1> QED
  BY <1>4, <1>5, <1>6, <1>7

(* Tetris: whatever keys come in between two falls, the piece in play lies *)
(* on free cells of the board; the board holds every locked cell that was  *)
(* not cleared, none lost or doubled by a shift, and no full line; the     *)
(* speed is that of the lines cleared.                                     *)
THEOREM TetrisCorrect ==
    ASSUME TetrisWell, TetrisShapes
    PROVE  Tetris!Spec => [](/\ Tetris!TypeOK /\ Tetris!PieceFits
                             /\ Tetris!BoardAccount /\ Tetris!SpeedOfLevel)
<1>1. Tetris!Init => TetrisInv
  BY TetrisBegins
<1>2. TetrisInv /\ [Tetris!Next]_(Tetris!vars) => TetrisInv'
  BY TetrisStep
<1>3. TetrisInv => Tetris!TypeOK /\ Tetris!PieceFits /\ Tetris!BoardAccount /\ Tetris!SpeedOfLevel
  BY TetrisHolds
<1> QED
  BY <1>1, <1>2, <1>3, PTL DEF Tetris!Spec
=============================================================================
