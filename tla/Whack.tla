------------------------------- MODULE Whack -------------------------------
(***************************************************************************)
(* The rules of drm-whack.c: moles come out of holes for a while, a strike *)
(* of the hammer stuns the one that is near it.                            *)
(*                                                                         *)
(* One step is one pass of the main loop: input_poll and game_update; what *)
(* is drawn is the state it leaves.  Time is counted in the least time of  *)
(* a pass.  Left out: popups, bursts, the hammer's pixels: only one hole   *)
(* can be within its reach, since holes are further apart than two radii.  *)
(***************************************************************************)
EXTENDS Integers, FiniteSets

CONSTANTS
    HOLES,              \* the holes
    RISE_TIME,          \* 300 ms, the time of rising and of falling
    MOLE_UP_TIME,       \* 1500 ms
    STUN_TIME,          \* 400 ms
    GAME_TIME,          \* 60 s
    MORE_MOLES,         \* 15 s: one more mole at a time after each
    MaxLate             \* bound: how long a pass can take

VARIABLE game

MOLE_SCORE == 10
GOLDEN_MOLE_SCORE == 50
FULL == 40                      \* the height of a mole that is up
NoHole == 0                     \* the hammer is near no hole

Hidden(h, g) == g.moles[h].state = "hidden"
(* Mutant: a mole that was hit can be hit again.                           *)
HittableAgain == {"up", "rising", "whacked"}
Hittable == {"up", "rising"}

game_init ==
    [moles |-> [h \in HOLES |-> [state |-> "hidden", age |-> 0,
                                 rise |-> 0, golden |-> FALSE]],
     score |-> 0, combo |-> 0, best_combo |-> 0, hits |-> 0, misses |-> 0,
     time |-> 0, over |-> FALSE, space |-> FALSE,
     risen |-> 0]               \* history: moles that came out

(* A strike with the hammer near hole h.                                   *)
Whack(g, h) ==
    IF h # NoHole /\ g.moles[h].state \in Hittable
    THEN [g EXCEPT !.moles[h].state = "whacked", !.moles[h].age = 0,
                   !.score = @ + g.combo * 5 +
                       (IF g.moles[h].golden THEN GOLDEN_MOLE_SCORE
                                             ELSE MOLE_SCORE),
                   !.hits = @ + 1,
                   !.combo = @ + 1,
                   !.best_combo = IF g.combo + 1 > @ THEN g.combo + 1 ELSE @]
    ELSE [g EXCEPT !.combo = 0, !.misses = @ + 1]

MaxActive(g) == LET m == 2 + g.time \div MORE_MOLES
                IN  IF m > 6 THEN 6 ELSE m

Active(g) == {h \in HOLES : ~Hidden(h, g)}

(* The next hidden hole from a random one: any hidden hole.                *)
Spawn(g, h, golden) ==
    [g EXCEPT !.moles[h] = [state |-> "rising", age |-> 0, rise |-> 0,
                            golden |-> golden],
              !.risen = @ + 1]

MaySpawn(g) == Cardinality(Active(g)) < MaxActive(g)

(* What the switch over the states does to a mole.                         *)
Moved(m) ==
    CASE m.state = "hidden" -> m
      [] m.state = "rising" ->
            LET r == (FULL * m.age) \div RISE_TIME
            IN  IF r >= FULL
                THEN [m EXCEPT !.rise = FULL, !.state = "up", !.age = 0]
                ELSE [m EXCEPT !.rise = r]
      [] m.state = "up" ->
            IF m.age > MOLE_UP_TIME
            THEN [m EXCEPT !.state = "falling", !.age = 0] ELSE m
      [] m.state = "falling" ->
            LET r == FULL - (FULL * m.age) \div RISE_TIME
            IN  IF r <= 0
                THEN [m EXCEPT !.rise = 0, !.state = "hidden", !.age = 0]
                ELSE [m EXCEPT !.rise = r]
      [] m.state = "whacked" ->
            IF m.age > STUN_TIME
            THEN [m EXCEPT !.state = "falling", !.age = 0] ELSE m

MoveMoles(g) == [g EXCEPT !.moles = [h \in HOLES |-> Moved(@[h])]]

(* Time passes: the clock, and the time since each mole changed.           *)
Elapse(g, dt) ==
    [g EXCEPT !.time = @ + dt,
              !.moles = [h \in HOLES |-> IF Hidden(h, g) THEN @[h]
                                         ELSE [g.moles[h] EXCEPT !.age = @ + dt]]]

(* game_update with the space bar as read before (prev) and now, the       *)
(* hammer near hole near.  The outcomes differ in what comes out where.    *)
game_update(g, prev, near) ==
    IF g.over THEN {g}
    ELSE IF g.time >= GAME_TIME
    THEN {[g EXCEPT !.over = TRUE]}
    ELSE LET w == IF g.space /\ ~prev THEN Whack(g, near) ELSE g
         IN  {MoveMoles(w)} \cup
             (IF MaySpawn(w)
              THEN {MoveMoles(Spawn(w, h, gold)) :
                        h \in {x \in HOLES : Hidden(x, w)}, gold \in BOOLEAN}
              ELSE {})

Init == game = game_init

(* One pass.  The keys are what the last events made of them: a stroke     *)
(* begun and ended between two polls leaves no trace.                      *)
Frame ==
    \E dt \in 1..MaxLate, space \in BOOLEAN, near \in HOLES \cup {NoHole} :
        /\ ~game.over
        /\ game' \in game_update([Elapse(game, dt) EXCEPT !.space = space],
                                 game.space, near)

GameOver == game.over /\ game' \in game_update(game, game.space, NoHole)

Next == Frame \/ GameOver
Spec == Init /\ [][Next]_game

-----------------------------------------------------------------------------
Mole == [state : {"hidden", "rising", "up", "falling", "whacked"},
         age : Nat, rise : 0..FULL, golden : BOOLEAN]

TypeOK ==
    /\ game.moles \in [HOLES -> Mole]
    /\ \A f \in {"score", "combo", "best_combo", "hits", "misses", "time", "risen"} :
          game[f] \in Nat

(* A mole is hit at most once each time it comes out, and the ones that    *)
(* are out and not yet stunned are those that came out and were neither    *)
(* hit nor fell back: combos and the score count what the player saw.      *)
HitOncePerAppearance ==
    /\ game.hits + Cardinality({h \in HOLES : game.moles[h].state \in Hittable})
          <= game.risen
    /\ game.combo <= game.best_combo
    /\ game.best_combo <= game.hits
    /\ game.score >= MOLE_SCORE * game.hits

(* No more moles are out than the time of the game allows, none outstays   *)
(* the phase it is in however late the passes are, and a hidden one is     *)
(* below the ground.                                                       *)
Outstays(m) ==
    \/ m.state \in {"rising", "falling"} /\ m.age >= RISE_TIME
    \/ m.state = "up" /\ m.age > MOLE_UP_TIME
    \/ m.state = "whacked" /\ m.age > STUN_TIME

MolesBounded ==
    /\ Cardinality(Active(game)) <= MaxActive(game)
    /\ \A h \in HOLES : game.over \/ ~Outstays(game.moles[h])
    /\ \A h \in HOLES : Hidden(h, game) => game.moles[h].rise = 0
=============================================================================
