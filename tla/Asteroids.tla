----------------------------- MODULE Asteroids -----------------------------
(***************************************************************************)
(* The rules of drm-asteroids.c.  Where things are and how they fly is     *)
(* left out: whether two of them touch is open, so a pass may have every   *)
(* hit its loops could find.  Asteroids of a size are alike, the table     *)
(* they are kept in is how many there are of each.  Left out, too: score,  *)
(* particles and stars.                                                    *)
(***************************************************************************)
EXTENDS Integers, FiniteSets, FiniteSetsExt

CONSTANTS
    MAX_BULLETS, BULLET_LIFE, FIRE_COOLDOWN, MAX_ASTEROIDS,
    RESPAWN,            \* 120: passes until a lost ship is back
    LIVES,              \* 3
    WAVE_BASE,          \* 3: a wave n has WAVE_BASE + n asteroids
    MaxWave             \* bound: waves in one game

VARIABLE game

SMALL == 1
LARGE == 3
Sizes == SMALL..LARGE
Slots == 1..MAX_BULLETS

Count(rocks) == rocks[1] + rocks[2] + rocks[3]
NoRocks == [s \in Sizes |-> 0]
Least(a, b) == IF a < b THEN a ELSE b

(* Called when the table is empty.                                         *)
spawn_wave(g) ==
    LET count == Least(WAVE_BASE + g.wave + 1, MAX_ASTEROIDS \div 2)
    IN  [g EXCEPT !.wave = @ + 1, !.rocks = [NoRocks EXCEPT ![LARGE] = count]]

game_init ==
    spawn_wave([alive |-> TRUE, respawn |-> 0, cooldown |-> 0,
                bullets |-> [i \in Slots |-> 0], rocks |-> NoRocks,
                lives |-> LIVES, wave |-> 0, paused |-> FALSE, over |-> FALSE])

-----------------------------------------------------------------------------
(* input_process                                                           *)
Pause == game' = [game EXCEPT !.paused = ~@]

(* The next wave comes with the next update; bullets fly on.               *)
Restart == /\ game.over
           /\ game' = [game EXCEPT !.over = FALSE, !.lives = LIVES, !.wave = 0,
                                   !.alive = TRUE, !.rocks = NoRocks]

-----------------------------------------------------------------------------
(* game_update, in the order of its parts                                  *)
FreeSlots(g) == {i \in Slots : g.bullets[i] = 0}

Fire(g, key) ==
    IF key /\ g.cooldown = 0 /\ FreeSlots(g) # {}
    THEN [g EXCEPT !.bullets[Min(FreeSlots(g))] = BULLET_LIFE,
                   !.cooldown = FIRE_COOLDOWN]
    ELSE g

CoolDown(g) == [g EXCEPT !.cooldown = IF @ > 0 THEN @ - 1 ELSE 0]

Respawn(g) == IF g.respawn > 1 THEN [g EXCEPT !.respawn = @ - 1]
              ELSE [g EXCEPT !.respawn = 0, !.alive = TRUE]

MoveShip(g, key) == IF g.alive THEN CoolDown(Fire(g, key)) ELSE Respawn(g)

MoveBullets(g) ==
    [g EXCEPT !.bullets = [i \in Slots |-> IF @[i] > 0 THEN @[i] - 1 ELSE 0]]

(* The two halves take free entries, one of which is the entry of the      *)
(* asteroid that broke; with a full table the other half is lost.          *)
Split(rocks, s) ==
    LET rest == [rocks EXCEPT ![s] = @ - 1]
    IN  IF s = SMALL THEN rest
        ELSE [rest EXCEPT ![s - 1] = @ + Least(2, MAX_ASTEROIDS - Count(rest))]

Hits(g, i) ==
    IF g.bullets[i] = 0 THEN {g}
    ELSE {g} \cup {[g EXCEPT !.bullets[i] = 0, !.rocks = Split(g.rocks, s)] :
                      s \in {t \in Sizes : g.rocks[t] > 0}}

HitRocks(g) ==
    LET after[i \in 0..MAX_BULLETS] ==
            IF i = 0 THEN {g} ELSE UNION {Hits(h, i) : h \in after[i - 1]}
    IN  after[MAX_BULLETS]

Wreck(g) == [g EXCEPT !.alive = FALSE, !.respawn = RESPAWN,
                      !.lives = @ - 1, !.over = (g.lives <= 1)]

HitShip(g) == IF g.alive /\ Count(g.rocks) > 0 THEN {g, Wreck(g)} ELSE {g}

NextWave(g) == IF Count(g.rocks) = 0 THEN spawn_wave(g) ELSE g

game_update(g, key) ==
    {NextWave(h) : h \in UNION {HitShip(k) : k \in HitRocks(MoveBullets(MoveShip(g, key)))}}

(* Whether space is held when the events are read; the arrows steer.       *)
Held == BOOLEAN

Update == /\ ~game.paused /\ ~game.over /\ game.wave < MaxWave
          /\ \E key \in Held : game' \in game_update(game, key)

Init == game = game_init
input_process == Pause \/ Restart
Next == input_process \/ Update
Spec == Init /\ [][Next]_game

-----------------------------------------------------------------------------
TypeOK ==
    /\ game.bullets \in [Slots -> 0..BULLET_LIFE]
    /\ game.rocks \in [Sizes -> 0..MAX_ASTEROIDS] /\ Count(game.rocks) <= MAX_ASTEROIDS
    /\ game.cooldown \in 0..FIRE_COOLDOWN /\ game.respawn \in 0..RESPAWN
    /\ game.lives \in 0..LIVES /\ game.wave \in 0..MaxWave

(* The next wave comes as soon as the last asteroid is gone, even in the   *)
(* pass that takes the ship, and not before: only a restart leaves none.   *)
WaveGoesOn == (Count(game.rocks) = 0) <=> (game.wave = 0)

(* A ship that is lost is on its way back, in a game that goes on, or it   *)
(* was the last one: the player never waits for a ship that does not come. *)
ShipAccounted ==
    /\ game.over <=> game.lives = 0
    /\ ~game.alive => game.respawn > 0
    /\ game.over => ~game.alive
=============================================================================
