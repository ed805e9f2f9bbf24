------------------------------ MODULE Shooter ------------------------------
(***************************************************************************)
(* The rules of drm-shooter.c on columns and rows.  A bullet goes up one   *)
(* row a pass, an enemy comes down by its speed; they meet in the same     *)
(* column, one row apart at most.  Time is in units of the steps in which  *)
(* enemies come faster.  Left out: explosions and stars.                   *)
(***************************************************************************)
EXTENDS Integers, FiniteSets, FiniteSetsExt

CONSTANTS
    WIDTH, SCREEN_H, SHIP_Y,
    MAX_BULLETS, FIRE_COOLDOWN, MAX_ENEMIES, SPEEDS,
    SPAWN_INTERVAL, SPAWN_STEP, SPAWN_MIN,  \* 1200 ms, 80 ms, 300 ms
    LEVEL_KILLS,                            \* 8: kills to the next level
    MAX_LIVES,
    MaxKills, MaxLate                       \* bounds: kills; time of a pass

VARIABLE game

Slots == 1..MAX_ENEMIES
Cols == 0..(WIDTH - 1)
NoEnemy == [x |-> -1, y |-> -9, speed |-> 0]

(* since_spawn, since_fire: the times gone by, as far as they are told     *)
(* apart; the first shot is free.                                          *)
game_init ==
    [ship |-> WIDTH \div 2, bullets |-> {}, enemies |-> [i \in Slots |-> NoEnemy],
     kills |-> 0, lives |-> MAX_LIVES, level |-> 1, over |-> FALSE,
     interval |-> SPAWN_INTERVAL, since_spawn |-> 0, since_fire |-> FIRE_COOLDOWN]

-----------------------------------------------------------------------------
(* game_update, in the order of its parts                                  *)
Least(a, b) == IF a < b THEN a ELSE b
Clamp(x) == IF x < 0 THEN 0 ELSE IF x > WIDTH - 1 THEN WIDTH - 1 ELSE x

Elapse(g, late) == [g EXCEPT !.since_fire = Least(@ + late, FIRE_COOLDOWN),
                             !.since_spawn = Least(@ + late, SPAWN_INTERVAL + 1)]

MoveShip(g, move) == [g EXCEPT !.ship = Clamp(@ + move)]

(* Mutant: the table of bullets is never full.                             *)
FireAlways(g, fire) ==
    IF fire /\ g.since_fire >= FIRE_COOLDOWN
    THEN [g EXCEPT !.bullets = @ \cup {<<g.ship, SHIP_Y - 1>>}, !.since_fire = 0]
    ELSE g

fire_bullet(g, fire) ==
    IF fire /\ g.since_fire >= FIRE_COOLDOWN /\ Cardinality(g.bullets) < MAX_BULLETS
    THEN [g EXCEPT !.bullets = @ \cup {<<g.ship, SHIP_Y - 1>>}, !.since_fire = 0]
    ELSE g

FreeSlots(g) == {i \in Slots : g.enemies[i] = NoEnemy}

spawn_enemy(g) ==
    IF FreeSlots(g) = {} THEN {g}
    ELSE {[g EXCEPT !.enemies[Min(FreeSlots(g))] = [x |-> x, y |-> -1, speed |-> v]] :
             x \in Cols, v \in SPEEDS}

Spawn(g) == IF g.since_spawn > g.interval THEN spawn_enemy([g EXCEPT !.since_spawn = 0])
            ELSE {g}

MoveBullets(g) ==
    [g EXCEPT !.bullets = {b \in {<<c[1], c[2] - 1>> : c \in @} : b[2] >= -1}]

Meets(e, x, y) == e.x = x /\ e.y - y \in -1..1

LoseLife(g) == [g EXCEPT !.lives = IF @ > 1 THEN @ - 1 ELSE 0, !.over = @ \/ g.lives <= 1]

Interval(level) == IF SPAWN_INTERVAL - level * SPAWN_STEP < SPAWN_MIN THEN SPAWN_MIN
                   ELSE SPAWN_INTERVAL - level * SPAWN_STEP

Kill(g) ==
    LET level == 1 + (g.kills + 1) \div LEVEL_KILLS
    IN  IF level > g.level
        THEN [g EXCEPT !.kills = @ + 1, !.level = level, !.interval = Interval(level)]
        ELSE [g EXCEPT !.kills = @ + 1]

(* One enemy: it runs into the ship, is shot by one of the bullets that    *)
(* reach it, or comes down, in the end off the screen.                     *)
Enemy(g, i) ==
    LET e == [g.enemies[i] EXCEPT !.y = @ + g.enemies[i].speed]
        gone == [g EXCEPT !.enemies[i] = NoEnemy]
        near == {b \in g.bullets : Meets(e, b[1], b[2])}
    IN  CASE g.enemies[i] = NoEnemy -> {g}
          [] g.enemies[i] # NoEnemy /\ Meets(e, g.ship, SHIP_Y) -> {LoseLife(gone)}
          [] OTHER ->
               IF near # {} THEN {Kill([gone EXCEPT !.bullets = @ \ {b}]) : b \in near}
               ELSE {IF e.y > SCREEN_H THEN gone ELSE [g EXCEPT !.enemies[i] = e]}

Enemies(g) ==
    LET after[i \in 0..MAX_ENEMIES] ==
            IF i = 0 THEN {g} ELSE UNION {Enemy(h, i) : h \in after[i - 1]}
    IN  after[MAX_ENEMIES]

game_update(g, move, fire, late) ==
    UNION {Enemies(MoveBullets(h)) :
              h \in Spawn(fire_bullet(MoveShip(Elapse(g, late), move), fire))}

(* The keys held after a poll.                                             *)
input_poll == [arrows : -1..1, fire : BOOLEAN]

Update == /\ ~game.over /\ game.kills < MaxKills
          /\ \E keys \in input_poll, late \in 1..MaxLate :
                game' \in game_update(game, keys.arrows, keys.fire, late)

(* The loop runs on; only quitting helps.                                  *)
Over == game.over /\ UNCHANGED game

Init == game = game_init
Next == Update \/ Over
Spec == Init /\ [][Next]_game

-----------------------------------------------------------------------------
TypeOK ==
    /\ game.ship \in Cols /\ game.bullets \subseteq (Cols \X (-1..SHIP_Y))
    /\ Cardinality(game.bullets) <= MAX_BULLETS /\ game.lives \in 0..MAX_LIVES
    /\ \A i \in Slots \ FreeSlots(game) : game.enemies[i].y \in -1..SCREEN_H

(* Nothing that meets goes unseen: after a pass no enemy is at the ship or *)
(* at a bullet, so neither flies through another, however their steps and  *)
(* the order of the table fall.                                            *)
NoHitMissed ==
    \A i \in Slots \ FreeSlots(game) :
        /\ ~Meets(game.enemies[i], game.ship, SHIP_Y)
        /\ \A b \in game.bullets : ~Meets(game.enemies[i], b[1], b[2])

(* The level and how fast enemies come are those of the kills, and the     *)
(* game ends with the last life.                                           *)
LevelOfKills ==
    /\ game.level = 1 + game.kills \div LEVEL_KILLS
    /\ game.interval = IF game.level = 1 THEN SPAWN_INTERVAL ELSE Interval(game.level)
    /\ game.over <=> game.lives = 0
=============================================================================
