------------------------------- MODULE Tower -------------------------------
(***************************************************************************)
(* The rules of drm-tower.c.  The path is a row of places 0..PATH_END, a   *)
(* tower reaches some of them.  Where a shot flies is left out: it may hit *)
(* any enemy, fly on or leave the screen, and a tower that fired is ready  *)
(* again some time later.  Towers are in the free cells the cursor can be  *)
(* taken to, so the cursor itself is left out, as are the effects.         *)
(***************************************************************************)
EXTENDS Integers, FiniteSets, FiniteSetsExt

CONSTANTS
    CELLS, REACH,                   \* cells for towers; REACH[c]: places in range
    PATH_END,
    MAX_ENEMIES, MAX_TOWERS, MAX_PROJECTILES,
    NORMAL_HP, TANK_HP, SLOW, FAST, \* 2, 4; places a pass
    TOWER_COST, ENEMY_REWARD, STARTING_GOLD, STARTING_LIVES,
    FIRST_WAVE, WAVE_BASE, WAVE_STEP,           \* 5, 5, 2: enemies of a wave
    SPAWN_INTERVAL, SPAWN_STEP, SPAWN_MIN,      \* 1500 ms, 50 ms, 500 ms
    PAUSE,                          \* 2000 ms: "brief pause between waves"
    MaxWave, MaxLate                \* bounds: waves; time of a pass

VARIABLE game

Slots == 1..MAX_ENEMIES
NoEnemy == [at |-> -1, hp |-> 0, speed |-> 0]
Active(g) == {i \in Slots : g.enemies[i] # NoEnemy}

(* since_spawn: now - last_spawn_time, negative while that is to come.     *)
game_init ==
    [towers |-> {}, ready |-> {}, enemies |-> [i \in Slots |-> NoEnemy],
     projectiles |-> 0, gold |-> STARTING_GOLD, lives |-> STARTING_LIVES,
     score |-> 0, wave |-> 1, spawned |-> 0, per_wave |-> FIRST_WAVE,
     interval |-> SPAWN_INTERVAL, since_spawn |-> 0, over |-> FALSE]

-----------------------------------------------------------------------------
(* game_update, in the order of its parts                                  *)
place_tower(g, c) ==
    IF /\ c \in CELLS \ g.towers /\ g.gold >= TOWER_COST
       /\ Cardinality(g.towers) < MAX_TOWERS
    THEN [g EXCEPT !.towers = @ \cup {c}, !.ready = @ \cup {c}, !.gold = @ - TOWER_COST]
    ELSE g

Kinds(wave) ==
    {[at |-> 0, hp |-> NORMAL_HP + wave \div 2, speed |-> SLOW]}
    \cup (IF wave >= 2 THEN {[at |-> 0, hp |-> 1, speed |-> FAST]} ELSE {})
    \cup (IF wave >= 3 THEN {[at |-> 0, hp |-> TANK_HP + wave, speed |-> SLOW]} ELSE {})

spawn_enemy(g) ==
    IF Active(g) = Slots THEN {g}
    ELSE {[g EXCEPT !.enemies[Min(Slots \ Active(g))] = e] : e \in Kinds(g.wave)}

(* now - last_spawn_time > spawn_interval_ms, in uint64_t: when the last   *)
(* time is still to come the difference wraps round and is very large.     *)
Longer(since, interval) == since < 0 \/ since > interval

(* With a full table the enemy is counted and does not come.               *)
Spawn(g) ==
    IF Longer(g.since_spawn, g.interval) /\ g.spawned < g.per_wave
    THEN spawn_enemy([g EXCEPT !.spawned = @ + 1, !.since_spawn = 0])
    ELSE {g}

LoseLife(g) == [g EXCEPT !.lives = IF @ > 1 THEN @ - 1 ELSE 0, !.over = @ \/ g.lives <= 1]

MoveEnemy(g, i) ==
    LET at == g.enemies[i].at + g.enemies[i].speed
    IN  IF i \notin Active(g) THEN g
        ELSE IF at >= PATH_END THEN LoseLife([g EXCEPT !.enemies[i] = NoEnemy])
        ELSE [g EXCEPT !.enemies[i].at = at]

MoveEnemies(g) ==
    LET after[i \in 0..MAX_ENEMIES] == IF i = 0 THEN g ELSE MoveEnemy(after[i - 1], i)
    IN  after[MAX_ENEMIES]

InRange(g, c) == \E i \in Active(g) : g.enemies[i].at \in REACH[c]

(* Every ready tower with an enemy in range fires, while there are free    *)
(* projectiles; which towers get the last of them is open.                 *)
FireTowers(g) ==
    LET aim == {c \in g.ready : InRange(g, c)}
        free == MAX_PROJECTILES - g.projectiles
    IN  {[g EXCEPT !.ready = @ \ fire, !.projectiles = @ + Cardinality(fire)] :
            fire \in {f \in SUBSET aim :
                         Cardinality(f) = Min({Cardinality(aim), free})}}

Damage(g, i) ==
    LET h == [g EXCEPT !.enemies[i].hp = @ - 1, !.projectiles = @ - 1]
    IN  IF h.enemies[i].hp > 0 THEN h
        ELSE [h EXCEPT !.enemies[i] = NoEnemy, !.gold = @ + ENEMY_REWARD,
                       !.score = @ + ENEMY_REWARD]

(* Any number of the projectiles hit or leave in one pass.                 *)
Projectiles(g) ==
    LET Ends(h) == {[h EXCEPT !.projectiles = @ - 1]} \cup {Damage(h, i) : i \in Active(h)}
        after[n \in 0..g.projectiles] ==
            IF n = 0 THEN {g} ELSE UNION {{h} \cup Ends(h) : h \in after[n - 1]}
    IN  after[g.projectiles]

Interval(wave) == IF SPAWN_INTERVAL - wave * SPAWN_STEP < SPAWN_MIN THEN SPAWN_MIN
                  ELSE SPAWN_INTERVAL - wave * SPAWN_STEP

(* none: no enemy was on the path when enemies moved.                      *)
NextWave(g, none) ==
    IF ~(g.spawned >= g.per_wave /\ none) THEN g
    ELSE [g EXCEPT !.wave = @ + 1, !.spawned = 0,
                   !.per_wave = WAVE_BASE + (g.wave + 1) * WAVE_STEP,
                   !.interval = Interval(g.wave + 1), !.since_spawn = -PAUSE]

(* Time goes by, and towers become ready.                                  *)
Elapse(g, late) ==
    {[g EXCEPT !.since_spawn = Min({@ + late, SPAWN_INTERVAL + 1}), !.ready = r] :
        r \in {s \in SUBSET g.towers : g.ready \subseteq s}}

Fight(g) ==
    LET fought == UNION {Projectiles(f) : f \in FireTowers(MoveEnemies(g))}
    IN  {NextWave(h, Active(g) = {}) : h \in fought}

(* What a poll leaves: space pressed since the last one in a cell, to which*)
(* the arrows have moved the cursor, or not pressed.                       *)
input_poll == {{}} \cup {{c} : c \in CELLS}

game_update(g, place, late) ==
    LET built(h) == IF place = {} THEN h ELSE place_tower(h, CHOOSE c \in place : TRUE)
    IN  UNION {Fight(s) : s \in UNION {Spawn(built(h)) : h \in Elapse(g, late)}}

Update == /\ ~game.over /\ game.wave < MaxWave
          /\ \E place \in input_poll, late \in 1..MaxLate :
                game' \in game_update(game, place, late)

(* The loop runs on; only quitting helps.                                  *)
Over == game.over /\ UNCHANGED game

Init == game = game_init
Next == Update \/ Over
Spec == Init /\ [][Next]_game

-----------------------------------------------------------------------------
TypeOK ==
    /\ game.towers \subseteq CELLS /\ game.ready \subseteq game.towers
    /\ \A i \in Active(game) : game.enemies[i].at \in 0..(PATH_END - 1)
    /\ game.projectiles \in 0..MAX_PROJECTILES /\ game.lives \in 0..STARTING_LIVES

(* The gold is what there was at the start and what was earned, less the   *)
(* towers that stand: none is paid twice, or for nothing, whatever else    *)
(* happens in the pass.                                                    *)
GoldAccount ==
    game.gold = STARTING_GOLD + game.score - TOWER_COST * Cardinality(game.towers)

(* A wave is over when all of its enemies have come and gone: none of it   *)
(* is still on the path, or in the next one, when that begins.             *)
WaveAccount ==
    /\ game.spawned \in 0..game.per_wave
    /\ Cardinality(Active(game)) <= game.spawned
    /\ game.over <=> game.lives = 0

(* "brief pause between waves" (drm-tower.c:1367): no enemy comes before   *)
(* the time that was set as that of the last one.                          *)
PauseBetweenWaves ==
    [][game.since_spawn < -MaxLate => game'.spawned = game.spawned]_game
=============================================================================
