------------------------------- MODULE Racing -------------------------------
(***************************************************************************)
(* The rules of drm-racing.c on a road of columns and rows.  Speeds are    *)
(* whole rows a pass; a car that comes in takes a speed of its own, so     *)
(* what counts is how much faster the player is.  That the road speeds up  *)
(* by itself, a little each pass, is one more step a pass may make.  Left  *)
(* out: score, which is the way driven, particles and lines.               *)
(***************************************************************************)
EXTENDS Integers, FiniteSets, FiniteSetsExt

CONSTANTS
    ROAD,               \* columns 0..ROAD - 1
    LANES,              \* the columns other cars drive in
    SCREEN_H, PLAYER_Y, \* rows 0.. of the screen
    CAR_HEIGHT,         \* rows between two cars that touch, less one
    MAX_ENEMIES,
    SCROLL_SPEED_INIT, SCROLL_SPEED_MIN, SCROLL_SPEED_MAX,
    LIVES,              \* 3
    MaxAhead            \* bound: how far ahead a car drives out of sight

VARIABLE game

Slots == 1..MAX_ENEMIES
NoEnemy == [x |-> -1, y |-> 0, speed |-> 0]
Active(g) == {i \in Slots : g.enemies[i] # NoEnemy}

game_init ==
    [player |-> ROAD \div 2, scroll |-> SCROLL_SPEED_INIT, lives |-> LIVES,
     enemies |-> [i \in Slots |-> NoEnemy], paused |-> FALSE, over |-> FALSE]

-----------------------------------------------------------------------------
(* input_process; a touch takes the car there at once, off the road, too.  *)
Touch(x) == game' = [game EXCEPT !.player = x]

Pause == game' = [game EXCEPT !.paused = ~@]

Restart == /\ game.over
           /\ game' = [game EXCEPT !.over = FALSE, !.lives = LIVES,
                          !.scroll = SCROLL_SPEED_INIT,
                          !.enemies = [i \in Slots |-> NoEnemy]]

-----------------------------------------------------------------------------
(* game_update, in the order of its parts                                  *)
Between(v, low, high) == IF v < low THEN low ELSE IF v > high THEN high ELSE v

Steer(g, side, gas) ==
    [g EXCEPT !.player = Between(@ + side, 0, ROAD - 1),
              !.scroll = Between(@ + gas, SCROLL_SPEED_MIN, SCROLL_SPEED_MAX)]

(* Half to all of the speed of the road at that moment.                    *)
Speeds(g) == {v \in 1..g.scroll : 2 * v >= g.scroll}

spawn_enemy(g) ==
    IF Active(g) = Slots THEN {}
    ELSE {[g EXCEPT !.enemies[Min(Slots \ Active(g))] =
              [x |-> lane, y |-> -CAR_HEIGHT, speed |-> v]] : lane \in LANES, v \in Speeds(g)}

Touches(g, e) == e.x = g.player /\ e.y - PLAYER_Y \in (1 - CAR_HEIGHT)..(CAR_HEIGHT - 1)

Crash(g) == [g EXCEPT !.lives = @ - 1, !.over = @ \/ g.lives <= 1]

Drive(g, i) ==
    LET e == [g.enemies[i] EXCEPT !.y = @ + g.scroll - g.enemies[i].speed]
        gone == [g EXCEPT !.enemies[i] = NoEnemy]
    IN  IF i \notin Active(g) THEN g
        ELSE IF Touches(g, e) THEN Crash(gone)
        ELSE IF e.y > SCREEN_H + CAR_HEIGHT THEN gone
        ELSE [g EXCEPT !.enemies[i] = [e EXCEPT !.y = Max({@, -MaxAhead})]]

DriveAll(g) ==
    LET after[i \in 0..MAX_ENEMIES] == IF i = 0 THEN g ELSE Drive(after[i - 1], i)
    IN  after[MAX_ENEMIES]

game_update(g, side, gas) ==
    LET h == Steer(g, side, gas) IN {DriveAll(k) : k \in {h} \cup spawn_enemy(h)}

(* The arrows held when the events are read.                               *)
Held == [side : -1..1, gas : -1..1]

Update == /\ ~game.paused /\ ~game.over
          /\ \E keys \in Held : game' \in game_update(game, keys.side, keys.gas)

Init == game = game_init
input_process == (\E x \in -1..ROAD : Touch(x)) \/ Pause \/ Restart
Next == input_process \/ Update
Spec == Init /\ [][Next]_game

-----------------------------------------------------------------------------
TypeOK ==
    /\ game.player \in -1..ROAD /\ game.scroll \in SCROLL_SPEED_MIN..SCROLL_SPEED_MAX
    /\ \A i \in Active(game) : /\ game.enemies[i].x \in LANES
                               /\ game.enemies[i].y \in -MaxAhead..(SCREEN_H + CAR_HEIGHT)

(* The game ends in the pass that takes the last life.  Two crashes in     *)
(* that pass leave less than none, which no later pass mistakes for some.  *)
OverWithLives == game.over <=> game.lives <= 0
=============================================================================
