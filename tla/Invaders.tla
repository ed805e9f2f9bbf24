------------------------------ MODULE Invaders ------------------------------
(***************************************************************************)
(* The rules of drm-invaders.c.  Positions are whole units of a coarse     *)
(* grid; y grows downwards.  A bullet is a point (its drawn size is part   *)
(* of the sizes of what it meets).  A finger on the screen puts the ship   *)
(* anywhere, so where the keys would move it adds nothing.  Left out:      *)
(* explosions, the walking frame of the aliens, the score.                 *)
(***************************************************************************)
EXTENDS Integers, FiniteSets

CONSTANTS
    SCREEN_W, SCREEN_H, SHIP_WIDTH, SHIP_Y,
    ALIEN_ROWS, ALIEN_COLS, ALIEN_WIDTH, ALIEN_HEIGHT,
    ALIEN_SPACING_X, ALIEN_SPACING_Y, START_X, START_Y,
    EDGE,                       \* 10: how near the edge aliens turn
    ALIEN_MOVE_SPEED, ALIEN_DROP_AMOUNT,
    ALIEN_INITIAL_DELAY, ALIEN_MIN_DELAY,
    LEVEL_STEP,                 \* 3: passes a level takes off the delay
    BULLET_SPEED, ALIEN_BULLET_SPEED,
    MAX_BULLETS, MAX_ALIEN_BULLETS, FIRE_COOLDOWN,
    SHIELD,                     \* cells <<x, y>> of all shields
    LIVES,                      \* 3
    MaxLevel,                   \* bound: levels played
    MaxDrop                     \* bound: how far the aliens are after restarts

VARIABLE game

Aliens == (0..(ALIEN_ROWS - 1)) \X (0..(ALIEN_COLS - 1))     \* <<row, column>>
Off == <<-1, -1>>               \* a slot without a bullet
ShipX == 0..(SCREEN_W - SHIP_WIDTH)

AlienX(g, a) == g.offset_x + a[2] * ALIEN_SPACING_X
AlienY(g, a) == g.offset_y + a[1] * ALIEN_SPACING_Y

StartDelay(level) ==
    LET d == ALIEN_INITIAL_DELAY - (level - 1) * LEVEL_STEP
    IN  IF d < ALIEN_MIN_DELAY THEN ALIEN_MIN_DELAY ELSE d

init_aliens(g) ==
    [g EXCEPT !.alive = Aliens, !.offset_x = START_X, !.offset_y = START_Y,
              !.direction = 1, !.move_timer = 0,
              !.move_delay = StartDelay(g.level)]

NoBullets(n) == [i \in 1..n |-> Off]

init_shields(g) == [g EXCEPT !.shields = SHIELD]

game_init ==
    init_shields(init_aliens([alive |-> {}, offset_x |-> 0, offset_y |-> 0, direction |-> 1,
                 move_timer |-> 0, move_delay |-> 0,
                 bullets |-> NoBullets(MAX_BULLETS),
                 alien_bullets |-> NoBullets(MAX_ALIEN_BULLETS),
                 shields |-> {}, ship |-> (SCREEN_W - SHIP_WIDTH) \div 2,
                 cooldown |-> 0, lives |-> LIVES, level |-> 1,
                 paused |-> FALSE, over |-> FALSE]))

-----------------------------------------------------------------------------
(* input_process: the pause, and the space bar after the end.              *)
Pause == ~game.over /\ game' = [game EXCEPT !.paused = ~@]

Restart == /\ game.over /\ game.offset_y <= MaxDrop
           /\ game' = [game EXCEPT !.over = FALSE, !.lives = LIVES, !.level = 1]

-----------------------------------------------------------------------------
(* game_update, in the order of the code                                   *)
FreeSlot(bs) == {i \in DOMAIN bs : bs[i] = Off /\ \A j \in 1..i - 1 : bs[j] # Off}

Fire(g) ==
    [g EXCEPT !.bullets = [i \in DOMAIN @ |->
                  IF i \in FreeSlot(@) THEN <<g.ship + SHIP_WIDTH \div 2, SHIP_Y - 1>>
                                       ELSE @[i]],
              !.cooldown = IF FreeSlot(g.bullets) # {} THEN FIRE_COOLDOWN ELSE @]

MoveShip(g, x, fire) ==
    LET h == [g EXCEPT !.ship = x]
        f == IF fire /\ g.cooldown = 0 THEN Fire(h) ELSE h
    IN  [f EXCEPT !.cooldown = IF @ > 0 THEN @ - 1 ELSE @]

MoveBullets(g) ==
    [g EXCEPT
      !.bullets = [i \in DOMAIN @ |->
          IF @[i] = Off \/ @[i][2] < BULLET_SPEED THEN Off
          ELSE <<@[i][1], @[i][2] - BULLET_SPEED>>],
      !.alien_bullets = [i \in DOMAIN @ |->
          IF @[i] = Off \/ @[i][2] + ALIEN_BULLET_SPEED > SCREEN_H THEN Off
          ELSE <<@[i][1], @[i][2] + ALIEN_BULLET_SPEED>>]]

AtEdge(g) ==
    \E a \in g.alive :
       \/ g.direction > 0 /\ AlienX(g, a) + ALIEN_WIDTH >= SCREEN_W - EDGE
       \/ g.direction < 0 /\ AlienX(g, a) <= EDGE

MoveAliens(g) ==
    IF g.move_timer + 1 < g.move_delay
    THEN [g EXCEPT !.move_timer = @ + 1]
    ELSE IF AtEdge(g)
    THEN [g EXCEPT !.move_timer = 0, !.offset_y = @ + ALIEN_DROP_AMOUNT,
                   !.direction = -@,
                   !.move_delay = IF @ > ALIEN_MIN_DELAY THEN @ - 1 ELSE @]
    ELSE [g EXCEPT !.move_timer = 0,
                   !.offset_x = @ + g.direction * ALIEN_MOVE_SPEED]

(* No shot, or one by the lowest alien of a column.                        *)
Lowest(g) == {a \in g.alive : \A b \in g.alive : b[2] = a[2] => b[1] <= a[1]}

AlienFire(g) ==
    {g} \cup
    {[g EXCEPT !.alien_bullets = [i \in DOMAIN @ |->
          IF i \in FreeSlot(@)
          THEN <<AlienX(g, a) + ALIEN_WIDTH \div 2, AlienY(g, a) + ALIEN_HEIGHT>>
          ELSE @[i]]] : a \in Lowest(g)}

In(p, x, y, w, h) == p[1] >= x /\ p[1] < x + w /\ p[2] >= y /\ p[2] < y + h

(* The first alien, row by row, that a bullet is in.                       *)
Before(a, b) == a[1] < b[1] \/ (a[1] = b[1] /\ a[2] < b[2])

HitAlien(g, p) ==
    LET hit == {a \in g.alive :
                   In(p, AlienX(g, a), AlienY(g, a), ALIEN_WIDTH, ALIEN_HEIGHT)}
    IN  {a \in hit : \A b \in hit \ {a} : Before(a, b)}

KillDelay(n) == LET d == (ALIEN_INITIAL_DELAY * n) \div (ALIEN_ROWS * ALIEN_COLS)
                IN  IF d < ALIEN_MIN_DELAY THEN ALIEN_MIN_DELAY ELSE d

Kill(g, i, a) ==
    LET left == g.alive \ {a}
    IN  [g EXCEPT !.alive = left, !.bullets[i] = Off,
                  !.move_delay = IF left # {} THEN KillDelay(Cardinality(left)) ELSE @]

(* A bullet takes the cells of the shield around the one it is in.         *)
Damaged(g, p) == {c \in g.shields : (c[1] - p[1]) * (c[1] - p[1])
                                    + (c[2] - p[2]) * (c[2] - p[2]) <= 1}

BulletMeets(g, i) ==
    LET p == g.bullets[i]
    IN  IF p = Off THEN g
        ELSE IF HitAlien(g, p) # {}
        THEN Kill(g, i, CHOOSE a \in HitAlien(g, p) : TRUE)
        ELSE g

BulletShield(g, i) ==
    LET p == g.bullets[i]
    IN  IF p \in g.shields
        THEN [g EXCEPT !.bullets[i] = Off, !.shields = @ \ Damaged(g, p)] ELSE g

AlienBulletMeets(g, i) ==
    LET p == g.alien_bullets[i]
    IN  IF p = Off THEN g
        ELSE IF p \in g.shields
        THEN [g EXCEPT !.alien_bullets[i] = Off, !.shields = @ \ Damaged(g, p)]
        ELSE IF In(p, g.ship, SHIP_Y, SHIP_WIDTH, SCREEN_H - SHIP_Y)
        THEN [g EXCEPT !.alien_bullets[i] = Off, !.lives = @ - 1,
                       !.over = @ \/ g.lives <= 1]
        ELSE g

(* The loop over the slots, from 1 to n.                                   *)
Loop(Op(_, _), g, n) ==
    LET f[i \in 0..n] == IF i = 0 THEN g ELSE Op(f[i - 1], i) IN f[n]

Collide(g) ==
    Loop(AlienBulletMeets,
         Loop(BulletShield, Loop(BulletMeets, g, MAX_BULLETS), MAX_BULLETS),
         MAX_ALIEN_BULLETS)

Reached(g) == \E a \in g.alive : AlienY(g, a) + ALIEN_HEIGHT >= SHIP_Y

(* Mutant: an empty formation ends the game.                               *)
FinishCleared(g) ==
    IF Reached(g) \/ g.alive = {} THEN [g EXCEPT !.over = TRUE] ELSE g

Finish(g) ==
    IF Reached(g) THEN [g EXCEPT !.over = TRUE]
    ELSE IF g.alive = {}
    THEN LET h == [g EXCEPT !.level = @ + 1]
         IN  [init_shields(init_aliens(h)) EXCEPT
                !.bullets = NoBullets(MAX_BULLETS),
                !.alien_bullets = NoBullets(MAX_ALIEN_BULLETS)]
    ELSE g

Playing == ~game.over /\ ~game.paused

Update ==
    /\ Playing /\ game.level <= MaxLevel
    /\ \E x \in ShipX, fire \in BOOLEAN :
       \E g \in AlienFire(MoveAliens(MoveBullets(MoveShip(game, x, fire)))) :
          game' = Finish(Collide(g))

Init == game = game_init
input_process == Pause \/ Restart
Next == input_process \/ Update
Spec == Init /\ [][Next]_game

-----------------------------------------------------------------------------
TypeOK ==
    /\ game.alive \subseteq Aliens /\ game.shields \subseteq SHIELD
    /\ game.bullets \in [1..MAX_BULLETS -> Int \X Int]
    /\ game.alien_bullets \in [1..MAX_ALIEN_BULLETS -> Int \X Int]
    /\ game.direction \in {-1, 1} /\ game.ship \in ShipX
    /\ game.move_delay \in ALIEN_MIN_DELAY..ALIEN_INITIAL_DELAY
    /\ game.move_timer \in Nat /\ game.lives \in Int

(* Whichever columns are shot away, the formation turns before it leaves   *)
(* the screen.                                                             *)
FormationInside ==
    \A a \in game.alive : /\ AlienX(game, a) >= 0
                          /\ AlienX(game, a) + ALIEN_WIDTH <= SCREEN_W

(* The game is over when the ship is lost or reached, and only then: not   *)
(* by a level cleared in the same pass, nor with aliens left.  There is    *)
(* always something to shoot at.                                           *)
EndExplained ==
    /\ game.over => game.lives <= 0 \/ Reached(game)
    /\ game.lives <= 0 => game.over
    /\ game.alive # {}
=============================================================================
