------------------------------- MODULE Catch -------------------------------
(***************************************************************************)
(* The rules of drm-catch.c on a few columns and rows: objects come in at  *)
(* row 0 and fall, the basket catches what is in its rows and columns.     *)
(* Time is in units of the spawn interval's steps; a pass may take any     *)
(* time up to MaxLate.  Left out: stars.                                   *)
(***************************************************************************)
EXTENDS Integers, FiniteSets, FiniteSetsExt

CONSTANTS
    WIDTH, HEIGHT,              \* columns 0.., rows 0.. until an object is gone
    BASKET_ROWS,                \* the rows in which it catches
    MAX_FALLING_OBJS, SPEEDS,
    SPAWN_INTERVAL, SPAWN_STEP, SPAWN_MIN, \* 800 ms, 50 ms, 200 ms
    LEVEL_SCORE,                \* 10: fruits to the next level
    MAX_LIVES,
    MaxFruits, MaxLate          \* bounds: fruits caught; time a pass takes

VARIABLE game

Slots == 1..MAX_FALLING_OBJS
Cols == 0..(WIDTH - 1)
Falling == [x : Cols, y : 0..(HEIGHT - 1), speed : SPEEDS, bomb : BOOLEAN]
NoObject == [x |-> -1, y |-> -1, speed |-> 0, bomb |-> FALSE]

game_init ==
    [basket |-> WIDTH \div 2, objects |-> [i \in Slots |-> NoObject],
     fruits |-> 0, lives |-> MAX_LIVES, level |-> 1,
     interval |-> SPAWN_INTERVAL, since |-> 0, over |-> FALSE]

-----------------------------------------------------------------------------
(* game_update, in the order of its parts                                  *)
Clamped(x) == IF x < 0 THEN 0 ELSE IF x > WIDTH - 1 THEN WIDTH - 1 ELSE x

(* The keys held move the basket: -1, 0 (none or both) or 1.               *)
MoveBasket(g, keys) == [g EXCEPT !.basket = Clamped(@ + keys)]

FreeSlots(g) == {i \in Slots : g.objects[i] = NoObject}

(* since: the time from the last spawn, as far as it is told apart.        *)
spawn_object(g) ==
    IF FreeSlots(g) = {} THEN {[g EXCEPT !.since = 0]}
    ELSE {[g EXCEPT !.since = 0, !.objects[Min(FreeSlots(g))] = o] :
             o \in {f \in Falling : f.y = 0}}

Spawn(g, late) ==
    LET since == Min({g.since + late, SPAWN_INTERVAL + 1})
    IN  IF since > g.interval THEN spawn_object(g)
        ELSE {[g EXCEPT !.since = since]}

Interval(level) ==
    IF SPAWN_INTERVAL - level * SPAWN_STEP < SPAWN_MIN THEN SPAWN_MIN
    ELSE SPAWN_INTERVAL - level * SPAWN_STEP

CatchBomb(g) == [g EXCEPT !.lives = IF @ > 1 THEN @ - 1 ELSE 0,
                          !.over = @ \/ g.lives <= 1]

CatchFruit(g) ==
    LET level == 1 + (g.fruits + 1) \div LEVEL_SCORE
    IN  IF level > g.level
        THEN [g EXCEPT !.fruits = @ + 1, !.level = level, !.interval = Interval(level)]
        ELSE [g EXCEPT !.fruits = @ + 1]

(* One object falls: caught, gone below the screen, or still falling.      *)
Fall(g, i) ==
    LET o == [g.objects[i] EXCEPT !.y = @ + g.objects[i].speed]
        gone == [g EXCEPT !.objects[i] = NoObject]
    IN  CASE g.objects[i] = NoObject -> g
          [] OTHER ->
               IF o.y \in BASKET_ROWS /\ o.x = g.basket
               THEN IF o.bomb THEN CatchBomb(gone) ELSE CatchFruit(gone)
               ELSE IF o.y >= HEIGHT THEN gone ELSE [g EXCEPT !.objects[i] = o]

FallAll(g) ==
    LET after[i \in 0..MAX_FALLING_OBJS] == IF i = 0 THEN g ELSE Fall(after[i - 1], i)
    IN  after[MAX_FALLING_OBJS]

game_update(g, keys, late) == {FallAll(h) : h \in Spawn(MoveBasket(g, keys), late)}

(* The arrows held after a poll: left, none or both, right.                *)
input_poll == -1..1

Update == /\ ~game.over /\ game.fruits < MaxFruits
          /\ \E keys \in input_poll, late \in 1..MaxLate : game' \in game_update(game, keys, late)

(* The loop runs on; only quitting helps.                                  *)
Over == game.over /\ UNCHANGED game

Init == game = game_init
Next == Update \/ Over
Spec == Init /\ [][Next]_game

-----------------------------------------------------------------------------
TypeOK ==
    /\ game.basket \in Cols /\ game.objects \in [Slots -> Falling \cup {NoObject}]
    /\ game.lives \in 0..MAX_LIVES /\ game.since \in 0..(SPAWN_INTERVAL + 1)

(* The level and how fast objects come are those of what was caught, also  *)
(* when several are caught in one pass.                                    *)
LevelOfFruits ==
    /\ game.level = 1 + game.fruits \div LEVEL_SCORE
    /\ game.interval = IF game.level = 1 THEN SPAWN_INTERVAL ELSE Interval(game.level)

(* The game ends with the last life, and several bombs caught in one pass  *)
(* cost no more than that.                                                 *)
EndsWithLives == game.over <=> game.lives = 0

(* Nothing falls through the basket: what is in its column when it comes   *)
(* into its rows is caught, however fast it falls.                         *)
NothingFallsThrough ==
    \A i \in Slots : game.objects[i].y \in BASKET_ROWS => game.objects[i].x # game.basket
=============================================================================
