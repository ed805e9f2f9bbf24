------------------------------- MODULE Ninja -------------------------------
(***************************************************************************)
(* The rules of drm-ninja.c.  A fruit or bomb is thrown up and comes down  *)
(* FLIGHT passes later; where it flies is left out, so a blade that is     *)
(* held may meet any of those in the air.  Time is in units of the steps   *)
(* in which fruits come faster.  Left out: splatters and the blade's trail.*)
(***************************************************************************)
EXTENDS Integers, FiniteSets, FiniteSetsExt

CONSTANTS
    MAX_FRUITS, FLIGHT,
    SLICED,                     \* 20: passes a sliced fruit is shown
    SPAWN_INTERVAL, SPAWN_MIN,  \* 1000 ms, 400 ms
    FRUIT_SCORE, COMBO_BONUS,
    SPEED_UP,                   \* 50: points between two speeds
    MAX_MISSES,
    MaxScore, MaxLate           \* bounds: points in one game; time of a pass

VARIABLE game

Slots == 1..MAX_FRUITS
NoFruit == [bomb |-> FALSE, age |-> -1, sliced |-> FALSE]
Thrown(bomb) == [bomb |-> bomb, age |-> 0, sliced |-> FALSE]

game_init ==
    [fruits |-> [i \in Slots |-> NoFruit], score |-> 0, combo |-> 0,
     best_combo |-> 0, misses |-> 0, over |-> FALSE, slashing |-> FALSE,
     since |-> 0, interval |-> SPAWN_INTERVAL]

-----------------------------------------------------------------------------
(* game_update, in the order of its parts                                  *)
Best(g) == [g EXCEPT !.best_combo = IF g.combo > @ THEN g.combo ELSE @]

Slash(g, space) ==
    IF space THEN [g EXCEPT !.slashing = TRUE]
    ELSE [Best(g) EXCEPT !.slashing = FALSE, !.combo = 0]

FreeSlots(g) == {i \in Slots : g.fruits[i] = NoFruit}

spawn_fruit(g) ==
    IF FreeSlots(g) = {} THEN {g}
    ELSE {[g EXCEPT !.fruits[Min(FreeSlots(g))] = Thrown(bomb)] : bomb \in BOOLEAN}

(* One, sometimes two at once.                                             *)
Spawn(g, late) ==
    LET since == Min({g.since + late, SPAWN_INTERVAL + 1})
        one == spawn_fruit([g EXCEPT !.since = 0])
    IN  IF since > g.interval THEN one \cup UNION {spawn_fruit(h) : h \in one}
        ELSE {[g EXCEPT !.since = since]}

(* A sliced fruit is shown a while, its entry taken until then.            *)
Fade(g, i) ==
    IF g.fruits[i].age < SLICED THEN [g EXCEPT !.fruits[i].age = @ + 1]
    ELSE [g EXCEPT !.fruits[i] = NoFruit]

Cut(g, i) ==
    LET h == [g EXCEPT !.fruits[i].sliced = TRUE, !.fruits[i].age = 0]
    IN  IF g.fruits[i].bomb THEN [h EXCEPT !.misses = @ + 2]
        ELSE [h EXCEPT !.score = @ + FRUIT_SCORE + g.combo * COMBO_BONUS,
                       !.combo = @ + 1]

Fly(g, i) ==
    IF g.fruits[i].age + 1 < FLIGHT THEN [g EXCEPT !.fruits[i].age = @ + 1]
    ELSE [g EXCEPT !.misses = IF g.fruits[i].bomb THEN @ ELSE @ + 1,
                   !.fruits[i] = NoFruit]

Fruit(g, i) ==
    IF g.fruits[i] = NoFruit THEN {g}
    ELSE IF g.fruits[i].sliced THEN {Fade(g, i)}
    ELSE {Fly(g, i)} \cup (IF g.slashing THEN {Cut(g, i)} ELSE {})

Fruits(g) ==
    LET after[i \in 0..MAX_FRUITS] ==
            IF i = 0 THEN {g} ELSE UNION {Fruit(h, i) : h \in after[i - 1]}
    IN  after[MAX_FRUITS]

Interval(score) == Max({SPAWN_MIN, SPAWN_INTERVAL - score \div SPEED_UP})

Finish(g) ==
    LET h == IF g.misses >= MAX_MISSES THEN [Best(g) EXCEPT !.over = TRUE] ELSE g
    IN  [h EXCEPT !.interval = Interval(g.score)]

game_update(g, space, late) ==
    {Finish(h) : h \in UNION {Fruits(k) : k \in Spawn(Slash(g, space), late)}}

(* Whether space is down after a poll; the arrows only move the blade.     *)
input_poll == BOOLEAN

Update == /\ ~game.over /\ game.score < MaxScore
          /\ \E space \in input_poll, late \in 1..MaxLate :
                game' \in game_update(game, space, late)

(* The loop runs on; only quitting helps.                                  *)
Over == game.over /\ UNCHANGED game

Init == game = game_init
Next == Update \/ Over
Spec == Init /\ [][Next]_game

-----------------------------------------------------------------------------
TypeOK ==
    /\ \A i \in Slots : game.fruits[i] = NoFruit \/ game.fruits[i].age \in 0..(FLIGHT + SLICED)
    /\ {game.score, game.combo, game.best_combo, game.misses} \subseteq Nat
    /\ game.interval \in SPAWN_MIN..SPAWN_INTERVAL

(* A combo is of fruits cut without letting go of the blade, its points    *)
(* are in the score, and the best one is known when the game ends, in the  *)
(* middle of a combo too.                                                  *)
ComboCounted ==
    /\ ~game.slashing => game.combo = 0
    /\ game.score >= game.combo * FRUIT_SCORE
                       + COMBO_BONUS * ((game.combo * (game.combo - 1)) \div 2)
    /\ game.over => game.best_combo >= game.combo

(* The game ends in the pass that reaches MAX_MISSES, whichever of bombs   *)
(* and lost fruits does it.                                                *)
EndsWithMisses == game.over <=> game.misses >= MAX_MISSES
=============================================================================
