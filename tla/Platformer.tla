----------------------------- MODULE Platformer -----------------------------
(***************************************************************************)
(* The rules of drm-platformer.c on columns and rows.  The player is a     *)
(* column and the row of the feet.  Left out: the camera, particles, and   *)
(* what is only drawn.                                                     *)
(***************************************************************************)
EXTENDS Integers, Sequences, FiniteSets

CONSTANTS
    PLATFORMS,      \* sequence of [x, w, y, h]; the first one is the ground
    COINS,          \* the set of the coins' <<column, row>>
    MIN_X, MAX_X,   \* bounds: columns, the ground and what is beyond it
    BOTTOM,         \* the row below which a player is lost
    START,          \* <<column, row>>
    GRAVITY, JUMP_FORCE, MAX_FALL_SPEED,
    SLACK,          \* 2: rows deeper than a step still on a platform
    LIVES           \* 3

VARIABLE game

game_init ==
    [x |-> START[1], feet |-> START[2], vy |-> 0, on_ground |-> FALSE,
     collected |-> {}, score |-> 0, lives |-> LIVES, paused |-> FALSE, over |-> FALSE]

-----------------------------------------------------------------------------
(* input_process; the keys for moving and jumping are in Update.           *)
Pause == game' = [game EXCEPT !.paused = ~@]

(* game_update, in the order of its parts                                  *)
Jump(g, key) ==
    IF key /\ g.on_ground THEN [g EXCEPT !.vy = JUMP_FORCE, !.on_ground = FALSE] ELSE g

Move(g, vx) ==
    LET vy == IF g.vy + GRAVITY > MAX_FALL_SPEED THEN MAX_FALL_SPEED ELSE g.vy + GRAVITY
    IN  [g EXCEPT !.x = @ + vx, !.vy = vy, !.feet = @ + vy, !.on_ground = FALSE]

Over(g, p) == g.x \in p.x..(p.x + p.w - 1)

(* Mutant: what the player fell in this pass is not looked back.           *)
LandExact(g, p) ==
    IF g.vy >= 0 /\ Over(g, p) /\ g.feet = p.y
    THEN [g EXCEPT !.vy = 0, !.on_ground = TRUE]
    ELSE g

Land(g, p) ==
    IF g.vy >= 0 /\ Over(g, p) /\ g.feet \in p.y..(p.y + p.h + g.vy + SLACK)
    THEN [g EXCEPT !.feet = p.y, !.vy = 0, !.on_ground = TRUE]
    ELSE g

LandAll(g) ==
    LET after[i \in 0..Len(PLATFORMS)] ==
            IF i = 0 THEN g ELSE Land(after[i - 1], PLATFORMS[i])
    IN  after[Len(PLATFORMS)]

Fall(g) ==
    IF g.feet <= BOTTOM THEN g
    ELSE IF g.lives <= 1 THEN [g EXCEPT !.lives = @ - 1, !.over = TRUE]
    ELSE [g EXCEPT !.lives = @ - 1, !.x = START[1], !.feet = START[2], !.vy = 0]

Collect(g) ==
    LET found == {c \in COINS \ g.collected : c = <<g.x, g.feet>>}
    IN  [g EXCEPT !.collected = @ \cup found, !.score = @ + 100 * Cardinality(found)]

game_update(g, vx, jump) == Collect(Fall(LandAll(Move(Jump(g, jump), vx))))

(* The keys held when the events are read.                                 *)
Held == [arrows : -1..1, jump : BOOLEAN]

Update == /\ ~game.paused /\ ~game.over
          /\ \E keys \in Held :
                /\ game.x + keys.arrows \in MIN_X..MAX_X
                /\ game' = game_update(game, keys.arrows, keys.jump)

Init == game = game_init
Next == Pause \/ Update
Spec == Init /\ [][Next]_game

-----------------------------------------------------------------------------
TypeOK ==
    /\ game.x \in MIN_X..MAX_X /\ game.vy \in JUMP_FORCE..MAX_FALL_SPEED
    /\ game.feet \in Int /\ game.lives \in 0..LIVES /\ game.collected \subseteq COINS

(* Nobody falls through the ground, however fast; only beside it.          *)
GroundHolds ==
    LET ground == PLATFORMS[1]
    IN  Over(game, ground) /\ game.feet <= ground.y /\ Over(game', ground)
            => game'.feet <= ground.y
NobodyFallsThrough == [][GroundHolds]_game

(* Who may jump stands on something: also after a platform has moved the   *)
(* player onto itself and the next one in the list was looked at.          *)
StandsOnSomething ==
    game.on_ground => \E i \in DOMAIN PLATFORMS :
                         Over(game, PLATFORMS[i]) /\ game.feet = PLATFORMS[i].y

(* A coin is paid for once, in a life lost and begun again, too.           *)
CoinsOnce ==
    /\ game.score = 100 * Cardinality(game.collected)
    /\ game.over <=> game.lives = 0
=============================================================================
