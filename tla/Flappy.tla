------------------------------- MODULE Flappy -------------------------------
(***************************************************************************)
(* The rules of drm-flappy.c in whole units: a pass of the main loop moves *)
(* the pipes by one, and the bird by its speed.  The bird is a point.      *)
(* Left out: its bobbing before the first flap, its tilt and the ground.   *)
(***************************************************************************)
EXTENDS Integers, FiniteSets, FiniteSetsExt

CONSTANTS
    SCREEN_W, GROUND_Y,         \* columns; the row of the ground
    BIRD_X_POS, GRAVITY, FLAP_VELOCITY, MAX_FALL_SPEED,
    PIPE_WIDTH, PIPE_GAP, PIPE_SPACING, MAX_PIPES,
    GAPS,                       \* the rows a gap may have its centre in
    FIRST_PIPES,                \* 3
    DEATH,                      \* 30: passes before a flap begins again
    MaxScore                    \* bound: pipes passed in one game

VARIABLE game

Slots == 1..MAX_PIPES
NoPipe == [x |-> -9, gap |-> 0, scored |-> FALSE, active |-> FALSE]
Used(pipes) == {i \in Slots : pipes[i].active}

(* With a full table there is no pipe.                                     *)
spawn_pipe(pipes, x) ==
    IF Used(pipes) = Slots THEN {pipes}
    ELSE {[pipes EXCEPT ![Min(Slots \ Used(pipes))] =
              [x |-> x, gap |-> gap, scored |-> FALSE, active |-> TRUE]] : gap \in GAPS}

FirstPipes ==
    LET after[n \in 0..FIRST_PIPES] ==
            IF n = 0 THEN {[i \in Slots |-> NoPipe]}
            ELSE UNION {spawn_pipe(p, SCREEN_W + (n - 1) * PIPE_SPACING) : p \in after[n - 1]}
    IN  after[FIRST_PIPES]

Best(g) == IF g.score > g.high_score THEN g.score ELSE g.high_score

game_init(pipes) ==
    [y |-> GROUND_Y \div 2, vy |-> 0, pipes |-> pipes, score |-> 0,
     high_score |-> 0, started |-> FALSE, over |-> FALSE, death_timer |-> 0]

game_restart(g) == {[game_init(pipes) EXCEPT !.high_score = Best(g)] : pipes \in FirstPipes}

-----------------------------------------------------------------------------
(* game_update, in the order of its parts                                  *)
Dead(g, flap) ==
    IF flap /\ g.death_timer >= DEATH THEN game_restart(g)
    ELSE {[g EXCEPT !.death_timer = IF @ < DEATH THEN @ + 1 ELSE @]}

MoveBird(g, flap) ==
    LET v == (IF flap THEN FLAP_VELOCITY ELSE g.vy) + GRAVITY
        vy == IF v > MAX_FALL_SPEED THEN MAX_FALL_SPEED ELSE v
    IN  [g EXCEPT !.vy = vy, !.y = @ + vy]

Passed(p) == p.x + PIPE_WIDTH < BIRD_X_POS

MovePipe(p) ==
    IF ~p.active THEN p
    ELSE LET q == [p EXCEPT !.x = @ - 1]
         IN  IF q.x + PIPE_WIDTH < 0 THEN NoPipe
             ELSE [q EXCEPT !.scored = @ \/ Passed(q)]

(* The number of pipes that were passed in this pass.                      *)
Points(pipes, moved) ==
    Cardinality({i \in Slots : moved[i].scored /\ ~pipes[i].scored})

(* Mutant: the first pipe of the table is taken for the last one.          *)
RightmostFirst(pipes) == IF Used(pipes) = {} THEN 0 ELSE pipes[Min(Used(pipes))].x

Rightmost(pipes) == Max({0} \cup {pipes[i].x : i \in Used(pipes)})

MovePipes(g) ==
    LET moved == [i \in Slots |-> MovePipe(g.pipes[i])]
        h == [g EXCEPT !.pipes = moved, !.score = @ + Points(g.pipes, moved)]
        last == Rightmost(moved)
    IN  IF last < SCREEN_W - PIPE_SPACING + PIPE_WIDTH
        THEN {[h EXCEPT !.pipes = p] : p \in spawn_pipe(moved, last + PIPE_SPACING)}
        ELSE {h}

Hits(g, p) ==
    /\ p.active /\ BIRD_X_POS \in p.x..(p.x + PIPE_WIDTH)
    /\ g.y < p.gap - PIPE_GAP \div 2 \/ g.y > p.gap + PIPE_GAP \div 2

Collide(g) ==
    IF g.y >= GROUND_Y \/ g.y <= 0 \/ \E i \in Slots : Hits(g, g.pipes[i])
    THEN [g EXCEPT !.over = TRUE, !.high_score = Best(g)]
    ELSE g

game_update(g, flap) ==
    IF g.over THEN Dead(g, flap)
    ELSE IF ~g.started
    THEN {IF flap THEN [g EXCEPT !.started = TRUE, !.vy = FLAP_VELOCITY] ELSE g}
    ELSE {Collide(h) : h \in MovePipes(MoveBird(g, flap))}

Update == /\ game.score < MaxScore
          /\ \E flap \in BOOLEAN : game' \in game_update(game, flap)

Init == \E pipes \in FirstPipes : game = game_init(pipes)
Next == Update
Spec == Init /\ [][Next]_game

-----------------------------------------------------------------------------
TypeOK ==
    /\ game.pipes \in [Slots -> [x : Int, gap : GAPS \cup {0},
                                 scored : BOOLEAN, active : BOOLEAN]]
    /\ game.y \in Int /\ game.vy \in FLAP_VELOCITY..MAX_FALL_SPEED
    /\ game.death_timer \in 0..DEATH

(* The pipes come at even distances, for ever, whichever entries of the    *)
(* table are free, and one is always still to come.                        *)
PipesEven ==
    LET xs == {game.pipes[i].x : i \in Used(game.pipes)}
    IN  /\ Cardinality(xs) = Cardinality(Used(game.pipes))
        /\ Max(xs) - Min(xs) = PIPE_SPACING * (Cardinality(xs) - 1)
        /\ Max(xs) >= SCREEN_W - PIPE_SPACING + PIPE_WIDTH

(* A pipe is counted when it is passed and not again, and the best score   *)
(* is no less than the score of a game that is over.                       *)
CountedOnce ==
    /\ \A i \in Used(game.pipes) : game.pipes[i].scored <=> Passed(game.pipes[i])
    /\ game.over => game.high_score >= game.score
=============================================================================
