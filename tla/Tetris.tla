------------------------------- MODULE Tetris -------------------------------
(***************************************************************************)
(* The rules of drm-tetris.c.  A pass of the main loop reads the key       *)
(* events that came in since the last one, one after the other (Key), and  *)
(* then repeats a held key and lets the piece fall (Update).               *)
(*                                                                         *)
(* The board is the set of its filled cells <<row, column>>, row 0 at the  *)
(* top.  Left out: colours, particles, the flash of cleared lines, the     *)
(* score, which is only added up and shown.                                *)
(***************************************************************************)
EXTENDS Integers, FiniteSets

CONSTANTS
    BOARD_WIDTH, BOARD_HEIGHT,
    SHAPES,             \* type -> rotation 0..3 -> cells <<row, column>> of 0..3
    INITIAL_DROP_FRAMES, MIN_DROP_FRAMES,
    DROP_STEP,          \* 4: frames a level takes off
    LINES_PER_LEVEL,    \* 10
    DAS_DELAY, DAS_PERIOD,  \* 10 and 3: when a held key repeats
    MaxLines,           \* bound: lines cleared in a game
    MaxEvents           \* bound: key events read in one pass

VARIABLES game, read    \* read: events read in this pass
vars == <<game, read>>

Types == DOMAIN SHAPES
Rows == 0..(BOARD_HEIGHT - 1)
Cols == 0..(BOARD_WIDTH - 1)

(* get_cell for the whole shape: the cells a piece lies on.                *)
Cells(p) == {<<p.y + s[1], p.x + s[2]>> : s \in SHAPES[p.type][p.rotation]}

(* Beside the board nothing fits; above it everything does.                *)
piece_fits(g, p) ==
    \A c \in Cells(p) : /\ c[2] \in Cols /\ c[1] < BOARD_HEIGHT
                        /\ c \notin g.board

Shifted(p, dx) == [p EXCEPT !.x = @ + dx]
Lowered(p, dy) == [p EXCEPT !.y = @ + dy]

(* get_ghost_y: as far down as the piece falls.                            *)
Drop(g) ==
    LET d == CHOOSE n \in 0..BOARD_HEIGHT + 1 :
                 /\ \A m \in 1..n : piece_fits(g, Lowered(g.current, m))
                 /\ ~piece_fits(g, Lowered(g.current, n + 1))
    IN  Lowered(g.current, d)

Fresh(type) == [type |-> type, rotation |-> 0,
                x |-> BOARD_WIDTH \div 2 - 2, y |-> -1]

game_init(t, n) ==
    [board |-> {}, current |-> Fresh(t), next |-> n,
     lines |-> 0, level |-> 1, drop_timer |-> 0,
     drop_speed |-> INITIAL_DROP_FRAMES, soft_drop |-> FALSE,
     das_timer |-> 0, das_dir |-> 0, paused |-> FALSE, over |-> FALSE,
     cells |-> 0]           \* history: cells locked and not cleared

-----------------------------------------------------------------------------
(* input_process, a key event.                                             *)
Playing(g) == ~g.over /\ ~g.paused

Move(g, dx) ==
    IF piece_fits(g, Shifted(g.current, dx))
    THEN [g EXCEPT !.current = Shifted(@, dx)] ELSE g

Side(g, dx) ==
    IF Playing(g)
    THEN [Move(g, dx) EXCEPT !.das_timer = 0, !.das_dir = dx] ELSE g

SideUp(g, dx) == IF g.das_dir = dx THEN [g EXCEPT !.das_dir = 0] ELSE g

(* Mutant: a piece that does not fit where it is goes left unseen.         *)
RotateLeft(g) ==
    LET p == [g.current EXCEPT !.rotation = (@ + 1) % 4]
    IN  IF ~Playing(g) THEN g
        ELSE IF piece_fits(g, p) THEN [g EXCEPT !.current = p]
        ELSE [g EXCEPT !.current = Shifted(p, -1)]

(* The turned piece where it is, else one to the left, else to the right.  *)
Rotate(g) ==
    LET p == [g.current EXCEPT !.rotation = (@ + 1) % 4]
        kicked(dx) == piece_fits(g, Shifted(p, dx))
    IN  IF ~Playing(g) THEN g
        ELSE IF kicked(0) THEN [g EXCEPT !.current = p]
        ELSE IF kicked(-1) THEN [g EXCEPT !.current = Shifted(p, -1)]
        ELSE IF kicked(1) THEN [g EXCEPT !.current = Shifted(p, 1)]
        ELSE g

HardDrop(g) == [g EXCEPT !.current = Drop(g), !.drop_timer = g.drop_speed]

(* Timers, the held keys and the pause stay as they are.                   *)
Restart(g, t, n) ==
    [g EXCEPT !.board = {}, !.lines = 0, !.level = 1,
              !.drop_speed = INITIAL_DROP_FRAMES, !.over = FALSE,
              !.current = Fresh(t), !.next = n, !.cells = 0]

KeyLeft   == game' = Side(game, -1)
KeyRight  == game' = Side(game, 1)
LeftUp    == game' = SideUp(game, -1)
RightUp   == game' = SideUp(game, 1)
KeyUp     == game' = Rotate(game)
KeyDown   == \E down \in BOOLEAN : game' = [game EXCEPT !.soft_drop = down]
KeySpace  == \/ Playing(game) /\ game' = HardDrop(game)
             \/ /\ game.over
                /\ \E t, n \in Types : game' = Restart(game, t, n)
KeyPause  == ~game.over /\ game' = [game EXCEPT !.paused = ~@]

Key ==
    /\ read < MaxEvents
    /\ read' = read + 1
    /\ \/ KeyLeft \/ KeyRight \/ LeftUp \/ RightUp
       \/ KeyUp \/ KeyDown \/ KeySpace \/ KeyPause

-----------------------------------------------------------------------------
(* The delayed auto shift at the end of input_process.  The timer counts   *)
(* on; past the delay only its remainder matters.                          *)
AutoShift(g) ==
    IF ~Playing(g) \/ g.das_dir = 0 THEN g
    ELSE LET t == IF g.das_timer + 1 > DAS_DELAY + DAS_PERIOD
                  THEN g.das_timer + 1 - DAS_PERIOD ELSE g.das_timer + 1
             h == [g EXCEPT !.das_timer = t]
         IN  IF t > DAS_DELAY /\ t % DAS_PERIOD = 0
             THEN Move(h, g.das_dir) ELSE h

(* Cells above the board are lost.                                         *)
lock_piece(g) ==
    LET kept == {c \in Cells(g.current) : c[1] >= 0}
    IN  [g EXCEPT !.board = @ \cup kept, !.cells = @ + Cardinality(kept)]

FullRows(board) == {r \in Rows : \A c \in Cols : <<r, c>> \in board}

Speed(level) == LET s == INITIAL_DROP_FRAMES - (level - 1) * DROP_STEP
                IN  IF s < MIN_DROP_FRAMES THEN MIN_DROP_FRAMES ELSE s

(* Each row comes down by the number of full rows below it.                *)
clear_lines(g) ==
    LET full == FullRows(g.board)
        n == Cardinality(full)
        below(r) == Cardinality({f \in full : f > r})
        level == (g.lines + n) \div LINES_PER_LEVEL + 1
    IN  IF full = {} THEN g
        ELSE [g EXCEPT
                !.board = {<<c[1] + below(c[1]), c[2]>> :
                               c \in {d \in g.board : d[1] \notin full}},
                !.lines = @ + n, !.level = level, !.drop_speed = Speed(level),
                !.cells = @ - n * BOARD_WIDTH]

spawn_piece(g, n) ==
    [g EXCEPT !.current = Fresh(g.next), !.next = n,
              !.over = ~piece_fits(g, Fresh(g.next))]

Fall(g) ==
    IF piece_fits(g, Lowered(g.current, 1))
    THEN {[g EXCEPT !.current = Lowered(@, 1)]}
    ELSE {spawn_piece(clear_lines(lock_piece(g)), n) : n \in Types}

game_update(g) ==
    LET speed == IF g.soft_drop THEN 2 ELSE g.drop_speed
    IN  IF ~Playing(g) THEN {g}
        ELSE IF g.drop_timer + 1 < speed
        THEN {[g EXCEPT !.drop_timer = @ + 1]}
        ELSE Fall([g EXCEPT !.drop_timer = 0])

Update ==
    /\ game.lines < MaxLines
    /\ read' = 0
    /\ game' \in game_update(AutoShift(game))

Init == /\ \E t, n \in Types : game = game_init(t, n)
        /\ read = 0
Next == Key \/ Update
Spec == Init /\ [][Next]_vars

-----------------------------------------------------------------------------
TypeOK ==
    /\ game.board \subseteq Rows \X Cols
    /\ game.current.type \in Types /\ game.next \in Types
    /\ game.current.rotation \in 0..3
    /\ game.current.x \in Int /\ game.current.y \in Int
    /\ {game.lines, game.level, game.drop_timer, game.drop_speed,
        game.das_timer} \subseteq Nat
    /\ game.das_dir \in {-1, 0, 1}
    /\ read \in 0..MaxEvents

(* Whatever keys come in between two falls, the piece in play lies on free *)
(* cells of the board: what is locked never covers what is there.          *)
PieceFits == game.over \/ piece_fits(game, game.current)

(* The board holds the cells that were locked less the cleared lines, none *)
(* lost or doubled by a shift, and between passes no line is full.         *)
BoardAccount ==
    /\ Cardinality(game.board) = game.cells
    /\ FullRows(game.board) = {}

(* The speed of falling is that of the lines cleared in this game, also    *)
(* after a restart.                                                        *)
SpeedOfLevel ==
    /\ game.level = game.lines \div LINES_PER_LEVEL + 1
    /\ game.drop_speed = Speed(game.level)
=============================================================================
