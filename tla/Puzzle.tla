------------------------------- MODULE Puzzle -------------------------------
(***************************************************************************)
(* The rules of drm-puzzle.c: two neighbours are swapped; three or more    *)
(* equal gems in a line go, the ones above fall, new ones come in from the *)
(* top, until nothing matches.  anim says in which part of this the game   *)
(* is; the keys act only between moves.                                    *)
(*                                                                         *)
(* The cursor is where the player took it when he presses space, so only   *)
(* the selection is state.  A gem's way down is one height for all: the    *)
(* passes until the longest fall is done.  What is not read again (the     *)
(* cells of a swap that is over, of a match that is gone) is forgotten.    *)
(* Left out: score, combo, particles, and that filling the board gives up  *)
(* after 100 tries for a cell.                                             *)
(***************************************************************************)
EXTENDS Integers, FiniteSets, FiniteSetsExt

CONSTANTS GRID_W, GRID_H, GEM_TYPES, MIN_MATCH,
          ANIM_SWAP_FRAMES, MATCH_FRAMES

VARIABLE game

Xs == 0..(GRID_W - 1)
Ys == 0..(GRID_H - 1)
Cells == Ys \X Xs                           \* <<row, column>>, row 0 on top
Gems == 0..(GEM_TYPES - 1)
Empty == -1
NoCell == <<-1, -1>>

(* check_matches: the cells of the lines of equal gems.                    *)
Line(c, dy, dx) == {<<c[1] + k * dy, c[2] + k * dx>> : k \in 0..(MIN_MATCH - 1)}

Equal(grid, cells) == cells \subseteq Cells /\ \E t \in Gems : \A c \in cells : grid[c] = t

Matched(grid) ==
    UNION {l \in {Line(c, d[1], d[2]) : c \in Cells, d \in {<<0, 1>>, <<1, 0>>}} :
              Equal(grid, l)}

Filled == {g \in [Cells -> Gems] : Matched(g) = {}}     \* fill_grid_no_matches

game_init(grid) ==
    [grid |-> grid, selected |-> NoCell, anim |-> "none", timer |-> 0,
     swap |-> <<NoCell, NoCell>>, matched |-> {}, falls |-> 0,
     paused |-> FALSE]

-----------------------------------------------------------------------------
(* input_process; the keys are read while the game is paused, too.         *)
Neighbours(a, b) ==
    (a[1] - b[1]) * (a[1] - b[1]) + (a[2] - b[2]) * (a[2] - b[2]) = 1

Select(c) ==
    /\ game.anim = "none"
    /\ game' =
         IF game.selected = NoCell THEN [game EXCEPT !.selected = c]
         ELSE IF Neighbours(c, game.selected)
         THEN [game EXCEPT !.selected = NoCell, !.swap = <<game.selected, c>>,
                           !.anim = "swapping", !.timer = ANIM_SWAP_FRAMES]
         ELSE [game EXCEPT !.selected = NoCell]

Pause == game' = [game EXCEPT !.paused = ~@]

-----------------------------------------------------------------------------
(* game_update                                                             *)
Swapped(grid, s) == [grid EXCEPT ![s[1]] = grid[s[2]], ![s[2]] = grid[s[1]]]

EndSwap(g) ==
    LET grid == Swapped(g.grid, g.swap)
    IN  IF Matched(grid) # {}
        THEN [g EXCEPT !.grid = grid, !.matched = Matched(grid),
                       !.swap = <<NoCell, NoCell>>,
                       !.anim = "matching", !.timer = MATCH_FRAMES]
        ELSE [g EXCEPT !.anim = "none", !.matched = {}, !.swap = <<NoCell, NoCell>>]

(* apply_gravity: the gems of a column come down over the empty cells.     *)
GemsInColumn(grid, x) == {r \in Ys : grid[<<r, x>>] # Empty}

(* The gem that ends in row y: the one with as many gems below it in the   *)
(* column as there are cells below y.                                      *)
Source(grid, y, x) ==
    {r \in GemsInColumn(grid, x) :
        Cardinality({q \in GemsInColumn(grid, x) : q > r}) = GRID_H - 1 - y}

Fallen(grid) ==
    [c \in Cells |-> LET s == Source(grid, c[1], c[2])
                     IN  IF s = {} THEN Empty
                         ELSE grid[<<CHOOSE r \in s : TRUE, c[2]>>]]

(* How many rows a gem comes down at most: the first new one of a column   *)
(* comes down from above the board, over as many cells as were empty.      *)
Holes(grid) == {c \in Cells : grid[c] = Empty}
LongestFall(grid) ==
    IF Holes(grid) = {} THEN 0 ELSE Max({c[1] + 1 : c \in Holes(Fallen(grid))})

(* remove_matches, then apply_gravity with new gems on top.                *)
Cascade(g) ==
    LET removed == [c \in Cells |-> IF c \in g.matched THEN Empty ELSE g.grid[c]]
        down == Fallen(removed)
    IN  {[g EXCEPT !.grid = [c \in Cells |-> IF down[c] = Empty THEN new[c]
                                                              ELSE down[c]],
                   !.matched = {}, !.anim = "falling", !.falls = LongestFall(removed)] :
            new \in [Holes(down) -> Gems]}

EndFall(g) ==
    IF Matched(g.grid) # {}
    THEN [g EXCEPT !.matched = Matched(g.grid), !.anim = "matching",
                   !.timer = MATCH_FRAMES]
    ELSE [g EXCEPT !.matched = {}, !.anim = "none"]

game_update(g) ==
    CASE g.anim = "none" -> {g}
      [] g.anim = "swapping" ->
            {IF g.timer > 1 THEN [g EXCEPT !.timer = @ - 1]
             ELSE EndSwap([g EXCEPT !.timer = 0])}
      [] g.anim = "matching" ->
            IF g.timer > 1 THEN {[g EXCEPT !.timer = @ - 1]}
            ELSE Cascade([g EXCEPT !.timer = 0])
      [] g.anim = "falling" ->
            {IF g.falls > 0 THEN [g EXCEPT !.falls = @ - 1] ELSE EndFall(g)}

Update == ~game.paused /\ game' \in game_update(game)

Init == \E grid \in Filled : game = game_init(grid)
input_process == (\E c \in Cells : Select(c)) \/ Pause
Next == input_process \/ Update
Spec == Init /\ [][Next]_game

-----------------------------------------------------------------------------
TypeOK ==
    /\ game.grid \in [Cells -> Gems \cup {Empty}]
    /\ game.selected \in Cells \cup {NoCell}
    /\ game.anim \in {"none", "swapping", "matching", "falling"}
    /\ game.matched \subseteq Cells /\ game.timer \in Nat /\ game.falls \in Nat

(* When it is the player's turn the board is full and settled, while a     *)
(* swap is shown it is not yet made, and a match is shown only where there *)
(* is one: whatever falls in, no step is skipped.                          *)
BoardSettled ==
    /\ Holes(game.grid) = {}
    /\ game.anim \in {"none", "swapping"} => Matched(game.grid) = {}
    /\ game.anim = "matching" => game.matched # {} /\ game.matched = Matched(game.grid)

(* Nothing is selected while gems move, so a swap is never begun on a      *)
(* board that is about to change.                                          *)
SelectionStill == game.anim # "none" => game.selected = NoCell
=============================================================================
