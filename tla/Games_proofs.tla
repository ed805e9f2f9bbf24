---------------------------- MODULE Games_proofs ----------------------------
(***************************************************************************)
(* Theorems about the other games, those that go through a table of        *)
(* objects in every pass, for every size of the screen and of the tables   *)
(* and every length of a game; and, from these and from BoardGames_proofs, *)
(* about the suite.                                                        *)
(***************************************************************************)
EXTENDS Games, BoardGames_proofs

(* The games take Cardinality from the same module.                        *)
LEMMA SameCardinalities ==
    \A S : /\ Platformer!Cardinality(S) = Cardinality(S)
           /\ Shooter!Cardinality(S) = Cardinality(S)
           /\ Tower!Cardinality(S) = Cardinality(S)
           /\ Flappy!Cardinality(S) = Cardinality(S)
           /\ Invaders!Cardinality(S) = Cardinality(S)
BY Zenon DEF Cardinality, Platformer!Cardinality, Shooter!Cardinality,
             Tower!Cardinality, Flappy!Cardinality, Invaders!Cardinality

-----------------------------------------------------------------------------
(* Catch.                                                                  *)
CatchFields == {"basket", "objects", "fruits", "lives", "level", "interval", "since", "over"}

(* What every part of a pass keeps.                                        *)
CatchKept(g) ==
    /\ DOMAIN g = CatchFields /\ g.basket \in Catch!Cols
    /\ g.objects \in [Catch!Slots -> Catch!Falling \cup {Catch!NoObject}]
    /\ g.lives \in 0..MAX_LIVES /\ (g.over <=> g.lives = 0)
    /\ g.since \in 0..(SPAWN_INTERVAL + 1)
    /\ g.fruits \in Nat /\ g.level = 1 + g.fruits \div LEVEL_SCORE
    /\ g.interval = IF g.level = 1 THEN SPAWN_INTERVAL ELSE Catch!Interval(g.level)

(* The first i objects have fallen, and what the basket could catch is     *)
(* caught.                                                                 *)
CatchFallen(c, g, i) ==
    /\ CatchKept(g)
    /\ \A j \in 1..i : g.objects[j].y \in BASKET_ROWS => g.objects[j].x # g.basket

CatchWhole(g) == CatchFallen(0, g, MAX_FALLING_OBJS)
CatchInv == CatchWhole(game)

CatchLoop == INSTANCE Loops WITH Step <- Catch!Fall, Holds <- CatchFallen

(* A catch changes neither the objects nor the basket.                     *)
LEMMA CatchCatches ==
    ASSUME CatchCourt, NEW g, CatchKept(g)
    PROVE  /\ CatchKept(Catch!CatchBomb(g)) /\ CatchKept(Catch!CatchFruit(g))
           /\ Catch!CatchBomb(g).objects = g.objects /\ Catch!CatchBomb(g).basket = g.basket
           /\ Catch!CatchFruit(g).objects = g.objects /\ Catch!CatchFruit(g).basket = g.basket
<1>1. /\ CatchKept(Catch!CatchBomb(g)) /\ Catch!CatchBomb(g).objects = g.objects
      /\ Catch!CatchBomb(g).basket = g.basket
  <2> DEFINE k == Catch!CatchBomb(g)
  <2>1. /\ DOMAIN k = CatchFields /\ k.basket = g.basket /\ k.objects = g.objects
        /\ k.since = g.since /\ k.fruits = g.fruits /\ k.level = g.level
        /\ k.interval = g.interval /\ k.lives = IF g.lives > 1 THEN g.lives - 1 ELSE 0
        /\ k.over = (g.over \/ g.lives <= 1)
    BY DEF CatchKept, CatchFields, Catch!CatchBomb
  <2> HIDE DEF k
  <2>2. g.lives \in Nat /\ g.lives <= MAX_LIVES /\ (g.over <=> g.lives = 0)
    BY DEF CatchCourt, CatchKept
  <2>3. k.lives \in 0..MAX_LIVES
    BY <2>1, <2>2 DEF CatchCourt
  <2>4. k.over <=> k.lives = 0
    <3>1. (k.lives = 0) <=> (g.lives = 0 \/ g.lives <= 1)
      BY <2>1, <2>2
    <3> QED
      BY <2>1, <2>2, <3>1, Zenon
  <2>5. CatchKept(k)
    BY <2>1, <2>3, <2>4 DEF CatchKept
  <2> QED
    BY <2>1, <2>5 DEF k
<1>2. /\ (g.fruits + 1) \div LEVEL_SCORE \in Nat /\ g.fruits \div LEVEL_SCORE \in Nat
      /\ (g.fruits + 1) \div LEVEL_SCORE
            \in {g.fruits \div LEVEL_SCORE, g.fruits \div LEVEL_SCORE + 1}
  BY OneMore DEF CatchCourt, CatchKept
<1>3. /\ CatchKept(Catch!CatchFruit(g)) /\ Catch!CatchFruit(g).objects = g.objects
      /\ Catch!CatchFruit(g).basket = g.basket
  <2> DEFINE a == g.fruits \div LEVEL_SCORE
             b == (g.fruits + 1) \div LEVEL_SCORE
             k == Catch!CatchFruit(g)
  <2>1. CASE 1 + b > g.level
    <3>1. /\ DOMAIN k = CatchFields /\ k.basket = g.basket /\ k.objects = g.objects
          /\ k.lives = g.lives /\ k.over = g.over /\ k.since = g.since
          /\ k.fruits = g.fruits + 1 /\ k.level = 1 + b /\ k.interval = Catch!Interval(1 + b)
      BY <2>1 DEF CatchKept, CatchFields, Catch!CatchFruit
    <3>2. 1 + b # 1
      BY <1>2, <2>1 DEF CatchKept
    <3> HIDE DEF k
    <3>3. CatchKept(k)
      BY <3>1, <3>2 DEF CatchKept
    <3> QED
      BY <3>1, <3>3 DEF k
  <2>2. CASE ~(1 + b > g.level)
    <3>1. /\ DOMAIN k = CatchFields /\ k.basket = g.basket /\ k.objects = g.objects
          /\ k.lives = g.lives /\ k.over = g.over /\ k.since = g.since
          /\ k.fruits = g.fruits + 1 /\ k.level = g.level /\ k.interval = g.interval
      BY <2>2 DEF CatchKept, CatchFields, Catch!CatchFruit
    <3>2. g.level = 1 + b
      BY <1>2, <2>2 DEF CatchKept
    <3> HIDE DEF k
    <3>3. CatchKept(k)
      BY <3>1, <3>2 DEF CatchKept
    <3> QED
      BY <3>1, <3>3 DEF k
  <2> QED
    BY <2>1, <2>2
<1> QED
  BY <1>1, <1>3

(* An object falls, is caught, or is missed.                               *)
LEMMA CatchFalls ==
    ASSUME CatchCourt, NEW i \in 1..MAX_FALLING_OBJS, NEW g, CatchFallen(0, g, i - 1)
    PROVE  CatchFallen(0, Catch!Fall(g, i), i)
<1> DEFINE p == g.objects[i]
           o == [p EXCEPT !.y = @ + p.speed]
           gone == [g EXCEPT !.objects[i] = Catch!NoObject]
           falls == [g EXCEPT !.objects[i] = o]
           k == Catch!Fall(g, i)
<1>1. CatchKept(g) /\ i \in Catch!Slots /\ p \in Catch!Falling \cup {Catch!NoObject}
  BY DEF CatchFallen, CatchKept, Catch!Slots
<1>2. CatchKept(gone) /\ gone.basket = g.basket /\ gone.objects[i] = Catch!NoObject
      /\ \A j \in Catch!Slots \ {i} : gone.objects[j] = g.objects[j]
  BY <1>1 DEF CatchKept, CatchFields
<1>3. Catch!NoObject.x # g.basket
  BY <1>1 DEF CatchKept, Catch!NoObject, Catch!Cols
<1>4. \A j \in 1..(i - 1) : j \in Catch!Slots \ {i}
  BY DEF CatchCourt, Catch!Slots
<1>5. ASSUME NEW h, CatchKept(h), h.objects = gone.objects, h.basket = g.basket
      PROVE  CatchFallen(0, h, i)
  BY <1>2, <1>3, <1>4, <1>5 DEF CatchFallen
<1>6. CASE p = Catch!NoObject
  <2>1. k = g
    BY <1>6 DEF Catch!Fall
  <2> QED
    BY <1>3, <1>6, <2>1 DEF CatchFallen
<1>7. CASE p # Catch!NoObject
  <2>1. /\ p \in Catch!Falling /\ o.x = p.x /\ o.y = p.y + p.speed /\ o.bomb = p.bomb
        /\ p.y \in Nat /\ p.speed \in Nat
    BY <1>1, <1>7 DEF Catch!Falling, CatchCourt
  <2>2. CASE o.y \in BASKET_ROWS /\ o.x = g.basket
    <3>1. k = IF o.bomb THEN Catch!CatchBomb(gone) ELSE Catch!CatchFruit(gone)
      BY <1>7, <2>2 DEF Catch!Fall
    <3> QED
      BY <1>2, <1>5, <3>1, CatchCatches
  <2>3. CASE ~(o.y \in BASKET_ROWS /\ o.x = g.basket) /\ o.y >= SCREEN_H
    <3>1. k = gone
      BY <1>7, <2>3 DEF Catch!Fall
    <3> QED
      BY <1>2, <1>5, <3>1
  <2>4. CASE ~(o.y \in BASKET_ROWS /\ o.x = g.basket) /\ ~(o.y >= SCREEN_H)
    <3>1. k = falls
      BY <1>7, <2>4 DEF Catch!Fall
    <3>2. o.y \in 0..(SCREEN_H - 1)
      BY <2>1, <2>4 DEF CatchCourt
    <3>3. o \in Catch!Falling
      BY <2>1, <3>2 DEF Catch!Falling
    <3> HIDE DEF o
    <3>4. /\ CatchKept(falls) /\ falls.basket = g.basket /\ falls.objects[i] = o
          /\ \A j \in Catch!Slots \ {i} : falls.objects[j] = g.objects[j]
      BY <1>1, <3>3 DEF CatchKept, CatchFields
    <3> HIDE DEF falls
    <3> QED
      BY <1>4, <2>4, <3>1, <3>4 DEF CatchFallen
  <2> QED
    BY <2>2, <2>3, <2>4
<1> QED
  BY <1>6, <1>7

(* A new object takes a free entry.                                        *)
LEMMA CatchSpawns ==
    ASSUME CatchCourt, NEW g, CatchKept(g), NEW late \in 1..MaxLate, NEW h \in Catch!Spawn(g, late)
    PROVE  CatchKept(h)
<1> DEFINE since == Catch!Min({g.since + late, SPAWN_INTERVAL + 1})
           free == Catch!FreeSlots(g)
           none == [g EXCEPT !.since = 0]
<1>1. since \in 0..(SPAWN_INTERVAL + 1)
  <2>1. g.since + late \in Nat /\ SPAWN_INTERVAL + 1 \in Nat
    BY DEF CatchCourt, CatchKept
  <2>2. \E x \in {g.since + late, SPAWN_INTERVAL + 1} :
           \A y \in {g.since + late, SPAWN_INTERVAL + 1} : x <= y
    BY <2>1
  <2> QED
    BY <2>1, <2>2 DEF Catch!Min, CatchCourt
<1>2. CatchKept([g EXCEPT !.since = since])
  <2> HIDE DEF since
  <2> QED
    BY <1>1 DEF CatchKept, CatchFields
<1>3. CatchKept(none)
  BY DEF CatchKept, CatchFields, CatchCourt
<1>4. ASSUME NEW o \in Catch!Falling, NEW i \in Catch!Slots
      PROVE  CatchKept([g EXCEPT !.since = 0, !.objects[i] = o])
  BY DEF CatchKept, CatchFields, CatchCourt
<1>5. CASE since > g.interval /\ free = {}
  BY <1>3, <1>5 DEF Catch!Spawn, Catch!spawn_object
<1>6. CASE since > g.interval /\ free # {}
  <2>1. Catch!Min(free) \in Catch!Slots
    <3>1. free # {} /\ free \subseteq Nat /\ free \subseteq Catch!Slots
      BY <1>6 DEF Catch!FreeSlots, Catch!Slots
    <3> HIDE DEF free
    <3>2. PICK n \in free : \A m \in free : n <= m
      BY <3>1, HasLeast
    <3> QED
      BY <3>1, <3>2 DEF Catch!Min
  <2>2. \E o \in Catch!Falling : h = [g EXCEPT !.since = 0, !.objects[Catch!Min(free)] = o]
    BY <1>6 DEF Catch!Spawn, Catch!spawn_object
  <2> QED
    BY <1>4, <2>1, <2>2
<1>7. CASE ~(since > g.interval)
  BY <1>2, <1>7 DEF Catch!Spawn
<1> QED
  BY <1>5, <1>6, <1>7

(* Every step of the game keeps the invariant.                             *)
LEMMA CatchStep == ASSUME CatchCourt, CatchInv, Catch!Next PROVE CatchInv'
<1>1. CASE Catch!Update
  <2>1. PICK keys \in Catch!input_poll, late \in 1..MaxLate :
           game' \in Catch!game_update(game, keys, late)
    BY <1>1 DEF Catch!Update
  <2> DEFINE b == Catch!MoveBasket(game, keys)
  <2>2. CatchKept(b)
    <3>1. CatchKept(game) /\ game.basket \in Int /\ keys \in Int
      BY DEF CatchInv, CatchWhole, CatchFallen, CatchKept, Catch!input_poll, Catch!Cols, CatchCourt
    <3>2. Catch!Clamped(game.basket + keys) \in Catch!Cols
      BY <3>1 DEF Catch!Clamped, Catch!Cols, CatchCourt
    <3> QED
      BY <3>1, <3>2 DEF CatchKept, CatchFields, Catch!MoveBasket
  <2>3. PICK h \in Catch!Spawn(b, late) : game' = Catch!FallAll(h)
    BY <2>1 DEF Catch!game_update
  <2>4. CatchFallen(0, h, 0)
    BY <2>2, <2>3, CatchSpawns DEF CatchFallen
  <2>5. Catch!FallAll(h) = CatchLoop!Loop(h, MAX_FALLING_OBJS)
    BY DEF Catch!FallAll, CatchLoop!Loop
  <2>6. CatchFallen(0, CatchLoop!Loop(h, MAX_FALLING_OBJS), MAX_FALLING_OBJS)
    <3>1. MAX_FALLING_OBJS \in Nat
      BY DEF CatchCourt
    <3>2. \A i \in 1..MAX_FALLING_OBJS : \A k :
             CatchFallen(0, k, i - 1) => CatchFallen(0, Catch!Fall(k, i), i)
      BY CatchFalls
    <3> QED
      BY <2>4, <3>1, <3>2, CatchLoop!Kept, HasLeast
  <2> QED
    BY <2>3, <2>5, <2>6 DEF CatchInv, CatchWhole
<1>2. CASE Catch!Over
  BY <1>2 DEF Catch!Over, CatchInv
<1> QED
  BY <1>1, <1>2 DEF Catch!Next

(* The invariant holds when a game begins.                                 *)
LEMMA CatchInit == ASSUME CatchCourt, Catch!Init PROVE CatchInv
<1>1. /\ DOMAIN game = CatchFields /\ game.basket = COLUMNS \div 2
      /\ game.objects = [i \in Catch!Slots |-> Catch!NoObject]
      /\ game.fruits = 0 /\ game.lives = MAX_LIVES /\ game.level = 1
      /\ game.interval = SPAWN_INTERVAL /\ game.since = 0 /\ game.over = FALSE
  BY DEF Catch!Init, Catch!game_init, CatchFields
<1>2. game.basket \in Catch!Cols
  BY <1>1 DEF CatchCourt, Catch!Cols
<1>3. 0 \div LEVEL_SCORE = 0
  BY OneMore DEF CatchCourt
<1>4. CatchKept(game)
  BY <1>1, <1>2, <1>3 DEF CatchCourt, CatchKept
<1>5. \A j \in 1..MAX_FALLING_OBJS : game.objects[j].x # game.basket
  BY <1>1, <1>2 DEF CatchCourt, Catch!Slots, Catch!Cols, Catch!NoObject
<1> QED
  BY <1>4, <1>5 DEF CatchInv, CatchWhole, CatchFallen

(* In drm-catch.c the basket catches all that comes into its rows above it,*)
(* however fast it falls; the level and the pace are those of the fruits   *)
(* caught, also when several are caught in one pass; and the game is over  *)
(* with the last life, when two bombs are caught at once, too.             *)
THEOREM CatchCorrect ==
    ASSUME CatchCourt
    PROVE  Catch!Spec => [](/\ Catch!TypeOK /\ Catch!LevelOfFruits
                            /\ Catch!EndsWithLives /\ Catch!NothingFallsThrough)
<1>1. CatchInv => /\ Catch!TypeOK /\ Catch!LevelOfFruits
                  /\ Catch!EndsWithLives /\ Catch!NothingFallsThrough
  BY DEF CatchInv, CatchWhole, CatchFallen, CatchKept, Catch!TypeOK, Catch!LevelOfFruits,
         Catch!EndsWithLives, Catch!NothingFallsThrough, Catch!Slots
<1>2. Catch!Init => CatchInv
  BY CatchInit
<1>3. CatchInv /\ [Catch!Next]_game => CatchInv'
  BY CatchStep DEF CatchInv, CatchWhole, CatchFallen, CatchKept
<1> QED
  BY <1>1, <1>2, <1>3, PTL DEF Catch!Spec

-----------------------------------------------------------------------------
(* Racing.                                                                 *)
RacingFields == {"player", "scroll", "lives", "enemies", "paused", "over"}

Cars == [x : LANES, y : Int, speed : Int]

(* What every part of a pass keeps.                                        *)
RacingKept(g) ==
    /\ DOMAIN g = RacingFields
    /\ g.player \in -1..ROAD /\ g.scroll \in SCROLL_SPEED_MIN..SCROLL_SPEED_MAX
    /\ g.enemies \in [Racing!Slots -> Cars \cup {Racing!NoEnemy}]
    /\ g.lives \in Int /\ (g.over <=> g.lives <= 0)

(* The first i cars have driven, and what has left the screen is gone.     *)
RacingDriven(c, g, i) ==
    /\ RacingKept(g)
    /\ \A j \in 1..i : g.enemies[j] # Racing!NoEnemy
                          => g.enemies[j].y \in -MaxAhead..(SCREEN_H + CAR_HEIGHT)

RacingInv == RacingDriven(0, game, MAX_ENEMIES)

RacingLoop == INSTANCE Loops WITH Step <- Racing!Drive, Holds <- RacingDriven

(* An opponent drives on, is passed, or is met.                            *)
LEMMA RacingDrives ==
    ASSUME RacingCourt, NEW i \in 1..MAX_ENEMIES, NEW g, RacingDriven(0, g, i - 1)
    PROVE  RacingDriven(0, Racing!Drive(g, i), i)
<1> DEFINE p == g.enemies[i]
           e == [p EXCEPT !.y = @ + g.scroll - p.speed]
           y == Racing!Max({e.y, -MaxAhead})
           o == [e EXCEPT !.y = y]
           gone == [g EXCEPT !.enemies[i] = Racing!NoEnemy]
           k == Racing!Drive(g, i)
<1>1. /\ RacingKept(g) /\ i \in Racing!Slots /\ g.scroll \in Int
      /\ \A j \in 1..(i - 1) : j \in Racing!Slots \ {i}
  BY DEF RacingDriven, RacingKept, Racing!Slots, RacingCourt
<1>2. /\ RacingKept(gone) /\ gone.enemies[i] = Racing!NoEnemy
      /\ \A j \in Racing!Slots \ {i} : gone.enemies[j] = g.enemies[j]
  BY <1>1 DEF RacingKept, RacingFields
<1>3. RacingDriven(0, gone, i)
  BY <1>1, <1>2 DEF RacingDriven
<1>4. CASE p = Racing!NoEnemy
  <2>1. k = g
    BY <1>4 DEF Racing!Drive, Racing!Active
  <2> QED
    BY <1>1, <1>4, <2>1 DEF RacingDriven
<1>5. CASE p # Racing!NoEnemy
  <2>1. p \in Cars
    BY <1>1, <1>5 DEF RacingKept
  <2>2. /\ i \in Racing!Active(g) /\ p.x \in LANES /\ p.y \in Int /\ p.speed \in Int
        /\ e.x = p.x /\ e.y \in Int /\ e.speed = p.speed
    BY <1>1, <1>5, <2>1 DEF Racing!Active, Cars
  <2>6. ASSUME NEW r PROVE [e EXCEPT !.y = r] = [x |-> p.x, y |-> r, speed |-> p.speed]
    <3>1. PICK a, b, c : p = [x |-> a, y |-> b, speed |-> c]
      BY <2>1 DEF Cars
    <3> HIDE DEF p
    <3>2. e = [x |-> p.x, y |-> e.y, speed |-> p.speed]
      BY <3>1
    <3> HIDE DEF e
    <3> QED
      BY <3>2
  <2> HIDE DEF e
  <2>3. CASE Racing!Touches(g, e)
    <3>1. k = Racing!Crash(gone)
      BY <2>2, <2>3 DEF Racing!Drive, e
    <3>2. /\ DOMAIN k = RacingFields /\ k.player = gone.player /\ k.scroll = gone.scroll
          /\ k.enemies = gone.enemies /\ k.lives = gone.lives - 1
          /\ k.over = (gone.over \/ gone.lives <= 1)
      BY <1>1, <1>2, <3>1 DEF RacingKept, RacingFields, Racing!Crash
    <3> HIDE DEF k, gone
    <3>3. gone.lives \in Int /\ (gone.over <=> gone.lives <= 0)
      BY <1>2 DEF RacingKept
    <3>4. k.over <=> k.lives <= 0
      <4>1. (k.lives <= 0) <=> (gone.lives <= 0 \/ gone.lives <= 1)
        BY <3>2, <3>3
      <4> QED
        BY <3>2, <3>3, <4>1, Zenon
    <3>5. k.lives \in Int
      BY <3>2, <3>3
    <3>6. RacingKept(k)
      BY <1>2, <3>2, <3>4, <3>5, Zenon DEF RacingKept
    <3>7. RacingDriven(0, k, i)
      BY <1>3, <3>2, <3>6 DEF RacingDriven
    <3> QED
      BY <3>7 DEF k
  <2>4. CASE ~Racing!Touches(g, e) /\ e.y > SCREEN_H + CAR_HEIGHT
    <3>1. k = gone
      BY <2>2, <2>4 DEF Racing!Drive, e
    <3> QED
      BY <1>3, <3>1
  <2>5. CASE ~Racing!Touches(g, e) /\ ~(e.y > SCREEN_H + CAR_HEIGHT)
    <3> DEFINE stays == [g EXCEPT !.enemies[i] = o]
    <3>1. k = stays
      BY <2>2, <2>5 DEF Racing!Drive, e
    <3>2. y \in -MaxAhead..(SCREEN_H + CAR_HEIGHT)
      <4>1. e.y \in Int /\ -MaxAhead \in Int
        BY <2>2 DEF RacingCourt
      <4>2. \E a \in {e.y, -MaxAhead} : \A b \in {e.y, -MaxAhead} : a >= b
        BY <4>1
      <4>3. y \in {e.y, -MaxAhead} /\ y >= -MaxAhead
        BY <4>2 DEF Racing!Max
      <4> QED
        BY <2>5, <4>1, <4>3 DEF RacingCourt
    <3> HIDE DEF y
    <3>3. o.y = y /\ o \in Cars
      <4>1. o = [x |-> p.x, y |-> y, speed |-> p.speed]
        BY <2>6
      <4> HIDE DEF o
      <4> QED
        BY <2>2, <3>2, <4>1 DEF Cars, RacingCourt
    <3> HIDE DEF o
    <3>4. /\ RacingKept(stays) /\ stays.enemies[i] = o
          /\ \A j \in Racing!Slots \ {i} : stays.enemies[j] = g.enemies[j]
      BY <1>1, <3>3 DEF RacingKept, RacingFields
    <3> HIDE DEF stays
    <3> QED
      BY <1>1, <3>1, <3>2, <3>3, <3>4 DEF RacingDriven
  <2> QED
    BY <2>3, <2>4, <2>5
<1> QED
  BY <1>4, <1>5

(* A new opponent takes a free entry.                                      *)
LEMMA RacingSpawns ==
    ASSUME RacingCourt, NEW g, RacingKept(g), NEW h \in Racing!spawn_enemy(g)
    PROVE  RacingKept(h)
<1> DEFINE free == Racing!Slots \ Racing!Active(g)
<1>0. Racing!Active(g) # Racing!Slots
  BY DEF Racing!spawn_enemy
<1>1. PICK lane \in LANES, v \in Racing!Speeds(g) :
        h = [g EXCEPT !.enemies[Racing!Min(free)] = [x |-> lane, y |-> -CAR_HEIGHT, speed |-> v]]
  <2> DEFINE New(lane, v) ==
               [g EXCEPT !.enemies[Racing!Min(free)] =
                   [x |-> lane, y |-> -CAR_HEIGHT, speed |-> v]]
  <2>1. Racing!spawn_enemy(g) = {New(lane, v) : lane \in LANES, v \in Racing!Speeds(g)}
    BY <1>0 DEF Racing!spawn_enemy
  <2> HIDE DEF New
  <2>2. PICK lane \in LANES, v \in Racing!Speeds(g) : h = New(lane, v)
    BY <2>1
  <2> QED
    BY <2>2 DEF New
<1>2. Racing!Min(free) \in Racing!Slots
  <2>1. free # {} /\ free \subseteq Nat /\ free \subseteq Racing!Slots
    <3>1. Racing!Active(g) \subseteq Racing!Slots
      BY DEF Racing!Active
    <3>2. free # {}
      BY <1>0, <3>1, Zenon
    <3> QED
      BY <3>2 DEF Racing!Slots
  <2> HIDE DEF free
  <2>2. PICK n \in free : \A m \in free : n <= m
    BY <2>1, HasLeast
  <2> QED
    BY <2>1, <2>2 DEF Racing!Min
<1>3. [x |-> lane, y |-> -CAR_HEIGHT, speed |-> v] \in Cars
  BY DEF Cars, RacingCourt, Racing!Speeds
<1> HIDE DEF free
<1> QED
  BY <1>1, <1>2, <1>3 DEF RacingKept, RacingFields

(* Every step of the game keeps the invariant.                             *)
LEMMA RacingStep == ASSUME RacingCourt, RacingInv, Racing!Next PROVE RacingInv'
<1>0. RacingKept(game)
  BY DEF RacingInv, RacingDriven
<1>1. CASE \E x \in -1..ROAD : Racing!Touch(x)
  BY <1>1 DEF Racing!Touch, RacingInv, RacingDriven, RacingKept, RacingFields
<1>2. CASE Racing!Pause
  BY <1>2 DEF Racing!Pause, RacingInv, RacingDriven, RacingKept, RacingFields
<1>3. CASE Racing!Restart
  <2>1. /\ DOMAIN game' = RacingFields /\ game'.player = game.player /\ game'.over = FALSE
        /\ game'.lives = LIVES /\ game'.scroll = SCROLL_SPEED_INIT
        /\ game'.enemies = [i \in Racing!Slots |-> Racing!NoEnemy]
    BY <1>0, <1>3 DEF Racing!Restart, RacingKept, RacingFields
  <2>2. RacingKept(game')
    BY <1>0, <2>1 DEF RacingKept, RacingCourt
  <2> QED
    BY <2>1, <2>2 DEF RacingInv, RacingDriven, Racing!Slots
<1>4. CASE Racing!Update
  <2>1. PICK keys \in Racing!Held : game' \in Racing!game_update(game, keys.side, keys.gas)
    BY <1>4 DEF Racing!Update
  <2> DEFINE s == Racing!Steer(game, keys.side, keys.gas)
  <2>2. RacingKept(s)
    <3>1. /\ Racing!Between(game.player + keys.side, 0, ROAD - 1) \in -1..ROAD
          /\ Racing!Between(game.scroll + keys.gas, SCROLL_SPEED_MIN, SCROLL_SPEED_MAX)
                \in SCROLL_SPEED_MIN..SCROLL_SPEED_MAX
      BY <1>0 DEF Racing!Between, Racing!Held, RacingKept, RacingCourt
    <3> QED
      BY <1>0, <3>1 DEF RacingKept, RacingFields, Racing!Steer
  <2>3. PICK h \in {s} \cup Racing!spawn_enemy(s) : game' = Racing!DriveAll(h)
    BY <2>1 DEF Racing!game_update
  <2>4. RacingDriven(0, h, 0)
    BY <2>2, <2>3, RacingSpawns DEF RacingDriven
  <2>5. Racing!DriveAll(h) = RacingLoop!Loop(h, MAX_ENEMIES)
    BY DEF Racing!DriveAll, RacingLoop!Loop
  <2>6. RacingDriven(0, RacingLoop!Loop(h, MAX_ENEMIES), MAX_ENEMIES)
    <3>1. MAX_ENEMIES \in Nat
      BY DEF RacingCourt
    <3>2. \A i \in 1..MAX_ENEMIES : \A k :
             RacingDriven(0, k, i - 1) => RacingDriven(0, Racing!Drive(k, i), i)
      BY RacingDrives
    <3> QED
      BY <2>4, <3>1, <3>2, RacingLoop!Kept, HasLeast
  <2> QED
    BY <2>3, <2>5, <2>6 DEF RacingInv
<1> QED
  BY <1>1, <1>2, <1>3, <1>4 DEF Racing!Next, Racing!input_process

(* The invariant holds when a game begins.                                 *)
LEMMA RacingInit == ASSUME RacingCourt, Racing!Init PROVE RacingInv
<1>1. /\ DOMAIN game = RacingFields /\ game.player = ROAD \div 2
      /\ game.scroll = SCROLL_SPEED_INIT /\ game.lives = LIVES /\ game.over = FALSE
      /\ game.enemies = [i \in Racing!Slots |-> Racing!NoEnemy]
  BY DEF Racing!Init, Racing!game_init, RacingFields
<1>2. game.player \in -1..ROAD
  BY <1>1 DEF RacingCourt
<1>3. RacingKept(game)
  BY <1>1, <1>2 DEF RacingKept, RacingCourt
<1> QED
  BY <1>1, <1>3 DEF RacingInv, RacingDriven, Racing!Slots

(* In drm-racing.c the game is over with the last life and starts over     *)
(* with all of them, when two cars are hit in one pass, too; and no car    *)
(* that has left the screen keeps its place in the table.                  *)
THEOREM RacingCorrect ==
    ASSUME RacingCourt
    PROVE  Racing!Spec => [](Racing!TypeOK /\ Racing!OverWithLives)
<1>1. RacingInv => Racing!TypeOK /\ Racing!OverWithLives
  <2> SUFFICES ASSUME RacingInv PROVE Racing!TypeOK /\ Racing!OverWithLives
    OBVIOUS
  <2>1. Racing!OverWithLives
    BY Zenon DEF RacingInv, RacingDriven, RacingKept, Racing!OverWithLives
  <2>2. ASSUME NEW i \in Racing!Active(game)
        PROVE  /\ game.enemies[i].x \in LANES
               /\ game.enemies[i].y \in -MaxAhead..(SCREEN_H + CAR_HEIGHT)
    <3>1. i \in Racing!Slots /\ i \in 1..MAX_ENEMIES /\ game.enemies[i] # Racing!NoEnemy
      BY DEF Racing!Active, Racing!Slots
    <3>2. game.enemies[i] \in Cars
      BY <3>1 DEF RacingInv, RacingDriven, RacingKept
    <3> QED
      BY <3>1, <3>2 DEF RacingInv, RacingDriven, Cars
  <2> QED
    BY <2>1, <2>2 DEF RacingInv, RacingDriven, RacingKept, Racing!TypeOK
<1>2. Racing!Init => RacingInv
  BY RacingInit
<1>3. RacingInv /\ [Racing!Next]_game => RacingInv'
  BY RacingStep DEF RacingInv, RacingDriven, RacingKept
<1> QED
  BY <1>1, <1>2, <1>3, PTL DEF Racing!Spec

-----------------------------------------------------------------------------
(* Platformer.                                                             *)
PlatformerFields ==
    {"x", "feet", "vy", "on_ground", "collected", "score", "lives", "paused", "over"}

(* What every part of a pass keeps.                                        *)
PlatformerKept(g) ==
    /\ DOMAIN g = PlatformerFields
    /\ g.x \in MIN_X..MAX_X /\ g.vy \in JUMP_FORCE..MAX_FALL_SPEED /\ g.feet \in Int
    /\ g.collected \subseteq COINS /\ IsFiniteSet(g.collected)
    /\ g.score = 100 * Cardinality(g.collected)
    /\ g.lives \in 0..LIVES /\ (g.over <=> g.lives = 0)
    /\ g.on_ground => \E i \in DOMAIN PLATFORMS :
                         Platformer!Over(g, PLATFORMS[i]) /\ g.feet = PLATFORMS[i].y

PlatformerInv == PlatformerKept(game)

(* The first i platforms were looked at, and c came to them from above.    *)
PlatformerLanded(c, g, i) ==
    /\ PlatformerKept(g) /\ g.x = c.x /\ g.lives = c.lives /\ g.over = c.over
    /\ i = 0 => g = c
    /\ i > 0 /\ Platformer!Over(c, PLATFORMS[1]) /\ c.feet - c.vy <= PLATFORMS[1].y
          => g.feet <= PLATFORMS[1].y

PlatformerLoop == INSTANCE Loops
    WITH Step <- LAMBDA g, i : Platformer!Land(g, PLATFORMS[i]), Holds <- PlatformerLanded

(* After a platform has been looked at, the player is not inside the       *)
(* ground.                                                                 *)
LEMMA PlatformerLands ==
    ASSUME PlatformerCourt, NEW i \in 1..Len(PLATFORMS), NEW c, NEW g,
           PlatformerLanded(c, g, i - 1)
    PROVE  PlatformerLanded(c, Platformer!Land(g, PLATFORMS[i]), i)
<1> DEFINE p == PLATFORMS[i]
           ground == PLATFORMS[1]
           k == Platformer!Land(g, p)
<1>1. /\ p.x \in Int /\ p.w \in Nat /\ p.y \in Int /\ p.h \in Nat /\ i \in DOMAIN PLATFORMS
      /\ ground.y \in Int /\ ground.h \in Nat
  <2>1. PLATFORMS[i] \in [x : Int, w : Nat, y : Int, h : Nat]
        /\ PLATFORMS[1] \in [x : Int, w : Nat, y : Int, h : Nat] /\ i \in DOMAIN PLATFORMS
    <3>1. /\ PLATFORMS \in Seq([x : Int, w : Nat, y : Int, h : Nat])
          /\ 1 \in 1..Len(PLATFORMS)
      BY DEF PlatformerCourt, PlatformerTable
    <3> DEFINE R == [x : Int, w : Nat, y : Int, h : Nat]
    <3>2. PLATFORMS \in Seq(R)
      BY <3>1
    <3> HIDE DEF R
    <3>3. /\ DOMAIN PLATFORMS = 1..Len(PLATFORMS) /\ i \in 1..Len(PLATFORMS)
          /\ \A n \in 1..Len(PLATFORMS) : PLATFORMS[n] \in R
      BY <3>2
    <3> QED
      BY <3>1, <3>3 DEF R
  <2> QED
    BY <2>1
<1>2. PlatformerKept(g) /\ g.feet \in Int /\ g.vy \in Int /\ g.x \in Int
  BY DEF PlatformerLanded, PlatformerKept, PlatformerCourt
<1> HIDE DEF p
<1>3. CASE g.vy >= 0 /\ Platformer!Over(g, p) /\ g.feet \in p.y..(p.y + p.h + g.vy + SLACK)
  <2>1. k = [g EXCEPT !.feet = p.y, !.vy = 0, !.on_ground = TRUE]
    BY <1>3 DEF Platformer!Land
  <2>2. /\ DOMAIN k = PlatformerFields /\ k.x = g.x /\ k.feet = p.y /\ k.vy = 0
        /\ k.on_ground = TRUE /\ k.collected = g.collected /\ k.score = g.score
        /\ k.lives = g.lives /\ k.over = g.over /\ k.paused = g.paused
    BY <1>2, <2>1 DEF PlatformerKept, PlatformerFields
  <2>3. Platformer!Over(k, p)
    BY <1>3, <2>2 DEF Platformer!Over
  <2>4. p.y <= g.feet
    BY <1>1, <1>2, <1>3 DEF PlatformerCourt
  <2> HIDE DEF k
  <2>5. PlatformerKept(k)
    <3>1. \E j \in DOMAIN PLATFORMS : Platformer!Over(k, PLATFORMS[j]) /\ k.feet = PLATFORMS[j].y
      BY <1>1, <2>2, <2>3 DEF p
    <3>2. 0 \in JUMP_FORCE..MAX_FALL_SPEED
      BY DEF PlatformerCourt
    <3> QED
      BY <1>1, <1>2, <2>2, <3>1, <3>2 DEF PlatformerKept
  <2>6. ASSUME Platformer!Over(c, ground), c.feet - c.vy <= ground.y PROVE k.feet <= ground.y
    <3>1. CASE i = 1
      BY <1>1, <2>2, <3>1 DEF p
    <3>2. CASE i # 1
      <4>1. i - 1 > 0
        BY <3>2
      <4>2. g.feet <= ground.y
        BY <2>6, <4>1 DEF PlatformerLanded
      <4> QED
        BY <1>1, <1>2, <2>2, <2>4, <4>2
    <3> QED
      BY <3>1, <3>2
  <2>7. PlatformerLanded(c, k, i)
    BY <2>2, <2>5, <2>6 DEF PlatformerLanded
  <2> QED
    BY <2>7 DEF k, p
<1>4. CASE ~(g.vy >= 0 /\ Platformer!Over(g, p) /\ g.feet \in p.y..(p.y + p.h + g.vy + SLACK))
  <2>1. k = g
    BY <1>4, Zenon DEF Platformer!Land
  <2>2. ASSUME Platformer!Over(c, ground), c.feet - c.vy <= ground.y PROVE g.feet <= ground.y
    <3>1. CASE i = 1
      <4>1. g = c
        BY <3>1 DEF PlatformerLanded
      <4>2. Platformer!Over(g, p)
        BY <2>2, <3>1, <4>1 DEF p
      <4>3. g.feet <= ground.y + g.vy
        BY <1>1, <1>2, <2>2, <4>1
      <4>4. p = ground
        BY <3>1 DEF p
      <4>5. g.vy < 0 \/ g.feet \notin p.y..(p.y + p.h + g.vy + SLACK)
        BY <1>2, <1>4, <4>2
      <4>6. SLACK \in Nat /\ g.feet \in Int /\ g.vy \in Int /\ p.y \in Int /\ p.h \in Nat
        BY <1>1, <1>2 DEF PlatformerCourt
      <4> QED
        BY <4>3, <4>4, <4>5, <4>6
    <3>2. CASE i # 1
      <4>1. i - 1 > 0
        BY <3>2
      <4> QED
        BY <2>2, <4>1 DEF PlatformerLanded
    <3> QED
      BY <3>1, <3>2
  <2>3. PlatformerLanded(c, g, i)
    BY <2>2 DEF PlatformerLanded
  <2> QED
    BY <2>1, <2>3 DEF p
<1> QED
  BY <1>3, <1>4

(* The player falls onto something, or is lost and begins again.           *)
LEMMA PlatformerFalls ==
    ASSUME PlatformerCourt, NEW g, PlatformerKept(g), ~g.over
    PROVE  /\ PlatformerKept(Platformer!Fall(g))
           /\ \/ Platformer!Fall(g).feet <= PLATFORMS[1].y
              \/ Platformer!Fall(g).x = g.x /\ Platformer!Fall(g).feet = g.feet
<1> DEFINE k == Platformer!Fall(g)
<1>1. g.lives \in Nat /\ g.lives <= LIVES /\ g.lives > 0 /\ g.feet \in Int
  BY DEF PlatformerKept, PlatformerCourt
<1>2. CASE g.feet <= BOTTOM
  BY <1>2 DEF Platformer!Fall
<1>3. CASE ~(g.feet <= BOTTOM)
  <2>1. ~g.on_ground
    BY <1>3 DEF PlatformerKept, PlatformerCourt, PlatformerTable
  <2>2. CASE g.lives <= 1
    <3>1. /\ DOMAIN k = PlatformerFields /\ k.x = g.x /\ k.feet = g.feet /\ k.vy = g.vy
          /\ k.on_ground = g.on_ground /\ k.collected = g.collected /\ k.score = g.score
          /\ k.lives = g.lives - 1 /\ k.over = TRUE /\ k.paused = g.paused
      BY <1>3, <2>2 DEF PlatformerKept, PlatformerFields, Platformer!Fall
    <3>2. g.lives - 1 = 0
      BY <1>1, <2>2
    <3>3. 0 \in 0..LIVES
      BY DEF PlatformerCourt
    <3> HIDE DEF k
    <3>4. PlatformerKept(k)
      BY <2>1, <3>1, <3>2, <3>3 DEF PlatformerKept
    <3> QED
      BY <3>1, <3>4 DEF k
  <2>3. CASE ~(g.lives <= 1)
    <3>1. /\ DOMAIN k = PlatformerFields /\ k.x = START[1] /\ k.feet = START[2] /\ k.vy = 0
          /\ k.on_ground = g.on_ground /\ k.collected = g.collected /\ k.score = g.score
          /\ k.lives = g.lives - 1 /\ k.over = g.over /\ k.paused = g.paused
      BY <1>3, <2>3 DEF PlatformerKept, PlatformerFields, Platformer!Fall
    <3>2. g.lives - 1 \in 0..LIVES /\ g.lives - 1 # 0
      BY <1>1, <2>3 DEF PlatformerCourt
    <3>3. /\ 0 \in JUMP_FORCE..MAX_FALL_SPEED /\ START[1] \in MIN_X..MAX_X /\ START[2] \in Int
          /\ START[2] <= PLATFORMS[1].y
      BY DEF PlatformerCourt, PlatformerTable
    <3> HIDE DEF k
    <3>4. PlatformerKept(k)
      BY <2>1, <3>1, <3>2, <3>3 DEF PlatformerKept
    <3> QED
      BY <3>1, <3>3, <3>4 DEF k
  <2> QED
    BY <2>2, <2>3
<1> QED
  BY <1>2, <1>3

(* A coin is worth its points, whether or not it is the last.              *)
LEMMA PlatformerCollects ==
    ASSUME PlatformerCourt, NEW g, PlatformerKept(g)
    PROVE  /\ PlatformerKept(Platformer!Collect(g))
           /\ Platformer!Collect(g).x = g.x /\ Platformer!Collect(g).feet = g.feet
<1> DEFINE found == {c \in COINS \ g.collected : c = <<g.x, g.feet>>}
           all == g.collected \cup found
           k == Platformer!Collect(g)
<1>1. Cardinality(all) = Cardinality(g.collected) + Cardinality(found)
      /\ Cardinality(all) \in Nat /\ Cardinality(found) \in Nat /\ IsFiniteSet(all)
      /\ Cardinality(g.collected) \in Nat
  <2>1. IsFiniteSet(g.collected)
    BY DEF PlatformerKept
  <2>2. IsFiniteSet(found)
    <3>1. IsFiniteSet({<<g.x, g.feet>>}) /\ found \subseteq {<<g.x, g.feet>>}
      BY FS_Singleton
    <3> HIDE DEF found
    <3> QED
      BY <3>1, FS_Subset
  <2>3. g.collected \cap found = {}
    OBVIOUS
  <2> HIDE DEF found
  <2>4. IsFiniteSet(all) /\ Cardinality(all) = Cardinality(g.collected) + Cardinality(found)
                                                - Cardinality({})
    BY <2>1, <2>2, <2>3, FS_Union
  <2>5. Cardinality({}) = 0 /\ Cardinality(found) \in Nat /\ Cardinality(g.collected) \in Nat
    BY <2>1, <2>2, FS_CardinalityType, FS_EmptySet
  <2> QED
    BY <2>4, <2>5
<1>2. all \subseteq COINS
  BY DEF PlatformerKept
<1>3. k = [g EXCEPT !.collected = all, !.score = @ + 100 * Cardinality(found)]
  BY SameCardinalities DEF Platformer!Collect
<1> HIDE DEF found
<1>4. /\ DOMAIN k = PlatformerFields /\ k.x = g.x /\ k.feet = g.feet /\ k.vy = g.vy
      /\ k.on_ground = g.on_ground /\ k.collected = all
      /\ k.score = g.score + 100 * Cardinality(found)
      /\ k.lives = g.lives /\ k.over = g.over /\ k.paused = g.paused
  BY <1>3 DEF PlatformerKept, PlatformerFields
<1> HIDE DEF all, k
<1>5. k.score = 100 * Cardinality(all)
  BY <1>1, <1>4 DEF PlatformerKept
<1>6. k.on_ground => \E i \in DOMAIN PLATFORMS :
                        Platformer!Over(k, PLATFORMS[i]) /\ k.feet = PLATFORMS[i].y
  BY <1>4 DEF PlatformerKept, Platformer!Over
<1>7. PlatformerKept(k)
  BY <1>1, <1>2, <1>4, <1>5, <1>6 DEF PlatformerKept
<1> QED
  BY <1>4, <1>7 DEF k

(* Every step of the game keeps the invariant.                             *)
LEMMA PlatformerStep ==
    ASSUME PlatformerCourt, PlatformerInv, Platformer!Next
    PROVE  PlatformerInv' /\ Platformer!GroundHolds
<1>0. PlatformerKept(game)
  BY DEF PlatformerInv
<1>1. CASE Platformer!Pause
  <2>1. /\ DOMAIN game' = PlatformerFields /\ game'.x = game.x /\ game'.feet = game.feet
        /\ game'.vy = game.vy /\ game'.on_ground = game.on_ground
        /\ game'.collected = game.collected /\ game'.score = game.score
        /\ game'.lives = game.lives /\ game'.over = game.over
    BY <1>0, <1>1 DEF Platformer!Pause, PlatformerKept, PlatformerFields
  <2>2. PlatformerKept(game')
    BY <1>0, <2>1 DEF PlatformerKept, Platformer!Over
  <2> QED
    BY <2>1, <2>2 DEF PlatformerInv, Platformer!GroundHolds
<1>2. CASE Platformer!Update
  <2>1. PICK keys \in Platformer!Held :
           /\ game.x + keys.arrows \in MIN_X..MAX_X
           /\ game' = Platformer!game_update(game, keys.arrows, keys.jump)
    BY <1>2 DEF Platformer!Update
  <2> DEFINE j == Platformer!Jump(game, keys.jump)
             c == Platformer!Move(j, keys.arrows)
             l == Platformer!LandAll(c)
             f == Platformer!Fall(l)
  <2>2. PlatformerKept(j) /\ j.x = game.x /\ j.feet = game.feet /\ ~j.over
    <3>1. CASE j = game
      BY <1>0, <1>2, <3>1 DEF Platformer!Update
    <3>2. CASE j = [game EXCEPT !.vy = JUMP_FORCE, !.on_ground = FALSE]
      <4>1. /\ DOMAIN j = PlatformerFields /\ j.x = game.x /\ j.feet = game.feet
            /\ j.vy = JUMP_FORCE /\ j.on_ground = FALSE /\ j.collected = game.collected
            /\ j.score = game.score /\ j.lives = game.lives /\ j.over = game.over
        BY <1>0, <3>2 DEF PlatformerKept, PlatformerFields
      <4>2. JUMP_FORCE \in JUMP_FORCE..MAX_FALL_SPEED
        BY DEF PlatformerCourt
      <4> HIDE DEF j
      <4> QED
        BY <1>0, <1>2, <4>1, <4>2 DEF PlatformerKept, Platformer!Update
    <3> QED
      BY <3>1, <3>2, Zenon DEF Platformer!Jump
  <2> HIDE DEF j
  <2>3. PlatformerKept(c) /\ c.x = game.x + keys.arrows /\ c.feet - c.vy = game.feet /\ ~c.over
    <3> DEFINE vy == IF j.vy + GRAVITY > MAX_FALL_SPEED THEN MAX_FALL_SPEED ELSE j.vy + GRAVITY
    <3>1. /\ DOMAIN c = PlatformerFields /\ c.x = j.x + keys.arrows /\ c.feet = j.feet + vy
          /\ c.vy = vy /\ c.on_ground = FALSE /\ c.collected = j.collected
          /\ c.score = j.score /\ c.lives = j.lives /\ c.over = j.over
      BY <2>2 DEF PlatformerKept, PlatformerFields, Platformer!Move
    <3>2. vy \in JUMP_FORCE..MAX_FALL_SPEED /\ vy \in Int /\ j.feet \in Int
      BY <2>2 DEF PlatformerKept, PlatformerCourt
    <3> HIDE DEF c, vy
    <3>3. c.feet \in Int /\ c.feet - c.vy = game.feet
      BY <2>2, <3>1, <3>2
    <3> QED
      BY <2>1, <2>2, <3>1, <3>2, <3>3 DEF PlatformerKept
  <2> HIDE DEF c
  <2>4. PlatformerLanded(c, l, Len(PLATFORMS))
    <3>1. PlatformerLanded(c, c, 0)
      BY <2>3 DEF PlatformerLanded
    <3>2. \A i \in 1..Len(PLATFORMS) : \A h :
             PlatformerLanded(c, h, i - 1)
                => PlatformerLanded(c, Platformer!Land(h, PLATFORMS[i]), i)
      BY PlatformerLands
    <3>3. Len(PLATFORMS) \in Nat
      BY DEF PlatformerCourt, PlatformerTable
    <3>4. PlatformerLanded(c, PlatformerLoop!Loop(c, Len(PLATFORMS)), Len(PLATFORMS))
      BY <3>1, <3>2, <3>3, PlatformerLoop!Kept, HasLeast
    <3>5. l = PlatformerLoop!Loop(c, Len(PLATFORMS))
      BY DEF Platformer!LandAll, PlatformerLoop!Loop
    <3> QED
      BY <3>4, <3>5
  <2> HIDE DEF l
  <2>5. PlatformerKept(l) /\ l.x = c.x /\ ~l.over
    BY <2>3, <2>4 DEF PlatformerLanded
  <2>6. /\ PlatformerKept(f)
        /\ \/ f.feet <= PLATFORMS[1].y
           \/ f.x = l.x /\ f.feet = l.feet
    BY <2>5, PlatformerFalls
  <2> HIDE DEF f
  <2>7. PlatformerKept(game') /\ game'.x = f.x /\ game'.feet = f.feet
    BY <2>1, <2>6, PlatformerCollects DEF Platformer!game_update, j, c, l, f
  <2>8. Platformer!GroundHolds
    <3> SUFFICES ASSUME game.feet <= PLATFORMS[1].y, Platformer!Over(game', PLATFORMS[1]),
                        f.x = l.x, f.feet = l.feet
                 PROVE  game'.feet <= PLATFORMS[1].y
      BY <2>6, <2>7 DEF Platformer!GroundHolds
    <3>1. Platformer!Over(c, PLATFORMS[1])
      BY <2>5, <2>7 DEF Platformer!Over
    <3>2. Len(PLATFORMS) > 0
      BY DEF PlatformerCourt, PlatformerTable
    <3>3. l.feet <= PLATFORMS[1].y
      BY <2>3, <2>4, <3>1, <3>2 DEF PlatformerLanded
    <3> QED
      BY <2>7, <3>3
  <2> QED
    BY <2>7, <2>8 DEF PlatformerInv
<1> QED
  BY <1>1, <1>2 DEF Platformer!Next

(* The invariant holds when a game begins.                                 *)
LEMMA PlatformerInit == ASSUME PlatformerCourt, Platformer!Init PROVE PlatformerInv
<1>1. /\ DOMAIN game = PlatformerFields /\ game.x = START[1] /\ game.feet = START[2]
      /\ game.vy = 0 /\ game.on_ground = FALSE /\ game.collected = {} /\ game.score = 0
      /\ game.lives = LIVES /\ game.over = FALSE
  BY DEF Platformer!Init, Platformer!game_init, PlatformerFields
<1>2. Cardinality({}) = 0 /\ IsFiniteSet({})
  BY FS_EmptySet
<1>3. START[1] \in MIN_X..MAX_X /\ START[2] \in Int /\ 0 \in JUMP_FORCE..MAX_FALL_SPEED
      /\ LIVES \in 0..LIVES /\ LIVES # 0
  BY DEF PlatformerCourt
<1> QED
  BY <1>1, <1>2, <1>3 DEF PlatformerInv, PlatformerKept

(* In drm-platformer.c who may jump stands on a platform, whichever of the *)
(* list was looked at last; a coin is paid for once; and nobody falls      *)
(* through the ground, however fast.                                       *)
THEOREM PlatformerCorrect ==
    ASSUME PlatformerCourt
    PROVE  Platformer!Spec => /\ [](/\ Platformer!TypeOK /\ Platformer!StandsOnSomething
                                    /\ Platformer!CoinsOnce)
                              /\ Platformer!NobodyFallsThrough
<1>1. PlatformerInv => /\ Platformer!TypeOK /\ Platformer!StandsOnSomething
                       /\ Platformer!CoinsOnce
  <2> SUFFICES ASSUME PlatformerInv
               PROVE  Platformer!TypeOK /\ Platformer!StandsOnSomething /\ Platformer!CoinsOnce
    OBVIOUS
  <2>1. Platformer!TypeOK
    BY DEF PlatformerInv, PlatformerKept, Platformer!TypeOK
  <2>2. Platformer!StandsOnSomething
    BY Zenon DEF PlatformerInv, PlatformerKept, Platformer!StandsOnSomething
  <2>3. Platformer!CoinsOnce
    <3>1. game.score = 100 * Cardinality(game.collected) /\ (game.over <=> game.lives = 0)
      BY Zenon DEF PlatformerInv, PlatformerKept
    <3> QED
      BY <3>1, SameCardinalities, Zenon DEF Platformer!CoinsOnce
  <2> QED
    BY <2>1, <2>2, <2>3
<1>2. Platformer!Init => PlatformerInv
  BY PlatformerInit
<1>3. PlatformerInv /\ [Platformer!Next]_game => PlatformerInv' /\ [Platformer!GroundHolds]_game
  <2>1. ASSUME PlatformerInv, UNCHANGED game PROVE PlatformerInv'
    BY <2>1 DEF PlatformerInv, PlatformerKept, Platformer!Over
  <2> QED
    BY <2>1, PlatformerStep
<1> QED
  BY <1>1, <1>2, <1>3, PTL DEF Platformer!Spec, Platformer!NobodyFallsThrough

-----------------------------------------------------------------------------
(* Asteroids.                                                              *)
AsteroidsFields ==
    {"alive", "respawn", "cooldown", "bullets", "rocks", "lives", "wave", "paused", "over"}

(* A table with room for all there is of it.                               *)
RocksFit(rocks) ==
    /\ rocks \in [Asteroids!Sizes -> Nat] /\ Asteroids!Count(rocks) \in 0..MAX_ASTEROIDS

(* What every part of a pass keeps; n is the wave.                         *)
AsteroidsKept(n, g) ==
    /\ DOMAIN g = AsteroidsFields /\ g.wave = n
    /\ g.bullets \in [Asteroids!Slots -> 0..BULLET_LIFE] /\ RocksFit(g.rocks)
    /\ g.cooldown \in 0..FIRE_COOLDOWN /\ g.respawn \in 0..RESPAWN /\ g.lives \in 0..LIVES
    /\ g.alive \in BOOLEAN /\ g.over \in BOOLEAN
    /\ g.over <=> g.lives = 0
    /\ ~g.alive => g.respawn > 0
    /\ g.over => ~g.alive
    /\ n = 0 => Asteroids!Count(g.rocks) = 0

AsteroidsWhole(g) ==
    /\ AsteroidsKept(g.wave, g) /\ g.wave \in 0..MaxWave
    /\ (Asteroids!Count(g.rocks) = 0) <=> (g.wave = 0)

AsteroidsInv == AsteroidsWhole(game)

(* All the passes the loop over the bullets may be.                        *)
AllKept(n, S, i) == \A g \in S : AsteroidsKept(n, g)

AsteroidsLoop == INSTANCE Loops
    WITH Step <- LAMBDA S, i : UNION {Asteroids!Hits(h, i) : h \in S}, Holds <- AllKept

(* There are three sizes of rocks.                                         *)
LEMMA AsteroidsCount ==
    /\ Asteroids!Sizes = {1, 2, 3}
    /\ \A rocks \in [Asteroids!Sizes -> Nat] :
          /\ rocks[1] \in Nat /\ rocks[2] \in Nat /\ rocks[3] \in Nat
          /\ Asteroids!Count(rocks) = rocks[1] + rocks[2] + rocks[3]
          /\ Asteroids!Count(rocks) \in Nat
<1>1. Asteroids!Sizes = {1, 2, 3}
  BY DEF Asteroids!Sizes, Asteroids!SMALL, Asteroids!LARGE
<1> QED
  BY <1>1 DEF Asteroids!Count

(* A rock that is hit makes room for its parts, as far as the table has it.*)
LEMMA AsteroidsSplit ==
    ASSUME AsteroidsCourt, NEW rocks, RocksFit(rocks), NEW s \in Asteroids!Sizes, rocks[s] > 0
    PROVE  RocksFit(Asteroids!Split(rocks, s)) /\ Asteroids!Count(rocks) # 0
<1> DEFINE rest == [rocks EXCEPT ![s] = @ - 1]
           more == Asteroids!Least(2, MAX_ASTEROIDS - Asteroids!Count(rest))
           halves == [rest EXCEPT ![s - 1] = @ + more]
<1>1. rocks \in [Asteroids!Sizes -> Nat] /\ Asteroids!Count(rocks) <= MAX_ASTEROIDS
  BY DEF RocksFit
<1>2. rest \in [Asteroids!Sizes -> Nat] /\ Asteroids!Count(rest) = Asteroids!Count(rocks) - 1
  <2>1. rest \in [Asteroids!Sizes -> Nat]
    BY <1>1, AsteroidsCount
  <2>2. \A t \in {1, 2, 3} : rest[t] = IF t = s THEN rocks[t] - 1 ELSE rocks[t]
    BY <1>1, AsteroidsCount
  <2> HIDE DEF rest
  <2> QED
    BY <1>1, <2>1, <2>2, AsteroidsCount
<1> HIDE DEF rest
<1>0. Asteroids!Count(rocks) # 0
  BY <1>1, <1>2, AsteroidsCount
<1>3. Asteroids!Count(rest) \in Nat /\ Asteroids!Count(rest) <= MAX_ASTEROIDS
  BY <1>1, <1>2, AsteroidsCount DEF AsteroidsCourt
<1>4. CASE s = Asteroids!SMALL
  <2>1. Asteroids!Split(rocks, s) = rest
    BY <1>4 DEF Asteroids!Split, rest
  <2> QED
    BY <1>0, <1>2, <1>3, <2>1 DEF RocksFit, AsteroidsCourt
<1>5. CASE s # Asteroids!SMALL
  <2>1. Asteroids!Split(rocks, s) = halves
    BY <1>5 DEF Asteroids!Split, rest
  <2>2. more \in Nat /\ Asteroids!Count(rest) + more <= MAX_ASTEROIDS
    BY <1>3 DEF Asteroids!Least, AsteroidsCourt
  <2> HIDE DEF more
  <2>3. s \in {2, 3} /\ s - 1 \in {1, 2}
    BY <1>5, AsteroidsCount DEF Asteroids!SMALL
  <2>4. halves \in [Asteroids!Sizes -> Nat]
    BY <1>2, <2>2, <2>3, AsteroidsCount
  <2>5. \A t \in {1, 2, 3} : halves[t] = IF t = s - 1 THEN rest[t] + more ELSE rest[t]
    BY <1>2, AsteroidsCount
  <2> HIDE DEF halves
  <2>6. Asteroids!Count(halves) = Asteroids!Count(rest) + more
    BY <1>2, <2>2, <2>3, <2>4, <2>5, AsteroidsCount
  <2> QED
    BY <1>0, <1>3, <2>1, <2>2, <2>4, <2>6 DEF RocksFit, AsteroidsCourt
<1> QED
  BY <1>4, <1>5

(* A new wave, and nothing else.                                           *)
AsteroidsSpawned(g, r) ==
    /\ DOMAIN r = AsteroidsFields /\ r.wave = g.wave + 1 /\ RocksFit(r.rocks)
    /\ Asteroids!Count(r.rocks) > 0 /\ r.bullets = g.bullets /\ r.cooldown = g.cooldown
    /\ r.lives = g.lives /\ r.respawn = g.respawn /\ r.alive = g.alive /\ r.over = g.over

(* The rocks of a new wave fit in the table.                               *)
LEMMA AsteroidsSpawns ==
    ASSUME AsteroidsCourt, NEW g, DOMAIN g = AsteroidsFields, g.wave \in Nat
    PROVE  AsteroidsSpawned(g, Asteroids!spawn_wave(g))
<1> DEFINE count == Asteroids!Least(WAVE_BASE + g.wave + 1, MAX_ASTEROIDS \div 2)
           rocks == [Asteroids!NoRocks EXCEPT ![Asteroids!LARGE] = count]
           r == Asteroids!spawn_wave(g)
<1>1. count \in Nat /\ count > 0 /\ count <= MAX_ASTEROIDS
  <2>1. MAX_ASTEROIDS \div 2 \in Nat /\ MAX_ASTEROIDS \div 2 > 0
        /\ MAX_ASTEROIDS \div 2 <= MAX_ASTEROIDS
    BY SMT DEF AsteroidsCourt
  <2>2. WAVE_BASE + g.wave + 1 \in Nat /\ WAVE_BASE + g.wave + 1 > 0
    BY DEF AsteroidsCourt
  <2> QED
    BY <2>1, <2>2 DEF Asteroids!Least, AsteroidsCourt
<1>2. r = [g EXCEPT !.wave = @ + 1, !.rocks = rocks]
  BY DEF Asteroids!spawn_wave
<1> HIDE DEF count
<1>3. /\ rocks \in [Asteroids!Sizes -> Nat]
      /\ \A t \in {1, 2, 3} : rocks[t] = IF t = 3 THEN count ELSE 0
  BY <1>1, AsteroidsCount DEF Asteroids!NoRocks, Asteroids!LARGE
<1> HIDE DEF rocks
<1>4. RocksFit(rocks) /\ Asteroids!Count(rocks) > 0
  BY <1>1, <1>3, AsteroidsCount DEF RocksFit, AsteroidsCourt
<1>5. /\ DOMAIN r = AsteroidsFields /\ r.wave = g.wave + 1 /\ r.rocks = rocks
      /\ r.bullets = g.bullets /\ r.cooldown = g.cooldown /\ r.lives = g.lives
      /\ r.respawn = g.respawn /\ r.alive = g.alive /\ r.over = g.over
  BY <1>2 DEF AsteroidsFields
<1> HIDE DEF r
<1>6. AsteroidsSpawned(g, r)
  BY <1>4, <1>5 DEF AsteroidsSpawned
<1> QED
  BY <1>6 DEF r

(* A bullet meets a rock, or none.                                         *)
LEMMA AsteroidsHits ==
    ASSUME AsteroidsCourt, NEW n, NEW g, AsteroidsKept(n, g), NEW i \in 1..MAX_BULLETS,
           NEW h \in Asteroids!Hits(g, i)
    PROVE  AsteroidsKept(n, h)
<1>1. CASE h = g
  BY <1>1
<1>2. CASE h # g
  <2>1. PICK s \in Asteroids!Sizes :
          g.rocks[s] > 0 /\ h = [g EXCEPT !.bullets[i] = 0, !.rocks = Asteroids!Split(g.rocks, s)]
    BY <1>2 DEF Asteroids!Hits
  <2>2. RocksFit(Asteroids!Split(g.rocks, s)) /\ Asteroids!Count(g.rocks) # 0
    BY <2>1, AsteroidsSplit DEF AsteroidsKept
  <2>3. /\ DOMAIN h = AsteroidsFields /\ h.bullets = [g.bullets EXCEPT ![i] = 0]
        /\ h.rocks = Asteroids!Split(g.rocks, s) /\ h.wave = g.wave /\ h.lives = g.lives
        /\ h.cooldown = g.cooldown /\ h.respawn = g.respawn /\ h.alive = g.alive
        /\ h.over = g.over
    BY <2>1 DEF AsteroidsKept, AsteroidsFields
  <2>4. h.bullets \in [Asteroids!Slots -> 0..BULLET_LIFE]
    BY <2>3 DEF AsteroidsKept, Asteroids!Slots, AsteroidsCourt
  <2> QED
    BY <2>2, <2>3, <2>4 DEF AsteroidsKept
<1> QED
  BY <1>1, <1>2

(* The ship moves, waits, or comes back.                                   *)
LEMMA AsteroidsShip ==
    ASSUME AsteroidsCourt, NEW n, NEW g, AsteroidsKept(n, g), ~g.over, NEW key
    PROVE  AsteroidsKept(n, Asteroids!MoveShip(g, key))
<1> DEFINE f == Asteroids!Fire(g, key)
           free == Asteroids!FreeSlots(g)
           c == Asteroids!CoolDown(f)
           r == Asteroids!Respawn(g)
<1>1. CASE g.alive
  <2>1. AsteroidsKept(n, f) /\ f.alive
    <3>1. CASE f = g
      BY <1>1, <3>1
    <3>2. CASE f # g
      <4>1. /\ f = [g EXCEPT !.bullets[Asteroids!Min(free)] = BULLET_LIFE,
                             !.cooldown = FIRE_COOLDOWN]
            /\ free # {}
        BY <3>2 DEF Asteroids!Fire
      <4>2. Asteroids!Min(free) \in Asteroids!Slots
        <5>1. free \subseteq Nat /\ free \subseteq Asteroids!Slots
          BY DEF Asteroids!FreeSlots, Asteroids!Slots
        <5> HIDE DEF free
        <5>2. PICK m \in free : \A k \in free : m <= k
          BY <4>1, <5>1, HasLeast
        <5> QED
          BY <5>1, <5>2 DEF Asteroids!Min
      <4> HIDE DEF free
      <4>3. /\ DOMAIN f = AsteroidsFields
            /\ f.bullets = [g.bullets EXCEPT ![Asteroids!Min(free)] = BULLET_LIFE]
            /\ f.cooldown = FIRE_COOLDOWN /\ f.rocks = g.rocks /\ f.wave = g.wave
            /\ f.lives = g.lives /\ f.respawn = g.respawn /\ f.alive = g.alive
            /\ f.over = g.over
        BY <4>1 DEF AsteroidsKept, AsteroidsFields
      <4> HIDE DEF f
      <4>4. f.bullets \in [Asteroids!Slots -> 0..BULLET_LIFE] /\ f.cooldown \in 0..FIRE_COOLDOWN
        BY <4>2, <4>3 DEF AsteroidsKept, AsteroidsCourt
      <4> QED
        BY <1>1, <4>3, <4>4 DEF AsteroidsKept
    <3> QED
      BY <3>1, <3>2
  <2> HIDE DEF f
  <2>2. /\ DOMAIN c = AsteroidsFields /\ c.bullets = f.bullets
        /\ c.cooldown = (IF f.cooldown > 0 THEN f.cooldown - 1 ELSE 0) /\ c.rocks = f.rocks
        /\ c.wave = f.wave /\ c.lives = f.lives /\ c.respawn = f.respawn
        /\ c.alive = f.alive /\ c.over = f.over
    BY <2>1 DEF AsteroidsKept, AsteroidsFields, Asteroids!CoolDown
  <2> HIDE DEF c
  <2>3. c.cooldown \in 0..FIRE_COOLDOWN
    BY <2>1, <2>2 DEF AsteroidsKept, AsteroidsCourt
  <2>4. AsteroidsKept(n, c)
    BY <2>1, <2>2, <2>3 DEF AsteroidsKept
  <2> QED
    BY <1>1, <2>4 DEF Asteroids!MoveShip, c, f
<1>2. CASE ~g.alive
  <2>1. CASE g.respawn > 1
    <3>1. /\ DOMAIN r = AsteroidsFields /\ r.bullets = g.bullets /\ r.cooldown = g.cooldown
          /\ r.rocks = g.rocks /\ r.wave = g.wave /\ r.lives = g.lives
          /\ r.respawn = g.respawn - 1 /\ r.alive = g.alive /\ r.over = g.over
      BY <2>1 DEF AsteroidsKept, AsteroidsFields, Asteroids!Respawn
    <3>2. g.respawn - 1 \in 0..RESPAWN /\ g.respawn - 1 > 0
      BY <2>1 DEF AsteroidsKept, AsteroidsCourt
    <3> HIDE DEF r
    <3>3. AsteroidsKept(n, r)
      BY <3>1, <3>2 DEF AsteroidsKept
    <3> QED
      BY <1>2, <3>3 DEF Asteroids!MoveShip, r
  <2>2. CASE ~(g.respawn > 1)
    <3>1. /\ DOMAIN r = AsteroidsFields /\ r.bullets = g.bullets /\ r.cooldown = g.cooldown
          /\ r.rocks = g.rocks /\ r.wave = g.wave /\ r.lives = g.lives
          /\ r.respawn = 0 /\ r.alive = TRUE /\ r.over = g.over
      BY <2>2 DEF AsteroidsKept, AsteroidsFields, Asteroids!Respawn
    <3> HIDE DEF r
    <3>2. AsteroidsKept(n, r)
      <4>1. 0 \in 0..RESPAWN /\ TRUE \in BOOLEAN
        BY DEF AsteroidsCourt
      <4>2. ~r.over /\ r.alive
        BY <3>1
      <4> QED
        BY <3>1, <4>1, <4>2 DEF AsteroidsKept
    <3> QED
      BY <1>2, <3>2 DEF Asteroids!MoveShip, r
  <2> QED
    BY <2>1, <2>2
<1> QED
  BY <1>1, <1>2

(* A pass of the game.                                                     *)
LEMMA AsteroidsPass ==
    ASSUME AsteroidsCourt, NEW g, AsteroidsWhole(g), g.wave < MaxWave, ~g.over, NEW key,
           NEW k \in Asteroids!game_update(g, key)
    PROVE  AsteroidsWhole(k)
<1> DEFINE n == g.wave
           m == Asteroids!MoveShip(g, key)
           b == Asteroids!MoveBullets(m)
<1>1. AsteroidsKept(n, m)
  BY AsteroidsShip DEF AsteroidsWhole
<1> HIDE DEF m
<1>2. AsteroidsKept(n, b)
  <2>1. /\ DOMAIN b = AsteroidsFields
        /\ b.bullets = [i \in Asteroids!Slots |-> IF m.bullets[i] > 0 THEN m.bullets[i] - 1 ELSE 0]
        /\ b.cooldown = m.cooldown /\ b.rocks = m.rocks /\ b.wave = m.wave /\ b.lives = m.lives
        /\ b.respawn = m.respawn /\ b.alive = m.alive /\ b.over = m.over
    BY <1>1 DEF AsteroidsKept, AsteroidsFields, Asteroids!MoveBullets
  <2> HIDE DEF b
  <2>2. b.bullets \in [Asteroids!Slots -> 0..BULLET_LIFE]
    <3>1. m.bullets \in [Asteroids!Slots -> 0..BULLET_LIFE] /\ BULLET_LIFE \in Nat
      BY <1>1 DEF AsteroidsKept, AsteroidsCourt
    <3> QED
      BY <2>1, <3>1
  <2> QED
    BY <1>1, <2>1, <2>2 DEF AsteroidsKept
<1> HIDE DEF b
<1>3. AllKept(n, Asteroids!HitRocks(b), MAX_BULLETS)
  <2>1. AllKept(n, {b}, 0)
    BY <1>2 DEF AllKept
  <2>2. \A i \in 1..MAX_BULLETS : \A S :
           AllKept(n, S, i - 1) => AllKept(n, UNION {Asteroids!Hits(h, i) : h \in S}, i)
    <3> SUFFICES ASSUME NEW i \in 1..MAX_BULLETS, NEW S, AllKept(n, S, i - 1),
                        NEW h \in S, NEW x \in Asteroids!Hits(h, i)
                 PROVE  AsteroidsKept(n, x)
      BY DEF AllKept
    <3>1. AsteroidsKept(n, h)
      BY DEF AllKept
    <3> QED
      BY <3>1, AsteroidsHits
  <2>3. MAX_BULLETS \in Nat
    BY DEF AsteroidsCourt
  <2>4. AllKept(n, AsteroidsLoop!Loop({b}, MAX_BULLETS), MAX_BULLETS)
    BY <2>1, <2>2, <2>3, AsteroidsLoop!Kept, HasLeast
  <2>5. Asteroids!HitRocks(b) = AsteroidsLoop!Loop({b}, MAX_BULLETS)
    BY DEF Asteroids!HitRocks, AsteroidsLoop!Loop
  <2> QED
    BY <2>4, <2>5
<1>4a. PICK l \in Asteroids!HitRocks(b) : \E x \in Asteroids!HitShip(l) : k = Asteroids!NextWave(x)
  BY DEF Asteroids!game_update, b, m
<1>4. PICK h \in Asteroids!HitShip(l) : k = Asteroids!NextWave(h)
  BY <1>4a
<1>5. AsteroidsKept(n, l)
  BY <1>3, <1>4 DEF AllKept
<1>6. AsteroidsKept(n, h)
  <2>1. CASE h = l
    BY <1>5, <2>1
  <2>2. CASE h # l
    <3>1. l.alive /\ h = Asteroids!Wreck(l)
      BY <1>4, <2>2 DEF Asteroids!HitShip
    <3>2. l.lives \in Nat /\ l.lives > 0 /\ l.lives <= LIVES /\ RESPAWN \in 0..RESPAWN /\ RESPAWN > 0
      BY <1>5, <3>1 DEF AsteroidsKept, AsteroidsCourt
    <3>3. /\ DOMAIN h = AsteroidsFields /\ h.bullets = l.bullets /\ h.cooldown = l.cooldown
          /\ h.rocks = l.rocks /\ h.wave = l.wave /\ h.lives = l.lives - 1
          /\ h.respawn = RESPAWN /\ h.alive = FALSE /\ h.over = (l.lives <= 1)
      BY <1>5, <3>1 DEF AsteroidsKept, AsteroidsFields, Asteroids!Wreck
    <3>4. h.lives \in 0..LIVES /\ (h.over <=> h.lives = 0) /\ h.over \in BOOLEAN
      <4>1. h.lives \in 0..LIVES
        BY <3>2, <3>3 DEF AsteroidsCourt
      <4>2. CASE l.lives <= 1
        <5>1. l.lives - 1 = 0
          BY <3>2, <4>2
        <5>2. h.over = TRUE
          BY <3>3, <4>2, Zenon
        <5> QED
          BY <3>3, <4>1, <5>1, <5>2
      <4>3. CASE ~(l.lives <= 1)
        <5>1. l.lives - 1 # 0
          BY <3>2, <4>3
        <5>2. (l.lives <= 1) = FALSE
          BY <3>2, <4>3
        <5>3. h.over = FALSE
          BY <3>3, <5>2, Zenon
        <5> QED
          BY <3>3, <4>1, <5>1, <5>3
      <4> QED
        BY <4>2, <4>3
    <3> QED
      BY <1>5, <3>2, <3>3, <3>4 DEF AsteroidsKept
  <2> QED
    BY <2>1, <2>2
<1>7. n \in Nat /\ h.wave = n /\ n < MaxWave /\ MaxWave \in Nat
      /\ Asteroids!Count(h.rocks) \in 0..MAX_ASTEROIDS
  BY <1>6 DEF AsteroidsWhole, AsteroidsKept, RocksFit, AsteroidsCourt
<1>8. CASE Asteroids!Count(h.rocks) # 0
  <2>1. k = h
    BY <1>4, <1>8, Zenon DEF Asteroids!NextWave
  <2>2. n # 0
    BY <1>6, <1>8 DEF AsteroidsKept
  <2> QED
    BY <1>6, <1>7, <1>8, <2>1, <2>2 DEF AsteroidsWhole
<1>9. CASE Asteroids!Count(h.rocks) = 0
  <2> DEFINE r == Asteroids!spawn_wave(h)
  <2>1. k = r
    BY <1>4, <1>9, Zenon DEF Asteroids!NextWave
  <2>2. /\ AsteroidsKept(n + 1, r) /\ Asteroids!Count(r.rocks) > 0
    <3>1. DOMAIN h = AsteroidsFields /\ h.wave \in Nat
      BY <1>6, <1>7 DEF AsteroidsKept
    <3>2. /\ AsteroidsSpawned(h, r)
      BY <3>1, AsteroidsSpawns
    <3> HIDE DEF r
    <3>3. n + 1 # 0
      BY <1>7
    <3> QED
      BY <1>6, <3>2, <3>3 DEF AsteroidsKept, AsteroidsSpawned, RocksFit
  <2> HIDE DEF r
  <2>3. r.wave = n + 1
    BY <2>2 DEF AsteroidsKept
  <2>4. n + 1 \in 0..MaxWave /\ n + 1 # 0 /\ Asteroids!Count(r.rocks) # 0
    BY <1>7, <2>2 DEF AsteroidsKept, RocksFit
  <2> QED
    BY <2>1, <2>2, <2>3, <2>4 DEF AsteroidsWhole
<1> QED
  BY <1>8, <1>9

(* Every step of the game keeps the invariant.                             *)
LEMMA AsteroidsStep == ASSUME AsteroidsCourt, AsteroidsInv, Asteroids!Next PROVE AsteroidsInv'
<1>0. AsteroidsWhole(game) /\ AsteroidsKept(game.wave, game)
  BY DEF AsteroidsInv, AsteroidsWhole
<1>1. CASE Asteroids!Pause
  <2>1. /\ DOMAIN game' = AsteroidsFields /\ game'.bullets = game.bullets
        /\ game'.cooldown = game.cooldown /\ game'.rocks = game.rocks
        /\ game'.wave = game.wave /\ game'.lives = game.lives
        /\ game'.respawn = game.respawn /\ game'.alive = game.alive /\ game'.over = game.over
    BY <1>0, <1>1 DEF Asteroids!Pause, AsteroidsKept, AsteroidsFields
  <2> QED
    BY <1>0, <2>1 DEF AsteroidsInv, AsteroidsWhole, AsteroidsKept
<1>2. CASE Asteroids!Restart
  <2>1. /\ DOMAIN game' = AsteroidsFields /\ game'.bullets = game.bullets
        /\ game'.cooldown = game.cooldown /\ game'.rocks = Asteroids!NoRocks
        /\ game'.wave = 0 /\ game'.lives = LIVES
        /\ game'.respawn = game.respawn /\ game'.alive = TRUE /\ game'.over = FALSE
    BY <1>0, <1>2 DEF Asteroids!Restart, AsteroidsKept, AsteroidsFields
  <2>2. RocksFit(Asteroids!NoRocks) /\ Asteroids!Count(Asteroids!NoRocks) = 0
    <3>1. Asteroids!NoRocks \in [Asteroids!Sizes -> Nat]
          /\ \A t \in {1, 2, 3} : Asteroids!NoRocks[t] = 0
      BY AsteroidsCount DEF Asteroids!NoRocks
    <3> QED
      BY <3>1, AsteroidsCount DEF RocksFit, AsteroidsCourt
  <2>3. LIVES \in 0..LIVES /\ LIVES # 0 /\ 0 \in 0..MaxWave
    BY DEF AsteroidsCourt
  <2> QED
    BY <1>0, <2>1, <2>2, <2>3 DEF AsteroidsInv, AsteroidsWhole, AsteroidsKept
<1>3. CASE Asteroids!Update
  BY <1>0, <1>3, AsteroidsPass DEF Asteroids!Update, AsteroidsInv
<1> QED
  BY <1>1, <1>2, <1>3 DEF Asteroids!Next, Asteroids!input_process

(* The invariant holds when a game begins.                                 *)
LEMMA AsteroidsInit == ASSUME AsteroidsCourt, Asteroids!Init PROVE AsteroidsInv
<1> DEFINE g == [alive |-> TRUE, respawn |-> 0, cooldown |-> 0,
                 bullets |-> [i \in Asteroids!Slots |-> 0], rocks |-> Asteroids!NoRocks,
                 lives |-> LIVES, wave |-> 0, paused |-> FALSE, over |-> FALSE]
           r == Asteroids!spawn_wave(g)
<1>1. game = r
  BY DEF Asteroids!Init, Asteroids!game_init
<1>2. /\ DOMAIN g = AsteroidsFields /\ g.wave = 0 /\ g.alive = TRUE /\ g.respawn = 0
      /\ g.cooldown = 0 /\ g.bullets = [i \in Asteroids!Slots |-> 0] /\ g.lives = LIVES
      /\ g.over = FALSE
  BY DEF AsteroidsFields
<1> HIDE DEF g
<1>3. AsteroidsSpawned(g, r)
  BY <1>2, AsteroidsSpawns
<1> HIDE DEF r
<1>4. /\ 0 \in 0..FIRE_COOLDOWN /\ 0 \in 0..RESPAWN /\ 0 \in 0..BULLET_LIFE /\ LIVES \in 0..LIVES
      /\ LIVES # 0 /\ 1 \in 0..MaxWave /\ 1 # 0 /\ 0 + 1 = 1
  BY DEF AsteroidsCourt
<1>5. AsteroidsKept(1, r) /\ r.wave = 1 /\ Asteroids!Count(r.rocks) > 0
  BY <1>2, <1>3, <1>4 DEF AsteroidsKept, AsteroidsSpawned, RocksFit
<1>6. Asteroids!Count(r.rocks) # 0
  BY <1>5 DEF AsteroidsKept, RocksFit
<1> QED
  BY <1>1, <1>4, <1>5, <1>6 DEF AsteroidsInv, AsteroidsWhole

(* In drm-asteroids.c the next wave comes as soon as the last asteroid is  *)
(* gone, also when it takes the ship with it; a ship that is lost is on    *)
(* its way back in a game that goes on; and the halves of an asteroid that *)
(* breaks find room in the table, or one of them is lost.                  *)
THEOREM AsteroidsCorrect ==
    ASSUME AsteroidsCourt
    PROVE  Asteroids!Spec
              => [](Asteroids!TypeOK /\ Asteroids!WaveGoesOn /\ Asteroids!ShipAccounted)
<1>1. AsteroidsInv => Asteroids!TypeOK /\ Asteroids!WaveGoesOn /\ Asteroids!ShipAccounted
  <2> SUFFICES ASSUME AsteroidsInv
               PROVE  Asteroids!TypeOK /\ Asteroids!WaveGoesOn /\ Asteroids!ShipAccounted
    OBVIOUS
  <2>1. Asteroids!WaveGoesOn
    BY Zenon DEF AsteroidsInv, AsteroidsWhole, Asteroids!WaveGoesOn
  <2>2. Asteroids!ShipAccounted
    BY Zenon DEF AsteroidsInv, AsteroidsWhole, AsteroidsKept, Asteroids!ShipAccounted
  <2>3. game.rocks \in [Asteroids!Sizes -> 0..MAX_ASTEROIDS]
        /\ Asteroids!Count(game.rocks) <= MAX_ASTEROIDS
    <3>1. RocksFit(game.rocks)
      BY DEF AsteroidsInv, AsteroidsWhole, AsteroidsKept
    <3>2. \A t \in {1, 2, 3} : game.rocks[t] \in 0..MAX_ASTEROIDS
      BY <3>1, AsteroidsCount DEF RocksFit, AsteroidsCourt
    <3> QED
      BY <3>1, <3>2, AsteroidsCount DEF RocksFit, AsteroidsCourt
  <2>4. Asteroids!TypeOK
    BY <2>3 DEF AsteroidsInv, AsteroidsWhole, AsteroidsKept, Asteroids!TypeOK
  <2> QED
    BY <2>1, <2>2, <2>4
<1>2. Asteroids!Init => AsteroidsInv
  BY AsteroidsInit
<1>3. AsteroidsInv /\ [Asteroids!Next]_game => AsteroidsInv'
  BY AsteroidsStep DEF AsteroidsInv, AsteroidsWhole, AsteroidsKept
<1> QED
  BY <1>1, <1>2, <1>3, PTL DEF Asteroids!Spec

-----------------------------------------------------------------------------
(* Ninja.                                                                  *)
NinjaFields ==
    {"fruits", "score", "combo", "best_combo", "misses", "over", "slashing", "since", "interval"}

InTheAir == [bomb : BOOLEAN, age : 0..(FLIGHT + SLICED), sliced : BOOLEAN]

(* What a combo of c fruits is paid.                                       *)
Worth(c) == c * FRUIT_SCORE + COMBO_BONUS * ((c * (c - 1)) \div 2)

(* What every part of a pass keeps.                                        *)
NinjaKept(g) ==
    /\ DOMAIN g = NinjaFields
    /\ g.fruits \in [Ninja!Slots -> InTheAir \cup {Ninja!NoFruit}]
    /\ g.score \in Nat /\ g.combo \in Nat /\ g.best_combo \in Nat /\ g.misses \in Nat
    /\ g.slashing \in BOOLEAN /\ (~g.slashing => g.combo = 0)
    /\ g.score >= Worth(g.combo)

(* A game that goes on, in the middle of a pass.                           *)
NinjaPlayed(g) ==
    /\ NinjaKept(g) /\ g.over = FALSE /\ g.interval \in SPAWN_MIN..SPAWN_INTERVAL

NinjaInv ==
    /\ NinjaKept(game) /\ game.interval \in SPAWN_MIN..SPAWN_INTERVAL
    /\ game.over \in BOOLEAN /\ (game.over <=> game.misses >= MAX_MISSES)
    /\ game.over => game.best_combo >= game.combo

AllPlayed(c, S, i) == \A g \in S : NinjaPlayed(g)

NinjaLoop == INSTANCE Loops
    WITH Step <- LAMBDA S, i : UNION {Ninja!Fruit(h, i) : h \in S}, Holds <- AllPlayed

(* What a combo of one more is worth.                                      *)
LEMMA WorthGrows ==
    ASSUME NinjaCourt, NEW c \in Nat
    PROVE  /\ Worth(0) = 0 /\ Worth(c) \in Nat
           /\ Worth(c + 1) = Worth(c) + FRUIT_SCORE + c * COMBO_BONUS
<1> DEFINE t == (c * (c - 1)) \div 2
           u == ((c + 1) * ((c + 1) - 1)) \div 2
<1>1. (c * (c - 1)) \in Nat
  BY SMT
<1>2. t \in Nat /\ u = t + c
  <2> DEFINE a == c * (c - 1)
  <2>1. (c + 1) * ((c + 1) - 1) = a + 2 * c
    BY SMT
  <2> HIDE DEF a
  <2>2. a \in Nat
    BY <1>1 DEF a
  <2>3. (a + 2 * c) \div 2 = (a \div 2) + c /\ a \div 2 \in Nat
    BY <2>2, SMT
  <2> QED
    BY <2>1, <2>3 DEF a
<1> HIDE DEF t, u
<1>3. Worth(c) = c * FRUIT_SCORE + COMBO_BONUS * t
      /\ Worth(c + 1) = (c + 1) * FRUIT_SCORE + COMBO_BONUS * u
  BY DEF Worth, t, u
<1>4. /\ COMBO_BONUS * (t + c) = COMBO_BONUS * t + c * COMBO_BONUS
      /\ (c + 1) * FRUIT_SCORE = c * FRUIT_SCORE + FRUIT_SCORE
      /\ c * FRUIT_SCORE \in Nat /\ COMBO_BONUS * t \in Nat /\ c * COMBO_BONUS \in Nat
  BY <1>2, SMT DEF NinjaCourt
<1>5. Worth(0) = 0
  <2>1. (0 * (0 - 1)) \div 2 = 0 /\ 0 * FRUIT_SCORE = 0 /\ COMBO_BONUS * 0 = 0
    BY SMT DEF NinjaCourt
  <2> QED
    BY <2>1 DEF Worth
<1> QED
  BY <1>2, <1>3, <1>4, <1>5 DEF NinjaCourt

(* Only entry i and the misses are others.                                 *)
NinjaPut(g, k, i, e, m) ==
    /\ DOMAIN k = NinjaFields /\ k.fruits = [g.fruits EXCEPT ![i] = e]
    /\ k.misses = m /\ k.score = g.score /\ k.combo = g.combo
    /\ k.best_combo = g.best_combo /\ k.over = g.over /\ k.slashing = g.slashing
    /\ k.interval = g.interval

(* A fruit flies, is sliced, or is missed.                                 *)
LEMMA NinjaFruit ==
    ASSUME NinjaCourt, NEW g, NinjaPlayed(g), NEW i \in 1..MAX_FRUITS, NEW h \in Ninja!Fruit(g, i)
    PROVE  NinjaPlayed(h)
<1> DEFINE f == g.fruits[i]
           c == Ninja!Cut(g, i)
           l == Ninja!Fly(g, i)
           d == Ninja!Fade(g, i)
<1>0. /\ NinjaKept(g) /\ i \in Ninja!Slots /\ f \in InTheAir \cup {Ninja!NoFruit}
      /\ FLIGHT \in Nat /\ SLICED \in Nat
  BY DEF NinjaPlayed, NinjaKept, Ninja!Slots, NinjaCourt
<1>1. ASSUME NEW k, NEW e \in InTheAir \cup {Ninja!NoFruit}, NEW m \in Nat,
             NinjaPut(g, k, i, e, m)
      PROVE  NinjaPlayed(k)
  <2>1. k.fruits \in [Ninja!Slots -> InTheAir \cup {Ninja!NoFruit}]
    BY <1>0, <1>1 DEF NinjaKept, NinjaPut
  <2> QED
    BY <1>1, <2>1 DEF NinjaPlayed, NinjaKept, NinjaPut
<1>2. CASE f = Ninja!NoFruit
  BY <1>2 DEF Ninja!Fruit
<1>3. CASE f # Ninja!NoFruit
  <2>1. PICK bomb \in BOOLEAN, age \in 0..(FLIGHT + SLICED), sliced \in BOOLEAN :
          f = [bomb |-> bomb, age |-> age, sliced |-> sliced]
    BY <1>0, <1>3 DEF InTheAir
  <2>2. \A a \in 0..(FLIGHT + SLICED), s \in BOOLEAN :
           [bomb |-> bomb, age |-> a, sliced |-> s] \in InTheAir
    BY DEF InTheAir
  <2>3. DOMAIN g = NinjaFields /\ DOMAIN g.fruits = Ninja!Slots /\ g.misses \in Nat
    BY <1>0 DEF NinjaKept
  <2>4. f.bomb = bomb /\ f.age = age /\ f.sliced = sliced
    BY <2>1
  <2>5. CASE h = d
    <3>1. CASE age < SLICED
      <4> DEFINE e == [bomb |-> bomb, age |-> age + 1, sliced |-> sliced]
      <4>1. NinjaPut(g, d, i, e, g.misses)
        <5>1. [f EXCEPT !.age = @ + 1] = e
          BY <2>1
        <5>2. d = [g EXCEPT !.fruits[i].age = @ + 1]
          BY <2>4, <3>1 DEF Ninja!Fade
        <5>3. d.fruits = [g.fruits EXCEPT ![i] = [f EXCEPT !.age = @ + 1]]
          BY <2>3, <5>2 DEF NinjaFields
        <5> HIDE DEF e
        <5> QED
          BY <2>3, <5>1, <5>2, <5>3 DEF NinjaPut, NinjaFields
      <4>2. e \in InTheAir
        <5>1. age + 1 \in 0..(FLIGHT + SLICED)
          BY <1>0, <3>1
        <5> QED
          BY <2>2, <5>1
      <4> HIDE DEF d, e
      <4> QED
        BY <1>1, <2>3, <2>5, <4>1, <4>2
    <3>2. CASE ~(age < SLICED)
      <4>1. d = [g EXCEPT !.fruits[i] = Ninja!NoFruit]
        BY <2>4, <3>2 DEF Ninja!Fade
      <4>2. NinjaPut(g, d, i, Ninja!NoFruit, g.misses)
        BY <2>3, <4>1 DEF NinjaPut, NinjaFields
      <4> HIDE DEF d
      <4> QED
        BY <1>1, <2>3, <2>5, <4>2
    <3> QED
      BY <3>1, <3>2
  <2>6. CASE h = l
    <3>1. CASE age + 1 < FLIGHT
      <4> DEFINE e == [bomb |-> bomb, age |-> age + 1, sliced |-> sliced]
      <4>1. NinjaPut(g, l, i, e, g.misses)
        <5>1. [f EXCEPT !.age = @ + 1] = e
          BY <2>1
        <5>2. l = [g EXCEPT !.fruits[i].age = @ + 1]
          BY <2>4, <3>1 DEF Ninja!Fly
        <5>3. l.fruits = [g.fruits EXCEPT ![i] = [f EXCEPT !.age = @ + 1]]
          BY <2>3, <5>2 DEF NinjaFields
        <5> HIDE DEF e
        <5> QED
          BY <2>3, <5>1, <5>2, <5>3 DEF NinjaPut, NinjaFields
      <4>2. e \in InTheAir
        <5>1. age + 1 \in 0..(FLIGHT + SLICED)
          BY <1>0, <3>1
        <5> QED
          BY <2>2, <5>1
      <4> HIDE DEF l, e
      <4> QED
        BY <1>1, <2>3, <2>6, <4>1, <4>2
    <3>2. CASE ~(age + 1 < FLIGHT)
      <4> DEFINE m == IF bomb THEN g.misses ELSE g.misses + 1
      <4>1. NinjaPut(g, l, i, Ninja!NoFruit, m)
        <5>1. l = [g EXCEPT !.misses = IF f.bomb THEN @ ELSE @ + 1, !.fruits[i] = Ninja!NoFruit]
          BY <2>4, <3>2 DEF Ninja!Fly
        <5> QED
          BY <2>3, <2>4, <5>1 DEF NinjaPut, NinjaFields
      <4>2. m \in Nat
        BY <2>3
      <4> HIDE DEF l, m
      <4> QED
        BY <1>1, <2>6, <4>1, <4>2
    <3> QED
      BY <3>1, <3>2
  <2>7. CASE h = c /\ g.slashing
    <3> DEFINE e == [[f EXCEPT !.sliced = TRUE] EXCEPT !.age = 0]
               k == [g EXCEPT !.fruits[i].sliced = TRUE, !.fruits[i].age = 0]
    <3>1. NinjaPut(g, k, i, e, g.misses)
      <4>1. k.fruits = [g.fruits EXCEPT ![i] = e]
        BY <1>0, <2>3 DEF NinjaFields
      <4> HIDE DEF e
      <4> QED
        BY <2>3, <4>1 DEF NinjaPut, NinjaFields
    <3>2. e \in InTheAir
      <4>1. f \in InTheAir /\ 0 \in 0..(FLIGHT + SLICED)
        BY <1>0, <1>3
      <4> HIDE DEF f
      <4>2. [f EXCEPT !.sliced = TRUE] \in InTheAir
        BY <4>1 DEF InTheAir
      <4> QED
        BY <4>1, <4>2 DEF InTheAir
    <3>3. CASE bomb
      <4>1. NinjaPut(g, c, i, e, g.misses + 2)
        <5>1. c = [k EXCEPT !.misses = @ + 2]
          BY <2>4, <3>3 DEF Ninja!Cut
        <5> HIDE DEF c, k, e
        <5> QED
          BY <3>1, <5>1 DEF NinjaPut, NinjaFields
      <4>2. g.misses + 2 \in Nat
        BY <2>3
      <4> HIDE DEF c, e
      <4> QED
        BY <1>1, <2>7, <3>2, <4>1, <4>2
    <3>4. CASE ~bomb
      <4>1. NinjaPlayed(k)
        <5> HIDE DEF e, k
        <5> QED
          BY <1>1, <2>3, <3>1, <3>2
      <4>2. c = [k EXCEPT !.score = @ + FRUIT_SCORE + g.combo * COMBO_BONUS, !.combo = @ + 1]
        BY <2>4, <3>4 DEF Ninja!Cut
      <4>3. k.combo = g.combo /\ k.slashing = g.slashing
        BY <3>1 DEF NinjaPut
      <4> HIDE DEF c, k
      <4>4. /\ DOMAIN c = NinjaFields /\ c.fruits = k.fruits
            /\ c.score = k.score + FRUIT_SCORE + k.combo * COMBO_BONUS /\ c.combo = k.combo + 1
            /\ c.best_combo = k.best_combo /\ c.misses = k.misses /\ c.over = k.over
            /\ c.slashing = k.slashing /\ c.interval = k.interval
        BY <4>1, <4>2, <4>3 DEF NinjaPlayed, NinjaKept, NinjaFields
      <4>5. k.combo \in Nat /\ k.score \in Nat /\ k.score >= Worth(k.combo)
        BY <4>1 DEF NinjaPlayed, NinjaKept
      <4>6. c.score >= Worth(c.combo) /\ c.score \in Nat /\ c.combo \in Nat
        <5> DEFINE w == k.combo * COMBO_BONUS
        <5>1. w \in Nat
          BY <4>5, SMT DEF NinjaCourt
        <5>2. Worth(k.combo + 1) = Worth(k.combo) + FRUIT_SCORE + w /\ Worth(k.combo) \in Nat
          BY <4>5, WorthGrows
        <5>3. c.score = k.score + FRUIT_SCORE + w
          BY <4>4
        <5> HIDE DEF w
        <5> QED
          BY <4>4, <4>5, <5>1, <5>2, <5>3 DEF NinjaCourt
      <4>7. c.slashing = TRUE
        BY <2>7, <4>1, <4>3, <4>4 DEF NinjaPlayed, NinjaKept
      <4> QED
        BY <2>7, <4>1, <4>4, <4>6, <4>7 DEF NinjaPlayed, NinjaKept
    <3> QED
      BY <3>3, <3>4
  <2>8. h = d \/ h = l \/ (h = c /\ g.slashing)
    BY <1>3, Zenon DEF Ninja!Fruit
  <2> QED
    BY <2>5, <2>6, <2>7, <2>8
<1> QED
  BY <1>2, <1>3

(* A new fruit or bomb takes a free entry.                                 *)
LEMMA NinjaSpawn ==
    ASSUME NinjaCourt, NEW g, NinjaPlayed(g), NEW h \in Ninja!spawn_fruit(g)
    PROVE  NinjaPlayed(h)
<1> DEFINE free == Ninja!FreeSlots(g)
           i == Ninja!Min(free)
<1>1. CASE free = {}
  BY <1>1 DEF Ninja!spawn_fruit
<1>2. CASE free # {}
  <2>1. PICK bomb \in BOOLEAN : h = [g EXCEPT !.fruits[i] = Ninja!Thrown(bomb)]
    BY <1>2 DEF Ninja!spawn_fruit
  <2>2. i \in Ninja!Slots
    <3>1. free \subseteq Nat /\ free \subseteq Ninja!Slots
      BY DEF Ninja!FreeSlots, Ninja!Slots
    <3> HIDE DEF free
    <3>2. PICK n \in free : \A m \in free : n <= m
      BY <1>2, <3>1, HasLeast
    <3> QED
      BY <3>1, <3>2 DEF Ninja!Min
  <2> HIDE DEF i
  <2>3. Ninja!Thrown(bomb) \in InTheAir
    <3>1. 0 \in 0..(FLIGHT + SLICED) /\ FALSE \in BOOLEAN
      BY DEF NinjaCourt
    <3> QED
      BY <3>1 DEF Ninja!Thrown, InTheAir
  <2>4. /\ DOMAIN h = NinjaFields /\ h.fruits = [g.fruits EXCEPT ![i] = Ninja!Thrown(bomb)]
        /\ h.misses = g.misses /\ h.score = g.score /\ h.combo = g.combo
        /\ h.best_combo = g.best_combo /\ h.over = g.over /\ h.slashing = g.slashing
        /\ h.interval = g.interval
    BY <2>1 DEF NinjaPlayed, NinjaKept, NinjaFields
  <2>5. h.fruits \in [Ninja!Slots -> InTheAir \cup {Ninja!NoFruit}]
    <3>1. g.fruits \in [Ninja!Slots -> InTheAir \cup {Ninja!NoFruit}]
      BY DEF NinjaPlayed, NinjaKept
    <3> QED
      BY <2>2, <2>3, <2>4, <3>1
  <2> QED
    BY <2>4, <2>5 DEF NinjaPlayed, NinjaKept
<1> QED
  BY <1>1, <1>2

(* One or two of them, when it is time.                                    *)
LEMMA NinjaSpawns ==
    ASSUME NinjaCourt, NEW g, NinjaPlayed(g), NEW late, NEW h \in Ninja!Spawn(g, late)
    PROVE  NinjaPlayed(h)
<1>1. ASSUME NEW t PROVE NinjaPlayed([g EXCEPT !.since = t])
  <2> DEFINE k == [g EXCEPT !.since = t]
  <2>1. /\ DOMAIN k = NinjaFields /\ k.fruits = g.fruits
        /\ k.misses = g.misses /\ k.score = g.score /\ k.combo = g.combo
        /\ k.best_combo = g.best_combo /\ k.over = g.over /\ k.slashing = g.slashing
        /\ k.interval = g.interval
    BY DEF NinjaPlayed, NinjaKept, NinjaFields
  <2> HIDE DEF k
  <2>2. NinjaPlayed(k)
    BY <2>1 DEF NinjaPlayed, NinjaKept
  <2> QED
    BY <2>2 DEF k
<1> DEFINE one == Ninja!spawn_fruit([g EXCEPT !.since = 0])
<1>2. \A k \in one : NinjaPlayed(k)
  BY <1>1, NinjaSpawn
<1> HIDE DEF one
<1>3. \A k \in one : \A l : l \in Ninja!spawn_fruit(k) => NinjaPlayed(l)
  BY <1>2, NinjaSpawn
<1>4. \/ h \in one
      \/ \E k \in one : h \in Ninja!spawn_fruit(k)
      \/ \E t : h = [g EXCEPT !.since = t]
  BY DEF Ninja!Spawn, one
<1> QED
  BY <1>1, <1>2, <1>3, <1>4

(* Every step of the game keeps the invariant.                             *)
LEMMA NinjaStep == ASSUME NinjaCourt, NinjaInv, Ninja!Next PROVE NinjaInv'
<1>1. CASE Ninja!Over
  BY <1>1 DEF Ninja!Over, NinjaInv
<1>2. CASE Ninja!Update
  <2>1. PICK space \in BOOLEAN, late \in 1..MaxLate :
          game' \in Ninja!game_update(game, space, late)
    BY <1>2 DEF Ninja!Update, Ninja!input_poll
  <2> DEFINE s == Ninja!Slash(game, space)
  <2>2. NinjaPlayed(s)
    <3>1. game.over = FALSE /\ NinjaKept(game) /\ game.interval \in SPAWN_MIN..SPAWN_INTERVAL
      BY <1>2 DEF Ninja!Update, NinjaInv
    <3>2. CASE space
      <4>1. /\ DOMAIN s = NinjaFields /\ s.fruits = game.fruits /\ s.misses = game.misses
            /\ s.score = game.score /\ s.combo = game.combo
            /\ s.best_combo = game.best_combo /\ s.over = game.over /\ s.slashing = TRUE
            /\ s.interval = game.interval
        BY <3>1, <3>2 DEF NinjaKept, NinjaFields, Ninja!Slash
      <4> HIDE DEF s
      <4> QED
        BY <3>1, <4>1 DEF NinjaPlayed, NinjaKept
    <3>3. CASE ~space
      <4> DEFINE b == Ninja!Best(game)
                 best == IF game.combo > game.best_combo THEN game.combo ELSE game.best_combo
      <4>1. /\ DOMAIN s = NinjaFields /\ s.fruits = game.fruits /\ s.misses = game.misses
            /\ s.score = game.score /\ s.combo = 0
            /\ s.best_combo = best /\ s.over = game.over /\ s.slashing = FALSE
            /\ s.interval = game.interval
        BY <3>1, <3>3 DEF NinjaKept, NinjaFields, Ninja!Slash, Ninja!Best
      <4>2. best \in Nat
        BY <3>1 DEF NinjaKept
      <4>3. Worth(0) = 0
        BY WorthGrows
      <4> HIDE DEF s, best
      <4> QED
        <5>1. s.combo \in Nat /\ s.score >= Worth(s.combo) /\ s.slashing \in BOOLEAN
          <6>1. game.score \in Nat
            BY <3>1 DEF NinjaKept
          <6>2. Worth(s.combo) = 0
            BY <4>1, <4>3
          <6>3. s.slashing \in BOOLEAN
            BY <4>1, Zenon
          <6>4. s.combo \in Nat /\ s.score >= Worth(s.combo)
            BY <4>1, <6>1, <6>2
          <6> QED
            BY <6>3, <6>4
        <5>2. NinjaKept(s)
          BY <3>1, <4>1, <4>2, <5>1 DEF NinjaKept
        <5> QED
          BY <3>1, <4>1, <5>2 DEF NinjaPlayed
    <3> QED
      BY <3>2, <3>3
  <2> HIDE DEF s
  <2>3. PICK k \in Ninja!Spawn(s, late) :
          \E h \in Ninja!Fruits(k) : game' = Ninja!Finish(h)
    BY <2>1 DEF Ninja!game_update, s
  <2>4. PICK h \in Ninja!Fruits(k) : game' = Ninja!Finish(h)
    BY <2>3
  <2>5. NinjaPlayed(k)
    BY <2>2, <2>3, NinjaSpawns
  <2>6. AllPlayed(0, Ninja!Fruits(k), MAX_FRUITS)
    <3>1. AllPlayed(0, {k}, 0)
      BY <2>5 DEF AllPlayed
    <3>2. \A i \in 1..MAX_FRUITS : \A S :
             AllPlayed(0, S, i - 1) => AllPlayed(0, UNION {Ninja!Fruit(x, i) : x \in S}, i)
      <4> SUFFICES ASSUME NEW i \in 1..MAX_FRUITS, NEW S, AllPlayed(0, S, i - 1),
                          NEW x \in S, NEW y \in Ninja!Fruit(x, i)
                   PROVE  NinjaPlayed(y)
        BY DEF AllPlayed
      <4>1. NinjaPlayed(x)
        BY DEF AllPlayed
      <4> QED
        BY <4>1, NinjaFruit
    <3>3. MAX_FRUITS \in Nat
      BY DEF NinjaCourt
    <3>4. AllPlayed(0, NinjaLoop!Loop({k}, MAX_FRUITS), MAX_FRUITS)
      BY <3>1, <3>2, <3>3, NinjaLoop!Kept, HasLeast
    <3>5. Ninja!Fruits(k) = NinjaLoop!Loop({k}, MAX_FRUITS)
      BY DEF Ninja!Fruits, NinjaLoop!Loop
    <3> QED
      BY <3>4, <3>5
  <2>7. NinjaPlayed(h)
    BY <2>4, <2>6 DEF AllPlayed
  <2>8. Ninja!Interval(h.score) \in SPAWN_MIN..SPAWN_INTERVAL
    <3> DEFINE q == h.score \div NINJA_SPEED_UP
    <3>1. q \in Nat
      BY <2>7, SMT DEF NinjaPlayed, NinjaKept, NinjaCourt
    <3> HIDE DEF q
    <3>2. /\ SPAWN_MIN \in Nat /\ SPAWN_INTERVAL \in Nat /\ SPAWN_MIN <= SPAWN_INTERVAL
          /\ SPAWN_INTERVAL - q \in Int /\ SPAWN_INTERVAL - q <= SPAWN_INTERVAL
      BY <3>1 DEF NinjaCourt
    <3>3. \E x \in {SPAWN_MIN, SPAWN_INTERVAL - q} :
             \A y \in {SPAWN_MIN, SPAWN_INTERVAL - q} : x >= y
      BY <3>2
    <3>4. Ninja!Max({SPAWN_MIN, SPAWN_INTERVAL - q}) \in SPAWN_MIN..SPAWN_INTERVAL
      BY <3>2, <3>3 DEF Ninja!Max
    <3> QED
      BY <3>4 DEF Ninja!Interval, q
  <2>9. h.misses \in Nat /\ MAX_MISSES \in Nat /\ h.combo \in Nat /\ h.best_combo \in Nat
    BY <2>7 DEF NinjaPlayed, NinjaKept, NinjaCourt
  <2>10. CASE h.misses >= MAX_MISSES
    <3> DEFINE best == IF h.combo > h.best_combo THEN h.combo ELSE h.best_combo
    <3>1. /\ DOMAIN game' = NinjaFields /\ game'.fruits = h.fruits /\ game'.misses = h.misses
          /\ game'.score = h.score /\ game'.combo = h.combo
          /\ game'.best_combo = best /\ game'.over = TRUE /\ game'.slashing = h.slashing
          /\ game'.interval = Ninja!Interval(h.score)
      BY <2>4, <2>7, <2>10 DEF NinjaPlayed, NinjaKept, NinjaFields, Ninja!Finish, Ninja!Best
    <3>2. best \in Nat /\ best >= h.combo
      BY <2>9
    <3> HIDE DEF best
    <3>3. NinjaKept(game')
      BY <2>7, <3>1, <3>2 DEF NinjaPlayed, NinjaKept
    <3> QED
      BY <2>8, <2>10, <3>1, <3>2, <3>3 DEF NinjaInv
  <2>11. CASE ~(h.misses >= MAX_MISSES)
    <3>1. /\ DOMAIN game' = NinjaFields /\ game'.fruits = h.fruits /\ game'.misses = h.misses
          /\ game'.score = h.score /\ game'.combo = h.combo
          /\ game'.best_combo = h.best_combo /\ game'.over = FALSE /\ game'.slashing = h.slashing
          /\ game'.interval = Ninja!Interval(h.score)
      BY <2>4, <2>7, <2>11 DEF NinjaPlayed, NinjaKept, NinjaFields, Ninja!Finish
    <3>2. NinjaKept(game')
      BY <2>7, <3>1 DEF NinjaPlayed, NinjaKept
    <3> QED
      BY <2>8, <2>11, <3>1, <3>2 DEF NinjaInv
  <2> QED
    BY <2>10, <2>11
<1> QED
  BY <1>1, <1>2 DEF Ninja!Next

(* The invariant holds when a game begins.                                 *)
LEMMA NinjaInit == ASSUME NinjaCourt, Ninja!Init PROVE NinjaInv
<1>1. /\ DOMAIN game = NinjaFields /\ game.fruits = [i \in Ninja!Slots |-> Ninja!NoFruit]
      /\ game.misses = 0 /\ game.score = 0 /\ game.combo = 0 /\ game.best_combo = 0
      /\ game.over = FALSE /\ game.slashing = FALSE /\ game.interval = SPAWN_INTERVAL
  BY DEF Ninja!Init, Ninja!game_init, NinjaFields
<1>2. Worth(0) = 0
  BY WorthGrows
<1>3. /\ SPAWN_INTERVAL \in SPAWN_MIN..SPAWN_INTERVAL /\ ~(0 >= MAX_MISSES)
      /\ FALSE \in BOOLEAN /\ 0 \in Nat /\ 0 >= 0
  BY DEF NinjaCourt
<1>4. NinjaKept(game)
  BY <1>1, <1>2, <1>3 DEF NinjaKept
<1> QED
  BY <1>1, <1>3, <1>4 DEF NinjaInv

(* In drm-ninja.c the points of a combo are all in the score, however many *)
(* fruits one pass cuts; letting go of the blade ends it; and the game is  *)
(* over in the pass that reaches MAX_MISSES, the best combo known by then. *)
THEOREM NinjaCorrect ==
    ASSUME NinjaCourt
    PROVE  Ninja!Spec => [](Ninja!TypeOK /\ Ninja!ComboCounted /\ Ninja!EndsWithMisses)
<1>1. NinjaInv => Ninja!TypeOK /\ Ninja!ComboCounted /\ Ninja!EndsWithMisses
  <2> SUFFICES ASSUME NinjaInv
               PROVE  Ninja!TypeOK /\ Ninja!ComboCounted /\ Ninja!EndsWithMisses
    OBVIOUS
  <2>1. Ninja!EndsWithMisses
    BY Zenon DEF NinjaInv, Ninja!EndsWithMisses
  <2>2. Ninja!ComboCounted
    BY DEF NinjaInv, NinjaKept, Worth, Ninja!ComboCounted
  <2>3. ASSUME NEW i \in Ninja!Slots
        PROVE  game.fruits[i] = Ninja!NoFruit \/ game.fruits[i].age \in 0..(FLIGHT + SLICED)
    BY DEF NinjaInv, NinjaKept, InTheAir
  <2>4. Ninja!TypeOK
    BY <2>3 DEF NinjaInv, NinjaKept, Ninja!TypeOK
  <2> QED
    BY <2>1, <2>2, <2>4
<1>2. Ninja!Init => NinjaInv
  BY NinjaInit
<1>3. NinjaInv /\ [Ninja!Next]_game => NinjaInv'
  BY NinjaStep DEF NinjaInv
<1> QED
  BY <1>1, <1>2, <1>3, PTL DEF Ninja!Spec

-----------------------------------------------------------------------------
(* Shooter.                                                                *)
ShooterFields ==
    {"ship", "bullets", "enemies", "kills", "lives", "level", "over", "interval",
     "since_spawn", "since_fire"}

Foes == [x : Shooter!Cols, y : -1..SCREEN_H, speed : SPEEDS]

(* What every part of a pass keeps.                                        *)
ShooterKept(g) ==
    /\ DOMAIN g = ShooterFields /\ g.ship \in Shooter!Cols
    /\ g.bullets \subseteq (Shooter!Cols \X (-1..SHIP_Y)) /\ IsFiniteSet(g.bullets)
    /\ Cardinality(g.bullets) <= MAX_BULLETS
    /\ g.enemies \in [Shooter!Slots -> Foes \cup {Shooter!NoEnemy}]
    /\ g.kills \in Nat /\ g.level = 1 + g.kills \div LEVEL_KILLS
    /\ g.interval = IF g.level = 1 THEN SPAWN_INTERVAL ELSE Shooter!Interval(g.level)
    /\ g.lives \in 0..MAX_LIVES /\ (g.over <=> g.lives = 0)

(* Enemy i is gone, or at neither the ship nor a bullet.                   *)
Clear(g, i) ==
    g.enemies[i] # Shooter!NoEnemy
       => /\ ~Shooter!Meets(g.enemies[i], g.ship, SHIP_Y)
          /\ \A b \in g.bullets : ~Shooter!Meets(g.enemies[i], b[1], b[2])

ShooterSwept(g, i) == ShooterKept(g) /\ \A j \in 1..i : Clear(g, j)

ShooterInv == ShooterSwept(game, MAX_ENEMIES)

AllSwept(c, S, i) == \A g \in S : ShooterSwept(g, i)

ShooterLoop == INSTANCE Loops
    WITH Step <- LAMBDA S, i : UNION {Shooter!Enemy(h, i) : h \in S}, Holds <- AllSwept

(* A life that is lost leaves the tables alone.                            *)
LEMMA ShooterLoses ==
    ASSUME ShooterCourt, NEW g, ShooterKept(g)
    PROVE  /\ ShooterKept(Shooter!LoseLife(g)) /\ Shooter!LoseLife(g).ship = g.ship
           /\ Shooter!LoseLife(g).bullets = g.bullets
           /\ Shooter!LoseLife(g).enemies = g.enemies
<1> DEFINE k == Shooter!LoseLife(g)
<1>1. /\ DOMAIN k = ShooterFields /\ k.ship = g.ship /\ k.bullets = g.bullets
      /\ k.enemies = g.enemies /\ k.kills = g.kills /\ k.level = g.level
      /\ k.interval = g.interval /\ k.lives = (IF g.lives > 1 THEN g.lives - 1 ELSE 0)
      /\ k.over = (g.over \/ g.lives <= 1)
  BY DEF ShooterKept, ShooterFields, Shooter!LoseLife
<1> HIDE DEF k
<1>2. g.lives \in Nat /\ g.lives <= MAX_LIVES /\ (g.over <=> g.lives = 0)
  BY DEF ShooterCourt, ShooterKept
<1>3. k.lives \in 0..MAX_LIVES
  BY <1>1, <1>2 DEF ShooterCourt
<1>4. k.over <=> k.lives = 0
  <2>1. (k.lives = 0) <=> (g.lives = 0 \/ g.lives <= 1)
    BY <1>1, <1>2
  <2> QED
    BY <1>1, <1>2, <2>1, Zenon
<1>5. ShooterKept(k)
  BY <1>1, <1>3, <1>4 DEF ShooterKept
<1> QED
  BY <1>1, <1>5 DEF k

(* So does an enemy that is counted.                                       *)
LEMMA ShooterKills ==
    ASSUME ShooterCourt, NEW g, ShooterKept(g)
    PROVE  /\ ShooterKept(Shooter!Kill(g)) /\ Shooter!Kill(g).ship = g.ship
           /\ Shooter!Kill(g).bullets = g.bullets /\ Shooter!Kill(g).enemies = g.enemies
<1> DEFINE a == g.kills \div LEVEL_KILLS
           b == (g.kills + 1) \div LEVEL_KILLS
           k == Shooter!Kill(g)
<1>1. b \in Nat /\ a \in Nat /\ b \in {a, a + 1}
  BY OneMore DEF ShooterCourt, ShooterKept
<1>2. g.level = 1 + a
  BY DEF ShooterKept
<1>3. CASE 1 + b > g.level
  <2>1. /\ DOMAIN k = ShooterFields /\ k.ship = g.ship /\ k.bullets = g.bullets
        /\ k.enemies = g.enemies /\ k.kills = g.kills + 1 /\ k.level = 1 + b
        /\ k.interval = Shooter!Interval(1 + b) /\ k.lives = g.lives /\ k.over = g.over
    BY <1>3 DEF ShooterKept, ShooterFields, Shooter!Kill
  <2>2. 1 + b # 1
    BY <1>1, <1>2, <1>3
  <2> HIDE DEF k
  <2>3. ShooterKept(k)
    BY <2>1, <2>2 DEF ShooterKept
  <2> QED
    BY <2>1, <2>3 DEF k
<1>4. CASE ~(1 + b > g.level)
  <2>1. /\ DOMAIN k = ShooterFields /\ k.ship = g.ship /\ k.bullets = g.bullets
        /\ k.enemies = g.enemies /\ k.kills = g.kills + 1 /\ k.level = g.level
        /\ k.interval = g.interval /\ k.lives = g.lives /\ k.over = g.over
    BY <1>4 DEF ShooterKept, ShooterFields, Shooter!Kill
  <2>2. g.level = 1 + b
    BY <1>1, <1>2, <1>4
  <2> HIDE DEF k
  <2>3. ShooterKept(k)
    BY <2>1, <2>2 DEF ShooterKept
  <2> QED
    BY <2>1, <2>3 DEF k
<1> QED
  BY <1>3, <1>4

(* An enemy moves, is hit, gets through, or meets the ship.                *)
LEMMA ShooterEnemy ==
    ASSUME ShooterCourt, NEW i \in 1..MAX_ENEMIES, NEW g, ShooterSwept(g, i - 1),
           NEW h \in Shooter!Enemy(g, i)
    PROVE  ShooterSwept(h, i)
<1> DEFINE p == g.enemies[i]
           e == [p EXCEPT !.y = @ + p.speed]
           gone == [g EXCEPT !.enemies[i] = Shooter!NoEnemy]
           near == {b \in g.bullets : Shooter!Meets(e, b[1], b[2])}
<1>1. /\ ShooterKept(g) /\ i \in Shooter!Slots /\ DOMAIN g = ShooterFields
      /\ p \in Foes \cup {Shooter!NoEnemy} /\ DOMAIN g.enemies = Shooter!Slots
      /\ \A j \in 1..(i - 1) : j \in Shooter!Slots \ {i} /\ Clear(g, j)
      /\ \A j \in 1..i : j = i \/ j \in 1..(i - 1)
  BY DEF ShooterSwept, ShooterKept, Shooter!Slots, ShooterCourt
<1>2. /\ DOMAIN gone = ShooterFields /\ gone.ship = g.ship /\ gone.bullets = g.bullets
      /\ gone.enemies = [g.enemies EXCEPT ![i] = Shooter!NoEnemy]
      /\ gone.kills = g.kills /\ gone.level = g.level /\ gone.interval = g.interval
      /\ gone.lives = g.lives /\ gone.over = g.over
  BY <1>1 DEF ShooterFields
<1>3. ShooterKept(gone)
  <2> HIDE DEF gone
  <2>1. gone.enemies \in [Shooter!Slots -> Foes \cup {Shooter!NoEnemy}]
    BY <1>1, <1>2 DEF ShooterKept
  <2> QED
    BY <1>1, <1>2, <2>1 DEF ShooterKept
<1>4. ASSUME NEW k, ShooterKept(k), k.ship = g.ship, k.bullets \subseteq g.bullets,
             k.enemies = gone.enemies
      PROVE  ShooterSwept(k, i)
  <2>1. ASSUME NEW j \in 1..i PROVE Clear(k, j)
    <3>1. CASE j = i
      BY <1>1, <1>2, <1>4, <3>1 DEF Clear
    <3>2. CASE j # i
      <4>1. k.enemies[j] = g.enemies[j] /\ Clear(g, j)
        BY <1>1, <1>2, <1>4, <3>2
      <4> QED
        BY <1>4, <4>1 DEF Clear
    <3> QED
      BY <3>1, <3>2
  <2> QED
    BY <1>4, <2>1 DEF ShooterSwept
<1>5. CASE p = Shooter!NoEnemy
  <2>1. h = g
    BY <1>5 DEF Shooter!Enemy
  <2> QED
    BY <1>1, <1>5, <2>1 DEF ShooterSwept, Clear
<1>6. CASE p # Shooter!NoEnemy
  <2>1. /\ p \in Foes /\ e = [x |-> p.x, y |-> p.y + p.speed, speed |-> p.speed]
        /\ p.x \in Shooter!Cols /\ p.y \in -1..SCREEN_H /\ p.speed \in SPEEDS
    BY <1>1, <1>6 DEF Foes
  <2> HIDE DEF e
  <2>2. CASE Shooter!Meets(e, g.ship, SHIP_Y)
    <3>1. h = Shooter!LoseLife(gone)
      BY <1>6, <2>2 DEF Shooter!Enemy, e
    <3> HIDE DEF gone
    <3> QED
      BY <1>2, <1>3, <1>4, <3>1, ShooterLoses
  <2>3. CASE ~Shooter!Meets(e, g.ship, SHIP_Y) /\ near # {}
    <3>1. PICK b \in near : h = Shooter!Kill([gone EXCEPT !.bullets = @ \ {b}])
      BY <1>6, <2>3 DEF Shooter!Enemy, e
    <3> DEFINE f == [gone EXCEPT !.bullets = @ \ {b}]
    <3>2. /\ DOMAIN f = ShooterFields /\ f.ship = g.ship /\ f.bullets = g.bullets \ {b}
          /\ f.enemies = gone.enemies
          /\ f.kills = g.kills /\ f.level = g.level /\ f.interval = g.interval
          /\ f.lives = g.lives /\ f.over = g.over
      BY <1>2 DEF ShooterFields
    <3> HIDE DEF f, gone
    <3>3. IsFiniteSet(f.bullets) /\ Cardinality(f.bullets) <= MAX_BULLETS
      <4>1. /\ IsFiniteSet(g.bullets) /\ Cardinality(g.bullets) \in Nat
            /\ Cardinality(g.bullets) <= MAX_BULLETS
        BY <1>1, FS_CardinalityType DEF ShooterKept
      <4>2. b \in g.bullets
        BY <3>1
      <4> QED
        BY <3>2, <4>1, <4>2, FS_RemoveElement DEF ShooterCourt
    <3>4. ShooterKept(f)
      BY <1>1, <1>3, <3>2, <3>3 DEF ShooterKept
    <3> QED
      BY <1>4, <3>1, <3>2, <3>4, ShooterKills DEF f
  <2>4. CASE ~Shooter!Meets(e, g.ship, SHIP_Y) /\ near = {} /\ e.y > SCREEN_H
    <3>1. h = gone
      BY <1>6, <2>4 DEF Shooter!Enemy, e
    <3> HIDE DEF gone
    <3> QED
      BY <1>2, <1>3, <1>4, <3>1
  <2>5. CASE ~Shooter!Meets(e, g.ship, SHIP_Y) /\ near = {} /\ ~(e.y > SCREEN_H)
    <3>1. h = [g EXCEPT !.enemies[i] = e]
      BY <1>6, <2>5 DEF Shooter!Enemy, e
    <3>2. e \in Foes
      <4>1. e.y = p.y + p.speed /\ p.y + p.speed \in -1..SCREEN_H
        <5>1. e.y = p.y + p.speed
          BY <2>1
        <5>2. p.speed \in Nat /\ p.y \in Int /\ p.y >= -1 /\ SCREEN_H \in Nat
          <6>1. p.speed \in SPEEDS /\ p.y \in -1..SCREEN_H
            BY <2>1
          <6> HIDE DEF p
          <6>2. SPEEDS \subseteq Nat /\ SCREEN_H \in Nat
            BY DEF ShooterCourt
          <6>3. p.speed \in Nat
            BY <6>1, <6>2
          <6>4. p.y \in Int /\ p.y >= -1
            BY <6>1, <6>2
          <6> QED
            BY <6>2, <6>3, <6>4
        <5> QED
          BY <2>5, <5>1, <5>2
      <4> QED
        BY <2>1, <4>1 DEF Foes
    <3>3. /\ DOMAIN h = ShooterFields /\ h.ship = g.ship /\ h.bullets = g.bullets
          /\ h.enemies = [g.enemies EXCEPT ![i] = e]
          /\ h.kills = g.kills /\ h.level = g.level /\ h.interval = g.interval
          /\ h.lives = g.lives /\ h.over = g.over
      BY <1>1, <3>1 DEF ShooterFields
    <3>4. h.enemies \in [Shooter!Slots -> Foes \cup {Shooter!NoEnemy}]
      BY <1>1, <3>2, <3>3 DEF ShooterKept
    <3>5. ShooterKept(h)
      BY <1>1, <3>3, <3>4 DEF ShooterKept
    <3>6. ASSUME NEW j \in 1..i PROVE Clear(h, j)
      <4>1. CASE j = i
        <5>1. h.enemies[j] = e
          BY <1>1, <3>3, <4>1
        <5> QED
          BY <2>5, <3>3, <5>1 DEF Clear
      <4>2. CASE j # i
        <5>1. h.enemies[j] = g.enemies[j] /\ Clear(g, j)
          BY <1>1, <3>3, <4>2
        <5> QED
          BY <3>3, <5>1 DEF Clear
      <4> QED
        BY <4>1, <4>2
    <3> QED
      BY <3>5, <3>6 DEF ShooterSwept
  <2> QED
    BY <2>2, <2>3, <2>4, <2>5
<1> QED
  BY <1>5, <1>6

(* A new enemy takes a free entry.                                         *)
LEMMA ShooterSpawns ==
    ASSUME ShooterCourt, NEW g, ShooterKept(g), NEW h \in Shooter!Spawn(g)
    PROVE  ShooterKept(h)
<1> DEFINE z == [g EXCEPT !.since_spawn = 0]
           free == Shooter!FreeSlots(z)
           i == Shooter!Min(free)
<1>1. ShooterKept(z)
  <2>1. /\ DOMAIN z = ShooterFields /\ z.ship = g.ship /\ z.bullets = g.bullets
        /\ z.enemies = g.enemies
        /\ z.kills = g.kills /\ z.level = g.level /\ z.interval = g.interval
        /\ z.lives = g.lives /\ z.over = g.over
    BY DEF ShooterKept, ShooterFields
  <2> HIDE DEF z
  <2> QED
    BY <2>1 DEF ShooterKept
<1>2. h = g \/ h \in Shooter!spawn_enemy(z)
  BY DEF Shooter!Spawn
<1> HIDE DEF z
<1>3. CASE h \in Shooter!spawn_enemy(z) /\ free = {}
  BY <1>1, <1>3 DEF Shooter!spawn_enemy
<1>4. CASE h \in Shooter!spawn_enemy(z) /\ free # {}
  <2> DEFINE New(x, v) == [z EXCEPT !.enemies[i] = [x |-> x, y |-> -1, speed |-> v]]
  <2>1. Shooter!spawn_enemy(z) = {New(x, v) : x \in Shooter!Cols, v \in SPEEDS}
    BY <1>4 DEF Shooter!spawn_enemy
  <2>2. i \in Shooter!Slots
    <3>1. free \subseteq Nat /\ free \subseteq Shooter!Slots
      BY DEF Shooter!FreeSlots, Shooter!Slots
    <3> HIDE DEF free
    <3>2. PICK n \in free : \A m \in free : n <= m
      BY <1>4, <3>1, HasLeast
    <3> QED
      BY <3>1, <3>2 DEF Shooter!Min
  <2> HIDE DEF New, i
  <2>3. PICK x \in Shooter!Cols, v \in SPEEDS : h = New(x, v)
    BY <1>4, <2>1
  <2>4. [x |-> x, y |-> -1, speed |-> v] \in Foes
    <3>1. -1 \in -1..SCREEN_H
      BY DEF ShooterCourt
    <3> QED
      BY <3>1 DEF Foes
  <2>5. /\ DOMAIN h = ShooterFields /\ h.ship = z.ship /\ h.bullets = z.bullets
        /\ h.enemies = [z.enemies EXCEPT ![i] = [x |-> x, y |-> -1, speed |-> v]]
        /\ h.kills = z.kills /\ h.level = z.level /\ h.interval = z.interval
        /\ h.lives = z.lives /\ h.over = z.over
    BY <1>1, <2>3 DEF ShooterKept, ShooterFields, New
  <2>6. h.enemies \in [Shooter!Slots -> Foes \cup {Shooter!NoEnemy}]
    BY <1>1, <2>2, <2>4, <2>5 DEF ShooterKept
  <2> QED
    BY <1>1, <2>5, <2>6 DEF ShooterKept
<1> QED
  BY <1>2, <1>3, <1>4

(* The ship moves, and fires when it may.                                  *)
LEMMA ShooterFires ==
    ASSUME ShooterCourt, NEW g, ShooterKept(g), NEW late, NEW move \in -1..1, NEW fire
    PROVE  ShooterKept(Shooter!fire_bullet(Shooter!MoveShip(Shooter!Elapse(g, late), move), fire))
<1> DEFINE e == Shooter!Elapse(g, late)
           m == Shooter!MoveShip(e, move)
           f == Shooter!fire_bullet(m, fire)
           shot == <<m.ship, SHIP_Y - 1>>
<1>1. ShooterKept(e)
  <2>1. /\ DOMAIN e = ShooterFields /\ e.ship = g.ship /\ e.bullets = g.bullets
        /\ e.enemies = g.enemies
        /\ e.kills = g.kills /\ e.level = g.level /\ e.interval = g.interval
        /\ e.lives = g.lives /\ e.over = g.over
    BY DEF ShooterKept, ShooterFields, Shooter!Elapse
  <2> HIDE DEF e
  <2> QED
    BY <2>1 DEF ShooterKept
<1> HIDE DEF e
<1>2. ShooterKept(m)
  <2>1. /\ DOMAIN m = ShooterFields /\ m.ship = Shooter!Clamp(e.ship + move)
        /\ m.bullets = e.bullets /\ m.enemies = e.enemies
        /\ m.kills = e.kills /\ m.level = e.level /\ m.interval = e.interval
        /\ m.lives = e.lives /\ m.over = e.over
    BY <1>1 DEF ShooterKept, ShooterFields, Shooter!MoveShip
  <2> HIDE DEF m
  <2>2. m.ship \in Shooter!Cols
    <3>1. e.ship \in Int
      BY <1>1 DEF ShooterKept, Shooter!Cols
    <3> QED
      BY <2>1, <3>1 DEF Shooter!Clamp, Shooter!Cols, ShooterCourt
  <2> QED
    BY <1>1, <2>1, <2>2 DEF ShooterKept
<1> HIDE DEF m
<1>3. CASE f = m
  BY <1>2, <1>3 DEF m, e
<1>4. CASE f # m
  <2>1. /\ f = [m EXCEPT !.bullets = @ \cup {shot}, !.since_fire = 0]
        /\ Cardinality(m.bullets) < MAX_BULLETS
    BY <1>4, SameCardinalities DEF Shooter!fire_bullet
  <2>2. /\ DOMAIN f = ShooterFields /\ f.ship = m.ship /\ f.bullets = m.bullets \cup {shot}
        /\ f.enemies = m.enemies
        /\ f.kills = m.kills /\ f.level = m.level /\ f.interval = m.interval
        /\ f.lives = m.lives /\ f.over = m.over
    BY <1>2, <2>1 DEF ShooterKept, ShooterFields
  <2> HIDE DEF f
  <2>3. IsFiniteSet(f.bullets) /\ Cardinality(f.bullets) <= MAX_BULLETS
    <3>1. IsFiniteSet(m.bullets) /\ Cardinality(m.bullets) \in Nat
      BY <1>2, FS_CardinalityType DEF ShooterKept
    <3> HIDE DEF shot
    <3> QED
      BY <2>1, <2>2, <3>1, FS_AddElement DEF ShooterCourt
  <2>4. shot \in Shooter!Cols \X (-1..SHIP_Y)
    BY <1>2 DEF ShooterKept, ShooterCourt
  <2>5. ShooterKept(f)
    <3> HIDE DEF shot
    <3> QED
      BY <1>2, <2>2, <2>3, <2>4 DEF ShooterKept
  <2> QED
    BY <2>5 DEF f, m, e
<1> QED
  BY <1>3, <1>4

(* The bullets move.                                                       *)
LEMMA ShooterBullets ==
    ASSUME ShooterCourt, NEW g, ShooterKept(g)
    PROVE  ShooterKept(Shooter!MoveBullets(g))
<1> DEFINE f == [c \in g.bullets |-> <<c[1], c[2] - 1>>]
           T == {<<c[1], c[2] - 1>> : c \in g.bullets}
           U == {b \in T : b[2] >= -1}
           k == Shooter!MoveBullets(g)
<1>1. /\ IsFiniteSet(g.bullets) /\ Cardinality(g.bullets) \in Nat
      /\ Cardinality(g.bullets) <= MAX_BULLETS
      /\ g.bullets \subseteq (Shooter!Cols \X (-1..SHIP_Y))
  BY FS_CardinalityType DEF ShooterKept
<1>2. IsFiniteSet(T) /\ Cardinality(T) <= Cardinality(g.bullets)
  <2>1. DOMAIN f = g.bullets /\ f = [x \in g.bullets |-> f[x]] /\ T = {f[x] : x \in g.bullets}
    OBVIOUS
  <2> HIDE DEF f, T
  <2> QED
    BY <1>1, <2>1, AtMostAsMany
<1>3. U \subseteq (Shooter!Cols \X (-1..SHIP_Y))
  <2> SUFFICES ASSUME NEW b \in U PROVE b \in Shooter!Cols \X (-1..SHIP_Y)
    OBVIOUS
  <2>1. PICK c \in g.bullets : b = <<c[1], c[2] - 1>>
    OBVIOUS
  <2>2. c[1] \in Shooter!Cols /\ c[2] \in -1..SHIP_Y /\ b[2] >= -1 /\ b[2] = c[2] - 1
    BY <1>1, <2>1
  <2> QED
    BY <2>1, <2>2 DEF ShooterCourt
<1>4. /\ DOMAIN k = ShooterFields /\ k.ship = g.ship /\ k.bullets = U
      /\ k.enemies = g.enemies
      /\ k.kills = g.kills /\ k.level = g.level /\ k.interval = g.interval
      /\ k.lives = g.lives /\ k.over = g.over
  BY DEF ShooterKept, ShooterFields, Shooter!MoveBullets
<1>5. U \subseteq T
  OBVIOUS
<1> HIDE DEF U, T, k
<1>6. IsFiniteSet(U) /\ Cardinality(U) <= MAX_BULLETS
  <2>1. IsFiniteSet(U) /\ Cardinality(U) <= Cardinality(T)
    BY <1>2, <1>5, FS_Subset
  <2>2. Cardinality(U) \in Nat /\ Cardinality(T) \in Nat
    BY <1>2, <2>1, FS_CardinalityType
  <2> QED
    BY <1>1, <1>2, <2>1, <2>2 DEF ShooterCourt
<1>7. ShooterKept(k)
  BY <1>3, <1>4, <1>6 DEF ShooterKept
<1> QED
  BY <1>7 DEF k

(* Every step of the game keeps the invariant.                             *)
LEMMA ShooterStep == ASSUME ShooterCourt, ShooterInv, Shooter!Next PROVE ShooterInv'
<1>1. CASE Shooter!Over
  BY <1>1 DEF Shooter!Over, ShooterInv
<1>2. CASE Shooter!Update
  <2>1. PICK keys \in Shooter!input_poll, late \in 1..MaxLate :
          game' \in Shooter!game_update(game, keys.arrows, keys.fire, late)
    BY <1>2 DEF Shooter!Update
  <2> DEFINE f == Shooter!fire_bullet(Shooter!MoveShip(Shooter!Elapse(game, late), keys.arrows),
                                      keys.fire)
  <2>2. ShooterKept(f)
    <3>1. ShooterKept(game) /\ keys.arrows \in -1..1
      BY DEF ShooterInv, ShooterSwept, Shooter!input_poll
    <3> QED
      BY <3>1, ShooterFires
  <2>3. PICK h \in Shooter!Spawn(f) : game' \in Shooter!Enemies(Shooter!MoveBullets(h))
    BY <2>1 DEF Shooter!game_update
  <2> HIDE DEF f
  <2> DEFINE b == Shooter!MoveBullets(h)
  <2>4. ShooterKept(b)
    BY <2>2, <2>3, ShooterSpawns, ShooterBullets
  <2> HIDE DEF b
  <2>5. AllSwept(0, {b}, 0)
    BY <2>4 DEF AllSwept, ShooterSwept
  <2>6. \A i \in 1..MAX_ENEMIES : \A S :
           AllSwept(0, S, i - 1) => AllSwept(0, UNION {Shooter!Enemy(x, i) : x \in S}, i)
    <3> SUFFICES ASSUME NEW i \in 1..MAX_ENEMIES, NEW S, AllSwept(0, S, i - 1),
                        NEW x \in S, NEW y \in Shooter!Enemy(x, i)
                 PROVE  ShooterSwept(y, i)
      BY DEF AllSwept
    <3>1. ShooterSwept(x, i - 1)
      BY DEF AllSwept
    <3> QED
      BY <3>1, ShooterEnemy
  <2>7. MAX_ENEMIES \in Nat
    BY DEF ShooterCourt
  <2>8. AllSwept(0, ShooterLoop!Loop({b}, MAX_ENEMIES), MAX_ENEMIES)
    BY <2>5, <2>6, <2>7, ShooterLoop!Kept, HasLeast
  <2>9. Shooter!Enemies(b) = ShooterLoop!Loop({b}, MAX_ENEMIES)
    BY DEF Shooter!Enemies, ShooterLoop!Loop
  <2> QED
    BY <2>3, <2>8, <2>9 DEF AllSwept, ShooterInv, b
<1> QED
  BY <1>1, <1>2 DEF Shooter!Next

(* The invariant holds when a game begins.                                 *)
LEMMA ShooterInit == ASSUME ShooterCourt, Shooter!Init PROVE ShooterInv
<1>1. /\ DOMAIN game = ShooterFields /\ game.ship = COLUMNS \div 2 /\ game.bullets = {}
      /\ game.enemies = [i \in Shooter!Slots |-> Shooter!NoEnemy]
      /\ game.kills = 0 /\ game.level = 1 /\ game.interval = SPAWN_INTERVAL
      /\ game.lives = MAX_LIVES /\ game.over = FALSE
  BY DEF Shooter!Init, Shooter!game_init, ShooterFields
<1>2. COLUMNS \div 2 \in Shooter!Cols
  BY SMT DEF ShooterCourt, Shooter!Cols
<1>3. 0 \div LEVEL_KILLS = 0
  BY OneMore DEF ShooterCourt
<1>4. IsFiniteSet({}) /\ Cardinality({}) <= MAX_BULLETS
  BY FS_EmptySet DEF ShooterCourt
<1>5. MAX_LIVES \in 0..MAX_LIVES /\ MAX_LIVES # 0 /\ 1 = 1 + 0
  BY DEF ShooterCourt
<1>6. ShooterKept(game)
  BY <1>1, <1>2, <1>3, <1>4, <1>5 DEF ShooterKept
<1> QED
  BY <1>1, <1>6 DEF ShooterInv, ShooterSwept, Clear, Shooter!Slots

(* In drm-shooter.c no enemy is at the ship or at a bullet after a pass,   *)
(* however their steps and the order of the table fall; the level and the  *)
(* pace are those of the kills, also of several in one pass; and the game  *)
(* is over with the last life.                                             *)
THEOREM ShooterCorrect ==
    ASSUME ShooterCourt
    PROVE  Shooter!Spec => [](Shooter!TypeOK /\ Shooter!NoHitMissed /\ Shooter!LevelOfKills)
<1>1. ShooterInv => Shooter!TypeOK /\ Shooter!NoHitMissed /\ Shooter!LevelOfKills
  <2> SUFFICES ASSUME ShooterInv
               PROVE  Shooter!TypeOK /\ Shooter!NoHitMissed /\ Shooter!LevelOfKills
    OBVIOUS
  <2>1. ShooterKept(game)
    BY DEF ShooterInv, ShooterSwept
  <2>2. Shooter!LevelOfKills
    BY <2>1, Zenon DEF ShooterKept, Shooter!LevelOfKills
  <2>3. ASSUME NEW i \in Shooter!Slots \ Shooter!FreeSlots(game)
        PROVE  game.enemies[i].y \in -1..SCREEN_H /\ Clear(game, i)
               /\ game.enemies[i] # Shooter!NoEnemy
    <3>1. i \in 1..MAX_ENEMIES /\ i \in Shooter!Slots /\ game.enemies[i] # Shooter!NoEnemy
      BY DEF Shooter!FreeSlots, Shooter!Slots
    <3>2. game.enemies[i] \in Foes
      BY <2>1, <3>1 DEF ShooterKept
    <3> QED
      BY <3>1, <3>2 DEF ShooterInv, ShooterSwept, Foes
  <2>4. Shooter!NoHitMissed
    BY <2>3 DEF Clear, Shooter!NoHitMissed
  <2>5. Shooter!TypeOK
    BY <2>1, <2>3, SameCardinalities DEF ShooterKept, Shooter!TypeOK
  <2> QED
    BY <2>2, <2>4, <2>5
<1>2. Shooter!Init => ShooterInv
  BY ShooterInit
<1>3. ShooterInv /\ [Shooter!Next]_game => ShooterInv'
  BY ShooterStep DEF ShooterInv
<1> QED
  BY <1>1, <1>2, <1>3, PTL DEF Shooter!Spec

-----------------------------------------------------------------------------
(* Tower.                                                                  *)
TowerFields ==
    {"towers", "ready", "enemies", "projectiles", "gold", "lives", "score", "wave", "spawned",
     "per_wave", "interval", "since_spawn", "over"}

Walkers == [at : 0..(PATH_END - 1), hp : Int, speed : Nat]

(* What every part of a pass keeps.                                        *)
TowerKept(g) ==
    /\ DOMAIN g = TowerFields
    /\ g.towers \subseteq CELLS /\ IsFiniteSet(g.towers) /\ g.ready \subseteq g.towers
    /\ g.enemies \in [Tower!Slots -> Walkers \cup {Tower!NoEnemy}]
    /\ g.projectiles \in 0..MAX_PROJECTILES
    /\ g.score \in Int
    /\ g.gold = STARTING_GOLD + g.score - TOWER_COST * Cardinality(g.towers)
    /\ g.wave \in Nat /\ g.per_wave \in Nat /\ g.spawned \in 0..g.per_wave
    /\ Cardinality(Tower!Active(g)) <= g.spawned
    /\ g.lives \in 0..STARTING_LIVES /\ (g.over <=> g.lives = 0)

TowerInv == TowerKept(game)

(* No enemy has come, c being what the enemies' turn began with.           *)
TowerFought(c, g, i) == TowerKept(g) /\ Tower!Active(g) \subseteq Tower!Active(c)

AllFought(c, S, n) ==
    \A g \in S : TowerFought(c, g, n) /\ g.projectiles >= c.projectiles - n

TowerMoves == INSTANCE Loops WITH Step <- Tower!MoveEnemy, Holds <- TowerFought

Volleys(h) == {h} \cup ({[h EXCEPT !.projectiles = @ - 1]}
                         \cup {Tower!Damage(h, i) : i \in Tower!Active(h)})

TowerShots == INSTANCE Loops
    WITH Step <- LAMBDA S, n : UNION {Volleys(h) : h \in S}, Holds <- AllFought

(* The enemies on the way can be counted.                                  *)
LEMMA TowerActive ==
    ASSUME TowerCourt, NEW g
    PROVE  /\ Tower!Active(g) \subseteq Tower!Slots /\ IsFiniteSet(Tower!Active(g))
           /\ Cardinality(Tower!Active(g)) \in Nat
           /\ \A k : Tower!Active(k) \subseteq Tower!Active(g)
                        => Cardinality(Tower!Active(k)) \in Nat
                           /\ Cardinality(Tower!Active(k)) <= Cardinality(Tower!Active(g))
<1>1. IsFiniteSet(Tower!Slots)
  BY FS_Interval DEF TowerCourt, Tower!Slots
<1>2. \A k : Tower!Active(k) \subseteq Tower!Slots
  BY DEF Tower!Active
<1>3. \A k : IsFiniteSet(Tower!Active(k))
  BY <1>1, <1>2, FS_Subset
<1>4. \A k : Cardinality(Tower!Active(k)) \in Nat
  BY <1>3, FS_CardinalityType
<1> QED
  BY <1>2, <1>3, <1>4, FS_Subset

(* The same but for an enemy less.                                         *)
LEMMA TowerGone ==
    ASSUME TowerCourt, NEW g, TowerKept(g), NEW i \in Tower!Slots,
           NEW e \in Walkers \cup {Tower!NoEnemy}, e = Tower!NoEnemy \/ i \in Tower!Active(g),
           NEW k, DOMAIN k = TowerFields, k.enemies = [g.enemies EXCEPT ![i] = e]
    PROVE  /\ k.enemies \in [Tower!Slots -> Walkers \cup {Tower!NoEnemy}]
           /\ Tower!Active(k) \subseteq Tower!Active(g)
           /\ Cardinality(Tower!Active(k)) \in Nat
           /\ Cardinality(Tower!Active(k)) <= g.spawned
<1>1. k.enemies \in [Tower!Slots -> Walkers \cup {Tower!NoEnemy}]
  BY DEF TowerKept
<1>2. Tower!Active(k) \subseteq Tower!Active(g)
  BY DEF TowerKept, Tower!Active
<1>3. Cardinality(Tower!Active(k)) \in Nat /\ Cardinality(Tower!Active(g)) \in Nat
      /\ Cardinality(Tower!Active(k)) <= Cardinality(Tower!Active(g))
  BY <1>2, TowerActive
<1> QED
  BY <1>1, <1>2, <1>3 DEF TowerKept

(* An enemy moves on, or gets through.                                     *)
LEMMA TowerMove ==
    ASSUME TowerCourt, NEW i \in 1..MAX_ENEMIES, NEW c, NEW g, TowerFought(c, g, i - 1)
    PROVE  TowerFought(c, Tower!MoveEnemy(g, i), i)
<1> DEFINE p == g.enemies[i]
           at == p.at + p.speed
           gone == [g EXCEPT !.enemies[i] = Tower!NoEnemy]
           moved == [g EXCEPT !.enemies[i].at = at]
           k == Tower!MoveEnemy(g, i)
<1>1. /\ TowerKept(g) /\ i \in Tower!Slots /\ DOMAIN g = TowerFields
      /\ g.enemies \in [Tower!Slots -> Walkers \cup {Tower!NoEnemy}]
      /\ Tower!Active(g) \subseteq Tower!Active(c)
  BY DEF TowerFought, TowerKept, Tower!Slots
<1>2. CASE i \notin Tower!Active(g)
  <2>1. k = g
    BY <1>2 DEF Tower!MoveEnemy
  <2> QED
    BY <1>1, <2>1 DEF TowerFought
<1>3. CASE i \in Tower!Active(g) /\ at >= PATH_END
  <2>1. /\ DOMAIN gone = TowerFields /\ gone.towers = g.towers /\ gone.ready = g.ready
        /\ gone.enemies = [g.enemies EXCEPT ![i] = Tower!NoEnemy]
        /\ gone.projectiles = g.projectiles
        /\ gone.score = g.score /\ gone.gold = g.gold /\ gone.wave = g.wave
        /\ gone.per_wave = g.per_wave /\ gone.spawned = g.spawned
        /\ gone.lives = g.lives /\ gone.over = g.over
    BY <1>1 DEF TowerFields
  <2>2. k = Tower!LoseLife(gone)
    BY <1>3 DEF Tower!MoveEnemy
  <2> HIDE DEF gone
  <2>3. /\ DOMAIN k = TowerFields /\ k.towers = g.towers /\ k.ready = g.ready
        /\ k.enemies = [g.enemies EXCEPT ![i] = Tower!NoEnemy]
        /\ k.projectiles = g.projectiles
        /\ k.score = g.score /\ k.gold = g.gold /\ k.wave = g.wave
        /\ k.per_wave = g.per_wave /\ k.spawned = g.spawned
        /\ k.lives = (IF g.lives > 1 THEN g.lives - 1 ELSE 0)
        /\ k.over = (g.over \/ g.lives <= 1)
    BY <2>1, <2>2 DEF TowerFields, Tower!LoseLife
  <2> HIDE DEF k
  <2>4. g.lives \in Nat /\ g.lives <= STARTING_LIVES /\ (g.over <=> g.lives = 0)
    BY <1>1 DEF TowerCourt, TowerKept
  <2>5. k.lives \in 0..STARTING_LIVES
    BY <2>3, <2>4 DEF TowerCourt
  <2>6. k.over <=> k.lives = 0
    <3>1. (k.lives = 0) <=> (g.lives = 0 \/ g.lives <= 1)
      BY <2>3, <2>4
    <3> QED
      BY <2>3, <2>4, <3>1, Zenon
  <2>7. /\ k.enemies \in [Tower!Slots -> Walkers \cup {Tower!NoEnemy}]
        /\ Tower!Active(k) \subseteq Tower!Active(g)
        /\ Cardinality(Tower!Active(k)) <= g.spawned
    BY <1>1, <2>3, TowerGone
  <2>8. TowerKept(k)
    BY <1>1, <2>3, <2>5, <2>6, <2>7 DEF TowerKept
  <2> QED
    BY <1>1, <2>7, <2>8 DEF TowerFought, k
<1>4. CASE i \in Tower!Active(g) /\ ~(at >= PATH_END)
  <2>1. k = moved
    BY <1>4 DEF Tower!MoveEnemy
  <2> DEFINE e == [p EXCEPT !.at = at]
  <2>2. e \in Walkers
    <3>1. p \in Walkers
      BY <1>1, <1>4 DEF Tower!Active
    <3>2. at \in 0..(PATH_END - 1)
      <4>1. p.at \in Nat /\ p.speed \in Nat
        BY <3>1 DEF Walkers, TowerCourt
      <4> HIDE DEF p
      <4> QED
        BY <1>4, <4>1 DEF TowerCourt
    <3> HIDE DEF p, at
    <3> QED
      BY <3>1, <3>2 DEF Walkers
  <2>3. /\ DOMAIN moved = TowerFields /\ moved.towers = g.towers /\ moved.ready = g.ready
        /\ moved.enemies = [g.enemies EXCEPT ![i] = e] /\ moved.projectiles = g.projectiles
        /\ moved.score = g.score /\ moved.gold = g.gold /\ moved.wave = g.wave
        /\ moved.per_wave = g.per_wave /\ moved.spawned = g.spawned
        /\ moved.lives = g.lives /\ moved.over = g.over
    BY <1>1 DEF TowerFields
  <2> HIDE DEF moved, e, k
  <2>4. /\ moved.enemies \in [Tower!Slots -> Walkers \cup {Tower!NoEnemy}]
        /\ Tower!Active(moved) \subseteq Tower!Active(g)
        /\ Cardinality(Tower!Active(moved)) <= g.spawned
    BY <1>1, <1>4, <2>2, <2>3, TowerGone
  <2>5. TowerKept(moved)
    BY <1>1, <2>3, <2>4 DEF TowerKept
  <2> QED
    BY <1>1, <2>1, <2>4, <2>5 DEF TowerFought, k
<1> QED
  BY <1>2, <1>3, <1>4

(* A projectile reaches its enemy.                                         *)
LEMMA TowerShot ==
    ASSUME TowerCourt, NEW c, c.projectiles \in 0..MAX_PROJECTILES, NEW n \in 1..c.projectiles,
           NEW g, TowerFought(c, g, n - 1), g.projectiles >= c.projectiles - (n - 1),
           NEW h \in Volleys(g)
    PROVE  TowerFought(c, h, n) /\ h.projectiles >= c.projectiles - n
<1>1. /\ TowerKept(g) /\ DOMAIN g = TowerFields
      /\ g.enemies \in [Tower!Slots -> Walkers \cup {Tower!NoEnemy}]
      /\ Tower!Active(g) \subseteq Tower!Active(c)
  BY DEF TowerFought, TowerKept
<1>2. /\ g.projectiles >= c.projectiles - n /\ g.projectiles - 1 >= c.projectiles - n
      /\ g.projectiles - 1 \in 0..MAX_PROJECTILES
  BY <1>1 DEF TowerKept, TowerCourt
<1>3. CASE h = g
  BY <1>1, <1>2, <1>3 DEF TowerFought
<1>4. CASE h = [g EXCEPT !.projectiles = @ - 1]
  <2>1. /\ DOMAIN h = TowerFields /\ h.towers = g.towers /\ h.ready = g.ready
        /\ h.enemies = g.enemies /\ h.projectiles = g.projectiles - 1
        /\ h.score = g.score /\ h.gold = g.gold /\ h.wave = g.wave
        /\ h.per_wave = g.per_wave /\ h.spawned = g.spawned
        /\ h.lives = g.lives /\ h.over = g.over
    BY <1>1, <1>4 DEF TowerFields
  <2>2. Tower!Active(h) = Tower!Active(g)
    BY <2>1 DEF Tower!Active
  <2>3. TowerKept(h)
    BY <1>1, <1>2, <2>1, <2>2 DEF TowerKept
  <2> QED
    BY <1>1, <1>2, <2>1, <2>2, <2>3 DEF TowerFought
<1>5. ASSUME NEW i \in Tower!Active(g), h = Tower!Damage(g, i)
      PROVE  TowerFought(c, h, n) /\ h.projectiles >= c.projectiles - n
  <2> DEFINE p == g.enemies[i]
             e == [p EXCEPT !.hp = @ - 1]
             hit == [g EXCEPT !.enemies[i].hp = @ - 1, !.projectiles = @ - 1]
  <2>0. i \in Tower!Slots
    BY DEF Tower!Active
  <2>1. e \in Walkers
    <3>1. p \in Walkers
      BY <1>1 DEF Tower!Active
    <3> HIDE DEF p
    <3> QED
      BY <3>1 DEF Walkers
  <2>2. /\ DOMAIN hit = TowerFields /\ hit.towers = g.towers /\ hit.ready = g.ready
        /\ hit.enemies = [g.enemies EXCEPT ![i] = e] /\ hit.projectiles = g.projectiles - 1
        /\ hit.score = g.score /\ hit.gold = g.gold /\ hit.wave = g.wave
        /\ hit.per_wave = g.per_wave /\ hit.spawned = g.spawned
        /\ hit.lives = g.lives /\ hit.over = g.over
    BY <1>1, <2>0 DEF TowerFields
  <2>3. CASE h = hit
    <3> HIDE DEF hit, e
    <3>1. /\ h.enemies \in [Tower!Slots -> Walkers \cup {Tower!NoEnemy}]
          /\ Tower!Active(h) \subseteq Tower!Active(g)
          /\ Cardinality(Tower!Active(h)) <= g.spawned
      BY <1>1, <2>0, <2>1, <2>2, <2>3, TowerGone
    <3>2. TowerKept(h)
      BY <1>1, <1>2, <2>2, <2>3, <3>1 DEF TowerKept
    <3> QED
      BY <1>1, <1>2, <2>2, <2>3, <3>1, <3>2 DEF TowerFought
  <2>4. CASE h = [hit EXCEPT !.enemies[i] = Tower!NoEnemy, !.gold = @ + ENEMY_REWARD,
                             !.score = @ + ENEMY_REWARD]
    <3> HIDE DEF hit, e
    <3>1. /\ DOMAIN h = TowerFields /\ h.towers = g.towers /\ h.ready = g.ready
          /\ h.enemies = [hit.enemies EXCEPT ![i] = Tower!NoEnemy]
          /\ h.projectiles = g.projectiles - 1
          /\ h.score = g.score + ENEMY_REWARD /\ h.gold = g.gold + ENEMY_REWARD
          /\ h.wave = g.wave /\ h.per_wave = g.per_wave /\ h.spawned = g.spawned
          /\ h.lives = g.lives /\ h.over = g.over
      BY <2>2, <2>4 DEF TowerFields
    <3>2. h.enemies = [g.enemies EXCEPT ![i] = Tower!NoEnemy]
      BY <1>1, <2>2, <3>1
    <3>3. /\ h.enemies \in [Tower!Slots -> Walkers \cup {Tower!NoEnemy}]
          /\ Tower!Active(h) \subseteq Tower!Active(g)
          /\ Cardinality(Tower!Active(h)) <= g.spawned
      <4> DEFINE none == Tower!NoEnemy
      <4>1. none \in Walkers \cup {Tower!NoEnemy} /\ none = Tower!NoEnemy
        OBVIOUS
      <4>2. DOMAIN h = TowerFields /\ h.enemies = [g.enemies EXCEPT ![i] = none]
        BY <3>1, <3>2
      <4> HIDE DEF none
      <4> QED
        BY <1>1, <2>0, <4>1, <4>2, TowerGone
    <3>4. /\ h.score \in Int
          /\ h.gold = STARTING_GOLD + h.score - TOWER_COST * Cardinality(h.towers)
      <4> DEFINE t == TOWER_COST * Cardinality(g.towers)
      <4>1. t \in Int /\ h.towers = g.towers
        <5>1. Cardinality(g.towers) \in Nat
          BY <1>1, FS_CardinalityType DEF TowerKept
        <5> QED
          BY <3>1, <5>1, SMT DEF TowerCourt
      <4>2. g.gold = STARTING_GOLD + g.score - t /\ g.score \in Int
        BY <1>1 DEF TowerKept
      <4> HIDE DEF t
      <4>3. h.score \in Int /\ h.gold = STARTING_GOLD + h.score - t
        BY <3>1, <4>1, <4>2 DEF TowerCourt
      <4> QED
        BY <4>1, <4>3 DEF t
    <3>5. TowerKept(h)
      BY <1>1, <1>2, <3>1, <3>3, <3>4 DEF TowerKept
    <3> QED
      BY <1>1, <1>2, <3>1, <3>3, <3>5 DEF TowerFought
  <2> HIDE DEF hit
  <2> QED
    BY <1>5, <2>3, <2>4 DEF Tower!Damage, hit
<1> QED
  BY <1>3, <1>4, <1>5 DEF Volleys

(* The towers fire as far as the table has room.                           *)
LEMMA TowerFires ==
    ASSUME TowerCourt, NEW g, TowerKept(g), NEW h \in Tower!FireTowers(g)
    PROVE  TowerKept(h) /\ Tower!Active(h) = Tower!Active(g)
<1> DEFINE aim == {c \in g.ready : Tower!InRange(g, c)}
           free == MAX_PROJECTILES - g.projectiles
<1>1. PICK fire \in SUBSET aim :
        /\ Tower!Cardinality(fire) = Tower!Min({Tower!Cardinality(aim), free})
        /\ h = [g EXCEPT !.ready = @ \ fire, !.projectiles = @ + Tower!Cardinality(fire)]
  BY DEF Tower!FireTowers
<1>2. Cardinality(aim) \in Nat /\ Cardinality(fire) \in Nat
  <2>1. aim \subseteq g.towers /\ IsFiniteSet(g.towers)
    BY DEF TowerKept
  <2> HIDE DEF aim
  <2>2. IsFiniteSet(aim) /\ IsFiniteSet(fire)
    BY <2>1, FS_Subset
  <2> QED
    BY <2>2, FS_CardinalityType
<1> HIDE DEF aim
<1>3. free \in Nat /\ g.projectiles \in Nat
  BY DEF TowerKept, TowerCourt
<1>4. Cardinality(fire) <= free
  <2>1. \E x \in {Cardinality(aim), free} : \A y \in {Cardinality(aim), free} : x <= y
    BY <1>2, <1>3
  <2>2. Tower!Min({Cardinality(aim), free}) <= free
    BY <1>2, <1>3, <2>1 DEF Tower!Min
  <2> QED
    BY <1>1, <2>2, SameCardinalities
<1>5. /\ DOMAIN h = TowerFields /\ h.towers = g.towers /\ h.ready = g.ready \ fire
      /\ h.enemies = g.enemies /\ h.projectiles = g.projectiles + Cardinality(fire)
      /\ h.score = g.score /\ h.gold = g.gold /\ h.wave = g.wave
      /\ h.per_wave = g.per_wave /\ h.spawned = g.spawned
      /\ h.lives = g.lives /\ h.over = g.over
  BY <1>1, SameCardinalities DEF TowerFields, TowerKept
<1>6. Tower!Active(h) = Tower!Active(g)
  BY <1>5 DEF Tower!Active
<1>7. h.projectiles \in 0..MAX_PROJECTILES
  BY <1>2, <1>3, <1>4, <1>5 DEF TowerCourt
<1>8. TowerKept(h)
  BY <1>5, <1>6, <1>7 DEF TowerKept
<1> QED
  BY <1>6, <1>8

(* The enemies move, and the projectiles hit, in the order of their tables.*)
LEMMA TowerFights ==
    ASSUME TowerCourt, NEW g, TowerKept(g), NEW k \in Tower!Fight(g)
    PROVE  TowerKept(k)
<1> DEFINE m == Tower!MoveEnemies(g)
<1>1. TowerFought(g, m, MAX_ENEMIES)
  <2>1. TowerFought(g, g, 0)
    BY DEF TowerFought
  <2>2. \A i \in 1..MAX_ENEMIES : \A h :
           TowerFought(g, h, i - 1) => TowerFought(g, Tower!MoveEnemy(h, i), i)
    BY TowerMove
  <2>3. MAX_ENEMIES \in Nat
    BY DEF TowerCourt
  <2>4. TowerFought(g, TowerMoves!Loop(g, MAX_ENEMIES), MAX_ENEMIES)
    BY <2>1, <2>2, <2>3, TowerMoves!Kept, HasLeast
  <2>5. m = TowerMoves!Loop(g, MAX_ENEMIES)
    BY DEF Tower!MoveEnemies, TowerMoves!Loop
  <2> QED
    BY <2>4, <2>5
<1> HIDE DEF m
<1>2. PICK h \in UNION {Tower!Projectiles(f) : f \in Tower!FireTowers(m)} :
        k = Tower!NextWave(h, Tower!Active(g) = {})
  BY DEF Tower!Fight, m
<1>3. PICK f \in Tower!FireTowers(m) : h \in Tower!Projectiles(f)
  BY <1>2
<1>4. TowerFought(g, f, 0)
  BY <1>1, <1>3, TowerFires DEF TowerFought
<1>5. TowerFought(g, h, 0)
  <2> DEFINE n == f.projectiles
  <2>1. n \in 0..MAX_PROJECTILES /\ n \in Nat
    BY <1>4 DEF TowerFought, TowerKept, TowerCourt
  <2>2. AllFought(f, {f}, 0)
    BY <1>4, <2>1 DEF AllFought, TowerFought
  <2>3. \A i \in 1..n : \A S : AllFought(f, S, i - 1) => AllFought(f, UNION {Volleys(x) : x \in S}, i)
    <3> SUFFICES ASSUME NEW i \in 1..n, NEW S, AllFought(f, S, i - 1),
                        NEW x \in S, NEW y \in Volleys(x)
                 PROVE  TowerFought(f, y, i) /\ y.projectiles >= f.projectiles - i
      BY DEF AllFought
    <3>1. TowerFought(f, x, i - 1) /\ x.projectiles >= f.projectiles - (i - 1)
      BY DEF AllFought
    <3> QED
      BY <2>1, <3>1, TowerShot
  <2>4. AllFought(f, TowerShots!Loop({f}, n), n)
    BY <2>1, <2>2, <2>3, TowerShots!Kept, HasLeast
  <2>5. Tower!Projectiles(f) = TowerShots!Loop({f}, n)
    BY DEF Tower!Projectiles, TowerShots!Loop, Volleys
  <2> QED
    BY <1>3, <1>4, <2>4, <2>5 DEF AllFought, TowerFought
<1>6. CASE k = h
  BY <1>5, <1>6 DEF TowerFought
<1>7. CASE k # h
  <2>1. /\ Tower!Active(g) = {}
        /\ k = [h EXCEPT !.wave = @ + 1, !.spawned = 0,
                         !.per_wave = TOWER_WAVE_BASE + (h.wave + 1) * WAVE_STEP,
                         !.interval = Tower!Interval(h.wave + 1), !.since_spawn = -PAUSE]
    BY <1>2, <1>7 DEF Tower!NextWave
  <2>2. TowerKept(h) /\ Tower!Active(h) = {}
    BY <1>5, <2>1 DEF TowerFought
  <2>3. /\ DOMAIN k = TowerFields /\ k.towers = h.towers /\ k.ready = h.ready
        /\ k.enemies = h.enemies /\ k.projectiles = h.projectiles
        /\ k.score = h.score /\ k.gold = h.gold /\ k.wave = h.wave + 1
        /\ k.per_wave = TOWER_WAVE_BASE + (h.wave + 1) * WAVE_STEP /\ k.spawned = 0
        /\ k.lives = h.lives /\ k.over = h.over
    BY <2>1, <2>2 DEF TowerKept, TowerFields
  <2>4. Tower!Active(k) = {} /\ Cardinality({}) = 0
    BY <2>2, <2>3, FS_EmptySet DEF Tower!Active
  <2>5. k.wave \in Nat /\ k.per_wave \in Nat
    <3>1. h.wave + 1 \in Nat
      BY <2>2 DEF TowerKept
    <3>2. (h.wave + 1) * WAVE_STEP \in Nat
      BY <3>1, SMT DEF TowerCourt
    <3> QED
      BY <2>3, <3>1, <3>2 DEF TowerCourt
  <2>6. k.spawned \in 0..k.per_wave /\ Cardinality(Tower!Active(k)) <= k.spawned
    BY <2>3, <2>4, <2>5
  <2> QED
    BY <2>2, <2>3, <2>5, <2>6 DEF TowerKept
<1> QED
  BY <1>6, <1>7

(* The next enemy of the wave comes, if one is left.                       *)
LEMMA TowerSpawns ==
    ASSUME TowerCourt, NEW g, TowerKept(g), NEW h \in Tower!Spawn(g)
    PROVE  TowerKept(h)
<1> DEFINE z == [g EXCEPT !.spawned = @ + 1, !.since_spawn = 0]
           free == Tower!Slots \ Tower!Active(z)
           i == Tower!Min(free)
<1>1. CASE h = g
  BY <1>1
<1>2. CASE h # g
  <2>1. h \in Tower!spawn_enemy(z) /\ g.spawned < g.per_wave
    BY <1>2 DEF Tower!Spawn
  <2>2. /\ DOMAIN z = TowerFields /\ z.towers = g.towers /\ z.ready = g.ready
        /\ z.enemies = g.enemies /\ z.projectiles = g.projectiles
        /\ z.score = g.score /\ z.gold = g.gold /\ z.wave = g.wave
        /\ z.per_wave = g.per_wave /\ z.spawned = g.spawned + 1
        /\ z.lives = g.lives /\ z.over = g.over
    BY DEF TowerKept, TowerFields
  <2> HIDE DEF z
  <2>3. Tower!Active(z) = Tower!Active(g)
    BY <2>2 DEF Tower!Active
  <2>4. /\ z.spawned \in 0..z.per_wave /\ Cardinality(Tower!Active(z)) \in Nat
        /\ Cardinality(Tower!Active(z)) + 1 <= z.spawned
    BY <2>1, <2>2, <2>3, TowerActive DEF TowerKept
  <2>5. TowerKept(z)
    BY <2>2, <2>4 DEF TowerKept
  <2>6. CASE Tower!Active(z) = Tower!Slots
    BY <2>1, <2>5, <2>6 DEF Tower!spawn_enemy
  <2>7. CASE Tower!Active(z) # Tower!Slots
    <3>1. i \in Tower!Slots /\ i \notin Tower!Active(z)
      <4>1. free # {} /\ free \subseteq Nat
        <5>1. Tower!Active(z) \subseteq Tower!Slots
          BY TowerActive
        <5>2. free # {}
          BY <2>7, <5>1, Zenon
        <5>3. Tower!Slots \subseteq Nat
          BY DEF Tower!Slots
        <5> QED
          BY <5>2, <5>3
      <4> HIDE DEF free
      <4>2. PICK n \in free : \A m \in free : n <= m
        BY <4>1, HasLeast
      <4>3. i \in free
        BY <4>1, <4>2 DEF Tower!Min
      <4> HIDE DEF i
      <4> QED
        BY <4>3 DEF free
    <3> HIDE DEF free
    <3>2. PICK e \in Tower!Kinds(z.wave) : h = [z EXCEPT !.enemies[i] = e]
      BY <2>1, <2>7 DEF Tower!spawn_enemy, free
    <3> HIDE DEF i
    <3>3. e \in Walkers
      <4>1. 0 \in 0..(PATH_END - 1) /\ z.wave \div 2 \in Int /\ z.wave \in Int
        BY <2>5, SMT DEF TowerKept, TowerCourt
      <4>2. NORMAL_HP + z.wave \div 2 \in Int /\ TANK_HP + z.wave \in Int /\ 1 \in Int
            /\ SLOW \in Nat /\ FAST \in Nat
        BY <4>1 DEF TowerCourt
      <4>3. \/ e = [at |-> 0, hp |-> NORMAL_HP + z.wave \div 2, speed |-> SLOW]
            \/ e = [at |-> 0, hp |-> 1, speed |-> FAST]
            \/ e = [at |-> 0, hp |-> TANK_HP + z.wave, speed |-> SLOW]
        BY <3>2 DEF Tower!Kinds
      <4> QED
        BY <4>1, <4>2, <4>3 DEF Walkers
    <3>4. /\ DOMAIN h = TowerFields /\ h.towers = z.towers /\ h.ready = z.ready
          /\ h.enemies = [z.enemies EXCEPT ![i] = e] /\ h.projectiles = z.projectiles
          /\ h.score = z.score /\ h.gold = z.gold /\ h.wave = z.wave
          /\ h.per_wave = z.per_wave /\ h.spawned = z.spawned
          /\ h.lives = z.lives /\ h.over = z.over
      BY <2>2, <3>2 DEF TowerFields
    <3>5. h.enemies \in [Tower!Slots -> Walkers \cup {Tower!NoEnemy}]
      BY <2>5, <3>1, <3>3, <3>4 DEF TowerKept
    <3>6. Cardinality(Tower!Active(h)) <= h.spawned
      <4>1. Tower!Active(h) \subseteq Tower!Active(z) \cup {i}
        BY <2>5, <3>1, <3>4 DEF Tower!Active, TowerKept
      <4>2. IsFiniteSet(Tower!Active(z)) /\ Cardinality(Tower!Active(h)) \in Nat
        BY TowerActive
      <4>3. /\ IsFiniteSet(Tower!Active(z) \cup {i})
            /\ Cardinality(Tower!Active(z) \cup {i}) <= Cardinality(Tower!Active(z)) + 1
            /\ Cardinality(Tower!Active(z) \cup {i}) \in Nat
        <5> DEFINE A == Tower!Active(z)
        <5>1. IsFiniteSet(A) /\ Cardinality(A) \in Nat
          BY <2>4, <4>2
        <5> HIDE DEF A
        <5>2. IsFiniteSet(A \cup {i})
          BY <5>1, FS_AddElement
        <5>3. Cardinality(A \cup {i}) = Cardinality(A) \/ Cardinality(A \cup {i}) = Cardinality(A) + 1
          BY <5>1, FS_AddElement
        <5>4. Cardinality(A \cup {i}) \in Nat /\ Cardinality(A \cup {i}) <= Cardinality(A) + 1
          BY <5>1, <5>3
        <5> QED
          BY <5>2, <5>4 DEF A
      <4>4. Cardinality(Tower!Active(h)) <= Cardinality(Tower!Active(z) \cup {i})
        BY <4>1, <4>3, FS_Subset
      <4>5. z.spawned \in Int
        BY <2>4, <2>5 DEF TowerKept
      <4> QED
        BY <2>4, <3>4, <4>2, <4>3, <4>4, <4>5
    <3> QED
      BY <2>5, <3>4, <3>5, <3>6 DEF TowerKept
  <2> QED
    BY <2>6, <2>7
<1> QED
  BY <1>1, <1>2

(* A tower is paid for.                                                    *)
LEMMA TowerBuilds ==
    ASSUME TowerCourt, NEW g, TowerKept(g), NEW c
    PROVE  TowerKept(Tower!place_tower(g, c))
<1> DEFINE k == Tower!place_tower(g, c)
<1>1. CASE k = g
  BY <1>1
<1>2. CASE k # g
  <2>1. /\ c \in CELLS \ g.towers
        /\ k = [g EXCEPT !.towers = @ \cup {c}, !.ready = @ \cup {c}, !.gold = @ - TOWER_COST]
    BY <1>2, Zenon DEF Tower!place_tower
  <2>2. /\ DOMAIN k = TowerFields /\ k.towers = g.towers \cup {c} /\ k.ready = g.ready \cup {c}
        /\ k.enemies = g.enemies /\ k.projectiles = g.projectiles
        /\ k.score = g.score /\ k.gold = g.gold - TOWER_COST /\ k.wave = g.wave
        /\ k.per_wave = g.per_wave /\ k.spawned = g.spawned
        /\ k.lives = g.lives /\ k.over = g.over
    BY <2>1 DEF TowerKept, TowerFields
  <2> HIDE DEF k
  <2>3. IsFiniteSet(g.towers) /\ Cardinality(g.towers) \in Nat
    BY FS_CardinalityType DEF TowerKept
  <2>4. IsFiniteSet(k.towers) /\ Cardinality(k.towers) = Cardinality(g.towers) + 1
    BY <2>1, <2>2, <2>3, FS_AddElement
  <2>5. k.gold = STARTING_GOLD + k.score - TOWER_COST * Cardinality(k.towers)
    <3> DEFINE n == Cardinality(g.towers)
               t == TOWER_COST * n
    <3>1. t \in Int /\ TOWER_COST * (n + 1) = t + TOWER_COST
      BY <2>3, SMT DEF TowerCourt
    <3>2. g.gold = STARTING_GOLD + g.score - t /\ g.score \in Int
      BY DEF TowerKept
    <3> HIDE DEF t
    <3> QED
      BY <2>2, <2>4, <3>1, <3>2 DEF TowerCourt
  <2>6. Tower!Active(k) = Tower!Active(g)
    BY <2>2 DEF Tower!Active
  <2>7. k.towers \subseteq CELLS /\ k.ready \subseteq k.towers
    BY <2>1, <2>2 DEF TowerKept
  <2>8. TowerKept(k)
    BY <2>2, <2>4, <2>5, <2>6, <2>7 DEF TowerKept
  <2> QED
    BY <2>8 DEF k
<1> QED
  BY <1>1, <1>2

(* Every step of the game keeps the invariant.                             *)
LEMMA TowerStep == ASSUME TowerCourt, TowerInv, Tower!Next PROVE TowerInv'
<1>1. CASE Tower!Over
  BY <1>1 DEF Tower!Over, TowerInv
<1>2. CASE Tower!Update
  <2>1. PICK place \in Tower!input_poll, late \in 1..TowerMaxLate :
          game' \in Tower!game_update(game, place, late)
    BY <1>2 DEF Tower!Update
  <2> DEFINE Built(h) == IF place = {} THEN h ELSE Tower!place_tower(h, CHOOSE c \in place : TRUE)
  <2>2. PICK s \in UNION {Tower!Spawn(Built(h)) : h \in Tower!Elapse(game, late)} :
          game' \in Tower!Fight(s)
    BY <2>1 DEF Tower!game_update
  <2> HIDE DEF Built
  <2>3. PICK h \in Tower!Elapse(game, late) : s \in Tower!Spawn(Built(h))
    BY <2>2
  <2>4. TowerKept(h)
    <3>1. PICK r \in SUBSET game.towers :
             h = [game EXCEPT !.since_spawn = Tower!Min({@ + late, SPAWN_INTERVAL + 1}),
                              !.ready = r]
      BY <2>3 DEF Tower!Elapse
    <3>2. /\ DOMAIN h = TowerFields /\ h.towers = game.towers /\ h.ready = r
          /\ h.enemies = game.enemies /\ h.projectiles = game.projectiles
          /\ h.score = game.score /\ h.gold = game.gold /\ h.wave = game.wave
          /\ h.per_wave = game.per_wave /\ h.spawned = game.spawned
          /\ h.lives = game.lives /\ h.over = game.over
      BY <3>1 DEF TowerInv, TowerKept, TowerFields
    <3>3. Tower!Active(h) = Tower!Active(game)
      BY <3>2 DEF Tower!Active
    <3> QED
      BY <3>2, <3>3 DEF TowerInv, TowerKept
  <2>5. TowerKept(Built(h))
    BY <2>4, TowerBuilds DEF Built
  <2>6. TowerKept(s)
    BY <2>3, <2>5, TowerSpawns
  <2> QED
    BY <2>2, <2>6, TowerFights DEF TowerInv
<1> QED
  BY <1>1, <1>2 DEF Tower!Next

(* The invariant holds when a game begins.                                 *)
LEMMA TowerInit == ASSUME TowerCourt, Tower!Init PROVE TowerInv
<1>1. /\ DOMAIN game = TowerFields /\ game.towers = {} /\ game.ready = {}
      /\ game.enemies = [i \in Tower!Slots |-> Tower!NoEnemy] /\ game.projectiles = 0
      /\ game.score = 0 /\ game.gold = STARTING_GOLD /\ game.wave = 1
      /\ game.per_wave = FIRST_WAVE /\ game.spawned = 0
      /\ game.lives = STARTING_LIVES /\ game.over = FALSE
  BY DEF Tower!Init, Tower!game_init, TowerFields
<1>2. IsFiniteSet({}) /\ Cardinality({}) = 0
  BY FS_EmptySet
<1>3. Tower!Active(game) = {}
  BY <1>1 DEF Tower!Active
<1>4. /\ TOWER_COST * 0 = 0 /\ STARTING_GOLD = STARTING_GOLD + 0 - 0
      /\ STARTING_LIVES \in 0..STARTING_LIVES /\ STARTING_LIVES # 0
      /\ 0 \in 0..FIRST_WAVE /\ 0 \in 0..MAX_PROJECTILES /\ FIRST_WAVE \in Nat /\ 0 <= 0
  BY SMT DEF TowerCourt
<1> QED
  BY <1>1, <1>2, <1>3, <1>4 DEF TowerInv, TowerKept

(* In drm-tower.c the gold is what there was and was earned, less the      *)
(* towers that stand; there are never more enemies on the path than have   *)
(* come in this wave, so none is left when the next one begins; and there  *)
(* are no more projectiles than the table holds.                           *)
THEOREM TowerCorrect ==
    ASSUME TowerCourt
    PROVE  Tower!Spec => [](Tower!TypeOK /\ Tower!GoldAccount /\ Tower!WaveAccount)
<1>1. TowerInv => Tower!TypeOK /\ Tower!GoldAccount /\ Tower!WaveAccount
  <2> SUFFICES ASSUME TowerInv PROVE Tower!TypeOK /\ Tower!GoldAccount /\ Tower!WaveAccount
    OBVIOUS
  <2>1. TowerKept(game)
    BY DEF TowerInv
  <2>2. Tower!GoldAccount
    BY <2>1, SameCardinalities, Zenon DEF TowerKept, Tower!GoldAccount
  <2>3. Tower!WaveAccount
    BY <2>1, SameCardinalities, Zenon DEF TowerKept, Tower!WaveAccount
  <2>4. ASSUME NEW i \in Tower!Active(game) PROVE game.enemies[i].at \in 0..(PATH_END - 1)
    <3>1. i \in Tower!Slots /\ game.enemies[i] # Tower!NoEnemy
      BY DEF Tower!Active
    <3>2. game.enemies[i] \in Walkers
      BY <2>1, <3>1 DEF TowerKept
    <3> QED
      BY <3>2 DEF Walkers
  <2>5. Tower!TypeOK
    BY <2>1, <2>4 DEF TowerKept, Tower!TypeOK
  <2> QED
    BY <2>2, <2>3, <2>5
<1>2. Tower!Init => TowerInv
  BY TowerInit
<1>3. TowerInv /\ [Tower!Next]_game => TowerInv'
  BY TowerStep DEF TowerInv
<1> QED
  BY <1>1, <1>2, <1>3, PTL DEF Tower!Spec

-----------------------------------------------------------------------------
(* Flappy.                                                                 *)
Pipes == [x : Int, gap : GAPS \cup {0}, scored : BOOLEAN, active : BOOLEAN]

(* Where the pipe k places behind one at m is.                             *)
Place(m, k) == m + k * PIPE_SPACING

(* The n pipes in the table stand at even distances from m on, and those   *)
(* that are passed are the ones that were counted.                         *)
Evenly(pipes, m, n) ==
    /\ pipes \in [Flappy!Slots -> Pipes]
    /\ m \in Int /\ n \in Nat /\ m + PIPE_WIDTH >= 0
    /\ \A i \in Flappy!Used(pipes) : \E k \in 0..(n - 1) : pipes[i].x = Place(m, k)
    /\ \A k \in 0..(n - 1) : \E i \in Flappy!Used(pipes) : pipes[i].x = Place(m, k)
    /\ \A i, j \in Flappy!Used(pipes) : pipes[i].x = pipes[j].x => i = j
    /\ \A i \in Flappy!Slots : pipes[i].scored <=> pipes[i].active /\ Flappy!Passed(pipes[i])

(* One is always still to come.                                            *)
ToCome(m, n) == n > 0 /\ Place(m, n - 1) >= FLAPPY_SCREEN_W - PIPE_SPACING + PIPE_WIDTH

FlappyFields == {"y", "vy", "pipes", "score", "high_score", "started", "over", "death_timer"}

FlappyKept(g) ==
    /\ DOMAIN g = FlappyFields
    /\ g.y \in Int /\ g.vy \in FLAP_VELOCITY..FLAPPY_FALL_SPEED
    /\ \E m, n : Evenly(g.pipes, m, n) /\ ToCome(m, n)
    /\ g.score \in Nat /\ g.high_score \in Nat /\ g.death_timer \in 0..DEATH
    /\ g.over => g.high_score >= g.score

FlappyInv == FlappyKept(game)

FirstEvenly(c, S, i) == \A p \in S : Evenly(p, FLAPPY_SCREEN_W, i)

FlappyFirst == INSTANCE Loops
    WITH Step <- LAMBDA S, n : UNION {Flappy!spawn_pipe(p, FLAPPY_SCREEN_W + (n - 1) * PIPE_SPACING) : p \in S},
         Holds <- FirstEvenly

(* The pipes are one spacing apart.                                        *)
LEMMA Places ==
    ASSUME FlappyScreen, NEW m \in Int
    PROVE  /\ \A k \in Int : Place(m, k) \in Int /\ Place(m, k + 1) = Place(m, k) + PIPE_SPACING
           /\ Place(m, 0) = m
           /\ \A j, k \in Int : j < k => Place(m, j) + PIPE_SPACING <= Place(m, k)
           /\ \A j, k \in Int : Place(m, j) = Place(m, k) => j = k
<1> DEFINE s == PIPE_SPACING
<1>1. s \in Nat /\ s > 0
  BY DEF FlappyScreen
<1> HIDE DEF s
<1>2. \A j, k \in Int : k * s \in Int /\ (k + 1) * s = k * s + s /\ 0 * s = 0
  BY <1>1
<1>3. ASSUME NEW j \in Int, NEW k \in Int, j < k PROVE j * s + s <= k * s
  <2> DEFINE d == k - j - 1
  <2>1. d \in Nat /\ k = j + 1 + d
    BY <1>3
  <2>2. d * s >= 0
    BY <1>1, <2>1
  <2> HIDE DEF d
  <2>3. (j + 1 + d) * s = j * s + s + d * s
    BY <1>1, <2>1
  <2>4. j * s \in Int /\ d * s \in Int
    BY <1>1, <2>1
  <2> QED
    BY <1>1, <2>1, <2>2, <2>3, <2>4
<1>4. \A k \in Int : Place(m, k) = m + k * s /\ Place(m, k) \in Int
  BY <1>2 DEF Place, s
<1>5. \A k \in Int : Place(m, k + 1) = Place(m, k) + s
  BY <1>1, <1>2, <1>4
<1>6. Place(m, 0) = m
  BY <1>2, <1>4
<1>7. ASSUME NEW j \in Int, NEW k \in Int, j < k PROVE Place(m, j) + s <= Place(m, k)
  <2>1. j * s + s <= k * s /\ j * s \in Int /\ k * s \in Int
    BY <1>2, <1>3, <1>7
  <2>2. Place(m, j) = m + j * s /\ Place(m, k) = m + k * s
    BY <1>4
  <2> QED
    BY <1>1, <2>1, <2>2
<1>8. ASSUME NEW j \in Int, NEW k \in Int, Place(m, j) = Place(m, k) PROVE j = k
  <2>1. ~(j < k) /\ ~(k < j)
    BY <1>1, <1>4, <1>7, <1>8
  <2> QED
    BY <2>1
<1> QED
  BY <1>4, <1>5, <1>6, <1>7, <1>8 DEF s

(* What the property says of the places.                                   *)
LEMMA EvenPlaces ==
    ASSUME FlappyScreen, NEW pipes, NEW m, NEW n, Evenly(pipes, m, n),
           NEW xs, xs = {pipes[i].x : i \in Flappy!Used(pipes)}
    PROVE  /\ Cardinality(xs) = n /\ Cardinality(Flappy!Used(pipes)) = n
           /\ n > 0 => /\ Flappy!Min(xs) = m
                       /\ Flappy!Max(xs) = Place(m, n - 1)
<1> DEFINE U == Flappy!Used(pipes)
           D == 0..(n - 1)
           f == [i \in U |-> pipes[i].x]
           h == [k \in D |-> Place(m, k)]
<1>1. m \in Int /\ n \in Nat
  BY DEF Evenly
<1>2. IsFiniteSet(D) /\ Cardinality(D) = n
  <2>1. 0 \in Int /\ n - 1 \in Int
    BY <1>1
  <2>2. IsFiniteSet(D) /\ Cardinality(D) = IF 0 > n - 1 THEN 0 ELSE (n - 1) - 0 + 1
    BY <2>1, FS_Interval
  <2> HIDE DEF D
  <2> QED
    BY <1>1, <2>2
<1>3. xs = {Place(m, k) : k \in D}
  BY DEF Evenly
<1>4. \A k \in D : k \in Int
  BY <1>1
<1>5. h \in Bijection(D, xs)
  <2>1. \A j, k \in D : Place(m, j) = Place(m, k) => j = k
    BY <1>1, <1>4, Places
  <2> HIDE DEF D
  <2>2. h \in [D -> xs]
    BY <1>3
  <2>3. \A j, k \in D : h[j] = h[k] => j = k
    BY <2>1
  <2>4. \A x \in xs : \E k \in D : h[k] = x
    BY <1>3
  <2> HIDE DEF h
  <2> QED
    BY <2>2, <2>3, <2>4 DEF Bijection, Injection, Surjection, IsInjective
<1>6. IsFiniteSet(xs) /\ Cardinality(xs) = n
  <2> HIDE DEF D, h
  <2> QED
    BY <1>2, <1>5, SameBijection
<1>7. IsFiniteSet(U)
  <2>1. U \subseteq Flappy!Slots
    BY DEF Flappy!Used
  <2>2. IsFiniteSet(Flappy!Slots)
    BY FS_Interval DEF Flappy!Slots, FlappyScreen
  <2> QED
    BY <2>1, <2>2, FS_Subset
<1>8. f \in Bijection(U, xs)
  <2>1. \A i, j \in U : pipes[i].x = pipes[j].x => i = j
    BY DEF Evenly
  <2>2. xs = {pipes[i].x : i \in U}
    OBVIOUS
  <2> HIDE DEF U
  <2>3. f \in [U -> xs]
    BY <2>2
  <2>4. \A i, j \in U : f[i] = f[j] => i = j
    BY <2>1
  <2>5. \A x \in xs : \E i \in U : f[i] = x
    BY <2>2
  <2> HIDE DEF f
  <2> QED
    BY <2>3, <2>4, <2>5 DEF Bijection, Injection, Surjection, IsInjective
<1>9. Cardinality(U) = n
  <2> HIDE DEF U, f
  <2> QED
    BY <1>6, <1>7, <1>8, SameBijection
<1>10. ASSUME n > 0
       PROVE  Flappy!Min(xs) = m /\ Flappy!Max(xs) = Place(m, n - 1)
  <2>1. Place(m, 0) \in xs /\ Place(m, 0) = m /\ Place(m, n - 1) \in xs
    <3>1. 0 \in D /\ n - 1 \in D
      BY <1>1, <1>10
    <3>2. Place(m, 0) = m
      BY <1>1, Places
    <3> QED
      BY <1>3, <3>1, <3>2
  <2>2. \A x \in xs : x \in Int /\ m <= x /\ x <= Place(m, n - 1)
    <3> SUFFICES ASSUME NEW k \in D
                 PROVE  /\ Place(m, k) \in Int /\ m <= Place(m, k)
                        /\ Place(m, k) <= Place(m, n - 1)
      BY <1>3
    <3>1. k \in Int /\ 0 <= k /\ k <= n - 1 /\ n - 1 \in Int
      BY <1>1
    <3>2. /\ Place(m, k) \in Int /\ Place(m, n - 1) \in Int /\ Place(m, 0) = m
          /\ 0 < k => Place(m, 0) + PIPE_SPACING <= Place(m, k)
          /\ k < n - 1 => Place(m, k) + PIPE_SPACING <= Place(m, n - 1)
      <4>1. \A j, l \in Int : j < l => Place(m, j) + PIPE_SPACING <= Place(m, l)
        BY <1>1, Places
      <4>2. Place(m, k) \in Int /\ Place(m, n - 1) \in Int /\ Place(m, 0) = m
        BY <1>1, <3>1, Places
      <4>3. 0 \in Int
        OBVIOUS
      <4> QED
        BY <3>1, <4>1, <4>2, <4>3
    <3>3. PIPE_SPACING \in Nat
      BY DEF FlappyScreen
    <3>4. 0 = k \/ 0 < k
      BY <3>1
    <3>5. k = n - 1 \/ k < n - 1
      BY <3>1
    <3> HIDE DEF D
    <3>6. m <= Place(m, k)
      BY <1>1, <3>2, <3>3, <3>4
    <3>7. Place(m, k) <= Place(m, n - 1)
      BY <1>1, <3>2, <3>3, <3>5
    <3> QED
      BY <3>2, <3>6, <3>7
  <2>3. \A x \in xs : (\A y \in xs : x <= y) => x = m
    BY <2>1, <2>2
  <2>4. \A x \in xs : (\A y \in xs : x >= y) => x = Place(m, n - 1)
    BY <2>1, <2>2
  <2>5. (\A y \in xs : m <= y) /\ (\A y \in xs : Place(m, n - 1) >= y)
    BY <2>1, <2>2
  <2> QED
    BY <2>1, <2>3, <2>4, <2>5 DEF Flappy!Min, Flappy!Max
<1> QED
  BY <1>6, <1>9, <1>10

(* A free place is in the table as long as it is not full.                 *)
LEMMA FreeSlot ==
    ASSUME FlappyScreen, NEW pipes, Flappy!Used(pipes) # Flappy!Slots
    PROVE  /\ Flappy!Min(Flappy!Slots \ Flappy!Used(pipes)) \in Flappy!Slots
           /\ Flappy!Min(Flappy!Slots \ Flappy!Used(pipes)) \notin Flappy!Used(pipes)
<1> DEFINE free == Flappy!Slots \ Flappy!Used(pipes)
<1>1. Flappy!Used(pipes) \subseteq Flappy!Slots
  BY DEF Flappy!Used
<1>2. free # {}
  BY <1>1, Zenon
<1>3. Flappy!Slots \subseteq Nat
  BY DEF Flappy!Slots
<1>4. free \subseteq Nat
  BY <1>3
<1>5. free \subseteq Flappy!Slots /\ \A i \in free : i \notin Flappy!Used(pipes)
  BY Zenon
<1> HIDE DEF free
<1>6. PICK n \in free : \A m \in free : n <= m
  BY <1>2, <1>4, HasLeast
<1>7. Flappy!Min(free) \in free
  BY <1>6 DEF Flappy!Min
<1> QED
  BY <1>5, <1>7 DEF free

(* A new pipe comes one spacing after the last.                            *)
LEMMA Spawns ==
    ASSUME FlappyScreen, NEW pipes, NEW m, NEW n, Evenly(pipes, m, n),
           Flappy!Used(pipes) # Flappy!Slots, Place(m, n) + PIPE_WIDTH >= BIRD_X_POS,
           NEW q \in Flappy!spawn_pipe(pipes, Place(m, n))
    PROVE  Evenly(q, m, n + 1)
<1> DEFINE i == Flappy!Min(Flappy!Slots \ Flappy!Used(pipes))
<1>1. i \in Flappy!Slots /\ i \notin Flappy!Used(pipes)
  BY FreeSlot
<1>2. PICK gap \in GAPS :
        q = [pipes EXCEPT ![i] = [x |-> Place(m, n), gap |-> gap, scored |-> FALSE, active |-> TRUE]]
  BY DEF Flappy!spawn_pipe
<1> DEFINE new == [x |-> Place(m, n), gap |-> gap, scored |-> FALSE, active |-> TRUE]
<1> HIDE DEF i
<1>3. m \in Int /\ n \in Nat /\ Place(m, n) \in Int
  BY Places DEF Evenly
<1>4. new \in Pipes /\ new.x = Place(m, n) /\ new.active /\ ~new.scored
  BY <1>3 DEF Pipes
<1> HIDE DEF new
<1>5. /\ pipes \in [Flappy!Slots -> Pipes] /\ q = [pipes EXCEPT ![i] = new]
  BY <1>2 DEF Evenly, new
<1>6. q \in [Flappy!Slots -> Pipes]
  BY <1>1, <1>4, <1>5
<1>7. q[i] = new /\ \A j \in Flappy!Slots : j # i => q[j] = pipes[j]
  BY <1>1, <1>5
<1>8. Flappy!Used(q) = Flappy!Used(pipes) \cup {i}
  BY <1>1, <1>4, <1>7 DEF Flappy!Used
<1>8a. \A j \in Flappy!Used(pipes) : j # i /\ q[j] = pipes[j]
  BY <1>1, <1>7 DEF Flappy!Used
<1>9. \A j \in Flappy!Used(q) : \E k \in 0..n : q[j].x = Place(m, k)
  <2> SUFFICES ASSUME NEW j \in Flappy!Used(q)
               PROVE  \E k \in 0..n : q[j].x = Place(m, k)
    OBVIOUS
  <2>1. CASE j = i
    <3>1. n \in 0..n
      BY <1>3
    <3> QED
      BY <1>4, <1>7, <2>1, <3>1
  <2>2. CASE j \in Flappy!Used(pipes)
    <3>1. PICK k \in 0..(n - 1) : pipes[j].x = Place(m, k)
      BY <2>2 DEF Evenly
    <3>2. k \in 0..n
      BY <1>3
    <3> QED
      BY <1>8a, <2>2, <3>1, <3>2
  <2> QED
    BY <1>8, <2>1, <2>2
<1>10. \A k \in 0..n : \E j \in Flappy!Used(q) : q[j].x = Place(m, k)
  <2> SUFFICES ASSUME NEW k \in 0..n
               PROVE  \E j \in Flappy!Used(q) : q[j].x = Place(m, k)
    OBVIOUS
  <2>1. CASE k = n
    BY <1>4, <1>7, <1>8, <2>1
  <2>2. CASE k # n
    <3>1. k \in 0..(n - 1)
      BY <1>3, <2>2
    <3>2. PICK j \in Flappy!Used(pipes) : pipes[j].x = Place(m, k)
      BY <3>1 DEF Evenly
    <3> QED
      BY <1>8, <1>8a, <3>2
  <2> QED
    BY <2>1, <2>2
<1>11. \A j \in Flappy!Used(pipes) : pipes[j].x # new.x
  <2> SUFFICES ASSUME NEW j \in Flappy!Used(pipes), pipes[j].x = Place(m, n) PROVE FALSE
    BY <1>4
  <2>1. PICK k \in 0..(n - 1) : pipes[j].x = Place(m, k)
    BY DEF Evenly
  <2>2. k \in Int /\ k # n /\ n \in Int
    BY <1>3
  <2> QED
    <3>1. \A a, b \in Int : Place(m, a) = Place(m, b) => a = b
      BY <1>3, Places
    <3> QED
      BY <2>1, <2>2, <3>1
<1>12. \A j, l \in Flappy!Used(q) : q[j].x = q[l].x => j = l
  <2>1. \A j, l \in Flappy!Used(pipes) : pipes[j].x = pipes[l].x => j = l
    BY DEF Evenly
  <2> QED
    BY <1>7, <1>8, <1>8a, <1>11, <2>1, Zenon
<1>13. \A j \in Flappy!Slots : q[j].scored <=> q[j].active /\ Flappy!Passed(q[j])
  <2>1. ~Flappy!Passed(new)
    BY <1>3, <1>4 DEF Flappy!Passed, FlappyScreen
  <2>2. \A j \in Flappy!Slots : pipes[j].scored <=> pipes[j].active /\ Flappy!Passed(pipes[j])
    BY DEF Evenly
  <2> QED
    BY <1>4, <1>7, <2>1, <2>2, Zenon
<1>14. n + 1 \in Nat /\ (n + 1) - 1 = n
  BY <1>3
<1>15. m + PIPE_WIDTH >= 0
  BY DEF Evenly
<1> QED
  BY <1>3, <1>6, <1>9, <1>10, <1>12, <1>13, <1>14, <1>15 DEF Evenly

(* All pipes move on by one; the first may leave.                          *)
LEMMA Moves ==
    ASSUME FlappyScreen, NEW pipes, NEW m, NEW n, Evenly(pipes, m, n), ToCome(m, n),
           NEW moved, moved = [i \in Flappy!Slots |-> Flappy!MovePipe(pipes[i])]
    PROVE  \E b, l : /\ Evenly(moved, b, l) /\ l > 0
                     /\ Place(b, l - 1) = Place(m, n - 1) - 1
<1> DEFINE d == IF m + PIPE_WIDTH = 0 THEN 1 ELSE 0
           b == Place(m, d) - 1
           l == n - d
<1>1. m \in Int /\ n \in Nat /\ n > 0 /\ m + PIPE_WIDTH >= 0 /\ pipes \in [Flappy!Slots -> Pipes]
  BY DEF Evenly, ToCome
<1>1a. \A k \in Int : Place(m, k) \in Int
  BY <1>1, Places
<1>2. d \in 0..1 /\ d \in Int /\ b \in Int /\ l \in Int
  <2>1. d \in 0..1 /\ d \in Int
    OBVIOUS
  <2> HIDE DEF d
  <2> QED
    BY <1>1, <1>1a, <2>1
<1>3. \A k \in Int : Place(b, k) = Place(m, k + d) - 1
  <2> SUFFICES ASSUME NEW k \in Int PROVE Place(b, k) = Place(m, k + d) - 1
    OBVIOUS
  <2>1. d = 0 \/ d = 1
    OBVIOUS
  <2> DEFINE p == k * PIPE_SPACING
  <2>2. p \in Int /\ 0 * PIPE_SPACING = 0 /\ 1 * PIPE_SPACING = PIPE_SPACING
        /\ (k + 0) * PIPE_SPACING = p /\ (k + 1) * PIPE_SPACING = p + PIPE_SPACING
        /\ PIPE_SPACING \in Int
    BY DEF FlappyScreen
  <2> HIDE DEF d, p
  <2>3. CASE d = 0
    <3>1. b = m - 1
      BY <1>1, <2>2, <2>3 DEF Place
    <3>2. Place(b, k) = b + p /\ Place(m, k + d) = m + p
      BY <2>2, <2>3 DEF Place, p
    <3> HIDE DEF b
    <3> QED
      BY <1>1, <2>2, <3>1, <3>2
  <2>4. CASE d = 1
    <3>1. b = m + PIPE_SPACING - 1
      BY <1>1, <2>2, <2>4 DEF Place
    <3>2. Place(b, k) = b + p /\ Place(m, k + d) = m + (p + PIPE_SPACING)
      BY <2>2, <2>4 DEF Place, p
    <3> HIDE DEF b
    <3> QED
      BY <1>1, <2>2, <3>1, <3>2
  <2> QED
    BY <2>1, <2>3, <2>4
<1>4. \A k \in 0..(n - 1) : k \in Int /\ (Place(m, k) - 1 + PIPE_WIDTH >= 0 <=> k >= d)
  <2> SUFFICES ASSUME NEW k \in 0..(n - 1)
               PROVE  Place(m, k) - 1 + PIPE_WIDTH >= 0 <=> k >= d
    BY <1>1
  <2>1. k \in Int /\ 0 <= k
    BY <1>1
  <2>2. Place(m, 0) = m /\ Place(m, k) \in Int
    BY <1>1, <2>1, Places
  <2>3. 0 < k => Place(m, 0) + PIPE_SPACING <= Place(m, k)
    <3>1. \A j, i \in Int : j < i => Place(m, j) + PIPE_SPACING <= Place(m, i)
      BY <1>1, Places
    <3>2. 0 \in Int
      OBVIOUS
    <3> QED
      BY <2>1, <3>1, <3>2
  <2>4. PIPE_WIDTH \in Int /\ PIPE_SPACING >= 1 /\ PIPE_SPACING \in Int
    BY DEF FlappyScreen
  <2> DEFINE at == Place(m, k)
  <2>5. k = 0 => at = m
    BY <2>2
  <2>6. at \in Int /\ (0 < k => m + PIPE_SPACING <= at)
    BY <2>2, <2>3
  <2> HIDE DEF at
  <2>7. at - 1 + PIPE_WIDTH >= 0 <=> k >= d
    BY <1>1, <2>1, <2>4, <2>5, <2>6
  <2> QED
    BY <2>7 DEF at
<1>5. l \in Nat /\ l > 0 /\ Place(b, l - 1) = Place(m, n - 1) - 1
  <2>1. n - 1 \in Int /\ l - 1 \in Int /\ (l - 1) + d = n - 1
    BY <1>1, <1>2
  <2>2. Place(b, l - 1) = Place(m, n - 1) - 1
    BY <1>3, <2>1
  <2>3. n - 1 \in 0..(n - 1)
    BY <1>1
  <2>4. Place(m, n - 1) - 1 + PIPE_WIDTH >= 0
    <3>1. Place(m, n - 1) >= FLAPPY_SCREEN_W - PIPE_SPACING + PIPE_WIDTH /\ Place(m, n - 1) \in Int
      BY <1>1a, <2>1 DEF ToCome
    <3> QED
      BY <3>1 DEF FlappyScreen
  <2>5. n - 1 >= d
    BY <1>4, <2>3, <2>4
  <2> HIDE DEF d, b
  <2> QED
    BY <1>1, <1>2, <2>2, <2>5
<1> HIDE DEF d, b
<1>6. \A i \in Flappy!Slots : moved[i] = Flappy!MovePipe(pipes[i]) /\ pipes[i] \in Pipes
  BY <1>1
<1>7. Flappy!NoPipe \in Pipes /\ ~Flappy!NoPipe.scored /\ ~Flappy!NoPipe.active
  BY DEF Flappy!NoPipe, Pipes
<1>8. ASSUME NEW p \in Pipes, p.scored <=> p.active /\ Flappy!Passed(p), NEW q, q = Flappy!MovePipe(p)
      PROVE  /\ q \in Pipes /\ (q.scored <=> q.active /\ Flappy!Passed(q))
             /\ q.active <=> p.active /\ p.x - 1 + PIPE_WIDTH >= 0
             /\ q.active => q.x = p.x - 1
  <2>1. p.x \in Int /\ p.scored \in BOOLEAN /\ p.active \in BOOLEAN /\ p.gap \in GAPS \cup {0}
    BY DEF Pipes
  <2>2. CASE ~p.active
    <3>1. q = p
      BY <1>8, <2>2 DEF Flappy!MovePipe
    <3> QED
      BY <1>8, <2>2, <3>1
  <2>3. CASE p.active /\ p.x - 1 + PIPE_WIDTH < 0
    <3> DEFINE r == [p EXCEPT !.x = @ - 1]
    <3>1. r.x = p.x - 1
      BY DEF Pipes
    <3>2. q = Flappy!NoPipe
      BY <1>8, <2>3, <3>1 DEF Flappy!MovePipe
    <3>3. ~(p.x - 1 + PIPE_WIDTH >= 0)
      BY <2>1, <2>3 DEF FlappyScreen
    <3> QED
      BY <1>7, <3>2, <3>3
  <2>4. CASE p.active /\ ~(p.x - 1 + PIPE_WIDTH < 0)
    <3> DEFINE r == [p EXCEPT !.x = @ - 1]
               y == (p.scored \/ Flappy!Passed(r))
    <3>1. /\ r \in Pipes /\ r.x = p.x - 1 /\ r.scored = p.scored /\ r.active = p.active
      BY <2>1 DEF Pipes
    <3>2. q = [r EXCEPT !.scored = y]
      <4>1. q = [r EXCEPT !.scored = @ \/ Flappy!Passed(r)]
        BY <1>8, <2>4, <3>1 DEF Flappy!MovePipe
      <4> HIDE DEF r
      <4> QED
        BY <3>1, <4>1
    <3>3. Flappy!Passed(p) => Flappy!Passed(r)
      BY <2>1, <3>1 DEF Flappy!Passed, FlappyScreen
    <3>4. y \in BOOLEAN
      BY <2>1, Zenon DEF Flappy!Passed
    <3>5. y <=> Flappy!Passed(r)
      BY <1>8, <3>3, Zenon
    <3> HIDE DEF r, y
    <3>6. /\ q \in Pipes /\ q.x = p.x - 1 /\ q.scored = y /\ q.active = p.active
      BY <3>1, <3>2, <3>4 DEF Pipes
    <3>7. Flappy!Passed(q) <=> Flappy!Passed(r)
      BY <3>1, <3>6 DEF Flappy!Passed
    <3>8. p.x - 1 + PIPE_WIDTH >= 0
      BY <2>1, <2>4 DEF FlappyScreen
    <3> QED
      BY <2>4, <3>5, <3>6, <3>7, <3>8, Zenon
  <2> QED
    BY <2>2, <2>3, <2>4
<1>9. \A i \in Flappy!Slots : pipes[i].scored <=> pipes[i].active /\ Flappy!Passed(pipes[i])
  BY DEF Evenly
<1>10. \A i \in Flappy!Slots :
         /\ moved[i] \in Pipes /\ (moved[i].scored <=> moved[i].active /\ Flappy!Passed(moved[i]))
         /\ moved[i].active <=> pipes[i].active /\ pipes[i].x - 1 + PIPE_WIDTH >= 0
         /\ moved[i].active => moved[i].x = pipes[i].x - 1
  <2> SUFFICES ASSUME NEW i \in Flappy!Slots
               PROVE  /\ moved[i] \in Pipes
                      /\ moved[i].scored <=> moved[i].active /\ Flappy!Passed(moved[i])
                      /\ moved[i].active <=> pipes[i].active /\ pipes[i].x - 1 + PIPE_WIDTH >= 0
                      /\ moved[i].active => moved[i].x = pipes[i].x - 1
    OBVIOUS
  <2> QED
    BY <1>6, <1>8, <1>9
<1>11. moved \in [Flappy!Slots -> Pipes]
  BY <1>10
<1>12. \A i : i \in Flappy!Used(moved)
              <=> i \in Flappy!Used(pipes) /\ pipes[i].x - 1 + PIPE_WIDTH >= 0
  BY <1>10 DEF Flappy!Used
<1>13. \A i \in Flappy!Used(moved) : moved[i].x = pipes[i].x - 1 /\ i \in Flappy!Used(pipes)
  BY <1>10, <1>12 DEF Flappy!Used
<1>14. \A i \in Flappy!Used(moved) : \E k \in 0..(l - 1) : moved[i].x = Place(b, k)
  <2> SUFFICES ASSUME NEW i \in Flappy!Used(moved)
               PROVE  \E k \in 0..(l - 1) : moved[i].x = Place(b, k)
    OBVIOUS
  <2>1. PICK k \in 0..(n - 1) : pipes[i].x = Place(m, k)
    BY <1>13 DEF Evenly
  <2>2. k >= d /\ k \in Int
    BY <1>4, <1>12, <2>1
  <2>3. k - d \in 0..(l - 1) /\ k - d \in Int /\ (k - d) + d = k
    BY <1>1, <1>2, <2>2
  <2>4. Place(b, k - d) = Place(m, k) - 1
    BY <1>3, <2>3
  <2> QED
    BY <1>13, <2>1, <2>3, <2>4
<1>15. \A k \in 0..(l - 1) : \E i \in Flappy!Used(moved) : moved[i].x = Place(b, k)
  <2> SUFFICES ASSUME NEW k \in 0..(l - 1)
               PROVE  \E i \in Flappy!Used(moved) : moved[i].x = Place(b, k)
    OBVIOUS
  <2>1. k + d \in 0..(n - 1) /\ k + d >= d /\ k \in Int
    BY <1>1, <1>2, <1>5
  <2>2. PICK i \in Flappy!Used(pipes) : pipes[i].x = Place(m, k + d)
    BY <2>1 DEF Evenly
  <2>3. i \in Flappy!Used(moved)
    BY <1>4, <1>12, <2>1, <2>2
  <2>4. moved[i].x = Place(m, k + d) - 1
    BY <1>13, <2>2, <2>3
  <2> QED
    BY <1>3, <2>1, <2>3, <2>4
<1>16. \A i, j \in Flappy!Used(moved) : moved[i].x = moved[j].x => i = j
  <2> SUFFICES ASSUME NEW i \in Flappy!Used(moved), NEW j \in Flappy!Used(moved),
                      moved[i].x = moved[j].x
               PROVE  i = j
    OBVIOUS
  <2>1. pipes[i].x \in Int /\ pipes[j].x \in Int
    BY <1>6, <1>13 DEF Flappy!Used, Pipes
  <2>2. pipes[i].x = pipes[j].x
    BY <1>13, <2>1
  <2> QED
    BY <1>13, <2>2 DEF Evenly
<1>17. b + PIPE_WIDTH >= 0
  <2>1. 0 \in Int /\ 0 \in 0..(l - 1) /\ 0 + d = d
    BY <1>2, <1>5
  <2>2. d \in 0..(n - 1) /\ d >= d
    BY <1>1, <1>2, <1>5
  <2>3. Place(m, d) - 1 + PIPE_WIDTH >= 0
    BY <1>4, <2>2
  <2> QED
    BY <2>3 DEF b
<1>18. Evenly(moved, b, l)
  <2>1. b \in Int /\ l \in Nat
    BY <1>2, <1>5
  <2> HIDE DEF l
  <2>2. \A i \in Flappy!Slots : moved[i].scored <=> moved[i].active /\ Flappy!Passed(moved[i])
    BY <1>10
  <2> QED
    BY <1>11, <1>14, <1>15, <1>16, <1>17, <2>1, <2>2 DEF Evenly
<1> QED
  BY <1>5, <1>18

(* The rightmost pipe is the last one that came.                           *)
LEMMA RightmostPlace ==
    ASSUME FlappyScreen, NEW pipes, NEW m, NEW n, Evenly(pipes, m, n), n > 0,
           Place(m, n - 1) >= 0
    PROVE  Flappy!Rightmost(pipes) = Place(m, n - 1)
<1> DEFINE last == Place(m, n - 1)
           xs == {pipes[i].x : i \in Flappy!Used(pipes)}
<1>1. m \in Int /\ n \in Nat
  BY DEF Evenly
<1>2. last \in Int
  BY <1>1, Places
<1>3. last \in xs
  <2>1. n - 1 \in 0..(n - 1)
    BY <1>1
  <2> QED
    BY <2>1 DEF Evenly
<1>4. \A k \in 0..(n - 1) : Place(m, k) \in Int /\ Place(m, k) <= last
  <2> SUFFICES ASSUME NEW k \in 0..(n - 1) PROVE Place(m, k) \in Int /\ Place(m, k) <= last
    OBVIOUS
  <2>1. k \in Int /\ n - 1 \in Int /\ (k = n - 1 \/ k < n - 1)
    BY <1>1
  <2>2. Place(m, k) \in Int
    BY <1>1, <2>1, Places
  <2>3. CASE k = n - 1
    BY <1>2, <2>3
  <2>4. CASE k < n - 1
    <3>1. Place(m, k) + PIPE_SPACING <= last
      <4>1. \A j, i \in Int : j < i => Place(m, j) + PIPE_SPACING <= Place(m, i)
        BY <1>1, Places
      <4> QED
        BY <2>1, <2>4, <4>1
    <3>2. PIPE_SPACING \in Nat
      BY DEF FlappyScreen
    <3> HIDE DEF last
    <3> QED
      BY <1>2, <2>2, <3>1, <3>2
  <2> QED
    BY <2>1, <2>3, <2>4
<1>5. \A x \in xs : x \in Int /\ x <= last
  BY <1>4 DEF Evenly
<1> HIDE DEF last, xs
<1>6. \A x \in {0} \cup xs : x \in Int /\ x <= last
  BY <1>2, <1>5 DEF last
<1>7. \A x \in {0} \cup xs : (\A y \in {0} \cup xs : x >= y) => x = last
  BY <1>2, <1>3, <1>6
<1>8. \A y \in {0} \cup xs : last >= y
  BY <1>2, <1>6
<1>9. Flappy!Max({0} \cup xs) = last
  BY <1>3, <1>7, <1>8 DEF Flappy!Max
<1> QED
  BY <1>9 DEF Flappy!Rightmost, xs, last

(* The table has room for the next pipe whenever that is due.              *)
LEMMA TableHasRoom ==
    ASSUME FlappyScreen, NEW pipes, NEW m, NEW n, Evenly(pipes, m, n), n > 0,
           Place(m, n - 1) < FLAPPY_SCREEN_W - PIPE_SPACING + PIPE_WIDTH
    PROVE  Flappy!Used(pipes) # Flappy!Slots
<1> SUFFICES ASSUME Flappy!Used(pipes) = Flappy!Slots PROVE FALSE
  OBVIOUS
<1>1. m \in Int /\ n \in Nat /\ m + PIPE_WIDTH >= 0
  BY DEF Evenly
<1>2. n = MAX_PIPES
  <2>1. Cardinality(Flappy!Used(pipes)) = n
    BY EvenPlaces
  <2>2. Cardinality(Flappy!Slots) = IF 1 > MAX_PIPES THEN 0 ELSE MAX_PIPES - 1 + 1
    <3>1. MAX_PIPES \in Int /\ 1 \in Int
      BY DEF FlappyScreen
    <3> QED
      BY <3>1, FS_Interval DEF Flappy!Slots
  <2> QED
    BY <2>1, <2>2 DEF FlappyScreen
<1> DEFINE p == n * PIPE_SPACING
<1>3. p \in Int /\ (n - 1) * PIPE_SPACING = p - PIPE_SPACING /\ PIPE_SPACING * MAX_PIPES = p
  BY <1>1, <1>2 DEF FlappyScreen
<1>4. Place(m, n - 1) = m + (p - PIPE_SPACING) /\ p >= FLAPPY_SCREEN_W + 2 * PIPE_WIDTH
  BY <1>3 DEF Place, FlappyScreen
<1> HIDE DEF p
<1>5. FLAPPY_SCREEN_W \in Int /\ PIPE_WIDTH \in Int /\ PIPE_SPACING \in Int
  BY DEF FlappyScreen
<1>6. m + (p - PIPE_SPACING) < FLAPPY_SCREEN_W - PIPE_SPACING + PIPE_WIDTH
  BY <1>4
<1> QED
  BY <1>1, <1>3, <1>4, <1>5, <1>6

(* The pipes a game begins with.                                           *)
LEMMA FlappyStarts ==
    ASSUME FlappyScreen, NEW p \in Flappy!FirstPipes
    PROVE  \E m, n : Evenly(p, m, n) /\ ToCome(m, n)
<1> DEFINE none == [i \in Flappy!Slots |-> Flappy!NoPipe]
           G(S, n) == UNION {Flappy!spawn_pipe(q, FLAPPY_SCREEN_W + (n - 1) * PIPE_SPACING) : q \in S}
<1>1. Evenly(none, FLAPPY_SCREEN_W, 0)
  <2>1. none \in [Flappy!Slots -> Pipes]
    BY DEF Flappy!NoPipe, Pipes
  <2>2. \A i \in Flappy!Slots : ~none[i].active /\ ~none[i].scored
    BY DEF Flappy!NoPipe
  <2>3. Flappy!Used(none) = {}
    BY <2>2 DEF Flappy!Used
  <2>4. FLAPPY_SCREEN_W \in Int /\ 0 \in Nat /\ FLAPPY_SCREEN_W + PIPE_WIDTH >= 0 /\ 0..(0 - 1) = {}
    BY DEF FlappyScreen
  <2> HIDE DEF none
  <2> QED
    BY <2>1, <2>2, <2>3, <2>4 DEF Evenly
<1>2. FirstEvenly(none, {none}, 0)
  BY <1>1 DEF FirstEvenly
<1>3. \A n \in 1..FIRST_PIPES : \A S : FirstEvenly(none, S, n - 1) => FirstEvenly(none, G(S, n), n)
  <2> SUFFICES ASSUME NEW n \in 1..FIRST_PIPES, NEW S, FirstEvenly(none, S, n - 1), NEW q \in S,
                      NEW r \in Flappy!spawn_pipe(q, FLAPPY_SCREEN_W + (n - 1) * PIPE_SPACING)
               PROVE  Evenly(r, FLAPPY_SCREEN_W, n)
    BY DEF FirstEvenly
  <2>1. Evenly(q, FLAPPY_SCREEN_W, n - 1)
    BY DEF FirstEvenly
  <2>2. n \in Int /\ n - 1 \in Int /\ 0 <= n - 1 /\ n - 1 < MAX_PIPES /\ (n - 1) + 1 = n
        /\ FLAPPY_SCREEN_W \in Int
    BY DEF FlappyScreen
  <2>3. Flappy!Used(q) # Flappy!Slots
    <3> SUFFICES ASSUME Flappy!Used(q) = Flappy!Slots PROVE FALSE
      OBVIOUS
    <3>1. Cardinality(Flappy!Used(q)) = n - 1
      BY <2>1, EvenPlaces
    <3>2. Cardinality(Flappy!Slots) = IF 1 > MAX_PIPES THEN 0 ELSE MAX_PIPES - 1 + 1
      <4>1. MAX_PIPES \in Int /\ 1 \in Int
        BY DEF FlappyScreen
      <4> QED
        BY <4>1, FS_Interval DEF Flappy!Slots
    <3> QED
      BY <2>2, <3>1, <3>2 DEF FlappyScreen
  <2>4. Place(FLAPPY_SCREEN_W, n - 1) + PIPE_WIDTH >= BIRD_X_POS
    <3>1. Place(FLAPPY_SCREEN_W, n - 1) \in Int /\ Place(FLAPPY_SCREEN_W, 0) = FLAPPY_SCREEN_W
      BY <2>2, Places
    <3>2. 0 < n - 1 => FLAPPY_SCREEN_W + PIPE_SPACING <= Place(FLAPPY_SCREEN_W, n - 1)
      <4>1. \A j, i \in Int : j < i => Place(FLAPPY_SCREEN_W, j) + PIPE_SPACING <= Place(FLAPPY_SCREEN_W, i)
        BY <2>2, Places
      <4>2. 0 \in Int
        OBVIOUS
      <4> QED
        BY <2>2, <3>1, <4>1, <4>2
    <3>3. Place(FLAPPY_SCREEN_W, n - 1) >= FLAPPY_SCREEN_W
      <4>1. 0 = n - 1 \/ 0 < n - 1
        BY <2>2
      <4>2. CASE 0 = n - 1
        BY <2>2, <3>1, <4>2
      <4>3. CASE 0 < n - 1
        BY <2>2, <3>1, <3>2, <4>3 DEF FlappyScreen
      <4> QED
        BY <4>1, <4>2, <4>3
    <3> QED
      BY <3>1, <3>3 DEF FlappyScreen
  <2>5. r \in Flappy!spawn_pipe(q, Place(FLAPPY_SCREEN_W, n - 1))
    BY DEF Place
  <2>6. Evenly(r, FLAPPY_SCREEN_W, (n - 1) + 1)
    BY <2>1, <2>3, <2>4, <2>5, Spawns
  <2> QED
    BY <2>2, <2>6
<1>4. FIRST_PIPES \in Nat
  BY DEF FlappyScreen
<1>5. FirstEvenly(none, FlappyFirst!Loop({none}, FIRST_PIPES), FIRST_PIPES)
  <2> HIDE DEF none
  <2> QED
    BY <1>2, <1>3, <1>4, FlappyFirst!Kept, HasLeast
<1>6. Flappy!FirstPipes = FlappyFirst!Loop({none}, FIRST_PIPES)
  BY DEF Flappy!FirstPipes, FlappyFirst!Loop
<1>7. Evenly(p, FLAPPY_SCREEN_W, FIRST_PIPES)
  BY <1>5, <1>6 DEF FirstEvenly
<1>8. ToCome(FLAPPY_SCREEN_W, FIRST_PIPES)
  <2>1. FLAPPY_SCREEN_W \in Int /\ FIRST_PIPES \in Int /\ FIRST_PIPES > 0 /\ FIRST_PIPES - 1 \in Nat
    BY DEF FlappyScreen
  <2> DEFINE t == (FIRST_PIPES - 1) * PIPE_SPACING
  <2>2. t \in Nat
    BY <2>1 DEF FlappyScreen
  <2>3. Place(FLAPPY_SCREEN_W, FIRST_PIPES - 1) = FLAPPY_SCREEN_W + t
    BY DEF Place
  <2> HIDE DEF t
  <2> QED
    BY <2>1, <2>2, <2>3 DEF ToCome, FlappyScreen
<1> QED
  BY <1>7, <1>8

(* A new game keeps the best score.                                        *)
LEMMA FlappyRestarts ==
    ASSUME FlappyScreen, NEW g, FlappyKept(g), NEW h \in Flappy!game_restart(g)
    PROVE  FlappyKept(h)
<1>1. PICK p \in Flappy!FirstPipes : h = [Flappy!game_init(p) EXCEPT !.high_score = Flappy!Best(g)]
  BY DEF Flappy!game_restart
<1>2. /\ DOMAIN h = FlappyFields /\ h.y = GROUND_Y \div 2 /\ h.vy = 0 /\ h.pipes = p
      /\ h.score = 0 /\ h.high_score = Flappy!Best(g) /\ h.over = FALSE /\ h.death_timer = 0
  BY <1>1 DEF Flappy!game_init, FlappyFields
<1>3. GROUND_Y \div 2 \in Int /\ 0 \in FLAP_VELOCITY..FLAPPY_FALL_SPEED /\ 0 \in 0..DEATH
  BY DEF FlappyScreen
<1>4. Flappy!Best(g) \in Nat
  BY DEF Flappy!Best, FlappyKept
<1>5. \E m, n : Evenly(h.pipes, m, n) /\ ToCome(m, n)
  BY <1>2, FlappyStarts
<1> QED
  BY <1>2, <1>3, <1>4, <1>5 DEF FlappyKept

(* The pipes move on, the first one goes, and a new one comes.             *)
LEMMA FlappyMoves ==
    ASSUME FlappyScreen, NEW g, FlappyKept(g), ~g.over, NEW h \in Flappy!MovePipes(g)
    PROVE  FlappyKept(h)
<1> DEFINE moved == [i \in Flappy!Slots |-> Flappy!MovePipe(g.pipes[i])]
           w == [g EXCEPT !.pipes = moved, !.score = @ + Flappy!Points(g.pipes, moved)]
           last == Flappy!Rightmost(moved)
<1>1. PICK m, n : Evenly(g.pipes, m, n) /\ ToCome(m, n)
  BY DEF FlappyKept
<1>2. PICK b, l : /\ Evenly(moved, b, l) /\ l > 0
                  /\ Place(b, l - 1) = Place(m, n - 1) - 1
  <2> HIDE DEF moved
  <2> SUFFICES \E b, l : /\ Evenly(moved, b, l) /\ l > 0
                         /\ Place(b, l - 1) = Place(m, n - 1) - 1
    OBVIOUS
  <2>1. moved = [i \in Flappy!Slots |-> Flappy!MovePipe(g.pipes[i])]
    BY DEF moved
  <2> QED
    BY <1>1, <2>1, Moves
<1>3. Flappy!Points(g.pipes, moved) \in Nat
  <2> DEFINE counted == {i \in Flappy!Slots : moved[i].scored /\ ~g.pipes[i].scored}
  <2>1. IsFiniteSet(Flappy!Slots) /\ counted \subseteq Flappy!Slots
    BY FS_Interval DEF Flappy!Slots, FlappyScreen
  <2>2. Flappy!Points(g.pipes, moved) = Cardinality(counted)
    BY SameCardinalities DEF Flappy!Points
  <2> HIDE DEF counted
  <2> QED
    BY <2>1, <2>2, FS_Subset, FS_CardinalityType
<1>4. /\ DOMAIN w = FlappyFields /\ w.y = g.y /\ w.vy = g.vy /\ w.pipes = moved
      /\ w.score = g.score + Flappy!Points(g.pipes, moved) /\ w.high_score = g.high_score
      /\ w.over = g.over /\ w.death_timer = g.death_timer
  BY DEF FlappyKept, FlappyFields
<1>5. CASE ~(last < FLAPPY_SCREEN_W - PIPE_SPACING + PIPE_WIDTH)
  <2>1. h = w
    BY <1>5 DEF Flappy!MovePipes
  <2> HIDE DEF moved, w, last
  <2>2. last = Place(b, l - 1)
    <3>1. Place(b, l - 1) >= 0
      <4>1. m \in Int /\ n - 1 \in Int
        BY <1>1 DEF Evenly
      <4>2. Place(m, n - 1) \in Int /\ Place(m, n - 1) >= FLAPPY_SCREEN_W - PIPE_SPACING + PIPE_WIDTH
        BY <1>1, <4>1, Places DEF ToCome
      <4> QED
        BY <1>2, <4>2 DEF FlappyScreen
    <3> QED
      BY <1>2, <3>1, RightmostPlace DEF last
  <2>3. Place(b, l - 1) \in Int
    <3>1. b \in Int /\ l - 1 \in Int
      BY <1>2 DEF Evenly
    <3> QED
      BY <3>1, Places
  <2>4. ToCome(b, l)
    BY <1>2, <1>5, <2>2, <2>3 DEF ToCome, FlappyScreen
  <2>5. \E c, d : Evenly(w.pipes, c, d) /\ ToCome(c, d)
    BY <1>2, <1>4, <2>4
  <2> QED
    BY <1>3, <1>4, <2>1, <2>5 DEF FlappyKept
<1>6. CASE last < FLAPPY_SCREEN_W - PIPE_SPACING + PIPE_WIDTH
  <2>1. PICK p \in Flappy!spawn_pipe(moved, last + PIPE_SPACING) : h = [w EXCEPT !.pipes = p]
    BY <1>6 DEF Flappy!MovePipes
  <2> HIDE DEF moved, w, last
  <2>2. b \in Int /\ l \in Nat /\ l - 1 \in Int /\ (l - 1) + 1 = l /\ Place(b, l - 1) \in Int
        /\ l + 1 \in Nat /\ (l + 1) - 1 = l
    <3>1. b \in Int /\ l \in Nat
      BY <1>2 DEF Evenly
    <3> QED
      BY <3>1, Places
  <2>3. Place(m, n - 1) \in Int /\ Place(m, n - 1) >= FLAPPY_SCREEN_W - PIPE_SPACING + PIPE_WIDTH
    <3>1. m \in Int /\ n - 1 \in Int
      BY <1>1 DEF Evenly
    <3> QED
      BY <1>1, <3>1, Places DEF ToCome
  <2>4. last = Place(b, l - 1)
    <3>1. Place(b, l - 1) >= 0
      BY <1>2, <2>3 DEF FlappyScreen
    <3> QED
      BY <1>2, <3>1, RightmostPlace DEF last
  <2>5. Flappy!Used(moved) # Flappy!Slots
    BY <1>2, <1>6, <2>4, TableHasRoom
  <2>6. Place(b, l) = last + PIPE_SPACING
    <3>1. \A k \in Int : Place(b, k + 1) = Place(b, k) + PIPE_SPACING
      BY <2>2, Places
    <3> QED
      BY <2>2, <2>4, <3>1
  <2>7. Place(b, l) >= FLAPPY_SCREEN_W /\ Place(b, l) \in Int
    BY <1>2, <2>2, <2>3, <2>4, <2>6 DEF FlappyScreen
  <2>8. Evenly(p, b, l + 1)
    <3>1. Place(b, l) + PIPE_WIDTH >= BIRD_X_POS
      BY <2>7 DEF FlappyScreen
    <3> QED
      BY <1>2, <2>1, <2>5, <2>6, <3>1, Spawns
  <2>9. ToCome(b, l + 1)
    BY <2>2, <2>7 DEF ToCome, FlappyScreen
  <2>10. /\ DOMAIN h = FlappyFields /\ h.y = g.y /\ h.vy = g.vy /\ h.pipes = p
         /\ h.score = g.score + Flappy!Points(g.pipes, moved) /\ h.high_score = g.high_score
         /\ h.over = g.over /\ h.death_timer = g.death_timer
    BY <1>4, <2>1 DEF FlappyFields
  <2>11. \E c, d : Evenly(h.pipes, c, d) /\ ToCome(c, d)
    BY <2>8, <2>9, <2>10
  <2> QED
    BY <1>3, <2>10, <2>11 DEF FlappyKept
<1> QED
  BY <1>5, <1>6

(* Every step of the game keeps the invariant.                             *)
LEMMA FlappyStep == ASSUME FlappyScreen, FlappyInv, Flappy!Next PROVE FlappyInv'
<1>1. PICK flap \in BOOLEAN : game' \in Flappy!game_update(game, flap)
  BY DEF Flappy!Next, Flappy!Update
<1>2. FlappyKept(game)
  BY DEF FlappyInv
<1>3. CASE game.over
  <2>1. game' \in Flappy!Dead(game, flap)
    BY <1>1, <1>3 DEF Flappy!game_update
  <2>2. CASE game' \in Flappy!game_restart(game)
    BY <1>2, <2>2, FlappyRestarts DEF FlappyInv
  <2>3. CASE game' = [game EXCEPT !.death_timer = IF @ < DEATH THEN @ + 1 ELSE @]
    <3>1. /\ DOMAIN game' = FlappyFields /\ game'.y = game.y /\ game'.vy = game.vy
          /\ game'.pipes = game.pipes /\ game'.score = game.score
          /\ game'.high_score = game.high_score /\ game'.over = game.over
          /\ game'.death_timer = IF game.death_timer < DEATH THEN game.death_timer + 1
                                                             ELSE game.death_timer
      BY <1>2, <2>3 DEF FlappyKept, FlappyFields
    <3>2. game'.death_timer \in 0..DEATH
      BY <1>2, <3>1 DEF FlappyKept, FlappyScreen
    <3> QED
      BY <1>2, <3>1, <3>2 DEF FlappyInv, FlappyKept
  <2> QED
    BY <2>1, <2>2, <2>3 DEF Flappy!Dead
<1>4. CASE ~game.over /\ ~game.started
  <2>1. CASE game' = game
    BY <1>2, <2>1 DEF FlappyInv
  <2>2. CASE game' = [game EXCEPT !.started = TRUE, !.vy = FLAP_VELOCITY]
    <3>1. /\ DOMAIN game' = FlappyFields /\ game'.y = game.y /\ game'.vy = FLAP_VELOCITY
          /\ game'.pipes = game.pipes /\ game'.score = game.score
          /\ game'.high_score = game.high_score /\ game'.over = game.over
          /\ game'.death_timer = game.death_timer
      BY <1>2, <2>2 DEF FlappyKept, FlappyFields
    <3>2. FLAP_VELOCITY \in FLAP_VELOCITY..FLAPPY_FALL_SPEED
      BY DEF FlappyScreen
    <3> QED
      BY <1>2, <3>1, <3>2 DEF FlappyInv, FlappyKept
  <2> QED
    BY <1>1, <1>4, <2>1, <2>2 DEF Flappy!game_update
<1>5. CASE ~game.over /\ game.started
  <2> DEFINE g == Flappy!MoveBird(game, flap)
  <2>1. PICK h \in Flappy!MovePipes(g) : game' = Flappy!Collide(h)
    BY <1>1, <1>5 DEF Flappy!game_update
  <2>2. FlappyKept(g) /\ ~g.over
    <3> DEFINE v == (IF flap THEN FLAP_VELOCITY ELSE game.vy) + GRAVITY
               vy == IF v > FLAPPY_FALL_SPEED THEN FLAPPY_FALL_SPEED ELSE v
    <3>1. g = [game EXCEPT !.vy = vy, !.y = @ + vy]
      BY DEF Flappy!MoveBird
    <3>2. vy \in FLAP_VELOCITY..FLAPPY_FALL_SPEED /\ game.y + vy \in Int
      BY <1>2 DEF FlappyKept, FlappyScreen
    <3> HIDE DEF g, vy
    <3>3. /\ DOMAIN g = FlappyFields /\ g.y = game.y + vy /\ g.vy = vy
          /\ g.pipes = game.pipes /\ g.score = game.score
          /\ g.high_score = game.high_score /\ g.over = game.over
          /\ g.death_timer = game.death_timer
      BY <1>2, <3>1 DEF FlappyKept, FlappyFields
    <3> QED
      BY <1>2, <1>5, <3>2, <3>3 DEF FlappyKept
  <2> HIDE DEF g
  <2>3. FlappyKept(h)
    BY <2>1, <2>2, FlappyMoves
  <2>4. CASE game' = h
    BY <2>3, <2>4 DEF FlappyInv
  <2>5. CASE game' = [h EXCEPT !.over = TRUE, !.high_score = Flappy!Best(h)]
    <3>1. /\ DOMAIN game' = FlappyFields /\ game'.y = h.y /\ game'.vy = h.vy
          /\ game'.pipes = h.pipes /\ game'.score = h.score
          /\ game'.high_score = Flappy!Best(h) /\ game'.death_timer = h.death_timer
      BY <2>3, <2>5 DEF FlappyKept, FlappyFields
    <3>2. Flappy!Best(h) \in Nat /\ Flappy!Best(h) >= h.score
      BY <2>3 DEF Flappy!Best, FlappyKept
    <3> QED
      BY <2>3, <3>1, <3>2 DEF FlappyInv, FlappyKept
  <2> QED
    BY <2>1, <2>4, <2>5 DEF Flappy!Collide
<1> QED
  BY <1>3, <1>4, <1>5

(* The invariant holds when a game begins.                                 *)
LEMMA FlappyInit == ASSUME FlappyScreen, Flappy!Init PROVE FlappyInv
<1>1. PICK p \in Flappy!FirstPipes : game = Flappy!game_init(p)
  BY DEF Flappy!Init
<1>2. /\ DOMAIN game = FlappyFields /\ game.y = GROUND_Y \div 2 /\ game.vy = 0 /\ game.pipes = p
      /\ game.score = 0 /\ game.high_score = 0 /\ game.over = FALSE /\ game.death_timer = 0
  BY <1>1 DEF Flappy!game_init, FlappyFields
<1>3. GROUND_Y \div 2 \in Int /\ 0 \in FLAP_VELOCITY..FLAPPY_FALL_SPEED /\ 0 \in 0..DEATH
  BY DEF FlappyScreen
<1>4. \E m, n : Evenly(game.pipes, m, n) /\ ToCome(m, n)
  BY <1>2, FlappyStarts
<1> QED
  BY <1>2, <1>3, <1>4 DEF FlappyInv, FlappyKept

(* The pipes of drm-flappy.c come at even distances for ever, whichever    *)
(* entries of the table are free, and one is always to come; each is       *)
(* counted once, when it is passed.                                        *)
THEOREM FlappyCorrect ==
    ASSUME FlappyScreen
    PROVE  Flappy!Spec => [](Flappy!TypeOK /\ Flappy!PipesEven /\ Flappy!CountedOnce)
<1>1. Flappy!Init => FlappyInv
  BY FlappyInit
<1>2. FlappyInv /\ [Flappy!Next]_game => FlappyInv'
  BY FlappyStep DEF FlappyInv
<1>3. FlappyInv => Flappy!TypeOK /\ Flappy!PipesEven /\ Flappy!CountedOnce
  <2> SUFFICES ASSUME FlappyInv
               PROVE  Flappy!TypeOK /\ Flappy!PipesEven /\ Flappy!CountedOnce
    OBVIOUS
  <2>1. PICK m, n : Evenly(game.pipes, m, n) /\ ToCome(m, n)
    BY DEF FlappyInv, FlappyKept
  <2>2. Flappy!TypeOK
    BY <2>1 DEF FlappyInv, FlappyKept, Flappy!TypeOK, Evenly, Pipes
  <2>3. Flappy!PipesEven
    <3> DEFINE U == Flappy!Used(game.pipes)
               xs == {game.pipes[i].x : i \in U}
    <3>1. /\ Cardinality(xs) = n /\ Cardinality(U) = n
          /\ n > 0 => Flappy!Min(xs) = m /\ Flappy!Max(xs) = Place(m, n - 1)
      BY <2>1, EvenPlaces
    <3>2. Flappy!Cardinality(xs) = n /\ Flappy!Cardinality(U) = n
      BY <3>1, SameCardinalities
    <3>3. m \in Int /\ n \in Nat /\ n > 0
      BY <2>1 DEF Evenly, ToCome
    <3> DEFINE p == (n - 1) * PIPE_SPACING
    <3>4. p \in Int /\ PIPE_SPACING * (n - 1) = p
      BY <3>3 DEF FlappyScreen
    <3>5. Place(m, n - 1) = m + p /\ Place(m, n - 1) >= FLAPPY_SCREEN_W - PIPE_SPACING + PIPE_WIDTH
      BY <2>1 DEF Place, ToCome
    <3> HIDE DEF p, xs, U
    <3>6. Flappy!Max(xs) - Flappy!Min(xs) = p
      BY <3>1, <3>3, <3>4, <3>5
    <3> QED
      BY <3>1, <3>2, <3>3, <3>4, <3>5, <3>6 DEF Flappy!PipesEven, xs, U
  <2>4. Flappy!CountedOnce
    BY <2>1 DEF Flappy!CountedOnce, FlappyInv, FlappyKept, Evenly, Flappy!Used
  <2> QED
    BY <2>2, <2>3, <2>4
<1> QED
  BY <1>1, <1>2, <1>3, PTL DEF Flappy!Spec

-----------------------------------------------------------------------------
(* Invaders.                                                               *)
InvadersFields ==
    {"alive", "offset_x", "offset_y", "direction", "move_timer", "move_delay", "bullets",
     "alien_bullets", "shields", "ship", "cooldown", "lives", "level", "paused", "over"}

Shots(n) == [1..n -> Int \X Int]

(* The formation is inside the screen.                                     *)
Inside(g) ==
    \A a \in g.alive : Invaders!AlienX(g, a) >= 0 /\ Invaders!AlienX(g, a) + ALIEN_WIDTH <= SCREEN_W

InvadersTable(g) ==
    /\ DOMAIN g = InvadersFields
    /\ g.alive \subseteq Invaders!Aliens /\ g.shields \subseteq SHIELD
    /\ g.bullets \in Shots(INVADERS_BULLETS) /\ g.alien_bullets \in Shots(MAX_ALIEN_BULLETS)
    /\ g.direction \in {-1, 1} /\ g.ship \in Invaders!ShipX
    /\ g.move_delay \in ALIEN_MIN_DELAY..ALIEN_INITIAL_DELAY
    /\ g.move_timer \in Nat /\ g.lives \in Int /\ g.level \in Nat \ {0}
    /\ g.offset_x \in Int /\ g.offset_y \in Int
    /\ Inside(g)

(* What every part of a pass keeps.                                        *)
InvadersKept(g) == InvadersTable(g) /\ (g.over <=> g.lives <= 0)

InvadersInv ==
    /\ InvadersTable(game)
    /\ game.over => game.lives <= 0 \/ Invaders!Reached(game)
    /\ game.lives <= 0 => game.over
    /\ game.alive # {}

ShotKept(c, g, i) == InvadersKept(g)

AlienHits == INSTANCE Loops WITH Step <- Invaders!BulletMeets, Holds <- ShotKept
ShieldHits == INSTANCE Loops WITH Step <- Invaders!BulletShield, Holds <- ShotKept
ShipHits == INSTANCE Loops WITH Step <- Invaders!AlienBulletMeets, Holds <- ShotKept

(* Where the aliens are in their formation.                                *)
LEMMA AlienPlaces ==
    ASSUME InvadersScreen
    PROVE  /\ Invaders!Aliens # {} /\ IsFiniteSet(Invaders!Aliens)
           /\ Cardinality(Invaders!Aliens) = ALIEN_ROWS * ALIEN_COLS
           /\ \A a \in Invaders!Aliens :
                 /\ a[1] * ALIEN_SPACING_Y \in Int /\ a[2] * ALIEN_SPACING_X \in Nat
                 /\ a[2] * ALIEN_SPACING_X <= (ALIEN_COLS - 1) * ALIEN_SPACING_X
<1> DEFINE R == 0..(ALIEN_ROWS - 1)
           C == 0..(ALIEN_COLS - 1)
<1>1. 0 \in R /\ 0 \in C
  BY DEF InvadersScreen
<1>2. IsFiniteSet(R) /\ Cardinality(R) = ALIEN_ROWS
  <2>1. 0 \in Int /\ ALIEN_ROWS - 1 \in Int /\ ~(0 > ALIEN_ROWS - 1)
        /\ (ALIEN_ROWS - 1) - 0 + 1 = ALIEN_ROWS
    BY DEF InvadersScreen
  <2> QED
    BY <2>1, FS_Interval
<1>3. IsFiniteSet(C) /\ Cardinality(C) = ALIEN_COLS
  <2>1. 0 \in Int /\ ALIEN_COLS - 1 \in Int /\ ~(0 > ALIEN_COLS - 1)
        /\ (ALIEN_COLS - 1) - 0 + 1 = ALIEN_COLS
    BY DEF InvadersScreen
  <2> QED
    BY <2>1, FS_Interval
<1>4. Invaders!Aliens = R \X C
  BY DEF Invaders!Aliens
<1>5. \A c \in C : c \in Nat /\ c <= ALIEN_COLS - 1
  BY DEF InvadersScreen
<1>6. \A r \in R : r \in Int
  BY DEF InvadersScreen
<1> HIDE DEF R, C
<1>7. IsFiniteSet(R \X C) /\ Cardinality(R \X C) = ALIEN_ROWS * ALIEN_COLS
  BY <1>2, <1>3, FS_Product
<1>8. <<0, 0>> \in R \X C
  BY <1>1
<1>9. ASSUME NEW a \in R \X C
      PROVE  /\ a[1] * ALIEN_SPACING_Y \in Int /\ a[2] * ALIEN_SPACING_X \in Nat
             /\ a[2] * ALIEN_SPACING_X <= (ALIEN_COLS - 1) * ALIEN_SPACING_X
  <2> DEFINE c == a[2]
             m == ALIEN_COLS - 1
             s == ALIEN_SPACING_X
  <2>1. c \in Nat /\ m \in Nat /\ c <= m /\ s \in Nat
    BY <1>5 DEF InvadersScreen
  <2>2. a[1] \in Int /\ ALIEN_SPACING_Y \in Int
    BY <1>6 DEF InvadersScreen
  <2> HIDE DEF c, m, s
  <2>3. c * s \in Nat
    BY <2>1
  <2>4. c * s <= m * s
    <3> DEFINE e == m - c
    <3>1. e \in Nat /\ m = c + e
      BY <2>1
    <3> HIDE DEF e
    <3>2. e * s \in Nat /\ (c + e) * s = c * s + e * s
      BY <2>1, <3>1
    <3> QED
      BY <2>3, <3>1, <3>2
  <2> QED
    BY <2>2, <2>3, <2>4 DEF c, m, s
<1> QED
  BY <1>4, <1>7, <1>8, <1>9

(* A level begins neither slower nor faster than the limits.               *)
LEMMA LevelDelay ==
    ASSUME InvadersScreen, NEW level \in Nat \ {0}
    PROVE  Invaders!StartDelay(level) \in ALIEN_MIN_DELAY..ALIEN_INITIAL_DELAY
<1> DEFINE less == (level - 1) * LEVEL_STEP
<1>1. less \in Nat
  BY DEF InvadersScreen
<1>2. Invaders!StartDelay(level) = IF ALIEN_INITIAL_DELAY - less < ALIEN_MIN_DELAY THEN ALIEN_MIN_DELAY
                                   ELSE ALIEN_INITIAL_DELAY - less
  BY DEF Invaders!StartDelay
<1> HIDE DEF less
<1> QED
  BY <1>1, <1>2 DEF InvadersScreen

(* Nor does a shot alien make the others so.                               *)
LEMMA DelayOfKills ==
    ASSUME InvadersScreen, NEW n \in 0..(ALIEN_ROWS * ALIEN_COLS)
    PROVE  Invaders!KillDelay(n) \in ALIEN_MIN_DELAY..ALIEN_INITIAL_DELAY
<1> DEFINE t == ALIEN_ROWS * ALIEN_COLS
           q == (ALIEN_INITIAL_DELAY * n) \div t
<1>1. t \in Nat /\ t > 0 /\ n \in Nat /\ n <= t /\ ALIEN_INITIAL_DELAY \in Nat
  BY DEF InvadersScreen
<1>2. q \in Int /\ q <= ALIEN_INITIAL_DELAY
  <2> DEFINE d == ALIEN_INITIAL_DELAY
             p == d * n
  <2>1. p \in Nat
    BY <1>1
  <2>2. p <= d * t
    <3> DEFINE e == t - n
    <3>1. e \in Nat /\ t = n + e
      BY <1>1
    <3> HIDE DEF e, t
    <3>2. d * e \in Nat /\ d * (n + e) = d * n + d * e
      BY <1>1, <3>1
    <3> QED
      BY <2>1, <3>1, <3>2
  <2>3. q = p \div t
    OBVIOUS
  <2> HIDE DEF t, p, q
  <2>4. q \in Int /\ q * t <= p
    BY <1>1, <2>1, <2>3
  <2>5. q * t <= d * t
    BY <1>1, <2>1, <2>2, <2>4
  <2>6. q <= d
    <3> SUFFICES ASSUME q >= d + 1 PROVE FALSE
      BY <1>1, <2>4
    <3>1. (d + 1) * t <= q * t
      BY <1>1, <2>4
    <3>2. (d + 1) * t = d * t + t
      BY <1>1
    <3> QED
      BY <1>1, <2>4, <2>5, <3>1, <3>2
  <2> QED
    BY <2>4, <2>6
<1>3. Invaders!KillDelay(n) = IF q < ALIEN_MIN_DELAY THEN ALIEN_MIN_DELAY ELSE q
  BY DEF Invaders!KillDelay
<1> HIDE DEF q
<1> QED
  BY <1>2, <1>3 DEF InvadersScreen

(* A new formation.                                                        *)
LEMMA NewFormation ==
    ASSUME InvadersScreen, NEW g, DOMAIN g = InvadersFields,
           g.level \in Nat \ {0}, g.bullets \in Shots(INVADERS_BULLETS),
           g.alien_bullets \in Shots(MAX_ALIEN_BULLETS), g.ship \in Invaders!ShipX, g.lives \in Int,
           NEW h, h = Invaders!init_shields(Invaders!init_aliens(g))
    PROVE  /\ InvadersTable(h) /\ h.alive # {} /\ h.over = g.over /\ h.lives = g.lives
<1>1. /\ DOMAIN h = InvadersFields /\ h.alive = Invaders!Aliens /\ h.offset_x = START_X
      /\ h.offset_y = START_Y /\ h.direction = 1 /\ h.move_timer = 0
      /\ h.move_delay = Invaders!StartDelay(g.level) /\ h.bullets = g.bullets
      /\ h.alien_bullets = g.alien_bullets /\ h.shields = SHIELD /\ h.ship = g.ship
      /\ h.lives = g.lives /\ h.level = g.level /\ h.over = g.over
  BY DEF Invaders!init_shields, Invaders!init_aliens, InvadersFields
<1>2. ASSUME NEW a \in Invaders!Aliens
      PROVE  Invaders!AlienX(h, a) >= 0 /\ Invaders!AlienX(h, a) + ALIEN_WIDTH <= SCREEN_W
  <2> DEFINE x == a[2] * ALIEN_SPACING_X
             m == (ALIEN_COLS - 1) * ALIEN_SPACING_X
  <2>1. x \in Nat /\ x <= m
    BY AlienPlaces
  <2>2. m \in Int /\ START_X \in Nat /\ START_X + m + ALIEN_WIDTH <= SCREEN_W
        /\ ALIEN_WIDTH \in Nat /\ SCREEN_W \in Nat
    BY DEF InvadersScreen
  <2>3. Invaders!AlienX(h, a) = START_X + x
    BY <1>1 DEF Invaders!AlienX
  <2> HIDE DEF x, m
  <2> QED
    BY <2>1, <2>2, <2>3
<1>3. Inside(h)
  BY <1>1, <1>2 DEF Inside
<1>4. h.alive # {}
  BY <1>1, AlienPlaces
<1>5. h.move_delay \in ALIEN_MIN_DELAY..ALIEN_INITIAL_DELAY
  BY <1>1, LevelDelay
<1>6. START_X \in Int /\ START_Y \in Int
  BY DEF InvadersScreen
<1> QED
  BY <1>1, <1>3, <1>4, <1>5, <1>6 DEF InvadersTable

(* The same formation.                                                     *)
LEMMA SameInside ==
    ASSUME NEW g, NEW h, Inside(g), h.alive \subseteq g.alive, h.offset_x = g.offset_x
    PROVE  Inside(h)
BY DEF Inside, Invaders!AlienX

(* A table of bullets in which one has moved is such a table.              *)
LEMMA ShotSet ==
    ASSUME NEW n, NEW b, b \in Shots(n)
    PROVE  /\ DOMAIN b = 1..n
           /\ \A i \in 1..n : b[i][1] \in Int /\ b[i][2] \in Int
           /\ Invaders!Off \in Int \X Int
           /\ \A i \in 1..n, p \in Int \X Int : [b EXCEPT ![i] = p] \in Shots(n)
<1>1. b \in [1..n -> Int \X Int]
  BY DEF Shots
<1>2. \A i \in 1..n : b[i] \in Int \X Int
  BY <1>1
<1>3. \A i \in 1..n : b[i][1] \in Int /\ b[i][2] \in Int
  BY <1>2
<1>4. Invaders!Off \in Int \X Int
  BY DEF Invaders!Off
<1>5. \A i \in 1..n, p \in Int \X Int : [b EXCEPT ![i] = p] \in [1..n -> Int \X Int]
  BY <1>1
<1> QED
  BY <1>1, <1>3, <1>4, <1>5 DEF Shots

(* The ship moves, and fires when there is room.                           *)
LEMMA ShipMoves ==
    ASSUME InvadersScreen, NEW g, InvadersKept(g), NEW x \in Invaders!ShipX, NEW fire,
           NEW k, k = Invaders!MoveShip(g, x, fire)
    PROVE  InvadersKept(k) /\ k.alive = g.alive
<1> DEFINE h == [g EXCEPT !.ship = x]
           f == IF fire /\ g.cooldown = 0 THEN Invaders!Fire(h) ELSE h
<1>1. InvadersTable(g) /\ DOMAIN g = InvadersFields
  BY DEF InvadersKept, InvadersTable
<1>2. /\ DOMAIN h = InvadersFields /\ h.alive = g.alive /\ h.offset_x = g.offset_x
      /\ h.offset_y = g.offset_y /\ h.direction = g.direction /\ h.move_timer = g.move_timer
      /\ h.move_delay = g.move_delay /\ h.bullets = g.bullets
      /\ h.alien_bullets = g.alien_bullets /\ h.shields = g.shields /\ h.ship = x
      /\ h.lives = g.lives /\ h.level = g.level /\ h.over = g.over
  BY <1>1 DEF InvadersFields
<1>3. k = [f EXCEPT !.cooldown = IF @ > 0 THEN @ - 1 ELSE @]
  BY DEF Invaders!MoveShip
<1> HIDE DEF h
<1>4. /\ DOMAIN f = InvadersFields /\ f.alive = g.alive /\ f.offset_x = g.offset_x
      /\ f.offset_y = g.offset_y /\ f.direction = g.direction /\ f.move_timer = g.move_timer
      /\ f.move_delay = g.move_delay
      /\ f.alien_bullets = g.alien_bullets /\ f.shields = g.shields /\ f.ship = x
      /\ f.lives = g.lives /\ f.level = g.level /\ f.over = g.over
  BY <1>2 DEF Invaders!Fire, InvadersFields
<1>5. f.bullets \in Shots(INVADERS_BULLETS)
  <2>1. CASE f = h
    BY <1>1, <1>2, <2>1 DEF InvadersTable
  <2>2. CASE f = Invaders!Fire(h)
    <3> DEFINE p == <<h.ship + SHIP_WIDTH \div 2, SHIP_Y - 1>>
               b == h.bullets
               c == [i \in DOMAIN b |-> IF i \in Invaders!FreeSlot(b) THEN p ELSE b[i]]
    <3>1. f.bullets = c
      BY <1>2, <2>2 DEF Invaders!Fire, InvadersFields
    <3>2. p \in Int \X Int
      <4>1. x \in Int /\ SHIP_WIDTH \div 2 \in Int /\ SHIP_Y \in Int
        BY DEF Invaders!ShipX, InvadersScreen
      <4>2. x + SHIP_WIDTH \div 2 \in Int /\ SHIP_Y - 1 \in Int
        BY <4>1
      <4> QED
        BY <1>2, <4>2
    <3>3. b \in Shots(INVADERS_BULLETS)
      BY <1>1, <1>2 DEF InvadersTable
    <3> HIDE DEF p, b
    <3>4. c \in Shots(INVADERS_BULLETS)
      BY <3>2, <3>3 DEF Shots
    <3> QED
      BY <3>1, <3>4
  <2> QED
    BY <2>1, <2>2
<1> HIDE DEF f
<1>6. /\ DOMAIN k = InvadersFields /\ k.alive = g.alive /\ k.offset_x = g.offset_x
      /\ k.offset_y = g.offset_y /\ k.direction = g.direction /\ k.move_timer = g.move_timer
      /\ k.move_delay = g.move_delay /\ k.bullets = f.bullets
      /\ k.alien_bullets = g.alien_bullets /\ k.shields = g.shields /\ k.ship = x
      /\ k.lives = g.lives /\ k.level = g.level /\ k.over = g.over
  BY <1>3, <1>4 DEF InvadersFields
<1>7. Inside(k)
  BY <1>1, <1>6, SameInside DEF InvadersTable
<1> QED
  BY <1>1, <1>5, <1>6, <1>7 DEF InvadersKept, InvadersTable

(* The bullets fly.                                                        *)
LEMMA BulletsMove ==
    ASSUME InvadersScreen, NEW g, InvadersKept(g), NEW k, k = Invaders!MoveBullets(g)
    PROVE  InvadersKept(k) /\ k.alive = g.alive
<1> DEFINE b == g.bullets
           c == g.alien_bullets
           b2 == [i \in DOMAIN b |-> IF b[i] = Invaders!Off \/ b[i][2] < BULLET_SPEED THEN Invaders!Off
                                     ELSE <<b[i][1], b[i][2] - BULLET_SPEED>>]
           c2 == [i \in DOMAIN c |->
                     IF c[i] = Invaders!Off \/ c[i][2] + ALIEN_BULLET_SPEED > SCREEN_H THEN Invaders!Off
                     ELSE <<c[i][1], c[i][2] + ALIEN_BULLET_SPEED>>]
<1>1. InvadersTable(g) /\ DOMAIN g = InvadersFields
  BY DEF InvadersKept, InvadersTable
<1>2. /\ DOMAIN k = InvadersFields /\ k.alive = g.alive /\ k.offset_x = g.offset_x
      /\ k.offset_y = g.offset_y /\ k.direction = g.direction /\ k.move_timer = g.move_timer
      /\ k.move_delay = g.move_delay /\ k.bullets = b2
      /\ k.alien_bullets = c2 /\ k.shields = g.shields /\ k.ship = g.ship
      /\ k.lives = g.lives /\ k.level = g.level /\ k.over = g.over
  BY <1>1 DEF InvadersFields, Invaders!MoveBullets
<1>3. b \in Shots(INVADERS_BULLETS) /\ c \in Shots(MAX_ALIEN_BULLETS)
  BY <1>1 DEF InvadersTable
<1>4. BULLET_SPEED \in Int /\ ALIEN_BULLET_SPEED \in Int
  BY DEF InvadersScreen
<1> HIDE DEF b, c
<1>5. b2 \in Shots(INVADERS_BULLETS)
  <2>1. DOMAIN b = 1..INVADERS_BULLETS /\ Invaders!Off \in Int \X Int
        /\ \A i \in 1..INVADERS_BULLETS : b[i][1] \in Int /\ b[i][2] \in Int
    BY <1>3, ShotSet
  <2>2. \A i \in 1..INVADERS_BULLETS : <<b[i][1], b[i][2] - BULLET_SPEED>> \in Int \X Int
    BY <1>4, <2>1
  <2> QED
    BY <2>1, <2>2 DEF Shots
<1>6. c2 \in Shots(MAX_ALIEN_BULLETS)
  <2>1. DOMAIN c = 1..MAX_ALIEN_BULLETS /\ Invaders!Off \in Int \X Int
        /\ \A i \in 1..MAX_ALIEN_BULLETS : c[i][1] \in Int /\ c[i][2] \in Int
    BY <1>3, ShotSet
  <2>2. \A i \in 1..MAX_ALIEN_BULLETS : <<c[i][1], c[i][2] + ALIEN_BULLET_SPEED>> \in Int \X Int
    BY <1>4, <2>1
  <2> QED
    BY <2>1, <2>2 DEF Shots
<1> HIDE DEF b2, c2
<1>7. Inside(k)
  BY <1>1, <1>2, SameInside DEF InvadersTable
<1> QED
  BY <1>1, <1>2, <1>5, <1>6, <1>7 DEF InvadersKept, InvadersTable

(* The formation turns before it leaves the screen.                        *)
LEMMA AliensMove ==
    ASSUME InvadersScreen, NEW g, InvadersKept(g), NEW k, k = Invaders!MoveAliens(g)
    PROVE  InvadersKept(k) /\ k.alive = g.alive
<1>1. InvadersTable(g) /\ DOMAIN g = InvadersFields
  BY DEF InvadersKept, InvadersTable
<1>2. CASE g.move_timer + 1 < g.move_delay
  <2>1. k = [g EXCEPT !.move_timer = @ + 1]
    BY <1>2 DEF Invaders!MoveAliens
  <2>2. /\ DOMAIN k = InvadersFields /\ k.alive = g.alive /\ k.offset_x = g.offset_x
        /\ k.offset_y = g.offset_y /\ k.direction = g.direction /\ k.move_timer = g.move_timer + 1
        /\ k.move_delay = g.move_delay /\ k.bullets = g.bullets
        /\ k.alien_bullets = g.alien_bullets /\ k.shields = g.shields /\ k.ship = g.ship
        /\ k.lives = g.lives /\ k.level = g.level /\ k.over = g.over
    BY <1>1, <2>1 DEF InvadersFields
  <2>3. Inside(k)
    BY <1>1, <2>2, SameInside DEF InvadersTable
  <2>4. k.move_timer \in Nat
    BY <1>1, <2>2 DEF InvadersTable
  <2> QED
    BY <1>1, <2>2, <2>3, <2>4 DEF InvadersKept, InvadersTable
<1>3. CASE ~(g.move_timer + 1 < g.move_delay) /\ Invaders!AtEdge(g)
  <2>1. k = [g EXCEPT !.move_timer = 0, !.offset_y = @ + ALIEN_DROP_AMOUNT, !.direction = -@,
                      !.move_delay = IF @ > ALIEN_MIN_DELAY THEN @ - 1 ELSE @]
    BY <1>3 DEF Invaders!MoveAliens
  <2>2. /\ DOMAIN k = InvadersFields /\ k.alive = g.alive /\ k.offset_x = g.offset_x
        /\ k.offset_y = g.offset_y + ALIEN_DROP_AMOUNT /\ k.direction = -g.direction
        /\ k.move_timer = 0
        /\ k.move_delay = (IF g.move_delay > ALIEN_MIN_DELAY THEN g.move_delay - 1 ELSE g.move_delay)
        /\ k.bullets = g.bullets
        /\ k.alien_bullets = g.alien_bullets /\ k.shields = g.shields /\ k.ship = g.ship
        /\ k.lives = g.lives /\ k.level = g.level /\ k.over = g.over
    BY <1>1, <2>1 DEF InvadersFields
  <2>3. Inside(k)
    BY <1>1, <2>2, SameInside DEF InvadersTable
  <2>4. g.offset_y \in Int /\ g.direction \in {-1, 1}
        /\ g.move_delay \in ALIEN_MIN_DELAY..ALIEN_INITIAL_DELAY
    BY <1>1 DEF InvadersTable
  <2>5. k.move_delay \in ALIEN_MIN_DELAY..ALIEN_INITIAL_DELAY
    BY <2>2, <2>4 DEF InvadersScreen
  <2>6. k.offset_y \in Int /\ k.direction \in {-1, 1} /\ k.move_timer \in Nat
    BY <2>2, <2>4 DEF InvadersScreen
  <2> QED
    BY <1>1, <2>2, <2>3, <2>5, <2>6 DEF InvadersKept, InvadersTable
<1>4. CASE ~(g.move_timer + 1 < g.move_delay) /\ ~Invaders!AtEdge(g)
  <2>1. k = [g EXCEPT !.move_timer = 0, !.offset_x = @ + g.direction * ALIEN_MOVE_SPEED]
    BY <1>4 DEF Invaders!MoveAliens
  <2>2. /\ DOMAIN k = InvadersFields /\ k.alive = g.alive
        /\ k.offset_x = g.offset_x + g.direction * ALIEN_MOVE_SPEED
        /\ k.offset_y = g.offset_y /\ k.direction = g.direction /\ k.move_timer = 0
        /\ k.move_delay = g.move_delay /\ k.bullets = g.bullets
        /\ k.alien_bullets = g.alien_bullets /\ k.shields = g.shields /\ k.ship = g.ship
        /\ k.lives = g.lives /\ k.level = g.level /\ k.over = g.over
    BY <1>1, <2>1 DEF InvadersFields
  <2>3. /\ g.offset_x \in Int /\ ALIEN_MOVE_SPEED \in Nat /\ ALIEN_MOVE_SPEED <= EDGE + 1
        /\ ALIEN_WIDTH \in Nat /\ EDGE \in Nat /\ SCREEN_W \in Nat
    BY <1>1 DEF InvadersTable, InvadersScreen
  <2>4. \/ g.direction = 1 /\ k.offset_x = g.offset_x + ALIEN_MOVE_SPEED
        \/ g.direction = -1 /\ k.offset_x = g.offset_x - ALIEN_MOVE_SPEED
    <3>1. g.direction = 1 \/ g.direction = -1
      BY <1>1 DEF InvadersTable
    <3>2. 1 * ALIEN_MOVE_SPEED = ALIEN_MOVE_SPEED /\ (-1) * ALIEN_MOVE_SPEED = -ALIEN_MOVE_SPEED
      BY <2>3
    <3> QED
      BY <2>2, <2>3, <3>1, <3>2
  <2>5. k.offset_x \in Int
    BY <2>3, <2>4
  <2>6. ASSUME NEW a \in g.alive
        PROVE  Invaders!AlienX(k, a) >= 0 /\ Invaders!AlienX(k, a) + ALIEN_WIDTH <= SCREEN_W
    <3> DEFINE x == Invaders!AlienX(g, a)
               d == a[2] * ALIEN_SPACING_X
    <3>1. d \in Int
      <4>1. a \in Invaders!Aliens
        BY <1>1 DEF InvadersTable
      <4>2. d \in Nat
        BY <4>1, AlienPlaces
      <4> HIDE DEF d
      <4> QED
        BY <4>2
    <3>2. x = g.offset_x + d /\ Invaders!AlienX(k, a) = k.offset_x + d
      BY DEF Invaders!AlienX
    <3>3. x >= 0 /\ x + ALIEN_WIDTH <= SCREEN_W
      BY <1>1 DEF InvadersTable, Inside
    <3>4. /\ ~(g.direction > 0 /\ x + ALIEN_WIDTH >= SCREEN_W - EDGE)
          /\ ~(g.direction < 0 /\ x <= EDGE)
      BY <1>4 DEF Invaders!AtEdge
    <3> HIDE DEF x, d
    <3>5. x \in Int
      BY <2>3, <3>1, <3>2
    <3>6. CASE g.direction = 1 /\ k.offset_x = g.offset_x + ALIEN_MOVE_SPEED
      BY <2>3, <3>1, <3>2, <3>3, <3>4, <3>5, <3>6
    <3>7. CASE g.direction = -1 /\ k.offset_x = g.offset_x - ALIEN_MOVE_SPEED
      BY <2>3, <3>1, <3>2, <3>3, <3>4, <3>5, <3>7
    <3> QED
      BY <2>4, <3>6, <3>7
  <2>7. Inside(k)
    BY <2>2, <2>6 DEF Inside
  <2> QED
    BY <1>1, <2>2, <2>5, <2>7 DEF InvadersKept, InvadersTable
<1> QED
  BY <1>2, <1>3, <1>4

(* The aliens fire when there is room.                                     *)
LEMMA AliensFire ==
    ASSUME InvadersScreen, NEW g, InvadersKept(g), NEW k \in Invaders!AlienFire(g)
    PROVE  InvadersKept(k) /\ k.alive = g.alive
<1>1. InvadersTable(g) /\ DOMAIN g = InvadersFields
  BY DEF InvadersKept, InvadersTable
<1>2. CASE k = g
  BY <1>2
<1>3. ASSUME NEW a \in g.alive,
             k = [g EXCEPT !.alien_bullets = [i \in DOMAIN @ |->
                     IF i \in Invaders!FreeSlot(@)
                     THEN <<Invaders!AlienX(g, a) + ALIEN_WIDTH \div 2, Invaders!AlienY(g, a) + ALIEN_HEIGHT>>
                     ELSE @[i]]]
      PROVE  InvadersKept(k) /\ k.alive = g.alive
  <2> DEFINE p == <<Invaders!AlienX(g, a) + ALIEN_WIDTH \div 2, Invaders!AlienY(g, a) + ALIEN_HEIGHT>>
             b == g.alien_bullets
             c == [i \in DOMAIN b |-> IF i \in Invaders!FreeSlot(b) THEN p ELSE b[i]]
  <2>1. /\ DOMAIN k = InvadersFields /\ k.alive = g.alive /\ k.offset_x = g.offset_x
        /\ k.offset_y = g.offset_y /\ k.direction = g.direction /\ k.move_timer = g.move_timer
        /\ k.move_delay = g.move_delay /\ k.bullets = g.bullets
        /\ k.alien_bullets = c /\ k.shields = g.shields /\ k.ship = g.ship
        /\ k.lives = g.lives /\ k.level = g.level /\ k.over = g.over
    BY <1>1, <1>3 DEF InvadersFields
  <2>2. p \in Int \X Int
    <3>1. a[1] * ALIEN_SPACING_Y \in Int /\ a[2] * ALIEN_SPACING_X \in Int
      <4>1. a \in Invaders!Aliens
        BY <1>1 DEF InvadersTable
      <4> QED
        BY <4>1, AlienPlaces
    <3>2. g.offset_x \in Int /\ g.offset_y \in Int /\ ALIEN_WIDTH \div 2 \in Int /\ ALIEN_HEIGHT \in Int
      BY <1>1 DEF InvadersTable, InvadersScreen
    <3> QED
      BY <3>1, <3>2 DEF Invaders!AlienX, Invaders!AlienY
  <2>3. b \in Shots(MAX_ALIEN_BULLETS)
    BY <1>1 DEF InvadersTable
  <2> HIDE DEF p, b
  <2>4. c \in Shots(MAX_ALIEN_BULLETS)
    BY <2>2, <2>3 DEF Shots
  <2> HIDE DEF c
  <2>5. Inside(k)
    BY <1>1, <2>1, SameInside DEF InvadersTable
  <2> QED
    BY <1>1, <2>1, <2>4, <2>5 DEF InvadersKept, InvadersTable
<1> QED
  BY <1>2, <1>3 DEF Invaders!AlienFire, Invaders!Lowest

(* A bullet of the ship has met an alien, or none;                         *)
LEMMA BulletMet ==
    ASSUME InvadersScreen, NEW c, NEW i \in 1..INVADERS_BULLETS, NEW g, ShotKept(c, g, i - 1)
    PROVE  ShotKept(c, Invaders!BulletMeets(g, i), i)
<1> DEFINE k == Invaders!BulletMeets(g, i)
           p == g.bullets[i]
           a == CHOOSE x \in Invaders!HitAlien(g, p) : TRUE
           left == g.alive \ {a}
<1>1. InvadersTable(g) /\ DOMAIN g = InvadersFields /\ InvadersKept(g)
  BY DEF ShotKept, InvadersKept, InvadersTable
<1>2. CASE k = g
  BY <1>1, <1>2 DEF ShotKept
<1>3. CASE k = Invaders!Kill(g, i, a)
  <2> HIDE DEF a, k
  <2>1. /\ DOMAIN k = InvadersFields /\ k.alive = left /\ k.offset_x = g.offset_x
        /\ k.offset_y = g.offset_y /\ k.direction = g.direction /\ k.move_timer = g.move_timer
        /\ k.move_delay = (IF left # {} THEN Invaders!KillDelay(Invaders!Cardinality(left))
                                        ELSE g.move_delay)
        /\ k.bullets = [g.bullets EXCEPT ![i] = Invaders!Off]
        /\ k.alien_bullets = g.alien_bullets /\ k.shields = g.shields /\ k.ship = g.ship
        /\ k.lives = g.lives /\ k.level = g.level /\ k.over = g.over
    BY <1>1, <1>3 DEF InvadersFields, Invaders!Kill
  <2>2. left \subseteq Invaders!Aliens /\ left \subseteq g.alive
    BY <1>1 DEF InvadersTable
  <2> HIDE DEF left
  <2>3. Invaders!KillDelay(Invaders!Cardinality(left)) \in ALIEN_MIN_DELAY..ALIEN_INITIAL_DELAY
    <3>1. Invaders!Cardinality(left) = Cardinality(left)
      BY SameCardinalities
    <3>2. IsFiniteSet(left) /\ Cardinality(left) <= ALIEN_ROWS * ALIEN_COLS
      BY <2>2, AlienPlaces, FS_Subset
    <3>3. Cardinality(left) \in Nat
      BY <3>2, FS_CardinalityType
    <3>4. ALIEN_ROWS * ALIEN_COLS \in Nat
      BY DEF InvadersScreen
    <3>5. Cardinality(left) \in 0..(ALIEN_ROWS * ALIEN_COLS)
      BY <3>2, <3>3, <3>4
    <3> QED
      BY <3>1, <3>5, DelayOfKills
  <2>4. k.move_delay \in ALIEN_MIN_DELAY..ALIEN_INITIAL_DELAY
    BY <1>1, <2>1, <2>3 DEF InvadersTable
  <2>5. k.bullets \in Shots(INVADERS_BULLETS)
    BY <1>1, <2>1, ShotSet DEF InvadersTable
  <2>6. Inside(k)
    BY <1>1, <2>1, <2>2, SameInside DEF InvadersTable
  <2>7. InvadersKept(k)
    BY <1>1, <2>1, <2>2, <2>4, <2>5, <2>6 DEF InvadersKept, InvadersTable
  <2> QED
    BY <2>7 DEF ShotKept, k
<1> QED
  BY <1>2, <1>3 DEF Invaders!BulletMeets

(* or a shield;                                                            *)
LEMMA ShieldMet ==
    ASSUME InvadersScreen, NEW c, NEW i \in 1..INVADERS_BULLETS, NEW g, ShotKept(c, g, i - 1)
    PROVE  ShotKept(c, Invaders!BulletShield(g, i), i)
<1> DEFINE k == Invaders!BulletShield(g, i)
           p == g.bullets[i]
<1>1. InvadersTable(g) /\ DOMAIN g = InvadersFields /\ InvadersKept(g)
  BY DEF ShotKept, InvadersKept, InvadersTable
<1>2. CASE k = g
  BY <1>1, <1>2 DEF ShotKept
<1>3. CASE k = [g EXCEPT !.bullets[i] = Invaders!Off, !.shields = @ \ Invaders!Damaged(g, p)]
  <2> HIDE DEF k
  <2>1. /\ DOMAIN k = InvadersFields /\ k.alive = g.alive /\ k.offset_x = g.offset_x
        /\ k.offset_y = g.offset_y /\ k.direction = g.direction /\ k.move_timer = g.move_timer
        /\ k.move_delay = g.move_delay
        /\ k.bullets = [g.bullets EXCEPT ![i] = Invaders!Off]
        /\ k.alien_bullets = g.alien_bullets /\ k.shields \subseteq g.shields /\ k.ship = g.ship
        /\ k.lives = g.lives /\ k.level = g.level /\ k.over = g.over
    BY <1>1, <1>3 DEF InvadersFields
  <2>2. k.bullets \in Shots(INVADERS_BULLETS)
    BY <1>1, <2>1, ShotSet DEF InvadersTable
  <2>3. Inside(k)
    BY <1>1, <2>1, SameInside DEF InvadersTable
  <2>4. InvadersKept(k)
    BY <1>1, <2>1, <2>2, <2>3 DEF InvadersKept, InvadersTable
  <2> QED
    BY <2>4 DEF ShotKept, k
<1> QED
  BY <1>2, <1>3 DEF Invaders!BulletShield

(* and one of the aliens the ship, or a shield.                            *)
LEMMA ShipMet ==
    ASSUME InvadersScreen, NEW c, NEW i \in 1..MAX_ALIEN_BULLETS, NEW g, ShotKept(c, g, i - 1)
    PROVE  ShotKept(c, Invaders!AlienBulletMeets(g, i), i)
<1> DEFINE k == Invaders!AlienBulletMeets(g, i)
           p == g.alien_bullets[i]
<1>1. InvadersTable(g) /\ DOMAIN g = InvadersFields /\ InvadersKept(g)
  BY DEF ShotKept, InvadersKept, InvadersTable
<1>2. CASE k = g
  BY <1>1, <1>2 DEF ShotKept
<1>3. CASE k = [g EXCEPT !.alien_bullets[i] = Invaders!Off, !.shields = @ \ Invaders!Damaged(g, p)]
  <2> HIDE DEF k
  <2>1. /\ DOMAIN k = InvadersFields /\ k.alive = g.alive /\ k.offset_x = g.offset_x
        /\ k.offset_y = g.offset_y /\ k.direction = g.direction /\ k.move_timer = g.move_timer
        /\ k.move_delay = g.move_delay /\ k.bullets = g.bullets
        /\ k.alien_bullets = [g.alien_bullets EXCEPT ![i] = Invaders!Off]
        /\ k.shields \subseteq g.shields /\ k.ship = g.ship
        /\ k.lives = g.lives /\ k.level = g.level /\ k.over = g.over
    BY <1>1, <1>3 DEF InvadersFields
  <2>2. k.alien_bullets \in Shots(MAX_ALIEN_BULLETS)
    BY <1>1, <2>1, ShotSet DEF InvadersTable
  <2>3. Inside(k)
    BY <1>1, <2>1, SameInside DEF InvadersTable
  <2>4. InvadersKept(k)
    BY <1>1, <2>1, <2>2, <2>3 DEF InvadersKept, InvadersTable
  <2> QED
    BY <2>4 DEF ShotKept, k
<1>4. CASE k = [g EXCEPT !.alien_bullets[i] = Invaders!Off, !.lives = @ - 1, !.over = @ \/ g.lives <= 1]
  <2> HIDE DEF k
  <2>1. /\ DOMAIN k = InvadersFields /\ k.alive = g.alive /\ k.offset_x = g.offset_x
        /\ k.offset_y = g.offset_y /\ k.direction = g.direction /\ k.move_timer = g.move_timer
        /\ k.move_delay = g.move_delay /\ k.bullets = g.bullets
        /\ k.alien_bullets = [g.alien_bullets EXCEPT ![i] = Invaders!Off]
        /\ k.shields = g.shields /\ k.ship = g.ship
        /\ k.lives = g.lives - 1 /\ k.level = g.level /\ k.over = (g.over \/ g.lives <= 1)
    BY <1>1, <1>4 DEF InvadersFields
  <2>2. k.alien_bullets \in Shots(MAX_ALIEN_BULLETS)
    BY <1>1, <2>1, ShotSet DEF InvadersTable
  <2>3. Inside(k)
    BY <1>1, <2>1, SameInside DEF InvadersTable
  <2>4. k.lives \in Int /\ (k.lives <= 0 <=> g.lives <= 0 \/ g.lives <= 1)
    BY <1>1, <2>1 DEF InvadersTable
  <2>5. g.over <=> g.lives <= 0
    BY <1>1 DEF InvadersKept
  <2>6. k.over <=> k.lives <= 0
    BY <2>1, <2>4, <2>5, Zenon
  <2>7. InvadersKept(k)
    BY <1>1, <2>1, <2>2, <2>3, <2>4, <2>6 DEF InvadersKept, InvadersTable
  <2> QED
    BY <2>7 DEF ShotKept, k
<1> QED
  BY <1>2, <1>3, <1>4 DEF Invaders!AlienBulletMeets

(* All bullets and aliens have met what they meet.                         *)
LEMMA AllMet ==
    ASSUME InvadersScreen, NEW g, InvadersKept(g)
    PROVE  InvadersKept(Invaders!Collide(g))
<1> DEFINE h == AlienHits!Loop(g, INVADERS_BULLETS)
           k == ShieldHits!Loop(h, INVADERS_BULLETS)
           l == ShipHits!Loop(k, MAX_ALIEN_BULLETS)
<1>1. INVADERS_BULLETS \in Nat /\ MAX_ALIEN_BULLETS \in Nat
  BY DEF InvadersScreen
<1>2. InvadersKept(h)
  <2>1. ShotKept(g, g, 0)
    BY DEF ShotKept
  <2>2. ShotKept(g, h, INVADERS_BULLETS)
    BY <1>1, <2>1, BulletMet, AlienHits!Kept, HasLeast
  <2> QED
    BY <2>2 DEF ShotKept
<1> HIDE DEF h
<1>3. InvadersKept(k)
  <2>1. ShotKept(g, h, 0)
    BY <1>2 DEF ShotKept
  <2>2. ShotKept(g, k, INVADERS_BULLETS)
    BY <1>1, <2>1, ShieldMet, ShieldHits!Kept, HasLeast
  <2> QED
    BY <2>2 DEF ShotKept
<1> HIDE DEF k
<1>4. InvadersKept(l)
  <2>1. ShotKept(g, k, 0)
    BY <1>3 DEF ShotKept
  <2>2. ShotKept(g, l, MAX_ALIEN_BULLETS)
    BY <1>1, <2>1, ShipMet, ShipHits!Kept, HasLeast
  <2> QED
    BY <2>2 DEF ShotKept
<1>5. Invaders!Collide(g) = l
  BY DEF h, k, Invaders!Collide, Invaders!Loop, AlienHits!Loop, ShieldHits!Loop, ShipHits!Loop
<1> QED
  BY <1>4, <1>5

(* Every step of the game keeps the invariant.                             *)
LEMMA InvadersStep == ASSUME InvadersScreen, InvadersInv, Invaders!Next PROVE InvadersInv'
<1>1. InvadersTable(game) /\ DOMAIN game = InvadersFields
  BY DEF InvadersInv, InvadersTable
<1>2. CASE Invaders!Pause
  <2>1. game' = [game EXCEPT !.paused = ~@] /\ ~game.over
    BY <1>2 DEF Invaders!Pause
  <2>2. /\ DOMAIN game' = InvadersFields /\ game'.alive = game.alive /\ game'.offset_x = game.offset_x
        /\ game'.offset_y = game.offset_y /\ game'.direction = game.direction
        /\ game'.move_timer = game.move_timer
        /\ game'.move_delay = game.move_delay /\ game'.bullets = game.bullets
        /\ game'.alien_bullets = game.alien_bullets /\ game'.shields = game.shields
        /\ game'.ship = game.ship
        /\ game'.lives = game.lives /\ game'.level = game.level /\ game'.over = game.over
    BY <1>1, <2>1 DEF InvadersFields
  <2>3. Inside(game')
    BY <1>1, <2>2, SameInside DEF InvadersTable
  <2>4. InvadersTable(game')
    BY <1>1, <2>2, <2>3 DEF InvadersTable
  <2> QED
    BY <2>1, <2>2, <2>4 DEF InvadersInv
<1>3. CASE Invaders!Restart
  <2>1. game' = [game EXCEPT !.over = FALSE, !.lives = INVADERS_LIVES, !.level = 1]
    BY <1>3 DEF Invaders!Restart
  <2>2. /\ DOMAIN game' = InvadersFields /\ game'.alive = game.alive /\ game'.offset_x = game.offset_x
        /\ game'.offset_y = game.offset_y /\ game'.direction = game.direction
        /\ game'.move_timer = game.move_timer
        /\ game'.move_delay = game.move_delay /\ game'.bullets = game.bullets
        /\ game'.alien_bullets = game.alien_bullets /\ game'.shields = game.shields
        /\ game'.ship = game.ship
        /\ game'.lives = INVADERS_LIVES /\ game'.level = 1 /\ game'.over = FALSE
    BY <1>1, <2>1 DEF InvadersFields
  <2>3. Inside(game')
    BY <1>1, <2>2, SameInside DEF InvadersTable
  <2>4. INVADERS_LIVES \in Int /\ ~(INVADERS_LIVES <= 0) /\ 1 \in Nat \ {0}
    BY DEF InvadersScreen
  <2>5. InvadersTable(game')
    BY <1>1, <2>2, <2>3, <2>4 DEF InvadersTable
  <2> QED
    BY <2>2, <2>4, <2>5 DEF InvadersInv
<1>4. CASE Invaders!Update
  <2>1. PICK x \in Invaders!ShipX, fire \in BOOLEAN :
          \E g \in Invaders!AlienFire(Invaders!MoveAliens(Invaders!MoveBullets(Invaders!MoveShip(game, x, fire)))) :
             game' = Invaders!Finish(Invaders!Collide(g))
    BY <1>4 DEF Invaders!Update
  <2>2. PICK g \in Invaders!AlienFire(Invaders!MoveAliens(Invaders!MoveBullets(Invaders!MoveShip(game, x, fire)))) :
             game' = Invaders!Finish(Invaders!Collide(g))
    BY <2>1
  <2>3. ~game.over /\ InvadersKept(game)
    BY <1>1, <1>4 DEF Invaders!Update, Invaders!Playing, InvadersInv, InvadersKept
  <2>4. InvadersKept(Invaders!MoveShip(game, x, fire))
    BY <2>3, ShipMoves
  <2>5. InvadersKept(Invaders!MoveBullets(Invaders!MoveShip(game, x, fire)))
    BY <2>4, BulletsMove
  <2>6. InvadersKept(Invaders!MoveAliens(Invaders!MoveBullets(Invaders!MoveShip(game, x, fire))))
    BY <2>5, AliensMove
  <2>7. InvadersKept(g)
    BY <2>2, <2>6, AliensFire
  <2> DEFINE h == Invaders!Collide(g)
  <2>8. InvadersKept(h)
    BY <2>7, AllMet
  <2>9. game' = Invaders!Finish(h)
    BY <2>2
  <2> HIDE DEF h
  <2>10. InvadersTable(h) /\ DOMAIN h = InvadersFields /\ (h.over <=> h.lives <= 0)
    BY <2>8 DEF InvadersKept, InvadersTable
  <2>11. CASE Invaders!Reached(h)
    <3>1. game' = [h EXCEPT !.over = TRUE]
      BY <2>9, <2>11 DEF Invaders!Finish
    <3>2. /\ DOMAIN game' = InvadersFields /\ game'.alive = h.alive /\ game'.offset_x = h.offset_x
          /\ game'.offset_y = h.offset_y /\ game'.direction = h.direction
          /\ game'.move_timer = h.move_timer
          /\ game'.move_delay = h.move_delay /\ game'.bullets = h.bullets
          /\ game'.alien_bullets = h.alien_bullets /\ game'.shields = h.shields
          /\ game'.ship = h.ship
          /\ game'.lives = h.lives /\ game'.level = h.level /\ game'.over = TRUE
      BY <2>10, <3>1 DEF InvadersFields
    <3>3. Inside(game')
      BY <2>10, <3>2, SameInside DEF InvadersTable
    <3>4. Invaders!Reached(game') /\ game'.alive # {}
      BY <2>11, <3>2 DEF Invaders!Reached, Invaders!AlienY
    <3>5. InvadersTable(game')
      BY <2>10, <3>2, <3>3 DEF InvadersTable
    <3> QED
      BY <3>2, <3>4, <3>5 DEF InvadersInv, Invaders!Reached, Invaders!AlienY
  <2>12. CASE ~Invaders!Reached(h) /\ h.alive # {}
    <3>1. game' = h
      BY <2>9, <2>12 DEF Invaders!Finish
    <3> QED
      BY <2>10, <2>12, <3>1 DEF InvadersInv
  <2>13. CASE ~Invaders!Reached(h) /\ h.alive = {}
    <3> DEFINE n == [h EXCEPT !.level = @ + 1]
               s == Invaders!init_shields(Invaders!init_aliens(n))
    <3>1. game' = [s EXCEPT !.bullets = Invaders!NoBullets(INVADERS_BULLETS),
                            !.alien_bullets = Invaders!NoBullets(MAX_ALIEN_BULLETS)]
      BY <2>9, <2>13 DEF Invaders!Finish
    <3>2. /\ DOMAIN n = InvadersFields /\ n.level = h.level + 1 /\ n.bullets = h.bullets
          /\ n.alien_bullets = h.alien_bullets /\ n.ship = h.ship /\ n.lives = h.lives
          /\ n.over = h.over
      BY <2>10 DEF InvadersFields
    <3>3. n.level \in Nat \ {0}
      BY <2>10, <3>2 DEF InvadersTable
    <3> HIDE DEF n
    <3>4. InvadersTable(s) /\ s.alive # {} /\ s.over = h.over /\ s.lives = h.lives
      BY <2>10, <3>2, <3>3, NewFormation DEF InvadersTable
    <3> HIDE DEF s
    <3>5. /\ DOMAIN game' = InvadersFields /\ game'.alive = s.alive /\ game'.offset_x = s.offset_x
          /\ game'.offset_y = s.offset_y /\ game'.direction = s.direction
          /\ game'.move_timer = s.move_timer
          /\ game'.move_delay = s.move_delay /\ game'.bullets = Invaders!NoBullets(INVADERS_BULLETS)
          /\ game'.alien_bullets = Invaders!NoBullets(MAX_ALIEN_BULLETS) /\ game'.shields = s.shields
          /\ game'.ship = s.ship
          /\ game'.lives = s.lives /\ game'.level = s.level /\ game'.over = s.over
      BY <3>1, <3>4 DEF InvadersFields, InvadersTable
    <3>6. \A m : Invaders!NoBullets(m) \in Shots(m)
      BY DEF Invaders!NoBullets, Shots, Invaders!Off
    <3>7. Inside(game')
      BY <3>4, <3>5, SameInside DEF InvadersTable
    <3>8. InvadersTable(game')
      BY <3>4, <3>5, <3>6, <3>7 DEF InvadersTable
    <3> QED
      BY <2>10, <3>4, <3>5, <3>8 DEF InvadersInv
  <2> QED
    BY <2>11, <2>12, <2>13
<1> QED
  BY <1>2, <1>3, <1>4 DEF Invaders!Next, Invaders!input_process

(* The invariant holds when a game begins.                                 *)
LEMMA InvadersInit == ASSUME InvadersScreen, Invaders!Init PROVE InvadersInv
<1> DEFINE g == [alive |-> {}, offset_x |-> 0, offset_y |-> 0, direction |-> 1,
                 move_timer |-> 0, move_delay |-> 0,
                 bullets |-> Invaders!NoBullets(INVADERS_BULLETS),
                 alien_bullets |-> Invaders!NoBullets(MAX_ALIEN_BULLETS),
                 shields |-> {}, ship |-> (SCREEN_W - SHIP_WIDTH) \div 2,
                 cooldown |-> 0, lives |-> INVADERS_LIVES, level |-> 1,
                 paused |-> FALSE, over |-> FALSE]
<1>1. game = Invaders!init_shields(Invaders!init_aliens(g))
  BY DEF Invaders!Init, Invaders!game_init
<1>2. /\ DOMAIN g = InvadersFields /\ g.level = 1
      /\ g.bullets = Invaders!NoBullets(INVADERS_BULLETS)
      /\ g.alien_bullets = Invaders!NoBullets(MAX_ALIEN_BULLETS)
      /\ g.ship = (SCREEN_W - SHIP_WIDTH) \div 2 /\ g.lives = INVADERS_LIVES /\ g.over = FALSE
  BY DEF InvadersFields
<1> HIDE DEF g
<1>3. \A m : Invaders!NoBullets(m) \in Shots(m)
  BY DEF Invaders!NoBullets, Shots, Invaders!Off
<1>4. (SCREEN_W - SHIP_WIDTH) \div 2 \in Invaders!ShipX
  BY DEF Invaders!ShipX, InvadersScreen
<1>5. INVADERS_LIVES \in Int /\ ~(INVADERS_LIVES <= 0) /\ 1 \in Nat \ {0}
  BY DEF InvadersScreen
<1>6. InvadersTable(game) /\ game.alive # {} /\ game.over = FALSE /\ game.lives = INVADERS_LIVES
  BY <1>1, <1>2, <1>3, <1>4, <1>5, NewFormation
<1> QED
  BY <1>5, <1>6 DEF InvadersInv

(* Whichever columns of the formation of drm-invaders.c are shot away, it  *)
(* turns before it leaves the screen; the game is over when the ship is    *)
(* lost or reached and only then, and there is always something to shoot   *)
(* at.                                                                     *)
THEOREM InvadersCorrect ==
    ASSUME InvadersScreen
    PROVE  Invaders!Spec => [](Invaders!TypeOK /\ Invaders!FormationInside /\ Invaders!EndExplained)
<1>1. Invaders!Init => InvadersInv
  BY InvadersInit
<1>2. InvadersInv /\ [Invaders!Next]_game => InvadersInv'
  BY InvadersStep DEF InvadersInv
<1>3. InvadersInv => Invaders!TypeOK /\ Invaders!FormationInside /\ Invaders!EndExplained
  BY DEF InvadersInv, InvadersTable, Shots, Inside, Invaders!TypeOK, Invaders!FormationInside,
         Invaders!EndExplained
<1> QED
  BY <1>1, <1>2, <1>3, PTL DEF Invaders!Spec
-----------------------------------------------------------------------------
(* The suite: the first state picks a game, and nothing else is played.    *)
(* What holds of a game that is played alone holds of it here.             *)
LEMMA BreakerInSuite ==
    GamesSpec => [](sel = "breaker" => /\ Breaker!TypeOK
                                       /\ Breaker!GameGoesOn
                                       /\ Breaker!BallOnPaddle)
<1>1. GamesInit /\ sel = "breaker" => Breaker!Init
  BY DEF GamesInit, Framework
<1>2. [GamesNext]_allVars => ((sel = "breaker")' <=> sel = "breaker")
  BY DEF GamesNext, PlayTetris, Play, ShowFrames, allVars
<1>3. [GamesNext]_allVars /\ sel = "breaker" => [Breaker!Next]_game
  BY DEF GamesNext, PlayTetris, Play, ShowFrames, allVars
<1>4. Breaker!Spec => [](Breaker!TypeOK /\ Breaker!GameGoesOn /\ Breaker!BallOnPaddle)
  BY BoardCourts, BreakerCorrect
<1> QED
  BY <1>1, <1>2, <1>3, <1>4, PTL DEF GamesSpec, Breaker!Spec

LEMMA BreakoutInSuite ==
    GamesSpec => [](sel = "breakout" => /\ Breakout!TypeOK
                                        /\ Breakout!BallInCourt
                                        /\ Breakout!GameGoesOn)
<1>1. GamesInit /\ sel = "breakout" => Breakout!Init
  BY DEF GamesInit, Framework
<1>2. [GamesNext]_allVars => ((sel = "breakout")' <=> sel = "breakout")
  BY DEF GamesNext, PlayTetris, Play, ShowFrames, allVars
<1>3. [GamesNext]_allVars /\ sel = "breakout" => [Breakout!Next]_game
  BY DEF GamesNext, PlayTetris, Play, ShowFrames, allVars
<1>4. Breakout!Spec => [](Breakout!TypeOK /\ Breakout!BallInCourt /\ Breakout!GameGoesOn)
  BY BoardCourts, BreakoutCorrect
<1> QED
  BY <1>1, <1>2, <1>3, <1>4, PTL DEF GamesSpec, Breakout!Spec

LEMMA PongInSuite ==
    GamesSpec => /\ [](sel = "pong" => /\ Pong!TypeOK
                                       /\ Pong!WonByOne
                                       /\ Pong!SpeedOfRally)
                 /\ [][sel = "pong" => Pong!BallMeetsPaddle]_game
<1>1. GamesInit /\ sel = "pong" => Pong!Init
  BY DEF GamesInit, Framework
<1>2. [GamesNext]_allVars => ((sel = "pong")' <=> sel = "pong")
  BY DEF GamesNext, PlayTetris, Play, ShowFrames, allVars
<1>3. [GamesNext]_allVars /\ sel = "pong" => [Pong!Next]_game
  BY DEF GamesNext, PlayTetris, Play, ShowFrames, allVars
<1>4. Pong!Spec => [](Pong!TypeOK /\ Pong!WonByOne /\ Pong!SpeedOfRally)
  BY BoardCourts, PongCorrect
<1>5. Pong!Spec => Pong!NoBallPassesThrough
  BY BoardCourts, PongPaddleHolds
<1> QED
  BY <1>1, <1>2, <1>3, <1>4, <1>5, PTL DEF GamesSpec, Pong!Spec, Pong!NoBallPassesThrough

LEMMA WhackInSuite ==
    GamesSpec => [](sel = "whack" => /\ Whack!TypeOK
                                     /\ Whack!HitOncePerAppearance
                                     /\ Whack!MolesBounded)
<1>1. GamesInit /\ sel = "whack" => Whack!Init
  BY DEF GamesInit, Framework
<1>2. [GamesNext]_allVars => ((sel = "whack")' <=> sel = "whack")
  BY DEF GamesNext, PlayTetris, Play, ShowFrames, allVars
<1>3. [GamesNext]_allVars /\ sel = "whack" => [Whack!Next]_game
  BY DEF GamesNext, PlayTetris, Play, ShowFrames, allVars
<1>4. Whack!Spec => [](/\ Whack!TypeOK /\ Whack!HitOncePerAppearance
                       /\ Whack!MolesBounded)
  BY BoardCourts, WhackCorrect
<1> QED
  BY <1>1, <1>2, <1>3, <1>4, PTL DEF GamesSpec, Whack!Spec

LEMMA SnakeInSuite ==
    GamesSpec => [](sel = "snake" => /\ Snake!TypeOK
                                     /\ Snake!BodyIsPath
                                     /\ Snake!NeverReverses
                                     /\ Snake!LengthOfScore)
<1>1. GamesInit /\ sel = "snake" => Snake!Init
  BY DEF GamesInit, Framework
<1>2. [GamesNext]_allVars => ((sel = "snake")' <=> sel = "snake")
  BY DEF GamesNext, PlayTetris, Play, ShowFrames, allVars
<1>3. [GamesNext]_allVars /\ sel = "snake" => [Snake!Next]_game
  BY DEF GamesNext, PlayTetris, Play, ShowFrames, allVars
<1>4. Snake!Spec => [](/\ Snake!TypeOK /\ Snake!BodyIsPath
                       /\ Snake!NeverReverses /\ Snake!LengthOfScore)
  BY BoardCourts, SnakeCorrect
<1> QED
  BY <1>1, <1>2, <1>3, <1>4, PTL DEF GamesSpec, Snake!Spec

LEMMA PuzzleInSuite ==
    GamesSpec => [](sel = "puzzle" => /\ Puzzle!TypeOK
                                      /\ Puzzle!BoardSettled
                                      /\ Puzzle!SelectionStill)
<1>1. GamesInit /\ sel = "puzzle" => Puzzle!Init
  BY DEF GamesInit, Framework
<1>2. [GamesNext]_allVars => ((sel = "puzzle")' <=> sel = "puzzle")
  BY DEF GamesNext, PlayTetris, Play, ShowFrames, allVars
<1>3. [GamesNext]_allVars /\ sel = "puzzle" => [Puzzle!Next]_game
  BY DEF GamesNext, PlayTetris, Play, ShowFrames, allVars
<1>4. Puzzle!Spec => [](Puzzle!TypeOK /\ Puzzle!BoardSettled /\ Puzzle!SelectionStill)
  BY BoardCourts, PuzzleCorrect
<1> QED
  BY <1>1, <1>2, <1>3, <1>4, PTL DEF GamesSpec, Puzzle!Spec

LEMMA TetrisInSuite ==
    GamesSpec => [](sel = "tetris" => /\ Tetris!TypeOK
                                      /\ Tetris!PieceFits
                                      /\ Tetris!BoardAccount
                                      /\ Tetris!SpeedOfLevel)
<1>1. GamesInit /\ sel = "tetris" => Tetris!Init
  BY DEF GamesInit, Framework
<1>2. [GamesNext]_allVars => ((sel = "tetris")' <=> sel = "tetris")
  BY DEF GamesNext, PlayTetris, Play, ShowFrames, allVars
<1>3. [GamesNext]_allVars /\ sel = "tetris" => [Tetris!Next]_(Tetris!vars)
  BY DEF GamesNext, PlayTetris, Play, ShowFrames, allVars, Tetris!vars
<1>4. Tetris!Spec => [](/\ Tetris!TypeOK /\ Tetris!PieceFits
                        /\ Tetris!BoardAccount /\ Tetris!SpeedOfLevel)
  BY BoardCourts, TetrisCorrect
<1> QED
  BY <1>1, <1>2, <1>3, <1>4, PTL DEF GamesSpec, Tetris!Spec

LEMMA CatchInSuite ==
    GamesSpec => [](sel = "catch" => /\ Catch!TypeOK
                                     /\ Catch!LevelOfFruits
                                     /\ Catch!EndsWithLives
                                     /\ Catch!NothingFallsThrough)
<1>1. GamesInit /\ sel = "catch" => Catch!Init
  BY DEF GamesInit, Framework
<1>2. [GamesNext]_allVars => ((sel = "catch")' <=> sel = "catch")
  BY DEF GamesNext, PlayTetris, Play, ShowFrames, allVars
<1>3. [GamesNext]_allVars /\ sel = "catch" => [Catch!Next]_game
  BY DEF GamesNext, PlayTetris, Play, ShowFrames, allVars
<1>4. Catch!Spec => [](/\ Catch!TypeOK /\ Catch!LevelOfFruits
                       /\ Catch!EndsWithLives /\ Catch!NothingFallsThrough)
  BY TableCourts, CatchCorrect
<1> QED
  BY <1>1, <1>2, <1>3, <1>4, PTL DEF GamesSpec, Catch!Spec

LEMMA RacingInSuite ==
    GamesSpec => [](sel = "racing" => Racing!TypeOK /\ Racing!OverWithLives)
<1>1. GamesInit /\ sel = "racing" => Racing!Init
  BY DEF GamesInit, Framework
<1>2. [GamesNext]_allVars => ((sel = "racing")' <=> sel = "racing")
  BY DEF GamesNext, PlayTetris, Play, ShowFrames, allVars
<1>3. [GamesNext]_allVars /\ sel = "racing" => [Racing!Next]_game
  BY DEF GamesNext, PlayTetris, Play, ShowFrames, allVars
<1>4. Racing!Spec => [](Racing!TypeOK /\ Racing!OverWithLives)
  BY TableCourts, RacingCorrect
<1> QED
  BY <1>1, <1>2, <1>3, <1>4, PTL DEF GamesSpec, Racing!Spec

LEMMA PlatformerInSuite ==
    GamesSpec => /\ [](sel = "platformer" => /\ Platformer!TypeOK
                                             /\ Platformer!StandsOnSomething
                                             /\ Platformer!CoinsOnce)
                 /\ [][sel = "platformer" => Platformer!GroundHolds]_game
<1>1. GamesInit /\ sel = "platformer" => Platformer!Init
  BY DEF GamesInit, Framework
<1>2. [GamesNext]_allVars => ((sel = "platformer")' <=> sel = "platformer")
  BY DEF GamesNext, PlayTetris, Play, ShowFrames, allVars
<1>3. [GamesNext]_allVars /\ sel = "platformer" => [Platformer!Next]_game
  BY DEF GamesNext, PlayTetris, Play, ShowFrames, allVars
<1>4. Platformer!Spec => /\ [](/\ Platformer!TypeOK /\ Platformer!StandsOnSomething
                               /\ Platformer!CoinsOnce)
                         /\ Platformer!NobodyFallsThrough
  BY TableCourts, PlatformerCorrect
<1> QED
  BY <1>1, <1>2, <1>3, <1>4, PTL DEF GamesSpec, Platformer!Spec, Platformer!NobodyFallsThrough

LEMMA AsteroidsInSuite ==
    GamesSpec => [](sel = "asteroids" => /\ Asteroids!TypeOK
                                         /\ Asteroids!WaveGoesOn
                                         /\ Asteroids!ShipAccounted)
<1>1. GamesInit /\ sel = "asteroids" => Asteroids!Init
  BY DEF GamesInit, Framework
<1>2. [GamesNext]_allVars => ((sel = "asteroids")' <=> sel = "asteroids")
  BY DEF GamesNext, PlayTetris, Play, ShowFrames, allVars
<1>3. [GamesNext]_allVars /\ sel = "asteroids" => [Asteroids!Next]_game
  BY DEF GamesNext, PlayTetris, Play, ShowFrames, allVars
<1>4. Asteroids!Spec
         => [](Asteroids!TypeOK /\ Asteroids!WaveGoesOn /\ Asteroids!ShipAccounted)
  BY TableCourts, AsteroidsCorrect
<1> QED
  BY <1>1, <1>2, <1>3, <1>4, PTL DEF GamesSpec, Asteroids!Spec

LEMMA NinjaInSuite ==
    GamesSpec => [](sel = "ninja" => /\ Ninja!TypeOK
                                     /\ Ninja!ComboCounted
                                     /\ Ninja!EndsWithMisses)
<1>1. GamesInit /\ sel = "ninja" => Ninja!Init
  BY DEF GamesInit, Framework
<1>2. [GamesNext]_allVars => ((sel = "ninja")' <=> sel = "ninja")
  BY DEF GamesNext, PlayTetris, Play, ShowFrames, allVars
<1>3. [GamesNext]_allVars /\ sel = "ninja" => [Ninja!Next]_game
  BY DEF GamesNext, PlayTetris, Play, ShowFrames, allVars
<1>4. Ninja!Spec => [](Ninja!TypeOK /\ Ninja!ComboCounted /\ Ninja!EndsWithMisses)
  BY TableCourts, NinjaCorrect
<1> QED
  BY <1>1, <1>2, <1>3, <1>4, PTL DEF GamesSpec, Ninja!Spec

LEMMA ShooterInSuite ==
    GamesSpec => [](sel = "shooter" => /\ Shooter!TypeOK
                                       /\ Shooter!NoHitMissed
                                       /\ Shooter!LevelOfKills)
<1>1. GamesInit /\ sel = "shooter" => Shooter!Init
  BY DEF GamesInit, Framework
<1>2. [GamesNext]_allVars => ((sel = "shooter")' <=> sel = "shooter")
  BY DEF GamesNext, PlayTetris, Play, ShowFrames, allVars
<1>3. [GamesNext]_allVars /\ sel = "shooter" => [Shooter!Next]_game
  BY DEF GamesNext, PlayTetris, Play, ShowFrames, allVars
<1>4. Shooter!Spec => [](Shooter!TypeOK /\ Shooter!NoHitMissed /\ Shooter!LevelOfKills)
  BY TableCourts, ShooterCorrect
<1> QED
  BY <1>1, <1>2, <1>3, <1>4, PTL DEF GamesSpec, Shooter!Spec

LEMMA TowerInSuite ==
    GamesSpec => [](sel = "tower" => /\ Tower!TypeOK
                                     /\ Tower!GoldAccount
                                     /\ Tower!WaveAccount)
<1>1. GamesInit /\ sel = "tower" => Tower!Init
  BY DEF GamesInit, Framework
<1>2. [GamesNext]_allVars => ((sel = "tower")' <=> sel = "tower")
  BY DEF GamesNext, PlayTetris, Play, ShowFrames, allVars
<1>3. [GamesNext]_allVars /\ sel = "tower" => [Tower!Next]_game
  BY DEF GamesNext, PlayTetris, Play, ShowFrames, allVars
<1>4. Tower!Spec => [](Tower!TypeOK /\ Tower!GoldAccount /\ Tower!WaveAccount)
  BY TableCourts, TowerCorrect
<1> QED
  BY <1>1, <1>2, <1>3, <1>4, PTL DEF GamesSpec, Tower!Spec

LEMMA FlappyInSuite ==
    GamesSpec => [](sel = "flappy" => /\ Flappy!TypeOK
                                      /\ Flappy!PipesEven
                                      /\ Flappy!CountedOnce)
<1>1. GamesInit /\ sel = "flappy" => Flappy!Init
  BY DEF GamesInit, Framework
<1>2. [GamesNext]_allVars => ((sel = "flappy")' <=> sel = "flappy")
  BY DEF GamesNext, PlayTetris, Play, ShowFrames, allVars
<1>3. [GamesNext]_allVars /\ sel = "flappy" => [Flappy!Next]_game
  BY DEF GamesNext, PlayTetris, Play, ShowFrames, allVars
<1>4. Flappy!Spec => [](Flappy!TypeOK /\ Flappy!PipesEven /\ Flappy!CountedOnce)
  BY TableCourts, FlappyCorrect
<1> QED
  BY <1>1, <1>2, <1>3, <1>4, PTL DEF GamesSpec, Flappy!Spec

LEMMA InvadersInSuite ==
    GamesSpec => [](sel = "invaders" => /\ Invaders!TypeOK
                                        /\ Invaders!FormationInside
                                        /\ Invaders!EndExplained)
<1>1. GamesInit /\ sel = "invaders" => Invaders!Init
  BY DEF GamesInit, Framework
<1>2. [GamesNext]_allVars => ((sel = "invaders")' <=> sel = "invaders")
  BY DEF GamesNext, PlayTetris, Play, ShowFrames, allVars
<1>3. [GamesNext]_allVars /\ sel = "invaders" => [Invaders!Next]_game
  BY DEF GamesNext, PlayTetris, Play, ShowFrames, allVars
<1>4. Invaders!Spec => [](Invaders!TypeOK /\ Invaders!FormationInside /\ Invaders!EndExplained)
  BY TableCourts, InvadersCorrect
<1> QED
  BY <1>1, <1>2, <1>3, <1>4, PTL DEF GamesSpec, Invaders!Spec

(* Without failures, or with neither failures nor late blanks, the         *)
(* framework takes no step it cannot take with them.                       *)
LEMMA ReliableSteps == Reliable!Next => Next
<1>1. Reliable!DrmInit => DrmInit
  BY DEF Reliable!DrmInit, DrmInit, Reliable!Planes, Planes,
         Reliable!memory, memory
<1>2. Reliable!DrmInitFails => DrmInitFails
  BY DEF Reliable!DrmInitFails, DrmInitFails, Reliable!memory, memory,
         Reliable!kernelVars, kernelVars
<1>3. Reliable!LoopTest => LoopTest
  BY DEF Reliable!LoopTest, LoopTest, Reliable!memory, memory,
         Reliable!kernelVars, kernelVars
<1>4. Reliable!Update => Update
  BY DEF Reliable!Update, Update, Reliable!memory, memory,
         Reliable!kernelVars, kernelVars
<1>5. Reliable!DrawCursor => DrawCursor
  BY DEF Reliable!DrawCursor, DrawCursor, Reliable!kernelVars, kernelVars
<1>6. Reliable!RenderPrimary => RenderPrimary
  BY DEF Reliable!RenderPrimary, RenderPrimary, Reliable!Render, Render,
         Reliable!Back, Back, Reliable!kernelVars, kernelVars
<1>7. Reliable!RenderOverlay => RenderOverlay
  BY DEF Reliable!RenderOverlay, RenderOverlay, Reliable!Render, Render,
         Reliable!Back, Back, Reliable!kernelVars, kernelVars
<1>8. Reliable!WaitDone => WaitDone
  BY DEF Reliable!WaitDone, WaitDone, Reliable!Waits, Waits,
         Reliable!AfterWait, AfterWait, Reliable!memory, memory,
         Reliable!kernelVars, kernelVars
<1>9. Reliable!HandleEvents => HandleEvents
  BY DEF Reliable!HandleEvents, HandleEvents, Reliable!Waits, Waits,
         Reliable!memory, memory
<1>10. Reliable!WaitGivesUp => WaitGivesUp
  BY DEF Reliable!WaitGivesUp, WaitGivesUp, Reliable!Waits, Waits,
         Reliable!AfterWait, AfterWait, Reliable!memory, memory,
         Reliable!kernelVars, kernelVars
<1>11. Reliable!CommitAccepted => CommitAccepted
  BY DEF Reliable!CommitAccepted, CommitAccepted, Reliable!Planes, Planes,
         Reliable!Back, Back, Reliable!memory, memory
<1>12. Reliable!CommitRefused => CommitRefused
  BY DEF Reliable!CommitRefused, CommitRefused, Reliable!memory, memory,
         Reliable!kernelVars, kernelVars
<1>13. Reliable!DisablePlanes => DisablePlanes
  BY DEF Reliable!DisablePlanes, DisablePlanes, Reliable!Off, Off,
         Reliable!memory, memory
<1>14. Reliable!RestoreCrtc => RestoreCrtc
  BY DEF Reliable!RestoreCrtc, RestoreCrtc, Reliable!Saved, Saved,
         Reliable!memory, memory
<1>15. Reliable!DestroyBuffers => DestroyBuffers
  BY DEF Reliable!DestroyBuffers, DestroyBuffers, Reliable!Planes, Planes,
         Reliable!NotOurs, NotOurs, Reliable!Saved, Saved, Reliable!Off,
         Off, Reliable!memory, memory
<1>16. Reliable!Signal => Signal
  BY DEF Reliable!Signal, Signal, Reliable!memory, memory,
         Reliable!kernelVars, kernelVars
<1>17. Reliable!VBlank => VBlank
  BY DEF Reliable!VBlank, VBlank, Reliable!procVars, procVars,
         Reliable!memory, memory
<1> QED
  BY <1>1, <1>2, <1>3, <1>4, <1>5, <1>6, <1>7, <1>8, <1>9, <1>10,
     <1>11, <1>12, <1>13, <1>14, <1>15, <1>16, <1>17
     DEF Reliable!Next, Next, Reliable!App, App

LEMMA LateSteps == Late!Next => Next
<1>1. Late!DrmInit => DrmInit
  BY DEF Late!DrmInit, DrmInit, Late!Planes, Planes,
         Late!memory, memory
<1>2. Late!DrmInitFails => DrmInitFails
  BY DEF Late!DrmInitFails, DrmInitFails, Late!memory, memory,
         Late!kernelVars, kernelVars
<1>3. Late!LoopTest => LoopTest
  BY DEF Late!LoopTest, LoopTest, Late!memory, memory,
         Late!kernelVars, kernelVars
<1>4. Late!Update => Update
  BY DEF Late!Update, Update, Late!memory, memory,
         Late!kernelVars, kernelVars
<1>5. Late!DrawCursor => DrawCursor
  BY DEF Late!DrawCursor, DrawCursor, Late!kernelVars, kernelVars
<1>6. Late!RenderPrimary => RenderPrimary
  BY DEF Late!RenderPrimary, RenderPrimary, Late!Render, Render,
         Late!Back, Back, Late!kernelVars, kernelVars
<1>7. Late!RenderOverlay => RenderOverlay
  BY DEF Late!RenderOverlay, RenderOverlay, Late!Render, Render,
         Late!Back, Back, Late!kernelVars, kernelVars
<1>8. Late!WaitDone => WaitDone
  BY DEF Late!WaitDone, WaitDone, Late!Waits, Waits,
         Late!AfterWait, AfterWait, Late!memory, memory,
         Late!kernelVars, kernelVars
<1>9. Late!HandleEvents => HandleEvents
  BY DEF Late!HandleEvents, HandleEvents, Late!Waits, Waits,
         Late!memory, memory
<1>10. Late!WaitGivesUp => WaitGivesUp
  BY DEF Late!WaitGivesUp, WaitGivesUp, Late!Waits, Waits,
         Late!AfterWait, AfterWait, Late!memory, memory,
         Late!kernelVars, kernelVars
<1>11. Late!CommitAccepted => CommitAccepted
  BY DEF Late!CommitAccepted, CommitAccepted, Late!Planes, Planes,
         Late!Back, Back, Late!memory, memory
<1>12. Late!CommitRefused => CommitRefused
  BY DEF Late!CommitRefused, CommitRefused, Late!memory, memory,
         Late!kernelVars, kernelVars
<1>13. Late!DisablePlanes => DisablePlanes
  BY DEF Late!DisablePlanes, DisablePlanes, Late!Off, Off,
         Late!memory, memory
<1>14. Late!RestoreCrtc => RestoreCrtc
  BY DEF Late!RestoreCrtc, RestoreCrtc, Late!Saved, Saved,
         Late!memory, memory
<1>15. Late!DestroyBuffers => DestroyBuffers
  BY DEF Late!DestroyBuffers, DestroyBuffers, Late!Planes, Planes,
         Late!NotOurs, NotOurs, Late!Saved, Saved, Late!Off,
         Off, Late!memory, memory
<1>16. Late!Signal => Signal
  BY DEF Late!Signal, Signal, Late!memory, memory,
         Late!kernelVars, kernelVars
<1>17. Late!VBlank => VBlank
  BY DEF Late!VBlank, VBlank, Late!procVars, procVars,
         Late!memory, memory
<1> QED
  BY <1>1, <1>2, <1>3, <1>4, <1>5, <1>6, <1>7, <1>8, <1>9, <1>10,
     <1>11, <1>12, <1>13, <1>14, <1>15, <1>16, <1>17
     DEF Late!Next, Next, Late!App, App

(* In the suite the framework does what it does alone, whatever is played: *)
(* its theorems hold here.                                                 *)
THEOREM FramesShown == GamesSpec => Spec
<1>1. GamesInit => Init
  BY DEF GamesInit
<1>2. [GamesNext]_allVars => [Next]_vars
  BY LateSteps, ReliableSteps DEF GamesNext, PlayTetris, Play, ShowFrames, allVars
<1> QED
  BY <1>1, <1>2, PTL DEF GamesSpec, Spec

(* Every program of the suite keeps its state in the ranges its tables     *)
(* have room for.                                                          *)
THEOREM SuiteTypesCorrect == GamesSpec => []GamesTypeOK
<1> DEFINE Types1 == /\ sel = "breaker" => Breaker!TypeOK
                     /\ sel = "breakout" => Breakout!TypeOK
                     /\ sel = "pong" => Pong!TypeOK
                     /\ sel = "whack" => Whack!TypeOK
                     /\ sel = "snake" => Snake!TypeOK
                     /\ sel = "puzzle" => Puzzle!TypeOK
           Types2 == /\ sel = "tetris" => Tetris!TypeOK
                     /\ sel = "catch" => Catch!TypeOK
                     /\ sel = "racing" => Racing!TypeOK
                     /\ sel = "platformer" => Platformer!TypeOK
                     /\ sel = "asteroids" => Asteroids!TypeOK
           Types3 == /\ sel = "ninja" => Ninja!TypeOK
                     /\ sel = "shooter" => Shooter!TypeOK
                     /\ sel = "tower" => Tower!TypeOK
                     /\ sel = "flappy" => Flappy!TypeOK
                     /\ sel = "invaders" => Invaders!TypeOK
<1>1. GamesSpec => []Types1
  BY BreakerInSuite, BreakoutInSuite, PongInSuite, WhackInSuite,
     SnakeInSuite, PuzzleInSuite, PTL
<1>2. GamesSpec => []Types2
  BY TetrisInSuite, CatchInSuite, RacingInSuite, PlatformerInSuite,
     AsteroidsInSuite, PTL
<1>3. GamesSpec => []Types3
  BY NinjaInSuite, ShooterInSuite, TowerInSuite, FlappyInSuite,
     InvadersInSuite, PTL
<1>4. Types1 /\ Types2 /\ Types3 /\ TypeOK => GamesTypeOK
  BY DEF GamesTypeOK
<1> HIDE DEF Types1, Types2, Types3
<1> QED
  BY <1>1, <1>2, <1>3, <1>4, FramesShown, TypeCorrect, PTL

(* In the suite, the boards stay whole through every order of keys, falls  *)
(* and matches (lock_piece, clear_lines and spawn_piece of drm-tetris.c,   *)
(* game_update of drm-puzzle.c, drm-snake.c and drm-invaders.c).           *)
THEOREM BoardsStayWhole == GamesSpec => []BoardsWhole
<1>1. /\ sel = "tetris" => Tetris!PieceFits /\ Tetris!BoardAccount
      /\ sel = "puzzle" => Puzzle!BoardSettled /\ Puzzle!SelectionStill
      /\ sel = "snake" => Snake!BodyIsPath /\ Snake!NeverReverses
      /\ sel = "invaders" => Invaders!FormationInside
      => BoardsWhole
  BY DEF BoardsWhole
<1> QED
  BY <1>1, TetrisInSuite, PuzzleInSuite, SnakeInSuite, InvadersInSuite, PTL

(* In the suite, scores, levels, speeds and gold are those of what         *)
(* happened in this game, also when several things happen in one pass of   *)
(* its game_update.                                                        *)
THEOREM ScoresStayTrue == GamesSpec => []ScoresTrue
<1>1. /\ sel = "whack" => Whack!HitOncePerAppearance
      /\ sel = "tetris" => Tetris!SpeedOfLevel
      /\ sel = "snake" => Snake!LengthOfScore
      /\ sel = "catch" => Catch!LevelOfFruits
      /\ sel = "flappy" => Flappy!CountedOnce
      /\ sel = "ninja" => Ninja!ComboCounted
      /\ sel = "pong" => Pong!SpeedOfRally
      /\ sel = "shooter" => Shooter!LevelOfKills
      /\ sel = "tower" => Tower!GoldAccount
      /\ sel = "platformer" => Platformer!CoinsOnce
      => ScoresTrue
  BY DEF ScoresTrue
<1> QED
  BY <1>1, WhackInSuite, TetrisInSuite, SnakeInSuite, CatchInSuite,
     FlappyInSuite, NinjaInSuite, PongInSuite, ShooterInSuite,
     TowerInSuite, PlatformerInSuite, PTL

(* In the suite, a game ends when and only when its rules say so, and one  *)
(* that goes on has something left to play for.                            *)
THEOREM GamesEndRightly == GamesSpec => []EndsRightly
<1>1. /\ sel = "invaders" => Invaders!EndExplained
      /\ sel = "asteroids" => Asteroids!ShipAccounted /\ Asteroids!WaveGoesOn
      /\ sel = "breaker" => Breaker!GameGoesOn
      /\ sel = "breakout" => Breakout!GameGoesOn
      /\ sel = "catch" => Catch!EndsWithLives
      /\ sel = "ninja" => Ninja!EndsWithMisses
      /\ sel = "pong" => Pong!WonByOne
      /\ sel = "racing" => Racing!OverWithLives
      /\ sel = "tower" => Tower!WaveAccount
      => EndsRightly
  BY DEF EndsRightly
<1> QED
  BY <1>1, InvadersInSuite, AsteroidsInSuite, BreakerInSuite,
     BreakoutInSuite, CatchInSuite, NinjaInSuite, PongInSuite,
     RacingInSuite, TowerInSuite, PTL

(* In the suite, what meets in a pass is seen in that pass: no step is so  *)
(* long that a ball passes through a paddle in play, or a player through   *)
(* the ground, and no object is left where the game does not look for it   *)
(* (the collision checks in the game_update of each game).                 *)
THEOREM NothingIsMissed == GamesSpec => NothingMissed
<1>1. /\ sel = "whack" => Whack!MolesBounded
      /\ sel = "breaker" => Breaker!BallOnPaddle
      /\ sel = "breakout" => Breakout!BallInCourt
      /\ sel = "catch" => Catch!NothingFallsThrough
      /\ sel = "flappy" => Flappy!PipesEven
      /\ sel = "shooter" => Shooter!NoHitMissed
      /\ sel = "platformer" => Platformer!StandsOnSomething
      => Seen
  BY DEF Seen
<1>2. Seen /\ Seen' /\ [sel = "pong" => Pong!BallMeetsPaddle]_game
        /\ [sel = "platformer" => Platformer!GroundHolds]_game
      => [/\ Seen /\ Seen'
          /\ sel = "pong" => Pong!BallMeetsPaddle
          /\ sel = "platformer" => Platformer!GroundHolds]_game
  OBVIOUS
<1> QED
  BY <1>1, <1>2, WhackInSuite, BreakerInSuite, BreakoutInSuite, CatchInSuite,
     FlappyInSuite, ShooterInSuite, PlatformerInSuite, PongInSuite, PTL
     DEF NothingMissed

(* In the suite, the buffers drawn into are free, the planes change        *)
(* together and never go back, and frames are skipped only after a wait    *)
(* that gave up (drm_atomic_flip and drm_wait_flip).                       *)
THEOREM FramesStayWhole ==
    GamesSpec => [](BackBuffersFree /\ PlanesInStep /\ SkipsOnlyIfLate) /\ ScreenForward
BY FramesShown, NeverDrawsOnScreen, PlanesTogether, SkipsExplained, ScreenNeverBack, PTL

(* In the suite, the program that meets no failure leaves the screen as it *)
(* found it, however late the blanks come (drm_cleanup).                   *)
THEOREM ScreenLeftAsFound ==
    GamesSpec => []/\ sel = "late" => Late!ScreenRestored
                   /\ sel = "reliable" => Reliable!ScreenRestored
<1> DEFINE Careful == sel \in {"late", "reliable"}
           Tidied == Careful => TidiedUp
           Restored == /\ sel = "late" => Late!ScreenRestored
                       /\ sel = "reliable" => Reliable!ScreenRestored
<1>1. GamesInit => Tidied
  BY DEF GamesInit, Init, TidiedUp
<1>2. TypeOK /\ Tidied /\ [GamesNext]_allVars => Tidied'
  <2> SUFFICES ASSUME TypeOK, Careful => TidiedUp, [GamesNext]_allVars, Careful'
               PROVE  TidiedUp'
    OBVIOUS
  <2> DEFINE Tidy == /\ pc' # "failed"
                     /\ pc = "disable" /\ pc' = "restore"
                          => ~busy /\ screen' = [screen EXCEPT !["overlay"] = Off]
                     /\ pc = "restore" /\ pc' = "destroy"
                          => screen' = [screen EXCEPT !["primary"] = Saved]
  <2>1. TidiedUp /\ (Late!Next \/ Reliable!Next \/ UNCHANGED vars)
    BY DEF GamesNext, PlayTetris, Play, ShowFrames, allVars
  <2>2. [Next]_vars
    BY <2>1, LateSteps, ReliableSteps
  <2>3. CASE Late!Next
    <3>1. Tidy
      BY <2>1, <2>3
         DEF Off, Saved, Late!Next, Late!App, Late!DrmInit, Late!DrmInitFails,
             Late!LoopTest, Late!Update, Late!DrawCursor,
             Late!RenderPrimary, Late!RenderOverlay, Late!WaitDone,
             Late!HandleEvents, Late!WaitGivesUp, Late!AfterWait,
             Late!CommitAccepted, Late!CommitRefused, Late!DisablePlanes,
             Late!RestoreCrtc, Late!DestroyBuffers, Late!Signal,
             Late!VBlank, Late!Off, Late!Saved, Late!procVars, TidiedUp, vars, procVars
    <3> QED
      BY <2>1, <2>2, <3>1, TidyStep
  <2>4. CASE Reliable!Next
    <3>1. Tidy
      BY <2>1, <2>4
         DEF Off, Saved, Reliable!Next, Reliable!App, Reliable!DrmInit,
             Reliable!DrmInitFails, Reliable!LoopTest, Reliable!Update,
             Reliable!DrawCursor, Reliable!RenderPrimary,
             Reliable!RenderOverlay, Reliable!WaitDone,
             Reliable!HandleEvents, Reliable!WaitGivesUp,
             Reliable!AfterWait, Reliable!CommitAccepted,
             Reliable!CommitRefused, Reliable!DisablePlanes,
             Reliable!RestoreCrtc, Reliable!DestroyBuffers, Reliable!Signal,
             Reliable!VBlank, Reliable!Off, Reliable!Saved,
             Reliable!procVars, TidiedUp, vars, procVars
    <3> QED
      BY <2>1, <2>2, <3>1, TidyStep
  <2>5. CASE UNCHANGED vars
    BY <2>1, <2>5 DEF TidiedUp, vars, procVars, kernelVars
  <2> QED
    BY <2>1, <2>3, <2>4, <2>5
<1>3. Tidied => Restored
  BY DEF TidiedUp, NotOurs, Saved, Off,
         Late!ScreenRestored, Late!Exited, Late!NotOurs, Late!Saved, Late!Off,
         Reliable!ScreenRestored, Reliable!Exited, Reliable!NotOurs,
         Reliable!Saved, Reliable!Off
<1> HIDE DEF Tidied, Restored
<1>4. GamesSpec => []Restored
  BY <1>1, <1>2, <1>3, FramesShown, TypeCorrect, PTL DEF GamesSpec
<1> QED
  BY <1>4 DEF Restored
=============================================================================
