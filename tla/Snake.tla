-------------------------------- MODULE Snake -------------------------------
(***************************************************************************)
(* The game of n7OS, bin/snake.c: one process, which every INPUT_TICK_MS   *)
(* takes the keys that have come and, every so many ticks, moves the snake *)
(* and redraws the cells that have changed.                                *)
(*                                                                         *)
(* One iteration of its loop is one step; the keys that came since the     *)
(* last one are chosen then.  The random number generator is a choice      *)
(* among the cells it is asked for.  What the calls of the console draw    *)
(* is `picture`, the cells inside the border (see Console for the calls).  *)
(***************************************************************************)
EXTENDS Integers, SequencesExt

CONSTANTS
    GAME_WIDTH, GAME_HEIGHT,    \* 40 and 15
    MAX_SNAKE,                  \* 500
    INPUT_TICK_MS,              \* 20
    INITIAL_SPEED,              \* 100 ms between moves
    LEAST_SPEED,                \* 50
    SPEED_STEP,                 \* 5
    MaxStrokes                  \* bound: keys that come in one tick

UP    == "UP"
DOWN  == "DOWN"
LEFT  == "LEFT"
RIGHT == "RIGHT"
Directions == {UP, DOWN, LEFT, RIGHT}
QUIT  == "QUIT"     \* the x key; the keys of the directions are called like them
Strokes == UNION {[1 .. n -> Directions \cup {QUIT}] : n \in 0 .. MaxStrokes}

\* Where the head may be: check_collision, and the cells generate_food draws.
Inside == (1 .. GAME_WIDTH - 2) \X (1 .. GAME_HEIGHT - 2)
Board  == (0 .. GAME_WIDTH - 1) \X (0 .. GAME_HEIGHT - 1)

ASSUME SnakeAssumption ==
    /\ GAME_WIDTH \in Nat /\ GAME_WIDTH >= 6
    /\ GAME_HEIGHT \in Nat /\ GAME_HEIGHT >= 4
    /\ MaxStrokes \in Nat
    /\ MAX_SNAKE \in Nat /\ MAX_SNAKE >= (GAME_WIDTH - 2) * (GAME_HEIGHT - 2)
    /\ {INPUT_TICK_MS, INITIAL_SPEED, LEAST_SPEED, SPEED_STEP} \subseteq Nat \ {0}
    /\ LEAST_SPEED <= INITIAL_SPEED
    /\ (INITIAL_SPEED - LEAST_SPEED) % SPEED_STEP = 0

VARIABLES
    phase,          \* "title", "playing", "over", or "stuck" in generate_food's loop
    body,           \* snake_state.body[0 .. length - 1]; the head is body[1] here
    direction, next_direction,
    food,
    parity,          \* the parity of the columns the generator draws in this game
    game_over,
    score, speed, elapsed_ms,
    picture         \* what each cell of the board shows

game  == <<body, direction, next_direction, food, parity, game_over, score, speed, elapsed_ms, picture>>
svars == <<phase, game>>

-----------------------------------------------------------------------------
init_snake == LET y == GAME_HEIGHT \div 2
              IN  [i \in 1 .. 3 |-> <<GAME_WIDTH \div 2 - (i - 1), y>>]

\* generate_food draws until the cell is not on the snake.  The lowest bit of simple_rand
\* alternates and every column is an odd call: with an even width they have one parity.
Drawable(bit) == {c \in Inside : GAME_WIDTH % 2 = 0 => c[1] % 2 = bit}

Free(b, bit) == {c \in Drawable(bit) : \A i \in 1 .. Len(b) : b[i] # c}

draw_game_full_once(b, f) ==
    [c \in Board |-> CASE c = b[1] -> "@"
                       [] c # b[1] /\ c \in ToSet(b) -> "o"
                       [] c \notin ToSet(b) /\ c = f -> "*"
                       [] OTHER -> " "]

\* A title screen: what the variables hold before a game is never used.
SnakeInit ==
    /\ phase = "title"
    /\ parity \in {0, 1} /\ food \in Free(init_snake, parity)
    /\ body = init_snake /\ direction = RIGHT /\ next_direction = RIGHT
    /\ game_over = FALSE /\ score = 0 /\ speed = INITIAL_SPEED /\ elapsed_ms = 0
    /\ picture = draw_game_full_once(init_snake, food)

\* Any key begins a game; the parity comes from the number of the process.
start ==
    /\ phase = "title" /\ phase' = "playing"
    /\ parity' \in {0, 1} /\ food' \in Free(init_snake, parity')
    /\ body' = init_snake /\ direction' = RIGHT /\ next_direction' = RIGHT
    /\ game_over' = FALSE /\ score' = 0 /\ speed' = INITIAL_SPEED /\ elapsed_ms' = 0
    /\ picture' = draw_game_full_once(init_snake, food')

-----------------------------------------------------------------------------
Opposite == [d \in Directions |-> CASE d = UP -> DOWN [] d = DOWN -> UP
                                      [] d = LEFT -> RIGHT [] d = RIGHT -> LEFT]

\* Mutant: the key is compared with the direction asked for last.
Turns_Asked(key) == key \in Directions /\ next_direction # Opposite[key]

\* A key that turns the snake: it is refused if it is opposite to the last move.
Turns(key) == key \in Directions /\ direction # Opposite[key]

\* The last key that turns it is obeyed.
handle_input(strokes) ==
    \/ /\ \A i \in DOMAIN strokes : ~ Turns(strokes[i])
       /\ next_direction' = next_direction
    \/ \E i \in DOMAIN strokes :
          /\ Turns(strokes[i])
          /\ \A j \in DOMAIN strokes : j > i => ~ Turns(strokes[j])
          /\ next_direction' = strokes[i]

Quits(strokes) == \E i \in DOMAIN strokes : strokes[i] = QUIT

-----------------------------------------------------------------------------
Step(p, d) ==
    CASE d = UP    -> <<p[1], p[2] - 1>>
      [] d = DOWN  -> <<p[1], p[2] + 1>>
      [] d = LEFT  -> <<p[1] - 1, p[2]>>
      [] d = RIGHT -> <<p[1] + 1, p[2]>>

move_snake(b, d) == <<Step(b[1], d)>> \o SubSeq(b, 1, Len(b) - 1)

check_collision(b) == b[1] \notin Inside \/ \E i \in 2 .. Len(b) : b[i] = b[1]

\* Mutant: the tail is put back one cell too late.
Grown_Head(b, old_tail) == IF Len(b) < MAX_SNAKE THEN Append(b, b[1]) ELSE b

Grown(b, old_tail) == IF Len(b) < MAX_SNAKE THEN Append(b, old_tail) ELSE b

put_at(pic, p, c) == [pic EXCEPT ![p] = c]

\* Mutant: the old head is not redrawn.
draw_game_diff_TwoHeads(pic, old_head, new_head, old_tail, ate, f) ==
    LET drawn == put_at(pic, new_head, "@")
    IN  IF ate THEN put_at(drawn, f, "*") ELSE put_at(drawn, old_tail, " ")

draw_game_diff(pic, old_head, new_head, old_tail, ate, f) ==
    LET drawn == put_at(put_at(pic, old_head, "o"), new_head, "@")
    IN  IF ate THEN put_at(drawn, f, "*") ELSE put_at(drawn, old_tail, " ")

Faster == IF speed > LEAST_SPEED THEN speed - SPEED_STEP ELSE speed

-----------------------------------------------------------------------------
(***************************************************************************)
(* An iteration of the loop of snake().                                    *)
(***************************************************************************)
\* The first part: the keys are read.  (x is seen by the loop's condition only.)
Iterate ==
    /\ phase = "playing" /\ ~ game_over
    /\ \E strokes \in Strokes :
        handle_input(strokes) /\ game_over' = Quits(strokes)

Due == elapsed_ms + INPUT_TICK_MS >= speed
NewBody == move_snake(body, next_direction')
Eats == NewBody[1] = food

wait ==
    /\ Iterate /\ ~ Due
    /\ elapsed_ms' = elapsed_ms + INPUT_TICK_MS
    /\ UNCHANGED <<phase, body, direction, food, parity, score, speed, picture>>

crash ==
    /\ phase = "playing" /\ ~ game_over /\ Due
    /\ \E strokes \in Strokes : handle_input(strokes)
    /\ check_collision(NewBody)
    /\ game_over' = TRUE /\ elapsed_ms' = 0
    /\ direction' = next_direction' /\ body' = NewBody
    /\ UNCHANGED <<phase, food, parity, score, speed, picture>>

advance ==
    /\ Iterate /\ Due
    /\ ~ check_collision(NewBody) /\ ~ Eats
    /\ elapsed_ms' = 0
    /\ direction' = next_direction' /\ body' = NewBody
    /\ picture' = draw_game_diff(picture, body[1], NewBody[1], Last(body), FALSE, food)
    /\ UNCHANGED <<phase, food, parity, score, speed>>

eat ==
    /\ Iterate /\ Due
    /\ ~ check_collision(NewBody) /\ Eats
    /\ elapsed_ms' = 0
    /\ direction' = next_direction' /\ body' = Grown(NewBody, Last(body))
    /\ score' = score + 10 /\ speed' = Faster
    /\ \E f \in Free(body', parity) :
        food' = f /\ picture' = draw_game_diff(picture, body[1], body'[1], Last(body), TRUE, f)
    /\ UNCHANGED <<phase, parity>>

\* No cell is left for the food: generate_food draws forever, and nothing is drawn on the screen.
fill ==
    /\ Iterate /\ Due
    /\ ~ check_collision(NewBody) /\ Eats
    /\ body' = Grown(NewBody, Last(body)) /\ Free(body', parity) = {}
    /\ phase' = "stuck"
    /\ direction' = next_direction'
    /\ score' = score + 10 /\ speed' = Faster
    /\ UNCHANGED <<food, parity, elapsed_ms, picture>>

\* The end screen replaces the board; any key leaves it, for the next game's title.
finish == phase = "playing" /\ game_over /\ phase' = "over" /\ UNCHANGED game
leave  == phase = "over" /\ phase' = "title" /\ UNCHANGED game

SnakeNext == start \/ wait \/ crash \/ advance \/ eat \/ fill \/ finish \/ leave
SnakeSpec == SnakeInit /\ [][SnakeNext]_svars

-----------------------------------------------------------------------------
(***************************************************************************)
(* Properties.                                                             *)
(***************************************************************************)
\* As long as it lives the snake is a path of distinct cells inside the walls, each beside
\* the one before; it has grown by one cell for each food (move_snake, check_food).
BodyIsPath ==
    /\ \A i \in 1 .. Len(body) - 1 : \E d \in Directions : body[i] = Step(body[i + 1], d)
    /\ Len(body) * 10 = 30 + score
    /\ phase = "playing" /\ ~ game_over => ToSet(body) \subseteq Inside /\ IsInjective(body)

\* However fast the keys come, a snake never turns back onto its second cell
\* (handle_input compares with the last move, not with the last key).
NoReversal == [][phase = "playing" => body'[1] # body[2]]_svars

\* The food is never under the snake, not even under one that has just hit something.
FoodFree == phase = "playing" => food \notin ToSet(body)

\* While it lives the board shows the snake and the food and nothing else; only the head may
\* be missing, because draw_game_diff erases the old tail after it has drawn the head.
PictureAgrees ==
    phase = "playing" /\ ~ game_over =>
        \A c \in Board :
            \/ picture[c] = draw_game_full_once(body, food)[c]
            \/ c = body[1] /\ picture[c] = " "
=============================================================================
