--------------------------- MODULE MCGroundFilter ---------------------------
(***************************************************************************)
(* A grid of one-metre cells in front of the car.  The bare ground has one *)
(* of the Profiles, and at most two cells hold something else.              *)
(***************************************************************************)
EXTENDS GroundFilter

\* <<least, most>> top height of an obstacle, near and far.
Near == <<100, 400>>
Far == <<0, 500>>

\* The configured ground height, ten centimetres off.
Mounted == -100

\* The heights seen on bare ground, by column: level, a ramp, a kerb before
\* the last columns, and rough ground in them.
Profiles ==
  {[col \in 0 .. Cols - 1 |-> {0}],
   [col \in 0 .. Cols - 1 |-> {300 * col}],
   [col \in 0 .. Cols - 1 |-> IF col < SeedCols THEN {0} ELSE {400}],
   [col \in 0 .. Cols - 1 |-> IF col < SeedCols THEN {0} ELSE {0, 30}]}

\* What a cell may hold, above its bare ground: nothing seen, a low obstacle
\* with the ground beside it, one that hides the ground, a post, a person.
Odd == {{}, {0, 200}, {150, 350}, {0, 600}, {0, 200, 400, 600}}

\* What the cells hold above the bare ground: at most two of them are odd.
Scenes ==
  {[c \in Cells |-> IF c = a THEN p ELSE IF c = b THEN q ELSE {0}] :
     a \in Cells, b \in Cells, p \in Odd, q \in Odd \cup {{0}}}

SmallClouds ==
  {[c \in Cells |-> {g + h : g \in bare[c[2]], h \in scene[c]}] :
     scene \in Scenes, bare \in Profiles}
=============================================================================
