----------------------------- MODULE MechBlocks -----------------------------
(***************************************************************************)
(* The blocks of a packet of a rotating LiDAR.  The decoder takes from the *)
(* azimuths of the blocks how far the LiDAR turned during each of them and *)
(* how long after the packet's time stamp it was fired                     *)
(* (driver/decoder/block_iterator.hpp).  The unit of time is the firing    *)
(* time of a block, BLOCK_DURATION, the unit of angle what a LiDAR at 10   *)
(* rounds per second turns in it.                                          *)
(*                                                                         *)
(* An iterator is a function of the azimuths az of the blocks, of          *)
(*   step   BLOCK_AZ_DURATION, the turn per block the last DIFOP implies,  *)
(*   blind  FOV_BLIND_DURATION, the time the LiDAR is dark in a round,     *)
(*   jump   the angle (1 degree) beyond which two blocks are taken to be   *)
(*          on the two sides of the dark sector.                           *)
(***************************************************************************)
EXTENDS SplitStrategy, Sequences

Turn(a, b) == (b - a) % Round

\* Groups of g blocks fired together, k block durations after each other.
Stepped(az, g, k, u) ==
    LET head(i) == ((i - 1) \div g) * g + 1
        isLast(i) == head(i) + g > Len(az)
        turn(i) == Turn(az[head(i)], az[head(i) + g])
        ts[i \in 1 .. Len(az)] ==
            IF i <= g THEN 0
            ELSE ts[i - g] + (IF turn(i - g) > u.jump THEN u.blind ELSE k)
    IN  [i \in 1 .. Len(az) |->
            [ ts   |-> ts[i],
              diff |-> IF isLast(i) \/ turn(i) > u.jump
                       THEN k * u.step ELSE turn(i) ]]

SingleReturn(az, u)     == Stepped(az, 1, 1, u)
DualReturn(az, u)       == Stepped(az, 2, 1, u)
TwoInOne(az, u)         == Stepped(az, 2, 1, u)
FourInOne(az, u)        == Stepped(az, 4, 1, u)
Rs16SingleReturn(az, u) == Stepped(az, 1, 2, u)
Rs16DualReturn(az, u)   == Stepped(az, 1, 1, u)

\* Three blocks, two of which (A A B or A B B) are the two returns of one.
ABDualReturn(az, u) ==
    LET dark == Turn(az[1], az[3]) > u.jump
        first  == [ts |-> 0, diff |-> IF dark THEN u.step ELSE Turn(az[1], az[3])]
        second == [ts |-> IF dark THEN u.blind ELSE 1, diff |-> u.step]
    IN  IF az[1] = az[2] THEN <<first, first, second>>
                         ELSE <<first, second, second>>
=============================================================================
