--------------------------- MODULE SplitStrategy ---------------------------
(***************************************************************************)
(* Where rs_driver cuts the stream of packets into frames                  *)
(* (driver/decoder/split_strategy.hpp): by the angle of the blocks, by     *)
(* their number, or, for the LiDARs without a rotating part, by the        *)
(* sequence number of the packets.  A strategy keeps a little state; each  *)
(* operator below is one call of newBlock or newPacket.                    *)
(***************************************************************************)
EXTENDS Naturals, Integers

CONSTANTS
    Round,      \* one revolution, RS_ONE_ROUND
    SplitAngle, \* split_angle of the configuration
    Range       \* RANGE: how far a packet may be out of its place

ASSUME RoundAssumption == Round \in Nat \ {0}
ASSUME SplitAngleAssumption == SplitAngle \in 0 .. Round - 1
ASSUME RangeAssumption == Range \in Nat \ {0}

\* SplitStrategyByAngle::newBlock: an angle smaller than the last one means
\* that the zero angle was passed in between.
AngleSplitUnwrapped(prev, angle) ==                    (* mutant: no zero angle *)
    prev < SplitAngle /\ SplitAngle <= angle
AngleSplit(prev, angle) ==
    LET from == IF angle < prev THEN prev - Round ELSE prev
    IN  from < SplitAngle /\ SplitAngle <= angle

\* SplitStrategyByNum::newBlock: blks has counted the blocks before this one.
NumSplitLate(blks, max) == blks >= max                 (* mutant: counted afterwards *)
NumSplit(blks, max) == blks + 1 >= max
NumCount(blks, max) == IF NumSplit(blks, max) THEN 0 ELSE blks + 1

\* SplitStrategyBySeq: the state, the safe range around the last sequence
\* number, and newPacket.
SeqStart == [prev |-> 0, max |-> 0, looped |-> FALSE]
SafeMin(s) == IF s.prev > Range THEN s.prev - Range ELSE 0
SafeMax(s) == s.prev + Range
SeqSplitAny(s, seq) == seq < s.prev                    (* mutant: any smaller number *)
SeqSplit(s, seq) == seq < SafeMin(s)
SeqNext(s, seq) ==
    [ prev   |-> IF \/ SeqSplit(s, seq)
                    \/ seq \in s.prev .. SafeMax(s)
                    \/ s.prev = 0
                 THEN seq ELSE s.prev,
      max    |-> IF seq > s.max THEN seq ELSE s.max,
      looped |-> s.looped \/ SeqSplit(s, seq) ]
\* maxSeq(): known once the numbers have started over.
MaxSeq(s) == IF s.looped THEN s.max ELSE 0
=============================================================================
