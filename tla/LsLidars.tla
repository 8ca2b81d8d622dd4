------------------------------ MODULE LsLidars ------------------------------
(***************************************************************************)
(* The decoders of ls_driver (ls_driver/Include/GetLidarData_*.cpp): one   *)
(* class per LiDAR, each with its own loop over the queued packets         *)
(* (LidarRun) and its own two ways to take a packet apart, for one return  *)
(* per laser pulse or two.  They differ in where they end a cloud:         *)
(*                                                                         *)
(*   the C LiDARs   at the first point in a window behind endFrameAngle,   *)
(*                  once enough blocks were counted (WindowPacket);        *)
(*   CH and LS128   at a mark in the stream of points (MarkPacket);        *)
(*   M10            where the angle falls back (M10Packet).                *)
(*                                                                         *)
(* A cloud under way is a pair of lists of points, one per return.  Of a   *)
(* list the model keeps the number of its points and, to tell what was     *)
(* mixed, the rounds they were measured in.                                *)
(***************************************************************************)
EXTENDS Integers, Sequences, FiniteSets, FiniteSetsExt, SequencesExt

CONSTANTS
    Circle,     \* a revolution, 360 degrees, in the model's unit of angle
    EndAngle,   \* endFrameAngle, 90 degrees
    MinBlocks,  \* blocks after which a cloud may end, 100
    Widths,     \* the windows of the C LiDARs: [narrow, wide] (5 degrees for
                \* the 16 lines of C16_v3, what the others take per line)
    BeamOffset, \* offsetAngle of the second column of beams of C32_70D
    Fallback,   \* fall of the angle that ends a cloud of M10, 15 degrees
    MaxPoints   \* bound of the model: points of a list are counted up to it

ASSUME CircleAssumption == Circle \in Nat \ {0} /\ EndAngle \in 0 .. Circle - 1
ASSUME WidthAssumption == Widths.narrow \in 1 .. Circle /\ Widths.wide \in 1 .. Circle

\* The lists all_lidardata and all_lidardata_d.
None == [n |-> 0, rounds |-> {}]
Joined(a, b) == [n |-> Min({a.n + b.n, MaxPoints}), rounds |-> a.rounds \cup b.rounds]
Garbage == 3   \* the round of a point that was never measured

\* A decoder: Model (echo), the two lists, and what single LiDARs keep.
LsStart ==
    [ echo |-> 0, all |-> None, all_d |-> None,
      blocks |-> 0, end |-> EndAngle, oriented |-> FALSE,  \* C LiDARs
      adjust |-> <<0, 0>>, vertical |-> "preset",          \* C16_v3, C32_v3
      prism |-> 0,                                         \* CH LiDARs
      difop |-> FALSE, add |-> FALSE, total |-> <<>>,      \* LS128
      azimuth |-> 0, crashed |-> FALSE ]                   \* M10

Ignored(d) == [d |-> d, out |-> <<>>]

\* sendLidarData: what the callback gets, and the lists afterwards.
Handed(d) == CASE d.echo = 0 -> Joined(d.all, d.all_d)
               [] d.echo = 1 -> d.all
               [] d.echo = 2 -> d.all_d
ClearedFirst(d) == [d EXCEPT !.all = None]        (* mutant: the second list goes on *)
Cleared(d) == [d EXCEPT !.all = None, !.all_d = None]
Added(d, points, dual) ==
    [d EXCEPT !.all = Joined(@, points),
              !.all_d = IF dual THEN Joined(@, points) ELSE @]

-----------------------------------------------------------------------------
\* The C LiDARs.  A packet has the angle of each block (of each pair of blocks
\* with two returns), az; its points are spread between a block and the next,
\* or, behind the last block, as far as before it.  at is the angle counted
\* through, only to tell rounds apart.

InWindowHalf(end, angle, width) ==                        (* mutant: half as wide *)
    angle > end /\ angle - end < width \div 2
InWindow(end, angle, width) == angle > end /\ angle - end < width

MayEnd(blocks) == blocks > MinBlocks

WindowPacket(d, p, beams, width, dual) ==
    LET n == Len(p.az)
        turn(i) == IF i < n THEN (p.az[i + 1] - p.az[i]) % Circle
                            ELSE (p.az[n] - p.az[n - 1]) % Circle
        points == (1 .. n) \X {0, 1} \X DOMAIN beams
        ahead(q) == (turn(q[1]) * q[2]) \div 2 + beams[q[3]]
        angle(q) == LET a == p.az[q[1]] + ahead(q) IN IF a < Circle THEN a ELSE a - Circle
        new == {q \in points : /\ MayEnd(d.blocks + Min({q[1] + 1, n}))
                               /\ InWindow(d.end, angle(q), width)}
        spread == Max({beams[i] - beams[j] : i, j \in DOMAIN beams})
        past(q) == p.at[q[1]] + ahead(q) - d.end - 1 + 3 * Circle
        list(s) == [n |-> Cardinality(s),
                    rounds |-> {(past(q) \div Circle) % 3 :
                        q \in {x \in s : past(x) % Circle \in spread .. Circle - 1 - spread}}]
        filled == Added([d EXCEPT !.blocks = @ + n], list(points \ new), dual)
    IN  IF new = {} THEN Ignored(filled)
        ELSE [ d   |-> Added([Cleared(filled) EXCEPT !.blocks = 0], list(new), dual),
               out |-> <<Handed(filled)>> ]

\* C16_v4_0 alone takes the angle of its first point for endFrameAngle.
Oriented(d, p) ==
    IF d.oriented THEN d ELSE [d EXCEPT !.end = p.az[1], !.oriented = TRUE]

Plain == <<0>>

C1_v4_0 == [beams |-> Plain, width |-> Widths.wide]
C1_v4_0Single(d, p) == WindowPacket(d, p, C1_v4_0.beams, C1_v4_0.width, FALSE)
C1_v4_0Double(d, p) == WindowPacket(d, p, C1_v4_0.beams, C1_v4_0.width, TRUE)
C1_v4_0Run(d, p) ==
    IF p.kind = "device" THEN Ignored(d)
    ELSE CASE p.echo = "single" -> C1_v4_0Single(d, p)
           [] p.echo = "dual" -> C1_v4_0Double(d, p)
           [] OTHER -> Ignored(d)

C8_v4_0 == [beams |-> Plain, width |-> Widths.wide]
C8_v4_0Single(d, p) == WindowPacket(d, p, C8_v4_0.beams, C8_v4_0.width, FALSE)
C8_v4_0Double(d, p) == WindowPacket(d, p, C8_v4_0.beams, C8_v4_0.width, TRUE)
C8_v4_0Run(d, p) ==
    IF p.kind = "device" THEN Ignored(d)
    ELSE CASE p.echo = "single" -> C8_v4_0Single(d, p)
           [] p.echo = "dual" -> C8_v4_0Double(d, p)
           [] OTHER -> Ignored(d)

\* setVertialAngles: the angles of the device packet if all are near the presets.
C16_v3_0 == [beams |-> Plain, width |-> Widths.narrow]
C16_v3_0Vertical(d, p) == [d EXCEPT !.vertical = IF p.near THEN "device" ELSE "preset"]
C16_v3_0Single(d, p) == WindowPacket(d, p, C16_v3_0.beams, C16_v3_0.width, FALSE)
C16_v3_0Double(d, p) == WindowPacket(d, p, C16_v3_0.beams, C16_v3_0.width, TRUE)
C16_v3_0Run(d, p) ==
    IF p.kind = "device" THEN Ignored(C16_v3_0Vertical(d, p))
    ELSE CASE p.echo = "single" -> C16_v3_0Single(d, p)
           [] p.echo = "dual" -> C16_v3_0Double(d, p)
           [] OTHER -> Ignored(d)

C16_v4_0 == [beams |-> Plain, width |-> Widths.wide]
C16_v4_0Single(d, p) ==
    WindowPacket(Oriented(d, p), p, C16_v4_0.beams, C16_v4_0.width, FALSE)
C16_v4_0Double(d, p) == WindowPacket(d, p, C16_v4_0.beams, C16_v4_0.width, TRUE)
C16_v4_0Run(d, p) ==
    IF p.kind = "device" THEN Ignored(d)
    ELSE CASE p.echo = "single" -> C16_v4_0Single(d, p)
           [] p.echo = "dual" -> C16_v4_0Double(d, p)
           [] OTHER -> Ignored(d)

\* The device packet also sets AdjustAngle, one angle for each pair of beams.
C32_v3_0 == [beams |-> Plain, width |-> Widths.wide]
C32_v3_0Vertical(d, p) ==
    [d EXCEPT !.adjust = p.adjust, !.vertical = IF p.near THEN "device" ELSE "preset"]
C32_v3_0Single(d, p) == WindowPacket(d, p, d.adjust, C32_v3_0.width, FALSE)
C32_v3_0Double(d, p) == WindowPacket(d, p, d.adjust, C32_v3_0.width, TRUE)
C32_v3_0Run(d, p) ==
    IF p.kind = "device" THEN Ignored(C32_v3_0Vertical(d, p))
    ELSE CASE p.echo = "single" -> C32_v3_0Single(d, p)
           [] p.echo = "dual" -> C32_v3_0Double(d, p)
           [] OTHER -> Ignored(d)

C32_v4_0 == [beams |-> Plain, width |-> Widths.wide]
C32_v4_0Single(d, p) == WindowPacket(d, p, C32_v4_0.beams, C32_v4_0.width, FALSE)
C32_v4_0Double(d, p) == WindowPacket(d, p, C32_v4_0.beams, C32_v4_0.width, TRUE)
C32_v4_0Run(d, p) ==
    IF p.kind = "device" THEN Ignored(d)
    ELSE CASE p.echo = "single" -> C32_v4_0Single(d, p)
           [] p.echo = "dual" -> C32_v4_0Double(d, p)
           [] OTHER -> Ignored(d)

C32_70D_v4_0 == [beams |-> <<0, BeamOffset>>, width |-> Widths.wide]
C32_70D_v4_0Single(d, p) ==
    WindowPacket(d, p, C32_70D_v4_0.beams, C32_70D_v4_0.width, FALSE)
C32_70D_v4_0Double(d, p) ==
    WindowPacket(d, p, C32_70D_v4_0.beams, C32_70D_v4_0.width, TRUE)
C32_70D_v4_0Run(d, p) ==
    IF p.kind = "device" THEN Ignored(d)
    ELSE CASE p.echo = "single" -> C32_70D_v4_0Single(d, p)
           [] p.echo = "dual" -> C32_70D_v4_0Double(d, p)
           [] OTHER -> Ignored(d)

C32_90D_v4_0 == [beams |-> Plain, width |-> Widths.wide]
C32_90D_v4_0Single(d, p) ==
    WindowPacket(d, p, C32_90D_v4_0.beams, C32_90D_v4_0.width, FALSE)
C32_90D_v4_0Double(d, p) ==
    WindowPacket(d, p, C32_90D_v4_0.beams, C32_90D_v4_0.width, TRUE)
C32_90D_v4_0Run(d, p) ==
    IF p.kind = "device" THEN Ignored(d)
    ELSE CASE p.echo = "single" -> C32_90D_v4_0Single(d, p)
           [] p.echo = "dual" -> C32_90D_v4_0Double(d, p)
           [] OTHER -> Ignored(d)

-----------------------------------------------------------------------------
\* The CH LiDARs.  A packet is a list of entries: a point, with the round it was
\* measured in and its place in the round, or the mark (ff aa bb cc dd) between
\* two rounds.  A place stands for what the filters look at, the channel and the
\* angle: Wide is a place beyond 180 degrees, Filler one with channel 255.

Wide == 5
Filler == 6
Places == 0 .. Filler

MarkEntry(s, e, kept, dual) ==
    IF e.mark THEN [d |-> Cleared(s.d), out |-> Append(s.out, Handed(s.d))]
    ELSE IF e.place \in kept
         THEN [s EXCEPT !.d = Added(@, [n |-> 1, rounds |-> {e.round}], dual)]
         ELSE s
MarkPacket(d, p, kept, dual) ==
    LET read[i \in 0 .. Len(p.entries)] ==
            IF i = 0 THEN Ignored(d) ELSE MarkEntry(read[i - 1], p.entries[i], kept, dual)
    IN  read[Len(p.entries)]

\* A packet taken apart with the stride of the other layout: its first entry is
\* read right, the rest is read across the entries' borders.
Misread(p) ==
    [p EXCEPT !.entries = [i \in DOMAIN @ |->
        IF i = 1 THEN @[i] ELSE [mark |-> FALSE, place |-> 0, round |-> Garbage]]]

\* getOffsetAngle: the prism's angles of the device packet; zero is the default.
CH64wOffset(d, p) == [d EXCEPT !.prism = IF p.offset # 0 THEN p.offset ELSE @]
CH64wSingle(d, p) == MarkPacket(d, p, Places \ {Wide, Filler}, FALSE)
CH64wDouble(d, p) == MarkPacket(d, p, Places \ {Filler}, TRUE)
CH64wRun(d, p) ==
    IF p.kind = "device" THEN Ignored(CH64wOffset(d, p))
    ELSE IF p.echo = "dual" THEN CH64wDouble(d, p) ELSE CH64wSingle(d, p)

CH128x1Offset(d, p) == [d EXCEPT !.prism = p.offset]
CH128x1Single(d, p) == MarkPacket(d, p, Places \ {Filler}, FALSE)
CH128x1Double(d, p) == MarkPacket(d, p, Places \ {Filler}, TRUE)
CH128x1Run(d, p) ==
    IF p.kind = "device" THEN Ignored(CH128x1Offset(d, p))
    ELSE IF p.echo = "dual" THEN CH128x1Double(d, p) ELSE CH128x1Single(d, p)

CH16x1Offset(d, p) == [d EXCEPT !.prism = p.offset]
CH16x1Single(d, p) == MarkPacket(d, p, Places \ {Filler}, FALSE)
CH16x1Double(d, p) == MarkPacket(d, p, Places \ {Filler}, TRUE)
CH16x1Run(d, p) ==
    IF p.kind = "device" THEN Ignored(CH16x1Offset(d, p))
    ELSE IF p.echo = "dual" THEN CH16x1Double(d, p) ELSE CH16x1Single(d, p)

\* The echo is byte 1211 of an array of 1206: stray is what is found there.
CH128S1Offset(d, p) == [d EXCEPT !.prism = p.offset]
CH128S1Single(d, p) == MarkPacket(d, p, Places \ {Filler}, FALSE)
CH128S1Double(d, p) == MarkPacket(d, p, Places \ {Filler}, TRUE)
CH128S1Run(d, p) ==
    IF p.kind = "device" THEN Ignored(CH128S1Offset(d, p))
    ELSE LET q == IF p.stray = p.echo THEN p ELSE Misread(p)
         IN  IF p.stray = "dual" THEN CH128S1Double(d, q) ELSE CH128S1Single(d, q)

\* CH32, CH32_WideAngle and CH64 take only the date from a device packet.
CH32Single(d, p) == MarkPacket(d, p, Places \ {Filler}, FALSE)
CH32Double(d, p) == MarkPacket(d, p, Places \ {Filler}, TRUE)
CH32Run(d, p) ==
    IF p.kind = "device" THEN Ignored(d)
    ELSE IF p.echo = "dual" THEN CH32Double(d, p) ELSE CH32Single(d, p)

CH32WideSingle(d, p) == MarkPacket(d, p, Places \ {Filler}, FALSE)
CH32WideDouble(d, p) == MarkPacket(d, p, Places \ {Filler}, TRUE)
CH32WideRun(d, p) ==
    IF p.kind = "device" THEN Ignored(d)
    ELSE IF p.echo = "dual" THEN CH32WideDouble(d, p) ELSE CH32WideSingle(d, p)

CH64Single(d, p) == MarkPacket(d, p, Places \ {Filler}, FALSE)
CH64Double(d, p) == MarkPacket(d, p, Places \ {Filler}, TRUE)
CH64Run(d, p) ==
    IF p.kind = "device" THEN Ignored(d)
    ELSE IF p.echo = "dual" THEN CH64Double(d, p) ELSE CH64Single(d, p)

-----------------------------------------------------------------------------
\* LS128.  Nothing is decoded before the first device packet.  Both returns of a
\* pulse go to all_lidardata.  A device packet may ask for two rounds per cloud.

LS128Start == [LsStart EXCEPT !.echo = 1]
LS128Device(d, p) == [d EXCEPT !.difop = TRUE, !.add = @ \/ p.add]
LS128Kept == Places \ {Wide, Filler}   \* convertCoordinate: range and region of interest

\* At a mark: at most two rounds are remembered, and the first goes to the front.
LS128Mark(d, dual) ==
    LET total == Append(IF Len(d.total) >= 2 THEN Tail(d.total) ELSE d.total, d.all)
        both  == [d EXCEPT !.total = total,
                           !.echo = IF dual THEN 1 ELSE @,
                           !.all = Joined(total[1], @)]
    IN  IF ~d.add THEN [d |-> Cleared(d), out |-> <<Handed(d)>>]
        ELSE IF Len(total) < 2 THEN Ignored([d EXCEPT !.total = total])
        ELSE [d |-> Cleared(both), out |-> <<Handed(both)>>]

LS128Entry(s, e, dual) ==
    IF e.mark THEN LET m == LS128Mark(s.d, dual) IN [d |-> m.d, out |-> s.out \o m.out]
    ELSE IF e.place \in LS128Kept
         THEN [s EXCEPT !.d =
                  Added(@, [n |-> IF dual THEN 2 ELSE 1, rounds |-> {e.round}], FALSE)]
         ELSE s
LS128Packet(d, p) ==
    LET first == IF p.echo = "dual" THEN [d EXCEPT !.echo = 2] ELSE d
        dual  == first.echo # 1
        read  == IF dual = (p.echo = "dual") THEN p ELSE Misread(p)
        done[i \in 0 .. Len(read.entries)] ==
            IF i = 0 THEN Ignored(first) ELSE LS128Entry(done[i - 1], read.entries[i], dual)
    IN  done[Len(read.entries)]

LS128Run(d, p) ==
    IF p.kind = "device" THEN Ignored(LS128Device(d, p))
    ELSE IF d.difop THEN LS128Packet(d, p) ELSE Ignored(d)

-----------------------------------------------------------------------------
\* M10.  A packet covers Fallback units of angle from az on; the points that have
\* a distance, p.points of them, are spread evenly over it.  The point where the
\* angle falls back, and no later one of the packet, is kept for the next cloud.

M10Angle(p, z) == LET a == p.az + (Fallback * (z - 1)) \div p.points
                  IN  IF a >= Circle THEN a - Circle ELSE a
FallsBack(last, angle) == last > angle /\ last - angle > Fallback

M10Packet(d, p) ==
    LET new(z) == FallsBack(IF z = 1 THEN d.azimuth ELSE M10Angle(p, z - 1), M10Angle(p, z))
        turn(z) == ((p.at + (Fallback * (z - 1)) \div p.points) \div Circle) % 3
        list(s) == [n |-> Cardinality(s), rounds |-> {turn(z) : z \in s}]
        next == {z \in 1 .. p.points : new(z)}
        old  == [Added(d, list((1 .. p.points) \ next), FALSE) EXCEPT
                    !.azimuth = IF p.points = 0 THEN @ ELSE M10Angle(p, p.points)]
    IN  IF next = {} THEN Ignored(old)
        ELSE [d |-> Added(Cleared(old), list(next), FALSE), out |-> <<Handed(old)>>]

M10Single(d, p) == M10Packet(d, p)
M10SingleP(d, p) == M10Packet(d, p)

\* The time between points is the time between packets divided by p.points.
M10SingleGPS(d, p) == IF p.points = 0 THEN [Ignored(d) EXCEPT !.d.crashed = TRUE]
                      ELSE M10Packet(d, p)
M10Run(d, p) ==
    CASE p.kind = "plain" -> M10Single(d, p)
      [] p.kind = "gps" -> M10SingleGPS(d, p)
      [] p.kind = "P" -> M10SingleP(d, p)
=============================================================================
