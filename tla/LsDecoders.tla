----------------------------- MODULE LsDecoders -----------------------------
(***************************************************************************)
(* A LiDAR of ls_driver, its packets, and the decoder that turns them into *)
(* clouds (LidarRun of each GetLidarData_* class and sendLidarData).  The  *)
(* LiDAR turns at a constant speed and sends packet after packet; a packet *)
(* on its way to CollectionDataArrive may be lost, and a device packet may *)
(* come between two packets of points.                                     *)
(*                                                                         *)
(* What is heard is decoded at once: the queue between the socket and the  *)
(* decoder keeps the order (LeiShen models it with its threads).           *)
(***************************************************************************)
EXTENDS LsLidars

CONSTANTS
    Turns,      \* angles between two blocks: one per speed, 10 and 20 Hz
    Starts,     \* angles (entries, for the LiDARs with marks) the LiDAR starts at
    Rounds,     \* bound: rounds a LiDAR turns
    MaxLost     \* bound: packets lost, all in the LiDAR's second round

Windowed == {"C1_v4_0", "C8_v4_0", "C16_v3_0", "C16_v4_0", "C32_v3_0", "C32_v4_0",
             "C32_70D_v4_0", "C32_90D_v4_0"}
Channelled == {"CH64w", "CH128x1", "CH128S1", "CH16x1", "CH32", "CH32_WideAngle", "CH64"}
Marking == Channelled \cup {"LS128"}
Lidars == Windowed \cup Marking \cup {"M10"}
HasDevicePackets == {"C16_v3_0", "C32_v3_0", "CH64w", "CH128x1", "CH128S1", "CH16x1", "LS128"}

ASSUME StartsAssumption == Starts \subseteq Nat
\* A list of points is counted as far as both returns of a round.
ASSUME PointsAssumption == MaxPoints \in Nat /\ MaxPoints >= 2 * Filler

VARIABLES
    lidar,      \* the class made for the LiDAR
    echo, turn, \* how the LiDAR is set up: returns per pulse, speed
    at,         \* where it stands, counted through
    dec,        \* the decoder's fields
    told,       \* a device packet came
    lost,       \* packets lost so far
    merged,     \* ghost: a mark was lost, or a packet was misread
    made,       \* clouds handed over, counted up to 3
    cloud       \* the last of them

vars == <<lidar, echo, turn, at, dec, told, lost, merged, made, cloud>>

\* A round of a LiDAR with marks has a place after the other, then the mark.
Around == Filler + 2

Span == CASE lidar \in Windowed -> IF echo = "dual" THEN 2 * turn ELSE 4 * turn
          [] lidar = "M10" -> Fallback
          [] OTHER -> IF echo = "dual" THEN 2 ELSE 3
Lap == IF lidar \in Windowed \cup {"M10"} THEN Circle ELSE Around
Second == at \div Lap = 1

Entry(k) == [mark  |-> k % Around = Around - 1,
             place |-> Min({k % Around, Filler}),
             round |-> (k \div Around) % 3]

Points(stray, points, kind) ==
    CASE lidar \in Windowed ->
            [kind |-> "points", echo |-> echo, at |-> [i \in 1 .. Span \div turn |-> at + (i - 1) * turn],
             az |-> [i \in 1 .. Span \div turn |-> (at + (i - 1) * turn) % Circle]]
      [] lidar = "M10" -> [kind |-> kind, at |-> at, az |-> at % Circle, points |-> points]
      [] OTHER ->
            [kind |-> "points", echo |-> echo, stray |-> stray,
             entries |-> [i \in 1 .. Span |-> Entry(at + i - 1)]]

Decode(p) ==
    CASE lidar = "C1_v4_0" -> C1_v4_0Run(dec, p)
      [] lidar = "C8_v4_0" -> C8_v4_0Run(dec, p)
      [] lidar = "C16_v3_0" -> C16_v3_0Run(dec, p)
      [] lidar = "C16_v4_0" -> C16_v4_0Run(dec, p)
      [] lidar = "C32_v3_0" -> C32_v3_0Run(dec, p)
      [] lidar = "C32_v4_0" -> C32_v4_0Run(dec, p)
      [] lidar = "C32_70D_v4_0" -> C32_70D_v4_0Run(dec, p)
      [] lidar = "C32_90D_v4_0" -> C32_90D_v4_0Run(dec, p)
      [] lidar = "CH64w" -> CH64wRun(dec, p)
      [] lidar = "CH128x1" -> CH128x1Run(dec, p)
      [] lidar = "CH128S1" -> CH128S1Run(dec, p)
      [] lidar = "CH16x1" -> CH16x1Run(dec, p)
      [] lidar = "CH32" -> CH32Run(dec, p)
      [] lidar = "CH32_WideAngle" -> CH32WideRun(dec, p)
      [] lidar = "CH64" -> CH64Run(dec, p)
      [] lidar = "LS128" -> LS128Run(dec, p)
      [] lidar = "M10" -> M10Run(dec, p)

Init ==
    /\ lidar \in Lidars
    /\ echo \in IF lidar = "M10" THEN {"single"} ELSE {"single", "dual"}
    /\ turn \in IF lidar \in Windowed THEN Turns ELSE {0}
    /\ at \in {s \in Starts : s < Lap}
    /\ dec = IF lidar = "LS128" THEN LS128Start ELSE LsStart
    /\ told = FALSE /\ lost = 0 /\ merged = FALSE
    /\ made = 0 /\ cloud = None

Decoded(p) ==
    LET r == Decode(p)
    IN  /\ dec' = r.d
        /\ made' = Min({made + Len(r.out), 3})
        /\ cloud' = IF r.out = <<>> THEN cloud ELSE Last(r.out)

Turning == at < Rounds * Lap /\ ~dec.crashed

\* A packet of points arrives (CollectionDataArrive, LidarRun).
Heard ==
    /\ Turning
    /\ \E stray \in IF lidar = "CH128S1" THEN {"single", "dual"} ELSE {echo},
          kind \in IF lidar = "M10" THEN {"plain", "gps", "P"} ELSE {"points"} :
        /\ Decoded(Points(stray, 4, kind))
        /\ merged' = (merged \/ stray # echo)
    /\ at' = at + Span
    /\ UNCHANGED <<lidar, echo, turn, told, lost>>

\* A packet of M10 in which no point, or not every point, has a distance.
HeardThin ==
    /\ Turning /\ lidar = "M10" /\ lost < MaxLost /\ Second
    /\ \E kind \in {"plain", "gps", "P"}, points \in {0, 3} :
        Decoded(Points(echo, points, kind))
    /\ lost' = lost + 1
    /\ at' = at + Span
    /\ UNCHANGED <<lidar, echo, turn, told, merged>>

Lose ==
    /\ Turning /\ lost < MaxLost /\ Second
    /\ lost' = lost + 1
    /\ merged' = (merged \/ /\ lidar \in Marking
                            /\ \E i \in 1 .. Span : Entry(at + i - 1).mark)
    /\ at' = at + Span
    /\ UNCHANGED <<lidar, echo, turn, dec, told, made, cloud>>

\* A device packet arrives.  The LiDAR sends the same one over and over, so the
\* first is there within a round.
Told ==
    /\ Turning /\ ~told /\ at < Lap /\ lidar \in HasDevicePackets
    /\ \E near \in BOOLEAN, adjust \in {<<0, 0>>, <<0, 4>>}, offset \in {0, 1}, add \in BOOLEAN :
        Decoded([kind |-> "device", near |-> near, adjust |-> adjust,
                 offset |-> offset, add |-> add])
    /\ told' = TRUE
    /\ UNCHANGED <<lidar, echo, turn, at, lost, merged>>

Next == Heard \/ HeardThin \/ Lose \/ Told

Spec == Init /\ [][Next]_vars

-----------------------------------------------------------------------------
\* Where a decoder is known to fall short; the README names each place.
Width == IF lidar = "C16_v3_0" THEN Widths.narrow ELSE Widths.wide
PacketFits == Span <= Width   \* but for C16_v3_0 with one return at 20 Hz
WindowFits == PacketFits /\ Span * (1 + lost) <= Width /\ dec.end + Width <= Circle
TwoRoundsAsked == lidar = "LS128" /\ dec.add
MarksHeard == lidar \in Marking /\ ~merged /\ ~TwoRoundsAsked

Columns == IF lidar = "C32_v3_0" THEN 2 ELSE 1
FullRound ==
    CASE lidar \in Windowed -> 2 * Columns * (Circle \div turn) * (IF echo = "dual" THEN 2 ELSE 1)
      [] lidar = "M10" -> 4 * (Circle \div Fallback)
      [] lidar = "CH64w" /\ echo = "single" -> Cardinality(Places) - 2
      [] lidar = "LS128" -> Cardinality(Places) - 2
      [] OTHER -> (Cardinality(Places) - 1) * (IF echo = "dual" THEN 2 ELSE 1)
OneColumn == lidar # "C32_70D_v4_0" /\ dec.adjust = <<0, 0>>

\* The C LiDARs: the window is met in each round and only once, lost packet
\* or not.  The first cloud starts where the driver started, and the first
\* two are cut where the count of blocks happens to allow.
OneRoundByWindow ==
    lidar \in Windowed /\ WindowFits /\ made > 1 => Cardinality(cloud.rounds) <= 1
WholeByWindow ==
    /\ made = 3 /\ lost = 0
    /\ lidar = "M10" \/ (lidar \in Windowed /\ WindowFits /\ OneColumn)
    => cloud.n = FullRound

\* C16_v3_0 with one return at 20 Hz: a packet is wider than the window, and what
\* it holds behind the window still goes to the old cloud.  No cloud reaches into
\* a third round, and a cloud differs from a round by less than a packet.
Wider == lidar = "C16_v3_0" /\ ~PacketFits /\ dec.end + Width <= Circle
SpillsByWindow ==
    Wider /\ lost = 0 /\ made > 1 =>
        /\ Cardinality(cloud.rounds) <= 2
        /\ made = 3 => LET packet == 2 * (Span \div turn)
                       IN  cloud.n - FullRound \in 1 - packet .. packet - 1

(* A cloud cut at an angle window holds points of one round, not of the     *)
(* round before or after it, and when nothing was lost each point of its    *)
(* round, with both returns if the LiDAR sends two, and no point twice.     *)
(* C16_v3_0 with one return at 20 Hz is off by less than a packet.  A cloud *)
(* of M10, cut where the angle falls back, has the points of a round.       *)
WindowClouds == OneRoundByWindow /\ WholeByWindow /\ SpillsByWindow

\* CH and LS128: the lists are empty again after each mark, and a lost packet
\* that holds no mark does not change that.  The first cloud is what was left
\* of a round.
OneRoundByMark == MarksHeard => Cardinality(cloud.rounds) <= 1
WholeByMark ==
    MarksHeard /\ made > 1 /\ lost = 0 /\ ~(lidar = "LS128" /\ echo = "dual")
    => cloud.n = FullRound

(* The same of a cloud cut at a mark between the points: one round, and the *)
(* whole of it, each point once, when nothing was lost (LS128: in the mode  *)
(* with one return).                                                        *)
MarkClouds == OneRoundByMark /\ WholeByMark
=============================================================================
