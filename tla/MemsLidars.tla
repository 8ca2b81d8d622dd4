----------------------------- MODULE MemsLidars -----------------------------
(***************************************************************************)
(* The LiDARs without a rotating part that rs_driver decodes, one group of *)
(* definitions per file driver/decoder/decoder_<LiDAR>.hpp:                *)
(*   <LiDAR>        its packets: beams (the height of a cloud) and points  *)
(*                  of a packet;                                           *)
(*   <LiDAR>Difop   its decodeDifopPkt on the decoder's state d;           *)
(*   <LiDAR>Msop    its decodeMsopPkt on the state, the cloud being filled *)
(*                  and the packet p (of RSM1_Jumbo: the packets in it).   *)
(* The packets of a frame are numbered from 1; a smaller number than the   *)
(* last one starts a new frame (SplitStrategyBySeq).                       *)
(***************************************************************************)
EXTENDS SplitStrategy, Sequences

CONSTANTS
    FramePkts,  \* packets of a frame, SINGLE_PKT_NUM
    JumboPkts   \* packets in one of RSM1_Jumbo, PACKET_NUM

\* The packets of a jumbo packet (63) are more than the safe range (10), those
\* of a frame (288 to 2400) more than a jumbo packet and three safe ranges.
ASSUME PacketsAssumption ==
    /\ JumboPkts \in Nat /\ JumboPkts > Range + 1
    /\ FramePkts \in Nat /\ FramePkts > JumboPkts /\ FramePkts > 3 * Range + 2

\* wait is wait_for_difop; ready is angles_ready_.
MemsStart(model, wait) ==
    [ dual |-> FALSE, wait |-> wait, ready |-> model \notin {"RSEM4", "RSEMX"},
      split |-> SeqStart, pre |-> SeqStart ]

\* A cloud: its points, how many packets gave them and which part of a column
\* of beams these looked at, and whether it began with a frame of which no
\* packet was lost, late, repeated or refused since.
EmptyScan == [points |-> 0, pkts |-> 0, parts |-> [i \in 0 .. 3 |-> 0], clean |-> FALSE]

\* newPacket and the split before the points of a packet: its sequence number
\* is seq, its points lie in the given part of the columns.  An empty cloud is not
\* handed over (splitFrame).
Decoded(dev, d, c, p, seq, points, part) ==
    LET cut == SeqSplit(d.split, seq) IN
    [ dec  |-> [d EXCEPT !.split = SeqNext(@, seq)],
      scan |-> LET b == IF cut THEN [EmptyScan EXCEPT !.clean = p.seq = 1]
                               ELSE [c EXCEPT !.clean = @ /\ p.clean]
               IN  [b EXCEPT !.points = @ + points, !.pkts = @ + 1, !.parts[part] = @ + 1],
      out  |-> IF cut /\ c.pkts > 0 THEN {[c EXCEPT !.clean = @ /\ p.clean]} ELSE {},
      new  |-> cut ]
NotDecoded(d, c) == [dec |-> d, scan |-> c, out |-> {}, new |-> FALSE]

-----------------------------------------------------------------------------
\* RSM1 hands a frame over with its last packet, once it knows which that is.
RSM1 == [laser |-> 5, points |-> 125]
RSM1Difop(d, q) == [d EXCEPT !.dual = q.mode = 0]
RSM1Msop(d, c, p) ==
    LET r == Decoded(RSM1, d, c, p, p.seq, RSM1.points, 0) IN
    IF MaxSeq(r.dec.split) # p.seq THEN r
    ELSE [r EXCEPT !.scan = [EmptyScan EXCEPT !.clean = p.clean /\ p.seq = FramePkts],
                   !.out  = {r.scan}]

RSM1_Jumbo == [laser |-> 5, points |-> 125]
RSM1_JumboDifop(d, q) == [d EXCEPT !.dual = q.mode = 0]
RSM1_JumboStep(s, p) ==
    IF ~p.ok THEN s
    ELSE LET r == Decoded(RSM1_Jumbo, s.dec, s.scan, p, p.seq, RSM1_Jumbo.points, 0)
         IN  [r EXCEPT !.out = IF @ = {} THEN s.out ELSE @, !.new = @ \/ s.new]
RSM1_JumboMsop(d, c, ps) ==
    LET done[i \in 0 .. Len(ps)] ==
            IF i = 0 THEN NotDecoded(d, c) ELSE RSM1_JumboStep(done[i - 1], ps[i])
    IN  done[Len(ps)]

RSM2 == [laser |-> 5, points |-> 125]
RSM2Difop(d, q) == [d EXCEPT !.dual = q.mode = 0]
RSM2Msop(d, c, p) == Decoded(RSM2, d, c, p, p.seq, RSM2.points, 0)

RSM3 == [laser |-> 28, points |-> 140]
RSM3Difop(d, q) == d
RSM3Msop(d, c, p) == Decoded(RSM3, d, c, p, p.seq, RSM3.points, 0)

\* The DIFOP of RSE1 carries the data of its inertial unit.
RSE1 == [laser |-> 1, points |-> 96]
RSE1Difop(d, q) == d
RSE1Msop(d, c, p) == Decoded(RSE1, d, c, p, p.seq, RSE1.points, 0)

\* RSMX: each packet names the return mode, and both returns are kept.
RSMX == [laser |-> 2, points |-> 100]
RSMXDifop(d, q) == d
RSMXMsop(d, c, p) ==
    Decoded(RSMX, d, c, p, p.seq,
            IF p.mode = 0 THEN 2 * RSMX.points ELSE RSMX.points, 0)

-----------------------------------------------------------------------------
\* RSEM4 and RSEMX count from zero.  A packet of RSEM4 holds half a column or,
\* in dual mode, a quarter; compressed packets (pack_mode) are refused.
RSEM4 == [laser |-> 1, points |-> 260]
RSEM4Difop(d, q) == IF q.known THEN [d EXCEPT !.ready = TRUE] ELSE d
RSEM4PartOf2(seq, mode) == seq % 2              (* mutant: halves in dual mode too *)
RSEM4Part(seq, mode) == IF mode = 0 THEN seq % 4 ELSE seq % 2
RSEM4Msop(d, c, p) ==
    IF ~p.ok THEN NotDecoded(d, c)
    ELSE Decoded(RSEM4, [d EXCEPT !.dual = p.mode = 0], c, p, p.seq - 1,
                 RSEM4.points, RSEM4Part(p.seq - 1, p.mode))

\* A packet of RSEMX holds a column or, in dual mode, a half; one from an
\* unknown mirror surface is refused before it is counted.
RSEMX == [laser |-> 1, points |-> 192]
RSEMXDifop(d, q) == IF q.known THEN [d EXCEPT !.ready = TRUE] ELSE d
RSEMXMsop(d, c, p) ==
    IF ~p.ok THEN NotDecoded(d, c)
    ELSE Decoded(RSEMX, d, c, p, p.seq - 1, RSEMX.points,
                 IF p.mode = 0 THEN (p.seq - 1) % 2 ELSE 0)
=============================================================================
