---------------------------- MODULE MemsDecoder ----------------------------
(***************************************************************************)
(* A LiDAR without a rotating part and its rs_driver decoder.  The LiDAR   *)
(* numbers the packets of each frame from 1 to FramePkts; on their way     *)
(* they are lost, overtaken, repeated or damaged.  The decoder cuts frames *)
(* where the numbers start over.                                           *)
(***************************************************************************)
EXTENDS MemsLidars

CONSTANTS
    Lidars,     \* the LiDARs of the instance
    Frames,     \* frames are counted modulo Frames
    MaxFaults   \* packets lost, late, repeated or refused

ASSUME FramesAssumption == Frames \in Nat /\ Frames > 2

\* A frame is a whole number of jumbo packets (10), and, where a packet holds a
\* part of a column, of columns (2400 packets of RSEM4, 872 of RSEMX).
ASSUME LidarsAssumption ==
    /\ Lidars \subseteq {"RSM1", "RSM1_JUMBO", "RSM2", "RSM3", "RSE1", "RSMX", "RSEM4", "RSEMX"}
    /\ "RSM1_JUMBO" \in Lidars => FramePkts % JumboPkts = 0
    /\ "RSEM4" \in Lidars => FramePkts % 4 = 0
    /\ "RSEMX" \in Lidars => FramePkts % 2 = 0

VARIABLES
    sensor, \* model, return mode, frame and number of the next packet, and
            \* how many packets before it were not heard
    held,   \* packets on their way with their age, at most one
    dec,    \* state of the decoder
    scan,   \* the cloud being filled
    last,   \* the last cloud handed over, at most one
    heard,  \* the newest frame a packet was heard of, whether the last packet
            \* was the first of it, and what the decoder made of that packet;
            \* whether it was late, of the frame before the newest, and whether
            \* the one before was; whether any frame's last packet was heard
    faults

vars == <<sensor, held, dec, scan, last, heard, faults>>

DecodeDifop(model, d, q) ==
    CASE model = "RSM1" -> RSM1Difop(d, q) [] model = "RSM2" -> RSM2Difop(d, q)
      [] model = "RSM1_JUMBO" -> RSM1_JumboDifop(d, q)
      [] model = "RSM3" -> RSM3Difop(d, q) [] model = "RSE1" -> RSE1Difop(d, q)
      [] model = "RSMX" -> RSMXDifop(d, q) [] model = "RSEM4" -> RSEM4Difop(d, q)
      [] model = "RSEMX" -> RSEMXDifop(d, q)

\* An MSOP packet is one packet of the LiDAR, of RSM1_JUMBO a sequence.
DecodeMsop(model, d, c, ps) ==
    CASE model = "RSM1" -> RSM1Msop(d, c, ps[1]) [] model = "RSM2" -> RSM2Msop(d, c, ps[1])
      [] model = "RSM1_JUMBO" -> RSM1_JumboMsop(d, c, ps)
      [] model = "RSM3" -> RSM3Msop(d, c, ps[1]) [] model = "RSE1" -> RSE1Msop(d, c, ps[1])
      [] model = "RSMX" -> RSMXMsop(d, c, ps[1]) [] model = "RSEM4" -> RSEM4Msop(d, c, ps[1])
      [] model = "RSEMX" -> RSEMXMsop(d, c, ps[1])

\* isNewFrameCommon: asked of the first packet, whatever the decoder then does.
IsNewFrame(d, ps) == [d EXCEPT !.pre = SeqNext(@, ps[1].seq)]

-----------------------------------------------------------------------------
\* The LiDAR and the way to the driver.
Group(model) == IF model = "RSM1_JUMBO" THEN JumboPkts ELSE 1

Advanced(n) ==
    LET past == sensor.seq + n - 1 IN
    [sensor EXCEPT !.seq = (past % FramePkts) + 1,
                   !.frame = (@ + (past \div FramePkts)) % Frames]

Packets(ok) ==
    [i \in 1 .. Group(sensor.model) |->
        [seq |-> sensor.seq + i - 1, frame |-> sensor.frame, mode |-> sensor.mode,
         ok |-> ok, clean |-> ok /\ (i > 1 \/ sensor.missed = 0)]]

Unheard == Frames

Init ==
    /\ sensor \in [model : Lidars, mode : {0, 4}, frame : {0}, seq : {1, 1 + JumboPkts}, missed : {0}]
    /\ held = {} /\ scan = EmptyScan /\ last = {} /\ faults = 0
    /\ \E wait \in BOOLEAN : dec = MemsStart(sensor.model, wait)
    /\ heard = [frame |-> Unheard, fresh |-> FALSE, new |-> FALSE,
                late |-> FALSE, after |-> FALSE, ended |-> FALSE]

\* processMsopPkt.
Process(ps) ==
    LET asked == IsNewFrame(dec, ps)
        r == DecodeMsop(sensor.model, asked, scan, ps)
        newer == \/ heard.frame = Unheard
                 \/ ps[1].frame \in {(heard.frame + k) % Frames : k \in 1 .. Frames - 2}
        ended == heard.ended \/ \E i \in DOMAIN ps : ps[i].ok /\ ps[i].seq = FramePkts
    IN  IF dec.wait /\ ~dec.ready
        THEN dec' = asked /\ UNCHANGED <<scan, last, heard>>
        ELSE /\ dec' = r.dec
             /\ scan' = r.scan
             /\ last' = IF r.out = {} THEN last ELSE r.out
             /\ heard' = IF ps[1].ok
                         THEN [frame |-> IF newer THEN ps[1].frame ELSE heard.frame,
                               fresh |-> newer /\ heard.frame # Unheard, new |-> r.new,
                               late |-> ~newer /\ ps[1].frame # heard.frame,
                               after |-> heard.late, ended |-> ended]
                         ELSE [heard EXCEPT !.fresh = FALSE, !.new = r.new]

\* Bounds of an instance: a burst of losses is shorter than the safe range, and
\* a packet is overtaken by fewer than that; of the jumbo packets one is lost.
MayFail == faults < MaxFaults
MayMiss(n) ==
    /\ MayFail
    /\ IF Group(sensor.model) = 1 THEN sensor.missed + n < Range ELSE faults = 0 /\ n = 1
MayPass(n) == \A h \in held : h.age + n < Range
Older(n) == {[h EXCEPT !.age = @ + n] : h \in held}

\* The next packet arrives, alone or to arrive once more.
Arrive ==
    /\ MayPass(1)
    /\ Process(Packets(TRUE))
    /\ sensor' = [Advanced(Group(sensor.model)) EXCEPT !.missed = 0]
    /\ held' = Older(1)
    /\ UNCHANGED faults

Repeat ==
    /\ MayFail /\ held = {} /\ Group(sensor.model) = 1
    /\ Process(Packets(TRUE))
    /\ sensor' = [Advanced(1) EXCEPT !.missed = 0]
    /\ held' = {[pkt |-> Packets(FALSE)[1], age |-> 0]}
    /\ faults' = faults + 1

\* It is overtaken by the ones after it, or never arrives.  Where a late packet
\* is the first one heard, those that overtook it were not.
Hold ==
    /\ MayMiss(1) /\ held = {} /\ Group(sensor.model) = 1
    /\ held' = {[pkt |-> Packets(FALSE)[1], age |-> 0]}
    /\ sensor' = [Advanced(1) EXCEPT !.missed = @ + 1]
    /\ faults' = faults + 1
    /\ UNCHANGED <<dec, scan, last, heard>>

Late ==
    \E h \in held :
        /\ Process(<<[h.pkt EXCEPT !.ok = TRUE]>>)
        /\ sensor' = [sensor EXCEPT !.missed = IF heard.frame = Unheard THEN h.age ELSE @]
        /\ held' = held \ {h}
        /\ UNCHANGED faults

Lose ==
    \E n \in {1, Range - 1} :
        /\ MayMiss(n) /\ MayPass(n)
        /\ sensor' = [Advanced(n * Group(sensor.model)) EXCEPT !.missed = @ + n]
        /\ held' = Older(n)
        /\ faults' = faults + 1
        /\ UNCHANGED <<dec, scan, last, heard>>

\* A packet the decoder refuses: compressed, from an unknown surface, or
\* without its identifier within a jumbo packet.
Refuse ==
    /\ sensor.model \in {"RSEM4", "RSEMX", "RSM1_JUMBO"}
    /\ MayMiss(1) /\ MayPass(1)
    /\ Process(Packets(FALSE))
    /\ sensor' = [Advanced(Group(sensor.model)) EXCEPT !.missed = @ + 1]
    /\ held' = Older(1)
    /\ faults' = faults + 1

\* processDifopPkt.
Difop ==
    \E known \in BOOLEAN :
        LET d == DecodeDifop(sensor.model, dec, [mode |-> sensor.mode, known |-> known])
        IN  /\ d # dec
            /\ dec' = d
            /\ UNCHANGED <<sensor, held, scan, last, heard, faults>>

Next == Arrive \/ Repeat \/ Hold \/ Late \/ Lose \/ Refuse \/ Difop

Spec == Init /\ [][Next]_vars

-----------------------------------------------------------------------------
TypeOK ==
    /\ sensor.seq \in 1 .. FramePkts /\ sensor.frame \in 0 .. Frames - 1
    /\ dec.split.prev \in 0 .. FramePkts /\ dec.split.max \in 0 .. FramePkts
    /\ scan.pkts \in 0 .. 2 * FramePkts /\ scan.points \in Nat

\* A frame is cut off exactly where the first packet of the next one is heard:
\* late and repeated packets and short bursts of losses neither add nor hide a
\* cut (SplitStrategyBySeq).  RSEM4 and RSEMX count from zero, and number 0 is
\* also "nothing heard yet": a late packet of the frame before, right behind it,
\* is taken for the start of the numbering, and the packet after that for a new
\* frame.  That packet is the only one they may cut at wrongly.
FromZero == {"RSEM4", "RSEMX"}
OneSplitPerFrame ==
    ~(sensor.model \in FromZero /\ heard.after) => (heard.new <=> heard.fresh)

\* A cloud handed over in which nothing was lost, late or refused is one whole
\* frame, and looked equally often at every part of the columns.  RSM1 keeps
\* this once it has heard the last packet of some frame: it hands a frame over
\* with the greatest number heard so far, and while that is too small, the
\* last packets of the first frame having been lost, it takes the next one
\* apart even if all of it arrives.
PointsOfFrame == [RSM1 |-> RSM1, RSM1_JUMBO |-> RSM1_Jumbo, RSM2 |-> RSM2, RSM3 |-> RSM3,
                  RSE1 |-> RSE1, RSMX |-> RSMX, RSEM4 |-> RSEM4, RSEMX |-> RSEMX]
ColumnPkts ==
    CASE sensor.model = "RSEM4" -> IF sensor.mode = 0 THEN 4 ELSE 2
      [] sensor.model = "RSEMX" /\ sensor.mode = 0 -> 2
      [] OTHER -> 1
WholeFrames ==
    \A c \in last : c.clean /\ (sensor.model = "RSM1" => heard.ended) =>
        /\ c.pkts = FramePkts
        /\ c.points = FramePkts * PointsOfFrame[sensor.model].points
                      * (IF sensor.model = "RSMX" /\ sensor.mode = 0 THEN 2 ELSE 1)
        /\ \A i \in 0 .. ColumnPkts - 1 : c.parts[i] * ColumnPkts = FramePkts
=============================================================================
