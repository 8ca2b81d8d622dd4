---------------------------- MODULE DecoderProofs ----------------------------
(***************************************************************************)
(* Where the decoders of the LiDARs without a rotating part cut the frames *)
(* and what the clouds hold, for any length of a frame, safe range, number *)
(* of frames and faults.                                                   *)
(***************************************************************************)
EXTENDS MemsDecoder, LeiShen, WellFoundedInduction, TLAPS

(***************************************************************************)
(* The packets before the next one, counted backwards from it: SeqBefore(n)*)
(* is the place in its frame, and FrameBefore(n) the frame, of the n-th.   *)
(***************************************************************************)
SeqBefore(n) == IF n < sensor.seq THEN sensor.seq - n ELSE sensor.seq - n + FramePkts
FrameBefore(n) ==
  IF n < sensor.seq THEN sensor.frame
  ELSE IF sensor.frame = 0 THEN Frames - 1 ELSE sensor.frame - 1

(* The number a packet carries: some LiDARs count from zero. *)
Number(seq) == IF sensor.model \in FromZero THEN seq - 1 ELSE seq

Jumbo == sensor.model = "RSM1_JUMBO"

Split == [prev : 0 .. FramePkts, max : 0 .. FramePkts, looped : BOOLEAN]
DecoderState == [dual : BOOLEAN, wait : BOOLEAN, ready : BOOLEAN, split : Split, pre : Split]
Scan == [points : Nat, pkts : Nat, parts : [0 .. 3 -> Nat], clean : BOOLEAN]
Pkt == [seq : 1 .. FramePkts, frame : 0 .. Frames - 1, mode : {0, 4},
        ok : BOOLEAN, clean : BOOLEAN]
Lidar == [model : Lidars, mode : {0, 4}, frame : 0 .. Frames - 1,
          seq : 1 .. FramePkts, missed : Nat]
Hearing == [frame : 0 .. Frames, fresh : BOOLEAN, new : BOOLEAN,
            late : BOOLEAN, after : BOOLEAN, ended : BOOLEAN]
Types ==
  /\ sensor \in Lidar
  /\ dec \in DecoderState /\ scan \in Scan
  /\ heard \in Hearing
  /\ faults \in Nat

(* Nothing was heard yet. *)
Quiet ==
  /\ dec.split = SeqStart /\ scan = EmptyScan /\ last = {}
  /\ ~heard.fresh /\ ~heard.new /\ ~heard.late /\ ~heard.ended

(* At most one packet is on its way, one of the last Range packets. *)
HeldInv ==
  /\ \A g, h \in held : g = h
  /\ \A h \in held :
      /\ h \in [pkt : Pkt, age : 0 .. Range - 1]
      /\ h.pkt = [seq |-> SeqBefore(h.age + 1), frame |-> FrameBefore(h.age + 1),
                  mode |-> sensor.mode, ok |-> FALSE, clean |-> FALSE]

(* The newest packet heard is the n-th before the next one.  The splitter  *)
(* has its number, or, of a LiDAR that counts from zero, took a late one   *)
(* for the start of the numbering.                                         *)
Misled(n) ==
  /\ sensor.model \in FromZero /\ heard.late /\ SeqBefore(n) = 1
  /\ dec.split.prev > FramePkts - 1 - Range
  /\ \A h \in held : h.age + 1 < n
Newest(n) ==
  /\ heard.frame = FrameBefore(n)
  /\ dec.split.prev = Number(SeqBefore(n)) \/ Misled(n)

SingleInv ==
  /\ sensor.missed < Range
  /\ HeldInv
  /\ heard.frame # Unheard => \E n \in 1 .. sensor.missed + 1 : Newest(n)

(* Of the jumbo packets one at most is missed. *)
Heads == {s \in 1 .. FramePkts : (s - 1) % JumboPkts = 0}
JumboInv ==
  /\ sensor.seq \in Heads
  /\ sensor.missed \in {0, 1} /\ held = {}
  /\ sensor.missed = 1 => faults > 0
  /\ heard.frame # Unheard =>
       /\ dec.split.prev >= JumboPkts
       /\ faults = 0 => dec.split.prev = SeqBefore(1)
       /\ \/ heard.frame = sensor.frame /\ dec.split.prev < sensor.seq
          \/ /\ heard.frame = FrameBefore(sensor.seq)
             /\ \/ sensor.seq = 1
                \/ /\ sensor.seq = 1 + JumboPkts /\ sensor.missed = 1
                   /\ dec.split.prev = FramePkts

(* maxSeq() is the length of a frame once the end of one was heard, and no *)
(* cloud is handed over before the numbers have started over.              *)
MaxInv ==
  sensor.model = "RSM1" =>
    /\ heard.ended => dec.split.max = FramePkts
    /\ ~dec.split.looped => last = {}

PointsPerPacket ==
  PointsOfFrame[sensor.model].points
    * (IF sensor.model = "RSMX" /\ sensor.mode = 0 THEN 2 ELSE 1)

\* How many of the first n packets look at part i of k.
OfPart(n, k, i) == (n + k - 1 - i) \div k

\* A cloud with the first n packets of a frame.
Begun(c, n) ==
  /\ c.pkts = n
  /\ \A i \in 0 .. ColumnPkts - 1 : c.parts[i] = OfPart(n, ColumnPkts, i)

(* The cloud being filled: what it has of its frame. *)
ScanInv ==
  /\ scan.points = scan.pkts * PointsPerPacket
  /\ scan.clean /\ sensor.missed = 0 =>
       /\ heard.frame # Unheard
       /\ dec.split.prev = Number(SeqBefore(1))
       /\ \/ Begun(scan, SeqBefore(1))
          \/ sensor.model = "RSM1" /\ sensor.seq = 1 /\ Begun(scan, 0)

MemsInv ==
  /\ Types
  /\ heard.frame = Unheard => Quiet
  /\ heard.frame # Unheard => ~dec.wait \/ dec.ready
  /\ MaxInv
  /\ IF Jumbo THEN JumboInv ELSE SingleInv
  /\ ScanInv
  /\ OneSplitPerFrame
  /\ WholeFrames

-----------------------------------------------------------------------------
(***************************************************************************)
(* What the constants are.                                                 *)
(***************************************************************************)
LEMMA Sizes ==
  /\ Range \in Nat /\ Range > 0 /\ JumboPkts \in Nat /\ JumboPkts > Range + 1
  /\ FramePkts \in Nat /\ FramePkts > JumboPkts /\ FramePkts > 3 * Range + 2
  /\ Frames \in Nat /\ Frames > 2
BY RangeAssumption, PacketsAssumption, FramesAssumption

(* A quotient of less than two rounds. *)
LEMMA OneRound ==
  ASSUME NEW n \in Nat \ {0}, NEW a \in Nat, a < 2 * n
  PROVE  /\ a % n = IF a < n THEN a ELSE a - n
         /\ a \div n = IF a < n THEN 0 ELSE 1
OBVIOUS

(***************************************************************************)
(* The LiDAR n packets on: after the last packet of a frame comes the      *)
(* first one of the next.                                                  *)
(***************************************************************************)
LEMMA AdvancedIs ==
  ASSUME Types, NEW n \in 0 .. FramePkts
  PROVE  LET over == sensor.seq + n > FramePkts
             s == Advanced(n)
         IN  /\ s \in Lidar
             /\ s.model = sensor.model /\ s.mode = sensor.mode /\ s.missed = sensor.missed
             /\ s.seq = IF over THEN sensor.seq + n - FramePkts ELSE sensor.seq + n
             /\ s.frame = IF ~over THEN sensor.frame
                          ELSE IF sensor.frame = Frames - 1 THEN 0 ELSE sensor.frame + 1
<1> DEFINE a == sensor.seq + n - 1
           over == sensor.seq + n > FramePkts
           place == IF over THEN sensor.seq + n - FramePkts ELSE sensor.seq + n
           laps == IF over THEN 1 ELSE 0
           frame == IF ~over THEN sensor.frame
                    ELSE IF sensor.frame = Frames - 1 THEN 0 ELSE sensor.frame + 1
<1>1. sensor.seq \in 1 .. FramePkts /\ sensor.frame \in 0 .. Frames - 1
  BY DEF Types, Lidar
<1>2. a \in Nat /\ a < 2 * FramePkts /\ FramePkts \in Nat \ {0} /\ Frames \in Nat \ {0}
  BY <1>1, Sizes
<1>3. (a % FramePkts) + 1 = place /\ a \div FramePkts = laps
  <2>1. ASSUME NEW x \in Nat, x = a
        PROVE  /\ x % FramePkts = IF x < FramePkts THEN x ELSE x - FramePkts
               /\ x \div FramePkts = IF x < FramePkts THEN 0 ELSE 1
    <3>1. x < 2 * FramePkts
      BY <1>2, <2>1
    <3>2. FramePkts \in Nat \ {0}
      BY <1>2
    <3> QED BY <3>1, <3>2, OneRound
  <2> QED BY <2>1, <1>1, <1>2, Sizes
<1>4. (sensor.frame + laps) % Frames = frame
  <2>1. ASSUME NEW x \in Nat, x = sensor.frame + laps
        PROVE  x % Frames = IF x < Frames THEN x ELSE x - Frames
    <3>1. x < 2 * Frames
      BY <1>1, <2>1, Sizes
    <3>2. Frames \in Nat \ {0}
      BY <1>2
    <3> QED BY <3>1, <3>2, OneRound
  <2> QED BY <2>1, <1>1, Sizes
<1>5. /\ (a % FramePkts) + 1 = place
      /\ (sensor.frame + (a \div FramePkts)) % Frames = frame
  BY <1>3, <1>4
<1>6. /\ Advanced(n).seq = (a % FramePkts) + 1
      /\ Advanced(n).frame = (sensor.frame + (a \div FramePkts)) % Frames
      /\ Advanced(n).model = sensor.model /\ Advanced(n).mode = sensor.mode
      /\ Advanced(n).missed = sensor.missed
  BY DEF Advanced, Types, Lidar
<1>7. Advanced(n) \in Lidar
  <2>1. place \in 1 .. FramePkts /\ frame \in 0 .. Frames - 1
    BY <1>1, Sizes
  <2>2. (a % FramePkts) + 1 \in 1 .. FramePkts
        /\ (sensor.frame + (a \div FramePkts)) % Frames \in 0 .. Frames - 1
    BY <1>5, <2>1
  <2> QED BY <2>2 DEF Advanced, Types, Lidar
<1> HIDE DEF a
<1> QED BY <1>5, <1>6, <1>7 DEF place, frame

(* Which frames count as newer than h: not h, and not the one before it. *)
LEMMA NewerFrames ==
  ASSUME NEW h \in 0 .. Frames - 1, NEW g \in 0 .. Frames - 1
  PROVE  g \in {(h + k) % Frames : k \in 1 .. Frames - 2}
           <=> g # h /\ g # (IF h = 0 THEN Frames - 1 ELSE h - 1)
<1>1. \A k \in 1 .. Frames - 2 : (h + k) % Frames = IF h + k < Frames THEN h + k ELSE h + k - Frames
  <2> TAKE k \in 1 .. Frames - 2
  <2>1. Frames \in Nat \ {0}
    BY Sizes
  <2>2. ASSUME NEW x \in Nat, x = h + k
        PROVE  x % Frames = IF x < Frames THEN x ELSE x - Frames
    <3>1. x < 2 * Frames
      BY <2>2, Sizes
    <3> QED BY <2>1, <3>1, OneRound
  <2> QED BY <2>2, Sizes
<1>2. ASSUME g # h, g # (IF h = 0 THEN Frames - 1 ELSE h - 1)
      PROVE  \E k \in 1 .. Frames - 2 : g = (h + k) % Frames
  <2>1. CASE g > h
    <3>1. g - h \in 1 .. Frames - 2
      BY <1>2, <2>1, Sizes
    <3>2. (h + (g - h)) % Frames = g
      BY <3>1, <1>1, Sizes
    <3> QED BY <3>1, <3>2
  <2>2. CASE g < h
    <3>1. g - h + Frames \in 1 .. Frames - 2
      BY <1>2, <2>2, Sizes
    <3>2. (h + (g - h + Frames)) % Frames = g
      BY <3>1, <1>1, Sizes
    <3> QED BY <3>1, <3>2
  <2> QED BY <1>2, <2>1, <2>2, Sizes
<1>3. ASSUME NEW k \in 1 .. Frames - 2, g = (h + k) % Frames
      PROVE  g # h /\ g # (IF h = 0 THEN Frames - 1 ELSE h - 1)
  BY <1>1, <1>3, Sizes
<1> QED BY <1>2, <1>3

-----------------------------------------------------------------------------
(***************************************************************************)
(* What decoding one packet does, for the LiDARs with one packet at a time.*)
(***************************************************************************)
Part(seq) ==
  CASE sensor.model = "RSEM4" -> RSEM4Part(seq - 1, sensor.mode)
    [] sensor.model = "RSEMX" /\ sensor.mode = 0 -> (seq - 1) % 2
    [] OTHER -> 0

Fill(c, cut, p) ==
  [ points |-> (IF cut THEN 0 ELSE c.points) + PointsPerPacket,
    pkts   |-> (IF cut THEN 0 ELSE c.pkts) + 1,
    parts  |-> [(IF cut THEN [i \in 0 .. 3 |-> 0] ELSE c.parts) EXCEPT ![Part(p.seq)] = @ + 1],
    clean  |-> IF cut THEN p.seq = 1 ELSE c.clean /\ p.clean ]

HandsOver(split, p) == sensor.model = "RSM1" /\ MaxSeq(SeqNext(split, p.seq)) = p.seq

\* A decoder d that took the packet, which splits at its number.
Took(r, d, c, p) ==
  /\ r.dec = [d EXCEPT !.split = SeqNext(d.split, Number(p.seq))]
  /\ r.new = SeqSplit(d.split, Number(p.seq))
  /\ r.scan = Fill(c, r.new, p)
  /\ r.out = IF r.new /\ c.pkts > 0 THEN {[c EXCEPT !.clean = @ /\ p.clean]} ELSE {}

LEMMA DecodedTook ==
  ASSUME NEW p, NEW dev, NEW d, NEW c \in Scan
  PROVE  Took(Decoded(dev, d, c, p, Number(p.seq), PointsPerPacket, Part(p.seq)), d, c, p)
BY DEF Decoded, Took, Fill, EmptyScan, Scan

\* The same, but that the last packet of a frame ends it.
Decodes(r, d, p) ==
  LET end == HandsOver(d.split, p) IN
  /\ r.dec.split = SeqNext(d.split, Number(p.seq))
  /\ r.dec.wait = d.wait /\ r.dec.ready = d.ready /\ r.dec.pre = d.pre
  /\ r.dec.split \in Split => r.dec \in DecoderState
  /\ r.new = SeqSplit(d.split, Number(p.seq))
  /\ r.scan = IF end THEN [EmptyScan EXCEPT !.clean = p.clean /\ p.seq = FramePkts]
              ELSE Fill(scan, r.new, p)
  /\ r.out = IF end THEN {Fill(scan, r.new, p)}
             ELSE IF r.new /\ scan.pkts > 0
                  THEN {[scan EXCEPT !.clean = @ /\ p.clean]} ELSE {}

LEMMA TookDecodes ==
  ASSUME NEW r, NEW a \in DecoderState, NEW dual \in BOOLEAN, NEW p,
         Took(r, [a EXCEPT !.dual = dual], scan, p), sensor.model # "RSM1"
  PROVE  Decodes(r, a, p)
BY DEF Took, Decodes, DecoderState, HandsOver

LEMMA DecodedIs ==
  ASSUME Types, ~Jumbo, NEW a \in DecoderState, NEW p \in Pkt, p.ok, p.mode = sensor.mode,
         NEW ps, ps[1] = p
  PROVE  Decodes(DecodeMsop(sensor.model, a, scan, ps), a, p)
<1> DEFINE r == DecodeMsop(sensor.model, a, scan, ps)
           Plain(dev, d) == Decoded(dev, d, scan, p, Number(p.seq), PointsPerPacket, Part(p.seq))
<1>1. sensor.model \in {"RSM1", "RSM2", "RSM3", "RSE1", "RSMX", "RSEM4", "RSEMX"}
  BY LidarsAssumption DEF Types, Lidar, Jumbo
<1>2. a = [a EXCEPT !.dual = a.dual] /\ a.dual \in BOOLEAN /\ scan \in Scan
  BY DEF DecoderState, Types
<1>3. \A dev, d : Took(Plain(dev, d), d, scan, p)
  BY <1>2, DecodedTook
<1>4. CASE sensor.model = "RSM1"
  <2> DEFINE q == Plain(RSM1, a)
             ends == MaxSeq(q.dec.split) = p.seq
  <2>1. Plain(RSM1, a) = Decoded(RSM1, a, scan, p, p.seq, RSM1.points, 0) /\ Number(p.seq) = p.seq
    BY <1>4 DEF Part, Number, FromZero, PointsPerPacket, PointsOfFrame, RSM1
  <2>2. r = RSM1Msop(a, scan, p)
    BY <1>4 DEF DecodeMsop
  <2>3. DOMAIN q = {"dec", "scan", "out", "new"}
    BY DEF Decoded
  <2>4. /\ r.dec = q.dec /\ r.new = q.new
        /\ r.scan = IF ends THEN [EmptyScan EXCEPT !.clean = p.clean /\ p.seq = FramePkts]
                    ELSE q.scan
        /\ r.out = IF ends THEN {q.scan} ELSE q.out
    <3> HIDE DEF Plain, r
    <3> QED BY <2>1, <2>2, <2>3 DEF RSM1Msop
  <2>5. Took(q, a, scan, p)
    BY <1>3
  <2> HIDE DEF r, q
  <2>6. ends <=> HandsOver(a.split, p)
    BY <1>4, <2>1, <2>5 DEF Took, HandsOver, DecoderState
  <2> HIDE DEF ends
  <2>7. Decodes(r, a, p)
    BY <2>4, <2>5, <2>6, <2>1 DEF Took, Decodes, DecoderState
  <2> QED BY <2>7 DEF r
<1>5. ASSUME sensor.model # "RSM1" PROVE  \E dev : \E dual \in BOOLEAN : r = Plain(dev, [a EXCEPT !.dual = dual])
  <2>1. CASE sensor.model = "RSM2"
    <3>1. r = Plain(RSM2, a)
      BY <2>1 DEF DecodeMsop, RSM2Msop, Part, Number, FromZero, PointsPerPacket, PointsOfFrame, RSM2
    <3> QED BY <3>1, <1>2
  <2>2. CASE sensor.model = "RSM3"
    <3>1. r = Plain(RSM3, a)
      BY <2>2 DEF DecodeMsop, RSM3Msop, Part, Number, FromZero, PointsPerPacket, PointsOfFrame, RSM3
    <3> QED BY <3>1, <1>2
  <2>3. CASE sensor.model = "RSE1"
    <3>1. r = Plain(RSE1, a)
      BY <2>3 DEF DecodeMsop, RSE1Msop, Part, Number, FromZero, PointsPerPacket, PointsOfFrame, RSE1
    <3> QED BY <3>1, <1>2
  <2>4. CASE sensor.model = "RSMX"
    <3>1. r = Plain(RSMX, a)
      BY <2>4 DEF DecodeMsop, RSMXMsop, Part, Number, FromZero, PointsPerPacket, PointsOfFrame, RSMX
    <3> QED BY <3>1, <1>2
  <2>5. CASE sensor.model = "RSEM4"
    <3>1. r = Plain(RSEM4, [a EXCEPT !.dual = p.mode = 0])
      BY <2>5 DEF DecodeMsop, RSEM4Msop, Part, Number, FromZero, PointsPerPacket, PointsOfFrame, RSEM4
    <3> QED BY <3>1
  <2>6. CASE sensor.model = "RSEMX"
    <3>1. r = Plain(RSEMX, a)
      BY <2>6 DEF DecodeMsop, RSEMXMsop, Part, Number, FromZero, PointsPerPacket, PointsOfFrame, RSEMX
    <3> QED BY <3>1, <1>2
  <2> QED BY <1>1, <1>5, <2>1, <2>2, <2>3, <2>4, <2>5, <2>6
<1>6. CASE sensor.model # "RSM1"
  <2>1. PICK dev : \E dual \in BOOLEAN : r = Plain(dev, [a EXCEPT !.dual = dual])
    BY <1>5, <1>6
  <2>2. PICK dual \in BOOLEAN : r = Plain(dev, [a EXCEPT !.dual = dual])
    BY <2>1
  <2>3. Took(r, [a EXCEPT !.dual = dual], scan, p)
    BY <1>3, <2>2, Zenon
  <2> QED BY <1>6, <2>3, TookDecodes
<1> QED BY <1>4, <1>6

-----------------------------------------------------------------------------
(***************************************************************************)
(* How packets move away from the next one as that moves on.               *)
(***************************************************************************)
LEMMA BeforeTypes ==
  ASSUME Types, NEW n \in 0 .. FramePkts
  PROVE  SeqBefore(n) \in 1 .. FramePkts /\ FrameBefore(n) \in 0 .. Frames - 1
BY Sizes DEF Types, Lidar, SeqBefore, FrameBefore

LEMMA Shift ==
  ASSUME Types, NEW k \in 0 .. FramePkts, NEW n \in 0 .. FramePkts, n + k <= FramePkts,
         sensor'.seq = Advanced(k).seq, sensor'.frame = Advanced(k).frame
  PROVE  SeqBefore(n + k)' = SeqBefore(n) /\ FrameBefore(n + k)' = FrameBefore(n)
<1>1. sensor.seq \in 1 .. FramePkts /\ sensor.frame \in 0 .. Frames - 1
  BY DEF Types, Lidar
<1>2. /\ sensor'.seq = IF sensor.seq + k > FramePkts THEN sensor.seq + k - FramePkts
                       ELSE sensor.seq + k
      /\ sensor'.frame = IF ~(sensor.seq + k > FramePkts) THEN sensor.frame
                         ELSE IF sensor.frame = Frames - 1 THEN 0 ELSE sensor.frame + 1
  BY AdvancedIs
<1>3. CASE sensor.seq + k > FramePkts
  <2>1. n < sensor.seq /\ ~(n + k < sensor'.seq)
    BY <1>1, <1>2, <1>3, Sizes
  <2> QED BY <1>1, <1>2, <1>3, <2>1, Sizes DEF SeqBefore, FrameBefore
<1>4. CASE ~(sensor.seq + k > FramePkts)
  <2>1. n < sensor.seq <=> n + k < sensor'.seq
    BY <1>1, <1>2, <1>4, Sizes
  <2> QED BY <1>1, <1>2, <1>4, <2>1, Sizes DEF SeqBefore, FrameBefore
<1> QED BY <1>3, <1>4

(* Which packet begins a frame: the next one relative to the last heard. *)
Newer(frame) == frame \in {(heard.frame + k) % Frames : k \in 1 .. Frames - 2}

(***************************************************************************)
(* Where the splitter cuts, when the newest packet heard is the n-th before*)
(* the next one and the m-th is decoded: between two frames it was heard   *)
(* of, where the frame is newer.                                           *)
(***************************************************************************)
LEMMA CutAtFrame ==
  ASSUME Types, NEW m \in 0 .. FramePkts, NEW n \in 0 .. FramePkts,
         heard.frame = FrameBefore(n)
  PROVE  Newer(FrameBefore(m)) <=> m < sensor.seq /\ sensor.seq <= n
<1>1. FrameBefore(m) \in 0 .. Frames - 1 /\ FrameBefore(n) \in 0 .. Frames - 1
  BY BeforeTypes, Sizes
<1>2. Newer(FrameBefore(m)) <=>
        /\ FrameBefore(m) # FrameBefore(n)
        /\ FrameBefore(m) # (IF FrameBefore(n) = 0 THEN Frames - 1 ELSE FrameBefore(n) - 1)
  BY <1>1, NewerFrames DEF Newer
<1>3. sensor.seq \in 1 .. FramePkts /\ sensor.frame \in 0 .. Frames - 1
  BY DEF Types, Lidar
<1> QED BY <1>2, <1>3, Sizes DEF FrameBefore

LEMMA Splits ==
  ASSUME Types, NEW m \in 0 .. Range, NEW n \in 1 .. Range,
         dec.split.prev = Number(SeqBefore(n))
  PROVE  LET s == dec.split
             x == Number(SeqBefore(m))
         IN  /\ SeqSplit(s, x) <=> m < sensor.seq /\ sensor.seq <= n
             /\ m < n => SeqNext(s, x).prev = x
             /\ m >= n => \/ SeqNext(s, x).prev = s.prev
                          \/ /\ sensor.model \in FromZero /\ SeqBefore(n) = 1 /\ m > n
                             /\ SeqNext(s, x).prev > FramePkts - 1 - Range
<1> DEFINE x == Number(SeqBefore(m))
           y == Number(SeqBefore(n))
           R == sensor.model \in FromZero
<1>1. sensor.seq \in 1 .. FramePkts
  BY DEF Types, Lidar
<1>2. SeqBefore(m) \in 1 .. FramePkts /\ SeqBefore(n) \in 1 .. FramePkts
  BY BeforeTypes, Sizes
<1>3. /\ x = IF R THEN SeqBefore(m) - 1 ELSE SeqBefore(m)
      /\ y = IF R THEN SeqBefore(n) - 1 ELSE SeqBefore(n)
  BY DEF Number
<1>4. /\ SeqBefore(m) = IF m < sensor.seq THEN sensor.seq - m ELSE sensor.seq - m + FramePkts
      /\ SeqBefore(n) = IF n < sensor.seq THEN sensor.seq - n ELSE sensor.seq - n + FramePkts
  BY DEF SeqBefore
<1>5. x \in 0 .. FramePkts /\ y \in 0 .. FramePkts
  BY <1>2, <1>3, Sizes
<1>6. SeqSplit(dec.split, x) <=> x < (IF y > Range THEN y - Range ELSE 0)
  BY DEF SeqSplit, SafeMin
<1>7. SeqNext(dec.split, x).prev = IF SeqSplit(dec.split, x) \/ x \in y .. y + Range \/ y = 0 THEN x ELSE y
  BY DEF SeqNext, SafeMax
<1> HIDE DEF x, y, R
<1>8. SeqSplit(dec.split, x) <=> m < sensor.seq /\ sensor.seq <= n
  BY <1>1, <1>2, <1>3, <1>4, <1>5, <1>6, Sizes
<1>9. m < n => SeqNext(dec.split, x).prev = x
  BY <1>1, <1>2, <1>3, <1>4, <1>5, <1>7, <1>8, Sizes
<1>10. m >= n => \/ SeqNext(dec.split, x).prev = y
                 \/ /\ R /\ SeqBefore(n) = 1 /\ m > n
                    /\ SeqNext(dec.split, x).prev > FramePkts - 1 - Range
  BY <1>1, <1>2, <1>3, <1>4, <1>5, <1>7, <1>8, Sizes
<1> QED BY <1>8, <1>9, <1>10 DEF x, y, R

(* A splitter that took a late packet for the start of the numbering finds *)
(* it with the next packet.                                                *)
LEMMA MisledSplits ==
  ASSUME Types, NEW m \in 0 .. Range, NEW n \in 1 .. Range, m < n, Misled(n)
  PROVE  /\ SeqSplit(dec.split, Number(SeqBefore(m)))
         /\ SeqNext(dec.split, Number(SeqBefore(m))).prev = Number(SeqBefore(m))
<1>1. sensor.seq \in 1 .. FramePkts /\ dec.split.prev \in 0 .. FramePkts
  BY DEF Types, Lidar, DecoderState, Split
<1>2. SeqSplit(dec.split, Number(SeqBefore(m)))
  BY <1>1, Sizes DEF Misled, SeqBefore, Number, SeqSplit, SafeMin
<1> QED BY <1>2 DEF SeqNext

LEMMA SeqNextLoops ==
  ASSUME NEW s \in Split, NEW x
  PROVE  /\ SeqNext(s, x).looped <=> s.looped \/ SeqSplit(s, x)
         /\ SeqNext(s, x).max = IF x > s.max THEN x ELSE s.max
<1>1. SeqNext(s, x).looped = (s.looped \/ SeqSplit(s, x))
  BY Zenon DEF SeqNext
<1>2. s.looped \in BOOLEAN
  BY DEF Split
<1>3. SeqNext(s, x).max = IF x > s.max THEN x ELSE s.max
  BY DEF SeqNext
<1> QED BY <1>1, <1>2, <1>3, Zenon

LEMMA SeqNextTypes ==
  ASSUME NEW s \in Split, NEW x \in 0 .. FramePkts
  PROVE  SeqNext(s, x) \in Split /\ SeqNext(s, x).max >= x
BY Sizes DEF SeqNext, Split

-----------------------------------------------------------------------------
(***************************************************************************)
(* A packet at the decoder: it is not taken before the angles are known,   *)
(* its number then only counts for the time of the frame.                  *)
(***************************************************************************)
NotTaken == dec.wait /\ ~dec.ready

LEMMA AskedIs ==
  ASSUME Types, NEW ps, ps[1].seq \in 1 .. FramePkts
  PROVE  /\ IsNewFrame(dec, ps) \in DecoderState
         /\ IsNewFrame(dec, ps).split = dec.split
         /\ IsNewFrame(dec, ps).wait = dec.wait /\ IsNewFrame(dec, ps).ready = dec.ready
<1>1. dec.pre \in Split /\ ps[1].seq \in 0 .. FramePkts
  BY Sizes DEF Types, DecoderState
<1>2. SeqNext(dec.pre, ps[1].seq) \in Split
  BY <1>1, SeqNextTypes
<1> QED BY <1>2 DEF IsNewFrame, Types, DecoderState

\* What the LiDARs with one packet at a time make of packet p.
Processed(p) ==
  LET cut == SeqSplit(dec.split, Number(p.seq))
      newer == heard.frame = Unheard \/ Newer(p.frame)
      end == HandsOver(dec.split, p)
  IN  /\ dec' \in DecoderState /\ dec'.wait = dec.wait /\ dec'.ready = dec.ready
      /\ dec'.split = SeqNext(dec.split, Number(p.seq))
      /\ scan' = IF end THEN [EmptyScan EXCEPT !.clean = p.clean /\ p.seq = FramePkts]
                 ELSE Fill(scan, cut, p)
      /\ last' = IF end THEN {Fill(scan, cut, p)}
                 ELSE IF cut /\ scan.pkts > 0 THEN {[scan EXCEPT !.clean = @ /\ p.clean]}
                 ELSE last
      /\ heard' = [frame |-> IF newer THEN p.frame ELSE heard.frame,
                   fresh |-> newer /\ heard.frame # Unheard, new |-> cut,
                   late |-> ~newer /\ p.frame # heard.frame, after |-> heard.late,
                   ended |-> heard.ended \/ p.seq = FramePkts]

LEMMA NumberTypes ==
  ASSUME NEW seq \in 1 .. FramePkts
  PROVE  Number(seq) \in 0 .. FramePkts
BY Sizes DEF Number

LEMMA ProcessIs ==
  ASSUME Types, ~Jumbo, NEW p \in Pkt, p.ok, p.mode = sensor.mode,
         NEW ps, ps[1] = p, DOMAIN ps = {1}, Process(ps), ~NotTaken
  PROVE  Processed(p)
<1> DEFINE a == IsNewFrame(dec, ps)
           r == DecodeMsop(sensor.model, a, scan, ps)
<1>1. p.seq \in 1 .. FramePkts /\ dec.split \in Split
  BY DEF Pkt, Types, DecoderState
<1>2. a \in DecoderState /\ a.split = dec.split /\ a.wait = dec.wait /\ a.ready = dec.ready
  BY <1>1, AskedIs
<1> HIDE DEF a
<1>3. Decodes(r, a, p)
  BY <1>2, DecodedIs
<1> HIDE DEF r
<1>4. /\ dec' = r.dec /\ scan' = r.scan
      /\ last' = IF r.out = {} THEN last ELSE r.out
      /\ heard' = [frame |-> IF heard.frame = Unheard \/ Newer(p.frame) THEN p.frame ELSE heard.frame,
                   fresh |-> (heard.frame = Unheard \/ Newer(p.frame)) /\ heard.frame # Unheard,
                   new |-> r.new,
                   late |-> ~(heard.frame = Unheard \/ Newer(p.frame)) /\ p.frame # heard.frame,
                   after |-> heard.late,
                   ended |-> heard.ended \/ p.seq = FramePkts]
  <2>1. (\E i \in DOMAIN ps : ps[i].ok /\ ps[i].seq = FramePkts) <=> p.seq = FramePkts
    OBVIOUS
  <2> QED BY <2>1 DEF Process, NotTaken, Newer, a, r
<1>5. SeqNext(dec.split, Number(p.seq)) \in Split
  BY <1>1, NumberTypes, SeqNextTypes
<1>6. dec' \in DecoderState /\ dec'.wait = dec.wait /\ dec'.ready = dec.ready
      /\ dec'.split = SeqNext(dec.split, Number(p.seq))
  BY <1>2, <1>3, <1>4, <1>5 DEF Decodes
<1>7. /\ r.new = SeqSplit(dec.split, Number(p.seq))
      /\ scan' = IF HandsOver(dec.split, p) THEN [EmptyScan EXCEPT !.clean = p.clean /\ p.seq = FramePkts]
                 ELSE Fill(scan, r.new, p)
      /\ last' = IF HandsOver(dec.split, p) THEN {Fill(scan, r.new, p)}
                 ELSE IF r.new /\ scan.pkts > 0 THEN {[scan EXCEPT !.clean = @ /\ p.clean]}
                 ELSE last
  <2>1. /\ r.new = SeqSplit(dec.split, Number(p.seq))
        /\ r.scan = IF HandsOver(dec.split, p) THEN [EmptyScan EXCEPT !.clean = p.clean /\ p.seq = FramePkts]
                    ELSE Fill(scan, r.new, p)
        /\ r.out = IF HandsOver(dec.split, p) THEN {Fill(scan, r.new, p)}
                   ELSE IF r.new /\ scan.pkts > 0 THEN {[scan EXCEPT !.clean = @ /\ p.clean]} ELSE {}
    BY <1>2, <1>3 DEF Decodes
  <2> QED BY <2>1, <1>4
<1> QED BY <1>4, <1>6, <1>7 DEF Processed

-----------------------------------------------------------------------------
(***************************************************************************)
(* What a cloud holds after some packets of a frame.                       *)
(***************************************************************************)
LEMMA ColumnsIs ==
  ASSUME Types
  PROVE  /\ ColumnPkts \in {1, 2, 4} /\ FramePkts % ColumnPkts = 0
         /\ \A seq \in 1 .. FramePkts :
              Part(seq) = (seq - 1) % ColumnPkts /\ Part(seq) \in 0 .. 3
         /\ sensor.model \notin FromZero => ColumnPkts = 1
<1>1. sensor.model \in Lidars /\ sensor.mode \in {0, 4} /\ FramePkts \in Nat
  BY Sizes DEF Types, Lidar
<1>2. CASE sensor.model = "RSEM4"
  <2>1. FramePkts % 4 = 0 /\ FramePkts % 2 = 0
    BY <1>1, <1>2, LidarsAssumption
  <2>2. \A seq \in 1 .. FramePkts : (seq - 1) % 4 \in 0 .. 3 /\ (seq - 1) % 2 \in 0 .. 3
    BY <1>1
  <2> QED BY <1>1, <1>2, <2>1, <2>2 DEF ColumnPkts, Part, RSEM4Part, FromZero
<1>3. CASE sensor.model = "RSEMX"
  <2>1. FramePkts % 2 = 0 /\ FramePkts % 1 = 0
    BY <1>1, <1>3, LidarsAssumption
  <2>2. \A seq \in 1 .. FramePkts : (seq - 1) % 1 = 0 /\ (seq - 1) % 2 \in 0 .. 3
    BY <1>1
  <2> QED BY <1>1, <1>3, <2>1, <2>2 DEF ColumnPkts, Part, FromZero
<1>4. CASE sensor.model \notin {"RSEM4", "RSEMX"}
  <2>1. FramePkts % 1 = 0 /\ \A seq \in 1 .. FramePkts : (seq - 1) % 1 = 0
    BY <1>1
  <2>2. ColumnPkts = 1 /\ \A seq \in 1 .. FramePkts : Part(seq) = 0
    BY <1>4 DEF ColumnPkts, Part
  <2> QED BY <2>1, <2>2
<1> QED BY <1>2, <1>3, <1>4

LEMMA OfPartIs ==
  ASSUME NEW k \in {1, 2, 4}, NEW i \in 0 .. k - 1
  PROVE  /\ OfPart(0, k, i) = 0
         /\ \A n \in Nat :
              OfPart(n + 1, k, i) = OfPart(n, k, i) + (IF n % k = i THEN 1 ELSE 0)
         /\ \A n \in Nat : n % k = 0 => OfPart(n, k, i) * k = n
<1>1. CASE k = 1
  BY <1>1 DEF OfPart
<1>2. CASE k = 2
  <2>1. i \in {0, 1}
    BY <1>2
  <2> QED BY <1>2, <2>1 DEF OfPart
<1>3. CASE k = 4
  <2>1. i \in {0, 1, 2, 3}
    BY <1>3
  <2>2. CASE i = 0
    BY <1>3, <2>2 DEF OfPart
  <2>3. CASE i = 1
    BY <1>3, <2>3 DEF OfPart
  <2>4. CASE i = 2
    BY <1>3, <2>4 DEF OfPart
  <2>5. CASE i = 3
    BY <1>3, <2>5 DEF OfPart
  <2> QED BY <2>1, <2>2, <2>3, <2>4, <2>5
<1> QED BY <1>1, <1>2, <1>3

LEMMA PointsTypes ==
  ASSUME Types
  PROVE  PointsPerPacket \in Nat /\ PointsOfFrame[sensor.model].points \in Nat
<1>1. sensor.model \in {"RSM1", "RSM1_JUMBO", "RSM2", "RSM3", "RSE1", "RSMX", "RSEM4", "RSEMX"}
  BY LidarsAssumption DEF Types, Lidar
<1>2. /\ PointsOfFrame["RSM1"].points \in Nat /\ PointsOfFrame["RSM1_JUMBO"].points \in Nat
      /\ PointsOfFrame["RSM2"].points \in Nat /\ PointsOfFrame["RSM3"].points \in Nat
      /\ PointsOfFrame["RSE1"].points \in Nat /\ PointsOfFrame["RSMX"].points \in Nat
      /\ PointsOfFrame["RSEM4"].points \in Nat /\ PointsOfFrame["RSEMX"].points \in Nat
  BY DEF PointsOfFrame, RSM1, RSM1_Jumbo, RSM2, RSM3, RSE1, RSMX, RSEM4, RSEMX
<1>3. PointsOfFrame[sensor.model].points \in Nat
  BY <1>1, <1>2
<1> QED BY <1>3 DEF PointsPerPacket

LEMMA FillTypes ==
  ASSUME Types, NEW c \in Scan, NEW cut \in BOOLEAN, NEW p \in Pkt,
         c.points = c.pkts * PointsPerPacket
  PROVE  /\ Fill(c, cut, p) \in Scan
         /\ Fill(c, cut, p).points = Fill(c, cut, p).pkts * PointsPerPacket
<1>1. Part(p.seq) \in 0 .. 3
  BY ColumnsIs DEF Pkt
<1>2. c.points \in Nat /\ c.pkts \in Nat /\ c.parts \in [0 .. 3 -> Nat]
      /\ c.clean \in BOOLEAN /\ PointsPerPacket \in Nat /\ p.clean \in BOOLEAN
  BY PointsTypes DEF Scan, Pkt
<1>3. Fill(c, cut, p) \in Scan
  <2> DEFINE old == IF cut THEN [i \in 0 .. 3 |-> 0] ELSE c.parts
  <2>1. old \in [0 .. 3 -> Nat]
    BY <1>2
  <2>2. [old EXCEPT ![Part(p.seq)] = @ + 1] \in [0 .. 3 -> Nat]
    <3> HIDE DEF old
    <3> QED BY <1>1, <2>1
  <2>3. Fill(c, cut, p) = [ points |-> (IF cut THEN 0 ELSE c.points) + PointsPerPacket,
                         pkts   |-> (IF cut THEN 0 ELSE c.pkts) + 1,
                         parts  |-> [old EXCEPT ![Part(p.seq)] = @ + 1],
                         clean  |-> IF cut THEN p.seq = 1 ELSE c.clean /\ p.clean ]
    BY DEF Fill
  <2>4. /\ (IF cut THEN 0 ELSE c.points) + PointsPerPacket \in Nat
        /\ (IF cut THEN 0 ELSE c.pkts) + 1 \in Nat
    BY <1>2
  <2>6. (IF cut THEN p.seq = 1 ELSE c.clean /\ p.clean) \in BOOLEAN
    BY <1>2, Zenon
  <2>5. \A x, y \in Nat, parts \in [0 .. 3 -> Nat], clean \in BOOLEAN :
          [points |-> x, pkts |-> y, parts |-> parts, clean |-> clean] \in Scan
    BY DEF Scan
  <2> HIDE DEF old
  <2> QED BY <2>2, <2>3, <2>4, <2>5, <2>6
<1>4. Fill(c, cut, p).points = (IF cut THEN 0 ELSE c.points) + PointsPerPacket
      /\ Fill(c, cut, p).pkts = (IF cut THEN 0 ELSE c.pkts) + 1
  BY DEF Fill
<1>5. (IF cut THEN 0 ELSE c.points) + PointsPerPacket
        = ((IF cut THEN 0 ELSE c.pkts) + 1) * PointsPerPacket
  BY <1>2
<1> QED BY <1>3, <1>4, <1>5

LEMMA FillBegun ==
  ASSUME Types, NEW c \in Scan, NEW cut \in BOOLEAN, NEW p \in Pkt,
         IF cut THEN p.seq = 1 ELSE Begun(c, p.seq - 1)
  PROVE  Begun(Fill(c, cut, p), p.seq)
<1>1. /\ p.seq \in Nat /\ p.seq - 1 \in Nat /\ (p.seq - 1) + 1 = p.seq
      /\ p.seq \in 1 .. FramePkts
  BY Sizes DEF Pkt
<1>2. Part(p.seq) = (p.seq - 1) % ColumnPkts /\ Part(p.seq) \in 0 .. 3
      /\ ColumnPkts \in {1, 2, 4}
  BY <1>1, ColumnsIs
<1>3. Fill(c, cut, p).pkts = p.seq
  BY <1>1 DEF Fill, Begun
<1>4. ASSUME NEW i \in 0 .. ColumnPkts - 1
      PROVE  Fill(c, cut, p).parts[i] = OfPart(p.seq, ColumnPkts, i)
  <2> DEFINE old == IF cut THEN [j \in 0 .. 3 |-> 0] ELSE c.parts
             n == p.seq - 1
  <2>1. i \in 0 .. 3
    BY <1>2
  <2>2. old \in [0 .. 3 -> Nat]
    BY DEF Scan
  <2>3. old[i] = OfPart(n, ColumnPkts, i)
    <3>1. CASE cut
      <4>1. OfPart(0, ColumnPkts, i) = 0
        BY <1>2, OfPartIs
      <4>2. n = 0
        BY <3>1
      <4>3. old[i] = 0
        BY <3>1, <2>1
      <4> QED BY <4>1, <4>2, <4>3
    <3>2. CASE ~cut
      BY <3>2 DEF Begun
    <3> QED BY <3>1, <3>2
  <2>4. Fill(c, cut, p).parts[i] = old[i] + (IF n % ColumnPkts = i THEN 1 ELSE 0)
    <3>1. Part(p.seq) = n % ColumnPkts /\ Part(p.seq) \in 0 .. 3
      BY <1>2
    <3>2. Fill(c, cut, p).parts = [old EXCEPT ![Part(p.seq)] = @ + 1]
      BY DEF Fill
    <3> HIDE DEF old, n
    <3>3. [old EXCEPT ![Part(p.seq)] = @ + 1][i] = old[i] + (IF Part(p.seq) = i THEN 1 ELSE 0)
      BY <2>1, <2>2
    <3> QED BY <3>1, <3>2, <3>3
  <2>5. \A m \in Nat : OfPart(m + 1, ColumnPkts, i)
                         = OfPart(m, ColumnPkts, i) + (IF m % ColumnPkts = i THEN 1 ELSE 0)
    BY <1>2, OfPartIs, Zenon
  <2>6. n \in Nat /\ n + 1 = p.seq
    BY <1>1
  <2> HIDE DEF old, n
  <2>7. OfPart(p.seq, ColumnPkts, i)
          = OfPart(n, ColumnPkts, i) + (IF n % ColumnPkts = i THEN 1 ELSE 0)
    BY <2>5, <2>6
  <2> QED BY <2>3, <2>4, <2>7
<1> QED BY <1>3, <1>4 DEF Begun

\* A whole frame.
Whole(c) ==
  /\ c.pkts = FramePkts
  /\ c.points = FramePkts * PointsOfFrame[sensor.model].points
                * (IF sensor.model = "RSMX" /\ sensor.mode = 0 THEN 2 ELSE 1)
  /\ \A i \in 0 .. ColumnPkts - 1 : c.parts[i] * ColumnPkts = FramePkts

LEMMA BegunWhole ==
  ASSUME Types, NEW c \in Scan, Begun(c, FramePkts), c.points = c.pkts * PointsPerPacket
  PROVE  Whole(c)
<1>1. /\ PointsOfFrame[sensor.model].points \in Nat
      /\ (IF sensor.model = "RSMX" /\ sensor.mode = 0 THEN 2 ELSE 1) \in Nat
  BY PointsTypes
<1>2. FramePkts * PointsPerPacket = FramePkts * PointsOfFrame[sensor.model].points
                * (IF sensor.model = "RSMX" /\ sensor.mode = 0 THEN 2 ELSE 1)
  BY <1>1, Sizes DEF PointsPerPacket
<1>3. \A i \in 0 .. ColumnPkts - 1 : c.parts[i] * ColumnPkts = FramePkts
  <2> TAKE i \in 0 .. ColumnPkts - 1
  <2>1. ColumnPkts \in {1, 2, 4}
    BY ColumnsIs
  <2>2. \A n \in Nat : n % ColumnPkts = 0 => OfPart(n, ColumnPkts, i) * ColumnPkts = n
    BY <2>1, OfPartIs, Zenon
  <2>3. OfPart(FramePkts, ColumnPkts, i) * ColumnPkts = FramePkts
    BY <2>2, ColumnsIs, Sizes
  <2> QED BY <2>3 DEF Begun
<1> QED BY <1>2, <1>3 DEF Begun, Whole

-----------------------------------------------------------------------------
(***************************************************************************)
(* The next packet arrives and is taken.                                   *)
(***************************************************************************)
LEMMA NextHeard ==
  ASSUME MemsInv, ~Jumbo, NEW p \in Pkt, p.seq = sensor.seq, p.frame = sensor.frame,
         Processed(p)
  PROVE  /\ heard'.frame = sensor.frame
         /\ dec'.split.prev = Number(sensor.seq)
         /\ ~(sensor.model \in FromZero /\ heard'.after) => (heard'.new <=> heard'.fresh)
<1> DEFINE x == Number(sensor.seq)
<1>1. Types /\ SingleInv
  BY DEF MemsInv
<1>2. /\ sensor.seq \in 1 .. FramePkts /\ sensor.frame \in 0 .. Frames - 1
      /\ dec.split \in Split /\ sensor.missed \in 0 .. Range - 1
  BY <1>1, Sizes DEF Types, Lidar, DecoderState, SingleInv
<1>3. SeqBefore(0) = sensor.seq /\ FrameBefore(0) = sensor.frame
  BY <1>2 DEF SeqBefore, FrameBefore
<1>4. /\ dec'.split.prev = SeqNext(dec.split, x).prev
      /\ heard'.new <=> SeqSplit(dec.split, x)
      /\ heard'.frame = IF heard.frame = Unheard \/ Newer(sensor.frame) THEN sensor.frame
                        ELSE heard.frame
      /\ heard'.fresh <=> ((heard.frame = Unheard \/ Newer(sensor.frame)) /\ heard.frame # Unheard)
      /\ heard'.after = heard.late
  BY DEF Processed
<1>5. CASE heard.frame = Unheard
  <2>1. dec.split = SeqStart
    BY <1>5 DEF MemsInv, Quiet
  <2>2. x \in 0 .. FramePkts
    BY <1>2, NumberTypes
  <2>3. ~SeqSplit(dec.split, x) /\ SeqNext(dec.split, x).prev = x
    BY <2>1, <2>2, Sizes DEF SeqSplit, SafeMin, SeqNext, SeqStart
  <2> QED BY <1>4, <1>5, <2>3
<1>6. CASE heard.frame # Unheard
  <2>1. PICK n \in 1 .. sensor.missed + 1 : Newest(n)
    BY <1>1, <1>6 DEF SingleInv
  <2>2. n \in 1 .. Range /\ 0 \in 0 .. Range
    BY <1>2, Sizes
  <2>3. heard.frame = FrameBefore(n)
    BY <2>1 DEF Newest
  <2>4. Newer(sensor.frame) <=> sensor.seq <= n
    <3>1. Newer(FrameBefore(0)) <=> 0 < sensor.seq /\ sensor.seq <= n
      BY <1>1, <2>2, <2>3, CutAtFrame, Sizes
    <3> QED BY <1>2, <1>3, <3>1
  <2>5. ~Newer(sensor.frame) => heard.frame = sensor.frame
    BY <1>2, <2>2, <2>3, <2>4, Sizes DEF FrameBefore
  <2>6. CASE dec.split.prev = Number(SeqBefore(n))
    <3>1. /\ SeqSplit(dec.split, Number(SeqBefore(0))) <=> 0 < sensor.seq /\ sensor.seq <= n
          /\ 0 < n => SeqNext(dec.split, Number(SeqBefore(0))).prev = Number(SeqBefore(0))
      BY <1>1, <2>2, <2>6, Splits
    <3> QED BY <1>2, <1>3, <1>4, <1>6, <2>2, <2>4, <2>5, <3>1
  <2>7. CASE Misled(n)
    <3>1. SeqNext(dec.split, Number(SeqBefore(0))).prev = Number(SeqBefore(0))
      BY <1>1, <2>2, <2>7, MisledSplits
    <3>2. sensor.model \in FromZero /\ heard'.after
      BY <1>4, <2>7 DEF Misled
    <3> QED BY <1>3, <1>4, <1>6, <2>5, <3>1, <3>2
  <2> QED BY <2>1, <2>6, <2>7 DEF Newest
<1> QED BY <1>5, <1>6

(* What maxSeq() is after a packet. *)
LEMMA EndedMax ==
  ASSUME Types, MaxInv, NEW p \in Pkt, Processed(p), sensor'.model = sensor.model
  PROVE  /\ MaxInv'
         /\ HandsOver(dec.split, p) => sensor.model = "RSM1" /\ (heard'.ended => p.seq = FramePkts)
<1> DEFINE s == SeqNext(dec.split, p.seq)
           cut == SeqSplit(dec.split, p.seq)
           end == HandsOver(dec.split, p)
<1>1. /\ p.seq \in 1 .. FramePkts /\ dec.split \in Split /\ dec.split.max \in 0 .. FramePkts
      /\ heard.ended \in BOOLEAN /\ sensor'.model = sensor.model
  BY Sizes DEF Pkt, Types, DecoderState, Split, Hearing
<1>2. /\ s.looped <=> dec.split.looped \/ cut
      /\ s.max = IF p.seq > dec.split.max THEN p.seq ELSE dec.split.max
  BY <1>1, SeqNextLoops
<1>3. heard'.ended <=> heard.ended \/ p.seq = FramePkts
  BY <1>1 DEF Processed
<1>4. end => sensor.model = "RSM1" /\ MaxSeq(s) = p.seq
  BY DEF HandsOver
<1>5. ASSUME sensor.model = "RSM1"
      PROVE  /\ heard'.ended => s.max = FramePkts
             /\ end <=> s.looped /\ s.max = p.seq
             /\ dec'.split = s
             /\ ~s.looped => last' = {}
  <2>1. Number(p.seq) = p.seq
    BY <1>5 DEF Number, FromZero
  <2>2. dec'.split = s
    BY <2>1 DEF Processed
  <2>3. heard'.ended => s.max = FramePkts
    BY <1>1, <1>2, <1>3, <1>5, Sizes DEF MaxInv
  <2>4. end <=> s.looped /\ s.max = p.seq
    <3>1. end <=> MaxSeq(s) = p.seq
      BY <1>5 DEF HandsOver
    <3>2. MaxSeq(s) = IF s.looped THEN s.max ELSE 0
      BY DEF MaxSeq
    <3> QED BY <1>1, <3>1, <3>2
  <2>5. last' = IF end THEN {Fill(scan, cut, p)}
                ELSE IF cut /\ scan.pkts > 0 THEN {[scan EXCEPT !.clean = @ /\ p.clean]}
                ELSE last
    BY <2>1 DEF Processed
  <2>6. ~dec.split.looped => last = {}
    BY <1>5 DEF MaxInv
  <2> HIDE DEF s, cut, end
  <2> QED BY <1>2, <2>2, <2>3, <2>4, <2>5, <2>6
<1> HIDE DEF s, cut, end
<1>6. MaxInv'
  BY <1>1, <1>5 DEF MaxInv
<1>7. end /\ heard'.ended => p.seq = FramePkts
  BY <1>4, <1>5
<1> QED BY <1>4, <1>6, <1>7 DEF end

\* The last cloud and the one being filled, when all their packets came.
LEMMA CleanScan ==
  ASSUME MemsInv, ~Jumbo, scan.clean, sensor.missed = 0
  PROVE  /\ SeqSplit(dec.split, Number(sensor.seq)) <=> sensor.seq = 1
         /\ SeqBefore(1) = IF sensor.seq = 1 THEN FramePkts ELSE sensor.seq - 1
         /\ sensor.seq # 1 => Begun(scan, sensor.seq - 1)
         /\ sensor.seq = 1 => Begun(scan, FramePkts) \/ scan.pkts = 0
<1>1. Types /\ SingleInv /\ ScanInv /\ sensor.seq \in 1 .. FramePkts
  BY DEF MemsInv, Types, Lidar
<1>2. /\ heard.frame # Unheard /\ dec.split.prev = Number(SeqBefore(1))
      /\ \/ Begun(scan, SeqBefore(1))
         \/ sensor.model = "RSM1" /\ sensor.seq = 1 /\ Begun(scan, 0)
  BY <1>1 DEF ScanInv
<1>3. SeqBefore(0) = sensor.seq
      /\ SeqBefore(1) = IF sensor.seq = 1 THEN FramePkts ELSE sensor.seq - 1
  BY <1>1, Sizes DEF SeqBefore
<1>4. SeqSplit(dec.split, Number(SeqBefore(0))) <=> 0 < sensor.seq /\ sensor.seq <= 1
  BY <1>1, <1>2, Splits, Sizes
<1>5. Begun(scan, 0) => scan.pkts = 0
  BY DEF Begun
<1> QED BY <1>1, <1>2, <1>3, <1>4, <1>5

LEMMA EmptyBegun ==
  ASSUME Types, NEW clean \in BOOLEAN
  PROVE  /\ [EmptyScan EXCEPT !.clean = clean] \in Scan
         /\ [EmptyScan EXCEPT !.clean = clean].points
              = [EmptyScan EXCEPT !.clean = clean].pkts * PointsPerPacket
         /\ [EmptyScan EXCEPT !.clean = clean].clean = clean
         /\ Begun([EmptyScan EXCEPT !.clean = clean], 0)
<1> DEFINE c == [EmptyScan EXCEPT !.clean = clean]
<1>1. c = [points |-> 0, pkts |-> 0, parts |-> [i \in 0 .. 3 |-> 0], clean |-> clean]
  BY DEF EmptyScan
<1> HIDE DEF c
<1>2. c \in Scan /\ c.points = 0 /\ c.pkts = 0 /\ c.clean = clean
      /\ c.parts = [i \in 0 .. 3 |-> 0]
  BY <1>1 DEF Scan
<1>3. c.points = c.pkts * PointsPerPacket
  BY <1>2, PointsTypes
<1>4. \A i \in 0 .. ColumnPkts - 1 : c.parts[i] = OfPart(0, ColumnPkts, i)
  <2> TAKE i \in 0 .. ColumnPkts - 1
  <2>1. ColumnPkts \in {1, 2, 4}
    BY ColumnsIs
  <2>2. OfPart(0, ColumnPkts, i) = 0
    BY <2>1, OfPartIs, Zenon
  <2>3. i \in 0 .. 3
    BY <2>1
  <2> QED BY <1>2, <2>2, <2>3
<1>5. Begun(c, 0)
  BY <1>2, <1>4 DEF Begun
<1> QED BY <1>2, <1>3, <1>5 DEF c

(* Which of the clouds handed over are to be whole frames. *)
Kept(c, ended) == c.clean /\ (sensor.model = "RSM1" => ended)

\* Where the first last packet of a frame is heard, RSM1 hands a cloud over or
\* has handed none over yet.
LEMMA StillKept ==
  ASSUME Types, MaxInv, NEW p \in Pkt, Processed(p), ~HandsOver(dec.split, p),
         \A c \in last : Kept(c, heard.ended) => Whole(c)
  PROVE  \A c \in last : Kept(c, heard'.ended) => Whole(c)
<1>1. CASE sensor.model # "RSM1"
  BY <1>1 DEF Kept
<1>2. CASE sensor.model = "RSM1"
  <2> SUFFICES ASSUME heard'.ended, ~heard.ended PROVE last = {}
    BY DEF Kept
  <2>1. p.seq = FramePkts /\ dec.split \in Split /\ dec.split.max \in 0 .. FramePkts
    BY Sizes DEF Processed, Types, DecoderState, Split, Hearing
  <2>2. /\ SeqNext(dec.split, p.seq).looped <=> dec.split.looped \/ SeqSplit(dec.split, p.seq)
        /\ SeqNext(dec.split, p.seq).max = FramePkts
    BY <2>1, SeqNextLoops, Sizes
  <2>3. ~SeqNext(dec.split, p.seq).looped
    BY <1>2, <2>1, <2>2 DEF HandsOver, MaxSeq
  <2> QED BY <1>2, <2>2, <2>3 DEF MaxInv
<1> QED BY <1>1, <1>2

LEMMA NextScan ==
  ASSUME MemsInv, ~Jumbo, NEW p \in Pkt, p.seq = sensor.seq, p.frame = sensor.frame,
         p.clean => sensor.missed = 0, Processed(p), sensor'.model = sensor.model
  PROVE  /\ scan' \in Scan /\ scan'.points = scan'.pkts * PointsPerPacket
         /\ scan'.clean => \/ Begun(scan', sensor.seq)
                           \/ /\ sensor.model = "RSM1" /\ sensor.seq = FramePkts
                              /\ Begun(scan', 0)
         /\ \A c \in last' : Kept(c, heard'.ended) => Whole(c)
<1> DEFINE cut == SeqSplit(dec.split, Number(p.seq))
           end == HandsOver(dec.split, p)
           full == Fill(scan, cut, p)
<1>1. /\ Types /\ scan \in Scan /\ scan.points = scan.pkts * PointsPerPacket
      /\ p.seq \in 1 .. FramePkts /\ p.clean \in BOOLEAN /\ WholeFrames
  BY DEF MemsInv, ScanInv, Types, Pkt
<1>2. cut \in BOOLEAN
  BY DEF SeqSplit
<1>3. end => sensor.model = "RSM1" /\ (heard'.ended => p.seq = FramePkts)
  BY <1>1, EndedMax DEF MemsInv
<1>4. full \in Scan /\ full.points = full.pkts * PointsPerPacket
  BY <1>1, <1>2, FillTypes
<1>5. full.clean <=> IF cut THEN p.seq = 1 ELSE scan.clean /\ p.clean
  BY DEF Fill
<1>6. full.clean => Begun(full, p.seq)
  <2>1. CASE cut /\ full.clean
    <3>1. p.seq = 1
      BY <1>5, <2>1
    <3> QED BY <1>1, <1>2, <2>1, <3>1, FillBegun
  <2>2. CASE ~cut /\ full.clean
    <3>1. scan.clean /\ sensor.missed = 0
      BY <1>5, <2>2
    <3>2. Begun(scan, p.seq - 1)
      BY <2>2, <3>1, CleanScan
    <3> QED BY <1>1, <1>2, <2>2, <3>2, FillBegun
  <2> QED BY <2>1, <2>2
<1>7. /\ scan' = IF end THEN [EmptyScan EXCEPT !.clean = p.clean /\ p.seq = FramePkts] ELSE full
      /\ last' = IF end THEN {full}
                 ELSE IF cut /\ scan.pkts > 0 THEN {[scan EXCEPT !.clean = @ /\ p.clean]}
                 ELSE last
  BY DEF Processed
<1> HIDE DEF cut, end, full
<1>8. CASE end
  <2>1. scan' = [EmptyScan EXCEPT !.clean = p.clean /\ p.seq = FramePkts] /\ last' = {full}
    BY <1>7, <1>8
  <2>2. scan' \in Scan /\ scan'.points = scan'.pkts * PointsPerPacket /\ Begun(scan', 0)
    BY <1>1, <2>1, EmptyBegun
  <2>3. scan'.clean => p.seq = FramePkts
    BY <1>1, <2>1, EmptyBegun
  <2>4. Kept(full, heard'.ended) => Whole(full)
    BY <1>1, <1>3, <1>4, <1>6, <1>8, BegunWhole DEF Kept
  <2> QED BY <1>3, <1>8, <2>1, <2>2, <2>3, <2>4
<1>9. CASE ~end
  <2>1. scan' = full
    BY <1>7, <1>9
  <2>2. ASSUME cut, scan.pkts > 0, [scan EXCEPT !.clean = @ /\ p.clean].clean
        PROVE  Whole([scan EXCEPT !.clean = @ /\ p.clean])
    <3> DEFINE c == [scan EXCEPT !.clean = @ /\ p.clean]
    <3>1. c \in Scan /\ c.points = c.pkts * PointsPerPacket /\ c.pkts = scan.pkts
          /\ c.parts = scan.parts
      BY <1>1 DEF Scan
    <3>2. scan.clean /\ p.clean
      BY <1>1, <2>2 DEF Scan
    <3>3. Begun(scan, FramePkts)
      BY <1>1, <2>2, <3>2, CleanScan DEF cut
    <3>4. Begun(c, FramePkts)
      BY <3>1, <3>3 DEF Begun
    <3> QED BY <1>1, <3>1, <3>4, BegunWhole
  <2>3. \A c \in last : Kept(c, heard.ended) => Whole(c)
    BY <1>1 DEF WholeFrames, Whole, Kept
  <2>4. \A c \in last : Kept(c, heard'.ended) => Whole(c)
    BY <1>1, <1>9, <2>3, StillKept DEF end, MemsInv
  <2>5. \A c \in last' : Kept(c, heard'.ended) => Whole(c)
    BY <1>7, <1>9, <2>2, <2>4 DEF Kept
  <2> QED BY <1>1, <1>4, <1>6, <2>1, <2>5
<1> QED BY <1>8, <1>9

\* A step keeps the LiDAR and its return mode.
LEMMA SameLidar ==
  ASSUME sensor'.model = sensor.model, sensor'.mode = sensor.mode
  PROVE  /\ ColumnPkts' = ColumnPkts /\ PointsPerPacket' = PointsPerPacket
         /\ Jumbo' <=> Jumbo
         /\ \A seq : Number(seq)' = Number(seq)
         /\ \A c : Whole(c)' <=> Whole(c)
         /\ \A c, n : Begun(c, n)' <=> Begun(c, n)
<1>1. ColumnPkts' = ColumnPkts
  BY DEF ColumnPkts
<1>2. PointsPerPacket' = PointsPerPacket
  BY DEF PointsPerPacket
<1>3. (Jumbo' <=> Jumbo) /\ \A seq : Number(seq)' = Number(seq)
  BY DEF Jumbo, Number
<1>4. ASSUME NEW c PROVE Whole(c)' <=> Whole(c)
  BY <1>1 DEF Whole
<1>5. ASSUME NEW c, NEW n PROVE Begun(c, n)' <=> Begun(c, n)
  BY <1>1 DEF Begun
<1> QED BY <1>1, <1>2, <1>3, <1>4, <1>5

LEMMA NextPacket ==
  ASSUME Types, ~Jumbo, NEW ok \in BOOLEAN
  PROVE  LET p == Packets(ok)[1]
         IN  /\ p = [seq |-> sensor.seq, frame |-> sensor.frame, mode |-> sensor.mode,
                     ok |-> ok, clean |-> ok /\ sensor.missed = 0]
             /\ p \in Pkt /\ p.seq = sensor.seq /\ p.frame = sensor.frame
             /\ p.ok = ok /\ p.mode = sensor.mode /\ (p.clean => sensor.missed = 0)
<1> DEFINE p == Packets(ok)[1]
<1>1. sensor.seq \in 1 .. FramePkts /\ sensor.frame \in 0 .. Frames - 1 /\ sensor.mode \in {0, 4}
  BY DEF Types, Lidar
<1>2. Group(sensor.model) = 1
  BY DEF Group, Jumbo
<1>3. p = [seq |-> sensor.seq + 1 - 1, frame |-> sensor.frame, mode |-> sensor.mode,
           ok |-> ok, clean |-> ok /\ (1 > 1 \/ sensor.missed = 0)]
  BY <1>2 DEF Packets
<1>4. sensor.seq + 1 - 1 = sensor.seq /\ ~(1 > 1)
  BY <1>1
<1>5. p = [seq |-> sensor.seq, frame |-> sensor.frame, mode |-> sensor.mode,
           ok |-> ok, clean |-> ok /\ sensor.missed = 0]
  BY <1>3, <1>4
<1> HIDE DEF p
<1>6. p \in Pkt
  BY <1>1, <1>5 DEF Pkt
<1>7. p.seq = sensor.seq /\ p.frame = sensor.frame /\ p.ok = ok /\ p.mode = sensor.mode
      /\ (p.clean => sensor.missed = 0)
  BY <1>5
<1> QED BY <1>5, <1>6, <1>7 DEF p

\* Nothing was heard yet, and it stays so.
LEMMA UnheardStep ==
  ASSUME MemsInv, heard.frame = Unheard,
         sensor' \in Lidar, sensor'.model = sensor.model, sensor'.mode = sensor.mode,
         faults' \in Nat, dec' \in DecoderState, dec'.split = dec.split,
         scan' = scan, last' = last,
         heard' = heard \/ heard' = [heard EXCEPT !.fresh = FALSE, !.new = FALSE],
         IF Jumbo THEN sensor'.seq \in Heads /\ sensor'.missed \in {0, 1} /\ held' = {}
                       /\ (sensor'.missed = 1 => faults' > 0)
                  ELSE sensor'.missed < Range /\ HeldInv'
  PROVE  MemsInv'
<1>1. Types /\ Quiet /\ heard \in Hearing
  BY DEF MemsInv, Types
<1>2. /\ heard' \in Hearing /\ heard'.frame = heard.frame /\ ~heard'.fresh /\ ~heard'.new
      /\ heard'.late = heard.late /\ heard'.ended = heard.ended
  BY <1>1 DEF Hearing, Quiet
<1>3. Types' /\ heard'.frame = Unheard
  BY <1>1, <1>2 DEF Types
<1>4. Quiet'
  BY <1>1, <1>2 DEF Quiet
<1>5. MaxInv' /\ OneSplitPerFrame' /\ WholeFrames'
  BY <1>1, <1>2, <1>4 DEF MaxInv, Quiet, OneSplitPerFrame, WholeFrames
<1>6. scan'.points = scan'.pkts * PointsPerPacket' /\ ~scan'.clean
  <2>1. PointsPerPacket' \in Nat
    BY <1>1, PointsTypes, SameLidar
  <2> QED BY <1>1, <2>1 DEF Quiet, EmptyScan
<1>7. ScanInv'
  BY <1>6 DEF ScanInv
<1>8. Jumbo' <=> Jumbo
  BY DEF Jumbo
<1>9. IF Jumbo' THEN JumboInv' ELSE SingleInv'
  BY <1>3, <1>8 DEF JumboInv, SingleInv, Heads
<1> QED BY <1>3, <1>4, <1>5, <1>7, <1>9 DEF MemsInv

LEMMA NotTakenUnheard ==
  ASSUME MemsInv, NotTaken
  PROVE  heard.frame = Unheard
BY DEF MemsInv, NotTaken

LEMMA HeardTypes ==
  ASSUME Types, NEW p \in Pkt, Processed(p)
  PROVE  heard' \in Hearing
<1> DEFINE newer == heard.frame = Unheard \/ Newer(p.frame)
           frame == IF newer THEN p.frame ELSE heard.frame
           fresh == newer /\ heard.frame # Unheard
           new == SeqSplit(dec.split, Number(p.seq))
           late == ~newer /\ p.frame # heard.frame
           ended == heard.ended \/ p.seq = FramePkts
<1>1. \A x, y, z, u, v \in BOOLEAN, n \in 0 .. Frames :
        [frame |-> n, fresh |-> x, new |-> y, late |-> z, after |-> u, ended |-> v] \in Hearing
  BY DEF Hearing
<1>2. frame \in 0 .. Frames
  BY Sizes DEF Types, Pkt, Hearing
<1>3. fresh \in BOOLEAN /\ late \in BOOLEAN /\ heard.late \in BOOLEAN /\ ended \in BOOLEAN
  BY DEF Types, Hearing
<1>4. new \in BOOLEAN
  BY DEF SeqSplit
<1>5. heard' = [frame |-> frame, fresh |-> fresh, new |-> new, late |-> late,
                after |-> heard.late, ended |-> ended]
  BY Zenon DEF Processed
<1> HIDE DEF frame, fresh, new, late, ended
<1> QED BY <1>1, <1>2, <1>3, <1>4, <1>5

LEMMA NextStep ==
  ASSUME MemsInv, ~Jumbo, Process(Packets(TRUE)),
         sensor' = [Advanced(1) EXCEPT !.missed = 0],
         faults' \in Nat, HeldInv'
  PROVE  MemsInv'
<1> DEFINE p == Packets(TRUE)[1]
<1>1. /\ Types /\ SingleInv /\ sensor \in Lidar /\ sensor.missed < Range /\ heard \in Hearing
      /\ sensor.seq \in 1 .. FramePkts /\ sensor.frame \in 0 .. Frames - 1
  BY DEF MemsInv, Types, Lidar, SingleInv
<1>2. /\ p \in Pkt /\ p.seq = sensor.seq /\ p.frame = sensor.frame
      /\ p.ok = TRUE /\ p.mode = sensor.mode /\ (p.clean => sensor.missed = 0)
  BY <1>1, NextPacket
<1> HIDE DEF p
<1>3. 1 \in 0 .. FramePkts
  BY Sizes
<1>4. /\ sensor' \in Lidar /\ sensor'.missed = 0
      /\ sensor'.model = sensor.model /\ sensor'.mode = sensor.mode
      /\ sensor'.seq = Advanced(1).seq /\ sensor'.frame = Advanced(1).frame
      /\ sensor'.seq = IF sensor.seq + 1 > FramePkts THEN sensor.seq + 1 - FramePkts
                       ELSE sensor.seq + 1
  <2>1. /\ Advanced(1) \in Lidar
        /\ Advanced(1).model = sensor.model /\ Advanced(1).mode = sensor.mode
        /\ Advanced(1).seq = IF sensor.seq + 1 > FramePkts THEN sensor.seq + 1 - FramePkts
                             ELSE sensor.seq + 1
    BY <1>1, <1>3, AdvancedIs
  <2> QED BY <2>1 DEF Lidar
<1>5. SeqBefore(1)' = sensor.seq /\ FrameBefore(1)' = sensor.frame
  <2>1. SeqBefore(0 + 1)' = SeqBefore(0) /\ FrameBefore(0 + 1)' = FrameBefore(0)
    BY <1>1, <1>3, <1>4, Shift, Sizes
  <2> QED BY <1>1, <2>1 DEF SeqBefore, FrameBefore
<1>6. /\ ColumnPkts' = ColumnPkts /\ PointsPerPacket' = PointsPerPacket /\ ~Jumbo'
      /\ \A seq : Number(seq)' = Number(seq)
      /\ \A c : Whole(c)' <=> Whole(c)
      /\ \A c, n : Begun(c, n)' <=> Begun(c, n)
  BY <1>4, SameLidar
<1>7. CASE NotTaken
  <2>1. heard.frame = Unheard
    BY <1>7, NotTakenUnheard
  <2>2. dec' = IsNewFrame(dec, Packets(TRUE)) /\ UNCHANGED <<scan, last, heard>>
    BY <1>7 DEF Process, NotTaken
  <2>3. dec' \in DecoderState /\ dec'.split = dec.split
    BY <1>1, <1>2, <2>2, AskedIs DEF p
  <2>4. sensor'.missed < Range
    BY <1>4, Sizes
  <2> QED BY <1>4, <2>1, <2>2, <2>3, <2>4, UnheardStep
<1>8. CASE ~NotTaken
  <2>1. Processed(p)
    <3>1. DOMAIN Packets(TRUE) = {1}
      BY DEF Packets, Group, Jumbo
    <3> QED BY <1>1, <1>2, <1>8, <3>1, ProcessIs DEF p
  <2>2. /\ heard'.frame = sensor.frame
        /\ dec'.split.prev = Number(sensor.seq)
        /\ ~(sensor.model \in FromZero /\ heard'.after) => (heard'.new <=> heard'.fresh)
    BY <1>2, <2>1, NextHeard
  <2>4. /\ scan' \in Scan /\ scan'.points = scan'.pkts * PointsPerPacket
        /\ scan'.clean => \/ Begun(scan', sensor.seq)
                          \/ /\ sensor.model = "RSM1" /\ sensor.seq = FramePkts
                             /\ Begun(scan', 0)
        /\ \A c \in last' : Kept(c, heard'.ended) => Whole(c)
    BY <1>2, <1>4, <2>1, NextScan
  <2>5. /\ dec' \in DecoderState /\ dec'.wait = dec.wait /\ dec'.ready = dec.ready
        /\ dec'.split = SeqNext(dec.split, Number(p.seq))
    BY <2>1 DEF Processed
  <2>6. heard' \in Hearing
    BY <1>1, <1>2, <2>1, HeardTypes
  <2>7. Types'
    BY <1>4, <2>4, <2>5, <2>6 DEF Types
  <2>8. heard'.frame # Unheard
    BY <1>1, <2>2 DEF Unheard
  <2>9. ~dec'.wait \/ dec'.ready
    BY <1>8, <2>5 DEF NotTaken
  <2>10. MaxInv'
    BY <1>1, <1>2, <1>4, <2>1, EndedMax DEF MemsInv
  <2>11. Newest(1)'
    BY <1>5, <1>6, <2>2 DEF Newest
  <2>12. SingleInv'
    BY <1>4, <2>11, Sizes DEF SingleInv
  <2>13. ScanInv'
    <3>1. sensor.seq = FramePkts => sensor'.seq = 1
      BY <1>4, Sizes
    <3>2. dec'.split.prev = Number(SeqBefore(1))'
      BY <1>5, <1>6, <2>2
    <3>3. scan'.clean => \/ Begun(scan, SeqBefore(1))'
                         \/ sensor'.model = "RSM1" /\ sensor'.seq = 1 /\ Begun(scan, 0)'
      BY <1>4, <1>5, <1>6, <2>4, <3>1
    <3> QED BY <1>6, <2>4, <2>8, <3>2, <3>3 DEF ScanInv
  <2>14. OneSplitPerFrame'
    BY <1>4, <2>2 DEF OneSplitPerFrame
  <2>15. WholeFrames'
    BY <1>4, <1>6, <2>4 DEF WholeFrames, Whole, Kept
  <2> QED BY <1>4, <1>6, <2>7, <2>8, <2>9, <2>10, <2>12, <2>13, <2>14, <2>15 DEF MemsInv
<1> QED BY <1>7, <1>8

(***************************************************************************)
(* A late packet arrives: where it is newer than the last one heard, the   *)
(* ones between are missed, else the splitter stays where it is.           *)
(***************************************************************************)
LEMMA LatePacket ==
  ASSUME MemsInv, ~Jumbo, NEW h \in held
  PROVE  LET p == [h.pkt EXCEPT !.ok = TRUE]
         IN  /\ h.age \in 0 .. Range - 1 /\ h.age + 1 \in 1 .. Range
             /\ p \in Pkt /\ p.seq = SeqBefore(h.age + 1) /\ p.frame = FrameBefore(h.age + 1)
             /\ p.ok = TRUE /\ p.mode = sensor.mode /\ p.clean = FALSE
<1>1. Types /\ SingleInv /\ sensor.mode \in {0, 4}
  BY DEF MemsInv, Types, Lidar
<1>2. h.age \in 0 .. Range - 1
      /\ h.pkt = [seq |-> SeqBefore(h.age + 1), frame |-> FrameBefore(h.age + 1),
                  mode |-> sensor.mode, ok |-> FALSE, clean |-> FALSE]
  BY <1>1 DEF SingleInv, HeldInv
<1>3. h.age + 1 \in 1 .. Range /\ h.age + 1 \in 0 .. FramePkts
  BY <1>2, Sizes
<1>4. SeqBefore(h.age + 1) \in 1 .. FramePkts /\ FrameBefore(h.age + 1) \in 0 .. Frames - 1
  BY <1>1, <1>3, BeforeTypes
<1>5. h.pkt \in Pkt /\ h.pkt.seq = SeqBefore(h.age + 1) /\ h.pkt.frame = FrameBefore(h.age + 1)
      /\ h.pkt.mode = sensor.mode /\ h.pkt.clean = FALSE
  BY <1>1, <1>2, <1>4 DEF Pkt
<1>6. /\ [h.pkt EXCEPT !.ok = TRUE] \in Pkt
      /\ [h.pkt EXCEPT !.ok = TRUE].seq = h.pkt.seq
      /\ [h.pkt EXCEPT !.ok = TRUE].frame = h.pkt.frame
      /\ [h.pkt EXCEPT !.ok = TRUE].ok = TRUE
      /\ [h.pkt EXCEPT !.ok = TRUE].mode = h.pkt.mode
      /\ [h.pkt EXCEPT !.ok = TRUE].clean = h.pkt.clean
  BY <1>5 DEF Pkt
<1> QED BY <1>2, <1>3, <1>5, <1>6

\* It is the first packet heard.
LEMMA LateFirst ==
  ASSUME MemsInv, ~Jumbo, NEW h \in held, Process(<<[h.pkt EXCEPT !.ok = TRUE]>>),
         held' = {}, sensor' = [sensor EXCEPT !.missed = h.age], faults' = faults,
         heard.frame = Unheard, ~NotTaken
  PROVE  MemsInv'
<1> DEFINE p == [h.pkt EXCEPT !.ok = TRUE]
           m == h.age + 1
           x == Number(p.seq)
<1>1. /\ Types /\ Quiet /\ MaxInv /\ sensor \in Lidar /\ sensor.seq \in 1 .. FramePkts
      /\ scan \in Scan
  BY DEF MemsInv, Types, Lidar
<1>2. /\ h.age \in 0 .. Range - 1 /\ m \in 1 .. Range
      /\ p \in Pkt /\ p.seq = SeqBefore(m) /\ p.frame = FrameBefore(m)
      /\ p.ok = TRUE /\ p.mode = sensor.mode /\ p.clean = FALSE
  BY LatePacket
<1>3. <<p>>[1] = p /\ DOMAIN <<p>> = {1} /\ Process(<<p>>)
  OBVIOUS
<1> HIDE DEF p
<1>4. Processed(p)
  BY <1>1, <1>2, <1>3, ProcessIs
<1>5. /\ sensor' \in Lidar /\ sensor'.model = sensor.model /\ sensor'.mode = sensor.mode
      /\ sensor'.seq = sensor.seq /\ sensor'.frame = sensor.frame /\ sensor'.missed = h.age
  BY <1>1, <1>2, Sizes DEF Lidar
<1>6. /\ ColumnPkts' = ColumnPkts /\ PointsPerPacket' = PointsPerPacket /\ ~Jumbo'
      /\ \A seq : Number(seq)' = Number(seq)
      /\ \A c : Whole(c)' <=> Whole(c)
      /\ \A c, k : Begun(c, k)' <=> Begun(c, k)
  BY <1>5, SameLidar
<1>7. \A k : SeqBefore(k)' = SeqBefore(k) /\ FrameBefore(k)' = FrameBefore(k)
  BY <1>5 DEF SeqBefore, FrameBefore
<1>8. p.seq \in 1 .. FramePkts /\ x \in 0 .. FramePkts
  BY <1>2, NumberTypes DEF Pkt
<1>9. ~SeqSplit(dec.split, x) /\ SeqNext(dec.split, x).prev = x
  BY <1>1, <1>8, Sizes DEF Quiet, SeqStart, SeqSplit, SafeMin, SeqNext
<1>10. ~HandsOver(dec.split, p)
  <2>1. ASSUME sensor.model = "RSM1" PROVE ~SeqNext(dec.split, p.seq).looped
    <3>1. x = p.seq
      BY <2>1 DEF Number, FromZero
    <3>2. dec.split \in Split /\ ~dec.split.looped
      <4>1. dec.split \in Split
        BY <1>1 DEF Types, DecoderState
      <4>2. ~SeqStart.looped /\ dec.split = SeqStart
        BY <1>1 DEF Quiet, SeqStart
      <4> QED BY <4>1, <4>2
    <3>3. ~SeqSplit(dec.split, p.seq)
      BY <1>9, <3>1
    <3> HIDE DEF x
    <3> QED BY <3>2, <3>3, SeqNextLoops
  <2> QED BY <1>8, <2>1 DEF HandsOver, MaxSeq
<1>11. /\ dec' \in DecoderState /\ dec'.wait = dec.wait /\ dec'.ready = dec.ready
       /\ dec'.split.prev = x /\ scan' = Fill(scan, FALSE, p) /\ last' = last
       /\ heard'.frame = p.frame /\ ~heard'.new /\ ~heard'.fresh
  <2> DEFINE cut == SeqSplit(dec.split, x)
  <2>1. cut = FALSE
    BY <1>9 DEF SeqSplit
  <2>2. /\ dec' \in DecoderState /\ dec'.wait = dec.wait /\ dec'.ready = dec.ready
        /\ dec'.split = SeqNext(dec.split, x) /\ scan' = Fill(scan, cut, p)
        /\ last' = IF cut /\ scan.pkts > 0 THEN {[scan EXCEPT !.clean = @ /\ p.clean]} ELSE last
        /\ heard'.frame = p.frame /\ heard'.new = cut
        /\ heard'.fresh = (TRUE /\ FALSE)
    <3> HIDE DEF cut
    <3>1. (heard.frame = Unheard \/ Newer(p.frame)) = TRUE /\ (heard.frame # Unheard) = FALSE
      OBVIOUS
    <3> QED BY <1>4, <1>10, <3>1 DEF Processed, cut
  <2> HIDE DEF cut
  <2> QED BY <1>9, <2>1, <2>2
<1>12. Newest(m)'
  BY <1>2, <1>6, <1>7, <1>11 DEF Newest
<1>13. SingleInv'
  <2>1. HeldInv'
    BY DEF HeldInv
  <2>2. m \in 1 .. sensor'.missed + 1 /\ sensor'.missed < Range
    BY <1>2, <1>5, Sizes
  <2> QED BY <1>12, <2>1, <2>2 DEF SingleInv
<1>14. scan' \in Scan /\ scan'.points = scan'.pkts * PointsPerPacket /\ ~scan'.clean
  <2>1. scan.points = scan.pkts * PointsPerPacket
    BY DEF MemsInv, ScanInv
  <2> QED BY <1>1, <1>2, <1>11, <2>1, FillTypes DEF Fill
<1>15. ScanInv'
  BY <1>6, <1>14 DEF ScanInv
<1>16. heard' \in Hearing
  BY <1>1, <1>2, <1>4, HeardTypes
<1>17. Types'
  BY <1>1, <1>5, <1>11, <1>14, <1>16 DEF Types
<1>18. MaxInv'
  BY <1>1, <1>2, <1>4, <1>5, EndedMax
<1>19. heard'.frame # Unheard /\ (~dec'.wait \/ dec'.ready)
  BY <1>2, <1>11, Sizes DEF Pkt, Unheard, NotTaken
<1>20. OneSplitPerFrame' /\ WholeFrames'
  BY <1>1, <1>11 DEF OneSplitPerFrame, WholeFrames, Quiet
<1> QED BY <1>6, <1>13, <1>15, <1>17, <1>18, <1>19, <1>20 DEF MemsInv

\* Another one was heard before.
LEMMA LateAgain ==
  ASSUME MemsInv, ~Jumbo, NEW h \in held, Process(<<[h.pkt EXCEPT !.ok = TRUE]>>),
         held' = {}, sensor' = sensor, faults' = faults,
         heard.frame # Unheard
  PROVE  MemsInv'
<1> DEFINE p == [h.pkt EXCEPT !.ok = TRUE]
           m == h.age + 1
           x == Number(p.seq)
           cut == SeqSplit(dec.split, x)
           end == HandsOver(dec.split, p)
<1>2. /\ m \in 1 .. Range
      /\ p \in Pkt /\ p.seq = SeqBefore(m) /\ p.frame = FrameBefore(m)
      /\ p.ok = TRUE /\ p.mode = sensor.mode /\ p.clean = FALSE
      /\ ~NotTaken
  BY LatePacket, NotTakenUnheard
<1>3. Process(<<p>>) /\ <<p>>[1] = p /\ DOMAIN <<p>> = {1}
  OBVIOUS
<1>31. m \in 0 .. Range
  BY <1>2
<1> HIDE DEF p, m
<1>4. Types /\ SingleInv /\ HeldInv /\ ScanInv /\ MaxInv
      /\ dec.split \in Split /\ sensor.missed \in 0 .. Range - 1
  BY Sizes DEF MemsInv, SingleInv, Types, DecoderState, Lidar
<1>5. Processed(p)
  BY <1>2, <1>3, <1>4, ProcessIs
<1>7. /\ ColumnPkts' = ColumnPkts /\ PointsPerPacket' = PointsPerPacket /\ ~Jumbo'
      /\ \A seq : Number(seq)' = Number(seq)
      /\ \A c : Whole(c)' <=> Whole(c)
      /\ \A c, n : Begun(c, n)' <=> Begun(c, n)
  BY SameLidar
<1>8. \A n : SeqBefore(n)' = SeqBefore(n) /\ FrameBefore(n)' = FrameBefore(n)
  BY DEF SeqBefore, FrameBefore
<1>9. PICK n \in 1 .. sensor.missed + 1 : Newest(n)
  BY <1>4 DEF SingleInv
<1>10. n \in 1 .. Range /\ heard.frame = FrameBefore(n)
  BY <1>4, <1>9, Sizes DEF Newest
<1>11. Newer(p.frame) <=> m < sensor.seq /\ sensor.seq <= n
  BY <1>2, <1>31, <1>4, <1>10, CutAtFrame, Sizes
<1>12. /\ dec'.split = SeqNext(dec.split, x)
       /\ heard'.frame = IF Newer(p.frame) THEN p.frame ELSE heard.frame
       /\ heard'.fresh <=> Newer(p.frame)
       /\ heard'.new <=> cut
       /\ heard'.late <=> ~Newer(p.frame) /\ p.frame # heard.frame
       /\ heard'.after = heard.late
  BY <1>5 DEF Processed
<1>13. Misled(n) => m < n
  BY <1>9 DEF Misled, m
<1>14. cut => m < n
  <2>1. CASE dec.split.prev = Number(SeqBefore(n))
    <3>1. SeqSplit(dec.split, Number(SeqBefore(m))) <=> m < sensor.seq /\ sensor.seq <= n
      BY <1>2, <1>31, <1>4, <1>10, <2>1, Splits
    <3> QED BY <1>2, <1>31, <1>4, <1>10, <3>1 DEF Types, Lidar
  <2>2. CASE Misled(n)
    BY <1>13, <2>2
  <2> QED BY <1>9, <2>1, <2>2 DEF Newest
<1>15. \E k \in 1 .. sensor.missed + 1 : Newest(k)'
  <2>1. CASE m < n
    <3>1. SeqNext(dec.split, x).prev = x
      BY <1>2, <1>31, <1>4, <1>9, <1>10, <2>1, Splits, MisledSplits DEF Newest
    <3>2. heard'.frame = FrameBefore(m)
      <4>1. ~Newer(p.frame) => FrameBefore(m) = FrameBefore(n)
        BY <1>2, <1>31, <1>4, <1>10, <1>11, <2>1 DEF FrameBefore, Types, Lidar
      <4> QED BY <1>2, <1>10, <1>12, <4>1
    <3>3. Newest(m)'
      BY <1>2, <1>7, <1>8, <1>12, <3>1, <3>2 DEF Newest
    <3>4. m \in 1 .. sensor.missed + 1
      BY <1>2, <1>4, <1>9, <2>1
    <3> QED BY <3>3, <3>4
  <2>2. CASE m >= n
    <3>1. heard'.frame = FrameBefore(n)
      BY <1>2, <1>31, <1>4, <1>10, <1>11, <1>12, <2>2 DEF Types, Lidar
    <3>2. dec.split.prev = Number(SeqBefore(n))
      BY <1>2, <1>9, <1>10, <1>13, <2>2 DEF Newest
    <3>3. \/ SeqNext(dec.split, x).prev = dec.split.prev
          \/ /\ sensor.model \in FromZero /\ SeqBefore(n) = 1 /\ m > n
             /\ SeqNext(dec.split, x).prev > FramePkts - 1 - Range
      BY <1>2, <1>31, <1>4, <1>10, <2>2, <3>2, Splits
    <3>4. m > n /\ SeqBefore(n) = 1 => heard'.late
      <4>1. ASSUME m > n, SeqBefore(n) = 1
            PROVE  n < sensor.seq /\ ~(m < sensor.seq)
        BY <1>31, <1>4, <1>10, <4>1, Sizes DEF SeqBefore, Types, Lidar
      <4>2. ASSUME n < sensor.seq, ~(m < sensor.seq) PROVE FrameBefore(m) # FrameBefore(n)
        BY <1>4, <4>2, Sizes DEF FrameBefore, Types, Lidar
      <4> QED BY <1>2, <1>10, <1>11, <1>12, <1>31, <4>1, <4>2 DEF Types, Lidar
    <3>6. dec'.split.prev = Number(SeqBefore(n))' \/ Misled(n)'
      BY <1>2, <1>7, <1>8, <1>12, <3>2, <3>3, <3>4 DEF Misled
    <3>5. Newest(n)'
      BY <1>8, <3>1, <3>6 DEF Newest
    <3> QED BY <1>9, <3>5
  <2> QED BY <1>2, <1>10, <2>1, <2>2
<1>16. SingleInv'
  BY <1>4, <1>15 DEF SingleInv, HeldInv
<1>17. p.seq \in 1 .. FramePkts /\ x \in 0 .. FramePkts
  BY <1>2, NumberTypes DEF Pkt
<1>18. MaxInv' /\ (end => sensor.model = "RSM1" /\ (heard'.ended => p.seq = FramePkts))
  BY <1>2, <1>4, <1>5, EndedMax
<1>20. cut \in BOOLEAN
  BY DEF SeqSplit
<1>21. /\ Fill(scan, cut, p) \in Scan
       /\ Fill(scan, cut, p).points = Fill(scan, cut, p).pkts * PointsPerPacket
       /\ Fill(scan, cut, p).clean <=> cut /\ p.seq = 1
  <2>1. Fill(scan, cut, p).clean <=> IF cut THEN p.seq = 1 ELSE scan.clean /\ p.clean
    BY DEF Fill
  <2>2. scan \in Scan /\ scan.points = scan.pkts * PointsPerPacket
    BY <1>4 DEF Types, ScanInv
  <2> QED BY <1>2, <1>4, <1>20, <2>1, <2>2, FillTypes
<1>22. scan' = IF end THEN [EmptyScan EXCEPT !.clean = p.clean /\ p.seq = FramePkts]
               ELSE Fill(scan, cut, p)
  BY <1>5 DEF Processed
<1>23. /\ scan' \in Scan /\ scan'.points = scan'.pkts * PointsPerPacket
       /\ scan'.clean => cut
  <2>1. CASE end
    <3>1. scan' = [EmptyScan EXCEPT !.clean = FALSE]
      BY <1>2, <1>22, <2>1
    <3> QED BY <1>4, <3>1, EmptyBegun
  <2>2. CASE ~end
    BY <1>21, <1>22, <2>2
  <2> QED BY <2>1, <2>2
<1>24. ScanInv'
  <2>1. scan'.clean => sensor'.missed # 0
    BY <1>2, <1>4, <1>9, <1>14, <1>23
  <2> QED BY <1>7, <1>23, <2>1 DEF ScanInv
<1>25. Types'
  BY <1>2, <1>4, <1>5, <1>23, HeardTypes DEF Types, Processed
<1>26. heard'.frame # Unheard
  BY <1>2, <1>12, Sizes DEF Pkt, Unheard
<1>27. OneSplitPerFrame'
  <2>1. ASSUME ~(sensor.model \in FromZero /\ heard.late)
        PROVE  cut <=> Newer(p.frame)
    <3>1. dec.split.prev = Number(SeqBefore(n))
      BY <1>9, <2>1 DEF Newest, Misled
    <3> QED BY <1>2, <1>31, <1>4, <1>10, <1>11, <3>1, Splits
  <2> QED BY <1>12, <2>1 DEF OneSplitPerFrame
<1>28. WholeFrames'
  <2>1. last' = IF end THEN {Fill(scan, cut, p)}
                ELSE IF cut /\ scan.pkts > 0 THEN {[scan EXCEPT !.clean = @ /\ p.clean]}
                ELSE last
    BY <1>5 DEF Processed
  <2>2. end => ~Kept(Fill(scan, cut, p), heard'.ended)
    BY <1>18, <1>21, Sizes DEF Kept
  <2>3. ~[scan EXCEPT !.clean = @ /\ p.clean].clean
    BY <1>2, <1>4 DEF Types, Scan
  <2>4. \A c \in last : Kept(c, heard.ended) => Whole(c)
    BY DEF MemsInv, WholeFrames, Whole, Kept
  <2>5. ~end => \A c \in last : Kept(c, heard'.ended) => Whole(c)
    BY <1>2, <1>4, <1>5, <2>4, StillKept
  <2>6. \A c \in last' : Kept(c, heard'.ended) => Whole(c)
    BY <2>1, <2>2, <2>3, <2>5 DEF Kept
  <2> QED BY <1>7, <2>6 DEF WholeFrames, Whole, Kept
<1>29. ~dec'.wait \/ dec'.ready
  BY <1>2, <1>5 DEF Processed, NotTaken
<1> QED BY <1>7, <1>16, <1>18, <1>24, <1>25, <1>26, <1>27, <1>28, <1>29 DEF MemsInv

LEMMA LateStep ==
  ASSUME MemsInv, ~Jumbo, Late
  PROVE  MemsInv'
<1>1. PICK h \in held :
        /\ Process(<<[h.pkt EXCEPT !.ok = TRUE]>>)
        /\ sensor' = [sensor EXCEPT !.missed = IF heard.frame = Unheard THEN h.age ELSE @]
        /\ held' = held \ {h} /\ faults' = faults
  BY DEF Late
<1>2. Types /\ HeldInv /\ sensor \in Lidar /\ held' = {}
  BY <1>1 DEF MemsInv, SingleInv, HeldInv, Types
<1>3. CASE heard.frame # Unheard
  <2>1. sensor' = sensor
    BY <1>1, <1>2, <1>3 DEF Lidar
  <2> QED BY <1>1, <1>2, <1>3, <2>1, LateAgain
<1>4. CASE heard.frame = Unheard
  <2>1. sensor' = [sensor EXCEPT !.missed = h.age]
    BY <1>1, <1>4
  <2>2. CASE ~NotTaken
    BY <1>1, <1>2, <1>4, <2>1, <2>2, LateFirst
  <2>3. CASE NotTaken
    <3> DEFINE ps == <<[h.pkt EXCEPT !.ok = TRUE]>>
    <3>1. ps[1] \in Pkt /\ h.age \in 0 .. Range - 1
      BY LatePacket
    <3>2. dec' = IsNewFrame(dec, ps) /\ UNCHANGED <<scan, last, heard>>
      BY <1>1, <2>3 DEF Process, NotTaken
    <3> HIDE DEF ps
    <3>3. dec' \in DecoderState /\ dec'.split = dec.split
      BY <1>2, <3>1, <3>2, AskedIs DEF Pkt
    <3>4. sensor' \in Lidar /\ sensor'.model = sensor.model /\ sensor'.mode = sensor.mode
          /\ sensor'.missed < Range /\ faults' \in Nat
      BY <1>1, <1>2, <2>1, <3>1, Sizes DEF Lidar, Types
    <3>5. HeldInv'
      BY <1>2 DEF HeldInv
    <3> QED BY <1>4, <3>2, <3>3, <3>4, <3>5, UnheardStep
  <2> QED BY <2>2, <2>3
<1> QED BY <1>3, <1>4

(***************************************************************************)
(* Packets on their way while the LiDAR moves on, and one that is held.    *)
(***************************************************************************)
LEMMA OlderHeld ==
  ASSUME Types, HeldInv, NEW n \in 0 .. Range, MayPass(n), held' = Older(n),
         sensor'.seq = Advanced(n).seq, sensor'.frame = Advanced(n).frame,
         sensor'.mode = sensor.mode
  PROVE  HeldInv' /\ \A g \in held' : \E h \in held : g.age = h.age + n
<1>1. ASSUME NEW g \in held'
      PROVE  \E h \in held :
               /\ g = [h EXCEPT !.age = @ + n]
               /\ g.age = h.age + n /\ g \in [pkt : Pkt, age : 0 .. Range - 1]
               /\ g.pkt = h.pkt
               /\ SeqBefore(g.age + 1)' = SeqBefore(h.age + 1)
               /\ FrameBefore(g.age + 1)' = FrameBefore(h.age + 1)
  <2>1. PICK h \in held : g = [h EXCEPT !.age = @ + n]
    BY <1>1 DEF Older
  <2>2. h \in [pkt : Pkt, age : 0 .. Range - 1] /\ h.age + n < Range
    BY DEF HeldInv, MayPass
  <2>3. g.age = h.age + n /\ g.pkt = h.pkt
    BY <2>1, <2>2
  <2>4. h.age + n \in 0 .. Range - 1
    BY <2>2, Sizes
  <2>5. g \in [pkt : Pkt, age : 0 .. Range - 1]
    BY <2>1, <2>2, <2>4
  <2>6. h.age + 1 \in 0 .. FramePkts /\ n \in 0 .. FramePkts /\ (h.age + 1) + n <= FramePkts
        /\ g.age + 1 = (h.age + 1) + n
    BY <2>2, <2>3, Sizes
  <2>7. SeqBefore((h.age + 1) + n)' = SeqBefore(h.age + 1)
        /\ FrameBefore((h.age + 1) + n)' = FrameBefore(h.age + 1)
    <3>1. ASSUME NEW k \in 0 .. FramePkts, k + n <= FramePkts
          PROVE  SeqBefore(k + n)' = SeqBefore(k) /\ FrameBefore(k + n)' = FrameBefore(k)
      BY <2>6, <3>1, Shift
    <3> QED BY <2>6, <3>1
  <2> QED BY <2>1, <2>3, <2>5, <2>6, <2>7
<1>2. \A g, h \in held' : g = h
  BY <1>1 DEF HeldInv
<1>3. \A g \in held' :
        /\ g \in [pkt : Pkt, age : 0 .. Range - 1]
        /\ g.pkt = [seq |-> SeqBefore(g.age + 1)', frame |-> FrameBefore(g.age + 1)',
                    mode |-> sensor'.mode, ok |-> FALSE, clean |-> FALSE]
  BY <1>1 DEF HeldInv
<1> QED BY <1>1, <1>2, <1>3 DEF HeldInv

LEMMA NewHeld ==
  ASSUME Types, ~Jumbo, held' = {[pkt |-> Packets(FALSE)[1], age |-> 0]},
         sensor'.seq = Advanced(1).seq, sensor'.frame = Advanced(1).frame,
         sensor'.mode = sensor.mode
  PROVE  HeldInv' /\ \A g \in held' : g.age = 0
<1> DEFINE p == Packets(FALSE)[1]
<1>1. p = [seq |-> sensor.seq, frame |-> sensor.frame, mode |-> sensor.mode,
           ok |-> FALSE, clean |-> FALSE]
      /\ p \in Pkt
  BY NextPacket
<1> HIDE DEF p
<1>2. SeqBefore(0 + 1)' = sensor.seq /\ FrameBefore(0 + 1)' = sensor.frame
  <2>1. SeqBefore(0 + 1)' = SeqBefore(0) /\ FrameBefore(0 + 1)' = FrameBefore(0)
    BY Shift, Sizes
  <2> QED BY <2>1 DEF SeqBefore, FrameBefore, Types, Lidar
<1>3. held' = {[pkt |-> p, age |-> 0]} /\ [pkt |-> p, age |-> 0].age = 0
      /\ [pkt |-> p, age |-> 0].pkt = p
  BY DEF p
<1>4. [pkt |-> p, age |-> 0] \in [pkt : Pkt, age : 0 .. Range - 1]
  BY <1>1, Sizes
<1>5. p = [seq |-> SeqBefore(0 + 1)', frame |-> FrameBefore(0 + 1)',
           mode |-> sensor'.mode, ok |-> FALSE, clean |-> FALSE]
  BY <1>1, <1>2
<1> QED BY <1>3, <1>4, <1>5 DEF HeldInv

(***************************************************************************)
(* n packets are not heard: the newest one heard is n further back.        *)
(***************************************************************************)
LEMMA MissedStep ==
  ASSUME MemsInv, ~Jumbo, NEW n \in 0 .. Range - 1, sensor.missed + n < Range,
         sensor' = [Advanced(n) EXCEPT !.missed = @ + n],
         faults' = faults + 1, HeldInv',
         \A g \in held' : g.age < n \/ \E h \in held : g.age = h.age + n,
         dec' \in DecoderState, dec'.split = dec.split,
         dec'.wait = dec.wait, dec'.ready = dec.ready,
         scan' = scan, last' = last,
         heard' = heard \/ heard' = [heard EXCEPT !.fresh = FALSE, !.new = FALSE]
  PROVE  MemsInv'
<1>1. /\ Types /\ SingleInv /\ MaxInv /\ ScanInv /\ OneSplitPerFrame /\ WholeFrames
      /\ sensor.missed \in Nat /\ sensor.seq \in 1 .. FramePkts
      /\ faults \in Nat /\ heard \in Hearing
  BY DEF MemsInv, Types, Lidar
<1>2. n \in 0 .. FramePkts /\ n \in Nat
  BY Sizes
<1>3. /\ sensor' \in Lidar /\ sensor'.missed = sensor.missed + n
      /\ sensor'.model = sensor.model /\ sensor'.mode = sensor.mode
      /\ sensor'.seq = Advanced(n).seq /\ sensor'.frame = Advanced(n).frame
  <2>1. /\ Advanced(n) \in Lidar /\ Advanced(n).missed = sensor.missed
        /\ Advanced(n).model = sensor.model /\ Advanced(n).mode = sensor.mode
    BY <1>1, <1>2, AdvancedIs
  <2>2. sensor.missed + n \in Nat
    BY <1>1, <1>2
  <2> QED BY <2>1, <2>2 DEF Lidar
<1>4. /\ ColumnPkts' = ColumnPkts /\ PointsPerPacket' = PointsPerPacket /\ ~Jumbo'
      /\ \A seq : Number(seq)' = Number(seq)
      /\ \A c : Whole(c)' <=> Whole(c)
      /\ \A c, k : Begun(c, k)' <=> Begun(c, k)
  BY <1>3, SameLidar
<1>6. /\ heard' \in Hearing
      /\ heard'.frame = heard.frame /\ heard'.late = heard.late
      /\ heard'.after = heard.after /\ heard'.ended = heard.ended
      /\ (heard.new <=> heard.fresh) => (heard'.new <=> heard'.fresh)
  BY <1>1 DEF Hearing
<1>7. faults' \in Nat
  BY <1>1
<1>5. CASE heard.frame = Unheard
  BY <1>1, <1>3, <1>4, <1>5, <1>7, UnheardStep
<1>18. SUFFICES ASSUME heard.frame # Unheard PROVE MemsInv'
  BY <1>5
<1>8. Types'
  BY <1>1, <1>3, <1>6, <1>7 DEF Types
<1>16. /\ \A g \in held' : g \in [pkt : Pkt, age : 0 .. Range - 1]
       /\ \A h \in held : h \in [pkt : Pkt, age : 0 .. Range - 1]
  BY <1>1 DEF SingleInv, HeldInv
<1>17. /\ \A g \in held' : g.age \in Nat
       /\ \A h \in held : h.age \in Nat
  BY <1>16, Sizes
<1>9. \E k \in 1 .. sensor'.missed + 1 : Newest(k)'
  <2>1. PICK k \in 1 .. sensor.missed + 1 : Newest(k)
    BY <1>1, <1>18 DEF SingleInv
  <2>2. k \in 0 .. FramePkts /\ k + n <= FramePkts /\ k + n \in 1 .. sensor'.missed + 1
    BY <1>1, <1>2, <1>3, <2>1, Sizes
  <2>3. SeqBefore(k + n)' = SeqBefore(k) /\ FrameBefore(k + n)' = FrameBefore(k)
    BY <1>1, <1>2, <1>3, <2>2, Shift
  <2>4. ASSUME Misled(k)
        PROVE  Misled(k + n)'
    <3>1. ASSUME NEW g \in held' PROVE g.age + 1 < k + n
      <4>1. g.age \in Nat
        BY <1>17
      <4>2. CASE g.age < n
        BY <1>2, <2>1, <4>1, <4>2
      <4>3. CASE \E h \in held : g.age = h.age + n
        <5>1. PICK h \in held : g.age = h.age + n
          BY <4>3
        <5>2. h.age \in Nat /\ h.age + 1 < k
          BY <1>17, <2>4 DEF Misled
        <5> QED BY <1>2, <2>1, <5>1, <5>2
      <4> QED BY <4>2, <4>3
    <3> QED BY <1>3, <1>6, <2>3, <2>4, <3>1 DEF Misled
  <2>5. Newest(k + n)'
    BY <1>4, <1>6, <2>1, <2>3, <2>4 DEF Newest
  <2> QED BY <2>2, <2>5
<1>10. SingleInv'
  BY <1>3, <1>9 DEF SingleInv
<1>11. MaxInv'
  BY <1>1, <1>3, <1>6 DEF MaxInv
<1>12. ScanInv'
  <2>1. CASE n = 0
    <3>1. sensor'.seq = sensor.seq /\ sensor'.missed = sensor.missed
      <4>1. Advanced(n).seq = IF sensor.seq + n > FramePkts THEN sensor.seq + n - FramePkts
                              ELSE sensor.seq + n
        BY <1>1, <1>2, AdvancedIs
      <4> QED BY <1>1, <1>3, <2>1, <4>1, Sizes
    <3>2. SeqBefore(1)' = SeqBefore(1)
      BY <3>1 DEF SeqBefore
    <3> QED BY <1>1, <1>3, <1>4, <1>6, <3>1, <3>2 DEF ScanInv
  <2>2. CASE n > 0
    <3>1. sensor'.missed # 0
      BY <1>1, <1>2, <1>3, <2>2
    <3> QED BY <1>1, <1>4, <3>1 DEF ScanInv
  <2> QED BY <1>2, <2>1, <2>2
<1>13. OneSplitPerFrame'
  BY <1>1, <1>3, <1>6 DEF OneSplitPerFrame
<1>14. WholeFrames'
  BY <1>1, <1>3, <1>4, <1>6 DEF WholeFrames, Whole
<1>15. heard'.frame # Unheard /\ (~dec'.wait \/ dec'.ready)
  BY <1>6, <1>18 DEF MemsInv
<1> QED BY <1>4, <1>7, <1>8, <1>10, <1>11, <1>12, <1>13, <1>14, <1>15 DEF MemsInv

(***************************************************************************)
(* The steps of the LiDARs with one packet at a time.                      *)
(***************************************************************************)
LEMMA Forward ==
  ASSUME Types, NEW k \in 0 .. FramePkts, NEW missed
  PROVE  LET s == [Advanced(k) EXCEPT !.missed = missed]
         IN  s.seq = Advanced(k).seq /\ s.frame = Advanced(k).frame
             /\ s.model = sensor.model /\ s.mode = sensor.mode
<1>1. Advanced(k) \in Lidar /\ Advanced(k).model = sensor.model /\ Advanced(k).mode = sensor.mode
  BY AdvancedIs
<1> QED BY <1>1 DEF Lidar

LEMMA ArriveStep ==
  ASSUME MemsInv, ~Jumbo, Arrive
  PROVE  MemsInv'
<1>1. Types /\ SingleInv /\ HeldInv /\ faults \in Nat /\ Group(sensor.model) = 1
  BY DEF MemsInv, Types, SingleInv, Group, Jumbo
<1>2. /\ MayPass(1) /\ Process(Packets(TRUE))
      /\ sensor' = [Advanced(1) EXCEPT !.missed = 0]
      /\ held' = Older(1) /\ faults' = faults
  BY <1>1 DEF Arrive
<1>3. sensor'.seq = Advanced(1).seq /\ sensor'.frame = Advanced(1).frame
      /\ sensor'.mode = sensor.mode
  BY <1>1, <1>2, Forward, Sizes
<1>4. 1 \in 0 .. Range
  BY Sizes
<1>5. HeldInv' /\ \A g \in held' : \E h \in held : g.age = h.age + 1
  BY <1>1, <1>2, <1>3, <1>4, OlderHeld
<1> QED BY <1>1, <1>2, <1>5, NextStep

LEMMA RepeatStep ==
  ASSUME MemsInv, ~Jumbo, Repeat
  PROVE  MemsInv'
<1>1. Types /\ faults \in Nat
  BY DEF MemsInv, Types
<1>2. /\ Process(Packets(TRUE))
      /\ sensor' = [Advanced(1) EXCEPT !.missed = 0]
      /\ held' = {[pkt |-> Packets(FALSE)[1], age |-> 0]} /\ faults' = faults + 1
  BY DEF Repeat
<1>3. sensor'.seq = Advanced(1).seq /\ sensor'.frame = Advanced(1).frame
      /\ sensor'.mode = sensor.mode
  BY <1>1, <1>2, Forward, Sizes
<1>4. HeldInv'
  BY <1>1, <1>2, <1>3, NewHeld
<1>5. faults' \in Nat
  BY <1>1, <1>2
<1> QED BY <1>1, <1>2, <1>4, <1>5, NextStep

LEMMA HoldStep ==
  ASSUME MemsInv, ~Jumbo, Hold
  PROVE  MemsInv'
<1>1. Types /\ dec \in DecoderState /\ sensor.missed \in Nat
  BY DEF MemsInv, Types, Lidar
<1>2. /\ sensor.missed + 1 < Range
      /\ held' = {[pkt |-> Packets(FALSE)[1], age |-> 0]}
      /\ sensor' = [Advanced(1) EXCEPT !.missed = @ + 1]
      /\ faults' = faults + 1 /\ UNCHANGED <<dec, scan, last, heard>>
  BY DEF Hold, MayMiss
<1>3. sensor'.seq = Advanced(1).seq /\ sensor'.frame = Advanced(1).frame
      /\ sensor'.mode = sensor.mode /\ Advanced(1).missed = sensor.missed
  BY <1>1, <1>2, Forward, AdvancedIs, Sizes
<1>4. HeldInv' /\ \A g \in held' : g.age = 0
  BY <1>1, <1>2, <1>3, NewHeld
<1>5. 1 \in 0 .. Range - 1 /\ \A g \in held' : g.age < 1
  BY <1>1, <1>2, <1>4, Sizes
<1> QED BY <1>1, <1>2, <1>4, <1>5, MissedStep

LEMMA LoseStep ==
  ASSUME MemsInv, ~Jumbo, Lose
  PROVE  MemsInv'
<1>1. /\ Types /\ dec \in DecoderState /\ sensor.missed \in Nat /\ HeldInv
      /\ Group(sensor.model) = 1
  BY DEF MemsInv, Types, Lidar, SingleInv, Group, Jumbo
<1>2. PICK n \in {1, Range - 1} :
        /\ MayMiss(n) /\ MayPass(n)
        /\ sensor' = [Advanced(n * Group(sensor.model)) EXCEPT !.missed = @ + n]
        /\ held' = Older(n) /\ faults' = faults + 1
        /\ UNCHANGED <<dec, scan, last, heard>>
  BY DEF Lose
<1>3. sensor.missed + n < Range
  BY <1>1, <1>2 DEF MayMiss
<1>4. n \in 0 .. Range - 1 /\ n \in 0 .. Range /\ n \in 0 .. FramePkts /\ n * 1 = n
  BY <1>1, <1>3, Sizes
<1>5. sensor' = [Advanced(n) EXCEPT !.missed = @ + n]
  BY <1>1, <1>2, <1>4
<1>6. sensor'.seq = Advanced(n).seq /\ sensor'.frame = Advanced(n).frame
      /\ sensor'.mode = sensor.mode
  BY <1>1, <1>4, <1>5, Forward
<1>7. HeldInv' /\ \A g \in held' : \E h \in held : g.age = h.age + n
  BY <1>1, <1>2, <1>4, <1>6, OlderHeld
<1> QED BY <1>1, <1>2, <1>3, <1>4, <1>5, <1>7, MissedStep

LEMMA RefuseStep ==
  ASSUME MemsInv, ~Jumbo, Refuse
  PROVE  MemsInv'
<1>1. /\ Types /\ dec \in DecoderState /\ sensor.missed \in Nat /\ HeldInv
      /\ Group(sensor.model) = 1
  BY DEF MemsInv, Types, Lidar, SingleInv, Group, Jumbo
<1>2. /\ sensor.model \in {"RSEM4", "RSEMX"}
      /\ MayMiss(1) /\ MayPass(1) /\ Process(Packets(FALSE))
      /\ sensor' = [Advanced(1) EXCEPT !.missed = @ + 1]
      /\ held' = Older(1) /\ faults' = faults + 1
  BY <1>1 DEF Refuse, Jumbo
<1>3. sensor.missed + 1 < Range
  BY <1>1, <1>2 DEF MayMiss
<1>4. 1 \in 0 .. Range - 1 /\ 1 \in 0 .. Range /\ 1 \in 0 .. FramePkts
  BY <1>1, <1>3, Sizes
<1>5. sensor'.seq = Advanced(1).seq /\ sensor'.frame = Advanced(1).frame
      /\ sensor'.mode = sensor.mode
  BY <1>1, <1>2, <1>4, Forward
<1>6. HeldInv' /\ \A g \in held' : \E h \in held : g.age = h.age + 1
  BY <1>1, <1>2, <1>4, <1>5, OlderHeld
<1> DEFINE ps == Packets(FALSE)
           a == IsNewFrame(dec, ps)
<1>7. ps[1] \in Pkt /\ ps[1].ok = FALSE
  BY <1>1, NextPacket
<1>8. a \in DecoderState /\ a.split = dec.split /\ a.wait = dec.wait /\ a.ready = dec.ready
  BY <1>1, <1>7, AskedIs DEF Pkt
<1> HIDE DEF ps, a
<1> DEFINE r == DecodeMsop(sensor.model, a, scan, ps)
<1>9. r.dec = a /\ r.scan = scan /\ r.out = {} /\ r.new = FALSE
  <2>1. r = NotDecoded(a, scan)
    BY <1>2, <1>7 DEF DecodeMsop, RSEM4Msop, RSEMXMsop
  <2> HIDE DEF r
  <2> QED BY <2>1 DEF NotDecoded
<1>10. CASE NotTaken
  <2>1. dec' = a /\ UNCHANGED <<scan, last, heard>>
    BY <1>2, <1>10 DEF Process, NotTaken, a, ps
  <2> QED BY <1>1, <1>2, <1>3, <1>4, <1>6, <1>8, <2>1, MissedStep
<1>12. SUFFICES ASSUME ~NotTaken PROVE MemsInv'
  BY <1>10
<1>11. /\ dec' = a /\ scan' = scan /\ last' = last
       /\ heard' = [heard EXCEPT !.fresh = FALSE, !.new = FALSE]
  <2>1. /\ dec' = r.dec /\ scan' = r.scan
        /\ last' = IF r.out = {} THEN last ELSE r.out
        /\ heard' = [heard EXCEPT !.fresh = FALSE, !.new = r.new]
    <3> HIDE DEF r
    <3>1. ~ps[1].ok
      BY <1>7
    <3> QED BY <1>2, <1>12, <3>1 DEF Process, NotTaken, ps, a, r
  <2> HIDE DEF r
  <2> QED BY <1>9, <2>1
<1> QED BY <1>1, <1>2, <1>3, <1>4, <1>6, <1>8, <1>11, MissedStep

(***************************************************************************)
(* A DIFOP packet leaves the splitter and the clouds alone.                *)
(***************************************************************************)
LEMMA DifopIs ==
  ASSUME Types, NEW known \in BOOLEAN
  PROVE  LET d == DecodeDifop(sensor.model, dec, [mode |-> sensor.mode, known |-> known])
         IN  /\ d \in DecoderState /\ d.split = dec.split /\ d.wait = dec.wait
             /\ dec.ready => d.ready
<1> DEFINE q == [mode |-> sensor.mode, known |-> known]
           d == DecodeDifop(sensor.model, dec, q)
<1>1. sensor.model \in {"RSM1", "RSM1_JUMBO", "RSM2", "RSM3", "RSE1", "RSMX", "RSEM4", "RSEMX"}
      /\ dec \in DecoderState
  BY LidarsAssumption DEF Types, Lidar
<1> HIDE DEF q
<1>2. \E dual \in BOOLEAN : d \in {dec, [dec EXCEPT !.dual = dual], [dec EXCEPT !.ready = TRUE]}
  <2>1. CASE sensor.model = "RSM1"
    <3>1. d = [dec EXCEPT !.dual = q.mode = 0]
      BY <2>1 DEF DecodeDifop, RSM1Difop
    <3> QED BY <3>1
  <2>2. CASE sensor.model = "RSM1_JUMBO"
    <3>1. d = [dec EXCEPT !.dual = q.mode = 0]
      BY <2>2 DEF DecodeDifop, RSM1_JumboDifop
    <3> QED BY <3>1
  <2>3. CASE sensor.model = "RSM2"
    <3>1. d = [dec EXCEPT !.dual = q.mode = 0]
      BY <2>3 DEF DecodeDifop, RSM2Difop
    <3> QED BY <3>1
  <2>4. CASE sensor.model \in {"RSM3", "RSE1", "RSMX"}
    <3>1. d = dec
      BY <2>4 DEF DecodeDifop, RSM3Difop, RSE1Difop, RSMXDifop
    <3> QED BY <3>1
  <2>5. CASE sensor.model \in {"RSEM4", "RSEMX"}
    <3>1. d \in {dec, [dec EXCEPT !.ready = TRUE]}
      BY <2>5 DEF DecodeDifop, RSEM4Difop, RSEMXDifop
    <3> QED BY <3>1
  <2> QED BY <1>1, <2>1, <2>2, <2>3, <2>4, <2>5
<1> HIDE DEF d
<1>3. ASSUME NEW dual \in BOOLEAN
      PROVE  /\ [dec EXCEPT !.dual = dual] \in DecoderState /\ [dec EXCEPT !.ready = TRUE] \in DecoderState
             /\ [dec EXCEPT !.dual = dual].split = dec.split
             /\ [dec EXCEPT !.ready = TRUE].split = dec.split
             /\ [dec EXCEPT !.dual = dual].wait = dec.wait
             /\ [dec EXCEPT !.ready = TRUE].wait = dec.wait
             /\ [dec EXCEPT !.dual = dual].ready = dec.ready
             /\ [dec EXCEPT !.ready = TRUE].ready
  BY <1>1 DEF DecoderState
<1>4. d \in DecoderState /\ d.split = dec.split /\ d.wait = dec.wait /\ (dec.ready => d.ready)
  BY <1>1, <1>2, <1>3
<1> QED BY <1>4 DEF d, q

LEMMA DifopStep ==
  ASSUME MemsInv, Difop
  PROVE  MemsInv'
<1>1. Types
  BY DEF MemsInv
<1>2. PICK known \in BOOLEAN :
        /\ dec' = DecodeDifop(sensor.model, dec, [mode |-> sensor.mode, known |-> known])
        /\ UNCHANGED <<sensor, held, scan, last, heard, faults>>
  BY DEF Difop
<1>3. dec' \in DecoderState /\ dec'.split = dec.split /\ dec'.wait = dec.wait
      /\ (dec.ready => dec'.ready)
  BY <1>1, <1>2, DifopIs
<1>4. Types' /\ (heard'.frame # Unheard => ~dec'.wait \/ dec'.ready)
  BY <1>2, <1>3 DEF MemsInv, Types
<1>5. /\ ColumnPkts' = ColumnPkts /\ PointsPerPacket' = PointsPerPacket
      /\ Jumbo' <=> Jumbo
      /\ \A seq : Number(seq)' = Number(seq)
      /\ \A c : Whole(c)' <=> Whole(c)
      /\ \A c, n : Begun(c, n)' <=> Begun(c, n)
  BY <1>2, SameLidar
<1>6. \A n : SeqBefore(n)' = SeqBefore(n) /\ FrameBefore(n)' = FrameBefore(n)
  BY <1>2 DEF SeqBefore, FrameBefore
<1>7. Quiet => Quiet'
  BY <1>2, <1>3 DEF Quiet
<1>8. MaxInv'
  BY <1>2, <1>3 DEF MemsInv, MaxInv
<1>9. SingleInv => SingleInv'
  <2>1. HeldInv => HeldInv'
    BY <1>2, <1>6 DEF HeldInv
  <2>2. \A n : Newest(n) => Newest(n)'
    BY <1>2, <1>3, <1>5, <1>6 DEF Newest, Misled
  <2> QED BY <1>2, <2>1, <2>2 DEF SingleInv
<1>10. JumboInv => JumboInv'
  BY <1>2, <1>3, <1>6 DEF JumboInv
<1>11. ScanInv'
  BY <1>2, <1>3, <1>5, <1>6 DEF MemsInv, ScanInv
<1>12. OneSplitPerFrame'
  BY <1>2 DEF MemsInv, OneSplitPerFrame
<1>13. WholeFrames'
  BY <1>2, <1>5 DEF MemsInv, WholeFrames, Whole
<1> QED BY <1>2, <1>4, <1>5, <1>7, <1>8, <1>9, <1>10, <1>11, <1>12, <1>13 DEF MemsInv

-----------------------------------------------------------------------------
(***************************************************************************)
(* A packet of RSM1_Jumbo is decoded one by one: the states in between.    *)
(***************************************************************************)
IsDone(f, n, d, c, ps) ==
  f = [i \in 0 .. n |-> IF i = 0 THEN NotDecoded(d, c) ELSE RSM1_JumboStep(f[i - 1], ps[i])]

LEMMA DoneExists ==
  ASSUME NEW d, NEW c, NEW ps, NEW n \in Nat
  PROVE  \E f : IsDone(f, n, d, c, ps)
<1> DEFINE S == {m \in Nat : ~ \E f : IsDone(f, m, d, c, ps)}
<1>1. SUFFICES ASSUME S # {} PROVE FALSE
  OBVIOUS
<1>2. PICK m \in S : \A k \in S : ~(<<k, m>> \in OpToRel(<, Nat))
  BY <1>1, NatLessThanWellFounded, WFMin
<1>3. m \in Nat /\ ~ \E f : IsDone(f, m, d, c, ps)
  OBVIOUS
<1>4. CASE m = 0
  <2> DEFINE f == [i \in 0 .. 0 |-> NotDecoded(d, c)]
  <2>1. \A i \in 0 .. 0 : i = 0
    OBVIOUS
  <2>2. f = [i \in 0 .. 0 |-> IF i = 0 THEN NotDecoded(d, c)
                              ELSE RSM1_JumboStep(f[i - 1], ps[i])]
    BY <2>1
  <2> QED BY <1>3, <1>4, <2>2 DEF IsDone
<1>5. CASE m # 0
  <2>1. m - 1 \in Nat /\ m - 1 < m
    BY <1>3, <1>5
  <2>2. <<m - 1, m>> \in OpToRel(<, Nat)
    BY <1>3, <2>1 DEF OpToRel
  <2>3. PICK f : IsDone(f, m - 1, d, c, ps)
    BY <1>2, <2>1, <2>2
  <2> DEFINE g == [i \in 0 .. m |-> IF i = m THEN RSM1_JumboStep(f[m - 1], ps[m]) ELSE f[i]]
  <2>4. \A i \in 0 .. m : i # m => i \in 0 .. m - 1
    BY <1>3
  <2>5. \A i \in 0 .. m - 1 : g[i] = f[i]
    BY <1>3
  <2>6. \A i \in 0 .. m - 1 :
          f[i] = IF i = 0 THEN NotDecoded(d, c) ELSE RSM1_JumboStep(f[i - 1], ps[i])
    BY <2>3 DEF IsDone
  <2>7. \A i \in 0 .. m :
          g[i] = IF i = 0 THEN NotDecoded(d, c) ELSE RSM1_JumboStep(g[i - 1], ps[i])
    <3> TAKE i \in 0 .. m
    <3>1. CASE i = m
      <4>1. g[i] = RSM1_JumboStep(f[m - 1], ps[m]) /\ m - 1 \in 0 .. m - 1
        BY <1>3, <2>1, <3>1
      <4> QED BY <1>5, <2>5, <3>1, <4>1
    <3>2. CASE i # m
      <4>1. i \in 0 .. m - 1 /\ (i # 0 => i - 1 \in 0 .. m - 1)
        BY <1>3, <3>2
      <4> QED BY <2>5, <2>6, <4>1
    <3> QED BY <3>1, <3>2
  <2>8. g = [i \in 0 .. m |-> IF i = 0 THEN NotDecoded(d, c)
                              ELSE RSM1_JumboStep(g[i - 1], ps[i])]
    <3> HIDE DEF g
    <3>1. g = [i \in 0 .. m |-> g[i]]
      BY DEF g
    <3> QED BY <2>7, <3>1
  <2> QED BY <1>3, <2>8 DEF IsDone
<1> QED BY <1>4, <1>5

LEMMA JumboDone ==
  ASSUME NEW d, NEW c, NEW ps, Len(ps) \in Nat
  PROVE  \E f : IsDone(f, Len(ps), d, c, ps) /\ RSM1_JumboMsop(d, c, ps) = f[Len(ps)]
<1> DEFINE F == CHOOSE f : IsDone(f, Len(ps), d, c, ps)
<1>1. IsDone(F, Len(ps), d, c, ps)
  BY DoneExists, Zenon
<1>2. RSM1_JumboMsop(d, c, ps) = F[Len(ps)]
  BY Zenon DEF RSM1_JumboMsop, IsDone
<1> HIDE DEF F
<1> QED BY <1>1, <1>2

\* Jumbo packets divide a frame.
LEMMA HeadsAre ==
  ASSUME Types, Jumbo, sensor.seq \in Heads
  PROVE  /\ sensor.seq + JumboPkts - 1 <= FramePkts
         /\ FramePkts >= 2 * JumboPkts
         /\ 1 \in Heads
         /\ sensor.seq + JumboPkts <= FramePkts => sensor.seq + JumboPkts \in Heads
<1> DEFINE k == JumboPkts
           x == sensor.seq - 1
           a == x \div k
           b == FramePkts \div k
<1>1. k \in Nat \ {0} /\ k > 1 /\ FramePkts \in Nat /\ FramePkts > k
      /\ x \in Nat /\ x < FramePkts
  BY Sizes DEF Types, Lidar
<1>2. x % k = 0 /\ FramePkts % k = 0
  BY LidarsAssumption DEF Heads, Types, Lidar, Jumbo
<1>3. \A y \in Nat : y % k = 0 => y = k * (y \div k) /\ y \div k \in Nat
  BY <1>1
<1>4. x = k * a /\ FramePkts = k * b /\ a \in Nat /\ b \in Nat
  BY <1>1, <1>2, <1>3
<1> HIDE DEF a, b, k
<1>5. \A p, q \in Nat : p <= q => k * p <= k * q
  BY <1>1
<1>6. a + 1 <= b /\ 2 <= b
  <2>1. ~(b <= a)
    BY <1>1, <1>4, <1>5
  <2>2. ~(b <= 1)
    <3>1. k * 1 = k
      BY <1>1
    <3> QED BY <1>1, <1>4, <1>5, <3>1
  <2> QED BY <1>4, <2>1, <2>2
<1>7. k * (a + 1) <= k * b /\ k * 2 <= k * b
  BY <1>4, <1>5, <1>6
<1>8. k * (a + 1) = k * a + k /\ k * 2 = 2 * k
  BY <1>1, <1>4
<1>9. ASSUME NEW y \in Nat, y % k = 0 PROVE (y + k) % k = 0
  <2> DEFINE c == y \div k
             q == (y + k) \div k
             r == (y + k) % k
  <2>1. y = k * c /\ c \in Nat
    BY <1>1, <1>3, <1>9
  <2>2. y + k = k * q + r /\ q \in Nat /\ r \in 0 .. k - 1
    BY <1>1
  <2> HIDE DEF c, q, r
  <2>3. k * (c + 1) = k * c + k /\ k * (c + 2) = k * c + 2 * k
    BY <1>1, <2>1
  <2>4. k * q \in Nat /\ k * c \in Nat
    BY <1>1, <2>1, <2>2
  <2>5. ~(q <= c)
    BY <1>1, <1>5, <2>1, <2>2, <2>4
  <2>6. ~(c + 2 <= q)
    BY <1>1, <1>5, <2>1, <2>2, <2>3, <2>4
  <2>7. q = c + 1
    BY <2>1, <2>2, <2>5, <2>6
  <2>8. r = 0
    BY <1>1, <2>1, <2>2, <2>3, <2>4, <2>7
  <2> QED BY <2>8 DEF r
<1>10. 0 % k = 0
  BY <1>1
<1>11. sensor.seq \in Nat /\ sensor.seq = x + 1 /\ (sensor.seq + k) - 1 = x + k /\ 1 - 1 = 0
  BY <1>1 DEF Types, Lidar
<1> HIDE DEF x
<1>12. x + k <= FramePkts /\ 2 * k <= FramePkts /\ (x + k) % k = 0
  BY <1>1, <1>2, <1>4, <1>7, <1>8, <1>9
<1> USE DEF k
<1>13. sensor.seq + JumboPkts - 1 <= FramePkts /\ FramePkts >= 2 * JumboPkts
  BY <1>1, <1>11, <1>12
<1>14. 1 \in Heads
  BY <1>1, <1>10, <1>11 DEF Heads
<1>15. sensor.seq + JumboPkts <= FramePkts => sensor.seq + JumboPkts \in Heads
  BY <1>1, <1>11, <1>12 DEF Heads
<1> QED BY <1>13, <1>14, <1>15

LEMMA JumboPackets ==
  ASSUME Types, Jumbo, sensor.seq \in Heads, NEW ok \in BOOLEAN
  PROVE  /\ Len(Packets(ok)) = JumboPkts
         /\ \A i \in 1 .. JumboPkts : LET p == Packets(ok)[i] IN
              /\ p \in Pkt /\ p.seq = sensor.seq + i - 1 /\ p.frame = sensor.frame
              /\ p.ok = ok
              /\ ok /\ i > 1 => p.clean
              /\ i = 1 /\ p.clean => sensor.missed = 0
<1> DEFINE P(i) == [seq |-> sensor.seq + i - 1, frame |-> sensor.frame, mode |-> sensor.mode,
                    ok |-> ok, clean |-> ok /\ (i > 1 \/ sensor.missed = 0)]
<1>1. Packets(ok) = [i \in 1 .. JumboPkts |-> P(i)]
  BY DEF Packets, Group, Jumbo
<1>2. JumboPkts \in Nat
  BY Sizes
<1>3. Len(Packets(ok)) = JumboPkts
  <2> HIDE DEF P
  <2> QED BY <1>1, <1>2
<1>4. ASSUME NEW i \in 1 .. JumboPkts
      PROVE  /\ P(i) \in Pkt /\ P(i).seq = sensor.seq + i - 1 /\ P(i).frame = sensor.frame
             /\ P(i).ok = ok
             /\ ok /\ i > 1 => P(i).clean
             /\ i = 1 /\ P(i).clean => sensor.missed = 0
  <2>1. sensor.seq + i - 1 \in 1 .. FramePkts
    BY HeadsAre, Sizes DEF Types, Lidar
  <2>2. sensor.frame \in 0 .. Frames - 1 /\ sensor.mode \in {0, 4}
    BY DEF Types, Lidar
  <2>3. (ok /\ (i > 1 \/ sensor.missed = 0)) \in BOOLEAN
    BY Zenon
  <2>4. \A x, y, z, u, v : x \in 1 .. FramePkts /\ y \in 0 .. Frames - 1 /\ z \in {0, 4}
                        /\ u \in BOOLEAN /\ v \in BOOLEAN
          => [seq |-> x, frame |-> y, mode |-> z, ok |-> u, clean |-> v] \in Pkt
    BY DEF Pkt
  <2>5. P(i) \in Pkt
    BY <2>1, <2>2, <2>3, <2>4, Zenon
  <2>6. P(i).clean <=> ok /\ (i > 1 \/ sensor.missed = 0)
    OBVIOUS
  <2>7. P(i).seq = sensor.seq + i - 1 /\ P(i).frame = sensor.frame /\ P(i).ok = ok
    OBVIOUS
  <2> HIDE DEF P
  <2> QED BY <2>5, <2>6, <2>7
<1>5. \A i \in 1 .. JumboPkts : Packets(ok)[i] = P(i)
  BY <1>1
<1> HIDE DEF P
<1> QED BY <1>3, <1>4, <1>5

LEMMA JumboStepIs ==
  ASSUME Types, Jumbo, NEW s, s.dec \in DecoderState, s.scan \in Scan, NEW p \in Pkt, p.ok
  PROVE  LET r == RSM1_JumboStep(s, p)
             cut == SeqSplit(s.dec.split, p.seq)
         IN  /\ r.dec \in DecoderState /\ r.dec.wait = s.dec.wait /\ r.dec.ready = s.dec.ready
             /\ r.dec.split = SeqNext(s.dec.split, p.seq)
             /\ r.scan = Fill(s.scan, cut, p)
             /\ r.out = IF cut /\ s.scan.pkts > 0 THEN {[s.scan EXCEPT !.clean = @ /\ p.clean]}
                        ELSE s.out
             /\ r.new <=> cut \/ s.new
             /\ r.new \in BOOLEAN
<1> DEFINE q == Decoded(RSM1_Jumbo, s.dec, s.scan, p, p.seq, RSM1_Jumbo.points, 0)
           cut == SeqSplit(s.dec.split, p.seq)
           r == RSM1_JumboStep(s, p)
<1>1. Number(p.seq) = p.seq /\ PointsPerPacket = RSM1_Jumbo.points /\ Part(p.seq) = 0
  BY DEF Jumbo, Number, FromZero, PointsPerPacket, PointsOfFrame, RSM1_Jumbo, Part
<1>2. Took(q, s.dec, s.scan, p)
  BY <1>1, DecodedTook
<1>3. DOMAIN q = {"dec", "scan", "out", "new"}
  BY DEF Decoded
<1>4. r = [q EXCEPT !.out = IF @ = {} THEN s.out ELSE @, !.new = @ \/ s.new]
  BY DEF RSM1_JumboStep
<1> HIDE DEF q, r
<1>5. r.dec = q.dec /\ r.scan = q.scan /\ r.out = (IF q.out = {} THEN s.out ELSE q.out)
  BY <1>3, <1>4
<1>6. r.new = (q.new \/ s.new)
  BY <1>3, <1>4
<1>7. /\ q.dec = [s.dec EXCEPT !.split = SeqNext(s.dec.split, p.seq)]
      /\ q.new = cut /\ q.scan = Fill(s.scan, cut, p)
      /\ q.out = IF cut /\ s.scan.pkts > 0 THEN {[s.scan EXCEPT !.clean = @ /\ p.clean]} ELSE {}
  BY <1>1, <1>2 DEF Took
<1>8. SeqNext(s.dec.split, p.seq) \in Split
  BY SeqNextTypes, Sizes DEF DecoderState, Pkt
<1>9. q.dec \in DecoderState /\ q.dec.wait = s.dec.wait /\ q.dec.ready = s.dec.ready
      /\ q.dec.split = SeqNext(s.dec.split, p.seq)
  BY <1>7, <1>8 DEF DecoderState
<1> HIDE DEF cut
<1>10. r.out = IF cut /\ s.scan.pkts > 0 THEN {[s.scan EXCEPT !.clean = @ /\ p.clean]} ELSE s.out
  BY <1>5, <1>7
<1>11. r.new \in BOOLEAN
  <2>1. (q.new \/ s.new) \in BOOLEAN
    BY Zenon
  <2> QED BY <1>6, <2>1
<1> QED BY <1>5, <1>6, <1>7, <1>9, <1>10, <1>11 DEF cut, r

(***************************************************************************)
(* The first packet cuts when the newest frame heard is the one before, the*)
(* others never; all of them are counted, or none, being too far ahead.    *)
(***************************************************************************)
Behind == heard.frame # Unheard /\ heard.frame # sensor.frame
Follows == heard.frame = Unheard \/ Behind \/ dec.split.prev + Range >= sensor.seq

\* The decoder's state s after the first i packets.
JumboAt(s, i) ==
  /\ s.dec \in DecoderState /\ s.dec.wait = dec.wait /\ s.dec.ready = dec.ready
  /\ s.dec.split.prev = IF Follows THEN sensor.seq + i - 1 ELSE dec.split.prev
  /\ s.new \in BOOLEAN /\ (s.new <=> Behind)
  /\ s.scan \in Scan /\ s.scan.points = s.scan.pkts * PointsPerPacket
  /\ s.scan.clean => Follows /\ Begun(s.scan, sensor.seq + i - 1)
  /\ \A c \in s.out : c.clean => Whole(c)

LEMMA JumboBefore ==
  ASSUME MemsInv, Jumbo
  PROVE  /\ sensor.seq \in 1 .. FramePkts /\ sensor.seq + JumboPkts - 1 <= FramePkts
         /\ dec.split.prev \in 0 .. FramePkts
         /\ heard.frame = Unheard => dec.split = SeqStart /\ ~scan.clean
         /\ heard.frame # Unheard => dec.split.prev >= JumboPkts
         /\ heard.frame # Unheard /\ ~Behind => dec.split.prev < sensor.seq
         /\ Behind => /\ heard.frame = FrameBefore(sensor.seq)
                      /\ \/ sensor.seq = 1
                         \/ sensor.seq = 1 + JumboPkts /\ sensor.missed = 1
                            /\ dec.split.prev = FramePkts
         /\ SeqBefore(1) = IF sensor.seq = 1 THEN FramePkts ELSE sensor.seq - 1
<1>1. Types /\ JumboInv /\ sensor.seq \in 1 .. FramePkts /\ sensor.frame \in 0 .. Frames - 1
  BY DEF MemsInv, Types, Lidar
<1>2. sensor.seq + JumboPkts - 1 <= FramePkts
  BY <1>1, HeadsAre DEF JumboInv
<1>3. dec.split.prev \in 0 .. FramePkts
  BY <1>1 DEF Types, DecoderState, Split
<1>4. heard.frame = Unheard => dec.split = SeqStart /\ ~scan.clean
  BY DEF MemsInv, Quiet, EmptyScan
<1>5. FrameBefore(sensor.seq) # sensor.frame
  BY <1>1, Sizes DEF FrameBefore
<1>6. SeqBefore(1) = IF sensor.seq = 1 THEN FramePkts ELSE sensor.seq - 1
  BY <1>1, Sizes DEF SeqBefore
<1>7. /\ heard.frame # Unheard => dec.split.prev >= JumboPkts
      /\ heard.frame # Unheard /\ ~Behind => dec.split.prev < sensor.seq
      /\ Behind => /\ heard.frame = FrameBefore(sensor.seq)
                   /\ \/ sensor.seq = 1
                      \/ sensor.seq = 1 + JumboPkts /\ sensor.missed = 1
                         /\ dec.split.prev = FramePkts
  BY <1>1, <1>5 DEF JumboInv, Behind
<1> QED BY <1>1, <1>2, <1>3, <1>4, <1>6, <1>7

LEMMA JumboFirst ==
  ASSUME MemsInv, Jumbo, NEW s, s.dec \in DecoderState, s.dec.split = dec.split,
         s.dec.wait = dec.wait, s.dec.ready = dec.ready,
         s.scan = scan, s.out = {}, s.new = FALSE,
         NEW p \in Pkt, p.ok, p.seq = sensor.seq, p.clean => sensor.missed = 0
  PROVE  JumboAt(RSM1_JumboStep(s, p), 1)
<1> DEFINE r == RSM1_JumboStep(s, p)
           x == sensor.seq
           y == dec.split.prev
           cut == SeqSplit(dec.split, x)
           next == SeqNext(dec.split, x)
<1>1. /\ Types /\ scan \in Scan /\ scan.points = scan.pkts * PointsPerPacket
      /\ dec.split \in Split /\ x \in 0 .. FramePkts
  BY Sizes DEF MemsInv, ScanInv, Types, DecoderState, Lidar
<1>2. /\ r.dec \in DecoderState /\ r.dec.wait = dec.wait /\ r.dec.ready = dec.ready
      /\ r.dec.split = next
      /\ r.scan = Fill(scan, cut, p)
      /\ r.out = IF cut /\ scan.pkts > 0 THEN {[scan EXCEPT !.clean = @ /\ p.clean]} ELSE {}
      /\ r.new <=> cut
      /\ r.new \in BOOLEAN
  <2>1. s.dec \in DecoderState /\ s.scan \in Scan
    BY <1>1
  <2>2. /\ r.dec \in DecoderState /\ r.dec.wait = s.dec.wait /\ r.dec.ready = s.dec.ready
        /\ r.dec.split = SeqNext(s.dec.split, p.seq)
        /\ r.scan = Fill(s.scan, SeqSplit(s.dec.split, p.seq), p)
        /\ r.out = IF SeqSplit(s.dec.split, p.seq) /\ s.scan.pkts > 0
                   THEN {[s.scan EXCEPT !.clean = @ /\ p.clean]} ELSE s.out
        /\ r.new <=> SeqSplit(s.dec.split, p.seq) \/ s.new
        /\ r.new \in BOOLEAN
    BY <1>1, <2>1, JumboStepIs
  <2> HIDE DEF r
  <2> QED BY <2>2
<1>3. cut <=> x < (IF y > Range THEN y - Range ELSE 0)
  BY DEF SeqSplit, SafeMin
<1>4. next.prev = IF cut \/ x \in y .. y + Range \/ y = 0 THEN x ELSE y
  BY DEF SeqNext, SafeMax
<1> HIDE DEF r, cut, next
<1>5. cut <=> Behind
  <2>1. CASE heard.frame = Unheard
    <3>1. y = 0
      BY <2>1, JumboBefore DEF SeqStart
    <3> QED BY <1>1, <1>3, <2>1, <3>1, Sizes DEF Behind
  <2>2. CASE heard.frame # Unheard /\ ~Behind
    BY <1>1, <1>3, <2>2, JumboBefore, Sizes
  <2>3. CASE Behind
    <3>1. FramePkts >= 2 * JumboPkts
      BY HeadsAre, <1>1 DEF MemsInv, JumboInv
    <3>2. y >= JumboPkts
      BY <2>3, JumboBefore DEF Behind
    <3> QED BY <1>1, <1>3, <2>3, <3>1, <3>2, JumboBefore, Sizes
  <2> QED BY <2>1, <2>2, <2>3
<1>6. next.prev = IF Follows THEN x ELSE y
  <2>1. CASE heard.frame = Unheard
    <3>1. y = 0
      BY <2>1, JumboBefore DEF SeqStart
    <3> QED BY <1>4, <2>1, <3>1 DEF Follows
  <2>2. CASE heard.frame # Unheard /\ ~Behind
    BY <1>1, <1>4, <1>5, <2>2, JumboBefore, Sizes DEF Follows
  <2>3. CASE Behind
    BY <1>4, <1>5, <2>3 DEF Follows
  <2> QED BY <2>1, <2>2, <2>3
<1>8. scan.clean /\ p.clean =>
        /\ sensor.missed = 0 /\ heard.frame # Unheard /\ y = SeqBefore(1)
        /\ Begun(scan, SeqBefore(1))
  <2>1. sensor.model # "RSM1" /\ Number(SeqBefore(1)) = SeqBefore(1)
    BY DEF Jumbo, Number, FromZero
  <2> QED BY <2>1 DEF MemsInv, ScanInv
<1>9. cut \in BOOLEAN
  BY DEF SeqSplit, cut
<1>10. /\ r.scan \in Scan /\ r.scan.points = r.scan.pkts * PointsPerPacket
       /\ r.scan.clean <=> IF cut THEN p.seq = 1 ELSE scan.clean /\ p.clean
  <2>1. Fill(scan, cut, p).clean <=> IF cut THEN p.seq = 1 ELSE scan.clean /\ p.clean
    BY DEF Fill
  <2> QED BY <1>1, <1>2, <1>9, <2>1, FillTypes
<1>11. r.scan.clean => Follows /\ Begun(r.scan, x)
  <2>1. CASE cut /\ r.scan.clean
    BY <1>1, <1>2, <1>5, <1>9, <1>10, <2>1, FillBegun DEF Follows
  <2>2. CASE ~cut /\ r.scan.clean
    <3>1. sensor.missed = 0 /\ heard.frame # Unheard /\ y = SeqBefore(1)
          /\ Begun(scan, SeqBefore(1)) /\ y < x
      BY <1>5, <1>8, <1>10, <2>2, JumboBefore
    <3>2. SeqBefore(1) = p.seq - 1 /\ Follows
      BY <1>1, <3>1, JumboBefore, Sizes DEF Follows
    <3> QED BY <1>1, <1>2, <1>9, <2>2, <3>1, <3>2, FillBegun
  <2> QED BY <2>1, <2>2
<1>12. \A c \in r.out : c.clean => Whole(c)
  <2>1. ASSUME cut, [scan EXCEPT !.clean = @ /\ p.clean].clean
        PROVE  Whole([scan EXCEPT !.clean = @ /\ p.clean])
    <3> DEFINE c == [scan EXCEPT !.clean = @ /\ p.clean]
    <3>1. p.clean \in BOOLEAN
      BY DEF Pkt
    <3>2. c \in Scan /\ c.points = c.pkts * PointsPerPacket /\ c.pkts = scan.pkts
          /\ c.parts = scan.parts
      BY <1>1, <3>1 DEF Scan
    <3>3. scan.clean /\ p.clean
      BY <1>1, <2>1, <3>1 DEF Scan
    <3>4. Begun(scan, FramePkts)
      BY <1>5, <1>8, <2>1, <3>3, JumboBefore
    <3>5. Begun(c, FramePkts)
      BY <3>2, <3>4 DEF Begun
    <3> QED BY <1>1, <3>2, <3>5, BegunWhole
  <2> QED BY <1>2, <2>1
<1>13. x + 1 - 1 = x
  BY <1>1
<1> QED BY <1>2, <1>4, <1>5, <1>6, <1>10, <1>11, <1>12, <1>13 DEF JumboAt, r

LEMMA JumboLater ==
  ASSUME MemsInv, Jumbo, NEW i \in 1 .. JumboPkts - 1, NEW s, JumboAt(s, i),
         NEW p \in Pkt, p.ok, p.seq = sensor.seq + i, p.clean
  PROVE  JumboAt(RSM1_JumboStep(s, p), i + 1)
<1> DEFINE r == RSM1_JumboStep(s, p)
           x == sensor.seq + i
           y == s.dec.split.prev
           cut == SeqSplit(s.dec.split, x)
           next == SeqNext(s.dec.split, x)
<1>1. /\ Types /\ s.scan \in Scan /\ s.scan.points = s.scan.pkts * PointsPerPacket
      /\ s.dec \in DecoderState /\ s.dec.split \in Split /\ x \in 1 .. FramePkts
      /\ s.dec.wait = dec.wait /\ s.dec.ready = dec.ready
  BY JumboBefore, Sizes DEF MemsInv, JumboAt, DecoderState
<1>2. /\ y = IF Follows THEN x - 1 ELSE dec.split.prev
      /\ s.new <=> Behind
      /\ s.scan.clean => Follows /\ Begun(s.scan, x - 1)
      /\ \A c \in s.out : c.clean => Whole(c)
  <2>1. sensor.seq + i - 1 = x - 1
    BY JumboBefore
  <2> HIDE DEF x
  <2> QED BY <2>1 DEF JumboAt
<1>3. /\ r.dec \in DecoderState /\ r.dec.wait = dec.wait /\ r.dec.ready = dec.ready
      /\ r.dec.split = next
      /\ r.scan = Fill(s.scan, cut, p)
      /\ r.out = IF cut /\ s.scan.pkts > 0 THEN {[s.scan EXCEPT !.clean = @ /\ p.clean]} ELSE s.out
      /\ r.new <=> cut \/ s.new
      /\ r.new \in BOOLEAN
  <2>1. /\ r.dec \in DecoderState /\ r.dec.wait = s.dec.wait /\ r.dec.ready = s.dec.ready
        /\ r.dec.split = SeqNext(s.dec.split, p.seq)
        /\ r.scan = Fill(s.scan, SeqSplit(s.dec.split, p.seq), p)
        /\ r.out = IF SeqSplit(s.dec.split, p.seq) /\ s.scan.pkts > 0
                   THEN {[s.scan EXCEPT !.clean = @ /\ p.clean]} ELSE s.out
        /\ r.new <=> SeqSplit(s.dec.split, p.seq) \/ s.new
        /\ r.new \in BOOLEAN
    BY <1>1, JumboStepIs
  <2> HIDE DEF r
  <2> QED BY <1>1, <2>1
<1>4. cut <=> x < (IF y > Range THEN y - Range ELSE 0)
  BY DEF SeqSplit, SafeMin
<1>5. next.prev = IF cut \/ x \in y .. y + Range \/ y = 0 THEN x ELSE y
  BY DEF SeqNext, SafeMax
<1>6. ~Follows => dec.split.prev + Range < sensor.seq /\ dec.split.prev >= JumboPkts
  <2>1. ~Follows => /\ heard.frame # Unheard /\ ~Behind
                    /\ ~(dec.split.prev + Range >= sensor.seq)
    BY DEF Follows
  <2> QED BY <2>1, JumboBefore, Sizes
<1> HIDE DEF r, cut, next
<1>7. ~cut /\ next.prev = IF Follows THEN x ELSE dec.split.prev
  <2>1. CASE Follows
    BY <1>1, <1>2, <1>4, <1>5, <2>1, Sizes
  <2>2. CASE ~Follows
    BY <1>1, <1>2, <1>4, <1>5, <1>6, <2>2, JumboBefore, Sizes
  <2> QED BY <2>1, <2>2
<1>10. cut \in BOOLEAN
  BY DEF SeqSplit, cut
<1>11. p.seq = x
  OBVIOUS
<1> HIDE DEF x
<1>12. /\ r.scan \in Scan /\ r.scan.points = r.scan.pkts * PointsPerPacket
       /\ r.scan.clean => s.scan.clean
  <2>1. Fill(s.scan, cut, p).clean <=> IF cut THEN p.seq = 1 ELSE s.scan.clean /\ p.clean
    BY DEF Fill
  <2> QED BY <1>1, <1>3, <1>7, <1>10, <2>1, FillTypes
<1>13. r.scan.clean => Follows /\ Begun(r.scan, x)
  <2>1. ASSUME r.scan.clean PROVE Begun(r.scan, p.seq)
    <3>1. Begun(s.scan, p.seq - 1) /\ ~cut /\ cut \in BOOLEAN
      BY <1>2, <1>7, <1>12, <1>10, <1>11, <2>1
    <3> QED BY <1>1, <1>3, <3>1, FillBegun
  <2> QED BY <1>2, <1>12, <1>11, <2>1
<1>14. \A c \in r.out : c.clean => Whole(c)
  <2>1. r.out = s.out
    BY <1>3, <1>7
  <2> QED BY <1>2, <2>1
<1>15. r.new <=> Behind
  BY <1>2, <1>3, <1>7
<1>16. sensor.seq + (i + 1) - 1 = x
  <2>1. sensor.seq \in Nat /\ i \in Nat
    BY JumboBefore
  <2> QED BY <2>1 DEF x
<1> QED BY <1>3, <1>7, <1>12, <1>13, <1>14, <1>16, <1>15 DEF JumboAt, r

\* What was heard after a packet of the frame.
JumboHeard(frame, new) ==
  \E ended \in BOOLEAN :
    LET newer == heard.frame = Unheard \/ Newer(frame) IN
    heard' = [frame |-> IF newer THEN frame ELSE heard.frame,
              fresh |-> newer /\ heard.frame # Unheard, new |-> new,
              late |-> ~newer /\ frame # heard.frame, after |-> heard.late, ended |-> ended]

\* The whole packet.
LEMMA JumboProcessed ==
  ASSUME MemsInv, Jumbo, Process(Packets(TRUE)), ~NotTaken
  PROVE  \E s : /\ JumboAt(s, JumboPkts)
                /\ dec' = s.dec /\ scan' = s.scan
                /\ last' = IF s.out = {} THEN last ELSE s.out
                /\ JumboHeard(sensor.frame, s.new)
<1> DEFINE ps == Packets(TRUE)
           d == IsNewFrame(dec, ps)
           J == JumboPkts
<1>1. /\ Types /\ sensor.seq \in Heads /\ sensor.seq \in 1 .. FramePkts
      /\ J \in Nat /\ J > 1
  BY Sizes DEF MemsInv, JumboInv, Types, Lidar
<1>2. /\ Len(ps) = J
      /\ \A i \in 1 .. J :
           /\ ps[i] \in Pkt /\ ps[i].seq = sensor.seq + i - 1 /\ ps[i].frame = sensor.frame
           /\ ps[i].ok = TRUE
           /\ i > 1 => ps[i].clean
           /\ i = 1 /\ ps[i].clean => sensor.missed = 0
  BY <1>1, JumboPackets
<1> HIDE DEF ps
<1>3. ps[1].seq \in 1 .. FramePkts
  BY <1>1, <1>2 DEF Pkt
<1>4. d \in DecoderState /\ d.split = dec.split /\ d.wait = dec.wait /\ d.ready = dec.ready
  BY <1>1, <1>3, AskedIs
<1> HIDE DEF d
<1>5. PICK f : IsDone(f, J, d, scan, ps) /\ RSM1_JumboMsop(d, scan, ps) = f[J]
  BY <1>1, <1>2, JumboDone
<1>6. /\ f[0] = NotDecoded(d, scan)
      /\ \A i \in 1 .. J : f[i] = RSM1_JumboStep(f[i - 1], ps[i])
  BY <1>1, <1>5 DEF IsDone
<1>7. JumboAt(f[1], 1)
  <2>1. f[1] = RSM1_JumboStep(NotDecoded(d, scan), ps[1])
    <3>1. 1 \in 1 .. J /\ 1 - 1 = 0
      BY <1>1
    <3>2. f[1] = RSM1_JumboStep(f[1 - 1], ps[1])
      BY <1>6, <3>1
    <3> QED BY <1>6, <3>1, <3>2
  <2> DEFINE s == NotDecoded(d, scan)
  <2>2. s.dec = d /\ s.scan = scan /\ s.out = {} /\ s.new = FALSE
    BY DEF NotDecoded
  <2>3. /\ ps[1] \in Pkt /\ ps[1].ok /\ ps[1].seq = sensor.seq
        /\ ps[1].clean => sensor.missed = 0
    BY <1>1, <1>2
  <2> HIDE DEF s
  <2>4. JumboAt(RSM1_JumboStep(s, ps[1]), 1)
    BY <1>4, <2>2, <2>3, JumboFirst
  <2> QED BY <2>1, <2>4 DEF s
<1>8. \A i \in 1 .. J - 1 : JumboAt(f[i], i) => JumboAt(f[i + 1], i + 1)
  <2> TAKE i \in 1 .. J - 1
  <2> HAVE JumboAt(f[i], i)
  <2>1. i + 1 \in 1 .. J /\ (i + 1) - 1 = i /\ i + 1 > 1
    BY <1>1
  <2>2. f[i + 1] = RSM1_JumboStep(f[i], ps[i + 1])
    BY <1>6, <2>1
  <2>3. /\ ps[i + 1] \in Pkt /\ ps[i + 1].ok /\ ps[i + 1].clean
        /\ ps[i + 1].seq = sensor.seq + (i + 1) - 1
    BY <1>2, <2>1
  <2>4. sensor.seq + (i + 1) - 1 = sensor.seq + i
    BY <1>1
  <2> QED BY <2>2, <2>3, <2>4, JumboLater
<1>9. \A i \in 1 .. J : JumboAt(f[i], i)
  <2> DEFINE S == {i \in Nat : i \in 1 .. J /\ ~JumboAt(f[i], i)}
  <2>1. SUFFICES ASSUME S # {} PROVE FALSE
    BY <1>1
  <2>2. PICK m \in S : \A k \in S : ~(<<k, m>> \in OpToRel(<, Nat))
    BY <2>1, NatLessThanWellFounded, WFMin
  <2>3. m \in Nat /\ m \in 1 .. J /\ ~JumboAt(f[m], m)
    OBVIOUS
  <2>4. m # 1
    BY <1>7, <2>3
  <2>5. m - 1 \in 1 .. J - 1 /\ m - 1 \in 1 .. J /\ (m - 1) + 1 = m /\ m - 1 < m /\ m - 1 \in Nat
    BY <1>1, <2>3, <2>4
  <2>6. ~JumboAt(f[m - 1], m - 1)
    BY <1>8, <2>3, <2>5
  <2>7. <<m - 1, m>> \in OpToRel(<, Nat)
    BY <2>3, <2>5 DEF OpToRel
  <2> QED BY <2>2, <2>5, <2>6, <2>7
<1> DEFINE s == f[J]
<1>10. JumboAt(s, J)
  BY <1>1, <1>9
<1>11. DecodeMsop(sensor.model, d, scan, ps) = s
  BY <1>5 DEF DecodeMsop, Jumbo
<1>12. ps[1].frame = sensor.frame /\ ps[1].ok = TRUE
  BY <1>1, <1>2
<1> HIDE DEF s
<1>13. /\ dec' = s.dec /\ scan' = s.scan
       /\ last' = IF s.out = {} THEN last ELSE s.out
       /\ JumboHeard(ps[1].frame, s.new)
  <2> DEFINE r == DecodeMsop(sensor.model, d, scan, ps)
  <2>1. /\ dec' = r.dec /\ scan' = r.scan
        /\ last' = IF r.out = {} THEN last ELSE r.out
        /\ JumboHeard(ps[1].frame, r.new)
    <3> DEFINE ended == heard.ended \/ \E i \in DOMAIN ps : ps[i].ok /\ ps[i].seq = FramePkts
               newer == heard.frame = Unheard \/ Newer(ps[1].frame)
    <3> HIDE DEF r
    <3>1. /\ dec' = r.dec /\ scan' = r.scan
          /\ last' = IF r.out = {} THEN last ELSE r.out
          /\ heard' = [frame |-> IF newer THEN ps[1].frame ELSE heard.frame,
                       fresh |-> newer /\ heard.frame # Unheard, new |-> r.new,
                       late |-> ~newer /\ ps[1].frame # heard.frame,
                       after |-> heard.late, ended |-> ended]
      BY <1>12 DEF Process, NotTaken, Newer, ps, d, r
    <3>2. ended \in BOOLEAN
      BY <1>1 DEF Types, Hearing
    <3> HIDE DEF ended
    <3> QED BY <3>1, <3>2 DEF JumboHeard
  <2> QED BY <1>11, <2>1
<1> QED BY <1>10, <1>12, <1>13

(***************************************************************************)
(* The steps of the LiDAR with many packets in one.                        *)
(***************************************************************************)
LEMMA JumboForward ==
  ASSUME Types, Jumbo, sensor.seq \in Heads, NEW missed \in {0, 1},
         sensor' = [Advanced(JumboPkts) EXCEPT !.missed = missed]
  PROVE  LET over == sensor.seq + JumboPkts > FramePkts IN
         /\ sensor' \in Lidar /\ sensor'.missed = missed
         /\ sensor'.model = sensor.model /\ sensor'.mode = sensor.mode
         /\ sensor'.seq = IF over THEN 1 ELSE sensor.seq + JumboPkts
         /\ sensor'.seq \in Heads
         /\ sensor'.frame = IF ~over THEN sensor.frame
                            ELSE IF sensor.frame = Frames - 1 THEN 0 ELSE sensor.frame + 1
         /\ SeqBefore(1)' = sensor.seq + JumboPkts - 1
         /\ FrameBefore(1)' = sensor.frame
<1> DEFINE over == sensor.seq + JumboPkts > FramePkts
<1>1. sensor.seq \in 1 .. FramePkts /\ sensor.frame \in 0 .. Frames - 1
      /\ JumboPkts \in 0 .. FramePkts /\ JumboPkts > 1
  BY Sizes DEF Types, Lidar
<1>2. /\ Advanced(JumboPkts) \in Lidar
      /\ Advanced(JumboPkts).model = sensor.model /\ Advanced(JumboPkts).mode = sensor.mode
      /\ Advanced(JumboPkts).seq = IF over THEN sensor.seq + JumboPkts - FramePkts
                                   ELSE sensor.seq + JumboPkts
      /\ Advanced(JumboPkts).frame = IF ~over THEN sensor.frame
                    ELSE IF sensor.frame = Frames - 1 THEN 0 ELSE sensor.frame + 1
  BY <1>1, AdvancedIs
<1>3. /\ sensor' \in Lidar /\ sensor'.missed = missed
      /\ sensor'.model = sensor.model /\ sensor'.mode = sensor.mode
      /\ sensor'.seq = Advanced(JumboPkts).seq /\ sensor'.frame = Advanced(JumboPkts).frame
  BY <1>2 DEF Lidar
<1>4. /\ sensor.seq + JumboPkts - 1 <= FramePkts
      /\ 1 \in Heads
      /\ sensor.seq + JumboPkts <= FramePkts => sensor.seq + JumboPkts \in Heads
  BY HeadsAre
<1>5. sensor'.seq = IF over THEN 1 ELSE sensor.seq + JumboPkts
  BY <1>1, <1>2, <1>3, <1>4, Sizes
<1>6. sensor'.seq \in Heads
  BY <1>1, <1>4, <1>5, Sizes
<1>7. SeqBefore(1)' = sensor.seq + JumboPkts - 1
  BY <1>1, <1>4, <1>5, Sizes DEF SeqBefore
<1>8. sensor'.frame = IF ~over THEN sensor.frame
                      ELSE IF sensor.frame = Frames - 1 THEN 0 ELSE sensor.frame + 1
  BY <1>2, <1>3
<1>9. FrameBefore(1)' = sensor.frame
  BY <1>1, <1>5, <1>8, Sizes DEF FrameBefore
<1> QED BY <1>3, <1>5, <1>6, <1>7, <1>8, <1>9 DEF over

LEMMA JumboArrive ==
  ASSUME MemsInv, Jumbo, Arrive
  PROVE  MemsInv'
<1>1. /\ Types /\ JumboInv /\ sensor.seq \in Heads /\ held = {}
      /\ sensor.seq \in 1 .. FramePkts /\ sensor.frame \in 0 .. Frames - 1
      /\ faults \in Nat /\ Group(sensor.model) = JumboPkts
      /\ heard.frame \in 0 .. Frames /\ heard.late \in BOOLEAN
  BY DEF MemsInv, JumboInv, Types, Lidar, Group, Jumbo, Hearing
<1>2. /\ Process(Packets(TRUE)) /\ sensor' = [Advanced(JumboPkts) EXCEPT !.missed = 0]
      /\ held' = Older(1) /\ faults' = faults
  BY <1>1 DEF Arrive
<1>3. held' = {}
  BY <1>1, <1>2 DEF Older
<1> DEFINE over == sensor.seq + JumboPkts > FramePkts
<1>4. /\ sensor' \in Lidar /\ sensor'.missed = 0
      /\ sensor'.model = sensor.model /\ sensor'.mode = sensor.mode
      /\ sensor'.seq = IF over THEN 1 ELSE sensor.seq + JumboPkts
      /\ sensor'.seq \in Heads
      /\ sensor'.frame = IF ~over THEN sensor.frame
                         ELSE IF sensor.frame = Frames - 1 THEN 0 ELSE sensor.frame + 1
      /\ SeqBefore(1)' = sensor.seq + JumboPkts - 1
      /\ FrameBefore(1)' = sensor.frame
  BY <1>1, <1>2, JumboForward
<1>5. /\ ColumnPkts' = ColumnPkts /\ PointsPerPacket' = PointsPerPacket /\ Jumbo'
      /\ \A c : Whole(c)' <=> Whole(c)
      /\ \A c, n : Begun(c, n)' <=> Begun(c, n)
  BY <1>4, SameLidar
<1>6. CASE NotTaken
  <2>1. heard.frame = Unheard
    BY <1>6, NotTakenUnheard
  <2>2. dec' = IsNewFrame(dec, Packets(TRUE)) /\ UNCHANGED <<scan, last, heard>>
    BY <1>2, <1>6 DEF Process, NotTaken
  <2>3. dec' \in DecoderState /\ dec'.split = dec.split
    <3>1. 1 \in 1 .. JumboPkts
      BY Sizes
    <3>2. Packets(TRUE)[1] \in Pkt
      BY <1>1, <3>1, JumboPackets
    <3>3. Packets(TRUE)[1].seq \in 1 .. FramePkts
      BY <3>2 DEF Pkt
    <3> QED BY <1>1, <2>2, <3>3, AskedIs
  <2> QED BY <1>1, <1>2, <1>3, <1>4, <2>1, <2>2, <2>3, UnheardStep
<1>7. CASE ~NotTaken
  <2>1. PICK s : /\ JumboAt(s, JumboPkts)
                 /\ dec' = s.dec /\ scan' = s.scan
                 /\ last' = IF s.out = {} THEN last ELSE s.out
                 /\ JumboHeard(sensor.frame, s.new)
    BY <1>2, <1>7, JumboProcessed
  <2>2. heard.frame # Unheard => (Newer(sensor.frame) <=> Behind)
    <3>1. FrameBefore(0) = sensor.frame /\ 0 \in 0 .. FramePkts
      BY <1>1, Sizes DEF FrameBefore
    <3>2. CASE heard.frame # Unheard /\ Behind
      <4>1. heard.frame = FrameBefore(sensor.seq) /\ sensor.seq \in 0 .. FramePkts
        BY <1>1, <3>2, JumboBefore, Sizes
      <4>2. Newer(FrameBefore(0))
        BY <1>1, <3>1, <4>1, CutAtFrame
      <4> QED BY <3>1, <3>2, <4>2
    <3>3. CASE heard.frame # Unheard /\ ~Behind
      <4>1. heard.frame = FrameBefore(0)
        BY <3>1, <3>3 DEF Behind
      <4>2. ~Newer(FrameBefore(0))
        BY <1>1, <3>1, <4>1, CutAtFrame
      <4> QED BY <3>1, <3>3, <4>2
    <3> QED BY <3>2, <3>3
  <2>3. /\ heard'.frame = sensor.frame
        /\ heard'.fresh <=> Behind
        /\ heard'.new <=> Behind
    BY <2>1, <2>2 DEF JumboAt, JumboHeard, Behind
  <2>4. heard' \in Hearing
    <3> DEFINE newer == heard.frame = Unheard \/ Newer(sensor.frame)
               fresh == newer /\ heard.frame # Unheard
               late == ~newer /\ sensor.frame # heard.frame
    <3>1. \A x, y, z, u, v \in BOOLEAN, n \in 0 .. Frames :
            [frame |-> n, fresh |-> x, new |-> y, late |-> z, after |-> u, ended |-> v] \in Hearing
      BY DEF Hearing
    <3>2. (IF newer THEN sensor.frame ELSE heard.frame) \in 0 .. Frames
      BY <1>1, Sizes
    <3>3. fresh \in BOOLEAN /\ late \in BOOLEAN
      OBVIOUS
    <3>4. s.new \in BOOLEAN
      BY <2>1 DEF JumboAt
    <3>5. PICK ended \in BOOLEAN :
            heard' = [frame |-> IF newer THEN sensor.frame ELSE heard.frame,
                      fresh |-> fresh, new |-> s.new, late |-> late,
                      after |-> heard.late, ended |-> ended]
      BY <2>1 DEF JumboHeard
    <3> HIDE DEF newer, fresh, late
    <3> QED BY <1>1, <3>1, <3>2, <3>3, <3>4, <3>5, Zenon
  <2>5. /\ dec' \in DecoderState /\ dec'.wait = dec.wait /\ dec'.ready = dec.ready
        /\ dec'.split.prev = IF Follows THEN sensor.seq + JumboPkts - 1 ELSE dec.split.prev
        /\ scan' \in Scan /\ scan'.points = scan'.pkts * PointsPerPacket
        /\ scan'.clean => Follows /\ Begun(scan', sensor.seq + JumboPkts - 1)
    BY <2>1 DEF JumboAt
  <2>6. \A c \in last' : c.clean => Whole(c)
    <3>1. \A c \in last : c.clean => Whole(c)
      BY DEF MemsInv, WholeFrames, Whole, Jumbo
    <3>2. \A c \in s.out : c.clean => Whole(c)
      BY <2>1 DEF JumboAt
    <3> QED BY <2>1, <3>1, <3>2
  <2>7. Types'
    BY <1>1, <1>2, <1>4, <2>4, <2>5 DEF Types
  <2>8. heard'.frame # Unheard
    BY <1>1, <2>3 DEF Unheard
  <2>9. ~dec'.wait \/ dec'.ready
    BY <1>7, <2>5 DEF NotTaken
  <2>10. MaxInv'
    BY <1>4 DEF MaxInv, Jumbo
  <2>11. ~Follows => /\ heard.frame # Unheard /\ ~Behind
                     /\ dec.split.prev >= JumboPkts /\ dec.split.prev < sensor.seq
                     /\ dec.split.prev + Range < sensor.seq
    <3>1. ~Follows => /\ heard.frame # Unheard /\ ~Behind
                      /\ ~(dec.split.prev + Range >= sensor.seq)
      BY DEF Follows
    <3> QED BY <1>1, <3>1, JumboBefore, Sizes
  <2>12. dec'.split.prev >= JumboPkts
    BY <1>1, <2>5, <2>11, Sizes
  <2>13. faults = 0 => Follows
    <3>1. faults = 0 /\ heard.frame # Unheard => dec.split.prev = SeqBefore(1)
      BY <1>1 DEF JumboInv
    <3> QED BY <1>1, <2>11, <3>1, JumboBefore, Sizes
  <2>14. faults' = 0 => dec'.split.prev = SeqBefore(1)'
    BY <1>2, <1>4, <2>5, <2>13
  <2>16. JumboInv'
    <3>1. heard'.frame = FrameBefore(1)'
      BY <1>4, <2>3
    <3>2. dec'.split.prev <= sensor.seq + JumboPkts - 1
      <4>1. CASE Follows
        BY <1>1, <2>5, <4>1, Sizes
      <4>2. CASE ~Follows
        <5>1. dec'.split.prev = dec.split.prev /\ dec.split.prev < sensor.seq
          BY <2>5, <2>11, <4>2
        <5>2. dec.split.prev \in Nat
          BY <1>1, Sizes DEF Types, DecoderState, Split
        <5> QED BY <1>1, <5>1, <5>2, Sizes
      <4> QED BY <4>1, <4>2
    <3>3. \/ heard'.frame = sensor'.frame /\ dec'.split.prev < sensor'.seq
          \/ heard'.frame = FrameBefore(1)' /\ sensor'.seq = 1
      <4>1. dec'.split.prev \in 0 .. FramePkts
        BY <2>5 DEF DecoderState, Split
      <4>2. CASE over
        BY <1>4, <3>1, <4>2
      <4>3. CASE ~over
        BY <1>1, <1>4, <2>3, <3>2, <4>1, <4>3, Sizes
      <4> QED BY <4>2, <4>3
    <3>4. sensor'.seq = 1 => FrameBefore(sensor.seq)' = FrameBefore(1)'
      BY DEF FrameBefore
    <3> QED BY <1>3, <1>4, <2>8, <2>12, <2>14, <3>3, <3>4 DEF JumboInv
  <2>17. ScanInv'
    <3>1. scan'.clean => dec'.split.prev = Number(SeqBefore(1))'
      BY <1>4, <1>5, <2>5 DEF Number, FromZero, Jumbo
    <3> QED BY <1>4, <1>5, <2>5, <2>8, <3>1 DEF ScanInv
  <2>18. OneSplitPerFrame'
    BY <2>3 DEF OneSplitPerFrame
  <2>19. WholeFrames'
    BY <1>4, <1>5, <2>6 DEF WholeFrames, Whole, Jumbo
  <2> QED BY <1>3, <1>4, <1>5, <2>7, <2>8, <2>9, <2>10, <2>16, <2>17, <2>18, <2>19 DEF MemsInv
<1> QED BY <1>6, <1>7

\* A jumbo packet is lost, or refused.
LEMMA JumboMissed ==
  ASSUME MemsInv, Jumbo, faults = 0,
         sensor' = [Advanced(JumboPkts) EXCEPT !.missed = @ + 1],
         faults' = faults + 1, held' = {},
         dec' \in DecoderState, dec'.split = dec.split,
         dec'.wait = dec.wait, dec'.ready = dec.ready,
         scan' = scan, last' = last,
         heard' = heard \/ heard' = [heard EXCEPT !.fresh = FALSE, !.new = FALSE]
  PROVE  MemsInv'
<1>1. /\ Types /\ JumboInv /\ ScanInv /\ OneSplitPerFrame /\ WholeFrames
      /\ sensor.seq \in Heads /\ sensor.missed = 0
      /\ sensor.seq \in 1 .. FramePkts /\ sensor.frame \in 0 .. Frames - 1
      /\ heard \in Hearing
  BY DEF MemsInv, JumboInv, Types, Lidar
<1>2. Advanced(JumboPkts).missed = 0
  BY <1>1 DEF Advanced, Types, Lidar
<1>3. sensor' = [Advanced(JumboPkts) EXCEPT !.missed = 1]
  BY <1>2
<1> DEFINE over == sensor.seq + JumboPkts > FramePkts
<1>4. /\ sensor' \in Lidar /\ sensor'.missed = 1
      /\ sensor'.model = sensor.model /\ sensor'.mode = sensor.mode
      /\ sensor'.seq = IF over THEN 1 ELSE sensor.seq + JumboPkts
      /\ sensor'.seq \in Heads
      /\ sensor'.frame = IF ~over THEN sensor.frame
                         ELSE IF sensor.frame = Frames - 1 THEN 0 ELSE sensor.frame + 1
      /\ FrameBefore(1)' = sensor.frame
  <2>1. 1 \in {0, 1}
    OBVIOUS
  <2> QED BY <1>1, <1>3, <2>1, JumboForward
<1>5. /\ ColumnPkts' = ColumnPkts /\ PointsPerPacket' = PointsPerPacket /\ Jumbo'
      /\ \A c : Whole(c)' <=> Whole(c)
      /\ \A c, n : Begun(c, n)' <=> Begun(c, n)
  BY <1>4, SameLidar
<1>6. CASE heard.frame = Unheard
  <2>1. faults' \in Nat /\ faults' > 0
    OBVIOUS
  <2> QED BY <1>1, <1>4, <1>6, <2>1, UnheardStep
<1>18. SUFFICES ASSUME heard.frame # Unheard PROVE MemsInv'
  BY <1>6
<1>7. /\ heard' \in Hearing /\ heard'.frame = heard.frame
      /\ \/ heard' = heard
         \/ ~heard'.fresh /\ ~heard'.new
  <2>1. CASE heard' = heard
    BY <1>1, <2>1, Zenon
  <2>2. CASE heard' = [heard EXCEPT !.fresh = FALSE, !.new = FALSE]
    BY <1>1, <2>2 DEF Hearing
  <2> QED BY <2>1, <2>2
<1>8. Types'
  BY <1>1, <1>4, <1>7 DEF Types
<1>9. ~dec'.wait \/ dec'.ready
  BY <1>18 DEF MemsInv
<1>10. MaxInv'
  BY <1>4 DEF MaxInv, Jumbo
<1>11. dec'.split.prev >= JumboPkts /\ faults' # 0 /\ heard'.frame # Unheard
  BY <1>1, <1>7, <1>18 DEF JumboInv
<1>12. \/ heard'.frame = sensor'.frame /\ dec'.split.prev < sensor'.seq
       \/ /\ heard'.frame = FrameBefore(sensor.seq)'
          /\ \/ sensor'.seq = 1
             \/ /\ sensor'.seq = 1 + JumboPkts /\ dec'.split.prev = FramePkts
  <2>1. CASE heard.frame = sensor.frame /\ dec.split.prev < sensor.seq
    <3>1. CASE over
      <4>1. sensor'.seq = 1 => FrameBefore(sensor.seq)' = FrameBefore(1)'
        BY DEF FrameBefore
      <4> QED BY <1>4, <1>7, <2>1, <3>1, <4>1
    <3>2. CASE ~over
      <4>1. dec.split.prev < sensor.seq + JumboPkts
        <5>1. dec.split.prev \in Nat
          BY <1>1, Sizes DEF Types, DecoderState, Split
        <5> QED BY <1>1, <2>1, <5>1, Sizes
      <4> QED BY <1>4, <1>7, <2>1, <3>2, <4>1
    <3> QED BY <3>1, <3>2
  <2>2. CASE ~(heard.frame = sensor.frame /\ dec.split.prev < sensor.seq)
    <3>1. heard.frame = FrameBefore(sensor.seq) /\ sensor.seq = 1
      BY <1>1, <1>18, <2>2 DEF JumboInv
    <3>2. dec.split.prev = FramePkts
      BY <1>1, <1>18, <3>1, Sizes DEF JumboInv, SeqBefore
    <3>3. ~over /\ sensor'.seq = 1 + JumboPkts /\ sensor'.frame = sensor.frame
      BY <1>4, <3>1, Sizes
    <3>4. FrameBefore(sensor.seq)' = FrameBefore(sensor.seq)
      BY <3>1, <3>3, Sizes DEF FrameBefore
    <3> QED BY <1>7, <3>1, <3>2, <3>3, <3>4
  <2> QED BY <2>1, <2>2
<1>13. JumboInv'
  BY <1>4, <1>11, <1>12 DEF JumboInv
<1>14. ScanInv'
  BY <1>1, <1>4, <1>5 DEF ScanInv
<1>15. OneSplitPerFrame'
  BY <1>1, <1>4, <1>7 DEF OneSplitPerFrame, FromZero, Jumbo
<1>16. WholeFrames'
  BY <1>1, <1>4, <1>5 DEF WholeFrames, Whole, Jumbo
<1>17. (heard.frame # Unheard)'
  BY <1>11 DEF Unheard
<1> QED BY <1>4, <1>5, <1>8, <1>9, <1>10, <1>11, <1>13, <1>14, <1>15, <1>16, <1>17 DEF MemsInv

LEMMA JumboLose ==
  ASSUME MemsInv, Jumbo, Lose
  PROVE  MemsInv'
<1>1. /\ Types /\ dec \in DecoderState /\ held = {} /\ Group(sensor.model) = JumboPkts
      /\ JumboPkts \in Nat /\ JumboPkts > 1
  BY Sizes DEF MemsInv, JumboInv, Types, Group, Jumbo
<1>2. PICK n \in {1, Range - 1} :
        /\ MayMiss(n) /\ MayPass(n)
        /\ sensor' = [Advanced(n * Group(sensor.model)) EXCEPT !.missed = @ + n]
        /\ held' = Older(n) /\ faults' = faults + 1
        /\ UNCHANGED <<dec, scan, last, heard>>
  BY DEF Lose
<1>3. faults = 0 /\ n = 1
  BY <1>1, <1>2 DEF MayMiss
<1>4. sensor' = [Advanced(JumboPkts) EXCEPT !.missed = @ + 1]
  <2>1. 1 * JumboPkts = JumboPkts
    BY <1>1
  <2> QED BY <1>1, <1>2, <1>3, <2>1
<1>5. held' = {}
  BY <1>1, <1>2 DEF Older
<1> QED BY <1>1, <1>2, <1>3, <1>4, <1>5, JumboMissed

\* A jumbo packet without identifiers leaves everything as it was.
LEMMA JumboRefused ==
  ASSUME NEW d, NEW c, NEW ps, Len(ps) \in Nat,
         \A i \in 1 .. Len(ps) : ~ps[i].ok
  PROVE  RSM1_JumboMsop(d, c, ps) = NotDecoded(d, c)
<1> DEFINE n == Len(ps)
<1>1. PICK f : IsDone(f, n, d, c, ps) /\ RSM1_JumboMsop(d, c, ps) = f[n]
  BY JumboDone
<1> HIDE DEF n
<1>2. n \in Nat /\ \A i \in 1 .. n : ~ps[i].ok
  BY DEF n
<1>3. /\ f[0] = NotDecoded(d, c)
      /\ \A i \in 1 .. n : f[i] = RSM1_JumboStep(f[i - 1], ps[i])
  BY <1>1, <1>2 DEF IsDone
<1>4. \A i \in 1 .. n : f[i] = f[i - 1]
  BY <1>2, <1>3 DEF RSM1_JumboStep
<1>5. \A i \in 0 .. n : f[i] = f[0]
  <2> DEFINE S == {i \in Nat : i \in 0 .. n /\ f[i] # f[0]}
  <2>1. SUFFICES ASSUME S # {} PROVE FALSE
    BY <1>2
  <2>2. PICK m \in S : \A k \in S : ~(<<k, m>> \in OpToRel(<, Nat))
    BY <2>1, NatLessThanWellFounded, WFMin
  <2>3. m \in Nat /\ m \in 1 .. n /\ f[m] # f[0]
    BY <1>2
  <2>4. m - 1 \in Nat /\ m - 1 \in 0 .. n /\ m - 1 < m
    BY <1>2, <2>3
  <2>5. f[m - 1] # f[0]
    BY <1>4, <2>3
  <2>6. <<m - 1, m>> \in OpToRel(<, Nat)
    BY <2>3, <2>4 DEF OpToRel
  <2> QED BY <2>2, <2>4, <2>5, <2>6
<1>6. f[n] = f[0]
  BY <1>2, <1>5
<1> QED BY <1>1, <1>3, <1>6

LEMMA JumboRefuse ==
  ASSUME MemsInv, Jumbo, Refuse
  PROVE  MemsInv'
<1> DEFINE ps == Packets(FALSE)
           d == IsNewFrame(dec, ps)
<1>1. /\ Types /\ dec \in DecoderState /\ held = {} /\ Group(sensor.model) = JumboPkts
      /\ JumboPkts \in Nat /\ JumboPkts > 1 /\ sensor.seq \in Heads
  BY Sizes DEF MemsInv, JumboInv, Types, Group, Jumbo
<1>2. /\ MayMiss(1) /\ MayPass(1) /\ Process(ps)
      /\ sensor' = [Advanced(JumboPkts) EXCEPT !.missed = @ + 1]
      /\ held' = Older(1) /\ faults' = faults + 1
  BY <1>1 DEF Refuse
<1>3. faults = 0
  BY <1>1, <1>2 DEF MayMiss
<1>4. held' = {}
  BY <1>1, <1>2 DEF Older
<1>5. /\ Len(ps) = JumboPkts
      /\ \A i \in 1 .. JumboPkts : ps[i] \in Pkt /\ ps[i].ok = FALSE
  BY <1>1, JumboPackets
<1>6. /\ ps[1].seq \in 1 .. FramePkts /\ ~ps[1].ok
  <2>1. 1 \in 1 .. JumboPkts
    BY <1>1
  <2>2. ps[1] \in Pkt /\ ps[1].ok = FALSE
    BY <1>5, <2>1
  <2> QED BY <2>2 DEF Pkt
<1> HIDE DEF ps
<1>8. d \in DecoderState /\ d.split = dec.split /\ d.wait = dec.wait /\ d.ready = dec.ready
  BY <1>1, <1>6, AskedIs
<1>7. CASE NotTaken
  <2>1. dec' = d /\ UNCHANGED <<scan, last, heard>>
    BY <1>2, <1>7 DEF Process, NotTaken
  <2> QED BY <1>1, <1>2, <1>3, <1>4, <1>8, <2>1, JumboMissed
<1>11. SUFFICES ASSUME ~NotTaken PROVE MemsInv'
  BY <1>7
<1>9. DecodeMsop(sensor.model, d, scan, ps) = NotDecoded(d, scan)
  <2>1. RSM1_JumboMsop(d, scan, ps) = NotDecoded(d, scan)
    BY <1>1, <1>5, JumboRefused
  <2> QED BY <2>1 DEF DecodeMsop, Jumbo
<1>10. /\ dec' = d /\ scan' = scan /\ last' = last
       /\ heard' = [heard EXCEPT !.fresh = FALSE, !.new = FALSE]
  <2> DEFINE r == DecodeMsop(sensor.model, d, scan, ps)
  <2>1. /\ r.dec = d /\ r.scan = scan /\ r.out = {} /\ r.new = FALSE
    BY <1>9 DEF NotDecoded
  <2>2. /\ dec' = r.dec /\ scan' = r.scan
        /\ last' = IF r.out = {} THEN last ELSE r.out
        /\ heard' = [heard EXCEPT !.fresh = FALSE, !.new = r.new]
    <3> HIDE DEF r
    <3> QED BY <1>2, <1>6, <1>11 DEF Process, NotTaken, d, r
  <2> QED BY <2>1, <2>2
<1> QED BY <1>1, <1>2, <1>3, <1>4, <1>8, <1>10, JumboMissed

(***************************************************************************)
(* The start, and the theorems.                                            *)
(***************************************************************************)
LEMMA MemsStarts ==
  ASSUME Init
  PROVE  MemsInv
<1>1. /\ sensor \in [model : Lidars, mode : {0, 4}, frame : {0}, seq : {1, 1 + JumboPkts},
                     missed : {0}]
      /\ held = {} /\ scan = EmptyScan /\ last = {} /\ faults = 0
      /\ heard = [frame |-> Unheard, fresh |-> FALSE, new |-> FALSE,
                  late |-> FALSE, after |-> FALSE, ended |-> FALSE]
  BY DEF Init
<1>2. PICK wait \in BOOLEAN : dec = MemsStart(sensor.model, wait)
  BY DEF Init
<1>3. sensor \in Lidar /\ sensor.missed = 0 /\ sensor.seq \in {1, 1 + JumboPkts}
  BY <1>1, Sizes DEF Lidar
<1>4. SeqStart \in Split /\ SeqStart.prev = 0 /\ SeqStart.max = 0 /\ ~SeqStart.looped
  BY Sizes DEF SeqStart, Split
<1>5. dec \in DecoderState /\ dec.split = SeqStart
  <2>1. \A x, y, z \in BOOLEAN, s, t \in Split :
          [dual |-> x, wait |-> y, ready |-> z, split |-> s, pre |-> t] \in DecoderState
    BY DEF DecoderState
  <2>2. (sensor.model \notin {"RSEM4", "RSEMX"}) \in BOOLEAN /\ FALSE \in BOOLEAN
    OBVIOUS
  <2>3. dec = [dual |-> FALSE, wait |-> wait, ready |-> sensor.model \notin {"RSEM4", "RSEMX"},
               split |-> SeqStart, pre |-> SeqStart]
    BY <1>2 DEF MemsStart
  <2>4. dec \in DecoderState
    BY <1>4, <2>1, <2>2, <2>3, Zenon
  <2> QED BY <2>3, <2>4
<1>6. scan \in Scan /\ scan.points = 0 /\ scan.pkts = 0 /\ ~scan.clean
  BY <1>1 DEF EmptyScan, Scan
<1>7. heard.frame = Unheard /\ ~heard.fresh /\ ~heard.new /\ ~heard.late /\ ~heard.ended
      /\ heard \in Hearing
  BY <1>1, Sizes DEF Unheard, Hearing
<1>8. Types
  BY <1>1, <1>3, <1>5, <1>6, <1>7 DEF Types
<1>9. Quiet
  BY <1>1, <1>5, <1>7 DEF Quiet
<1>10. MaxInv
  BY <1>1, <1>7 DEF MaxInv
<1>12. SingleInv
  BY <1>1, <1>3, <1>7, Sizes DEF SingleInv, HeldInv
<1>13. ScanInv
  <2>1. 0 * PointsPerPacket = 0
    BY <1>8, PointsTypes
  <2> QED BY <1>6, <2>1 DEF ScanInv
<1>14. OneSplitPerFrame
  BY <1>7 DEF OneSplitPerFrame
<1>15. WholeFrames
  BY <1>1 DEF WholeFrames
<1>16. IF Jumbo THEN JumboInv ELSE SingleInv
  <2>1. CASE Jumbo
    <3>1. JumboInv
      <4>1. sensor.seq \in Heads
        <5>1. \A j \in Nat \ {0} : (1 - 1) % j = 0 /\ ((1 + j) - 1) % j = 0
          OBVIOUS
        <5>2. (1 - 1) % JumboPkts = 0 /\ ((1 + JumboPkts) - 1) % JumboPkts = 0
          BY <5>1, Sizes
        <5> QED BY <1>3, <5>2, Sizes DEF Heads
      <4> QED BY <1>1, <1>3, <1>7, <4>1 DEF JumboInv
    <3> QED BY <2>1, <3>1
  <2>2. CASE ~Jumbo
    BY <1>12, <2>2
  <2> QED BY <2>1, <2>2
<1> QED BY <1>1, <1>3, <1>7, <1>8, <1>9, <1>10, <1>13, <1>14, <1>15, <1>16 DEF MemsInv

LEMMA MemsUnchanged ==
  ASSUME MemsInv, UNCHANGED vars
  PROVE  MemsInv'
<1>1. /\ sensor' = sensor /\ held' = held /\ dec' = dec /\ scan' = scan
      /\ last' = last /\ heard' = heard /\ faults' = faults
  BY DEF vars
<1>2. Types' /\ Quiet' = Quiet /\ MaxInv' /\ Jumbo' = Jumbo
  BY <1>1 DEF MemsInv, Types, Quiet, MaxInv, Jumbo
<1>3. (IF Jumbo THEN JumboInv ELSE SingleInv)'
  BY <1>1 DEF MemsInv, Jumbo, JumboInv, SingleInv, HeldInv, Newest, Misled, SeqBefore,
              FrameBefore, Number
<1>4. ScanInv'
  BY <1>1 DEF MemsInv, ScanInv, PointsPerPacket, Begun, ColumnPkts, Number, SeqBefore
<1>5. OneSplitPerFrame' /\ WholeFrames'
  BY <1>1 DEF MemsInv, OneSplitPerFrame, WholeFrames, ColumnPkts
<1> QED BY <1>1, <1>2, <1>3, <1>4, <1>5 DEF MemsInv

LEMMA MemsNext ==
  ASSUME MemsInv, [Next]_vars
  PROVE  MemsInv'
<1>1. CASE Difop
  BY <1>1, DifopStep
<1>2. CASE Jumbo
  <2>1. Group(sensor.model) # 1 /\ held = {}
    BY <1>2, Sizes DEF Group, Jumbo, MemsInv, JumboInv
  <2>2. ~Repeat /\ ~Hold /\ ~Late
    BY <2>1 DEF Repeat, Hold, Late
  <2>3. CASE Arrive
    BY <1>2, <2>3, JumboArrive
  <2>4. CASE Lose
    BY <1>2, <2>4, JumboLose
  <2>5. CASE Refuse
    BY <1>2, <2>5, JumboRefuse
  <2>6. CASE UNCHANGED vars
    BY <2>6, MemsUnchanged
  <2> QED BY <1>1, <2>2, <2>3, <2>4, <2>5, <2>6 DEF Next
<1>3. CASE ~Jumbo
  <2>1. CASE Arrive
    BY <1>3, <2>1, ArriveStep
  <2>2. CASE Repeat
    BY <1>3, <2>2, RepeatStep
  <2>3. CASE Hold
    BY <1>3, <2>3, HoldStep
  <2>4. CASE Late
    BY <1>3, <2>4, LateStep
  <2>5. CASE Lose
    BY <1>3, <2>5, LoseStep
  <2>6. CASE Refuse
    BY <1>3, <2>6, RefuseStep
  <2>7. CASE UNCHANGED vars
    BY <2>7, MemsUnchanged
  <2> QED BY <1>1, <2>1, <2>2, <2>3, <2>4, <2>5, <2>6, <2>7 DEF Next
<1> QED BY <1>2, <1>3

(* The invariant of the LiDARs, of what is on its way and of the decoder:  *)
(* the decoder is never further behind than what it failed to hear, and    *)
(* knows the length of a frame once it heard the end of one.               *)
THEOREM MemsInvariant == Spec => []MemsInv
<1>1. Init => MemsInv
  BY MemsStarts
<1>2. MemsInv /\ [Next]_vars => MemsInv'
  BY MemsNext
<1> QED BY <1>1, <1>2, PTL DEF Spec

(* SplitStrategyBySeq cuts a frame off exactly where the first packet of   *)
(* the next one is heard, whatever was lost, late, repeated or refused; of *)
(* RSEM4 and RSEMX but for the packet behind a late one.                   *)
THEOREM FramesAreSplit == Spec => []OneSplitPerFrame
<1>1. MemsInv => OneSplitPerFrame
  BY DEF MemsInv
<1> QED BY <1>1, MemsInvariant, PTL

(* decodeMsopPkt hands over no cloud for whole that lacks a packet of its  *)
(* frame, has one of another or one twice, or lacks a part of the columns; *)
(* that of RSM1 not once the end of a frame was heard.                     *)
THEOREM FramesAreWhole == Spec => []WholeFrames
<1>1. MemsInv => WholeFrames
  BY DEF MemsInv
<1> QED BY <1>1, MemsInvariant, PTL

-----------------------------------------------------------------------------
(***************************************************************************)
(* The driver of the LeiShen LiDARs.  clearQueue empties the packet queue  *)
(* without its lock.  It is alone with the queue, for any number of        *)
(* descriptors and packets, because isQuit is only set after the socket    *)
(* threads were joined, and none is made again.                            *)
(***************************************************************************)

\* The socket threads ended and will not be made again.
SocksOut == \A s \in Socks : Out(pc[s])

Order ==
    /\ pc \in [Socks -> {"none", "open", "bind", "loop", "recv", "wait", "close", "reset",
                          "done"}]
    /\ owner \in {"free", "delete", "deleted"} => SocksOut
    /\ quit => owner \in {"delete", "deleted"}
    /\ decoder = "clear" => quit

(* Order holds at first.                                                   *)
LEMMA InitOrder == LeiInit => Order
PROOF
    <1> SUFFICES ASSUME LeiInit PROVE Order
        OBVIOUS
    <1>1. pc = [s \in Socks |-> "none"] /\ owner = "made" /\ quit = FALSE /\ decoder = "none"
        BY DEF LeiInit
    <1> QED
        BY <1>1 DEF Order, SocksOut, Out

(* No step of the owner breaks it: the joins come before Free.             *)
LEMMA OwnerOrder == Order /\ Owner => Order'
PROOF
    <1> SUFFICES ASSUME Order, Owner PROVE Order'
        OBVIOUS
    <1>1. CASE InitDriver
        <2>1. owner = "made" /\ ~quit /\ decoder # "clear"
            BY <1>1 DEF InitDriver, Order
        <2> QED
            BY <1>1, <2>1 DEF InitDriver, Order, SocksOut, Out
    <1>2. CASE Start \/ Stop \/ Destroy
        BY <1>2 DEF Start, Stop, Destroy, Order, SocksOut, Out
    <1>3. CASE StopData \/ StopDev
        BY <1>3 DEF StopData, StopDev, ShutIn, CloseIn, ResetIn, Order, SocksOut, Out
    <1>4. CASE Joined
        BY <1>4 DEF Joined, Order, SocksOut, Out
    <1>5. CASE Free \/ Delete
        BY <1>5 DEF Free, Delete, Order, SocksOut, Out
    <1> QED
        BY <1>1, <1>2, <1>3, <1>4, <1>5 DEF Owner

(* No step of a socket thread breaks it: one that ended takes none.        *)
LEMMA SockOrder == ASSUME NEW s \in Socks, Order, Sock(s) \/ Received(s) PROVE Order'
PROOF
    <1>1. /\ UNCHANGED <<owner, quit, decoder>>
          /\ ~Out(pc[s])
          /\ \E at \in {"bind", "loop", "recv", "wait", "close", "reset", "done"} :
               pc' = [pc EXCEPT ![s] = at]
        BY DEF Sock, OpenSock, Bind, Loop, Recv, Woken, CloseSock, Received, Out
    <1> QED
        BY <1>1 DEF Order, SocksOut

(* The decoder's thread clears its queue only when isQuit is set.          *)
LEMMA RestOrder == Order /\ (Decoder \/ Driver \/ UNCHANGED leiVars) => Order'
PROOF
    BY DEF Decoder, DecTop, DecClear, DecPop, Driver, DrvTop, DrvTake, leiVars,
           Order, SocksOut, Out

(* QueueToItself for every set of descriptors and any number of packets.   *)
THEOREM QueueOwned == LeiSpec => []QueueToItself
PROOF
    <1>1. LeiInit => Order
        BY InitOrder
    <1>2. Order /\ [LeiNext]_leiVars => Order'
        BY OwnerOrder, SockOrder, RestOrder DEF LeiNext
    <1>3. Order => QueueToItself
        BY DEF Order, SocksOut, QueueToItself
    <1> QED
        BY <1>1, <1>2, <1>3, PTL DEF LeiSpec
=============================================================================
