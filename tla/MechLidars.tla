----------------------------- MODULE MechLidars -----------------------------
(***************************************************************************)
(* The rotating LiDARs rs_driver decodes, one group of definitions per     *)
(* file driver/decoder/decoder_<LiDAR>.hpp:                                *)
(*   <LiDAR>        what its packets look like: laser beams (the height of *)
(*                  a cloud), blocks of a packet, points of a block, and   *)
(*                  how many block turns make the degree beyond which two  *)
(*                  blocks lie on both sides of the dark sector;           *)
(*   <LiDAR>Difop   its decodeDifopPkt on the decoder's state d;           *)
(*   <LiDAR>Msop    its decodeMsopPkt on the state, the cloud being filled *)
(*                  and the packet p.                                      *)
(* What the files share (DecoderMech) is at the top.                       *)
(***************************************************************************)
EXTENDS MechBlocks

CONSTANT UnitSpeed    \* rounds per second of a LiDAR that turns the unit of
                      \* angle while it fires a block

Single == "single"
Dual == "dual"

\* How far a LiDAR turns while it fires a block.
StepAt(rps) == rps \div UnitSpeed

\* The state of a decoder that has heard nothing yet.  The configuration
\* cfg: wait for a DIFOP or not, beam angles from a file or not, the split
\* strategy, and the blocks per frame when these are set by hand.
MechStart(cfg) ==
    [ echo |-> Single, rps |-> 10, perFrame |-> Round \div StepAt(10),
      split |-> Round \div StepAt(10), step |-> StepAt(10), blind |-> 0, ready |-> cfg.fromFile,
      wait |-> cfg.wait /\ ~cfg.fromFile,
      init |-> FALSE, install |-> "none", lines |-> 0,
      angle |-> SplitAngle, blks |-> 0, preAngle |-> SplitAngle, preBlks |-> 0 ]

\* decodeDifopCommon: q is the DIFOP packet.  The visible sector may lie
\* across the zero angle.
FovDifference(fov) == fov[2] - fov[1]              (* mutant: never across it *)
FovRange(fov) == IF fov[1] < fov[2] THEN fov[2] - fov[1]
                                    ELSE fov[2] + Round - fov[1]
DifopCommon(d, q) ==
    LET rps == IF q.rps = 0 THEN 10 ELSE q.rps
        step == StepAt(rps)
    IN  [d EXCEPT !.rps = rps,
                  !.perFrame = Round \div step,
                  !.step = step,
                  !.blind = (Round - FovRange(q.fov)) \div step,
                  !.ready = @ \/ q.cali]

SetEcho(d, echo) ==
    [d EXCEPT !.echo = echo,
              !.split = IF echo = Dual THEN 2 * d.perFrame ELSE d.perFrame]

\* jump is in block turns of a LiDAR at 10 rounds per second.
Use(d, dev) == [step |-> d.step, blind |-> d.blind, jump |-> dev.jump * StepAt(10)]

\* newBlock of the strategy the configuration chose.
MaxBlks(d, cfg) == IF cfg.strategy = "custom" THEN cfg.custom ELSE d.split
IsSplit(d, cfg, az) ==
    IF cfg.strategy = "angle" THEN AngleSplit(d.angle, az)
    ELSE NumSplit(d.blks, MaxBlks(d, cfg))
NewBlock(d, cfg, az) ==
    IF cfg.strategy = "angle" THEN [d EXCEPT !.angle = az]
    ELSE [d EXCEPT !.blks = NumCount(@, MaxBlks(d, cfg))]

\* A cloud: its points, and what tells which part of the scan they are:
\* the number of blocks, the rounds they were fired in, where the last one
\* was fired (at, the angle turned since the start), the largest turn between
\* two of them, whether it holds everything fired since the split it started
\* with, and whether blocks were missed just now.
EmptyCloud == [points |-> 0, blks |-> 0, rounds |-> {}, seen |-> {},
               gap |-> 0, whole |-> TRUE, missed |-> FALSE]
Horizon == 3 * Round
RoundOf(at) == ((at + Round - SplitAngle) \div Round) % 3
Widest(gap, at, seen) ==
    LET turned == {(at - s) % Horizon : s \in seen} \cup {gap}
    IN  CHOOSE g \in turned : \A t \in turned : g >= t
AddBlock(c, at, chans) ==
    [c EXCEPT !.points = @ + chans, !.blks = @ + 1, !.missed = FALSE,
              !.rounds = @ \cup {RoundOf(at)}, !.seen = {at},
              !.gap = Widest(@, at, c.seen)]

\* internDecodeMsopPkt: the blocks in turn, up to the first one without the
\* block identifier.  A split hands the cloud over with the height given,
\* unless it is empty (splitFrame).
DecodeBlock(dev, height, s, p, i) ==
    LET cut == IsSplit(s.dec, p.cfg, p.az[i])
        full == cut /\ s.cloud.blks > 0
    IN  [ dec   |-> NewBlock(s.dec, p.cfg, p.az[i]),
          cloud |-> AddBlock(IF cut THEN [EmptyCloud EXCEPT !.whole = ~s.cloud.missed]
                             ELSE s.cloud,
                             p.at[i], dev.chans),
          out   |-> IF full THEN Append(s.out, [cloud |-> s.cloud, height |-> height])
                    ELSE s.out,
          new   |-> s.new \/ cut ]
InternDecode(dev, height, d, c, p, times) ==
    LET done[i \in 0 .. p.good] ==
            IF i = 0 THEN [dec |-> d, cloud |-> c, out |-> <<>>, new |-> FALSE]
            ELSE DecodeBlock(dev, height, done[i - 1], p, i)
        end == done[p.good]
    IN  [dec |-> end.dec, cloud |-> end.cloud, out |-> end.out, new |-> end.new,
         times |-> times]
Refused(d, c) == [dec |-> d, cloud |-> c, out |-> <<>>, new |-> FALSE, times |-> <<>>]

-----------------------------------------------------------------------------
\* RS16: a block holds two firings of the 16 beams, or the two returns of one.
\* The split length follows the return mode only when that changes.
RS16 == [laser |-> 16, blocks |-> 12, chans |-> 32, jump |-> 5]
RS16Echo(mode) == IF mode = 0 THEN Dual ELSE Single
RS16Difop(d, q) ==
    LET e == DifopCommon(d, q) IN
    IF RS16Echo(q.mode) = d.echo THEN e
    ELSE [e EXCEPT !.echo = RS16Echo(q.mode),
                   !.split = IF RS16Echo(q.mode) = Dual
                             THEN e.perFrame ELSE e.perFrame \div 2]
RS16Msop(d, c, p) ==
    InternDecode(RS16, RS16.laser, d, c, p,
        IF d.echo = Single THEN Rs16SingleReturn(p.az, Use(d, RS16))
                           ELSE Rs16DualReturn(p.az, Use(d, RS16)))

RSHELIOS_16P == [laser |-> 16, blocks |-> 12, chans |-> 32, jump |-> 5]
RSHELIOS_16PEcho(mode) == IF mode = 0 THEN Dual ELSE Single
RSHELIOS_16PDifop(d, q) ==
    LET e == DifopCommon(d, q)
        echo == RSHELIOS_16PEcho(q.mode)
    IN  IF echo = d.echo THEN e
        ELSE [e EXCEPT !.echo = echo,
                       !.split = IF echo = Dual THEN e.perFrame
                                 ELSE e.perFrame \div 2]
RSHELIOS_16PMsop(d, c, p) ==
    LET u == Use(d, RSHELIOS_16P) IN
    InternDecode(RSHELIOS_16P, RSHELIOS_16P.laser, d, c, p,
        IF d.echo = Single THEN Rs16SingleReturn(p.az, u)
                           ELSE Rs16DualReturn(p.az, u))

-----------------------------------------------------------------------------
RS32 == [laser |-> 32, blocks |-> 12, chans |-> 32, jump |-> 5]
RS32Echo(mode) == IF mode = 0 THEN Dual ELSE Single
RS32Difop(d, q) == SetEcho(DifopCommon(d, q), RS32Echo(q.mode))
RS32Msop(d, c, p) ==
    InternDecode(RS32, RS32.laser, d, c, p,
        IF d.echo = Single THEN SingleReturn(p.az, Use(d, RS32))
                           ELSE DualReturn(p.az, Use(d, RS32)))

\* RSBP: the first packet tells a V4 device, whose other lens and firing times
\* change the points only.
RSBP == [laser |-> 32, blocks |-> 12, chans |-> 32, jump |-> 5]
RSBPEcho(mode) == IF mode = 0 THEN Dual ELSE Single
RSBPDifop(d, q) == SetEcho(DifopCommon(d, q), RSBPEcho(q.mode))
RSBPMsop(d, c, p) ==
    InternDecode(RSBP, RSBP.laser, [d EXCEPT !.init = TRUE], c, p,
        IF d.echo = Single THEN SingleReturn(p.az, Use(d, RSBP))
                               ELSE DualReturn(p.az, Use(d, RSBP)))

RSHELIOS == [laser |-> 32, blocks |-> 12, chans |-> 32, jump |-> 5]
RSHELIOSEcho(mode) == IF mode = 0 THEN Dual ELSE Single
RSHELIOSDifop(d, q) == SetEcho(DifopCommon(d, q), RSHELIOSEcho(q.mode))
RSHELIOSMsop(d, c, p) ==
    InternDecode(RSHELIOS, RSHELIOS.laser, d, c, p,
        IF d.echo = Single THEN SingleReturn(p.az, Use(d, RSHELIOS))
                           ELSE DualReturn(p.az, Use(d, RSHELIOS)))

-----------------------------------------------------------------------------
\* The 128-beam LiDARs have three blocks: two firings are A A B B in dual mode.
RS128 == [laser |-> 128, blocks |-> 3, chans |-> 128, jump |-> 5]
RS128Echo(mode) == IF mode = 3 THEN Dual ELSE Single
RS128Difop(d, q) == SetEcho(DifopCommon(d, q), RS128Echo(q.mode))
RS128Msop(d, c, p) ==
    InternDecode(RS128, RS128.laser, d, c, p,
        IF d.echo = Single THEN SingleReturn(p.az, Use(d, RS128))
                           ELSE ABDualReturn(p.az, Use(d, RS128)))

RSP128 == [laser |-> 128, blocks |-> 3, chans |-> 128, jump |-> 5]
RSP128Echo(mode) == IF mode \in 0 .. 2 THEN Single ELSE Dual
RSP128Difop(d, q) == SetEcho(DifopCommon(d, q), RSP128Echo(q.mode))
RSP128Msop(d, c, p) ==
    InternDecode(RSP128, RSP128.laser, d, c, p,
        IF d.echo = Single THEN SingleReturn(p.az, Use(d, RSP128))
                           ELSE ABDualReturn(p.az, Use(d, RSP128)))

RS80 == [laser |-> 80, blocks |-> 4, chans |-> 80, jump |-> 5]
RS80Echo(mode) == IF mode = 3 THEN Dual ELSE Single
RS80Difop(d, q) == SetEcho(DifopCommon(d, q), RS80Echo(q.mode))
RS80Msop(d, c, p) ==
    InternDecode(RS80, RS80.laser, d, c, p,
        IF d.echo = Single THEN SingleReturn(p.az, Use(d, RS80))
                           ELSE DualReturn(p.az, Use(d, RS80)))

\* RSP80 computes its channel times again when a packet names another model.
RSP80 == [laser |-> 80, blocks |-> 4, chans |-> 80, jump |-> 5]
RSP80Echo(mode) == IF mode \in 0 .. 2 THEN Single ELSE Dual
RSP80Difop(d, q) == SetEcho(DifopCommon(d, q), RSP80Echo(q.mode))
RSP80Msop(d, c, p) ==
    InternDecode(RSP80, RSP80.laser, d, c, p,
        IF d.echo = Single THEN SingleReturn(p.az, Use(d, RSP80))
                           ELSE DualReturn(p.az, Use(d, RSP80)))

RS48 == [laser |-> 48, blocks |-> 8, chans |-> 48, jump |-> 5]
RS48Echo(mode) == IF mode = 3 THEN Dual ELSE Single
RS48Difop(d, q) == SetEcho(DifopCommon(d, q), RS48Echo(q.mode))
RS48Msop(d, c, p) ==
    InternDecode(RS48, RS48.laser, d, c, p,
        IF d.echo = Single THEN SingleReturn(p.az, Use(d, RS48))
                           ELSE DualReturn(p.az, Use(d, RS48)))

RSP48 == [laser |-> 48, blocks |-> 8, chans |-> 48, jump |-> 5]
RSP48Echo(mode) == IF mode \in 0 .. 2 THEN Single ELSE Dual
RSP48Difop(d, q) == SetEcho(DifopCommon(d, q), RSP48Echo(q.mode))
RSP48Msop(d, c, p) ==
    InternDecode(RSP48, RSP48.laser, d, c, p,
        IF d.echo = Single THEN SingleReturn(p.az, Use(d, RSP48))
                           ELSE DualReturn(p.az, Use(d, RSP48)))

-----------------------------------------------------------------------------
\* RSAIRY and RSFAIRY learn the return mode and the number of beams from the
\* first packets.  A block holds 48 points: two blocks make a column of 96.
\* RSAIRY with 96 beams settles only once a DIFOP told how it is mounted.
RSAIRY == [laser |-> 96, blocks |-> 8, chans |-> 48, jump |-> 2]
RSAIRYEcho(mode) == IF mode = 3 THEN Dual ELSE Single
RSAIRYDifop(d, q) ==
    LET e == DifopCommon(d, q) IN
    IF q.install = "none" THEN e ELSE [e EXCEPT !.install = q.install]
RSAIRYHeader(d, p) ==
    IF d.init THEN d
    ELSE [SetEcho(d, RSAIRYEcho(p.mode)) EXCEPT
             !.lines = p.lines,
             !.init = \/ p.lines = 48
                      \/ p.lines = 96 /\ d.install \in {"normal", "side", "M"}]
RSAIRYMsop(d, c, p) ==
    LET e == RSAIRYHeader(d, p)
        u == Use(e, RSAIRY)
    IN  IF p.type # 0 THEN Refused(d, c)
        ELSE IF e.lines \notin {48, 96} THEN Refused(e, c)
        ELSE InternDecode(RSAIRY, e.lines, e, c, p,
               CASE e.lines = 48 /\ e.echo = Single -> SingleReturn(p.az, u)
                 [] e.lines = 48 /\ e.echo = Dual   -> DualReturn(p.az, u)
                 [] e.lines = 96 /\ e.echo = Single -> TwoInOne(p.az, u)
                 [] e.lines = 96 /\ e.echo = Dual   -> FourInOne(p.az, u))

\* RSFAIRY settles on its first packet.
RSFAIRY == [laser |-> 48, blocks |-> 8, chans |-> 48, jump |-> 4]
RSFAIRYEcho(mode) == IF mode = 3 THEN Dual ELSE Single
RSFAIRYDifop(d, q) == DifopCommon(d, q)
RSFAIRYMsop(d, c, p) ==
    LET e == IF d.init THEN d
             ELSE [SetEcho(d, RSFAIRYEcho(p.mode)) EXCEPT
                      !.lines = p.lines, !.init = TRUE]
        u == Use(e, RSFAIRY)
    IN  IF p.type # 0 THEN Refused(d, c)
        ELSE IF e.lines \notin {48, 96} THEN Refused(e, c)
        ELSE InternDecode(RSFAIRY, e.lines, e, c, p,
               CASE e.lines = 48 /\ e.echo = Single -> SingleReturn(p.az, u)
                 [] e.lines = 48 /\ e.echo = Dual   -> DualReturn(p.az, u)
                 [] e.lines = 96 /\ e.echo = Single -> TwoInOne(p.az, u)
                 [] e.lines = 96 /\ e.echo = Dual   -> FourInOne(p.az, u))
=============================================================================
