---------------------------- MODULE MechDecoder ----------------------------
(***************************************************************************)
(* A rotating LiDAR and its rs_driver decoder (driver/decoder).  The LiDAR *)
(* turns and sends a packet of blocks (MSOP) at a time and, now and then,  *)
(* a packet that describes it (DIFOP); packets get lost or damaged, and    *)
(* its operator may change its return mode and its speed.  The decoder     *)
(* turns the blocks into points and cuts them into clouds.                 *)
(*                                                                         *)
(* The LiDAR is not part of the repository: what it sends is what the      *)
(* decoders take for granted.  Its blocks are numbered through a round;    *)
(* Layout tells how many block turns a number of blocks makes.             *)
(***************************************************************************)
EXTENDS MechLidars

CONSTANTS
    Sensors,      \* <<LiDAR, lines>>: lines is 0 but for RSAIRY and RSFAIRY
    Configs,      \* configurations [wait, fromFile, strategy, custom]
    Fovs,         \* <<start, end>> of the visible sector
    Speeds,       \* rounds per second
    ReturnModes,  \* return_mode values
    MaxUpsets,    \* packets lost or damaged, and changes by the operator
    Window        \* bound: these happen, and DIFOPs arrive, only while the
                  \* LiDAR fires the first Window blocks of a round

Rotating == {"RS16", "RSHELIOS_16P", "RS32", "RSBP", "RSHELIOS", "RS128", "RSP128",
             "RS80", "RSP80", "RS48", "RSP48"}

ASSUME SensorsAssumption ==
    Sensors \subseteq (Rotating \X {0}) \cup ({"RSAIRY", "RSFAIRY"} \X {48, 96})
\* The unit of angle is small enough: at 1 round per second it always is.
ASSUME SpeedsAssumption ==
    /\ UnitSpeed \in Nat \ {0}
    /\ \A rps \in Speeds \cup {10} : rps \in Nat \ {0} /\ rps % UnitSpeed = 0
\* A sector whose start is its end is all around.
ASSUME FovsAssumption == Fovs \subseteq (0 .. Round - 1) \X (0 .. Round)

VARIABLES
    cfg,    \* configuration of the driver
    sensor, \* the LiDAR: model, lines, mode, rps, fov, mounting, and the
            \* block it fires next in the present turn
    dec,    \* state of the decoder
    cloud,  \* the cloud being filled
    last,   \* the last cloud handed over, in a set of at most one
    heard,  \* the last packet decoded and what the decoder made of it
    upsets

mechVars == <<cfg, sensor, dec, cloud, last, heard, upsets>>

Device(model) ==
    CASE model = "RS16" -> RS16 [] model = "RSHELIOS_16P" -> RSHELIOS_16P
      [] model = "RS32" -> RS32 [] model = "RSBP" -> RSBP
      [] model = "RSHELIOS" -> RSHELIOS [] model = "RS128" -> RS128
      [] model = "RSP128" -> RSP128 [] model = "RS80" -> RS80
      [] model = "RSP80" -> RSP80 [] model = "RS48" -> RS48
      [] model = "RSP48" -> RSP48 [] model = "RSAIRY" -> RSAIRY
      [] model = "RSFAIRY" -> RSFAIRY

Echo(model, mode) ==
    CASE model = "RS16" -> RS16Echo(mode)
      [] model = "RSHELIOS_16P" -> RSHELIOS_16PEcho(mode)
      [] model = "RS32" -> RS32Echo(mode) [] model = "RSBP" -> RSBPEcho(mode)
      [] model = "RSHELIOS" -> RSHELIOSEcho(mode)
      [] model = "RS128" -> RS128Echo(mode) [] model = "RSP128" -> RSP128Echo(mode)
      [] model = "RS80" -> RS80Echo(mode) [] model = "RSP80" -> RSP80Echo(mode)
      [] model = "RS48" -> RS48Echo(mode) [] model = "RSP48" -> RSP48Echo(mode)
      [] model = "RSAIRY" -> RSAIRYEcho(mode) [] model = "RSFAIRY" -> RSFAIRYEcho(mode)

\* createDecoder and the virtual calls: the decoder of the configured LiDAR.
DecodeDifop(model, d, q) ==
    CASE model = "RS16" -> RS16Difop(d, q)
      [] model = "RSHELIOS_16P" -> RSHELIOS_16PDifop(d, q)
      [] model = "RS32" -> RS32Difop(d, q) [] model = "RSBP" -> RSBPDifop(d, q)
      [] model = "RSHELIOS" -> RSHELIOSDifop(d, q)
      [] model = "RS128" -> RS128Difop(d, q) [] model = "RSP128" -> RSP128Difop(d, q)
      [] model = "RS80" -> RS80Difop(d, q) [] model = "RSP80" -> RSP80Difop(d, q)
      [] model = "RS48" -> RS48Difop(d, q) [] model = "RSP48" -> RSP48Difop(d, q)
      [] model = "RSAIRY" -> RSAIRYDifop(d, q) [] model = "RSFAIRY" -> RSFAIRYDifop(d, q)

DecodeMsop(model, d, c, p) ==
    CASE model = "RS16" -> RS16Msop(d, c, p)
      [] model = "RSHELIOS_16P" -> RSHELIOS_16PMsop(d, c, p)
      [] model = "RS32" -> RS32Msop(d, c, p) [] model = "RSBP" -> RSBPMsop(d, c, p)
      [] model = "RSHELIOS" -> RSHELIOSMsop(d, c, p)
      [] model = "RS128" -> RS128Msop(d, c, p) [] model = "RSP128" -> RSP128Msop(d, c, p)
      [] model = "RS80" -> RS80Msop(d, c, p) [] model = "RSP80" -> RSP80Msop(d, c, p)
      [] model = "RS48" -> RS48Msop(d, c, p) [] model = "RSP48" -> RSP48Msop(d, c, p)
      [] model = "RSAIRY" -> RSAIRYMsop(d, c, p) [] model = "RSFAIRY" -> RSFAIRYMsop(d, c, p)

IsNewFrameAlone(d, p) ==                   (* mutant: it keeps no angle of its own *)
    [new |-> \E i \in 1 .. p.good : IsSplit([d EXCEPT !.angle = d.preAngle], p.cfg, p.az[i]),
     dec |-> d]

\* isNewFrame: the pcap input asks it of every packet before it is decoded.  It
\* answers at the first split and leaves the rest of the packet aside.
AskBlock(s, p, i) ==
    IF s.new THEN s
    ELSE [d   |-> NewBlock(s.d, p.cfg, p.az[i]),
          new |-> IsSplit(s.d, p.cfg, p.az[i])]
IsNewFrame(d, p) ==
    LET seen[i \in 0 .. p.good] ==
            IF i = 0 THEN [d |-> [d EXCEPT !.angle = d.preAngle, !.blks = d.preBlks],
                           new |-> FALSE]
            ELSE AskBlock(seen[i - 1], p, i)
        end == IF p.type # 0 THEN seen[0] ELSE seen[p.good]
    IN  [new |-> end.new,
         dec |-> [d EXCEPT !.preAngle = end.d.angle, !.preBlks = end.d.blks]]

-----------------------------------------------------------------------------
\* The LiDAR.

\* Block number n of a round starts (n * num) \div den block turns into it.
Layout(s) ==
    LET dual == Echo(s.model, s.mode) = Dual
    IN  CASE s.model \in {"RS16", "RSHELIOS_16P"} ->
                 IF dual THEN [num |-> 1, den |-> 1] ELSE [num |-> 2, den |-> 1]
          [] s.lines = 96 -> IF dual THEN [num |-> 1, den |-> 4] ELSE [num |-> 1, den |-> 2]
          [] OTHER -> IF dual THEN [num |-> 1, den |-> 2] ELSE [num |-> 1, den |-> 1]

\* How wide the visible sector is, the angle from its start on to its end.
Sector(s) == ((s.fov[2] - s.fov[1] - 1) % Round) + 1

Step(s) == StepAt(s.rps)
RoundBlocks(s) == ((Sector(s) \div Step(s)) * Layout(s).den) \div Layout(s).num

\* The scale of an instance: at least two packets a round (a real LiDAR sends
\* more than thirty).
ToScale(s) == RoundBlocks(s) >= 2 * Device(s.model).blocks

\* The packet sent after n more blocks were fired unheard: at is the angle
\* turned since the start, modulo Horizon, when each block is fired.
Packet(s, n, good, type) ==
    LET blocks == Device(s.model).blocks
        layout == Layout(s)
        round == RoundBlocks(s)
        first == s.next + n
        at == SubSeq([i \in 1 .. blocks |->
                 ( (s.turn + (first + i - 1) \div round) * Round + s.fov[1]
                   + ((((first + i - 1) % round) * layout.num) \div layout.den) * Step(s)
                 ) % Horizon], 1, blocks)
        az == SubSeq([i \in 1 .. blocks |-> at[i] % Round], 1, blocks)
    IN  [ at |-> at, az |-> az, good |-> good,
          type |-> type, mode |-> s.mode, lines |-> s.lines, cfg |-> cfg ]

Turned(s, n) ==
    [s EXCEPT !.turn = (@ + (s.next + n) \div RoundBlocks(s)) % 3,
              !.next = (@ + n) % RoundBlocks(s)]

\* What the decoder believes of the LiDAR is so: the return mode, the speed,
\* the lines, and whether there is a dark sector at all.
InStep(s, d) ==
    /\ d.echo = Echo(s.model, s.mode)
    /\ d.rps = s.rps
    /\ d.blind # 0 <=> Round - Sector(s) >= Step(s)
    /\ d.lines = s.lines

-----------------------------------------------------------------------------
Nothing == [at |-> <<>>, step |-> StepAt(10), times |-> <<>>, new |-> FALSE, paced |-> FALSE, inStep |-> FALSE]

MechInit ==
    /\ cfg \in Configs
    /\ \E m \in Sensors, mode \in ReturnModes, fov \in Fovs,
          install \in {"none", "normal"} :
          sensor = [model |-> m[1], lines |-> m[2], mode |-> mode, rps |-> 10,
                    fov |-> fov, install |-> install, turn |-> 0, next |-> 0]
    /\ sensor.lines # 96 => sensor.install = "none"
    /\ ToScale(sensor)
    /\ dec = MechStart(cfg)
    /\ cloud = [EmptyCloud EXCEPT !.whole = FALSE, !.missed = TRUE]
    /\ last = {}
    /\ heard = Nothing
    /\ upsets = 0

\* processMsopPkt, after isNewFrame of the pcap input: a packet that finds the
\* decoder without beam angles is dropped.
Process(p) ==
    LET asked == IsNewFrame(dec, p)
        r == DecodeMsop(sensor.model, asked.dec, cloud, p)
        spoilt == p.good < Len(p.az)
    IN  IF dec.wait /\ ~dec.ready
        THEN /\ dec' = asked.dec
             /\ heard' = Nothing
             /\ UNCHANGED <<cloud, last>>
        ELSE /\ dec' = r.dec
             /\ cloud' = [r.cloud EXCEPT !.whole = @ /\ ~spoilt,
                                        !.missed = @ \/ spoilt]
             /\ last' = IF r.out = <<>> THEN last
                        ELSE {[cloud |-> r.out[Len(r.out)].cloud,
                               inStep |-> InStep(sensor, r.dec),
                               round |-> RoundBlocks(sensor)]}
             /\ heard' = [at |-> p.at, step |-> Step(sensor), times |-> r.times, new |-> r.new,
                          paced |-> asked.new = r.new,
                          inStep |-> ~spoilt /\ InStep(sensor, r.dec)]

\* Bounds of an instance: the turns are alike, so these happen in the second.
Early == sensor.next < Window
MayFail == upsets < MaxUpsets /\ sensor.turn = 1 /\ Early

\* The next packet, whole.
Msop ==
    LET blocks == Device(sensor.model).blocks IN
    /\ Process(Packet(sensor, 0, blocks, 0))
    /\ sensor' = Turned(sensor, blocks)
    /\ UNCHANGED <<cfg, upsets>>

\* A packet whose blocks are damaged from some block on.
DamagedMsop ==
    LET blocks == Device(sensor.model).blocks IN
    /\ MayFail
    /\ Process(Packet(sensor, 0, 1, 0))
    /\ sensor' = Turned(sensor, blocks)
    /\ upsets' = upsets + 1
    /\ UNCHANGED cfg

\* A packet without blocks, which only RSAIRY and RSFAIRY know.
OtherMsop ==
    /\ sensor.model \in {"RSAIRY", "RSFAIRY"}
    /\ MayFail
    /\ Process(Packet(sensor, 0, Device(sensor.model).blocks, 1))
    /\ upsets' = upsets + 1
    /\ UNCHANGED <<cfg, sensor>>

\* Packets that never arrive: one, or nearly a round, or a round.
Lost ==
    LET blocks == Device(sensor.model).blocks
        aRound == (RoundBlocks(sensor) + blocks - 1) \div blocks
    IN  /\ MayFail
        /\ \E n \in {1, aRound - 1, aRound} :
              sensor' = Turned(sensor, n * blocks)
        /\ cloud' = [cloud EXCEPT !.whole = FALSE, !.missed = TRUE]
        /\ upsets' = upsets + 1
        /\ UNCHANGED <<cfg, dec, last, heard>>

\* processDifopPkt: with valid beam angles or without, and with a speed of
\* zero from a LiDAR that is not turning steadily yet.
Difop ==
    \E cali \in BOOLEAN, rps \in {sensor.rps, 0} :
        LET d == DecodeDifop(sensor.model, dec,
                     [mode |-> sensor.mode, rps |-> rps, fov |-> sensor.fov,
                      cali |-> cali, install |-> sensor.install])
        IN  /\ Early
            /\ rps = 0 => MayFail
            /\ upsets' = IF rps = 0 THEN upsets + 1 ELSE upsets
            /\ d # dec
            /\ dec' = d
            /\ cloud' = [cloud EXCEPT !.whole =
                           @ /\ [d EXCEPT !.ready = dec.ready] = dec]
            /\ UNCHANGED <<cfg, sensor, last, heard>>

\* The operator sets another return mode or speed; the LiDAR starts over.
Reconfigure ==
    /\ MayFail
    /\ \E mode \in ReturnModes, rps \in Speeds :
          /\ <<mode, rps>> # <<sensor.mode, sensor.rps>>
          /\ sensor' = [sensor EXCEPT !.mode = mode, !.rps = rps,
                                      !.turn = (@ + 1) % 3, !.next = 0]
    /\ ToScale(sensor')
    /\ cloud' = [cloud EXCEPT !.whole = FALSE, !.missed = TRUE]
    /\ upsets' = upsets + 1
    /\ UNCHANGED <<cfg, dec, last, heard>>

MechNext == \/ Msop \/ DamagedMsop \/ OtherMsop \/ Lost \/ Difop \/ Reconfigure

MechSpec == MechInit /\ [][MechNext]_mechVars

-----------------------------------------------------------------------------
TypeOK ==
    /\ dec.echo \in {Single, Dual} /\ dec.rps \in Speeds \cup {10}
    /\ dec.perFrame \in 1 .. Round /\ dec.split \in 1 .. 2 * Round
    /\ dec.angle \in 0 .. Round - 1 /\ dec.blks \in 0 .. 2 * Round
    /\ dec.lines \in {0, 48, 96}
    /\ cloud.rounds \subseteq 0 .. 2 /\ cloud.blks \in Nat
    /\ sensor.next \in 0 .. RoundBlocks(sensor) - 1

\* Split by angle, a cloud never mixes two rounds, whatever packets are lost,
\* unless the LiDAR turned unheard for a whole round, or further than from the
\* split angle to the zero angle (SplitStrategyByAngle, the decoders' newBlock).
Far(c) == c.gap >= Round \/ c.gap > Round - SplitAngle
OneRoundPerCloud ==
    cfg.strategy = "angle" =>
        \A c \in {cloud} \cup {l.cloud : l \in last} :
            Far(c) \/ \E r \in 0 .. 2 : c.rounds \subseteq {r}

\* With nothing lost in between, a cloud holds exactly one round: split by
\* angle for every LiDAR; split by a fixed number of blocks for those whose
\* DIFOP sets split_blks_per_frame_, when they see all around.
CountedLidars == {"RS32", "RSBP", "RSHELIOS", "RS128", "RSP128", "RS80",
                  "RSP80", "RS48", "RSP48"}
WholeCloudIsOneRound ==
    \A l \in last :
        l.cloud.whole /\ l.inStep /\
        (\/ cfg.strategy = "angle"
         \/ /\ cfg.strategy = "fixed" /\ sensor.model \in CountedLidars
            /\ Sector(sensor) = Round)
        => l.cloud.blks = l.round

\* The times the iterators give the blocks follow the angle the LiDAR turned:
\* blocks fired together have one time, later ones a later time, and across
\* the dark sector a packet's times lag by no more than one firing.
TimesFollowAngles ==
    heard.inStep =>
        \A i, j \in DOMAIN heard.times : i < j =>
            LET turned == ((heard.at[j] - heard.at[i]) % Horizon) \div heard.step
                passed == heard.times[j].ts - heard.times[i].ts
            IN  /\ turned = 0 <=> passed = 0
                /\ turned - passed \in 0 .. 2

\* The playback of a recording pauses once a frame: isNewFrame says of a packet
\* just what decoding it then does, when splitting by angle, not dropping
\* packets until a DIFOP arrives, in a recording that misses none.
PacedWithClouds ==
    [][cfg.strategy = "angle" /\ ~dec.wait /\ upsets' = 0 /\ heard'.at # <<>> => heard'.paced]_mechVars
=============================================================================
