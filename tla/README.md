# Specifications of the LiDAR obstacle pipeline

TLA+ specifications of `lidar_low_detection`: a program that receives RoboSense LiDAR packets,
builds point clouds, clusters obstacles, keeps those on the drivable area of an HD map, tracks
them with identifiers, and shows them in a viewer or sends them on. Paths below are relative to
the repository.

Run a specification with `tlc -config <name>.cfg <Module>.tla` (section 3 names the module of each
configuration); check the proofs with `tlapm <Module>Proofs.tla`. `PROJECT.json` maps every
definition to the lines it stands for and lists the runs, the hazards and the theorems.

## 1. The system

```
 socket / pcap file                                       localization (Comm_* callback, or
        |                                                  PcapLocalizationFeed's thread)
   receive thread --pkt_queue_--> handle thread                      |
   (Input::recvPacket)            (processPacket, decoder)           v
        ^---- free_pkt_queue_ ----'        |                LocalizationManager (mutex)
                                   splitFrame callback               | getPose
                                           v                         v
                                 stuffed_cloud_queue ----> worker: ProcessPcapCloud
                                                           cluster -> map filter -> tracker
                                                              |             |
                                             pcap mode: VisFrameBuffer   online mode: UDP message
                                                              v
                                                     main: viewer loop     signal thread
```

| Component | State | Operations | What makes it correct |
|---|---|---|---|
| `LidarDriverImpl` + `SyncQueue` (`driver/rs_driver/driver`, `utility`) | two packet queues, the current cloud, exit flags, start flag | `init`, `start`, `stop`, `packetGet`, `packetPut`, `processPacket`, `splitFrame` | no buffer in two hands, points in order of arrival, loss only through overflow, no lost wake-up, `stop` ends |
| Inputs (`driver/input`) | descriptors or file, exit flag, thread, a datagram being put together | `init`, `start`, `recvPacket`, `new_fragment`, `feedPacket`, `stop`, destructor | no datagram ends them, they serve every port, push whole datagrams, close what they opened |
| Decoders (`driver/decoder`) | previous azimuth or sequence number, block count, beam angles ready, echo mode, the cloud | `processMsopPkt`, `processDifopPkt`, `isNewFrame`, split strategies, block iterators | every frame is closed once, at its boundary; the times of points follow the turning |
| `SutengDriver` (`include/SuTengDriver.cpp`) | threads, `m_running`, clouds, cloud queues, map state | `Start`, `ProcessPcapCloud`, `Stop`, `Free`, destructor | everything started is ended, in whatever order start-up and `Stop` run |
| `LocalizationManager` (`mapfilter`) | latest pose, receive time, `enable_` | `configure`, `onDataReceived`, `getPose` | no pose used that is too old |
| `HDMapManager`, `HDMapFilter`, `read_hdmap` | the map | lane and section lookup, polygons, `filterClusters` | obstacles on the road reach the tracker, others do not |
| `SimpleTracker` (`include/track.cpp`) | `vtrackings`, `nextTrackID` | `update` and its two exits, `removeLostTargets` | an obstacle keeps its id, ids are not shared |
| `VisFrameBuffer` and the viewer loop | `has_new_`, tracks, two cloud pointers | `Publish`, `Consume`, draw | frames are shown forward, the newest is shown |
| `PcapLocalizationFeed` | thread, running flag | `start`, `stop`, `threadLoop` | it ends before the library is closed |
| `main` (`src/main.cpp`) | `TerminateFlag`, signal thread | start-up, loop, closing sequence | a signal ends the process |
| `ElevationMapGroundFilter` (`include`) | the grid of one call | `BuildGrid`, `RegionGrowing`, `ComputeGroundReference`, `AnalyzeVerticalOccupancy`, `ClusterObstacleGrid` | the ground is what can be driven to, obstacles on it are found, one obstacle is one cluster |
| `LeiShenDrive` (`include/LeiShenDriver.cpp`) | threads, two descriptors, `m_running` | `Init`, `Start`, `Stop`, `Free`, destructor | `Stop` returns, no queue shared without its lock |
| `ls_driver` (`ls_driver/Include`) | the lists of points, the mark or window of the class | `LidarRun`, `handleSingleEcho`, `handleDoubleEcho`, `sendLidarData` | a cloud is one whole round |
| `DebugViewer`, configuration readers, `messageDeal` and its queues, curb and curve fitting, geodesy tools, UDP | | | not modelled, see section 7 |

What is hard about it:

- **Threads.** A receive and a handle thread per LiDAR, the start-up thread of
  `SutengDriver::Start`, the worker, the feed, the signal thread, callbacks of the communication
  library, and main. They share queues with their own locks, plain `bool` flags without one, and
  two point clouds behind `shared_ptr`s.
- **Order.** `Stop` can overtake the start-up thread; `SyncQueue::push` notifies after it
  unlocked; `packetPut` clears the queue in a second critical section; `Consume` tests before it
  locks; a pose arrives between the capture of a frame and its use.
- **Time.** Poses age, `popWait` has timeouts, tracks die after missed frames.
- **Numbers.** Track ids start over at 9999, packet numbers with every frame, azimuths with every
  round; some counters begin at a value that also means "nothing yet".
- **The network.** Datagrams are lost, repeated, overtaken, damaged or split into fragments.
- **Partial failure.** No pose, no map, no section, `init` that fails, `pthread_create` that fails,
  the second of three sockets that cannot be bound.

`PROJECT.json` lists each hazard at its line, with the properties that watch it.

## 2. Modules

| Module | Models | State and actions |
|---|---|---|
| `TrackIds` | what `SimpleTracker` promises about ids | `ids` is `vtrackings` reduced to ids, indexed by creation number; one action `IdFrame(kept, n)` is one call of `update`: it removes, appends n tracks, may start the counter over |
| `Tracker` | `SimpleTracker::update` | `tracks` is `vtrackings`; `UpdateEmpty` is the exit without detections, `UpdateFrame` the rest: greedy matching in vector order (`IsGreedyMatch`), `Matched` / `Unmatched`, `NewTrack`, `RemoveLost`, `WrapIds` |
| `RoadGate` | localization callback, pose, HD-map filter, the conversion before the tracker | `loc` is `LocalizationManager`; `TakeFrame`, `Locate`, `Filter` are the three places of the worker between which a callback can run; `Configure` and `Capture` are main and the LiDAR driver |
| `LidarDriver` | `LidarDriverImpl`, `SyncQueue`, the inputs' receive loop | `recv` and `handle` are the two threads at the places where the other can see a difference: `Push`, `Notify`, `CheckOverflow` are one `packetPut`; `HandleLoop`, `Woken`, `Timeout` one `popWait`; `Decode`, `Recycle` one `internalProcessPacket`; `StopInput`, `StopHandle`, `Stopped` one `stop` |
| `SutengDriver` | the process: main, signal thread, start-up thread, worker, feed, `VisFrameBuffer` | `main`, `starter`, `worker` are places in the code; one action per step another thread can observe |
| `Inputs` | `InputSock` (select, epoll), `InputPcap`, `InputPcapJumbo`, `InputRaw` | `kind` says which; `fds`, `open`, `pcap` are descriptors and file; `Top`, `Select` or `Epoll`, `Read` are one turn of `recvPacket`, `PcapRecord` and `JumboRecord` of the others; `Fragment` is `Jumbo::new_fragment`; `InitSock`, `InitPcap`, `Start`, `StopFlag`, `StopJoin`, `Destroy` are the driver's calls |
| `SplitStrategy` | `split_strategy.hpp` | operators, one per call: `AngleSplit`, `NumSplit`, `SeqSplit` say whether to cut, `NumCount`, `SeqNext` give the next state |
| `MechBlocks` | `block_iterator.hpp` | operators: what each iterator makes of the azimuths of a packet |
| `MechLidars` | the thirteen decoders of rotating LiDARs, `decoder_mech.hpp` | a table and three operators per class (`RS32`, `RS32Echo`, `RS32Difop`, `RS32Msop`) |
| `MechDecoder` | a rotating LiDAR, its packets, and the decoder | `dec` is the decoder's state, `cloud` the cloud being filled; `AskBlock` is the loop of `isNewFrame`, `DecodeBlock` (`MechLidars`) that of `decodeMsopPkt`; `Msop`, `DamagedMsop`, `OtherMsop`, `Difop` are packets processed, `Lost` and `Reconfigure` the world |
| `MemsLidars`, `MemsDecoder` | the eight decoders of LiDARs without a rotating part, and their packets | the same way; `Repeat`, `Hold`, `Late`, `Lose`, `Refuse` are what happens to packets |
| `LsLidars`, `LsDecoders` | the classes of `ls_driver`, and a LiDAR that turns and sends | `C16_v4_0Run`, `C16_v4_0Single`, `C16_v4_0Double`, ... are `LidarRun`, `handleSingleEcho`, `handleDoubleEcho`; `MarkEntry` and `LS128Entry` are the loops over the points of a packet; `Handed` and `Cleared` are `sendLidarData`; `Heard`, `Told`, `Lose` are packets |
| `LeiShen` | `LeiShenDrive` with its five threads | `owner` is who calls `Init`, `Start`, `Stop` and the destructor; `pc`, `decoder`, `drv` are places of the other threads; `StopData` and `StopDev` are the statements of `Stop` one by one |
| `GroundFilter` | `ElevationMapGroundFilter::ProcessWithObstacleDetection` | one behaviour is one call; `RegionGrowing` and `GrowCluster` are one wave of the two queues, `AnalyzeVerticalOccupancy` the step between them |
| `MCRoadGate`, `MCMechDecoder`, `MCLsDecoders`, `MCGroundFilter` | instances for TLC | maps, LiDARs and clouds, and what a comment promises and the code does not do |
| `TrackIdsProofs`, `TrackerProofs`, `LidarDriverProofs`, `SutengDriverProofs`, `LsDecoderProofs` | | theorems of the modules they are named after |
| `FilterProofs` | | theorems of `RoadGate` and `GroundFilter` |
| `ReceivingProofs` | | theorems of `Inputs` and `MechDecoder` |
| `DecoderProofs` | | theorems of `MemsDecoder` and `LeiShen` |

How they fit together. `Inputs` ends where `LidarDriver` begins: a packet pushed is a packet
received. `MechDecoder` and `MemsDecoder` are what `LidarDriver` abstracts to four kinds of packet:
they say where a packet splits the frame, `LidarDriver` what the threads make of it. `SutengDriver`
takes `LidarDriver` as a thing that publishes clouds once started and does not after a `stop` that
reached it; `StopEnds` of `LidarDriver` is why `StopDriver` may be one step there. `GroundFilter`
makes of a cloud the clusters that `RoadGate` filters, and `RoadGate` ends where `Tracker` begins:
its `gate.kept` are the detections of a frame. `Tracker` implements `TrackIds`
(`ImplementsTrackIds`, a refinement mapping that forgets everything but ids). `LeiShen` and
`LsDecoders` divide the other driver the same way: threads in one, packets in the other.

Abstractions worth knowing:

- *Creation numbers* (`Tracker`, `TrackIds`). The vector is a function over the number of the
  track, in the order of creation. `push_back` and a stable `remove_if` keep the vector in that
  order, so "earlier in the vector" is "smaller number". `created`, `lapStart` and the fields
  `lap`, `obj`, `steady` are history that the code does not store and no guard reads, except that
  `created` is capped by `MaxCreated`.
- *Positions* are integers on a line in `Tracker` (the distance in the code is Euclidean, with the
  same comparisons) and cells of a grid in `RoadGate`, with constant heading. Frames of `Tracker`
  are one time unit apart.
- *A packet* in `LidarDriver` is a number, a session and one of four kinds: adds points, starts a
  frame, has the boundary in its middle, is not decoded. The IMU queue is idle: no IMU callback is
  registered.
- *A cloud* in `SutengDriver` is the number of the frame that filled it, 0 when cleared; in the
  decoders it is how many blocks or points it has and of which rounds or frames, counted modulo 3.
  `sendUdpMsg` and drawing of boxes are left out.
- `free_cloud_queue` of `SutengDriver` is never refilled, so each cloud the driver asks for is a
  new one; the model therefore has no cloud pool.
- *Angles* of the decoders are whole units: one in `MechDecoder` is what a LiDAR turns during a
  block at `UnitSpeed` rounds per second, and the time of a block is the unit of time. So every
  speed must be a multiple of `UnitSpeed`; the code keeps whole rounds per second, and with
  `UnitSpeed = 1` all of them are. A visible sector may lie across the zero angle, and one whose start is
  its end is all around (`FovRange` is what the decoder makes of it, `Sector` what the LiDAR does). The tables of
  `MechLidars` keep what control depends on: blocks per packet, iterator, and whether a packet
  overrides the number of blocks of a frame.
- *Lengths* of `GroundFilter` are millimetres, slopes thousandths; the code computes them as `float`.
  The order within a wave of a queue is left out, since nothing the waves label depends on it; that
  is also what `GroundIsReachable` and `ClustersAreComponents` say of the result.
- `TypeOK` of `RoadGate`, `LidarDriver`, `SutengDriver`, `MechDecoder` and `MemsDecoder` documents
  the variables and holds with the bounds of their runs; the runs themselves check only what says
  more. `TypeOK` of `Tracker`, `LidarDriver` and `SutengDriver` and `GroundTypeOK` of `GroundFilter`
  are proved.

## 3. Runs

| Run | Module | Properties | What it shows |
|---|---|---|---|
| `track_ids` | `TrackIds` | `IdInv` | the inductive invariant of the proof, which implies the distance between two uses of an id (`ReuseDistance`) |
| `tracker` | `Tracker` | `IdReuseDistance`, `ImplementsTrackIds`, `LostWindow`, `StandingObstacleKeepsId`, `NoDoubledObstacle`, `SteadyTracksContinue` | `update` refines `TrackIds` over two laps of ids; `lastSeen` starts again only for a detection the track alone took, and tracks end exactly after `MaxLost + 1` misses on either exit; a new track appears only where no old one could continue; standing obstacles, and moving ones while nothing is missed, keep their ids |
| `gate` | `MCRoadGate` | `OnRoadKept`, `OffRoadDropped`, `PoseNotOld`, `OverlayMatchesPose` | the error of the filter is bounded by the error of the pose, in both directions; the pose read is not older than the timeout; the polygons on the screen belong to the pose |
| `gate_degraded` | `MCRoadGate` | `DegradedKeepsAll` | a statement of a comment the code does not keep (section 6) |
| `driver` | `LidarDriver` | `BuffersNotShared`, `PointsInOrder`, `NoSilentLoss`, `QueueBounded`, `NoLostWakeup`, `StopEnds` | the packet queues over overflow, splits, timeouts, `stop` and restart |
| `life` | `SutengDriver` | `NoThreadLeft`, `WorkerQuietAfterLog`, `ShownForward`, `NewestShown`, `SignalEnds` | start to exit in each mode, with `Stop` overtaking start-up, signals at any moment, and the viewer racing the worker |
| `inputs` | `Inputs` | `KeepsReceiving`, `ClosesItsOwn`, `Reassembled`, `EveryPortServed` | sockets that fail to open, waits that fail, datagrams discarded after `select`, fragments lost, repeated and out of order, stop and start at any moment |
| `mech` | `MCMechDecoder` | `OneRoundPerCloud`, `WholeCloudIsOneRound`, `TimesFollowAngles`, `PacedWithClouds` | rotating LiDARs at three speeds and with three visible sectors: which round the points of a cloud are from, what times they carry, and that the playback of a recording pauses where clouds end |
| `mems` | `MemsDecoder` | `OneSplitPerFrame`, `WholeFrames` | the others: frames are cut where they begin, with packets lost, late and repeated from the first frame on, but for one packet of RSEM4 and RSEMX and the first frames of RSM1 (section 5) |
| `leishen` | `MCLsDecoders` | `WindowClouds`, `MarkClouds` | the LiDARs of `ls_driver`, those that cut at a window (and M10) and those that cut at a mark: clouds of one round, and of the whole round when nothing was lost; C16_v3_0 with one return at 20 Hz is off by less than a packet (section 5) |
| `leishen_life` | `LeiShen` | `QueueToItself`, `StopReturns` | `Stop` and the destructor against threads opening, blocked on and closing their sockets |
| `ground` | `MCGroundFilter` | `GroundIsReachable`, `ClustersAreComponents`, `StandingIsFound` | what becomes ground, candidate and cluster on level, rising, stepped and rough ground |

Each property has a mutant: an operator beside the definition it replaces, marked `mutant:`, that
changes the code the way a plausible bug would. No action uses them.

### Bounds

- `track_ids`, `tracker`: `FirstId = 1`, `ResetAbove = 2`, so a lap has two ids instead of 40002:
  `MaxCreated = 6` covers three laps, and `MaxCreated = 4` in `tracker` two; `MaxLost = 1` instead
  of 10, so that misses of one and of two frames differ; two obstacles on `0..7`,
  `Separation = 5`, `MaxStep = 1`, `MatchThreshold = 3`: each obstacle has room to move two cells
  one way. Two obstacles are enough for a track to take another's detection. With
  these numbers a prediction is off by at most 2, below the threshold, and a foreign obstacle is
  farther than that: the assumption under which the stability properties are meant. The code's
  threshold and the speeds on a road have the same relation.
- `gate`: a road of three sections two lanes wide and nine cells long, `Near = Expand = Timeout = 1`,
  clusters ahead, behind and beside it, one queued frame, which is enough for a pose to be newer
  than a frame by several cells. `loc.age` counts to `Timeout + 1` and stays.
- `driver`: `PoolMax = CloudMax = 1`: overflow and the clearing of an overlong cloud take two
  packets; three packets over two sessions leave one for after a restart. Buffers are numbered
  `1..PoolMax + 3`, the most that can be in use (`QueueBounded`).
- `life`: three frames: one skipped in the first iteration, one shown, one overtaking it.
- `inputs`: two datagrams waiting per port, one port to three; jumbo packets of three fragments and
  four fragments on their way, so that two datagrams interleave; three starts, failed waits, losses,
  repeats or discards between them. A datagram's identification is its number; that the code takes an
  identification of 0 for "none" cannot matter then, and is named in section 6.
- `mech`: a revolution of 96 units, the split at 2, `UnitSpeed = 5`, and speeds of 5, 10 and 20 rounds
  per second, so that a block is one, two or four units wide. The visible sector is all around, from 20
  to 84, or across the zero angle from 94 to 62. A packet has the
  blocks the LiDAR's packets have, hence from two to some sixty packets a round.
  Faults happen in the second round, at any of its first three blocks, where the zero angle and the
  split angle are; losses are of one packet, of nearly a round and of a round.
  Three configurations: split by angle waiting for the DIFOP in a playback, by a fixed number
  without waiting, by a configured number. Eight of the thirteen LiDARs stand for all (`SomeSensors`):
  but for the numbers of beams and blocks the definitions of the others read like theirs, and the theorems of section 4 cover them;
  `TimesFollowAngles` is checked for these eight only.
- `mems`: 20 packets a frame with a safe range of 3 instead of 10 in about 630: several ranges fit in
  a frame, and two faults, of up to two packets each, stay below the range. Starts at the first and
  at the sixth packet of a frame; faults begin with the first packet, so that the first frame can lack any
  of its packets, its last ones included.
- `leishen`: a circle of 120 units; a cloud may end after 17 blocks instead of 100, with windows of 9
  and 17 units, in the proportion to a packet that `MCLsDecoders` gives. Five rounds from four
  starting angles, at both speeds, with one lost packet in the second round. A packet of C16_v3_0 with
  one return at 20 Hz is 16 units wide and does not fit into its window of 9 (8.6 degrees and 5). Lists are counted to 1000 points, more than
  any holds.
- `leishen_life`: descriptors 3 and 4, the fewest two sockets can have, so that a closed number is
  given out again at once; one packet.
- `ground`: three rows of five one-metre cells, ground grown from the first three columns, four
  profiles of bare ground, up to two odd cells holding nothing, a low obstacle, a floating one, a
  post or a person. Three rows make a column have a median; two columns beyond the seeds let ground
  be reached around an obstacle, straight and over a diagonal.

`CHECK_DEADLOCK FALSE` where the system really stops: in `driver` the sessions are used up, in
`life` and `leishen_life` the process or object is gone, in `inputs` the input is destroyed or the
file has ended, in `leishen` the rounds are over, in `ground` the call has returned.

### Fairness

- `LidarDriver`: the receive thread goes on when it is told to exit or is inside `packetPut`
  (`RecvExit` when `toExitRecv`, `Push`, `Notify`, `CheckOverflow`), the handle thread goes on
  because its wait has a timeout of 500 ms, and a caller inside `stop` goes on. Nothing forces a
  packet, a start or a stop.
- `SutengDriver`: the start-up thread, the worker (its `popWait` has a timeout), main, the signal
  thread once there is a signal, and the feed, which tests its flag after every packet and ends
  with its file. Nothing forces a signal, a cloud or the closing of the window. `CloseWindow` is
  left out of main's fairness for that reason.
- `Inputs`: the receive thread is scheduled (its `select` has a timeout of one second), and a `stop`
  that waits for it goes on. Nothing forces a datagram or a call of the driver.
- `LeiShen`: each of the five threads is scheduled by itself; a thread blocked in `recvfrom` is not
  runnable, and nothing forces a packet to arrive. The owner goes on once it is inside `Stop` or
  the destructor; nothing forces it to call them.
- `Tracker`, `RoadGate`, `TrackIds`, the decoders, `GroundFilter`: no fairness, only safety is stated.

## 4. Proofs

Each proof module extends the module it speaks about; the assumptions are the `ASSUME`s of that
module, which say that bounds are numbers and little more. The constants stay arbitrary.

### Tracks and ids

`TrackIdsProofs` proves about `TrackIds`, for every `FirstId <= ResetAbove` and every number of
tracks (`IdAssumption` is the only assumption):

- `IdInvariance`: `IdSpec => []IdInv`;
- `IdReuse`: `IdSpec => []ReuseDistance`: two live tracks share an id only above
  `ResetAbove`, and only when created more than `ResetAbove - FirstId + 1` tracks apart, 40002 in
  the code.

`ReuseDistance` is not inductive. It speaks of two live ids only, while a violation would be
prepared when the counter starts over. `IdInv` adds what the counter knows: an id is fixed by the
creation number within its *lap*, a stretch of creations between two resets (`IdOfCreation`); the
counter continues the current lap (`CounterOfLap`); laps do not overlap, and what is left alive of
a finished lap has ids above `ResetAbove` (`LapsApart`). The last part is where the test of the
smallest live id is used, and it is what makes the distance longer than a lap: the older of two
tracks with one id comes from a lap that got past `ResetAbove` before the counter started over.
`FrameRecords` says what one call of `update` does to the record of
each live track, `IdFrameInv` that it preserves the four conjuncts.

`TrackerProofs` proves about `Tracker`, from `TrackerAssumption` (the bounds are natural numbers and
`FirstId <= ResetAbove`), for every set of objects, world, threshold and `MaxLost`:

- `TypeCorrect`: `Spec => []TypeOK`. `TypeOK` is inductive because `removeLostTargets` is part of
  every frame: it is what keeps `lastSeen` within `MaxLost`.
- `Implementation`: `Spec => ImplementsTrackIds`. Initial states map to initial states, and a frame,
  of either kind, is one `IdFrame` whose `kept` are the live tracks that were not appended.
- `ReuseOfIds`: `Spec => []IdReuseDistance`, from `Implementation` and `IdReuse`.
- `RemovalInTime`: `Spec => LostWindow`, from what the greedy match leaves of a frame (`UpdateLost`,
  `EmptyLost`): who got a detection has it alone, who got none found all within reach taken.
- `NoDoubling`: `Spec => NoDoubledObstacle`, from the definition of the greedy match.

All but `RemovalInTime` rest on `StepRecords`: a frame appends some n tracks (`RecordsAfter`), and the counter goes on
or starts over (`CounterAfter`). `UpdateRecords` and `EmptyRecords` prove it for the two exits of
`update`, from lemmas about what each helper makes of one record (`MatchedRecord`, ...).

Two theorems relate tracks to obstacles and need the obstacles apart: `ApartAt(step)` says that two
steps stay below `MatchThreshold`, and that `Separation` is at least the threshold and two steps.
It is an assumption about the surroundings, not about the program, and the constants of `tracker`
satisfy it (2 < 3 and 3 + 2 <= 5).

- `StandingIdsKept`: `ApartAt(0)` implies `Spec => []StandingObstacleKeepsId`;
- `SteadyContinue`: `ApartAt(MaxStep)` implies `Spec => SteadyTracksContinue`.

Both come from `TrackedInvariant`: while the obstacles are apart for their speed, no two tracks
whose place is *sure* (matched in every frame so far, or of a standing obstacle) have one obstacle,
each stands exactly at the last place of it, and its velocity is at most the obstacles' speed. So
each is predicted within two steps, hence within the threshold, of its next detection (`OwnIsNear`);
of standing obstacles the invariant adds that a detected one has `lastSeen = 0`. The step needs the greedy match as a
whole, not one pair of it: all sure tracks take their own detections (`AllTakeTheirOwn`), because
each detection is nearer than the threshold to one of them only. What a frame then makes of a track
is one of three things (`FrameOutcome`: it follows, misses or appears).

### The pose and the map

`FilterProofs`, for every map, timeout, margin and length of drive: `PoseFresh`
(`[]PoseNotOld`), `OverlayCurrent` (`[]OverlayMatchesPose`) and `NothingOffRoad`
(`[]OffRoadDropped`); and for every map that is `MapJoined`, `RoadKept` (`[]OnRoadKept`). The invariant `GateInv` follows the pose through its copies: the position
stored is at most one cell back for each tick of its age (`Stored`), a valid pose was read from such
a position (`Read`), the polygons were built around it (`Drawn`), and what was kept was labelled
with the pose that is still there (`Gated`). None is inductive alone: `Read` needs `Stored` at
`Locate`, `Gated` needs `Drawn` at `Filter`. `NothingOffRoad` adds the triangle inequality of the
grid distance.

`RoadKept` cannot hold for every map: `CurrentSection` takes the first near lane of the file, and a
section that is not joined to that lane's has no polygon. `MapJoined` states what the map must be
like, at each position and for each near lane, without naming any state: road within the margin of a
place that is seen is road of that lane's section or of those it leads to or from. TLC evaluates it
for the map of the runs (`RoadIsJoined` in `MCRoadGate`). The proof is then that the pose, off by no
more than the margin, moves a cluster by no more than the margin (`MovedBySkew`), and that the lane
the lookup chose is one of the near ones (`MinOfNaturals`).

### The two threads of the driver

`LidarDriverProofs`, for every `PoolMax`, number of packets and sessions: `QueueIsBounded`
(`[]QueueBounded`) and `WakeupNotLost` (`[]NoLostWakeup`). `DriverInv` counts: no thread runs that
was not started (`Joined`), a thread holds a buffer only between taking and giving it (`Owns`),
between `push` and `clear` the queue is no longer than `push` saw it (`Measured`), and all buffers
together are at most `PoolMax + 2` unless one is being made (`Counted`), because one is made only
when the pool is empty. `Holds` says that everything in the queues is a buffer of some set, which
is enough for the sequence lemmas.

- `BuffersAreApart` (`[]BuffersNotShared`). `SharingInv` has every buffer in one place: pool, queue
  or the hands of one thread, pair by pair. The step that can break it is `packetGet` with an empty
  pool, which makes a new buffer. The model's `PoolMax + 3` buffers suffice for it because of
  `Counted`: those in use are fewer, so one is left (`BufferLeft`, by counting).
- `PointsAreInOrder` (`[]PointsInOrder`) and `LossIsOverflow` (`[]NoSilentLoss`). `PacketsInv`
  follows the numbers of the packets: they rise along the queue, the one being decoded is before
  and the one just received after all of them (`NumbersRise`); what was published, then the current
  cloud, is in order and lies before every packet still pending (`FramesSorted`); without overflow
  what is decoded and what is pending is everything received (`Accounted`). The order survives the
  unguarded `clear` because dropping packets keeps a rising sequence rising. `PacketsInv` needs
  `SharingInv`: a packet received into a buffer that is queued would change its number there.
- `DriverTypes`: `Spec => []TypeOK`.

### The threads of the program

`SutengDriverProofs`, for any number of frames: `NoneLeft` (`[]NoThreadLeft`), `QuietAfterLog`
(`[]WorkerQuietAfterLog`) and `ForwardOnly` (`[]ShownForward`). `LifeInv` follows the shutdown: what
the start-up thread has made by when (`Making`), that a running worker can be joined (`Joinable`),
and what each pass through `Stop` leaves. The first pass may come before the worker and
the driver exist; but it ends with the start-up thread joined, so the second pass, that of the
destructor, finds all of it (`Passes`). A worker made after the first pass looked for it reads
`m_running` as reset and ends at its first test (`Silenced`), which is why the log can be closed.
`FramesInv` says that numbers rise from the driver's queue to the worker to the buffer to what was
shown (`InOrder`, `Newer`, `Fresh`): `Consume` may find a newer frame than the one it was told of, never an
older one.

### The inputs

`ReceivingProofs`, for every size of datagram and number of starts: `ReceivingKept`
(`[]KeepsReceiving`: only a stop, the end of a recording or a failed wait ends the thread), `DescriptorsClosed` (`[]ClosesItsOwn`) and `JumboReassembled`
(`[]Reassembled`). `InputInv` ties each descriptor to the field it is remembered in, from `init` to
the destructor (`Descriptors`), and the thread to the flags (`ThreadShape`, `Joined`). `JumboInv`
says that what is collected is a beginning of one datagram (`Collected`), which `new_fragment`
keeps for any fragment on its way (`FragmentKeeps`): it appends the next one, starts anew with a
first one, or leaves the collection alone.

### The ground filter

`FilterProofs`, for every grid, cloud and threshold: `GroundReachable`
(`[]GroundIsReachable`), `ClustersExact` (`[]ClustersAreComponents`) and `TypeCorrect`. The
invariant is that of a flood fill, twice: what was reached is closed but for the queue, and is
inside every closed set that holds the start (`Growth`, `Collecting`); what was collected before
are whole components (`Collected`). That two components with a common cell are equal
(`ComponentsDisjoint`) and that neighbours are symmetric (`NeighboursSymmetric`) are the lemmas
behind it.

`StandingFound` (`[]StandingIsFound`) takes one assumption more of the clouds, that a cell holds
finitely many points. Most of a column at one height puts that height in the middle, whatever the
rest is (`MajorityIsMiddle`, by counting what is below and what is not above); columns without ground
are filled between columns at that height, and the mean of three is that height again
(`FilledOfLevel`, `ReferenceOfLevel`). That the least and the greatest height of a cell exist is
proved from the well-foundedness of the strict subset order (`FirstOfFinite`): the least finite set
without a first element would not be the least.

### The decoders without a rotating part

`DecoderProofs`, for every safe range, length of a frame, number of frames and number of faults:
`FramesAreSplit` (`[]OneSplitPerFrame`), `FramesAreWhole` (`[]WholeFrames`) and the invariant they
come from, `MemsInvariant` (`[]MemsInv`). The assumptions are that a frame is longer than three
safe ranges (`PacketsAssumption`; 630 packets and 10 in the code), that frames are counted modulo
more than two (`FramesAssumption`), and that a frame is a whole number of jumbo packets and of
columns (`LidarsAssumption`).

`MemsInv` counts backwards from the next packet: the newest packet heard is the n-th before it for
some n within the burst just missed, and the strategy keeps its number (`SingleInv`, `Newest`). One
exception made the invariant hard to find (`Misled`): LiDARs that count from zero give the strategy a number that also means
"nothing heard yet", so that a late packet right behind it is kept in its place. From `SingleInv` a
packet that is heard is one of few: in order, after a burst, late, repeated, each before or behind
the boundary of a frame; `SeqSplit` cuts in exactly those that are behind it for the first time, but for the packet after a
misled one, which `OneSplitPerFrame` leaves out.
`ScanInv` ties what the cloud holds to the place of that packet, which is what makes a clean cloud a
whole frame. A jumbo packet holds several numbers in a row, of which one at most is the boundary
(`JumboInv`, and a well-founded induction over the packets in it).

### The rotating LiDARs

`ReceivingProofs`, for every rotating LiDAR of the tables, speed of whole rounds per second, visible
sector (also all around and across the zero angle), split angle, strategy and course of losses, damage and DIFOPs (`SensorsAssumption`, `SpeedsAssumption`,
`FovsAssumption`, `SplitAngleAssumption`):

- `CloudsAreOfOneRound` (`[]OneRoundPerCloud`), from `MechInvariant`. `MechInv` says that the cloud's
  last block was fired at the angle the strategy remembers and, unless the LiDAR turned a whole round
  unheard, that all its blocks are of the round of that place (`Following`). Between that block and
  the next one heard the LiDAR passed the split angle or it did not (`AngleSplit` decides which, from
  two angles); if not, the next block is of the same round.
- `WholeCloudsAreRounds` (`[]WholeCloudIsOneRound`), from `CountInvariant`. The angles of a round rise
  up to the one place where they fall, wherever the visible sector begins (`IsSweep`), so just one block of a round is a split (`OneCut`); a cloud
  that misses nothing holds exactly the blocks since it (`SinceCut`), or, split by number, as many as
  the decoder counted (`SinceCount`), against the number the DIFOP gave it (`Settled`). When the next
  split comes this is the number of blocks of a round.
- `PlaybackIsPaced` (`PacedWithClouds`). `isNewFrame` stops at the first split of a packet, decoding
  goes on behind it, so that the two angles they keep differ. `PaceInv` says how: they are the same,
  or that of `isNewFrame` is left at the split, and from there no block but the split itself looks
  like one (`Level`). So both find the split in the same packets.

What a packet does is a function over its blocks. That the function exists and keeps the invariant
from block to block is proved for packets of any number of blocks, by taking the least number for which it
would not (`AsksExist`, `AsksDone` and their like).

### The marks of ls_driver

`LsDecoderProofs`, for every CH LiDAR and LS128, both echo modes, every place to start at and number
of packets lost (`StartsAssumption`; `PointsAssumption` says that the model's count of points is large
enough for one round): `MarksBoundRounds` (`[]MarkClouds`, that is `OneRoundByMark` and
`WholeByMark`), from `MarkInvariant` (`[]MarkInv`). The property is not inductive, for it speaks of
clouds handed over and not of the lists that become the next one. `MarkInv` says that the lists hold points of the
round the LiDAR is in (`OfTurn`), as many as the round had so far when nothing was lost (`Counted`),
and that LS128 has nothing before it was told (`Deaf`). Within a packet `Reading` says the same of
the decoder and the clouds after each entry: a mark hands over the lists and empties them
(`MarkIsTaken`), a point joins them or is filtered out (`PointIsTaken`, `PointIsLeft`), and
`LoopReads` goes through the packet. `DecodeIs` shows that the eight classes, each with loops of its own, read
a packet with the same steps but for the places they filter out.

### The LeiShen queue

`DecoderProofs`, for every set of descriptors and any number of packets: `QueueOwned`
(`[]QueueToItself`). `isQuit` is set only after the joins of `Stop`, so when the decoder throws its
queue away no socket thread is left, and none is made again.

### Only model-checked

- `TimesFollowAngles` (`MechDecoder`). Whether the times follow the angles depends on how the dark
  sector compares with what the iterators take for a jump, device by device and speed by speed, and
  the iterators sum up over the blocks before (`Stepped`); the theorem would be an induction over the
  blocks for each of them.
- `WindowClouds` (`LsDecoders`): `OneRoundByWindow`, `WholeByWindow` and `SpillsByWindow`. They hold for the
  proportions of the LiDARs only: blocks per round against `MinBlocks`, blocks per packet against the
  width of the window. A statement for every value of the constants would have to assume these proportions, in the presence
  of lost packets and of beams that look ahead, and count sets of points by their angles.
- Liveness: `StopEnds`, `NewestShown`, `SignalEnds`, `EveryPortServed`, `StopReturns`. The proof
  system has no support for fairness, since it cannot reason about `ENABLED`.

## 5. Hazards the models do not decide

- `Free` deletes `m_pCommonGroundDetection` and keeps the pointer; main calls it and the destructor
  calls it again. In `SutengDriver` this is the second pass through `stop` ... `free`.
- If the viewer window is closed without a signal, `pthread_join` of the signal thread waits for
  one. `SignalEnds` speaks of the case with a signal.
- With `pcapRunningModel` and `onlineModel` both set, `Start` assigns a joinable `std::thread`. The
  configuration files of the repository do not do that; the modes are exclusive in the model.
- `InputPcap` started again after the end of its file reads through a null handle. main starts the
  driver once; `Inputs` has the step (`ReadClosed`) and ends there, `LidarDriver` leaves this
  restart out (comment at `RecvExit`).
- A `select` or `epoll_wait` that fails with something other than `EINTR` ends the receive thread for
  good, without calling the exception callback (`input_sock_select.hpp:295`). `Inputs` has the step
  (`Wait`, place `failed`); `KeepsReceiving` and `EveryPortServed` name it as their exception.
- The main thread draws the very clouds the worker clears and refills. `SutengDriver` has both
  (`ClearClouds`, `FillGround`, `FillObstacle` against `Draw`); no property can exclude the mix.
- `LeiShenDrive::Stop` can hang while a socket thread is just opening its socket: the number `Stop`
  closed is given out again before the field is reset (`StopReturns` is stated for settled
  threads). The decoder's thread is detached and can outlive the object it works on. `Free` goes
  through `m_pGetLidarData` even when `Init` made none (`owner = "crashed"`).
- RSM1 hands a frame over at the greatest packet number heard so far (`decoder_RSM1.hpp:307`). If the
  last packets of the first frame it hears are lost, that number is too small, and the next frame is
  handed over early and in pieces although all of it arrives; that frame then brings the right
  number. `WholeFrames` speaks of RSM1 once the end of some frame was heard (`heard.ended`).
- RSEM4 and RSEMX count their packets from zero, and the strategy takes zero for "nothing heard yet": a
  late packet of the frame before, right behind number 0, is kept as the newest, and the packet
  after it is taken for a new frame (`decoder_RSEM4.hpp:311`). `OneSplitPerFrame` leaves out that packet
  (`heard.after`) and no other.
- `mems` keeps bursts below `RANGE`: after a longer one the number stays where it was, later packets
  of the frame are beyond `safe_seq_max_`, and the end of that frame may pass unnoticed.
- A rotating LiDAR that turns a whole round unheard, or further unheard than from the split angle to
  the zero angle, can merge two rounds in one cloud: two angles do not say how often the LiDAR turned (`Far` in
  `MechDecoder`).
- Threads made by the communication library before the signals are blocked can receive them.
- Plain `bool` flags and `m_processThread` are accessed from several threads without a lock. The
  models order these accesses in every way but do not tear them.

Some decoders of `ls_driver` hand over clouds of more or less than one round. The properties of `LsDecoders`
are stated where they do not (`PacketFits`, `WindowFits`, `MarksHeard`, `OneColumn`):

- C16_v3_0 with one return at 20 Hz, with nothing lost: the window is 5 degrees, a packet 8.6, and what
  a packet holds behind the window is added to the old cloud although it belongs to the next round
  (`GetLidarData_C16_v3_0.cpp:177-188`, `:221-231`). `PacketFits` takes this case out of
  `OneRoundByWindow` and `WholeByWindow`; `SpillsByWindow` says what holds there: points of two rounds at
  most, and a number of points that differs from a round's by less than a packet.
- the C LiDARs: a cloud ends at a point *behind* `endFrameAngle` within a window. If packets lost
  leave no point in it, two rounds become one cloud; `C16_v4_0` (`GetLidarData_C16_v4_0.cpp:141`)
  takes its first point's angle for `endFrameAngle`, and close to 360 degrees no point lies behind it
  (`WindowFits`). With two columns of beams the window is met by both.
- a lost mark of a CH LiDAR or LS128 merges two rounds; CH128S1 looks at byte 1211 of a packet of
  1206 for the echo (`GetLidarData_CH128S1.cpp:95`) and may take it apart in the wrong layout
  (`merged`). LS128 asked for two rounds inserts the older of the remembered rounds and never clears
  them (`GetLidarData_LS128.cpp:342`).
- M10 (`GetLidarData_M10.cpp:689`): of a packet in which the angle falls back, the points after that
  one still go to the old cloud; a fall of the angle by a lost packet is a new cloud.

## 6. Where the code and its comments differ

`gate_degraded` shows one difference by a run: without pose, map or section all clusters are kept
(`mapfilter/hdmap_filter.h:26`); `in_road` stays false and the conversion drops all of them.

Others met while modelling, each visible in the actions named:

| Statement | What the code does | Where in the models |
|---|---|---|
| stable ids across frames (`include/SuTengDriver.h:109`) | after a whole lap of ids a track that is still alive shares its id with a new one | `IdReuseDistance` says how far apart |
| greedy matching gives persistent ids (`include/ElevationMapGroundFilter.cpp:2686`) | an older track without an obstacle takes the detection of one that was matched in every frame | `IsGreedyMatch` |
| the nearest lane is taken (`mapfilter/hdmap_manager.cpp:109`) | the first lane of the file within 18 m that has a section | `CurrentSection` |
| `stop` clears all points before the next session (`lidar_driver_impl.hpp:299`) | queued packets survive and are decoded in the next session | `Stopped` |
| `Publish` hands frames over by exchanging pointers (`include/VisFrameBuffer.h:17`) | the worker clears and refills the clouds main is drawing | `Publish`, `ClearClouds` |
| `Stop` closes the sockets to unblock `recvfrom` and waits for all threads (`include/LeiShenDriver.cpp:737`, `:751`) | a thread that is just opening its socket may stay blocked; the decoder's thread is not waited for | `StopData`, `Joined` |
| linear interpolation of the slope threshold in `[3.5, roi_x_max]`, up to 0.80 beyond (`include/ElevationMapGroundFilter.cpp:312`) | subtracts `slope_threshold`, not 3.5: a step at 3.5 m, and a value above 0.80 just before `roi_x_max` | `DynamicSlope` |
| columns are smoothed only between columns with ground (`:1273`) | every inner column is | `Reference` |
| the fallback height is the nominal height negated (`:1244`) | it is not negated | `Filled` |
| descriptors start as -1 (`unix/input_sock_select.hpp:67`, `int fds_[3]{ -1 }`) | two of the three are zero; after a failed `init` the destructor closes the standard input | `Init`, `Close` of `Inputs` |
| the i-th event is the i-th descriptor (`unix/input_sock_epoll.hpp:282`) | events come in any number and order; an empty socket then ends the thread | `Epoll` |
| an identification names a datagram (`input/jumbo.hpp:120`) | 0, which a datagram may have, also means "none being collected" | `Fragment` |

## 7. Not modelled

- Of `ElevationMapGroundFilter`: the binning of points into cells, `ReclassifyPointCloud`, the boxes of
  clusters (axis-aligned and oriented), the conversion to messages, which keeps the first 20
  obstacles, and the debug output. They are arithmetic on single points or cells.
- `update_V2`, `hungarianAssignment` have no caller; the Kalman filter of a track is created and
  never stepped.
- Geometry of the decoders (vendor tables), WGS84 conversion, parsing of map, YAML and cfg files:
  arithmetic and I/O without control worth a state machine.
- The Windows socket, and the jumbo variants of the socket and raw inputs, which put `Jumbo` behind
  the loops that are modelled.
- What `LeiShenDrive` does with a cloud: drawing and ground detection.
- `LidarCurbDetection`, `CurveFitting`, `kalman`, `UdpCommunication`, `Viewer`, `messageDeal` with its
  queues: not called in the running configurations.
- `DebugViewer`: drawing; its frame counter, which makes the worker skip a frame, is `iteration`.

## 8. Plan

Done: the tracker, the map gate, the driver with its inputs and decoders, the process, the LeiShen
driver, the ground filter; proofs of their safety properties but for the three named in section 4.
What is left, in this order:

1. The windows of the C LiDARs as a theorem, from an assumption on the proportions of window, packet
   and round.
2. Time in `Tracker`: frames with equal or decreasing timestamps and `delta_time` as unsigned.
3. The binning and the boxes of `ElevationMapGroundFilter`, as operators over small clouds.
