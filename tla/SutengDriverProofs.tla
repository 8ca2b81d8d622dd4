------------------------- MODULE SutengDriverProofs -------------------------
(***************************************************************************)
(* The program's threads, for a LiDAR that publishes any number of clouds: *)
(* none is left when the process exits, the worker is silent once the log  *)
(* is closed, and the viewer only goes forward.                            *)
(***************************************************************************)
EXTENDS SutengDriver, SequenceTheorems, TLAPS

-----------------------------------------------------------------------------
(* The inductive invariant, in named parts.                                *)

\* From the first Stop on; and what of it comes after Stop met the worker.
Leaving == {"stop", "stopDriver", "joinWorker", "joinStarter", "free", "exited"}
MetWorker == leaving = 2 \/ main \in {"joinStarter", "free", "exited"}

\* What the start-up thread has made by when: the worker, the driver's
\* threads, and last the flag by which StopDriver knows of them.
Making ==
  /\ main = "boot" <=> starter = "none"
  /\ starter \in {"none", "init", "worker", "pcd"} => worker.at = "none"
  /\ driver.threads => starter \in {"flag", "done", "joined"}
  /\ driver.flag => starter \in {"done", "joined"}
  /\ driver.threads /\ starter # "flag" => driver.flag

\* A worker that runs can be joined.
Joinable ==
  /\ worker.joinable => worker.at # "none"
  /\ worker.at \notin {"none", "done"} => worker.joinable

\* The first pass through Stop ends with the start-up thread joined, so the
\* second one finds everything that thread has made.
Passes ==
  /\ leaving = 0 <=> main \notin Leaving
  /\ main = "exited" => leaving = 2 /\ feed # "running"
  /\ leaving = 2 \/ main \in {"free", "exited"} => starter = "joined"
  /\ leaving = 2 /\ main \notin {"stop", "stopDriver"} => ~driver.threads
  /\ leaving = 2 /\ main \notin {"stop", "stopDriver", "joinWorker"} => ~worker.joinable

\* A worker made after Stop looked for it finds m_running reset.
Silenced ==
  /\ ~logOpen => leaving = 2
  /\ leaving = 2 \/ main \in Leaving \ {"stop"} => ~running
  /\ MetWorker => worker.at \in {"none", "loop", "done"}

LifeInv == TypeOK /\ Making /\ Joinable /\ Passes /\ Silenced

\* Frames reach the worker in the order they were produced.
InOrder ==
  /\ \A i, j \in DOMAIN stuffed : i < j => stuffed[i] < stuffed[j]
  /\ \A i \in DOMAIN stuffed : worker.frame < stuffed[i] /\ stuffed[i] <= produced
  /\ worker.frame <= produced

\* What is in the buffer is not older than what was shown, and is newer if it
\* is announced or was already seen to be.
Fresh ==
  /\ \A i \in DOMAIN shown : shown[i] <= buffered
  /\ hasNew => \A i \in DOMAIN shown : shown[i] < buffered
  /\ main = "consume" => hasNew

\* The worker publishes what is newer than the buffer; in pcd mode there is no
\* worker and one frame.
Newer ==
  /\ worker.at \in {"clear", "fillGround", "fillObstacle", "publish"} => buffered < worker.frame
  /\ mode # "pcd" => starter # "pcd" /\ buffered <= worker.frame
  /\ mode = "pcd" => starter \in {"none", "pcd", "done", "joined"} /\ worker.at = "none"
  /\ mode = "pcd" /\ starter \in {"none", "pcd"} => ~hasNew /\ shown = << >>

FramesInv == InOrder /\ Fresh /\ Newer /\ ShownForward

-----------------------------------------------------------------------------
LEMMA InitTypes == Init => TypeOK
PROOF
  <1> SUFFICES ASSUME Init PROVE TypeOK
    OBVIOUS
  <1>1. driver \in DriverStates
    BY DEF Init, DriverStates
  <1>2. worker \in WorkerStates /\ drawn \in Drawings
    BY FramesAssumption DEF Init, WorkerStates, WorkerPlaces, Drawings
  <1>3. stuffed \in Seq(1 .. MaxFrames) /\ shown \in Seq(0 .. MaxFrames)
    BY EmptySeq DEF Init
  <1>4. {ground, obstacle, buffered} \subseteq 0 .. MaxFrames /\ produced \in 0 .. MaxFrames
    BY FramesAssumption DEF Init
  <1>5. main \in MainPlaces
    BY DEF Init, MainPlaces
  <1>6. /\ mode \in {"pcap", "online", "pcd"} /\ leaving \in 0 .. 2 /\ iteration \in 0 .. 2
        /\ signaller = "none" /\ starter = "none" /\ feed = "none"
        /\ early = FALSE /\ signalled = FALSE /\ terminate = FALSE /\ running = FALSE
        /\ logOpen = TRUE /\ hasNew = FALSE
    BY DEF Init
  <1> QED
    BY <1>1, <1>2, <1>3, <1>4, <1>5, <1>6 DEF TypeOK

LEMMA InitLife == Init => LifeInv
PROOF
  <1> SUFFICES ASSUME Init PROVE LifeInv
    OBVIOUS
  <1>1. Making /\ Joinable /\ Passes /\ Silenced
    BY DEF Init, Making, Joinable, Passes, Silenced, MetWorker, Leaving
  <1> QED
    BY <1>1, InitTypes DEF LifeInv

(* The signal, a cloud of the driver, the signal thread and the feed.      *)
LEMMA OutsideKeeps ==
  ASSUME LifeInv, Signal \/ Produce \/ Terminate \/ FeedEnds
  PROVE  LifeInv'
PROOF
  <1>1. UNCHANGED <<main, leaving, running, starter, driver, logOpen, worker>>
        /\ (feed' = feed \/ feed' = "done")
    BY DEF Signal, Produce, Terminate, FeedEnds, threads, work
  <1>2. TypeOK'
    <2> USE DEF LifeInv, TypeOK
    <2>1. CASE Signal
      BY <2>1 DEF Signal, work, vis, viewer
    <2>2. CASE Produce
      <3>1. produced' \in 1 .. MaxFrames
        BY <2>2, FramesAssumption DEF Produce
      <3>2. stuffed' \in Seq(1 .. MaxFrames)
        BY <2>2, <3>1 DEF Produce
      <3> QED
        BY <2>2, <3>1, <3>2 DEF Produce, threads, work, vis, viewer
    <2>3. CASE Terminate
      BY <2>3 DEF Terminate, work, vis, viewer
    <2>4. CASE FeedEnds
      BY <2>4 DEF FeedEnds, work, vis, viewer
    <2> QED
      BY <2>1, <2>2, <2>3, <2>4
  <1>3. Making' /\ Joinable' /\ Passes' /\ Silenced'
    BY <1>1 DEF LifeInv, Making, Joinable, Passes, Silenced, MetWorker
  <1> QED
    BY <1>2, <1>3 DEF LifeInv

-----------------------------------------------------------------------------
(* The start-up thread.                                                    *)

LEMMA InitDriverKeeps == LifeInv /\ InitDriver => LifeInv'
PROOF
  <1> SUFFICES ASSUME LifeInv, InitDriver PROVE LifeInv'
    OBVIOUS
  <1> USE DEF LifeInv
  <1>1. PICK ok \in BOOLEAN : driver' = [driver EXCEPT !.init = ok]
    BY DEF InitDriver
  <1>2. driver' \in DriverStates /\ driver'.threads = driver.threads /\ driver'.flag = driver.flag
    BY <1>1 DEF TypeOK, DriverStates
  <1>3. TypeOK'
    BY <1>2 DEF InitDriver, StarterStep, TypeOK, vis, viewer
  <1> QED
    BY <1>2, <1>3 DEF InitDriver, StarterStep, Making, Joinable, Passes, Silenced, MetWorker

LEMMA CreateWorkerKeeps == LifeInv /\ CreateWorker => LifeInv'
PROOF
  <1> SUFFICES ASSUME LifeInv, CreateWorker PROVE LifeInv'
    OBVIOUS
  <1> USE DEF LifeInv
  <1>1. worker' \in WorkerStates /\ worker'.at = "loop" /\ worker'.joinable = TRUE
    BY DEF CreateWorker, TypeOK, WorkerStates, WorkerPlaces
  <1>2. TypeOK'
    BY <1>1 DEF CreateWorker, StarterStep, TypeOK, vis, viewer
  <1> QED
    BY <1>1, <1>2 DEF CreateWorker, StarterStep, Making, Joinable, Passes, Silenced, MetWorker

LEMMA StartThreadsKeeps == LifeInv /\ StartThreads => LifeInv'
PROOF
  <1> SUFFICES ASSUME LifeInv, StartThreads PROVE LifeInv'
    OBVIOUS
  <1> USE DEF LifeInv
  <1>1. driver' \in DriverStates /\ driver'.threads = driver.init /\ driver'.flag = driver.flag
    BY DEF StartThreads, TypeOK, DriverStates
  <1>2. TypeOK'
    BY <1>1 DEF StartThreads, StarterStep, TypeOK, vis, viewer
  <1> QED
    BY <1>1, <1>2 DEF StartThreads, StarterStep, Making, Joinable, Passes, Silenced, MetWorker

LEMMA SetFlagKeeps == LifeInv /\ SetStartFlag => LifeInv'
PROOF
  <1> SUFFICES ASSUME LifeInv, SetStartFlag PROVE LifeInv'
    OBVIOUS
  <1> USE DEF LifeInv
  <1>1. driver' \in DriverStates /\ driver'.threads = driver.threads /\ driver'.flag = TRUE
    BY DEF SetStartFlag, TypeOK, DriverStates
  <1>2. TypeOK'
    BY <1>1 DEF SetStartFlag, StarterStep, TypeOK, vis, viewer
  <1> QED
    BY <1>1, <1>2 DEF SetStartFlag, StarterStep, Making, Joinable, Passes, Silenced, MetWorker

LEMMA PcdFrameKeeps == LifeInv /\ PcdFrame => LifeInv'
PROOF
  <1> SUFFICES ASSUME LifeInv, PcdFrame PROVE LifeInv'
    OBVIOUS
  <1> USE DEF LifeInv
  <1>1. {ground', obstacle', buffered'} \subseteq 0 .. MaxFrames /\ hasNew' \in BOOLEAN
    <2>1. CASE MaxFrames > 0 /\ ground' = 1 /\ obstacle' = 1 /\ hasNew' = TRUE /\ buffered' = 1
      BY <2>1, FramesAssumption
    <2>2. CASE UNCHANGED <<ground, obstacle, vis>>
      BY <2>2 DEF TypeOK, vis
    <2> QED
      BY <2>1, <2>2 DEF PcdFrame
  <1>2. TypeOK'
    BY <1>1 DEF PcdFrame, StarterStep, TypeOK, viewer
  <1> QED
    BY <1>2 DEF PcdFrame, StarterStep, Making, Joinable, Passes, Silenced, MetWorker

-----------------------------------------------------------------------------
(* The worker.                                                             *)

LEMMA WorkerMoves ==
  ASSUME worker \in WorkerStates, NEW p \in WorkerPlaces, worker' = [worker EXCEPT !.at = p]
  PROVE  /\ worker' \in WorkerStates
         /\ worker'.at = p /\ worker'.joinable = worker.joinable /\ worker'.frame = worker.frame
PROOF
  BY DEF WorkerStates

LEMMA WorkerLoopKeeps == LifeInv /\ WorkerLoop => LifeInv'
PROOF
  <1> SUFFICES ASSUME LifeInv, WorkerLoop PROVE LifeInv'
    OBVIOUS
  <1> USE DEF LifeInv
  <1> DEFINE to == IF running THEN "pop" ELSE "done"
  <1>1. worker.at = "loop" /\ worker' = [worker EXCEPT !.at = to]
    BY DEF WorkerLoop, WorkerStep
  <1>2. to \in WorkerPlaces /\ to # "none" /\ (~running => to = "done")
    BY DEF WorkerPlaces
  <1> HIDE DEF to
  <1>3. worker' \in WorkerStates /\ worker'.at = to /\ worker'.joinable = worker.joinable
    BY <1>1, <1>2, WorkerMoves DEF TypeOK
  <1>4. iteration' \in 0 .. 2
    BY DEF WorkerLoop, TypeOK
  <1>5. TypeOK'
    BY <1>3, <1>4 DEF WorkerLoop, WorkerStep, TypeOK, threads, vis, viewer
  <1> QED
    BY <1>1, <1>2, <1>3, <1>5 DEF WorkerLoop, WorkerStep, threads, Making, Joinable, Passes,
                                  Silenced, MetWorker, Leaving

LEMMA PopFields ==
  ASSUME TypeOK, WorkerPop
  PROVE  /\ worker' \in WorkerStates /\ worker'.joinable = worker.joinable
         /\ worker'.at = IF iteration = 1 THEN "loop" ELSE "clear"
         /\ worker'.frame = Head(stuffed)
         /\ stuffed' \in Seq(1 .. MaxFrames)
PROOF
  <1>1. Head(stuffed) \in 1 .. MaxFrames /\ stuffed' \in Seq(1 .. MaxFrames)
    BY HeadTailProperties DEF WorkerPop, TypeOK
  <1> DEFINE u == [worker EXCEPT !.frame = Head(stuffed)]
             to == IF iteration = 1 THEN "loop" ELSE "clear"
  <1>2. worker' = [u EXCEPT !.at = to]
    BY DEF WorkerPop
  <1>3. to \in WorkerPlaces
    BY DEF WorkerPlaces
  <1>4. Head(stuffed) \in 0 .. MaxFrames
    BY <1>1
  <1>5. u \in WorkerStates /\ u.joinable = worker.joinable /\ u.frame = Head(stuffed)
    BY <1>4 DEF TypeOK, WorkerStates
  <1> HIDE DEF to, u
  <1>6. worker' \in WorkerStates /\ worker'.at = to /\ worker'.joinable = u.joinable
        /\ worker'.frame = u.frame
    BY <1>2, <1>3, <1>5 DEF WorkerStates
  <1> QED
    BY <1>1, <1>5, <1>6 DEF to

LEMMA WorkerPopKeeps == LifeInv /\ WorkerPop => LifeInv'
PROOF
  <1> SUFFICES ASSUME LifeInv, WorkerPop PROVE LifeInv'
    OBVIOUS
  <1> USE DEF LifeInv
  <1>1. /\ worker' \in WorkerStates /\ worker'.joinable = worker.joinable
        /\ worker'.at \in {"loop", "clear"}
        /\ stuffed' \in Seq(1 .. MaxFrames)
    BY PopFields
  <1>2. TypeOK'
    BY <1>1 DEF WorkerPop, TypeOK, threads, vis, viewer
  <1> QED
    BY <1>1, <1>2 DEF WorkerPop, threads, Making, Joinable, Passes, Silenced, MetWorker

(* The steps that only move the worker on.                                 *)
LEMMA WorkerStepKeeps ==
  ASSUME LifeInv, NEW from \in WorkerPlaces \ {"none", "loop", "done"},
         NEW to \in WorkerPlaces \ {"none", "done"},
         WorkerStep(from, to), TypeOK'
  PROVE  LifeInv'
PROOF
  <1> USE DEF LifeInv
  <1>1. worker'.at = to /\ worker'.joinable = worker.joinable /\ worker.at = from
    BY WorkerMoves DEF WorkerStep, TypeOK
  <1> QED
    BY <1>1 DEF WorkerStep, threads, Making, Joinable, Passes, Silenced, MetWorker

LEMMA WorkerKeeps == LifeInv /\ WorkerNext => LifeInv'
PROOF
  <1> SUFFICES ASSUME LifeInv, WorkerNext PROVE LifeInv'
    OBVIOUS
  <1>1. ASSUME NEW from \in WorkerPlaces \ {"none", "loop", "done"},
               NEW to \in WorkerPlaces \ {"none", "done"}, WorkerStep(from, to),
               stuffed' = stuffed, iteration' = iteration,
               {ground', obstacle', buffered'} \subseteq 0 .. MaxFrames, hasNew' \in BOOLEAN
        PROVE  LifeInv'
    <2>1. worker' \in WorkerStates
      BY <1>1, WorkerMoves DEF LifeInv, TypeOK, WorkerStep
    <2>2. TypeOK'
      BY <1>1, <2>1 DEF LifeInv, TypeOK, WorkerStep, threads, viewer
    <2> QED
      BY <1>1, <2>2, WorkerStepKeeps
  <1> DEFINE old == {ground, obstacle, buffered, worker.frame, 0}
  <1>2. old \subseteq 0 .. MaxFrames /\ hasNew \in BOOLEAN
    BY FramesAssumption DEF LifeInv, TypeOK, WorkerStates
  <1>3. CASE WorkerTimeout
    BY <1>1, <1>2, <1>3 DEF WorkerTimeout, WorkerPlaces, vis
  <1>4. CASE ClearClouds
    BY <1>1, <1>2, <1>4 DEF ClearClouds, WorkerPlaces, vis
  <1>5. CASE FillGround
    BY <1>1, <1>2, <1>5 DEF FillGround, WorkerPlaces, vis
  <1>6. CASE FillObstacle
    BY <1>1, <1>2, <1>6 DEF FillObstacle, WorkerPlaces, vis
  <1>7. CASE Publish
    BY <1>1, <1>2, <1>7 DEF Publish, WorkerPlaces, vis
  <1> QED
    BY <1>3, <1>4, <1>5, <1>6, <1>7, WorkerLoopKeeps, WorkerPopKeeps DEF WorkerNext

-----------------------------------------------------------------------------
(* main.  What it does outside Stop moves neither worker nor driver.       *)

LEMMA MainTypes ==
  ASSUME TypeOK, NEW from, NEW to \in MainPlaces, MainStep(from, to),
         leaving' \in 0 .. 2, early' \in BOOLEAN, terminate' = terminate,
         running' \in BOOLEAN, signaller' \in {"none", "waiting", "done"},
         starter' \in {starter, "init", "pcd", "joined"}, driver' \in DriverStates,
         worker' \in WorkerStates, feed' \in {feed, "none", "running"}, logOpen' \in BOOLEAN,
         hasNew' \in BOOLEAN, shown' \in Seq(0 .. MaxFrames), drawn' \in Drawings
  PROVE  TypeOK'
PROOF
  BY DEF MainStep, TypeOK

LEMMA BeforeStopKeeps ==
  ASSUME LifeInv,
         Start \/ StartFeed \/ CreateSignaller \/ NoSignaller \/ Leave \/ SeeNew
           \/ Consume \/ Draw \/ JoinSignaller
  PROVE  LifeInv'
PROOF
  <1> USE DEF LifeInv
  <1>1. /\ leaving \in 0 .. 2 /\ early \in BOOLEAN /\ running \in BOOLEAN /\ logOpen \in BOOLEAN
        /\ signaller \in {"none", "waiting", "done"} /\ driver \in DriverStates
        /\ worker \in WorkerStates /\ hasNew \in BOOLEAN /\ shown \in Seq(0 .. MaxFrames)
        /\ drawn \in Drawings /\ buffered \in 0 .. MaxFrames /\ ground \in 0 .. MaxFrames
        /\ obstacle \in 0 .. MaxFrames
    BY DEF TypeOK
  <1>2. CASE Start
    <2>1. TypeOK'
      BY <1>1, <1>2, MainTypes DEF Start, MainPlaces, viewer
    <2> QED
      BY <1>2, <2>1 DEF Start, MainStep, Making, Joinable, Passes, Silenced, MetWorker, Leaving
  <1>3. CASE StartFeed
    <2>1. TypeOK'
      BY <1>1, <1>3, MainTypes DEF StartFeed, MainPlaces, viewer
    <2> QED
      BY <1>3, <2>1 DEF StartFeed, MainStep, Making, Joinable, Passes, Silenced, MetWorker,
                        Leaving
  <1>4. CASE CreateSignaller \/ Leave \/ SeeNew
    <2>1. TypeOK'
      BY <1>1, <1>4, MainTypes DEF CreateSignaller, Leave, SeeNew, MainPlaces, viewer
    <2> QED
      BY <1>4, <2>1 DEF CreateSignaller, Leave, SeeNew, MainStep, Making, Joinable, Passes,
                        Silenced, MetWorker, Leaving
  <1>5. CASE NoSignaller
    <2>1. TypeOK'
      BY <1>1, <1>5, MainTypes DEF NoSignaller, MainPlaces, viewer
    <2> QED
      BY <1>5, <2>1 DEF NoSignaller, MainStep, Making, Joinable, Passes, Silenced, MetWorker,
                        Leaving
  <1>8. CASE JoinSignaller
    <2>1. TypeOK'
      BY <1>1, <1>8, MainTypes DEF JoinSignaller, MainPlaces, viewer
    <2> QED
      BY <1>8, <2>1 DEF JoinSignaller, MainStep, Making, Joinable, Passes, Silenced, MetWorker,
                        Leaving
  <1>6. CASE Consume
    <2>1. shown' \in Seq(0 .. MaxFrames)
      BY <1>1, <1>6 DEF Consume
    <2>2. TypeOK'
      BY <1>1, <1>6, <2>1, MainTypes DEF Consume, MainPlaces
    <2> QED
      BY <1>6, <2>2 DEF Consume, MainStep, Making, Joinable, Passes, Silenced, MetWorker,
                        Leaving
  <1>7. CASE Draw
    <2>1. drawn' \in Drawings
      BY <1>1, <1>7 DEF Draw, Drawings
    <2>2. TypeOK'
      BY <1>1, <1>7, <2>1, MainTypes DEF Draw, MainPlaces
    <2> QED
      BY <1>7, <2>2 DEF Draw, MainStep, Making, Joinable, Passes, Silenced, MetWorker,
                        Leaving
  <1> QED
    BY <1>2, <1>3, <1>4, <1>5, <1>6, <1>7, <1>8

(* Stop, its second pass, and what main does between the two.              *)
LEMMA StopKeeps == LifeInv /\ StopNext => LifeInv'
PROOF
  <1> SUFFICES ASSUME LifeInv, StopNext PROVE LifeInv'
    OBVIOUS
  <1> USE DEF LifeInv
  <1>1. /\ leaving \in 0 .. 2 /\ early \in BOOLEAN /\ running \in BOOLEAN /\ logOpen \in BOOLEAN
        /\ signaller \in {"none", "waiting", "done"} /\ driver \in DriverStates
        /\ worker \in WorkerStates /\ hasNew \in BOOLEAN /\ shown \in Seq(0 .. MaxFrames)
        /\ drawn \in Drawings
    BY DEF TypeOK
  <1>2. CASE Stop
    <2>1. TypeOK'
      BY <1>1, <1>2, MainTypes DEF Stop, MainPlaces, viewer
    <2> QED
      BY <1>2, <2>1 DEF Stop, MainStep, Making, Joinable, Passes, Silenced, MetWorker, Leaving
  <1>3. CASE StopDriver
    <2>1. /\ driver' \in DriverStates
          /\ driver.flag => ~driver'.threads /\ ~driver'.flag
          /\ ~driver.flag => driver' = driver
      BY <1>1, <1>3 DEF StopDriver, DriverStates
    <2>2. TypeOK'
      BY <1>1, <1>3, <2>1, MainTypes DEF StopDriver, MainPlaces, viewer
    <2> QED
      BY <1>3, <2>1, <2>2 DEF StopDriver, MainStep, Making, Joinable, Passes, Silenced,
                              MetWorker, Leaving
  <1>4. CASE JoinWorker
    <2>1. worker' \in WorkerStates /\ worker'.at = worker.at /\ worker'.joinable = FALSE
      BY <1>1, <1>4 DEF JoinWorker, WorkerStates
    <2>2. TypeOK'
      BY <1>1, <1>4, <2>1, MainTypes DEF JoinWorker, MainPlaces, viewer
    <2>3. worker.at \in {"none", "done"}
      BY <1>4 DEF JoinWorker, Joinable
    <2> QED
      BY <1>4, <2>1, <2>2, <2>3 DEF JoinWorker, MainStep, Making, Joinable, Passes, Silenced,
                                    MetWorker, Leaving
  <1>5. CASE JoinStarter
    <2>1. TypeOK'
      BY <1>1, <1>5, MainTypes DEF JoinStarter, MainPlaces, viewer
    <2> QED
      BY <1>5, <2>1 DEF JoinStarter, MainStep, Making, Joinable, Passes, Silenced, MetWorker,
                        Leaving
  <1>6. CASE CloseComm
    <2>1. TypeOK'
      BY <1>1, <1>6, MainTypes DEF CloseComm, MainPlaces, viewer
    <2> QED
      BY <1>6, <2>1 DEF CloseComm, MainStep, Making, Joinable, Passes, Silenced, MetWorker,
                        Leaving
  <1>7. CASE Exit
    <2>1. TypeOK'
      BY <1>1, <1>7, MainTypes DEF Exit, MainPlaces, viewer
    <2> QED
      BY <1>7, <2>1 DEF Exit, MainStep, Making, Joinable, Passes, Silenced, MetWorker, Leaving
  <1> QED
    BY <1>2, <1>3, <1>4, <1>5, <1>6, <1>7 DEF StopNext

-----------------------------------------------------------------------------
THEOREM LifeInvariant == Spec => []LifeInv
PROOF
  <1>1. LifeInv /\ UNCHANGED vars => LifeInv'
    BY DEF vars, threads, work, vis, viewer, LifeInv, TypeOK, Making, Joinable, Passes,
           Silenced, MetWorker
  <1>2. LifeInv /\ [Next]_vars => LifeInv'
    BY <1>1, OutsideKeeps, InitDriverKeeps, CreateWorkerKeeps, StartThreadsKeeps, SetFlagKeeps,
       PcdFrameKeeps, WorkerKeeps, BeforeStopKeeps, StopKeeps
       DEF Next, StarterNext, MainNext, LeaveLoop, CloseWindow
  <1> QED
    BY InitLife, <1>2, PTL DEF Spec

-----------------------------------------------------------------------------
(* The frames.                                                             *)

LEMMA InitFrames == Init => FramesInv
PROOF
  BY DEF Init, FramesInv, InOrder, Fresh, Newer, ShownForward

(* What FramesInv looks at and most steps leave alone.                     *)
LEMMA FramesUntouched ==
  ASSUME FramesInv,
         UNCHANGED <<mode, produced, stuffed, buffered, shown>>,
         hasNew' = hasNew, worker'.frame = worker.frame,
         \/ worker'.at \in {"none", "loop", "pop", "done"}
         \/ worker'.at = worker.at
         \/ worker.at \in {"clear", "fillGround", "fillObstacle"},
         mode = "pcd" => worker'.at = "none",
         \/ starter' = starter
         \/ starter' \in {"done", "joined"}
         \/ mode # "pcd" /\ starter' # "pcd"
         \/ mode = "pcd" /\ starter = "none" /\ starter' = "pcd",
         main' = "consume" => hasNew
PROVE  FramesInv'
PROOF
  <1>1. InOrder' /\ Fresh' /\ ShownForward'
    BY DEF FramesInv, InOrder, Fresh, ShownForward
  <1>2. Newer'
    BY DEF FramesInv, Newer
  <1> QED
    BY <1>1, <1>2 DEF FramesInv

LEMMA ProduceFrames == TypeOK /\ FramesInv /\ Produce => FramesInv'
PROOF
  <1> SUFFICES ASSUME TypeOK, FramesInv, Produce PROVE FramesInv'
    OBVIOUS
  <1>1. /\ produced \in Nat /\ produced' = produced + 1 /\ stuffed' = Append(stuffed, produced')
        /\ stuffed \in Seq(Nat) /\ worker.frame \in Nat
    <2>1. 1 .. MaxFrames \subseteq Nat /\ 0 .. MaxFrames \subseteq Nat
      BY FramesAssumption
    <2>2. stuffed \in Seq(Nat)
      BY <2>1, SeqMonotonic DEF TypeOK
    <2> QED
      BY <2>1, <2>2 DEF TypeOK, WorkerStates, Produce
  <1>2. UNCHANGED <<mode, main, starter, worker, hasNew, buffered, shown>>
    BY DEF Produce, threads, work, vis, viewer
  <1>3. /\ Len(stuffed') = Len(stuffed) + 1 /\ Len(stuffed) \in Nat
        /\ stuffed'[Len(stuffed) + 1] = produced'
        /\ \A i \in DOMAIN stuffed : stuffed'[i] = stuffed[i]
        /\ DOMAIN stuffed = 1 .. Len(stuffed) /\ DOMAIN stuffed' = 1 .. Len(stuffed')
    BY <1>1
  <1>4. \A i \in DOMAIN stuffed' : i \in DOMAIN stuffed \/ i = Len(stuffed) + 1
    BY <1>3
  <1>5. \A i \in DOMAIN stuffed : stuffed[i] <= produced /\ stuffed[i] \in Nat
    BY <1>1 DEF FramesInv, InOrder
  <1>6. InOrder'
    <2>1. ASSUME NEW i \in DOMAIN stuffed', NEW j \in DOMAIN stuffed', i < j
          PROVE  stuffed'[i] < stuffed'[j]
      <3>1. i \in DOMAIN stuffed
        BY <1>3, <2>1
      <3>2. CASE j \in DOMAIN stuffed
        BY <1>3, <2>1, <3>1, <3>2 DEF FramesInv, InOrder
      <3>3. CASE j = Len(stuffed) + 1
        BY <1>1, <1>3, <1>5, <3>1, <3>3
      <3> QED
        BY <1>4, <3>2, <3>3
    <2>2. ASSUME NEW i \in DOMAIN stuffed'
          PROVE  worker'.frame < stuffed'[i] /\ stuffed'[i] <= produced'
      <3>1. CASE i \in DOMAIN stuffed
        BY <1>1, <1>2, <1>3, <1>5, <3>1 DEF FramesInv, InOrder
      <3>2. CASE i = Len(stuffed) + 1
        BY <1>1, <1>2, <1>3, <3>2 DEF FramesInv, InOrder
      <3> QED
        BY <1>4, <3>1, <3>2
    <2>3. worker'.frame <= produced'
      BY <1>1, <1>2 DEF FramesInv, InOrder
    <2> QED
      BY <2>1, <2>2, <2>3 DEF InOrder
  <1> QED
    BY <1>2, <1>6 DEF FramesInv, Fresh, Newer, ShownForward

LEMMA PopFrames == TypeOK /\ FramesInv /\ WorkerPop => FramesInv'
PROOF
  <1> SUFFICES ASSUME TypeOK, FramesInv, WorkerPop PROVE FramesInv'
    OBVIOUS
  <1>1. stuffed \in Seq(Nat) /\ stuffed # << >> /\ stuffed' = Tail(stuffed)
        /\ produced \in Nat /\ worker.frame \in Nat /\ buffered \in Nat
    <2>1. 1 .. MaxFrames \subseteq Nat /\ 0 .. MaxFrames \subseteq Nat
      BY FramesAssumption
    <2>2. stuffed \in Seq(Nat)
      BY <2>1, SeqMonotonic DEF TypeOK
    <2> QED
      BY <2>1, <2>2 DEF TypeOK, WorkerStates, WorkerPop
  <1>2. UNCHANGED <<mode, main, starter, produced, hasNew, buffered, shown>>
        /\ worker.at = "pop"
    BY DEF WorkerPop, threads, vis, viewer
  <1>3. worker'.frame = Head(stuffed) /\ worker'.at \in {"loop", "clear"}
    BY PopFields
  <1>4. /\ Len(stuffed) \in Nat /\ 1 \in DOMAIN stuffed /\ Head(stuffed) = stuffed[1]
        /\ \A i \in DOMAIN stuffed' : stuffed'[i] = stuffed[i + 1] /\ i + 1 \in DOMAIN stuffed
        /\ DOMAIN stuffed' \subseteq Nat \ {0} /\ \A i \in DOMAIN stuffed : stuffed[i] \in Nat
    BY <1>1
  <1>5. worker.frame < stuffed[1] /\ stuffed[1] <= produced
    BY <1>4 DEF FramesInv, InOrder
  <1>6. InOrder'
    <2>1. ASSUME NEW i \in DOMAIN stuffed', NEW j \in DOMAIN stuffed', i < j
          PROVE  stuffed'[i] < stuffed'[j]
      <3>1. i + 1 < j + 1
        BY <1>4, <2>1
      <3> QED
        BY <1>4, <3>1 DEF FramesInv, InOrder
    <2>2. ASSUME NEW i \in DOMAIN stuffed'
          PROVE  worker'.frame < stuffed'[i] /\ stuffed'[i] <= produced'
      <3>1. 1 < i + 1
        BY <1>4
      <3>2. stuffed[1] < stuffed[i + 1] /\ stuffed[i + 1] <= produced
        BY <1>4, <3>1 DEF FramesInv, InOrder
      <3> QED
        BY <1>2, <1>3, <1>4, <3>2
    <2> QED
      BY <1>2, <1>3, <1>4, <1>5, <2>1, <2>2 DEF InOrder
  <1>7. Newer'
    <2>1. mode # "pcd" /\ buffered < worker'.frame
      BY <1>1, <1>2, <1>3, <1>4, <1>5 DEF FramesInv, Newer
    <2> QED
      BY <1>1, <1>2, <1>3, <1>4, <2>1 DEF FramesInv, Newer
  <1> QED
    BY <1>2, <1>6, <1>7 DEF FramesInv, Fresh, ShownForward

(* A newer frame in the buffer, by the worker or in pcd mode.              *)
LEMMA PublishFrames == TypeOK /\ FramesInv /\ (Publish \/ PcdFrame) => FramesInv'
PROOF
  <1> SUFFICES ASSUME TypeOK, FramesInv, Publish \/ PcdFrame PROVE FramesInv'
    OBVIOUS
  <1>1. /\ worker.frame \in Nat /\ buffered \in Nat
        /\ \A i \in DOMAIN shown : shown[i] \in Nat
    BY FramesAssumption DEF TypeOK, WorkerStates
  <1>2. CASE Publish
    <2>1. worker.at = "publish" /\ worker'.at = "loop" /\ worker'.frame = worker.frame
          /\ UNCHANGED <<mode, main, starter, produced, stuffed, shown>>
      BY <1>2, WorkerMoves DEF Publish, WorkerStep, TypeOK, WorkerPlaces, threads, viewer
    <2>2. buffered < worker.frame /\ mode # "pcd"
      BY <2>1 DEF FramesInv, Newer
    <2>3. CASE mode = "pcap"
      <3>1. hasNew' = TRUE /\ buffered' = worker.frame
        BY <1>2, <2>3 DEF Publish
      <3>2. \A i \in DOMAIN shown : shown[i] < buffered'
        BY <1>1, <2>2, <3>1 DEF FramesInv, Fresh
      <3>3. Fresh'
        BY <1>1, <2>1, <3>1, <3>2 DEF Fresh
      <3>4. Newer'
        BY <1>1, <2>1, <2>2, <3>1 DEF FramesInv, Newer
      <3> QED
        BY <2>1, <3>3, <3>4 DEF FramesInv, InOrder, ShownForward
    <2>4. CASE mode # "pcap"
      <3>1. UNCHANGED <<hasNew, buffered>>
        BY <1>2, <2>4 DEF Publish, vis
      <3> QED
        BY <2>1, <3>1 DEF FramesInv, InOrder, Fresh, Newer, ShownForward
    <2> QED
      BY <2>3, <2>4
  <1>3. CASE PcdFrame
    <2>1. starter = "pcd" /\ starter' = "done"
          /\ UNCHANGED <<mode, main, worker, produced, stuffed, shown>>
      BY <1>3 DEF PcdFrame, StarterStep, viewer
    <2>2. mode = "pcd" /\ shown = << >>
      BY <2>1 DEF FramesInv, Newer
    <2>3. hasNew' = TRUE \/ hasNew' = hasNew
      BY <1>3 DEF PcdFrame, vis
    <2>4. Fresh'
      BY <2>1, <2>2, <2>3 DEF FramesInv, Fresh
    <2>5. Newer'
      BY <2>1, <2>2 DEF FramesInv, Newer
    <2> QED
      BY <2>1, <2>4, <2>5 DEF FramesInv, InOrder, ShownForward
  <1> QED
    BY <1>2, <1>3

(* The viewer appends what it finds in the buffer.                         *)
LEMMA ConsumeFrames == TypeOK /\ FramesInv /\ Consume => FramesInv'
PROOF
  <1> SUFFICES ASSUME TypeOK, FramesInv, Consume PROVE FramesInv'
    OBVIOUS
  <1>1. buffered \in Nat /\ shown \in Seq(Nat)
    <2>1. 0 .. MaxFrames \subseteq Nat
      BY FramesAssumption
    <2> QED
      BY <2>1, SeqMonotonic DEF TypeOK
  <1>2. /\ main = "consume" /\ main' = "drawGround" /\ hasNew' = FALSE
        /\ shown' = Append(shown, buffered)
        /\ UNCHANGED <<mode, produced, stuffed, buffered, starter, worker>>
    BY DEF Consume, MainStep
  <1>3. /\ Len(shown) \in Nat /\ DOMAIN shown = 1 .. Len(shown)
        /\ DOMAIN shown' = 1 .. Len(shown) + 1
        /\ \A i \in DOMAIN shown : shown'[i] = shown[i] /\ shown[i] \in Nat
        /\ shown'[Len(shown) + 1] = buffered
    BY <1>1, <1>2
  <1>4. \A i \in DOMAIN shown : shown[i] < buffered
    BY <1>2 DEF FramesInv, Fresh
  <1>5. \A i \in DOMAIN shown' : i \in DOMAIN shown \/ i = Len(shown) + 1
    BY <1>3
  <1>6. Fresh'
    BY <1>1, <1>2, <1>3, <1>4, <1>5 DEF Fresh
  <1>7. ShownForward'
    <2>1. ASSUME NEW i \in DOMAIN shown', NEW j \in DOMAIN shown', i < j
          PROVE  shown'[i] < shown'[j]
      <3>1. i \in DOMAIN shown
        BY <1>3, <2>1
      <3>2. CASE j \in DOMAIN shown
        BY <1>3, <2>1, <3>1, <3>2 DEF FramesInv, ShownForward
      <3>3. CASE j = Len(shown) + 1
        BY <1>3, <1>4, <3>1, <3>3
      <3> QED
        BY <1>5, <3>2, <3>3
    <2> QED
      BY <2>1 DEF ShownForward
  <1>8. Newer'
    <2>1. mode = "pcd" => starter \notin {"none", "pcd"}
      BY <1>2 DEF FramesInv, Fresh, Newer
    <2> QED
      BY <1>2, <2>1 DEF FramesInv, Newer
  <1> QED
    BY <1>2, <1>6, <1>7, <1>8 DEF FramesInv, InOrder

LEMMA FramesKept == LifeInv /\ FramesInv /\ [Next]_vars => FramesInv'
PROOF
  <1> SUFFICES ASSUME LifeInv, FramesInv, [Next]_vars PROVE FramesInv'
    OBVIOUS
  <1>1. TypeOK
    BY DEF LifeInv
  <1>0. (mode = "pcd" => worker.at = "none") /\ (main = "consume" => hasNew)
    BY DEF FramesInv, Fresh, Newer
  <1>2. CASE Produce \/ WorkerPop \/ Publish \/ PcdFrame \/ Consume
    BY <1>1, <1>2, ProduceFrames, PopFrames, PublishFrames, ConsumeFrames
  <1>3. CASE Signal \/ Terminate \/ FeedEnds \/ UNCHANGED vars
    <2>1. UNCHANGED <<mode, main, starter, produced, stuffed, hasNew, buffered, shown, worker>>
      BY <1>3 DEF Signal, Terminate, FeedEnds, vars, threads, work, vis, viewer
    <2> QED
      BY <1>0, <2>1, FramesUntouched
  <1>4. CASE InitDriver \/ StartThreads \/ SetStartFlag
    <2>1. /\ UNCHANGED <<main, mode, produced, stuffed, hasNew, buffered, shown, worker>>
          /\ starter \in {"init", "threads", "flag"}
          /\ starter' \in {"worker", "flag", "done"}
      BY <1>4 DEF InitDriver, StartThreads, SetStartFlag, StarterStep, vis, viewer
    <2>2. mode # "pcd"
      BY <2>1 DEF FramesInv, Newer
    <2> QED
      BY <1>0, <2>1, <2>2, FramesUntouched
  <1>5. CASE CreateWorker
    <2>1. /\ UNCHANGED <<main, mode, produced, stuffed, hasNew, buffered, shown>>
          /\ starter = "worker" /\ starter' = "threads"
          /\ worker'.at = "loop" /\ worker'.frame = worker.frame
      BY <1>1, <1>5 DEF CreateWorker, StarterStep, vis, viewer, TypeOK, WorkerStates
    <2>2. mode # "pcd"
      BY <2>1 DEF FramesInv, Newer
    <2> QED
      BY <1>0, <2>1, <2>2, FramesUntouched
  <1>6. ASSUME NEW from \in WorkerPlaces \ {"none", "publish"}, NEW to \in WorkerPlaces \ {"none"},
               WorkerStep(from, to), UNCHANGED <<stuffed, vis>>,
               to \in {"loop", "pop", "done"} \/ from \in {"clear", "fillGround", "fillObstacle"}
        PROVE  FramesInv'
    <2>1. /\ UNCHANGED <<main, mode, starter, produced, stuffed, hasNew, buffered, shown>>
          /\ worker.at = from /\ worker'.at = to /\ worker'.frame = worker.frame
      BY <1>1, <1>6, WorkerMoves DEF WorkerStep, TypeOK, threads, viewer, vis
    <2>2. mode # "pcd"
      BY <2>1 DEF FramesInv, Newer
    <2> QED
      BY <1>0, <1>6, <2>1, <2>2, FramesUntouched
  <1>7. CASE WorkerLoop \/ WorkerTimeout \/ ClearClouds \/ FillGround \/ FillObstacle
    BY <1>6, <1>7 DEF WorkerLoop, WorkerTimeout, ClearClouds, FillGround, FillObstacle,
                      WorkerPlaces
  <1>8. CASE Start
    <2>1. /\ UNCHANGED <<mode, produced, stuffed, hasNew, buffered, shown, worker>>
          /\ main = "boot" /\ main' = "feed"
          /\ starter' = IF mode = "pcd" THEN "pcd" ELSE "init"
      BY <1>8 DEF Start, MainStep, viewer
    <2>2. starter = "none"
      BY <2>1 DEF LifeInv, Making
    <2> QED
      BY <1>0, <2>1, <2>2, FramesUntouched
  <1>9. CASE StartFeed \/ CreateSignaller \/ NoSignaller \/ Leave \/ SeeNew \/ Draw
             \/ JoinSignaller \/ Stop \/ StopDriver \/ CloseComm \/ Exit
    <2>1. /\ UNCHANGED <<mode, starter, produced, stuffed, hasNew, buffered, shown, worker>>
          /\ main' = "consume" => hasNew
      BY <1>9 DEF StartFeed, CreateSignaller, NoSignaller, Leave, SeeNew, Draw, JoinSignaller,
                  Stop, StopDriver, CloseComm, Exit, MainStep, viewer
    <2> QED
      BY <1>0, <2>1, FramesUntouched
  <1>10. CASE JoinWorker
    <2>1. /\ UNCHANGED <<mode, starter, produced, stuffed, hasNew, buffered, shown>>
          /\ worker'.at = worker.at /\ worker'.frame = worker.frame /\ main' = "joinStarter"
      BY <1>1, <1>10 DEF JoinWorker, MainStep, viewer, TypeOK, WorkerStates
    <2> QED
      BY <1>0, <2>1, FramesUntouched
  <1>11. CASE JoinStarter
    <2>1. /\ UNCHANGED <<mode, worker, produced, stuffed, hasNew, buffered, shown>>
          /\ starter' = "joined" /\ main' = "free"
      BY <1>11 DEF JoinStarter, MainStep, viewer
    <2> QED
      BY <1>0, <2>1, FramesUntouched
  <1> QED
    BY <1>2, <1>3, <1>4, <1>5, <1>7, <1>8, <1>9, <1>10, <1>11
       DEF Next, StarterNext, WorkerNext, MainNext, StopNext, LeaveLoop, CloseWindow

-----------------------------------------------------------------------------
(* ~SutengDriver's Stop, after the one of main: whatever the start-up      *)
(* thread was doing when main left, when the process exits the driver is   *)
(* stopped and the worker, the start-up thread and the feed are joined.    *)
THEOREM NoneLeft == Spec => []NoThreadLeft
PROOF
  <1>1. LifeInv => NoThreadLeft
    BY DEF LifeInv, Joinable, Passes, NoThreadLeft
  <1> QED
    BY <1>1, LifeInvariant, PTL

(* Comm_Exit closes the log between the two calls of Stop: from there on   *)
(* the worker is at most about to find m_running reset.                    *)
THEOREM QuietAfterLog == Spec => []WorkerQuietAfterLog
PROOF
  <1>1. LifeInv => WorkerQuietAfterLog
    BY DEF LifeInv, Silenced, MetWorker, WorkerQuietAfterLog
  <1> QED
    BY <1>1, LifeInvariant, PTL

(* VisFrameBuffer: however worker and viewer interleave, and although      *)
(* Consume tests has_new_ without the lock, the frames shown only go       *)
(* forward.                                                                *)
THEOREM ForwardOnly == Spec => []ShownForward
PROOF
  <1>1. FramesInv => ShownForward
    BY DEF FramesInv
  <1> QED
    BY <1>1, InitFrames, FramesKept, LifeInvariant, PTL DEF Spec
=============================================================================
