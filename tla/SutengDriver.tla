---------------------------- MODULE SutengDriver ----------------------------
(***************************************************************************)
(* The life of the program around SutengDriver: main, the signal thread,   *)
(* the start-up thread of SutengDriver::Start, the worker                  *)
(* (ProcessPcapCloud), the localization feed, and VisFrameBuffer between   *)
(* the worker and the viewer loop of main.                                 *)
(*                                                                         *)
(* The LiDAR driver is taken as LidarDriver specifies it: started, it      *)
(* publishes clouds; stop ends with its threads joined and publishes no    *)
(* more.  A frame is its number; 0 in a cloud is a cloud that is cleared   *)
(* or not filled yet.                                                      *)
(***************************************************************************)
EXTENDS Integers, Sequences, FiniteSets, SequencesExt

CONSTANT MaxFrames   (* bound of the model: clouds published by the driver *)

ASSUME FramesAssumption == MaxFrames \in Nat

VARIABLES
  mode,        (* pcapRunningModel, onlineModel or pcdRunningModel           *)
  main,        (* main's place, see MainPlaces                               *)
  leaving,     (* main is past its loop: 0 no, 1 first Stop, 2 ~SutengDriver *)
  early,       (* main leaves because the signal thread could not be made    *)
  signalled,   (* a signal was sent to the process                           *)
  signaller,   (* signal thread: none, waiting, done                         *)
  terminate,   (* TerminateFlag                                              *)
  running,     (* m_running                                                  *)
  starter,     (* m_SutengDriverThread: its place                            *)
  driver,      (* m_driver: init (init_flag_), threads, flag (start_flag_)   *)
  worker,      (* m_processThread: at its place, joinable, frame in hand     *)
  iteration,   (* m_frameCount of the debug viewer, 2 and more as 2          *)
  feed,        (* PcapLocalizationFeed's thread: none, running, done         *)
  logOpen,     (* between ulog_init and ulog_deinit                          *)
  produced,    (* clouds published by the driver                             *)
  stuffed,     (* stuffed_cloud_queue                                        *)
  ground, obstacle,    (* the two clouds of the worker: frame in them        *)
  hasNew, buffered,    (* VisFrameBuffer: has_new_, the frame of tracks_     *)
  shown,       (* history: frames whose tracks main consumed                 *)
  drawn        (* history: what was in the clouds when main drew them        *)

threads == <<mode, main, leaving, early, signalled, signaller, terminate, running,
             starter, driver, feed, logOpen>>
work == <<worker, iteration, ground, obstacle>>
vis == <<hasNew, buffered>>
viewer == <<shown, drawn>>
vars == <<threads, produced, stuffed, work, vis, viewer>>

MainPlaces == {"boot", "feed", "signal", "loop", "consume", "drawGround", "drawObstacle",
               "joinSignaller", "stop", "stopDriver", "joinWorker", "joinStarter",
               "free", "exit", "exited"}

DriverStates == [init : BOOLEAN, threads : BOOLEAN, flag : BOOLEAN]
WorkerPlaces == {"none", "loop", "pop", "clear", "fillGround", "fillObstacle", "publish", "done"}
WorkerStates == [at : WorkerPlaces, joinable : BOOLEAN, frame : 0..MaxFrames]
Drawings == [ground : 0..MaxFrames, obstacle : 0..MaxFrames]

TypeOK ==
  /\ mode \in {"pcap", "online", "pcd"}
  /\ main \in MainPlaces /\ leaving \in 0..2 /\ early \in BOOLEAN
  /\ signalled \in BOOLEAN /\ terminate \in BOOLEAN /\ running \in BOOLEAN
  /\ signaller \in {"none", "waiting", "done"}
  /\ starter \in {"none", "init", "worker", "threads", "flag", "pcd", "done", "joined"}
  /\ driver \in DriverStates /\ worker \in WorkerStates
  /\ iteration \in 0..2
  /\ feed \in {"none", "running", "done"}
  /\ logOpen \in BOOLEAN /\ hasNew \in BOOLEAN
  /\ produced \in 0..MaxFrames
  /\ stuffed \in Seq(1..MaxFrames) /\ shown \in Seq(0..MaxFrames)
  /\ {ground, obstacle, buffered} \subseteq 0..MaxFrames
  /\ drawn \in Drawings

Init ==
  /\ mode \in {"pcap", "online", "pcd"}
  /\ main = "boot" /\ leaving = 0 /\ early = FALSE
  /\ signalled = FALSE /\ signaller = "none" /\ terminate = FALSE
  /\ running = FALSE
  /\ starter = "none"
  /\ driver = [init |-> FALSE, threads |-> FALSE, flag |-> FALSE]
  /\ worker = [at |-> "none", joinable |-> FALSE, frame |-> 0]
  /\ iteration = 0
  /\ feed = "none"
  /\ logOpen = TRUE
  /\ produced = 0 /\ stuffed = << >>
  /\ ground = 0 /\ obstacle = 0
  /\ hasNew = FALSE /\ buffered = 0
  /\ shown = << >> /\ drawn = [ground |-> 0, obstacle |-> 0]

-----------------------------------------------------------------------------
(* The environment *)

(* A signal: blocked in main before this, so it waits for the signal thread. *)
Signal ==
  /\ ~signalled /\ main # "exited"
  /\ signalled' = TRUE
  /\ UNCHANGED <<mode, main, leaving, early, signaller, terminate, running, starter,
                 driver, feed, logOpen, produced, stuffed, work, vis, viewer>>

(* A cloud of the running driver: driverReturnPointCloudToCallerCallback. *)
Produce ==
  /\ driver.threads
  /\ produced < MaxFrames
  /\ produced' = produced + 1
  /\ stuffed' = Append(stuffed, produced')
  /\ UNCHANGED <<threads, work, vis, viewer>>

-----------------------------------------------------------------------------
(* Signal thread and localization feed *)

Terminate ==
  /\ signaller = "waiting" /\ signalled
  /\ signaller' = "done" /\ terminate' = TRUE
  /\ UNCHANGED <<mode, main, leaving, early, signalled, running, starter, driver, feed,
                 logOpen, produced, stuffed, work, vis, viewer>>

(* threadLoop at the end of the file, or asked to end by stop. *)
FeedEnds ==
  /\ feed = "running"
  /\ feed' = "done"
  /\ UNCHANGED <<mode, main, leaving, early, signalled, signaller, terminate, running,
                 starter, driver, logOpen, produced, stuffed, work, vis, viewer>>

-----------------------------------------------------------------------------
(* The thread of SutengDriver::Start *)

StarterStep(from, to) ==
  /\ starter = from
  /\ starter' = to
  /\ UNCHANGED <<mode, main, leaving, early, signalled, signaller, terminate, running,
                 feed, logOpen, produced, stuffed, iteration, viewer>>

(* m_driver.init, whose result is ignored. *)
InitDriver ==
  /\ StarterStep("init", "worker")
  /\ \E ok \in BOOLEAN : driver' = [driver EXCEPT !.init = ok]
  /\ UNCHANGED <<worker, ground, obstacle, vis>>

CreateWorker ==
  /\ StarterStep("worker", "threads")
  /\ worker' = [worker EXCEPT !.at = "loop", !.joinable = TRUE]
  /\ UNCHANGED <<driver, ground, obstacle, vis>>

(* m_driver.start: its threads first, start_flag_ last. *)
StartThreads ==
  /\ StarterStep("threads", IF driver.init THEN "flag" ELSE "done")
  /\ driver' = [driver EXCEPT !.threads = driver.init]
  /\ UNCHANGED <<worker, ground, obstacle, vis>>

SetStartFlag ==
  /\ StarterStep("flag", "done")
  /\ driver' = [driver EXCEPT !.flag = TRUE]
  /\ UNCHANGED <<worker, ground, obstacle, vis>>

(* pcd mode: the one cloud of the file, published without a worker, or a    *)
(* file that cannot be read.                                                *)
PcdFrame ==
  /\ StarterStep("pcd", "done")
  /\ \/ MaxFrames > 0 /\ ground' = 1 /\ obstacle' = 1 /\ hasNew' = TRUE /\ buffered' = 1
     \/ UNCHANGED <<ground, obstacle, vis>>
  /\ UNCHANGED <<driver, worker>>

-----------------------------------------------------------------------------
(* ProcessPcapCloud *)

WorkerStep(from, to) ==
  /\ worker.at = from
  /\ worker' = [worker EXCEPT !.at = to]
  /\ UNCHANGED <<threads, produced, viewer>>

WorkerLoop ==
  /\ WorkerStep("loop", IF running THEN "pop" ELSE "done")
  /\ iteration' = IF running THEN (IF iteration = 2 THEN 2 ELSE iteration + 1) ELSE iteration
  /\ UNCHANGED <<stuffed, ground, obstacle, vis>>

(* popWait; a frame met in the first iteration is skipped. *)
WorkerPop ==
  /\ worker.at = "pop"
  /\ stuffed # << >>
  /\ worker' = [worker EXCEPT !.frame = Head(stuffed),
                              !.at = IF iteration = 1 THEN "loop" ELSE "clear"]
  /\ stuffed' = Tail(stuffed)
  /\ UNCHANGED <<threads, produced, iteration, ground, obstacle, vis, viewer>>

(* mutant: popWait without a timeout *)
NoTimeout == FALSE

WorkerTimeout ==
  /\ WorkerStep("pop", "loop")
  /\ stuffed = << >>
  /\ UNCHANGED <<stuffed, iteration, ground, obstacle, vis>>

(* The two clouds live as long as the worker and are reused. *)
ClearClouds ==
  /\ WorkerStep("clear", "fillGround")
  /\ ground' = 0 /\ obstacle' = 0
  /\ UNCHANGED <<stuffed, iteration, vis>>

FillGround ==
  /\ WorkerStep("fillGround", "fillObstacle")
  /\ ground' = worker.frame
  /\ UNCHANGED <<stuffed, iteration, obstacle, vis>>

FillObstacle ==
  /\ WorkerStep("fillObstacle", "publish")
  /\ obstacle' = worker.frame
  /\ UNCHANGED <<stuffed, iteration, ground, vis>>

(* Publish under the lock (pcap mode), or the UDP message (online mode). *)
Publish ==
  /\ WorkerStep("publish", "loop")
  /\ IF mode = "pcap" THEN hasNew' = TRUE /\ buffered' = worker.frame ELSE UNCHANGED vis
  /\ UNCHANGED <<stuffed, iteration, ground, obstacle>>

-----------------------------------------------------------------------------
(* main *)

MainStep(from, to) ==
  /\ main = from
  /\ main' = to
  /\ UNCHANGED <<mode, signalled, produced, stuffed, iteration, ground, obstacle, buffered>>

(* SutengDriver::Start *)
Start ==
  /\ MainStep("boot", "feed")
  /\ running' = TRUE
  /\ starter' = IF mode = "pcd" THEN "pcd" ELSE "init"
  /\ UNCHANGED <<leaving, early, signaller, terminate, driver, worker, feed, logOpen,
                 hasNew, viewer>>

(* The feed is started in pcap mode, if the configuration asks for it. *)
StartFeed ==
  /\ MainStep("feed", "signal")
  /\ feed' \in IF mode = "pcap" THEN {"none", "running"} ELSE {"none"}
  /\ UNCHANGED <<leaving, early, signaller, terminate, running, starter, driver, worker,
                 logOpen, hasNew, viewer>>

CreateSignaller ==
  /\ MainStep("signal", "loop")
  /\ signaller' = "waiting"
  /\ UNCHANGED <<leaving, early, terminate, running, starter, driver, worker, feed,
                 logOpen, hasNew, viewer>>

(* pthread_create fails: main returns, its closing sequence cut short. *)
NoSignaller ==
  /\ MainStep("signal", "stop")
  /\ early' = TRUE /\ leaving' = 1
  /\ UNCHANGED <<signaller, terminate, running, starter, driver, worker, feed, logOpen,
                 hasNew, viewer>>

Leave ==
  /\ MainStep("loop", "joinSignaller")
  /\ UNCHANGED <<leaving, early, signaller, terminate, running, starter, driver, worker,
                 feed, logOpen, hasNew, viewer>>

(* The loop ends on the flag, and in the modes with a viewer when its       *)
(* window is closed.                                                        *)
LeaveLoop == terminate /\ Leave
CloseWindow == ~terminate /\ mode # "online" /\ Leave

(* Consume tests has_new_ before it takes the lock. *)
SeeNew ==
  /\ MainStep("loop", "consume")
  /\ ~terminate /\ mode # "online" /\ hasNew
  /\ UNCHANGED <<leaving, early, signaller, terminate, running, starter, driver, worker,
                 feed, logOpen, hasNew, viewer>>

(* mutant: has_new_ is not reset *)
ConsumeAgain ==
  /\ MainStep("consume", "drawGround")
  /\ shown' = Append(shown, buffered)
  /\ UNCHANGED <<leaving, early, signaller, terminate, running, starter, driver, worker,
                 feed, logOpen, hasNew, drawn>>

Consume ==
  /\ MainStep("consume", "drawGround")
  /\ shown' = Append(shown, buffered)
  /\ hasNew' = FALSE
  /\ UNCHANGED <<leaving, early, signaller, terminate, running, starter, driver, worker,
                 feed, logOpen, drawn>>

(* mutant: has_new_ is reset (again) when the frame is on the screen *)
DrawAndReset ==
  /\ \/ MainStep("drawGround", "drawObstacle") /\ drawn' = [drawn EXCEPT !.ground = ground]
        /\ UNCHANGED hasNew
     \/ MainStep("drawObstacle", "loop") /\ drawn' = [drawn EXCEPT !.obstacle = obstacle]
        /\ hasNew' = FALSE
  /\ UNCHANGED <<leaving, early, signaller, terminate, running, starter, driver, worker,
                 feed, logOpen, shown>>

(* UpdateGroundViewer, with the worker's clouds behind the two pointers. *)
Draw ==
  /\ \/ MainStep("drawGround", "drawObstacle") /\ drawn' = [drawn EXCEPT !.ground = ground]
     \/ MainStep("drawObstacle", "loop") /\ drawn' = [drawn EXCEPT !.obstacle = obstacle]
  /\ UNCHANGED <<leaving, early, signaller, terminate, running, starter, driver, worker,
                 feed, logOpen, hasNew, shown>>

JoinSignaller ==
  /\ MainStep("joinSignaller", "stop")
  /\ signaller = "done"
  /\ leaving' = 1
  /\ UNCHANGED <<early, signaller, terminate, running, starter, driver, worker, feed,
                 logOpen, hasNew, viewer>>

-----------------------------------------------------------------------------
(* SutengDriver::Stop, called by main and again by ~SutengDriver *)

(* mutant: m_running is not reset *)
StopKeepsRunning ==
  /\ MainStep("stop", "stopDriver")
  /\ UNCHANGED <<leaving, early, signaller, terminate, running, starter, driver, worker,
                 feed, logOpen, hasNew, viewer>>

Stop ==
  /\ MainStep("stop", "stopDriver")
  /\ running' = FALSE
  /\ UNCHANGED <<leaving, early, signaller, terminate, starter, driver, worker, feed,
                 logOpen, hasNew, viewer>>

(* m_driver.stop: nothing unless start_flag_ is set. *)
StopDriver ==
  /\ MainStep("stopDriver", "joinWorker")
  /\ driver' = IF driver.flag THEN [driver EXCEPT !.threads = FALSE, !.flag = FALSE] ELSE driver
  /\ UNCHANGED <<leaving, early, signaller, terminate, running, starter, worker, feed,
                 logOpen, hasNew, viewer>>

JoinWorker ==
  /\ MainStep("joinWorker", "joinStarter")
  /\ worker.joinable => worker.at = "done"
  /\ worker' = [worker EXCEPT !.joinable = FALSE]
  /\ UNCHANGED <<leaving, early, signaller, terminate, running, starter, driver, feed,
                 logOpen, hasNew, viewer>>

JoinStarter ==
  /\ MainStep("joinStarter", "free")
  /\ starter \in {"done", "joined"}
  /\ starter' = "joined"
  /\ UNCHANGED <<leaving, early, signaller, terminate, running, driver, worker, feed,
                 logOpen, hasNew, viewer>>

(* mutant: the destructor does not stop again *)
CloseForGood ==
  /\ MainStep("free", "exited")
  /\ early \/ feed # "running"
  /\ logOpen' = early
  /\ UNCHANGED <<leaving, early, signaller, terminate, running, starter, driver, worker,
                 feed, hasNew, viewer>>

(* Free; then, unless main returns early, the feed is stopped and Comm_Exit *)
(* closes the log; then ~SutengDriver stops everything once more.           *)
CloseComm ==
  /\ MainStep("free", "stop")
  /\ leaving = 1
  /\ leaving' = 2
  /\ early \/ feed # "running"
  /\ logOpen' = early
  /\ UNCHANGED <<early, signaller, terminate, running, starter, driver, worker, feed,
                 hasNew, viewer>>

(* The end of ~SutengDriver, then the destructor of the feed. *)
Exit ==
  /\ MainStep("free", "exited")
  /\ leaving = 2 /\ feed # "running"
  /\ UNCHANGED <<leaving, early, signaller, terminate, running, starter, driver, worker,
                 feed, logOpen, hasNew, viewer>>

-----------------------------------------------------------------------------
StarterNext == InitDriver \/ CreateWorker \/ StartThreads \/ SetStartFlag \/ PcdFrame

WorkerNext == WorkerLoop \/ WorkerPop \/ WorkerTimeout \/ ClearClouds \/ FillGround
              \/ FillObstacle \/ Publish

StopNext == Stop \/ StopDriver \/ JoinWorker \/ JoinStarter \/ CloseComm \/ Exit

MainNext == Start \/ StartFeed \/ CreateSignaller \/ NoSignaller \/ LeaveLoop \/ SeeNew
            \/ Consume \/ Draw \/ JoinSignaller \/ StopNext

Next == Signal \/ Produce \/ Terminate \/ FeedEnds \/ StarterNext \/ WorkerNext \/ MainNext
        \/ CloseWindow

(* Every thread is scheduled; nothing forces a signal, a cloud or the       *)
(* closing of the window.  The feed looks at its flag after every packet.   *)
Fairness ==
  /\ WF_vars(StarterNext) /\ WF_vars(WorkerNext) /\ WF_vars(MainNext)
  /\ WF_vars(Terminate) /\ WF_vars(FeedEnds)

Spec == Init /\ [][Next]_vars /\ Fairness

-----------------------------------------------------------------------------
(***************************************************************************)
(* When the process exits no thread is left: a Stop that overtakes the     *)
(* start-up thread does not reach the driver, which starts afterwards; the *)
(* Stop of ~SutengDriver does.                                             *)
(***************************************************************************)
NoThreadLeft ==
  main = "exited" => /\ ~driver.threads
                     /\ worker.at \in {"none", "done"} /\ ~worker.joinable
                     /\ starter = "joined"
                     /\ feed # "running"

(***************************************************************************)
(* The worker, which logs in every iteration, is in none once Comm_Exit    *)
(* has closed the log, even when it is created only after Stop looked for  *)
(* it.                                                                     *)
(***************************************************************************)
WorkerQuietAfterLog == ~logOpen => worker.at \in {"none", "loop", "done"} /\ ~running

(***************************************************************************)
(* The viewer never goes back or shows a frame twice, although has_new_ is *)
(* tested without the lock and unconsumed frames are overwritten.          *)
(***************************************************************************)
ShownForward == \A i, j \in DOMAIN shown : i < j => shown[i] < shown[j]

Behind == buffered > 0 /\ (shown = << >> \/ Last(shown) < buffered)

(***************************************************************************)
(* The newest published frame is shown unless the loop is left: resetting  *)
(* has_new_ never swallows a later Publish.                                *)
(***************************************************************************)
NewestShown == Behind /\ main = "loop" ~> ~Behind \/ main \in {"joinSignaller", "exited"}

(***************************************************************************)
(* After a signal the process exits, whichever thread was starting,        *)
(* waiting for a cloud or behind with its queue.                           *)
(***************************************************************************)
SignalEnds == signalled ~> main = "exited"
=============================================================================
