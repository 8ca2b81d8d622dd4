---------------------------- MODULE LidarDriver ----------------------------
(***************************************************************************)
(* LidarDriverImpl of rs_driver (lidar_driver_impl.hpp) with its two       *)
(* SyncQueues: the input's receive thread fills buffers from the pool and  *)
(* queues them, the handle thread decodes them into the current cloud and  *)
(* publishes a cloud when a packet starts a new frame, and the caller      *)
(* starts and stops both.                                                  *)
(*                                                                         *)
(* A packet is its number in the order of arrival, the session it arrived  *)
(* in and a kind: "same" adds points to the frame, "split" starts a new    *)
(* frame with its first block, "mid" with a later one, "other" adds no     *)
(* point (DIFOP, IMU, or refused by processMsopPkt).  Exit flags are plain *)
(* bools read by another thread; every read follows a call that locks a    *)
(* mutex or enters the kernel, so a build reads them afresh.               *)
(***************************************************************************)
EXTENDS Integers, Sequences, FiniteSets, SequencesExt

CONSTANTS
  PoolMax,      (* PACKET_POOL_MAX, 10240: pkt_queue_ is cleared beyond it    *)
  CloudMax,     (* CLOUD_POINT_MAX, 5000000: the cloud is cleared beyond it   *)
  MaxPackets,   (* bound of the model: packets received                      *)
  MaxSessions   (* bound of the model: calls of start                        *)

ASSUME DriverAssumption == {PoolMax, CloudMax, MaxPackets, MaxSessions} \subseteq Nat

VARIABLES
  ctl,          (* caller: new -> stopped -> running -> joinInput -> joinHandle *)
  sessions,     (* history: calls of start that took effect                  *)
  toExitRecv, toExitHandle,
  recv,         (* receive thread: at, buf (its buffer), empty and size (the *)
                (* queue as push saw it)                                     *)
  handle,       (* handle thread: at, buf                                    *)
  pool,         (* free_pkt_queue_                                           *)
  queue,        (* pkt_queue_                                                *)
  content,      (* buffer -> the packet in it                                *)
  received,     (* packets received so far                                   *)
  cloud,        (* decoder's point_cloud_: the points, in order              *)
  published,    (* history: clouds handed to the caller                      *)
  decoded,      (* history: numbers of the packets decoded, in order         *)
  overflowed    (* history: pkt_queue_ was cleared for overflow              *)

vars == <<ctl, sessions, toExitRecv, toExitHandle, recv, handle, pool, queue,
          content, received, cloud, published, decoded, overflowed>>
frames == <<cloud, published>>

(* A buffer for everything that can hold one. *)
Buffers == 1 .. (PoolMax + 3)
None == 0

Packets == [n : 1..MaxPackets, session : 1..MaxSessions, kind : {"same", "split", "mid", "other"}]
(* Points of packet n before (2n) and after (2n + 1) a frame boundary in it. *)
Points == [at : Nat, session : 1..MaxSessions]

TypeOK ==
  /\ ctl \in {"new", "stopped", "running", "joinInput", "joinHandle"}
  /\ sessions \in 0..MaxSessions
  /\ toExitRecv \in BOOLEAN /\ toExitHandle \in BOOLEAN
  /\ recv \in [at : {"dead", "idle", "filled", "notify", "check"},
               buf : Buffers \cup {None}, empty : BOOLEAN, size : Nat]
  /\ handle \in [at : {"dead", "check", "waiting", "woken", "have", "recycle"},
                 buf : Buffers \cup {None}]
  /\ pool \in Seq(Buffers) /\ queue \in Seq(Buffers)
  /\ \A b \in DOMAIN content : content[b] \in Packets
  /\ received \in 0..MaxPackets
  /\ cloud \in Seq(Points) /\ published \in Seq(Seq(Points))
  /\ decoded \in Seq(1..MaxPackets)
  /\ overflowed \in BOOLEAN

-----------------------------------------------------------------------------
Init ==
  /\ ctl = "new"
  /\ sessions = 0
  /\ toExitRecv = FALSE
  /\ toExitHandle \in BOOLEAN       (* the constructor leaves it unset *)
  /\ recv = [at |-> "dead", buf |-> None, empty |-> FALSE, size |-> 0]
  /\ handle = [at |-> "dead", buf |-> None]
  /\ pool = << >> /\ queue = << >>
  /\ content = << >>
  /\ received = 0
  /\ cloud = << >> /\ published = << >>
  /\ decoded = << >>
  /\ overflowed = FALSE

-----------------------------------------------------------------------------
(* The caller *)

(* init: the decoder with its first cloud, and the input; it can fail. *)
InitDriver ==
  /\ ctl = "new"
  /\ ctl' = "stopped"
  /\ UNCHANGED <<sessions, toExitRecv, toExitHandle, recv, handle, pool, queue,
                 content, received, frames, decoded, overflowed>>

Start ==
  /\ ctl = "stopped"
  /\ sessions < MaxSessions
  /\ ctl' = "running"
  /\ sessions' = sessions + 1
  /\ toExitHandle' = FALSE /\ toExitRecv' = FALSE
  /\ handle' = [handle EXCEPT !.at = "check"]
  /\ recv' = [recv EXCEPT !.at = "idle"]
  /\ UNCHANGED <<pool, queue, content, received, frames, decoded, overflowed>>

(* stop, which first stops the input: sets its flag and joins its thread... *)
StopInput ==
  /\ ctl = "running"
  /\ ctl' = "joinInput"
  /\ toExitRecv' = TRUE
  /\ UNCHANGED <<sessions, toExitHandle, recv, handle, pool, queue, content,
                 received, frames, decoded, overflowed>>

(* mutant: the flag of the handle thread is forgotten *)
StopHandleFlagless ==
  /\ ctl = "joinInput" /\ recv.at = "dead"
  /\ ctl' = "joinHandle"
  /\ UNCHANGED <<sessions, toExitRecv, toExitHandle, recv, handle, pool, queue, content,
                 received, frames, decoded, overflowed>>

StopHandle ==
  /\ ctl = "joinInput" /\ recv.at = "dead"
  /\ ctl' = "joinHandle"
  /\ toExitHandle' = TRUE
  /\ UNCHANGED <<sessions, toExitRecv, recv, handle, pool, queue, content,
                 received, frames, decoded, overflowed>>

(* ... then joins the handle thread and clears the current cloud. *)
Stopped ==
  /\ ctl = "joinHandle" /\ handle.at = "dead"
  /\ ctl' = "stopped"
  /\ cloud' = << >>
  /\ UNCHANGED <<sessions, toExitRecv, toExitHandle, recv, handle, pool, queue,
                 content, received, published, decoded, overflowed>>

-----------------------------------------------------------------------------
(* The receive thread *)

InUse == Range(pool) \cup Range(queue) \cup {recv.buf, handle.buf}

(* packetGet: a buffer of the pool, or a new one; the mutant forgets to     *)
(* take it from the pool.                                                   *)
TakenBuffer == IF pool # << >> THEN Head(pool) ELSE CHOOSE b \in Buffers : b \notin InUse
WholePool == pool
RestOfPool == IF pool # << >> THEN Tail(pool) ELSE pool

(* A packet arrives and is copied to a buffer. *)
Receive ==
  /\ recv.at = "idle" /\ ~toExitRecv
  /\ received < MaxPackets
  /\ received' = received + 1
  /\ \E kind \in {"same", "split", "mid", "other"} :
       content' = [b \in DOMAIN content \cup {TakenBuffer} |->
                     IF b = TakenBuffer
                     THEN [n |-> received', session |-> sessions, kind |-> kind]
                     ELSE content[b]]
  /\ pool' = RestOfPool
  /\ recv' = [recv EXCEPT !.at = "filled", !.buf = TakenBuffer]
  /\ UNCHANGED <<ctl, sessions, toExitRecv, toExitHandle, handle, queue, frames,
                 decoded, overflowed>>

(* A buffer is taken, but recvfrom fails or the packet does not fit: the    *)
(* buffer is freed and the loop goes on.                                    *)
Discard ==
  /\ recv.at = "idle" /\ ~toExitRecv
  /\ pool # << >>
  /\ pool' = RestOfPool
  /\ UNCHANGED <<ctl, sessions, toExitRecv, toExitHandle, recv, handle, queue,
                 content, received, frames, decoded, overflowed>>

(* mutant: tested after the element is in *)
EmptyAfterPush == Append(queue, recv.buf) = << >>
EmptyBeforePush == queue = << >>

(* packetPut: SyncQueue::push under the lock, ... *)
Push ==
  /\ recv.at = "filled"
  /\ queue' = Append(queue, recv.buf)
  /\ recv' = [at |-> "notify", buf |-> None, empty |-> EmptyBeforePush, size |-> Len(queue) + 1]
  /\ UNCHANGED <<ctl, sessions, toExitRecv, toExitHandle, handle, pool, content,
                 received, frames, decoded, overflowed>>

(* ... its notification after the lock, ... *)
Notify ==
  /\ recv.at = "notify"
  /\ handle' = IF recv.empty /\ handle.at = "waiting"
               THEN [handle EXCEPT !.at = "woken"] ELSE handle
  /\ recv' = [recv EXCEPT !.at = "check"]
  /\ UNCHANGED <<ctl, sessions, toExitRecv, toExitHandle, pool, queue, content,
                 received, frames, decoded, overflowed>>

(* mutant: one too many *)
OverflowLate == recv.size > PoolMax + 1
Overflow == recv.size > PoolMax

(* ... and the clearing of a queue that was too long when it was pushed to. *)
CheckOverflow ==
  /\ recv.at = "check"
  /\ recv' = [recv EXCEPT !.at = "idle", !.empty = FALSE, !.size = 0]
  /\ IF Overflow
     THEN queue' = << >> /\ overflowed' = TRUE
     ELSE UNCHANGED <<queue, overflowed>>
  /\ UNCHANGED <<ctl, sessions, toExitRecv, toExitHandle, handle, pool, content,
                 received, frames, decoded>>

(* The loop ends on the flag; on the end of the file or a select error at   *)
(* any time.  (Started again after the end of its file, InputPcap reads     *)
(* through a null handle: such a restart is not modelled.)                  *)
RecvExit ==
  /\ recv.at = "idle"
  /\ recv' = [recv EXCEPT !.at = "dead"]
  /\ UNCHANGED <<ctl, sessions, toExitRecv, toExitHandle, handle, pool, queue,
                 content, received, frames, decoded, overflowed>>

-----------------------------------------------------------------------------
(* The handle thread *)

(* popWait, once it holds the lock: the first buffer, or "otherwise". *)
PopOr(otherwise) ==
  IF queue # << >>
  THEN handle' = [at |-> "have", buf |-> Head(queue)] /\ queue' = Tail(queue)
  ELSE handle' = [at |-> otherwise, buf |-> None] /\ UNCHANGED queue

(* mutant: the flag is tested on the way out, with a packet in hand *)
HandleLoopDropping ==
  /\ handle.at = "check"
  /\ IF toExitHandle
     THEN /\ handle' = [handle EXCEPT !.at = "dead"]
          /\ queue' = IF queue # << >> THEN Tail(queue) ELSE queue
     ELSE PopOr("waiting")
  /\ UNCHANGED <<ctl, sessions, toExitRecv, toExitHandle, recv, pool, content,
                 received, frames, decoded, overflowed>>

HandleLoop ==
  /\ handle.at = "check"
  /\ IF toExitHandle
     THEN handle' = [handle EXCEPT !.at = "dead"] /\ UNCHANGED queue
     ELSE PopOr("waiting")
  /\ UNCHANGED <<ctl, sessions, toExitRecv, toExitHandle, recv, pool, content,
                 received, frames, decoded, overflowed>>

(* Notified: wait_for tests its predicate and waits on when it is false. *)
Woken ==
  /\ handle.at = "woken"
  /\ PopOr("waiting")
  /\ UNCHANGED <<ctl, sessions, toExitRecv, toExitHandle, recv, pool, content,
                 received, frames, decoded, overflowed>>

(* 500 ms passed. *)
Timeout ==
  /\ handle.at \in {"waiting", "woken"}
  /\ PopOr("check")
  /\ UNCHANGED <<ctl, sessions, toExitRecv, toExitHandle, recv, pool, content,
                 received, frames, decoded, overflowed>>

Point(p, half) == [at |-> 2 * p.n + half, session |-> p.session]

(* splitFrame with the points c in the cloud: an empty cloud is kept. *)
SplitFrame(c) == published' = IF c # << >> THEN Append(published, c) ELSE published

(* mutant: the published cloud stays the current one *)
DecodeMsopSameCloud(p) ==
  CASE p.kind = "other" -> UNCHANGED frames
    [] p.kind = "same" -> cloud' = Append(cloud, Point(p, 0)) /\ UNCHANGED published
    [] OTHER -> SplitFrame(cloud) /\ cloud' = Append(cloud, Point(p, 1))

(* processMsopPkt: an overlong cloud is cleared before the packet is looked *)
(* at, whatever becomes of the packet; then decodeMsopPkt.                  *)
DecodeMsop(p) ==
  LET c == IF Len(cloud) > CloudMax THEN << >> ELSE cloud
  IN  CASE p.kind = "other" -> cloud' \in {cloud, c} /\ UNCHANGED published
        [] p.kind = "same" -> cloud' = Append(c, Point(p, 0)) /\ UNCHANGED published
        [] p.kind = "split" -> SplitFrame(c) /\ cloud' = << Point(p, 1) >>
        [] p.kind = "mid" -> SplitFrame(Append(c, Point(p, 0))) /\ cloud' = << Point(p, 1) >>

(* internalProcessPacket: decode, then give the buffer back to the pool. *)
Decode ==
  /\ handle.at = "have"
  /\ DecodeMsop(content[handle.buf])
  /\ decoded' = Append(decoded, content[handle.buf].n)
  /\ handle' = [handle EXCEPT !.at = "recycle"]
  /\ UNCHANGED <<ctl, sessions, toExitRecv, toExitHandle, recv, pool, queue,
                 content, received, overflowed>>

Recycle ==
  /\ handle.at = "recycle"
  /\ pool' = Append(pool, handle.buf)
  /\ handle' = [at |-> "check", buf |-> None]
  /\ UNCHANGED <<ctl, sessions, toExitRecv, toExitHandle, recv, queue, content,
                 received, frames, decoded, overflowed>>

-----------------------------------------------------------------------------
HandleNext == HandleLoop \/ Woken \/ Timeout \/ Decode \/ Recycle
RecvNext == Receive \/ Discard \/ Push \/ Notify \/ CheckOverflow \/ RecvExit
StopNext == StopHandle \/ Stopped

Next == InitDriver \/ Start \/ StopInput \/ StopNext \/ RecvNext \/ HandleNext

(* The threads are scheduled: a receive thread told to exit, or with a step *)
(* of packetPut to do, goes on; the handle thread goes on, if only by its   *)
(* timeout; a caller inside stop goes on.  Packets need not arrive.         *)
Fairness ==
  /\ WF_vars(toExitRecv /\ RecvExit)
  /\ WF_vars(Push) /\ WF_vars(Notify) /\ WF_vars(CheckOverflow)
  /\ WF_vars(HandleNext)
  /\ WF_vars(StopNext)

Spec == Init /\ [][Next]_vars /\ Fairness

-----------------------------------------------------------------------------
Held(t) == IF t.buf = None THEN << >> ELSE << t.buf >>
AllBuffers == pool \o queue \o Held(recv) \o Held(handle)

(***************************************************************************)
(* A buffer is in one place at a time (packetGet, packetPut,               *)
(* internalProcessPacket): the receive thread never overwrites a packet    *)
(* that waits to be decoded or is being decoded.                           *)
(***************************************************************************)
BuffersNotShared == IsInjective(AllBuffers)

(***************************************************************************)
(* The points of the clouds handed out so far and of the current one are   *)
(* those of the packets in the order they arrived, each at most once, over *)
(* all overflows, splits and restarts.                                     *)
(***************************************************************************)
PointsInOrder ==
  LET clouds == Append(published, cloud)
  IN  \A k, l \in DOMAIN clouds : \A i \in DOMAIN clouds[k], j \in DOMAIN clouds[l] :
        k < l \/ (k = l /\ i < j) => clouds[k][i].at < clouds[l][j].at

(***************************************************************************)
(* Packets are lost between reception and decoding only when the queue     *)
(* overflowed: until then those decoded, held and queued are exactly the   *)
(* ones received, even when stop and start came in between.                *)
(***************************************************************************)
NoSilentLoss ==
  ~overflowed =>
    LET pending == {content[b].n : b \in Range(queue) \cup (Range(Held(recv)))
                                        \cup (IF handle.at = "have" THEN {handle.buf} ELSE {})}
    IN  Range(decoded) \cup pending = 1..received

(***************************************************************************)
(* pkt_queue_ exceeds PACKET_POOL_MAX by the one packet that makes         *)
(* packetPut clear it, although push and clear lock separately; with the   *)
(* pool and the two threads, PACKET_POOL_MAX + 3 buffers are alive at most.*)
(***************************************************************************)
QueueBounded == Len(queue) <= PoolMax + 1 /\ Len(AllBuffers) <= PoolMax + 3

(***************************************************************************)
(* SyncQueue notifies only on the push to an empty queue, after unlocking: *)
(* the handle thread still never sleeps on a packet whose notification is  *)
(* behind it.                                                              *)
(***************************************************************************)
NoLostWakeup ==
  handle.at = "waiting" /\ queue # << >> => recv.at = "notify" /\ recv.empty

(***************************************************************************)
(* A stop that was begun ends, both threads joined, whatever they were     *)
(* doing.                                                                  *)
(***************************************************************************)
StopEnds == ctl = "joinInput" ~> ctl = "stopped" /\ recv.at = "dead" /\ handle.at = "dead"
=============================================================================
