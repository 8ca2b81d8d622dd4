------------------------------ MODULE LeiShen ------------------------------
(***************************************************************************)
(* LeiShenDrive (include/LeiShenDriver.cpp): the thread that owns it, the  *)
(* two socket threads (GetDataSock, GetDevSock), the decoder's thread      *)
(* (GetLidarData::LidarRun, detached) and the thread Start makes, which    *)
(* takes the clouds.  How a packet is decoded is in LsDecoders; here the   *)
(* decoder hands a cloud over after any packet of points.                  *)
(*                                                                         *)
(* Descriptors are numbers the kernel gives out, the lowest free one first *)
(* and again after they were closed.                                       *)
(***************************************************************************)
EXTENDS Integers, Sequences, FiniteSets

CONSTANTS
    Descriptors, \* numbers the kernel may give out
    MaxSent      \* bound: packets that reach the sockets

ASSUME DescriptorsAssumption == Descriptors \subseteq Nat /\ Cardinality(Descriptors) >= 2

Socks == {"data", "dev"}
NoFd == -1

VARIABLES
    type,       \* m_sLeiShenType: Init makes a decoder only for CH64w
    mode,       \* pcap, where a cloud taken is also removed, online and pcd,
                \* where it stays, or none of them, or more than one: unset
    works,      \* exactly one of curb and ground detection is switched on
    running,    \* m_running
    owner,      \* where the owner of the LeiShenDrive is
    dying,      \* Stop was called by the destructor
    pc,         \* where each socket thread is
    fd,         \* m_iDataSockFd, m_iDevSockFd
    open, shut, \* descriptors that are open, and those of them that are shut down
    waits,      \* the descriptor a socket thread is blocked on, NoFd when woken
    sent,       \* packets that reached the sockets
    queue,      \* allDataValue
    quit,       \* isQuit
    decoder,    \* where the decoder's thread is
    drv,        \* where the thread of Start is
    cloud       \* m_vLidarData: 0 when empty, else the number of its last packet

leiVars == <<type, mode, works, running, owner, dying, pc, fd, open, shut, waits, sent,
             queue, quit, decoder, drv, cloud>>
owned == <<type, mode, works>>

LeiInit ==
    /\ type \in {"CH64w", "LS128"} /\ mode \in {"online", "pcap", "unset"} /\ works \in BOOLEAN
    /\ running = FALSE /\ owner = "made" /\ dying = FALSE
    /\ pc = [s \in Socks |-> "none"] /\ fd = [s \in Socks |-> NoFd]
    /\ open = {} /\ shut = {} /\ waits = [s \in Socks |-> NoFd]
    /\ sent = 0 /\ queue = <<>> /\ quit = FALSE
    /\ decoder = "none" /\ drv = "none" /\ cloud = 0

-----------------------------------------------------------------------------
\* The owner.

InitDriver ==
    /\ owner = "made"
    /\ IF type # "CH64w"
       THEN owner' = "refused" /\ UNCHANGED <<running, pc, decoder, quit>>
       ELSE /\ owner' = "ready" /\ running' = TRUE /\ quit' = FALSE
            /\ decoder' = "top" /\ pc' = [s \in Socks |-> "open"]
    /\ UNCHANGED <<owned, dying, fd, open, shut, waits, sent, queue, drv, cloud>>

Start ==
    /\ owner = "ready" /\ drv = "none"
    /\ drv' = IF mode = "unset" THEN "done" ELSE "top"
    /\ owner' = "started"
    /\ UNCHANGED <<owned, running, dying, pc, fd, open, shut, waits, sent, queue, quit, decoder, cloud>>

Stop ==
    /\ owner \in {"ready", "started"}
    /\ running' = FALSE /\ owner' = "shutData"
    /\ UNCHANGED <<owned, dying, pc, fd, open, shut, waits, sent, queue, quit, decoder, drv, cloud>>

\* ~LeiShenDrive: Stop, once more or for the first time, and then Free.
DestroyFreeing ==                          (* mutant: Free before Stop *)
    /\ owner \in {"ready", "started", "stopped", "refused"}
    /\ dying' = TRUE /\ running' = FALSE /\ owner' = "shutData" /\ quit' = TRUE
    /\ UNCHANGED <<owned, pc, fd, open, shut, waits, sent, queue, decoder, drv, cloud>>
Destroy ==
    /\ owner \in {"ready", "started", "stopped", "refused"}
    /\ dying' = TRUE /\ running' = FALSE /\ owner' = "shutData"
    /\ UNCHANGED <<owned, pc, fd, open, shut, waits, sent, queue, quit, decoder, drv, cloud>>

\* shutdown wakes who waits on the number, whoever opened it, and lets nobody
\* wait on it again; close does neither.
Silent(n) == UNCHANGED <<shut, waits>>     (* mutant: close without shutdown *)
Shutdown(n) == /\ shut' = shut \cup ({n} \cap open)
               /\ waits' = [s \in Socks |-> IF waits[s] = n THEN NoFd ELSE waits[s]]
Closed(n) == open' = open \ {n} /\ shut' = shut \ {n}

\* Each statement reads the field again; the socket's thread may have reset it.
ShutIn(s, at, close, next) ==
    /\ owner = at
    /\ IF fd[s] = NoFd THEN owner' = next /\ UNCHANGED <<shut, waits>>
                       ELSE owner' = close /\ Shutdown(fd[s])
    /\ UNCHANGED <<owned, running, dying, pc, fd, open, sent, queue, quit, decoder, drv, cloud>>
CloseIn(s, at, reset) ==
    /\ owner = at /\ owner' = reset
    /\ Closed(fd[s])
    /\ UNCHANGED <<owned, running, dying, pc, fd, waits, sent, queue, quit, decoder, drv, cloud>>
ResetIn(s, at, next) ==
    /\ owner = at /\ owner' = next
    /\ fd' = [fd EXCEPT ![s] = NoFd]
    /\ UNCHANGED <<owned, running, dying, pc, open, shut, waits, sent, queue, quit, decoder, drv, cloud>>
StopData == \/ ShutIn("data", "shutData", "closeData", "shutDev")
            \/ CloseIn("data", "closeData", "resetData")
            \/ ResetIn("data", "resetData", "shutDev")
StopDev == \/ ShutIn("dev", "shutDev", "closeDev", "join")
           \/ CloseIn("dev", "closeDev", "resetDev")
           \/ ResetIn("dev", "resetDev", "join")

\* The three joins; the decoder's thread is detached and not among them.
Out(t) == t \in {"none", "done"}
Joined ==
    /\ owner = "join" /\ \A s \in Socks : Out(pc[s])
    /\ Out(drv)
    /\ owner' = IF dying THEN "free" ELSE "stopped"
    /\ UNCHANGED <<owned, running, dying, pc, fd, open, shut, waits, sent, queue, quit, decoder, drv, cloud>>

\* Free: LidarStop through m_pGetLidarData, which Init may not have set.
Free ==
    /\ owner = "free"
    /\ IF type = "CH64w" THEN quit' = TRUE /\ owner' = "delete"
                         ELSE owner' = "crashed" /\ UNCHANGED quit
    /\ UNCHANGED <<owned, running, dying, pc, fd, open, shut, waits, sent, queue, decoder, drv, cloud>>

Delete ==
    /\ owner = "delete" /\ owner' = "deleted"
    /\ UNCHANGED <<owned, running, dying, pc, fd, open, shut, waits, sent, queue, quit, decoder, drv, cloud>>

-----------------------------------------------------------------------------
\* The socket threads.

LowestFree ==
    CHOOSE n \in Descriptors \ open : \A m \in Descriptors \ open : n <= m

OpenSock(s) ==
    /\ pc[s] = "open"
    /\ \/ /\ fd' = [fd EXCEPT ![s] = LowestFree]
          /\ open' = open \cup {LowestFree}
          /\ pc' = [pc EXCEPT ![s] = "bind"] /\ UNCHANGED shut
       \/ /\ fd' = [fd EXCEPT ![s] = NoFd]
          /\ pc' = [pc EXCEPT ![s] = "done"] /\ UNCHANGED <<open, shut>>
    /\ UNCHANGED <<owned, running, owner, dying, waits, sent, queue, quit, decoder, drv, cloud>>

\* When an option or the bind fails the number is closed and stays in the field.
Bind(s) ==
    /\ pc[s] = "bind"
    /\ \/ /\ fd[s] \in open
          /\ pc' = [pc EXCEPT ![s] = "loop"] /\ UNCHANGED <<open, shut>>
       \/ /\ Closed(fd[s])
          /\ pc' = [pc EXCEPT ![s] = "done"]
    /\ UNCHANGED <<owned, running, owner, dying, fd, waits, sent, queue, quit, decoder, drv, cloud>>

Loop(s) ==
    /\ pc[s] = "loop"
    /\ pc' = [pc EXCEPT ![s] = IF running THEN "recv" ELSE "close"]
    /\ UNCHANGED <<owned, running, owner, dying, fd, open, shut, waits, sent, queue, quit, decoder, drv, cloud>>

Recv(s) ==
    /\ pc[s] = "recv"
    /\ IF fd[s] \in open \ shut
       THEN waits' = [waits EXCEPT ![s] = fd[s]] /\ pc' = [pc EXCEPT ![s] = "wait"]
       ELSE pc' = [pc EXCEPT ![s] = "loop"] /\ UNCHANGED waits
    /\ UNCHANGED <<owned, running, owner, dying, fd, open, shut, sent, queue, quit, decoder, drv, cloud>>

\* recvfrom returns with a packet: CollectionDataArrive.
Received(s) ==
    /\ pc[s] = "wait" /\ waits[s] # NoFd /\ sent < MaxSent
    /\ sent' = sent + 1
    /\ queue' = Append(queue, [from |-> s, no |-> sent + 1])
    /\ waits' = [waits EXCEPT ![s] = NoFd]
    /\ pc' = [pc EXCEPT ![s] = "loop"]
    /\ UNCHANGED <<owned, running, owner, dying, fd, open, shut, quit, decoder, drv, cloud>>

\* recvfrom returns with nothing.
Woken(s) ==
    /\ pc[s] = "wait" /\ waits[s] = NoFd
    /\ pc' = [pc EXCEPT ![s] = "loop"]
    /\ UNCHANGED <<owned, running, owner, dying, fd, open, shut, waits, sent, queue, quit, decoder, drv, cloud>>

CloseSock(s) ==
    /\ \/ /\ pc[s] = "close" /\ pc' = [pc EXCEPT ![s] = "reset"]
          /\ Closed(fd[s]) /\ UNCHANGED fd
       \/ /\ pc[s] = "reset" /\ pc' = [pc EXCEPT ![s] = "done"]
          /\ fd' = [fd EXCEPT ![s] = NoFd] /\ UNCHANGED <<open, shut>>
    /\ UNCHANGED <<owned, running, owner, dying, waits, sent, queue, quit, decoder, drv, cloud>>

Sock(s) == OpenSock(s) \/ Bind(s) \/ Loop(s) \/ Recv(s) \/ Woken(s) \/ CloseSock(s)

-----------------------------------------------------------------------------
\* The decoder's thread, LidarRun.  It may outlive the objects it works on.

DecTop ==
    /\ decoder = "top"
    /\ decoder' = IF quit THEN "clear" ELSE IF queue = <<>> THEN "top" ELSE "pop"
    /\ UNCHANGED <<owned, running, owner, dying, pc, fd, open, shut, waits, sent, queue, quit, drv, cloud>>

\* clearQueue, without the lock.
DecClear ==
    /\ decoder = "clear" /\ decoder' = "done" /\ queue' = <<>>
    /\ UNCHANGED <<owned, running, owner, dying, pc, fd, open, shut, waits, sent, quit, drv, cloud>>

\* A packet is popped and decoded; CallBackFunction replaces the cloud.
DecPop ==
    /\ decoder = "pop" /\ decoder' = "top" /\ queue' = Tail(queue)
    /\ \/ Head(queue).from = "data" /\ cloud' = Head(queue).no
       \/ UNCHANGED cloud
    /\ UNCHANGED <<owned, running, owner, dying, pc, fd, open, shut, waits, sent, quit, drv>>

Decoder == DecTop \/ DecClear \/ DecPop

-----------------------------------------------------------------------------
\* The thread of Start.

\* The test for a cloud is made without the lock.
DrvTop ==
    /\ drv = "top"
    /\ drv' = IF ~running THEN "done" ELSE IF cloud # 0 THEN "take" ELSE "top"
    /\ UNCHANGED <<owned, running, owner, dying, pc, fd, open, shut, waits, sent, queue, quit, decoder, cloud>>

DrvTake ==
    /\ drv = "take"
    /\ drv' = IF works THEN "top" ELSE "done"
    /\ cloud' = IF mode = "pcap" THEN 0 ELSE cloud
    /\ UNCHANGED <<owned, running, owner, dying, pc, fd, open, shut, waits, sent, queue, quit, decoder>>

Driver == DrvTop \/ DrvTake

-----------------------------------------------------------------------------
Owner == InitDriver \/ Start \/ Stop \/ Destroy \/ StopData \/ StopDev \/ Joined \/ Free \/ Delete
LeiNext == \/ Owner
           \/ \E s \in Socks : Sock(s) \/ Received(s)
           \/ Decoder
           \/ Driver

\* Each thread runs when it can; nothing makes a packet arrive.
LeiSpec == /\ LeiInit /\ [][LeiNext]_leiVars
           /\ WF_leiVars(StopData \/ StopDev \/ Joined \/ Free \/ Delete)
           /\ \A s \in Socks : WF_leiVars(Sock(s))
           /\ WF_leiVars(Decoder)
           /\ WF_leiVars(Driver)

-----------------------------------------------------------------------------
(* Stop returns although the LiDAR may never send another packet: a socket  *)
(* thread blocked in recvfrom, or on its way there, is woken, whatever      *)
(* failed and whichever numbers the two sockets got, and so does the thread *)
(* that takes the clouds end.  (While a thread still opens its socket Stop  *)
(* may hang: the number Stop just closed and has not yet reset can be given *)
(* out again, and a thread that waits on it is not woken by its close.)     *)
Settled == \A s \in Socks : pc[s] \notin {"open", "bind"}
StopReturns == owner = "shutData" /\ Settled ~> owner \in {"stopped", "free"}

(* The decoder throws its queue away without the lock; that is safe because *)
(* the destructor joins the threads that push before it sets isQuit.        *)
QueueToItself == decoder = "clear" => \A s \in Socks : Out(pc[s])
=============================================================================
