--------------------------- MODULE SocketServer ---------------------------
(***************************************************************************)
(* The socket servers of the daemon's source tree, HttpServer              *)
(* (daemon/http) and its split twin Server (daemon/server): one thread     *)
(* accepts, a detached thread handles each connection, a counter limits    *)
(* them, and start and stop come from the owner's thread.                  *)
(***************************************************************************)
EXTENDS Integers, FiniteSets

CONSTANTS Peers,            \* client addresses, each with one connection at a time
          MaxConnections    \* MAX_CONCURRENT_CONNECTIONS

ASSUME SocketAssumption == IsFiniteSet(Peers) /\ MaxConnections \in Nat \ {0}

VARIABLES
    variant,    \* "HttpServer", or "Server" whose running_ is a plain bool
    unblocks,   \* whether closing a socket wakes the accept() that waits on it
    mpc,        \* where the owner's thread is in start() or stop()
    serverUp,    \* running_
    fd,         \* server_fd_: "none", "open" or "listening"
    kernel,     \* the socket's life in the system: "gone", "open" or "listening"
    backlog,    \* connections nobody has accepted
    apc, inHand, \* the accept thread and the connections in its hands, at most one
    active,     \* active_connections_
    hpc         \* the connection of each peer

socketVars == <<variant, unblocks, mpc, serverUp, fd, kernel, backlog, apc, inHand, active, hpc>>

Handling == {p \in Peers : hpc[p] \in {"receive", "close", "down"}}
ownerVars == <<variant, unblocks, mpc, serverUp, fd>>

InitSockets ==
    /\ variant \in {"HttpServer", "Server"} /\ unblocks \in BOOLEAN
    /\ mpc = "idle" /\ serverUp = FALSE /\ fd = "none" /\ kernel = "gone" /\ backlog = {}
    /\ apc = "off" /\ inHand = {} /\ active = 0 /\ hpc = [p \in Peers |-> "away"]

(***************************************************************************)
(* start()                                                                 *)
(***************************************************************************)
Untouched == UNCHANGED <<variant, unblocks, backlog, inHand, active, hpc>>
GiveUpStart == mpc' = "idle" /\ fd' = "none" /\ kernel' = "gone" /\ UNCHANGED <<serverUp, apc>>

socket_create ==
    /\ mpc = "idle" /\ ~serverUp
    /\ \/ mpc' = "reuse" /\ fd' = "open" /\ kernel' = "open" /\ UNCHANGED <<serverUp, apc>>
       \/ GiveUpStart
socket_set_reuse_addr ==
    /\ mpc = "reuse"
    /\ (mpc' = "bind" /\ UNCHANGED <<serverUp, fd, kernel, apc>>) \/ GiveUpStart
socket_bind ==
    /\ mpc = "bind"
    /\ (mpc' = "listen" /\ UNCHANGED <<serverUp, fd, kernel, apc>>) \/ GiveUpStart
socket_listen ==
    /\ mpc = "listen"
    /\ \/ mpc' = "started" /\ fd' = "listening" /\ kernel' = "listening" /\ UNCHANGED <<serverUp, apc>>
       \/ GiveUpStart
StartThread ==
    /\ mpc = "started"
    /\ mpc' = "idle" /\ serverUp' = TRUE /\ apc' = "check" /\ UNCHANGED <<fd, kernel>>
start == (socket_create \/ socket_set_reuse_addr \/ socket_bind \/ socket_listen \/ StartThread) /\ Untouched

(***************************************************************************)
(* stop()                                                                  *)
(***************************************************************************)
LowerFlag ==
    /\ mpc = "idle" /\ serverUp /\ serverUp' = FALSE /\ mpc' = "close"
    /\ UNCHANGED <<fd, kernel, backlog, apc, hpc>>

(* What is queued on a socket that goes away is reset.                     *)
Reset == kernel' = "gone" /\ backlog' = {} /\ hpc' = [p \in Peers |-> IF p \in backlog THEN "away" ELSE hpc[p]]

(* A socket that an accept() waits on lives until that call returns.       *)
CloseServer ==
    /\ mpc = "close" /\ mpc' = "join" /\ fd' = "none"
    /\ IF apc = "waiting" THEN UNCHANGED <<kernel, backlog, hpc>> ELSE Reset
    /\ UNCHANGED <<serverUp, apc>>

Join ==
    /\ mpc = "join" /\ apc = "ended"
    /\ mpc' = "idle" /\ apc' = "off" /\ UNCHANGED <<serverUp, fd, kernel, backlog, hpc>>
stop == (LowerFlag \/ CloseServer \/ Join) /\ UNCHANGED <<variant, unblocks, inHand, active>>

(***************************************************************************)
(* acceptLoop()                                                            *)
(***************************************************************************)
(* The plain bool of Server may be read once for the whole loop.           *)
SeenRunning == {serverUp} \cup (IF variant = "Server" THEN {TRUE} ELSE {})

(* Wrong: the loop ends only when accept() says so.                        *)
CheckRunningNever ==
    /\ apc = "check"
    /\ apc' = IF fd = "listening" THEN "waiting" ELSE "check"
    /\ UNCHANGED <<ownerVars, kernel, backlog, inHand, active, hpc>>

CheckRunning ==
    /\ apc = "check"
    /\ \E seen \in SeenRunning :
          apc' = IF ~seen THEN "ended" ELSE IF fd = "listening" THEN "waiting" ELSE "check"
    /\ UNCHANGED <<ownerVars, kernel, backlog, inHand, active, hpc>>

(* accept() returns: the last use of a socket that was closed meanwhile.   *)
Returned == IF fd = "none" THEN Reset ELSE UNCHANGED <<kernel, backlog, hpc>>
Accept(p) ==
    /\ apc = "waiting" /\ p \in backlog
    /\ apc' = "count" /\ inHand' = {p}
    /\ IF fd = "none"
       THEN kernel' = "gone" /\ backlog' = {} /\ hpc' = [q \in Peers |-> IF q \in backlog \ {p} THEN "away" ELSE hpc[q]]
       ELSE backlog' = backlog \ {p} /\ UNCHANGED <<kernel, hpc>>
    /\ UNCHANGED <<ownerVars, active>>
AcceptFails == apc = "waiting" /\ apc' = "check" /\ Returned /\ UNCHANGED <<ownerVars, inHand, active>>
AcceptWoken == unblocks /\ fd = "none" /\ AcceptFails

Moved(to) == [p \in Peers |-> IF p \in inHand THEN to ELSE hpc[p]]

CountIn ==
    /\ apc = "count" /\ active' = active + 1
    /\ IF active >= MaxConnections THEN apc' = "refuse" /\ UNCHANGED <<inHand, hpc>>
       ELSE apc' = "check" /\ inHand' = {} /\ hpc' = Moved("receive")
    /\ UNCHANGED <<ownerVars, kernel, backlog>>

Refuse ==
    /\ apc = "refuse" /\ active' = active - 1
    /\ apc' = "check" /\ inHand' = {} /\ hpc' = Moved("away")
    /\ UNCHANGED <<ownerVars, kernel, backlog>>
acceptLoop == CheckRunning \/ (\E p \in Peers : Accept(p)) \/ AcceptFails \/ CountIn \/ Refuse

(***************************************************************************)
(* handleConnection()                                                      *)
(***************************************************************************)
(* A request was parsed and answered, refused with an error, or the peer   *)
(* left or was silent for the socket's timeout; sending may fail unseen.   *)
Serve(p) ==
    /\ hpc[p] = "receive" /\ hpc' = [hpc EXCEPT ![p] = "close"]
    /\ UNCHANGED <<ownerVars, kernel, backlog, apc, inHand, active>>

(* The peer sees the end of the connection before it is counted down.      *)
CloseConnection(p) ==
    /\ hpc[p] = "close" /\ hpc' = [hpc EXCEPT ![p] = "down"]
    /\ UNCHANGED <<ownerVars, kernel, backlog, apc, inHand, active>>

(* Wrong: the connection is closed and not counted down.                   *)
CountDownMissing(p) ==
    /\ hpc[p] = "down" /\ hpc' = [hpc EXCEPT ![p] = "away"]
    /\ UNCHANGED <<ownerVars, kernel, backlog, apc, inHand, active>>

CountDown(p) ==
    /\ hpc[p] = "down" /\ hpc' = [hpc EXCEPT ![p] = "away"] /\ active' = active - 1
    /\ UNCHANGED <<ownerVars, kernel, backlog, apc, inHand>>
handleConnection(p) == Serve(p) \/ CloseConnection(p) \/ CountDown(p)

(* The system completes a connection while the socket listens.             *)
Connect(p) ==
    /\ kernel = "listening" /\ hpc[p] = "away" /\ backlog' = backlog \cup {p}
    /\ hpc' = [hpc EXCEPT ![p] = "queued"]
    /\ UNCHANGED <<ownerVars, kernel, apc, inHand, active>>

NextSockets == start \/ stop \/ acceptLoop \/ \E p \in Peers : handleConnection(p) \/ Connect(p)

(* Threads are scheduled and accept() hands out what is queued.            *)
FairSockets ==
    /\ WF_socketVars(mpc # "idle" /\ (start \/ stop))
    /\ WF_socketVars(CheckRunning \/ AcceptWoken \/ CountIn \/ Refuse \/ \E p \in Peers : Accept(p))

SpecSockets == InitSockets /\ [][NextSockets]_socketVars /\ FairSockets

-----------------------------------------------------------------------------
(* Where start, stop and the accept loop stand, and the descriptor they    *)
(* share.                                                                  *)
TypeOKSockets ==
    /\ mpc \in {"idle", "reuse", "bind", "listen", "started", "close", "join"}
    /\ serverUp \in BOOLEAN /\ fd \in {"none", "open", "listening"} /\ kernel \in {"gone", "open", "listening"}
    /\ backlog \subseteq Peers /\ apc \in {"off", "check", "waiting", "count", "refuse", "ended"}
    /\ inHand \subseteq Peers /\ active \in Nat
    /\ hpc \in [Peers -> {"away", "queued", "receive", "close", "down"}]

(* The counter is the number of handler threads, and one more only while a *)
(* refusal is under way: it neither leaks, which would close the server to *)
(* everyone for good, nor wraps below zero, through stops and restarts.    *)
ActiveIsExact == active = Cardinality(Handling) + (IF apc = "refuse" THEN 1 ELSE 0)

(* No more than MAX_CONCURRENT_CONNECTIONS handler threads exist, however  *)
(* arrivals and endings interleave with the counter.                       *)
ThreadsAreBounded == Cardinality(Handling) <= MaxConnections

(* A server that was stopped, or whose start failed, has no listening      *)
(* socket and no thread that would still take a connection.                *)
StoppedIsQuiet == mpc = "idle" /\ ~serverUp => apc = "off" /\ kernel = "gone" /\ backlog = {}

(* stop() returns when closing the socket wakes accept(), and otherwise as *)
(* soon as one more peer connects; only the plain bool of Server may keep  *)
(* the loop alive.                                                         *)
StopReturns ==
    (variant = "HttpServer" /\ mpc = "join" /\ (unblocks \/ backlog # {})) ~> (mpc = "idle")

(* The connection counter of the socket servers is exact through every way *)
(* out of a connection, a stop and a restart, so that the limit holds and  *)
(* never closes the server for good; a stopped server is quiet.            *)
ServerKeepsCount ==
    /\ TypeOKSockets
    /\ ActiveIsExact
    /\ ThreadsAreBounded
    /\ StoppedIsQuiet
=============================================================================
