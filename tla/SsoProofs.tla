----------------------------- MODULE SsoProofs -----------------------------
(***************************************************************************)
(* Proofs about the sign-on models and the socket server: the inductive    *)
(* invariants behind their safety properties, the refinements of           *)
(* OneTimeStore, and both for the behaviours that MCSso checks.            *)
(***************************************************************************)
EXTENDS MCSso, FiniteSetTheorems, TLAPS

(***************************************************************************)
(* SocketServer                                                            *)
(***************************************************************************)
(* A connection waits in the backlog or in the accept thread's hands.      *)
ConnectionsAreSomewhere ==
    /\ backlog \cap inHand = {}
    /\ backlog \cup inHand = {p \in Peers : hpc[p] = "queued"}
    /\ IF apc \in {"count", "refuse"} THEN \E p \in Peers : inHand = {p} ELSE inHand = {}
    /\ kernel # "listening" => backlog = {}

(* The owner's thread, the flag, the descriptor and the accept thread move *)
(* together: the thread exists from the end of start() to the end of       *)
(* stop(), and what it waits on outlives the descriptor.                   *)
OwnerAndLoopAgree ==
    /\ serverUp => mpc = "idle" /\ apc # "ended"
    /\ serverUp => fd = "listening" /\ kernel = "listening" /\ apc # "off"
    /\ mpc = "close" => fd = "listening" /\ kernel = "listening" /\ apc # "off"
    /\ mpc = "join" => fd = "none" /\ apc # "off" /\ (apc # "waiting" => kernel = "gone")
    /\ ~serverUp /\ mpc \notin {"close", "join"} => apc = "off"
    /\ ~serverUp /\ mpc = "idle" => kernel = "gone"
    /\ mpc \in {"reuse", "bind", "listen"} => kernel = "open"
    /\ mpc = "started" => fd = "listening" /\ kernel = "listening"

SocketInv ==
    /\ TypeOKSockets /\ ActiveIsExact /\ ThreadsAreBounded
    /\ ConnectionsAreSomewhere /\ OwnerAndLoopAgree

LEMMA HandlingIsFinite == IsFiniteSet(Handling) /\ Cardinality(Handling) \in Nat
<1>1. IsFiniteSet(Handling)
  BY FS_Subset, SocketAssumption DEF Handling
<1> QED BY <1>1, FS_CardinalityType

LEMMA SocketInit == InitSockets => SocketInv
<1> SUFFICES ASSUME InitSockets PROVE SocketInv
  OBVIOUS
<1>1. Handling = {}
  BY DEF InitSockets, Handling
<1>2. Cardinality(Handling) = 0
  BY <1>1, FS_EmptySet
<1>3. ActiveIsExact /\ ThreadsAreBounded
  BY <1>2, SocketAssumption DEF InitSockets, ActiveIsExact, ThreadsAreBounded
<1>4. TypeOKSockets
  BY DEF InitSockets, TypeOKSockets
<1>5. ConnectionsAreSomewhere
  BY DEF InitSockets, ConnectionsAreSomewhere
<1>6. OwnerAndLoopAgree
  BY DEF InitSockets, OwnerAndLoopAgree
<1> QED BY <1>3, <1>4, <1>5, <1>6 DEF SocketInv

(* Steps that leave the connections alone.                                 *)
LEMMA HandlingStays ==
  ASSUME SocketInv, UNCHANGED <<hpc, active>>, apc' = "refuse" <=> apc = "refuse"
  PROVE  ActiveIsExact' /\ ThreadsAreBounded'
<1>1. Handling' = Handling
  BY DEF Handling
<1> QED BY <1>1 DEF SocketInv, ActiveIsExact, ThreadsAreBounded

LEMMA StartKeeps == SocketInv /\ start => SocketInv'
<1> SUFFICES ASSUME SocketInv, start PROVE SocketInv'
  OBVIOUS
<1>1. UNCHANGED <<backlog, inHand, active, hpc>>
  BY DEF start, Untouched
<1>2. TypeOKSockets'
  BY <1>1 DEF SocketInv, TypeOKSockets, start, socket_create, socket_set_reuse_addr, socket_bind, socket_listen,
              StartThread, GiveUpStart
<1>3. /\ apc = "off" /\ ~serverUp /\ mpc \in {"idle", "reuse", "bind", "listen", "started"} /\ apc' \in {"off", "check"}
      /\ kernel # "listening" \/ mpc = "started"
  BY DEF SocketInv, OwnerAndLoopAgree, start, socket_create, socket_set_reuse_addr, socket_bind, socket_listen,
         StartThread, GiveUpStart
<1>4. ActiveIsExact' /\ ThreadsAreBounded'
  BY <1>1, <1>3, HandlingStays
<1>5. ConnectionsAreSomewhere'
  BY <1>1, <1>3 DEF SocketInv, ConnectionsAreSomewhere, start, socket_create, socket_set_reuse_addr, socket_bind, socket_listen,
         StartThread, GiveUpStart
<1>6. OwnerAndLoopAgree'
  BY <1>3 DEF SocketInv, OwnerAndLoopAgree, start, socket_create, socket_set_reuse_addr, socket_bind, socket_listen,
         StartThread, GiveUpStart
<1> QED BY <1>2, <1>4, <1>5, <1>6 DEF SocketInv

(* Resetting the backlog takes no connection from a handler.               *)
LEMMA ResetKeeps ==
  ASSUME SocketInv, kernel' = "gone", backlog' = {}, NEW q, q = backlog \/ q = backlog \ inHand',
         hpc' = [p \in Peers |-> IF p \in q THEN "away" ELSE hpc[p]]
  PROVE  /\ Handling' = Handling
         /\ hpc' \in [Peers -> {"away", "queued", "receive", "close", "down"}]
         /\ {p \in Peers : hpc'[p] = "queued"} = {p \in Peers : hpc[p] = "queued"} \ q
  BY DEF SocketInv, TypeOKSockets, ConnectionsAreSomewhere, Handling

LEMMA StopKeeps == SocketInv /\ stop => SocketInv'
<1> SUFFICES ASSUME SocketInv, stop PROVE SocketInv'
  OBVIOUS
<1>1. UNCHANGED <<inHand, active>>
  BY DEF stop
<1>2. CASE LowerFlag
  <2>1. UNCHANGED <<fd, kernel, backlog, apc, hpc>> /\ serverUp /\ mpc = "idle" /\ serverUp' = FALSE /\ mpc' = "close"
    BY <1>2 DEF LowerFlag
  <2>2. ActiveIsExact' /\ ThreadsAreBounded'
    BY <1>1, <2>1, HandlingStays
  <2>3. TypeOKSockets' /\ ConnectionsAreSomewhere'
    BY <1>1, <2>1 DEF SocketInv, TypeOKSockets, ConnectionsAreSomewhere
  <2>4. OwnerAndLoopAgree'
    <3>1. fd = "listening" /\ kernel = "listening" /\ apc # "off"
      BY <2>1 DEF SocketInv, OwnerAndLoopAgree
    <3>2. fd' = "listening" /\ kernel' = "listening" /\ apc' # "off" /\ mpc' = "close" /\ ~serverUp'
      BY <2>1, <3>1
    <3> QED BY <3>2 DEF OwnerAndLoopAgree
  <2> QED BY <2>2, <2>3, <2>4 DEF SocketInv
<1>3. CASE CloseServer /\ apc = "waiting"
  <2>1. UNCHANGED <<kernel, backlog, hpc, serverUp, apc>> /\ mpc = "close" /\ mpc' = "join" /\ fd' = "none"
    BY <1>3 DEF CloseServer
  <2>2. ActiveIsExact' /\ ThreadsAreBounded'
    BY <1>1, <2>1, HandlingStays
  <2> QED BY <1>1, <1>3, <2>1, <2>2 DEF SocketInv, TypeOKSockets, ConnectionsAreSomewhere, OwnerAndLoopAgree
<1>4. CASE CloseServer /\ apc # "waiting"
  <2>1. Reset /\ UNCHANGED <<serverUp, apc>> /\ mpc = "close" /\ mpc' = "join" /\ fd' = "none"
    BY <1>4 DEF CloseServer
  <2>2. /\ Handling' = Handling /\ hpc' \in [Peers -> {"away", "queued", "receive", "close", "down"}]
        /\ {p \in Peers : hpc'[p] = "queued"} = {p \in Peers : hpc[p] = "queued"} \ backlog
    BY <2>1, ResetKeeps DEF Reset
  <2>3. ActiveIsExact' /\ ThreadsAreBounded'
    BY <1>1, <2>1, <2>2 DEF SocketInv, ActiveIsExact, ThreadsAreBounded
  <2>4. TypeOKSockets'
    BY <1>1, <2>1, <2>2 DEF SocketInv, TypeOKSockets, Reset
  <2>5. OwnerAndLoopAgree'
    <3>1. ~serverUp /\ apc # "off"
      BY <2>1 DEF SocketInv, OwnerAndLoopAgree
    <3>2. ~serverUp' /\ mpc' = "join" /\ fd' = "none" /\ kernel' = "gone" /\ apc' # "off"
      BY <2>1, <3>1 DEF Reset
    <3> QED BY <3>2 DEF OwnerAndLoopAgree
  <2>6. ConnectionsAreSomewhere'
    BY <1>1, <2>1, <2>2 DEF SocketInv, ConnectionsAreSomewhere, Reset
  <2> QED BY <2>3, <2>4, <2>5, <2>6 DEF SocketInv
<1>5. CASE Join
  <2>1. UNCHANGED <<serverUp, fd, kernel, backlog, hpc>> /\ mpc = "join" /\ apc = "ended" /\ mpc' = "idle" /\ apc' = "off"
    BY <1>5 DEF Join
  <2>2. ActiveIsExact' /\ ThreadsAreBounded'
    BY <1>1, <2>1, HandlingStays
  <2> QED BY <1>1, <2>1, <2>2 DEF SocketInv, TypeOKSockets, ConnectionsAreSomewhere, OwnerAndLoopAgree
<1> QED BY <1>2, <1>3, <1>4, <1>5 DEF stop

LEMMA AcceptKeeps ==
  ASSUME SocketInv, NEW p \in Peers, Accept(p)
  PROVE  SocketInv'
<1>1. /\ apc = "waiting" /\ p \in backlog /\ apc' = "count" /\ inHand' = {p} /\ inHand = {}
      /\ UNCHANGED <<mpc, serverUp, fd, active>>
  BY DEF Accept, ownerVars, SocketInv, ConnectionsAreSomewhere
<1>2. /\ Handling' = Handling /\ hpc' \in [Peers -> {"away", "queued", "receive", "close", "down"}]
      /\ backlog' \subseteq backlog \ {p} /\ kernel' \in {kernel, "gone"} /\ (kernel' # kernel => fd = "none" /\ backlog' = {})
      /\ backlog' \cup {p} = {q \in Peers : hpc'[q] = "queued"}
      /\ fd = "none" => kernel' = "gone"
  <2>1. CASE fd = "none"
    <3>1. /\ kernel' = "gone" /\ backlog' = {}
          /\ hpc' = [q \in Peers |-> IF q \in backlog \ {p} THEN "away" ELSE hpc[q]]
      BY <2>1 DEF Accept
    <3>2. /\ Handling' = Handling /\ hpc' \in [Peers -> {"away", "queued", "receive", "close", "down"}]
          /\ {q \in Peers : hpc'[q] = "queued"} = {q \in Peers : hpc[q] = "queued"} \ (backlog \ {p})
      BY <1>1, <3>1, ResetKeeps
    <3> QED BY <1>1, <2>1, <3>1, <3>2 DEF SocketInv, ConnectionsAreSomewhere
  <2>2. CASE fd # "none"
    <3>1. backlog' = backlog \ {p} /\ UNCHANGED <<kernel, hpc>>
      BY <2>2 DEF Accept
    <3> QED BY <1>1, <2>2, <3>1 DEF SocketInv, TypeOKSockets, ConnectionsAreSomewhere, Handling
  <2> QED BY <2>1, <2>2
<1>3. TypeOKSockets'
  BY <1>1, <1>2 DEF SocketInv, TypeOKSockets
<1>4. ActiveIsExact' /\ ThreadsAreBounded'
  BY <1>1, <1>2 DEF SocketInv, ActiveIsExact, ThreadsAreBounded
<1>5. ConnectionsAreSomewhere'
  BY <1>1, <1>2 DEF SocketInv, ConnectionsAreSomewhere
<1>6. OwnerAndLoopAgree'
  BY <1>1, <1>2 DEF SocketInv, OwnerAndLoopAgree
<1> QED BY <1>3, <1>4, <1>5, <1>6 DEF SocketInv

LEMMA LoopKeeps == SocketInv /\ (CheckRunning \/ AcceptFails) => SocketInv'
<1> SUFFICES ASSUME SocketInv, CheckRunning \/ AcceptFails PROVE SocketInv'
  OBVIOUS
<1>1. UNCHANGED <<mpc, serverUp, fd, inHand, active>>
  BY DEF CheckRunning, AcceptFails, ownerVars
<1>2. CASE CheckRunning
  <2>1. /\ apc = "check" /\ apc' \in {"check", "waiting", "ended"} /\ UNCHANGED <<kernel, backlog, hpc>>
        /\ apc' = "ended" => ~serverUp
        /\ apc' = "waiting" => fd = "listening"
    BY <1>2 DEF CheckRunning, SeenRunning
  <2>2. ActiveIsExact' /\ ThreadsAreBounded'
    BY <1>1, <2>1, HandlingStays
  <2> QED BY <1>1, <2>1, <2>2 DEF SocketInv, TypeOKSockets, ConnectionsAreSomewhere, OwnerAndLoopAgree
<1>3. CASE AcceptFails /\ fd # "none"
  <2>1. apc = "waiting" /\ apc' = "check" /\ UNCHANGED <<kernel, backlog, hpc>>
    BY <1>3 DEF AcceptFails, Returned
  <2>2. ActiveIsExact' /\ ThreadsAreBounded'
    BY <1>1, <2>1, HandlingStays
  <2> QED BY <1>1, <1>3, <2>1, <2>2 DEF SocketInv, TypeOKSockets, ConnectionsAreSomewhere, OwnerAndLoopAgree
<1>4. CASE AcceptFails /\ fd = "none"
  <2>1. apc = "waiting" /\ apc' = "check" /\ Reset
    BY <1>4 DEF AcceptFails, Returned
  <2>2. /\ Handling' = Handling /\ hpc' \in [Peers -> {"away", "queued", "receive", "close", "down"}]
        /\ {p \in Peers : hpc'[p] = "queued"} = {p \in Peers : hpc[p] = "queued"} \ backlog
    BY <2>1, ResetKeeps DEF Reset
  <2>3. ActiveIsExact' /\ ThreadsAreBounded'
    BY <1>1, <2>1, <2>2 DEF SocketInv, ActiveIsExact, ThreadsAreBounded
  <2>4. TypeOKSockets' /\ OwnerAndLoopAgree'
    BY <1>1, <1>4, <2>1, <2>2 DEF SocketInv, TypeOKSockets, OwnerAndLoopAgree, Reset
  <2>5. ConnectionsAreSomewhere'
    BY <1>1, <2>1, <2>2 DEF SocketInv, ConnectionsAreSomewhere, Reset
  <2> QED BY <2>3, <2>4, <2>5 DEF SocketInv
<1> QED BY <1>2, <1>3, <1>4

(* The counter is raised before the limit is looked at, and lowered again  *)
(* by the refusal.                                                         *)
LEMMA CountKeeps == SocketInv /\ (CountIn \/ Refuse) => SocketInv'
<1> SUFFICES ASSUME SocketInv, CountIn \/ Refuse PROVE SocketInv'
  OBVIOUS
<1>1. UNCHANGED <<mpc, serverUp, fd, kernel, backlog>> /\ apc \in {"count", "refuse"}
  BY DEF CountIn, Refuse, ownerVars
<1>2. PICK p \in Peers : inHand = {p}
  BY <1>1 DEF SocketInv, ConnectionsAreSomewhere
<1>3. hpc[p] = "queued" /\ p \notin backlog /\ p \notin Handling
  BY <1>2 DEF SocketInv, ConnectionsAreSomewhere, Handling
<1>4. active \in Nat /\ MaxConnections \in Nat \ {0} /\ Cardinality(Handling) \in Nat /\ IsFiniteSet(Handling)
  BY HandlingIsFinite, SocketAssumption DEF SocketInv, TypeOKSockets
<1>5. CASE CountIn /\ active >= MaxConnections
  <2>1. apc = "count" /\ active' = active + 1 /\ apc' = "refuse" /\ UNCHANGED <<inHand, hpc>>
    BY <1>5 DEF CountIn
  <2>2. Handling' = Handling
    BY <2>1 DEF Handling
  <2>3. ActiveIsExact' /\ ThreadsAreBounded'
    BY <1>4, <2>1, <2>2 DEF SocketInv, ActiveIsExact, ThreadsAreBounded
  <2> QED BY <1>1, <1>4, <2>1, <2>3 DEF SocketInv, TypeOKSockets, ConnectionsAreSomewhere, OwnerAndLoopAgree
<1>6. CASE CountIn /\ ~(active >= MaxConnections)
  <2>1. apc = "count" /\ active' = active + 1 /\ apc' = "check" /\ inHand' = {} /\ hpc' = Moved("receive")
    BY <1>6 DEF CountIn
  <2>2. hpc' = [q \in Peers |-> IF q = p THEN "receive" ELSE hpc[q]]
    BY <1>2, <2>1 DEF Moved
  <2>3. Handling' = Handling \cup {p}
    BY <2>2 DEF Handling
  <2>4. Cardinality(Handling') = Cardinality(Handling) + 1
    BY <1>3, <1>4, <2>3, FS_AddElement
  <2>5. ActiveIsExact' /\ ThreadsAreBounded'
    BY <1>4, <1>6, <2>1, <2>4 DEF SocketInv, ActiveIsExact, ThreadsAreBounded
  <2>6. TypeOKSockets'
    BY <1>1, <1>4, <2>1, <2>2 DEF SocketInv, TypeOKSockets
  <2>7. ConnectionsAreSomewhere'
    BY <1>1, <1>2, <1>3, <2>1, <2>2 DEF SocketInv, ConnectionsAreSomewhere
  <2> QED BY <1>1, <2>1, <2>5, <2>6, <2>7 DEF SocketInv, OwnerAndLoopAgree
<1>7. CASE Refuse
  <2>1. apc = "refuse" /\ active' = active - 1 /\ apc' = "check" /\ inHand' = {} /\ hpc' = Moved("away")
    BY <1>7 DEF Refuse
  <2>2. hpc' = [q \in Peers |-> IF q = p THEN "away" ELSE hpc[q]]
    BY <1>2, <2>1 DEF Moved
  <2>3. Handling' = Handling
    BY <1>3, <2>2 DEF Handling
  <2>4. active = Cardinality(Handling) + 1
    BY <2>1 DEF SocketInv, ActiveIsExact
  <2>5. ActiveIsExact' /\ ThreadsAreBounded' /\ active' \in Nat
    BY <1>4, <2>1, <2>3, <2>4 DEF SocketInv, ActiveIsExact, ThreadsAreBounded
  <2>6. TypeOKSockets'
    BY <1>1, <2>1, <2>2, <2>5 DEF SocketInv, TypeOKSockets
  <2>7. ConnectionsAreSomewhere'
    BY <1>1, <1>2, <1>3, <2>1, <2>2 DEF SocketInv, ConnectionsAreSomewhere
  <2> QED BY <1>1, <2>1, <2>5, <2>6, <2>7 DEF SocketInv, OwnerAndLoopAgree
<1> QED BY <1>5, <1>6, <1>7

LEMMA PeerKeeps ==
  ASSUME SocketInv, NEW p \in Peers, handleConnection(p) \/ Connect(p)
  PROVE  SocketInv'
<1>1. UNCHANGED <<mpc, serverUp, fd, kernel, apc, inHand>>
  BY DEF handleConnection, Serve, CloseConnection, CountDown, Connect, ownerVars
<1>2. hpc \in [Peers -> {"away", "queued", "receive", "close", "down"}]
  BY DEF SocketInv, TypeOKSockets
<1>3. active \in Nat /\ MaxConnections \in Nat /\ Cardinality(Handling) \in Nat /\ IsFiniteSet(Handling)
  BY HandlingIsFinite, SocketAssumption DEF SocketInv, TypeOKSockets
<1>4. CASE Serve(p) \/ CloseConnection(p)
  <2>1. /\ UNCHANGED <<backlog, active>>
        /\ \E to \in {"close", "down"} : hpc[p] \in {"receive", "close"} /\ hpc' = [hpc EXCEPT ![p] = to]
    BY <1>4 DEF Serve, CloseConnection
  <2>2. Handling' = Handling /\ hpc' \in [Peers -> {"away", "queued", "receive", "close", "down"}]
    BY <1>2, <2>1 DEF Handling
  <2>3. {q \in Peers : hpc'[q] = "queued"} = {q \in Peers : hpc[q] = "queued"}
    BY <1>2, <2>1
  <2>4. TypeOKSockets' /\ ActiveIsExact' /\ ThreadsAreBounded'
    BY <1>1, <2>1, <2>2 DEF SocketInv, TypeOKSockets, ActiveIsExact, ThreadsAreBounded
  <2> QED BY <1>1, <2>1, <2>3, <2>4 DEF SocketInv, ConnectionsAreSomewhere, OwnerAndLoopAgree
<1>5. CASE CountDown(p)
  <2>1. hpc[p] = "down" /\ hpc' = [hpc EXCEPT ![p] = "away"] /\ active' = active - 1 /\ backlog' = backlog
    BY <1>5 DEF CountDown
  <2>2. Handling' = Handling \ {p} /\ p \in Handling
    BY <1>2, <2>1 DEF Handling
  <2>3. Cardinality(Handling') = Cardinality(Handling) - 1 /\ Cardinality(Handling') \in Nat
    BY <1>3, <2>2, FS_RemoveElement, FS_CardinalityType
  <2>4. ActiveIsExact' /\ ThreadsAreBounded' /\ active' \in Nat
    BY <1>1, <1>3, <2>1, <2>3 DEF SocketInv, ActiveIsExact, ThreadsAreBounded
  <2>5. /\ hpc' \in [Peers -> {"away", "queued", "receive", "close", "down"}]
        /\ {q \in Peers : hpc'[q] = "queued"} = {q \in Peers : hpc[q] = "queued"}
    BY <1>2, <2>1
  <2> QED BY <1>1, <2>1, <2>4, <2>5 DEF SocketInv, TypeOKSockets, ConnectionsAreSomewhere, OwnerAndLoopAgree
<1>6. CASE Connect(p)
  <2>1. /\ kernel = "listening" /\ hpc[p] = "away" /\ backlog' = backlog \cup {p} /\ active' = active
        /\ hpc' = [hpc EXCEPT ![p] = "queued"]
    BY <1>6 DEF Connect
  <2>2. Handling' = Handling
    BY <1>2, <2>1 DEF Handling
  <2>3. /\ hpc' \in [Peers -> {"away", "queued", "receive", "close", "down"}]
        /\ {q \in Peers : hpc'[q] = "queued"} = {q \in Peers : hpc[q] = "queued"} \cup {p}
    BY <1>2, <2>1
  <2>4. p \notin backlog /\ p \notin inHand
    BY <2>1 DEF SocketInv, ConnectionsAreSomewhere
  <2>5. ActiveIsExact' /\ ThreadsAreBounded'
    BY <1>1, <2>1, <2>2 DEF SocketInv, ActiveIsExact, ThreadsAreBounded
  <2> QED BY <1>1, <2>1, <2>3, <2>4, <2>5 DEF SocketInv, TypeOKSockets, ConnectionsAreSomewhere, OwnerAndLoopAgree
<1> QED BY <1>4, <1>5, <1>6 DEF handleConnection

LEMMA SocketStep == SocketInv /\ [NextSockets]_socketVars => SocketInv'
<1> SUFFICES ASSUME SocketInv, [NextSockets]_socketVars PROVE SocketInv'
  OBVIOUS
<1>1. ASSUME UNCHANGED socketVars PROVE SocketInv'
  BY <1>1 DEF SocketInv, socketVars, TypeOKSockets, ActiveIsExact, ThreadsAreBounded, ConnectionsAreSomewhere,
              OwnerAndLoopAgree, Handling
<1> QED BY <1>1, StartKeeps, StopKeeps, AcceptKeeps, LoopKeeps, CountKeeps, PeerKeeps DEF NextSockets, acceptLoop

LEMMA SocketTells == SocketInv => ServerKeepsCount
  BY DEF SocketInv, ServerKeepsCount, StoppedIsQuiet, OwnerAndLoopAgree, ConnectionsAreSomewhere

(* For every set of peers and every limit, through failing starts, stops   *)
(* and restarts: the connection counter is the number of handler threads,  *)
(* the limit holds, and a stopped server has neither socket nor thread.    *)
THEOREM ServersKeepCount == SpecSockets => []ServerKeepsCount
<1>1. SpecSockets => []SocketInv
  BY SocketInit, SocketStep, PTL DEF SpecSockets
<1> QED BY <1>1, SocketTells, PTL

(***************************************************************************)
(* SsoTickets                                                              *)
(***************************************************************************)
(* A request holds a row that exists, it saw only what has been consumed   *)
(* by now, and a SAML response is signed for a request that was taken.     *)
TicketInv ==
    /\ TypeOKSso /\ ReplayRefused /\ AnswersAreConsumed
    /\ \A p \in SsoProcs : before[p] \subseteq consumed
    /\ \A p \in SsoProcs : sstep[p] \in {"update", "sign"} => srow[p] <= rows
    /\ \A p \in SsoProcs : sstep[p] = "sign" => srow[p] \in consumed
    /\ srow \in [SsoProcs -> SsoRows] /\ before \in [SsoProcs -> SUBSET SsoRows]

LEMMA RowFacts ==
  ASSUME TypeOKSso
  PROVE  /\ rows \in Nat /\ rows <= MaxSsoRows /\ MaxSsoRows \in Nat \ {0}
         /\ 1 \in SsoRows /\ 1 \in SsoKeys /\ SsoRows \subseteq Nat /\ SsoRows \subseteq SsoKeys /\ SamlIds \subseteq SsoKeys
         /\ 1..rows \subseteq SsoRows
  BY SsoAssumption DEF TypeOKSso, SsoRows, SsoKeys

LEMMA TicketInit == InitSso => TicketInv
  BY SsoAssumption
     DEF InitSso, TicketInv, TypeOKSso, ReplayRefused, AnswersAreConsumed, SsoRows, SsoKeys

(* Steps that add no row keep what the requests that do not move hold.     *)
LEMMA TicketStep == TicketInv /\ [NextSso]_ssoVars => TicketInv'
<1> SUFFICES ASSUME TicketInv, [NextSso]_ssoVars PROVE TicketInv'
  OBVIOUS
<1> USE DEF TicketInv
<1>0. /\ rows \in Nat /\ rows <= MaxSsoRows /\ MaxSsoRows \in Nat \ {0}
      /\ 1 \in SsoRows /\ 1 \in SsoKeys /\ SsoRows \subseteq Nat /\ SsoRows \subseteq SsoKeys /\ SamlIds \subseteq SsoKeys
      /\ 1..rows \subseteq SsoRows
  BY RowFacts
<1>1. ASSUME NEW k \in SsoKeys, rows < MaxSsoRows, rows' = rows + 1, ssoKey' = [ssoKey EXCEPT ![rows + 1] = k],
             UNCHANGED <<consumed, overdue, ssoRequest, answered>>
      PROVE  TicketInv'
  <2>1. rows' \in 0..MaxSsoRows /\ 1..rows \subseteq 1..rows'
    BY <1>0, <1>1
  <2>2. ssoKey' \in [SsoRows -> SsoKeys] /\ \A r \in SsoRows : r <= rows => ssoKey'[r] = ssoKey[r]
    <3>1. ssoKey \in [SsoRows -> SsoKeys]
      BY DEF TypeOKSso
    <3>2. \A r \in SsoRows : r <= rows => r # rows + 1
      BY <1>0
    <3> QED BY <1>1, <3>1, <3>2
  <2>3. UNCHANGED <<consumed, overdue, answered, sstep, skey, srow, fits, before>>
    BY <1>1 DEF ssoRequest
  <2>4. \A p \in SsoProcs : sstep[p] \in {"update", "sign"} => srow[p] <= rows' /\ ssoKey'[srow[p]] = skey[p]
    <3>1. \A p \in SsoProcs : srow[p] \in SsoRows /\ srow[p] \in Nat
      BY <1>0
    <3>2. \A p \in SsoProcs : srow[p] <= rows => srow[p] <= rows'
      BY <1>0, <1>1, <3>1
    <3> QED BY <2>2, <3>1, <3>2 DEF TypeOKSso
  <2>5. TypeOKSso'
    BY <2>1, <2>2, <2>3, <2>4 DEF TypeOKSso
  <2> QED BY <2>3, <2>4, <2>5 DEF ReplayRefused, AnswersAreConsumed
<1>2. CASE IssueTicket
  <2>1. rows + 1 \in SsoKeys
    BY <1>0, <1>2 DEF IssueTicket, SsoRows
  <2> QED BY <1>1, <1>2, <2>1 DEF IssueTicket
<1>3. ASSUME NEW id \in SamlIds, StoreRequest(id) PROVE TicketInv'
  BY <1>0, <1>1, <1>3 DEF StoreRequest
<1>4. ASSUME NEW r \in SsoRows, Expire(r) PROVE TicketInv'
  BY <1>4 DEF Expire, ssoRequest, TypeOKSso, ReplayRefused, AnswersAreConsumed
<1>5. ASSUME NEW p \in SsoProcs, NEW k \in SsoKeys, NEW ok \in BOOLEAN, Present(p, k, ok) PROVE TicketInv'
  <2>1. consumed \subseteq SsoRows
    BY <1>0 DEF TypeOKSso
  <2>2. \A q \in SsoProcs : before'[q] = IF q = p THEN consumed ELSE before[q]
    BY <1>5 DEF Present
  <2>3. \A q \in SsoProcs : sstep'[q] = (IF q = p THEN "list" ELSE sstep[q]) /\ (q # p => skey'[q] = skey[q])
    BY <1>5 DEF Present, TypeOKSso
  <2>4. TypeOKSso'
    BY <1>5, <2>3 DEF Present, TypeOKSso
  <2>5. before' \in [SsoProcs -> SUBSET SsoRows]
    BY <1>5, <2>1 DEF Present
  <2> QED BY <1>5, <2>2, <2>3, <2>4, <2>5 DEF Present, ReplayRefused, AnswersAreConsumed
<1>6. ASSUME NEW p \in SsoProcs, ListAccepts(p) PROVE TicketInv'
  <2>1. PICK r \in 1..rows :
          /\ ssoKey[r] = skey[p] /\ r \notin consumed /\ sstep' = [sstep EXCEPT ![p] = "update"]
          /\ srow' = [srow EXCEPT ![p] = r]
    BY <1>6 DEF ListAccepts, Front, Redeemable
  <2>2. UNCHANGED <<rows, ssoKey, consumed, overdue, skey, fits, before, answered>>
    BY <1>6 DEF ListAccepts
  <2>3. \A q \in SsoProcs : sstep'[q] = (IF q = p THEN "update" ELSE sstep[q]) /\ srow'[q] = (IF q = p THEN r ELSE srow[q])
    BY <2>1 DEF TypeOKSso
  <2>4. r \in SsoRows /\ r <= rows /\ r \notin before[p]
    BY <1>0, <2>1
  <2>5. sstep' \in [SsoProcs -> {"idle", "list", "update", "sign"}] /\ srow' \in [SsoProcs -> SsoRows]
    BY <2>1, <2>4 DEF TypeOKSso
  <2>6. TypeOKSso'
    BY <2>1, <2>2, <2>3, <2>5 DEF TypeOKSso
  <2> QED BY <2>2, <2>3, <2>4, <2>5, <2>6 DEF ReplayRefused, AnswersAreConsumed
<1>7. ASSUME NEW p \in SsoProcs, Done(p), UNCHANGED <<rows, ssoKey, overdue>>,
             consumed' \in {consumed, consumed \cup {srow[p]}}, answered' \subseteq answered \cup (consumed' \cap {srow[p]}),
             srow[p] <= rows \/ consumed' = consumed
      PROVE  TicketInv'
  <2>1. \A q \in SsoProcs :
          /\ sstep'[q] = (IF q = p THEN "idle" ELSE sstep[q]) /\ srow'[q] = (IF q = p THEN 1 ELSE srow[q])
          /\ skey'[q] = (IF q = p THEN 1 ELSE skey[q]) /\ before'[q] = (IF q = p THEN {} ELSE before[q])
    BY <1>7 DEF Done, TypeOKSso
  <2>2. /\ sstep' \in [SsoProcs -> {"idle", "list", "update", "sign"}] /\ srow' \in [SsoProcs -> SsoRows]
        /\ skey' \in [SsoProcs -> SsoKeys] /\ fits' \in [SsoProcs -> BOOLEAN] /\ before' \in [SsoProcs -> SUBSET SsoRows]
    BY <1>0, <1>7 DEF Done, TypeOKSso
  <2>3. consumed \subseteq consumed' /\ consumed' \subseteq 1..rows
    <3>1. srow[p] \in Nat /\ srow[p] >= 1
      BY <1>0 DEF SsoRows
    <3> QED BY <1>0, <1>7, <3>1 DEF TypeOKSso
  <2>4. TypeOKSso'
    BY <1>7, <2>1, <2>2, <2>3 DEF TypeOKSso
  <2>5. AnswersAreConsumed'
    BY <1>7, <2>3 DEF AnswersAreConsumed
  <2>6. ReplayRefused'
    BY <2>1 DEF ReplayRefused
  <2> QED BY <1>7, <2>1, <2>2, <2>3, <2>4, <2>5, <2>6
<1>8. ASSUME NEW p \in SsoProcs, ConsumeRequest(p) PROVE TicketInv'
  <2>1. /\ sstep[p] = "update" /\ consumed' = consumed \cup {srow[p]} /\ sstep' = [sstep EXCEPT ![p] = "sign"]
        /\ UNCHANGED <<rows, ssoKey, overdue, skey, srow, fits, before, answered>>
    BY <1>8 DEF ConsumeRequest
  <2>2. \A q \in SsoProcs : sstep'[q] = (IF q = p THEN "sign" ELSE sstep[q])
    BY <2>1 DEF TypeOKSso
  <2>3. srow[p] \in 1..rows
    BY <1>0, <2>1 DEF SsoRows
  <2>4. TypeOKSso'
    BY <2>1, <2>2, <2>3 DEF TypeOKSso
  <2>5. ReplayRefused' /\ AnswersAreConsumed'
    BY <2>1, <2>2 DEF ReplayRefused, AnswersAreConsumed
  <2> QED BY <2>1, <2>2, <2>4, <2>5
<1>9. ASSUME NEW p \in SsoProcs,
             ListRefuses(p) \/ ConsumeTicket(p) \/ UpdateFails(p) \/ SignResponse(p) \/ SignFails(p)
      PROVE  TicketInv'
  <2>1. CASE ListRefuses(p) \/ UpdateFails(p) \/ SignFails(p)
    BY <1>7, <2>1 DEF ListRefuses, UpdateFails, SignFails
  <2>2. CASE ConsumeTicket(p)
    BY <1>7, <2>2 DEF ConsumeTicket
  <2>3. CASE SignResponse(p)
    BY <1>7, <2>3 DEF SignResponse
  <2> QED BY <1>9, <2>1, <2>2, <2>3
<1>10. CASE UNCHANGED ssoVars
  BY <1>10 DEF ssoVars, TypeOKSso, ReplayRefused, AnswersAreConsumed
<1> QED BY <1>2, <1>3, <1>4, <1>5, <1>6, <1>8, <1>9, <1>10 DEF NextSso

LiveRows == 1 .. rows \ (consumed \cup overdue)
InsideRows == {e \in SsoProcs \X SsoRows : sstep[e[1]] = "update" /\ srow[e[1]] = e[2]}
StoreStep == [Redemptions!StoreNext]_<<LiveRows, InsideRows>>

LEMMA InsideStays ==
  ASSUME NEW p \in SsoProcs, sstep[p] # "update", sstep'[p] # "update",
         \A q \in SsoProcs : q # p => sstep'[q] = sstep[q] /\ srow'[q] = srow[q]
  PROVE  InsideRows' = InsideRows
  BY DEF InsideRows

LEMMA InsideLeaves ==
  ASSUME NEW p \in SsoProcs, srow[p] \in SsoRows, sstep[p] = "update", sstep'[p] # "update",
         \A q \in SsoProcs : q # p => sstep'[q] = sstep[q] /\ srow'[q] = srow[q]
  PROVE  <<p, srow[p]>> \in InsideRows /\ InsideRows' = InsideRows \ {<<p, srow[p]>>}
<1>1. <<p, srow[p]>> \in InsideRows
  BY DEF InsideRows
<1>2. \A e \in InsideRows' : e \in InsideRows /\ e # <<p, srow[p]>>
  BY DEF InsideRows
<1>3. \A e \in InsideRows : e = <<p, srow[p]>> \/ e \in InsideRows'
  BY DEF InsideRows
<1> QED BY <1>1, <1>2, <1>3

LEMMA DoneMoves ==
  ASSUME TicketInv, NEW p \in SsoProcs, Done(p)
  PROVE  /\ sstep'[p] = "idle" /\ srow[p] \in SsoRows
         /\ \A q \in SsoProcs : q # p => sstep'[q] = sstep[q] /\ srow'[q] = srow[q]
  BY DEF Done, TicketInv, TypeOKSso

(* A list call that accepts opens the row, the update spends it, and what  *)
(* happens around them moves no handle.                                    *)
LEMMA TicketRefines == TicketInv /\ [NextSso]_ssoVars => StoreStep
<1> SUFFICES ASSUME TicketInv, [NextSso]_ssoVars PROVE StoreStep
  OBVIOUS
<1>0. /\ rows \in Nat /\ rows <= MaxSsoRows /\ SsoRows \subseteq Nat /\ 1..rows \subseteq SsoRows /\ TypeOKSso
      /\ consumed \subseteq 1..rows /\ overdue \subseteq 1..rows
  BY RowFacts DEF TicketInv, TypeOKSso
<1>1. ASSUME rows < MaxSsoRows, rows' = rows + 1, UNCHANGED <<consumed, overdue, ssoRequest, answered>>
      PROVE  StoreStep
  <2>1. rows + 1 \in SsoRows \ LiveRows /\ rows + 1 \notin consumed \cup overdue
    BY <1>0, <1>1, SsoAssumption DEF LiveRows, SsoRows
  <2>2. InsideRows' = InsideRows
    BY <1>1 DEF InsideRows, ssoRequest
  <2>3. LiveRows' = (LiveRows \ {}) \cup {rows + 1}
    BY <1>0, <1>1, <2>1 DEF LiveRows
  <2>4. \A c \in SsoProcs : <<c, rows + 1>> \notin InsideRows
    <3>1. \A c \in SsoProcs : sstep[c] = "update" => srow[c] \in Nat /\ srow[c] <= rows
      BY <1>0 DEF TicketInv
    <3>2. \A c \in SsoProcs : sstep[c] = "update" => srow[c] # rows + 1
      BY <1>0, <3>1
    <3> QED BY <3>2 DEF InsideRows
  <2>5. Redemptions!Put
    <3> DEFINE h == rows + 1
    <3>1. /\ h \in SsoRows \ LiveRows /\ {} \in SUBSET LiveRows /\ LiveRows' = (LiveRows \ {}) \cup {h}
          /\ \A c \in SsoProcs : <<c, h>> \notin InsideRows
      BY <2>1, <2>3, <2>4
    <3> HIDE DEF h
    <3> QED BY <3>1, <2>2 DEF Redemptions!Put, LiveRows, InsideRows
  <2> QED BY <2>5 DEF StoreStep, Redemptions!StoreNext
<1>2. ASSUME NEW r \in SsoRows, Expire(r) PROVE StoreStep
  <2>1. InsideRows' = InsideRows
    BY <1>2 DEF Expire, ssoRequest, InsideRows
  <2>2. LiveRows' = LiveRows \ (LiveRows \cap {r})
    BY <1>2 DEF Expire, LiveRows
  <2>3. Redemptions!Lapse
    BY <2>1, <2>2 DEF Redemptions!Lapse, LiveRows, InsideRows
  <2> QED BY <2>3 DEF StoreStep, Redemptions!StoreNext
<1>3. ASSUME NEW p \in SsoProcs, NEW k \in SsoKeys, NEW ok \in BOOLEAN, Present(p, k, ok) PROVE StoreStep
  <2>1. /\ sstep[p] = "idle" /\ sstep'[p] = "list" /\ UNCHANGED <<rows, consumed, overdue>>
        /\ \A q \in SsoProcs : q # p => sstep'[q] = sstep[q] /\ srow'[q] = srow[q]
    BY <1>0, <1>3 DEF Present, TypeOKSso
  <2>2. InsideRows' = InsideRows
    BY <2>1, InsideStays
  <2>3. LiveRows' = LiveRows
    BY <2>1 DEF LiveRows
  <2> QED BY <2>2, <2>3 DEF StoreStep
<1>4. ASSUME NEW p \in SsoProcs, ListAccepts(p) PROVE StoreStep
  <2>1. PICK r \in 1..rows :
          /\ sstep[p] = "list" /\ r \notin consumed \cup overdue
          /\ sstep' = [sstep EXCEPT ![p] = "update"] /\ srow' = [srow EXCEPT ![p] = r]
    BY <1>4 DEF ListAccepts, Front, Redeemable
  <2>2. \A q \in SsoProcs : sstep'[q] = (IF q = p THEN "update" ELSE sstep[q]) /\ srow'[q] = (IF q = p THEN r ELSE srow[q])
    BY <1>0, <2>1 DEF TypeOKSso
  <2>3. r \in LiveRows /\ r \in SsoRows
    BY <1>0, <2>1 DEF LiveRows
  <2>4. LiveRows' = LiveRows
    BY <1>4 DEF ListAccepts, LiveRows
  <2>5. InsideRows' = InsideRows \cup {<<p, r>>}
    <3>1. <<p, r>> \in InsideRows'
      BY <2>2, <2>3 DEF InsideRows
    <3>2. \A e \in InsideRows' : e = <<p, r>> \/ e \in InsideRows
      BY <2>2 DEF InsideRows
    <3>3. \A e \in InsideRows : e \in InsideRows'
      BY <2>1, <2>2 DEF InsideRows
    <3> QED BY <3>1, <3>2, <3>3
  <2>6. Redemptions!Open
    BY <2>3, <2>4, <2>5 DEF Redemptions!Open, LiveRows, InsideRows
  <2> QED BY <2>6 DEF StoreStep, Redemptions!StoreNext
<1>5. ASSUME NEW p \in SsoProcs, sstep[p] # "update", Done(p), UNCHANGED <<rows, consumed, overdue>> PROVE StoreStep
  <2>1. InsideRows' = InsideRows
    BY <1>5, DoneMoves, InsideStays
  <2>2. LiveRows' = LiveRows
    BY <1>5 DEF LiveRows
  <2> QED BY <2>1, <2>2 DEF StoreStep
<1>6. ASSUME NEW p \in SsoProcs, sstep[p] = "update", sstep'[p] # "update", UNCHANGED <<rows, overdue>>,
             consumed' = consumed \cup {srow[p]}, \A q \in SsoProcs : q # p => sstep'[q] = sstep[q] /\ srow'[q] = srow[q]
      PROVE  StoreStep
  <2>1. srow[p] \in SsoRows
    BY DEF TicketInv
  <2>2. <<p, srow[p]>> \in InsideRows /\ InsideRows' = InsideRows \ {<<p, srow[p]>>}
    BY <1>6, <2>1, InsideLeaves
  <2>3. LiveRows' = LiveRows \ {srow[p]}
    BY <1>6 DEF LiveRows
  <2>4. <<p, srow[p]>>[2] = srow[p]
    OBVIOUS
  <2>5. Redemptions!Spend
    BY <2>2, <2>3, <2>4 DEF Redemptions!Spend, LiveRows, InsideRows
  <2> QED BY <2>5 DEF StoreStep, Redemptions!StoreNext
<1>7. ASSUME NEW p \in SsoProcs, ConsumeTicket(p) \/ ConsumeRequest(p) PROVE StoreStep
  <2>1. CASE ConsumeTicket(p)
    <3>1. sstep[p] = "update" /\ Done(p) /\ UNCHANGED <<rows, overdue>> /\ consumed' = consumed \cup {srow[p]}
      BY <2>1 DEF ConsumeTicket
    <3>2. /\ sstep'[p] = "idle"
          /\ \A q \in SsoProcs : q # p => sstep'[q] = sstep[q] /\ srow'[q] = srow[q]
      BY <3>1, DoneMoves
    <3> QED BY <3>1, <3>2, <1>6
  <2>2. CASE ConsumeRequest(p)
    <3>1. /\ sstep[p] = "update" /\ UNCHANGED <<rows, overdue, srow>> /\ consumed' = consumed \cup {srow[p]}
          /\ sstep' = [sstep EXCEPT ![p] = "sign"]
      BY <2>2 DEF ConsumeRequest
    <3>2. sstep'[p] = "sign" /\ \A q \in SsoProcs : q # p => sstep'[q] = sstep[q] /\ srow'[q] = srow[q]
      BY <1>0, <3>1 DEF TypeOKSso
    <3> QED BY <3>1, <3>2, <1>6
  <2> QED BY <1>7, <2>1, <2>2
<1>8. ASSUME NEW p \in SsoProcs, UpdateFails(p) PROVE StoreStep
  <2>1. sstep[p] = "update" /\ Done(p) /\ UNCHANGED <<rows, consumed, overdue>>
    BY <1>8 DEF UpdateFails
  <2>2. <<p, srow[p]>> \in InsideRows /\ InsideRows' = InsideRows \ {<<p, srow[p]>>}
    BY <2>1, DoneMoves, InsideLeaves
  <2>3. LiveRows' = LiveRows
    BY <2>1 DEF LiveRows
  <2>4. Redemptions!Leave
    BY <2>2, <2>3 DEF Redemptions!Leave, LiveRows, InsideRows
  <2> QED BY <2>4 DEF StoreStep, Redemptions!StoreNext
<1>9. ASSUME UNCHANGED ssoVars PROVE StoreStep
  BY <1>9 DEF ssoVars, StoreStep, LiveRows, InsideRows
<1>10. ASSUME NEW p \in SsoProcs, ListRefuses(p) \/ SignResponse(p) \/ SignFails(p) PROVE StoreStep
  BY <1>5, <1>10 DEF ListRefuses, SignResponse, SignFails
<1>11. IssueTicket \/ (\E id \in SamlIds : StoreRequest(id)) => StoreStep
  BY <1>1 DEF IssueTicket, StoreRequest
<1> QED BY <1>2, <1>3, <1>4, <1>7, <1>8, <1>9, <1>10, <1>11 DEF NextSso

(* For every number of rows and requests: replays are refused, answers     *)
(* consume their rows, and list-then-update is the single-use store in     *)
(* which overlapping readers share a handle.                               *)
THEOREM TicketsAreOneTime == SpecSso => TicketsAreSound
<1>1. SpecSso => []TicketInv
  BY TicketInit, TicketStep, PTL DEF SpecSso
<1>2. TicketInv => TypeOKSso /\ ReplayRefused /\ AnswersAreConsumed
  BY DEF TicketInv
<1>3. InitSso => Redemptions!StoreInit
  BY DEF InitSso, Redemptions!StoreInit
<1>4. SpecSso => Redemptions!StoreSpec
  BY <1>1, <1>3, TicketRefines, PTL DEF SpecSso, Redemptions!StoreSpec, StoreStep, LiveRows, InsideRows
<1> QED BY <1>1, <1>2, <1>4, PTL DEF TicketsAreSound, RowsAreOneTime

(***************************************************************************)
(* OidcLogin                                                               *)
(***************************************************************************)
IsMap(f, S, R) == DOMAIN f \subseteq S /\ f \in [DOMAIN f -> R]

(* Each live token is on a page, in its place, and stands for what the     *)
(* tabs that show it are about; no token is a continuation here and a      *)
(* restart token there.                                                    *)
Pages ==
    /\ IsMap(pending, LoginTokens, AuthRequests) /\ IsMap(restarts, LoginTokens, AuthRequests)
    /\ page \in [Tabs -> (LoginTokens \cup {NoToken}) \X (LoginTokens \cup {NoToken})]
    /\ want \in [Tabs -> AuthRequests] /\ lapsed \subseteq Tabs
    /\ \A k \in DOMAIN pending : \E o \in Tabs : page[o][1] = k
    /\ \A k \in DOMAIN restarts : \E o \in Tabs : page[o][2] = k
    /\ \A o, p \in Tabs : page[o][1] = page[p][2] => page[o][1] = NoToken
    /\ \A t \in Tabs : page[t][1] \in DOMAIN pending => pending[page[t][1]] = want[t]
    /\ \A t \in Tabs : page[t][2] \in DOMAIN restarts => restarts[page[t][2]] = want[t]
    /\ \A t \in Tabs : page[t] # Blank /\ t \notin lapsed => page[t][2] \in DOMAIN restarts

HandlerTypes ==
    /\ lstep \in [Tabs -> LoginSteps]
    /\ taken \in [Tabs -> (LoginTokens \cup {NoToken}) \X AuthRequests]
    /\ typed \in [Tabs -> Accounts \cup {NoOne}]
    /\ sid \in [Tabs -> SessionIds \cup {NoSession}]
    /\ stale \in [Tabs -> BOOLEAN]
    /\ grant \in [Tabs -> {<<>>} \cup {<<q>> : q \in AuthRequests}]
    /\ cookie \in SessionIds \cup {NoSession}
    /\ IsMap(sessions, SessionIds, Accounts)

Submitting == {"verify", "issue", "session"}

(* A handler holds the continuation of the page its tab still shows, which *)
(* nobody else can take, and acts for what that tab is about.              *)
TabAt(t) ==
    /\ lstep[t] \in Submitting =>
           taken[t][1] = page[t][1] /\ taken[t][1] \in LoginTokens /\ taken[t][1] \notin DOMAIN pending
    /\ lstep[t] \in Submitting \cup {"lookup", "reissue"} => taken[t][2] = want[t]
    /\ lstep[t] \in {"lookup", "reissue", "revoke", "clear"} => page[t] = Blank
    /\ lstep[t] \in {"issue", "session", "reissue"} => typed[t] # NoOne
    /\ lstep[t] = "lookup" /\ stale[t] => sid[t] \notin DOMAIN sessions
    /\ lstep[t] = "reissue" => ~stale[t]
    /\ grant[t] # <<>> => grant[t] = <<want[t]>>

TakenByOne ==
    \A t, o \in Tabs : t # o /\ lstep[t] \in Submitting /\ lstep[o] \in Submitting => taken[t][1] # taken[o][1]

LoginInv == Pages /\ HandlerTypes /\ (\A t \in Tabs : TabAt(t)) /\ TakenByOne

LEMMA MapsAreMaps ==
  ASSUME NEW f, NEW S, NEW R
  PROVE  IsMap(f, S, R) <=> f \in UNION {[D -> R] : D \in SUBSET S}
<1>1. IsMap(f, S, R) => f \in UNION {[D -> R] : D \in SUBSET S}
  BY DEF IsMap
<1>2. f \in UNION {[D -> R] : D \in SUBSET S} => IsMap(f, S, R)
  BY DEF IsMap
<1> QED BY <1>1, <1>2

LEMMA TokensAreTokens == LoginTokens \subseteq Nat /\ NoToken \notin LoginTokens
  BY LoginAssumption DEF LoginTokens, NoToken

LEMMA BindFacts ==
  ASSUME NEW f, NEW k, NEW v
  PROVE  /\ DOMAIN Bind(f, k, v) = DOMAIN f \cup {k}
         /\ \A j \in DOMAIN f \cup {k} : Bind(f, k, v)[j] = IF j = k THEN v ELSE f[j]
  BY DEF Bind

(* Where a navigation leads: t shows pg, and the stores keep what is shown. *)
LEMMA GotoMoves ==
  ASSUME NEW t \in Tabs, NEW pg, NEW pend, NEW rest, Goto(t, pg, pend, rest),
         page \in [Tabs -> (LoginTokens \cup {NoToken}) \X (LoginTokens \cup {NoToken})]
  PROVE  /\ page' = [page EXCEPT ![t] = pg]
         /\ \A o \in Tabs : page'[o] = IF o = t THEN pg ELSE page[o]
         /\ DOMAIN pending' \subseteq DOMAIN pend /\ DOMAIN restarts' \subseteq DOMAIN rest
         /\ \A k \in DOMAIN pending' : \E o \in Tabs : k \in {page'[o][1], page'[o][2]}
         /\ \A k \in DOMAIN restarts' : \E o \in Tabs : k \in {page'[o][1], page'[o][2]}
         /\ \A o \in Tabs : page'[o][1] \in DOMAIN pend => page'[o][1] \in DOMAIN pending'
         /\ \A o \in Tabs : page'[o][2] \in DOMAIN rest => page'[o][2] \in DOMAIN restarts'
         /\ pending' = [k \in DOMAIN pending' |-> pend[k]]
         /\ restarts' = [k \in DOMAIN restarts' |-> rest[k]]
<1> DEFINE shown(f) == {k \in DOMAIN f : \E o \in Tabs : k \in {page'[o][1], page'[o][2]}}
<1>1. /\ page' = [page EXCEPT ![t] = pg]
      /\ pending' = [k \in shown(pend) |-> pend[k]]
      /\ restarts' = [k \in shown(rest) |-> rest[k]]
  BY DEF Goto
<1>2. DOMAIN pending' = shown(pend) /\ DOMAIN restarts' = shown(rest)
  BY <1>1
<1>3. \A o \in Tabs : page'[o] = IF o = t THEN pg ELSE page[o]
  BY <1>1
<1>4. pending' = [k \in DOMAIN pending' |-> pend[k]] /\ restarts' = [k \in DOMAIN restarts' |-> rest[k]]
  BY <1>1, <1>2
<1>5. /\ \A k \in shown(pend) : k \in DOMAIN pend /\ \E o \in Tabs : k \in {page'[o][1], page'[o][2]}
      /\ \A k \in shown(rest) : k \in DOMAIN rest /\ \E o \in Tabs : k \in {page'[o][1], page'[o][2]}
      /\ \A o \in Tabs : page'[o][1] \in DOMAIN pend => page'[o][1] \in shown(pend)
      /\ \A o \in Tabs : page'[o][2] \in DOMAIN rest => page'[o][2] \in shown(rest)
  OBVIOUS
<1> HIDE DEF shown
<1> QED BY <1>1, <1>2, <1>3, <1>4, <1>5

(* A tab leaves its form.                                                  *)
LEMMA LeavingKeepsPages ==
  ASSUME Pages, NEW t \in Tabs, Goto(t, Blank, pending, restarts), UNCHANGED <<want, lapsed>>
  PROVE  Pages' /\ DOMAIN pending' \subseteq DOMAIN pending
<1>1. /\ \A o \in Tabs : page'[o] = IF o = t THEN Blank ELSE page[o]
      /\ page' = [page EXCEPT ![t] = Blank]
      /\ DOMAIN pending' \subseteq DOMAIN pending /\ DOMAIN restarts' \subseteq DOMAIN restarts
      /\ \A k \in DOMAIN pending' : \E o \in Tabs : k \in {page'[o][1], page'[o][2]}
      /\ \A k \in DOMAIN restarts' : \E o \in Tabs : k \in {page'[o][1], page'[o][2]}
      /\ \A o \in Tabs : page'[o][2] \in DOMAIN restarts => page'[o][2] \in DOMAIN restarts'
      /\ pending' = [k \in DOMAIN pending' |-> pending[k]]
      /\ restarts' = [k \in DOMAIN restarts' |-> restarts[k]]
  BY GotoMoves DEF Pages
<1>2. /\ DOMAIN pending \subseteq LoginTokens /\ DOMAIN restarts \subseteq LoginTokens
      /\ NoToken \notin LoginTokens /\ Blank[1] = NoToken /\ Blank[2] = NoToken
      /\ page \in [Tabs -> (LoginTokens \cup {NoToken}) \X (LoginTokens \cup {NoToken})]
  BY TokensAreTokens DEF Pages, IsMap, Blank
<1>3. IsMap(pending, LoginTokens, AuthRequests)' /\ IsMap(restarts, LoginTokens, AuthRequests)'
  BY <1>1 DEF Pages, IsMap
<1>4. page' \in [Tabs -> (LoginTokens \cup {NoToken}) \X (LoginTokens \cup {NoToken})]
  BY <1>1, <1>2 DEF Blank
<1>5. \A o, p \in Tabs : page'[o][1] = page'[p][2] => page'[o][1] = NoToken
  BY <1>1, <1>2 DEF Pages
<1>6. \A k \in DOMAIN pending' : \E o \in Tabs : page'[o][1] = k
  BY <1>1, <1>2 DEF Pages
<1>7. \A k \in DOMAIN restarts' : \E o \in Tabs : page'[o][2] = k
  BY <1>1, <1>2 DEF Pages
<1>8. \A o \in Tabs : page'[o][1] \in DOMAIN pending' => pending'[page'[o][1]] = want[o]
  BY <1>1, <1>2 DEF Pages
<1>9. \A o \in Tabs : page'[o][2] \in DOMAIN restarts' => restarts'[page'[o][2]] = want[o]
  BY <1>1, <1>2 DEF Pages
<1>10. \A o \in Tabs : page'[o] # Blank /\ o \notin lapsed => page'[o][2] \in DOMAIN restarts'
  BY <1>1 DEF Pages
<1> QED BY <1>1, <1>3, <1>4, <1>5, <1>6, <1>7, <1>8, <1>9, <1>10 DEF Pages

(* A tab is shown the form <<k, r>> for the request q: k is new, and r is  *)
(* the tab's own restart token or new as well.                             *)
NewForm(t, q, k, r, rest) ==
    /\ q \in AuthRequests /\ r \in LoginTokens \cup {NoToken}
    /\ k \in LoginTokens /\ k # r /\ k # page[t][2]
    /\ \A o \in Tabs \ {t} : k \notin {page[o][1], page[o][2]}
    /\ Goto(t, <<k, r>>, Bind(pending, k, q), rest)
    /\ IsMap(rest, LoginTokens, AuthRequests)
    /\ \A o \in Tabs : page[o][1] = r => r = NoToken
    /\ \A j \in DOMAIN rest : j = r \/ \E o \in Tabs \ {t} : page[o][2] = j
    /\ \A o \in Tabs \ {t} : page[o][2] \in DOMAIN rest => rest[page[o][2]] = want[o]
    /\ r \in DOMAIN rest => rest[r] = q
    /\ want' = [want EXCEPT ![t] = q] /\ lapsed' \subseteq Tabs
    /\ t \notin lapsed' => r \in DOMAIN rest
    /\ \A o \in Tabs \ {t} : page[o] # Blank /\ o \notin lapsed' => page[o][2] \in DOMAIN rest

LEMMA FormKeepsPages ==
  ASSUME Pages, NEW t \in Tabs, NEW q, NEW k, NEW r, NEW rest, NewForm(t, q, k, r, rest)
  PROVE  Pages' /\ DOMAIN pending' \subseteq DOMAIN pending \cup {k}
<1> USE DEF NewForm
<1>0. page \in [Tabs -> (LoginTokens \cup {NoToken}) \X (LoginTokens \cup {NoToken})]
  BY DEF Pages
<1>1. /\ \A o \in Tabs : page'[o] = IF o = t THEN <<k, r>> ELSE page[o]
      /\ page' = [page EXCEPT ![t] = <<k, r>>]
      /\ DOMAIN pending' \subseteq DOMAIN Bind(pending, k, q) /\ DOMAIN restarts' \subseteq DOMAIN rest
      /\ \A j \in DOMAIN pending' : \E o \in Tabs : j \in {page'[o][1], page'[o][2]}
      /\ \A o \in Tabs : page'[o][2] \in DOMAIN rest => page'[o][2] \in DOMAIN restarts'
      /\ pending' = [j \in DOMAIN pending' |-> Bind(pending, k, q)[j]]
      /\ restarts' = [j \in DOMAIN restarts' |-> rest[j]]
  BY <1>0, GotoMoves
<1>2. /\ DOMAIN pending' \subseteq DOMAIN pending \cup {k}
      /\ \A j \in DOMAIN pending' : pending'[j] = IF j = k THEN q ELSE pending[j]
  <2>1. \A j \in DOMAIN pending' : pending'[j] = Bind(pending, k, q)[j]
    BY <1>1
  <2>2. DOMAIN Bind(pending, k, q) = DOMAIN pending \cup {k}
    BY DEF Bind
  <2>3. \A j \in DOMAIN pending \cup {k} : Bind(pending, k, q)[j] = IF j = k THEN q ELSE pending[j]
    BY DEF Bind
  <2> QED BY <1>1, <2>1, <2>2, <2>3
<1>3. /\ DOMAIN pending \subseteq LoginTokens /\ DOMAIN rest \subseteq LoginTokens /\ NoToken \notin LoginTokens
      /\ <<k, r>>[1] = k /\ <<k, r>>[2] = r /\ Blank[1] = NoToken /\ Blank[2] = NoToken
  BY TokensAreTokens DEF Pages, IsMap, Blank
<1>4. IsMap(pending, LoginTokens, AuthRequests)'
  BY <1>1, <1>2, <1>3 DEF Pages, IsMap
<1>5. IsMap(restarts, LoginTokens, AuthRequests)'
  <2>1. \A j \in DOMAIN rest : rest[j] \in AuthRequests
    BY DEF IsMap
  <2> QED BY <1>1, <1>3, <2>1 DEF IsMap
<1>6. page' \in [Tabs -> (LoginTokens \cup {NoToken}) \X (LoginTokens \cup {NoToken})] /\ want' \in [Tabs -> AuthRequests]
  BY <1>1, <1>0 DEF Pages
<1>7. \A o, p \in Tabs : page'[o][1] = page'[p][2] => page'[o][1] = NoToken
  BY <1>1, <1>3 DEF Pages
<1>8. \A j \in DOMAIN pending' : \E o \in Tabs : page'[o][1] = j
  <2> SUFFICES ASSUME NEW j \in DOMAIN pending', j # k PROVE \E o \in Tabs \ {t} : page[o][1] = j
    BY <1>1, <1>3
  <2>1. PICK o \in Tabs : page[o][1] = j
    BY <1>2 DEF Pages
  <2>2. PICK p \in Tabs : j \in {page'[p][1], page'[p][2]}
    BY <1>1
  <2>3. j # NoToken /\ j # r
    BY <1>2, <1>3, <2>1
  <2>4. p # t
    BY <1>1, <1>3, <2>2, <2>3
  <2>5. page[p][2] # j
    BY <2>1, <2>3 DEF Pages
  <2> QED BY <1>1, <2>2, <2>4, <2>5
<1>9. \A j \in DOMAIN restarts' : \E o \in Tabs : page'[o][2] = j
  BY <1>1, <1>3
<1>10. \A o \in Tabs : want'[o] = IF o = t THEN q ELSE want[o]
  BY DEF Pages
<1>11. \A o \in Tabs : page'[o][1] \in DOMAIN pending' => pending'[page'[o][1]] = want'[o]
  <2> SUFFICES ASSUME NEW o \in Tabs, page'[o][1] \in DOMAIN pending' PROVE pending'[page'[o][1]] = want'[o]
    OBVIOUS
  <2>1. CASE o = t
    BY <2>1, <1>1, <1>2, <1>3, <1>10
  <2>2. CASE o # t
    <3>1. page'[o] = page[o] /\ page[o][1] # k /\ want'[o] = want[o]
      BY <2>2, <1>1, <1>10
    <3>2. page[o][1] \in DOMAIN pending
      BY <3>1, <1>2
    <3>3. pending[page[o][1]] = want[o]
      BY <3>2 DEF Pages
    <3> QED BY <3>1, <3>3, <1>2
  <2> QED BY <2>1, <2>2
<1>12. \A o \in Tabs : page'[o][2] \in DOMAIN restarts' => restarts'[page'[o][2]] = want'[o]
  BY <1>1, <1>3, <1>10
<1>13. \A o \in Tabs : page'[o] # Blank /\ o \notin lapsed' => page'[o][2] \in DOMAIN restarts'
  BY <1>1, <1>3
<1> QED BY <1>2, <1>4, <1>5, <1>6, <1>7, <1>8, <1>9, <1>11, <1>12, <1>13 DEF Pages

(* The form of the request a tab is about already, with its restart token. *)
LEMMA ShowFormKeeps ==
  ASSUME Pages, NEW t \in Tabs, page[t] # Blank, ShowForm(t, want[t], page[t][2], restarts), UNCHANGED <<want, lapsed>>
  PROVE  /\ Pages' /\ page' = [page EXCEPT ![t] = page'[t]]
         /\ \E k \in LoginTokens :
              /\ k \in Free(t) \ {page[t][2]} /\ DOMAIN pending' \subseteq DOMAIN pending \cup {k}
              /\ Goto(t, <<k, page[t][2]>>, Bind(pending, k, want[t]), restarts)
<1>1. PICK k \in LoginTokens :
        k \in Free(t) \ {page[t][2]} /\ Goto(t, <<k, page[t][2]>>, Bind(pending, k, want[t]), restarts)
  BY DEF ShowForm, Least
<1>2. /\ page \in [Tabs -> (LoginTokens \cup {NoToken}) \X (LoginTokens \cup {NoToken})]
      /\ want \in [Tabs -> AuthRequests] /\ lapsed \subseteq Tabs
      /\ IsMap(restarts, LoginTokens, AuthRequests)
      /\ \A o \in Tabs : page[o][1] = page[t][2] => page[t][2] = NoToken
      /\ \A j \in DOMAIN restarts : j = page[t][2] \/ \E o \in Tabs \ {t} : page[o][2] = j
      /\ \A o \in Tabs : page[o][2] \in DOMAIN restarts => restarts[page[o][2]] = want[o]
      /\ \A o \in Tabs : page[o] # Blank /\ o \notin lapsed => page[o][2] \in DOMAIN restarts
  BY DEF Pages
<1>3. page[t][2] \in LoginTokens \cup {NoToken} /\ want[t] \in AuthRequests /\ want' = [want EXCEPT ![t] = want[t]]
  BY <1>2
<1>4. k # page[t][2] /\ \A o \in Tabs \ {t} : k \notin {page[o][1], page[o][2]}
  BY <1>1 DEF Free
<1>5. Pages' /\ DOMAIN pending' \subseteq DOMAIN pending \cup {k}
  <2>1. NewForm(t, want[t], k, page[t][2], restarts)
    BY <1>1, <1>2, <1>3, <1>4 DEF NewForm
  <2> QED BY <2>1, FormKeepsPages
<1>6. page' = [page EXCEPT ![t] = page'[t]]
  BY <1>1, <1>2 DEF Goto
<1> QED BY <1>1, <1>5, <1>6

(* The form of a request that has just been stored.                        *)
LEMMA SendToLoginKeeps ==
  ASSUME Pages, NEW t \in Tabs, NEW q \in AuthRequests, page[t] = Blank, SendToLogin(t, q), want' = [want EXCEPT ![t] = q]
  PROVE  /\ Pages' /\ page' = [page EXCEPT ![t] = page'[t]]
         /\ \E k, r \in LoginTokens :
              /\ k \in Free(t) /\ DOMAIN pending' \subseteq DOMAIN pending \cup {k}
              /\ Goto(t, <<k, r>>, Bind(pending, k, q), Bind(restarts, r, q))
<1>1. PICK r \in LoginTokens : r \in Free(t) /\ ShowForm(t, q, r, Bind(restarts, r, q)) /\ lapsed' = lapsed \ {t}
  BY DEF SendToLogin, Least
<1>2. PICK k \in LoginTokens : k \in Free(t) \ {r} /\ Goto(t, <<k, r>>, Bind(pending, k, q), Bind(restarts, r, q))
  BY <1>1 DEF ShowForm, Least
<1>3. /\ page \in [Tabs -> (LoginTokens \cup {NoToken}) \X (LoginTokens \cup {NoToken})]
      /\ lapsed \subseteq Tabs /\ IsMap(restarts, LoginTokens, AuthRequests)
      /\ \A j \in DOMAIN restarts : \E o \in Tabs : page[o][2] = j
      /\ \A o \in Tabs : page[o][2] \in DOMAIN restarts => restarts[page[o][2]] = want[o]
      /\ \A o \in Tabs : page[o] # Blank /\ o \notin lapsed => page[o][2] \in DOMAIN restarts
      /\ page[t][1] = NoToken /\ page[t][2] = NoToken /\ NoToken \notin LoginTokens
  BY TokensAreTokens DEF Pages, Blank
<1>4. /\ k # r /\ k # page[t][2] /\ \A o \in Tabs \ {t} : k \notin {page[o][1], page[o][2]}
      /\ \A o \in Tabs \ {t} : r \notin {page[o][1], page[o][2]}
  BY <1>1, <1>2 DEF Free
<1>5. /\ IsMap(Bind(restarts, r, q), LoginTokens, AuthRequests)
      /\ DOMAIN Bind(restarts, r, q) = DOMAIN restarts \cup {r}
      /\ \A j \in DOMAIN restarts \cup {r} : Bind(restarts, r, q)[j] = IF j = r THEN q ELSE restarts[j]
  <2>1. DOMAIN restarts \subseteq LoginTokens /\ \A j \in DOMAIN restarts : restarts[j] \in AuthRequests
    BY <1>3 DEF IsMap
  <2>2. Bind(restarts, r, q) = [j \in DOMAIN restarts \cup {r} |-> IF j = r THEN q ELSE restarts[j]]
    BY DEF Bind
  <2>3. DOMAIN Bind(restarts, r, q) = DOMAIN restarts \cup {r}
    BY <2>2
  <2>4. \A j \in DOMAIN restarts \cup {r} : Bind(restarts, r, q)[j] = IF j = r THEN q ELSE restarts[j]
    BY <2>2
  <2>5. Bind(restarts, r, q) \in [DOMAIN restarts \cup {r} -> AuthRequests]
    BY <2>1, <2>2
  <2> QED BY <2>1, <2>3, <2>4, <2>5 DEF IsMap
<1>6. \A o \in Tabs : page[o][1] = r => r = NoToken
  BY <1>3, <1>4
<1>7. \A j \in DOMAIN Bind(restarts, r, q) : j = r \/ \E o \in Tabs \ {t} : page[o][2] = j
  <2>1. DOMAIN restarts \subseteq LoginTokens
    BY <1>3 DEF IsMap
  <2> QED BY <1>3, <1>5, <2>1
<1>8. \A o \in Tabs \ {t} : page[o][2] \in DOMAIN Bind(restarts, r, q) => Bind(restarts, r, q)[page[o][2]] = want[o]
  BY <1>3, <1>4, <1>5
<1>9. /\ r \in DOMAIN Bind(restarts, r, q) => Bind(restarts, r, q)[r] = q
      /\ t \notin lapsed' => r \in DOMAIN Bind(restarts, r, q)
      /\ lapsed' \subseteq Tabs
      /\ \A o \in Tabs \ {t} : page[o] # Blank /\ o \notin lapsed' => page[o][2] \in DOMAIN Bind(restarts, r, q)
  BY <1>1, <1>3, <1>5
<1>10. Pages' /\ DOMAIN pending' \subseteq DOMAIN pending \cup {k}
  <2>1. NewForm(t, q, k, r, Bind(restarts, r, q))
    BY <1>2, <1>4, <1>5, <1>6, <1>7, <1>8, <1>9 DEF NewForm
  <2> QED BY <2>1, FormKeepsPages
<1>11. page' = [page EXCEPT ![t] = page'[t]]
  BY <1>2, <1>3 DEF Goto
<1> QED BY <1>2, <1>10, <1>11

(* Entries go, pages stay; a tab whose restart token goes has lapsed.      *)
LEMMA RemovalKeepsPages ==
  ASSUME Pages, UNCHANGED <<page, want>>, lapsed \subseteq lapsed', lapsed' \subseteq Tabs,
         DOMAIN pending' \subseteq DOMAIN pending, pending' = [k \in DOMAIN pending' |-> pending[k]],
         DOMAIN restarts' \subseteq DOMAIN restarts, restarts' = [k \in DOMAIN restarts' |-> restarts[k]],
         \A t \in Tabs : page[t] # Blank /\ page[t][2] \in DOMAIN restarts => page[t][2] \in DOMAIN restarts' \/ t \in lapsed'
  PROVE  Pages'
<1>1. IsMap(pending, LoginTokens, AuthRequests)' /\ IsMap(restarts, LoginTokens, AuthRequests)'
  BY DEF Pages, IsMap
<1>2. page' = page /\ want' = want /\ page \in [Tabs -> (LoginTokens \cup {NoToken}) \X (LoginTokens \cup {NoToken})]
      /\ want \in [Tabs -> AuthRequests]
  BY DEF Pages
<1>3. \A o, p \in Tabs : page[o][1] = page[p][2] => page[o][1] = NoToken
  BY DEF Pages
<1>4. /\ \A k \in DOMAIN pending' : \E o \in Tabs : page[o][1] = k
      /\ \A k \in DOMAIN restarts' : \E o \in Tabs : page[o][2] = k
  BY DEF Pages
<1>5. /\ \A t \in Tabs : page[t][1] \in DOMAIN pending' => pending'[page[t][1]] = want[t]
      /\ \A t \in Tabs : page[t][2] \in DOMAIN restarts' => restarts'[page[t][2]] = want[t]
  BY DEF Pages
<1>6. \A t \in Tabs : page[t] # Blank /\ t \notin lapsed' => page[t][2] \in DOMAIN restarts'
  BY DEF Pages
<1> QED BY <1>1, <1>2, <1>3, <1>4, <1>5, <1>6 DEF Pages

LEMMA NothingMoved ==
  ASSUME Pages
  PROVE  /\ pending = [k \in DOMAIN pending |-> pending[k]]
         /\ restarts = [k \in DOMAIN restarts |-> restarts[k]]
         /\ lapsed \subseteq Tabs
  BY DEF Pages, IsMap

(* A tab with no form sets out with a request.                             *)
LEMMA SettingOutKeepsPages ==
  ASSUME Pages, NEW t \in Tabs, NEW q \in AuthRequests, page[t] = Blank, UNCHANGED <<pending, restarts, page>>,
         want' = [want EXCEPT ![t] = q], lapsed' = lapsed \ {t}
  PROVE  Pages'
<1>1. /\ DOMAIN pending \subseteq LoginTokens /\ DOMAIN restarts \subseteq LoginTokens /\ NoToken \notin LoginTokens
      /\ page[t][1] = NoToken /\ page[t][2] = NoToken
  BY TokensAreTokens DEF Pages, IsMap, Blank
<1>2. \A o \in Tabs : want'[o] = IF o = t THEN q ELSE want[o]
  BY DEF Pages
<1>3. want' \in [Tabs -> AuthRequests] /\ lapsed' \subseteq Tabs
  BY DEF Pages
<1>4. /\ \A o \in Tabs : page[o][1] \in DOMAIN pending => pending[page[o][1]] = want'[o]
      /\ \A o \in Tabs : page[o][2] \in DOMAIN restarts => restarts[page[o][2]] = want'[o]
      /\ \A o \in Tabs : page[o] # Blank /\ o \notin lapsed' => page[o][2] \in DOMAIN restarts
  BY <1>1, <1>2 DEF Pages
<1> QED BY <1>3, <1>4 DEF Pages, IsMap

LEMMA DuplicateKeepsPages ==
  ASSUME Pages, NEW t \in Tabs, NEW o \in Tabs, DuplicateTab(t, o)
  PROVE  Pages'
<1>1. /\ page[t] = Blank /\ page[o] # Blank /\ UNCHANGED <<pending, restarts>>
      /\ page' = [page EXCEPT ![t] = page[o]] /\ want' = [want EXCEPT ![t] = want[o]]
      /\ lapsed' = IF o \in lapsed THEN lapsed \cup {t} ELSE lapsed \ {t}
  BY DEF DuplicateTab, tokenVars
<1>2. /\ page \in [Tabs -> (LoginTokens \cup {NoToken}) \X (LoginTokens \cup {NoToken})]
      /\ want \in [Tabs -> AuthRequests] /\ lapsed \subseteq Tabs
      /\ DOMAIN pending \subseteq LoginTokens /\ DOMAIN restarts \subseteq LoginTokens /\ NoToken \notin LoginTokens
      /\ page[t][1] = NoToken /\ page[t][2] = NoToken
  BY <1>1, TokensAreTokens DEF Pages, IsMap, Blank
<1>3. \A p \in Tabs : /\ page'[p] = (IF p = t THEN page[o] ELSE page[p])
                      /\ want'[p] = (IF p = t THEN want[o] ELSE want[p])
  BY <1>1, <1>2
<1>4. /\ page' \in [Tabs -> (LoginTokens \cup {NoToken}) \X (LoginTokens \cup {NoToken})]
      /\ want' \in [Tabs -> AuthRequests] /\ lapsed' \subseteq Tabs
  BY <1>1, <1>2
<1>5. \A a, b \in Tabs : page'[a][1] = page'[b][2] => page'[a][1] = NoToken
  BY <1>3 DEF Pages
<1>6. \A k \in DOMAIN pending : \E p \in Tabs : page'[p][1] = k
  <2> SUFFICES ASSUME NEW k \in DOMAIN pending PROVE \E p \in Tabs : page'[p][1] = k
    OBVIOUS
  <2>1. PICK p \in Tabs : page[p][1] = k
    BY DEF Pages
  <2>2. p # t
    BY <1>2, <2>1
  <2> QED BY <1>3, <2>1, <2>2
<1>7. \A k \in DOMAIN restarts : \E p \in Tabs : page'[p][2] = k
  <2> SUFFICES ASSUME NEW k \in DOMAIN restarts PROVE \E p \in Tabs : page'[p][2] = k
    OBVIOUS
  <2>1. PICK p \in Tabs : page[p][2] = k
    BY DEF Pages
  <2>2. p # t
    BY <1>2, <2>1
  <2> QED BY <1>3, <2>1, <2>2
<1>8. /\ \A p \in Tabs : page'[p][1] \in DOMAIN pending => pending[page'[p][1]] = want'[p]
      /\ \A p \in Tabs : page'[p][2] \in DOMAIN restarts => restarts[page'[p][2]] = want'[p]
  BY <1>3 DEF Pages
<1>9. \A p \in Tabs : page'[p] # Blank /\ p \notin lapsed' => page'[p][2] \in DOMAIN restarts
  <2> SUFFICES ASSUME NEW p \in Tabs, page'[p] # Blank, p \notin lapsed' PROVE page'[p][2] \in DOMAIN restarts
    OBVIOUS
  <2>1. CASE p = t
    BY <1>1, <1>3, <2>1 DEF Pages
  <2>2. CASE p # t
    BY <1>1, <1>3, <2>2 DEF Pages
  <2> QED BY <2>1, <2>2
<1> QED BY <1>1, <1>4, <1>5, <1>6, <1>7, <1>8, <1>9 DEF Pages, IsMap

LEMMA LoginInitial == InitLogin => LoginInv
<1> SUFFICES ASSUME InitLogin PROVE LoginInv
  OBVIOUS
<1>1. (CHOOSE q \in AuthRequests : TRUE) \in AuthRequests
  BY LoginAssumption
<1>2. Blank = <<0, 0>> /\ NoToken = 0 /\ NoToken \notin LoginTokens
  BY TokensAreTokens DEF Blank, NoToken
<1>3. Pages
  <2>1. pending = <<>> /\ restarts = <<>> /\ DOMAIN pending = {} /\ DOMAIN restarts = {} /\ lapsed = {}
    BY DEF InitLogin
  <2>2. IsMap(pending, LoginTokens, AuthRequests) /\ IsMap(restarts, LoginTokens, AuthRequests)
    BY <2>1 DEF IsMap
  <2>3. \A t \in Tabs : page[t] = Blank /\ page[t][1] = NoToken /\ page[t][2] = NoToken
    BY <1>2 DEF InitLogin
  <2>4. want \in [Tabs -> AuthRequests]
    BY <1>1 DEF InitLogin
  <2>5. page \in [Tabs -> (LoginTokens \cup {NoToken}) \X (LoginTokens \cup {NoToken})]
    BY DEF InitLogin, Blank
  <2> QED BY <2>1, <2>2, <2>3, <2>4, <2>5 DEF Pages
<1>4. HandlerTypes
  <2>1. IsMap(sessions, SessionIds, Accounts)
    BY DEF InitLogin, IsMap
  <2> QED BY <1>1, <2>1 DEF InitLogin, HandlerTypes, LoginSteps
<1>5. \A t \in Tabs : lstep[t] = "idle" /\ grant[t] = <<>>
  BY DEF InitLogin
<1> QED BY <1>3, <1>4, <1>5 DEF LoginInv, TabAt, TakenByOne, Submitting

(* What a step of tab t leaves alone in the others.                        *)
OthersStay(t) == \A o \in Tabs \ {t} :
    /\ lstep'[o] = lstep[o] /\ taken'[o] = taken[o] /\ typed'[o] = typed[o] /\ sid'[o] = sid[o]
    /\ stale'[o] = stale[o] /\ page'[o] = page[o] /\ want'[o] = want[o] /\ grant'[o] = grant[o]

(* ... and what it must not bring back: a continuation another handler     *)
(* holds, or a session another handler found missing.                      *)
NothingComesBack(t) == \A o \in Tabs \ {t} :
    /\ taken[o][1] \in DOMAIN pending' => taken[o][1] \in DOMAIN pending
    /\ sid[o] \in DOMAIN sessions' => sid[o] \in DOMAIN sessions

LEMMA HandlerKeeps ==
  ASSUME LoginInv, NEW t \in Tabs, OthersStay(t), NothingComesBack(t), TabAt(t)',
         lstep'[t] \in Submitting =>
             (lstep[t] \in Submitting /\ taken'[t] = taken[t]) \/ taken'[t][1] \in DOMAIN pending
  PROVE  (\A o \in Tabs : TabAt(o))' /\ TakenByOne'
<1>1. \A o \in Tabs \ {t} : TabAt(o)'
  <2> SUFFICES ASSUME NEW o \in Tabs \ {t} PROVE TabAt(o)'
    OBVIOUS
  <2>1. TabAt(o)
    BY DEF LoginInv
  <2>2. /\ lstep'[o] = lstep[o] /\ taken'[o] = taken[o] /\ typed'[o] = typed[o] /\ sid'[o] = sid[o]
        /\ stale'[o] = stale[o] /\ page'[o] = page[o] /\ want'[o] = want[o] /\ grant'[o] = grant[o]
        /\ taken[o][1] \in DOMAIN pending' => taken[o][1] \in DOMAIN pending
        /\ sid[o] \in DOMAIN sessions' => sid[o] \in DOMAIN sessions
    BY DEF OthersStay, NothingComesBack
  <2> QED BY <2>1, <2>2 DEF TabAt
<1>2. \A o \in Tabs \ {t} : lstep[o] \in Submitting => taken[o][1] \notin DOMAIN pending
  BY DEF LoginInv, TabAt
<1>3. \A a, o \in Tabs : a # o /\ lstep[a] \in Submitting /\ lstep[o] \in Submitting => taken[a][1] # taken[o][1]
  BY DEF LoginInv, TakenByOne
<1>4. \A o \in Tabs \ {t} : lstep'[t] \in Submitting /\ lstep[o] \in Submitting => taken'[t][1] # taken[o][1]
  BY <1>2, <1>3
<1>5. TakenByOne'
  BY <1>3, <1>4 DEF TakenByOne, OthersStay
<1> QED BY <1>1, <1>5

(* A handler that has ended holds nothing.                                 *)
LEMMA IdleKeeps ==
  ASSUME LoginInv, NEW t \in Tabs, lstep'[t] = "idle", OthersStay(t), NothingComesBack(t), Pages', HandlerTypes',
         grant'[t] # <<>> => grant'[t] = <<want'[t]>>
  PROVE  LoginInv'
<1>1. TabAt(t)'
  BY DEF TabAt, Submitting
<1>2. lstep'[t] \notin Submitting
  BY DEF Submitting
<1>3. (\A o \in Tabs : TabAt(o))' /\ TakenByOne'
  BY <1>1, <1>2, HandlerKeeps
<1> QED BY <1>3 DEF LoginInv

LEMMA FinishMoves ==
  ASSUME HandlerTypes, want \in [Tabs -> AuthRequests], NEW t \in Tabs, Finish(t)
  PROVE  /\ lstep'[t] = "idle"
         /\ \A o \in Tabs \ {t} : /\ lstep'[o] = lstep[o] /\ taken'[o] = taken[o] /\ typed'[o] = typed[o]
                                  /\ sid'[o] = sid[o] /\ stale'[o] = stale[o]
         /\ lstep' \in [Tabs -> LoginSteps]
         /\ taken' \in [Tabs -> (LoginTokens \cup {NoToken}) \X AuthRequests]
         /\ typed' \in [Tabs -> Accounts \cup {NoOne}]
         /\ sid' \in [Tabs -> SessionIds \cup {NoSession}]
         /\ stale' \in [Tabs -> BOOLEAN]
<1>1. lstep'[t] = "idle" /\ lstep' \in [Tabs -> LoginSteps] /\ \A o \in Tabs \ {t} : lstep'[o] = lstep[o]
  BY DEF Finish, HandlerTypes, LoginSteps
<1>2. taken' \in [Tabs -> (LoginTokens \cup {NoToken}) \X AuthRequests] /\ \A o \in Tabs \ {t} : taken'[o] = taken[o]
  BY DEF Finish, HandlerTypes
<1>3. typed' \in [Tabs -> Accounts \cup {NoOne}] /\ \A o \in Tabs \ {t} : typed'[o] = typed[o]
  BY DEF Finish, HandlerTypes
<1>4. sid' \in [Tabs -> SessionIds \cup {NoSession}] /\ \A o \in Tabs \ {t} : sid'[o] = sid[o]
  BY DEF Finish, HandlerTypes
<1>5. stale' \in [Tabs -> BOOLEAN] /\ \A o \in Tabs \ {t} : stale'[o] = stale[o]
  BY DEF Finish, HandlerTypes
<1> QED BY <1>1, <1>2, <1>3, <1>4, <1>5

LEMMA GrantIsWanted ==
  ASSUME LoginInv, NEW t \in Tabs
  PROVE  grant[t] # <<>> => grant[t] = <<want[t]>>
  BY DEF LoginInv, TabAt

(* A new token is not one that a handler holds.                            *)
LEMMA NewTokenIsNew ==
  ASSUME NEW t \in Tabs, NEW k \in Free(t), DOMAIN pending' \subseteq DOMAIN pending \cup {k}, sessions' = sessions
  PROVE  NothingComesBack(t)
  BY DEF Free, NothingComesBack

LEMMA LessComesBack ==
  ASSUME NEW t \in Tabs, DOMAIN pending' \subseteq DOMAIN pending, DOMAIN sessions' \subseteq DOMAIN sessions
  PROVE  NothingComesBack(t)
  BY DEF NothingComesBack

(* The six ways to a form: after Finish, or with no handler running.       *)
LEMMA FormsKeep ==
  ASSUME LoginInv, NEW t \in Tabs,
         \/ Reopen(t) \/ SubmitRestarts(t) \/ VerifyRejects(t)
         \/ LookupMissing(t) \/ IssueForSessionFails(t)
         \/ \E q \in AuthRequests : AuthorizeWithoutCookie(t, q)
  PROVE  LoginInv'
<1>0. /\ Pages /\ HandlerTypes /\ TabAt(t)
      /\ page \in [Tabs -> (LoginTokens \cup {NoToken}) \X (LoginTokens \cup {NoToken})] /\ want \in [Tabs -> AuthRequests]
  BY DEF LoginInv, Pages
<1>1. /\ lstep'[t] = "idle" /\ sessions' = sessions /\ cookie' = cookie
      /\ \A o \in Tabs \ {t} : /\ lstep'[o] = lstep[o] /\ taken'[o] = taken[o] /\ typed'[o] = typed[o]
                               /\ sid'[o] = sid[o] /\ stale'[o] = stale[o]
      /\ lstep' \in [Tabs -> LoginSteps]
      /\ taken' \in [Tabs -> (LoginTokens \cup {NoToken}) \X AuthRequests]
      /\ typed' \in [Tabs -> Accounts \cup {NoOne}]
      /\ sid' \in [Tabs -> SessionIds \cup {NoSession}]
      /\ stale' \in [Tabs -> BOOLEAN]
  <2>1. CASE Reopen(t) \/ SubmitRestarts(t) \/ \E q \in AuthRequests : AuthorizeWithoutCookie(t, q)
    <3>1. lstep[t] = "idle" /\ UNCHANGED <<lstep, taken, typed, sid, stale, cookie, sessions>>
      BY <2>1 DEF Reopen, SubmitRestarts, AuthorizeWithoutCookie, handlerVars, sessionVars
    <3> QED BY <1>0, <3>1 DEF HandlerTypes
  <2>2. CASE VerifyRejects(t) \/ LookupMissing(t) \/ IssueForSessionFails(t)
    <3>1. Finish(t) /\ UNCHANGED <<cookie, sessions>>
      BY <2>2 DEF VerifyRejects, LookupMissing, IssueForSessionFails, sessionVars
    <3> QED BY <1>0, <3>1, FinishMoves
  <2> QED BY <2>1, <2>2
<1>2. /\ Pages' /\ NothingComesBack(t)
      /\ page' = [page EXCEPT ![t] = page'[t]] /\ want' = [want EXCEPT ![t] = want'[t]]
      /\ \/ grant' = grant /\ want' = want
         \/ grant' = [grant EXCEPT ![t] = <<>>]
  <2>1. CASE Reopen(t) \/ SubmitRestarts(t) \/ VerifyRejects(t)
    <3>1. page[t] # Blank /\ ShowForm(t, want[t], page[t][2], restarts) /\ UNCHANGED <<want, lapsed, grant>>
      <4>1. CASE Reopen(t) \/ SubmitRestarts(t)
        <5>1. page[t][2] \in DOMAIN restarts /\ ShowForm(t, restarts[page[t][2]], page[t][2], restarts) /\ UNCHANGED <<want, lapsed, grant>>
          BY <4>1 DEF Reopen, SubmitRestarts
        <5>2. restarts[page[t][2]] = want[t] /\ page[t][2] \in LoginTokens
          BY <1>0, <5>1 DEF Pages, IsMap
        <5>3. page[t] # Blank
          BY <5>2, TokensAreTokens DEF Blank
        <5> QED BY <5>1, <5>2, <5>3
      <4>2. CASE VerifyRejects(t)
        <5>1. lstep[t] = "verify" /\ ShowForm(t, taken[t][2], page[t][2], restarts) /\ UNCHANGED <<want, lapsed, grant>>
          BY <4>2 DEF VerifyRejects
        <5>2. taken[t][2] = want[t] /\ page[t][1] \in LoginTokens
          BY <1>0, <5>1 DEF TabAt, Submitting
        <5>3. page[t] # Blank
          BY <5>2, TokensAreTokens DEF Blank
        <5> QED BY <5>1, <5>2, <5>3
      <4> QED BY <2>1, <4>1, <4>2
    <3>2. PICK k \in LoginTokens : k \in Free(t) \ {page[t][2]} /\ DOMAIN pending' \subseteq DOMAIN pending \cup {k}
      BY <1>0, <3>1, ShowFormKeeps
    <3>3. Pages' /\ page' = [page EXCEPT ![t] = page'[t]]
      BY <1>0, <3>1, ShowFormKeeps
    <3>4. NothingComesBack(t)
      BY <1>1, <3>2, NewTokenIsNew
    <3>5. want' = [want EXCEPT ![t] = want'[t]]
      BY <1>0, <3>1
    <3> QED BY <3>1, <3>3, <3>4, <3>5
  <2>2. CASE LookupMissing(t) \/ IssueForSessionFails(t) \/ \E q \in AuthRequests : AuthorizeWithoutCookie(t, q)
    <3>1. \E q \in AuthRequests : /\ page[t] = Blank /\ SendToLogin(t, q) /\ want' = [want EXCEPT ![t] = q]
                                  /\ \/ grant' = grant /\ want' = want
                                     \/ grant' = [grant EXCEPT ![t] = <<>>]
      <4>1. CASE LookupMissing(t) \/ IssueForSessionFails(t)
        <5>1. lstep[t] \in {"lookup", "reissue"} /\ SendToLogin(t, taken[t][2]) /\ UNCHANGED <<want, grant>>
          BY <4>1 DEF LookupMissing, IssueForSessionFails
        <5>2. taken[t][2] = want[t] /\ page[t] = Blank /\ want[t] \in AuthRequests
          BY <1>0, <5>1 DEF TabAt, Submitting
        <5>3. want' = [want EXCEPT ![t] = want[t]]
          BY <1>0, <5>1
        <5>4. SendToLogin(t, want[t])
          BY <5>1, <5>2
        <5> QED BY <5>1, <5>2, <5>3, <5>4
      <4>2. CASE \E q \in AuthRequests : AuthorizeWithoutCookie(t, q)
        BY <4>2 DEF AuthorizeWithoutCookie
      <4> QED BY <2>2, <4>1, <4>2
    <3>2. PICK q \in AuthRequests : /\ page[t] = Blank /\ SendToLogin(t, q) /\ want' = [want EXCEPT ![t] = q]
                                    /\ \/ grant' = grant /\ want' = want
                                       \/ grant' = [grant EXCEPT ![t] = <<>>]
      BY <3>1
    <3>3. PICK k \in LoginTokens : k \in Free(t) /\ DOMAIN pending' \subseteq DOMAIN pending \cup {k}
      BY <1>0, <3>2, SendToLoginKeeps
    <3>4. Pages' /\ page' = [page EXCEPT ![t] = page'[t]]
      BY <1>0, <3>2, SendToLoginKeeps
    <3>5. NothingComesBack(t)
      BY <1>1, <3>3, NewTokenIsNew
    <3>6. want' = [want EXCEPT ![t] = want'[t]]
      BY <1>0, <3>2
    <3> QED BY <3>2, <3>4, <3>5, <3>6
  <2> QED BY <2>1, <2>2
<1>3. HandlerTypes'
  BY <1>0, <1>1, <1>2 DEF HandlerTypes, IsMap
<1>4. OthersStay(t)
  <2>1. \A o \in Tabs \ {t} : page'[o] = page[o] /\ want'[o] = want[o]
    BY <1>0, <1>2
  <2>2. \A o \in Tabs \ {t} : grant'[o] = grant[o]
    BY <1>0, <1>2 DEF HandlerTypes
  <2> QED BY <1>1, <2>1, <2>2 DEF OthersStay
<1>5. grant'[t] # <<>> => grant'[t] = <<want'[t]>>
  BY <1>0, <1>2, GrantIsWanted DEF HandlerTypes
<1> QED BY <1>1, <1>2, <1>3, <1>4, <1>5, IdleKeeps

(* Steps that end a handler, or leave the form, without a new one.         *)
LEMMA EndsKeep ==
  ASSUME LoginInv, NEW t \in Tabs,
         \/ IssueForSession(t) \/ IssueCodeFails(t) \/ ClearCookie(t)
         \/ OpenSessionFails(t) \/ ReopenFails(t) \/ SubmitDeadEnds(t)
         \/ \E s \in SessionIds : OpenSession(t, s)
  PROVE  LoginInv'
<1>0. /\ Pages /\ HandlerTypes /\ TabAt(t) /\ lapsed \subseteq Tabs
      /\ page \in [Tabs -> (LoginTokens \cup {NoToken}) \X (LoginTokens \cup {NoToken})] /\ want \in [Tabs -> AuthRequests]
  BY DEF LoginInv, Pages
<1>1. /\ lstep'[t] = "idle"
      /\ \A o \in Tabs \ {t} : /\ lstep'[o] = lstep[o] /\ taken'[o] = taken[o] /\ typed'[o] = typed[o]
                               /\ sid'[o] = sid[o] /\ stale'[o] = stale[o]
      /\ lstep' \in [Tabs -> LoginSteps]
      /\ taken' \in [Tabs -> (LoginTokens \cup {NoToken}) \X AuthRequests]
      /\ typed' \in [Tabs -> Accounts \cup {NoOne}]
      /\ sid' \in [Tabs -> SessionIds \cup {NoSession}]
      /\ stale' \in [Tabs -> BOOLEAN]
  <2>1. CASE ReopenFails(t) \/ SubmitDeadEnds(t)
    <3>1. lstep[t] = "idle" /\ UNCHANGED <<lstep, taken, typed, sid, stale>>
      BY <2>1 DEF ReopenFails, SubmitDeadEnds, handlerVars
    <3> QED BY <1>0, <3>1 DEF HandlerTypes
  <2>2. CASE ~(ReopenFails(t) \/ SubmitDeadEnds(t))
    <3>1. Finish(t)
      BY <2>2 DEF IssueForSession, IssueCodeFails, ClearCookie, OpenSessionFails, OpenSession
    <3> QED BY <1>0, <3>1, FinishMoves
  <2> QED BY <2>1, <2>2
<1>2. want' = want /\ lapsed' = lapsed
  BY DEF IssueForSession, IssueCodeFails, ClearCookie, OpenSessionFails, OpenSession, ReopenFails, SubmitDeadEnds
<1>3. Pages' /\ DOMAIN pending' \subseteq DOMAIN pending /\ \A o \in Tabs \ {t} : page'[o] = page[o]
  <2>1. CASE Goto(t, Blank, pending, restarts)
    BY <1>0, <1>2, <2>1, LeavingKeepsPages, GotoMoves
  <2>2. CASE ~Goto(t, Blank, pending, restarts)
    <3>1. UNCHANGED <<pending, restarts, page>>
      BY <2>2 DEF IssueForSession, IssueCodeFails, ClearCookie, OpenSessionFails, OpenSession, ReopenFails, SubmitDeadEnds, tokenVars
    <3> QED BY <1>0, <1>2, <3>1 DEF Pages, IsMap
  <2> QED BY <2>1, <2>2
<1>4. \/ grant' = grant
      \/ lstep[t] = "reissue" /\ grant' = [grant EXCEPT ![t] = <<taken[t][2]>>]
  BY DEF IssueForSession, IssueCodeFails, ClearCookie, OpenSessionFails, OpenSession, ReopenFails, SubmitDeadEnds
<1>5. /\ grant' \in [Tabs -> {<<>>} \cup {<<q>> : q \in AuthRequests}]
      /\ \A o \in Tabs \ {t} : grant'[o] = grant[o]
      /\ grant'[t] # <<>> => grant'[t] = <<want'[t]>>
  <2>1. CASE grant' = grant
    BY <1>0, <1>2, <2>1, GrantIsWanted DEF HandlerTypes
  <2>2. CASE lstep[t] = "reissue" /\ grant' = [grant EXCEPT ![t] = <<taken[t][2]>>]
    <3>1. taken[t][2] = want[t] /\ want[t] \in AuthRequests
      BY <1>0, <2>2 DEF TabAt, Submitting
    <3> QED BY <1>0, <1>2, <2>2, <3>1 DEF HandlerTypes
  <2> QED BY <1>4, <2>1, <2>2
<1>6. /\ cookie' \in SessionIds \cup {NoSession} /\ IsMap(sessions, SessionIds, Accounts)'
      /\ \A o \in Tabs \ {t} : sid[o] \in DOMAIN sessions' => sid[o] \in DOMAIN sessions
  <2>1. ASSUME NEW s \in SessionIds, OpenSession(t, s)
        PROVE  /\ cookie' \in SessionIds \cup {NoSession} /\ IsMap(sessions, SessionIds, Accounts)'
               /\ \A o \in Tabs \ {t} : sid[o] \in DOMAIN sessions' => sid[o] \in DOMAIN sessions
    <3>1. /\ lstep[t] = "session" /\ cookie' = s /\ sessions' = Bind(sessions, s, typed[t])
          /\ \A o \in Tabs : s # sid[o]
      BY <2>1 DEF OpenSession
    <3>2. typed[t] \in Accounts /\ DOMAIN sessions \subseteq SessionIds /\ \A x \in DOMAIN sessions : sessions[x] \in Accounts
      BY <1>0, <3>1 DEF TabAt, HandlerTypes, IsMap
    <3>3. sessions' = [x \in DOMAIN sessions \cup {s} |-> IF x = s THEN typed[t] ELSE sessions[x]]
      BY <3>1 DEF Bind
    <3>4. DOMAIN sessions' = DOMAIN sessions \cup {s}
      BY <3>3
    <3>5. sessions' \in [DOMAIN sessions \cup {s} -> Accounts]
      BY <3>2, <3>3
    <3> QED BY <3>1, <3>2, <3>4, <3>5 DEF IsMap
  <2>2. CASE ~\E s \in SessionIds : OpenSession(t, s)
    <3>1. sessions' = sessions /\ cookie' \in {cookie, NoSession}
      BY <2>2 DEF IssueForSession, IssueCodeFails, ClearCookie, OpenSessionFails, ReopenFails, SubmitDeadEnds, sessionVars
    <3> QED BY <1>0, <3>1 DEF HandlerTypes, IsMap
  <2> QED BY <2>1, <2>2
<1>7. HandlerTypes'
  BY <1>1, <1>5, <1>6 DEF HandlerTypes
<1>8. OthersStay(t)
  BY <1>1, <1>2, <1>3, <1>5 DEF OthersStay
<1>9. NothingComesBack(t)
  BY <1>3, <1>6 DEF NothingComesBack
<1> QED BY <1>1, <1>3, <1>5, <1>7, <1>8, <1>9, IdleKeeps

LEMMA DuplicateKeeps ==
  ASSUME LoginInv, NEW t \in Tabs, NEW o \in Tabs, DuplicateTab(t, o)
  PROVE  LoginInv'
<1>0. /\ Pages /\ HandlerTypes
      /\ page \in [Tabs -> (LoginTokens \cup {NoToken}) \X (LoginTokens \cup {NoToken})] /\ want \in [Tabs -> AuthRequests]
  BY DEF LoginInv, Pages
<1>1. /\ lstep[t] = "idle" /\ UNCHANGED <<pending, lstep, typed, sid, stale, cookie, sessions>>
      /\ page' = [page EXCEPT ![t] = page[o]] /\ want' = [want EXCEPT ![t] = want[o]]
      /\ taken' = [taken EXCEPT ![t] = <<NoToken, want[o]>>] /\ grant' = [grant EXCEPT ![t] = <<>>]
  BY DEF DuplicateTab, tokenVars, sessionVars
<1>2. Pages'
  BY <1>0, DuplicateKeepsPages
<1>3. taken' \in [Tabs -> (LoginTokens \cup {NoToken}) \X AuthRequests]
  BY <1>0, <1>1 DEF HandlerTypes
<1>4. grant' \in [Tabs -> {<<>>} \cup {<<q>> : q \in AuthRequests}] /\ grant'[t] = <<>>
  BY <1>0, <1>1 DEF HandlerTypes
<1>5. HandlerTypes'
  BY <1>0, <1>1, <1>3, <1>4 DEF HandlerTypes, IsMap
<1>6. OthersStay(t) /\ NothingComesBack(t)
  BY <1>0, <1>1 DEF OthersStay, NothingComesBack, HandlerTypes
<1> QED BY <1>1, <1>2, <1>4, <1>5, <1>6, IdleKeeps

(* Steps that take a handler further.                                      *)
LEMMA SubmitKeeps ==
  ASSUME LoginInv, NEW t \in Tabs, SubmitTakes(t)
  PROVE  LoginInv'
<1>0. /\ Pages /\ HandlerTypes /\ TabAt(t)
      /\ page \in [Tabs -> (LoginTokens \cup {NoToken}) \X (LoginTokens \cup {NoToken})] /\ want \in [Tabs -> AuthRequests]
  BY DEF LoginInv, Pages
<1>1. /\ lstep[t] = "idle" /\ page[t][1] \in DOMAIN pending /\ lstep' = [lstep EXCEPT ![t] = "verify"]
      /\ taken' = [taken EXCEPT ![t] = <<page[t][1], pending[page[t][1]]>>]
      /\ pending' = Without(pending, page[t][1])
      /\ UNCHANGED <<restarts, page, want, typed, sid, stale, cookie, sessions, grant, lapsed>>
  BY DEF SubmitTakes, sessionVars
<1>2. /\ page[t][1] \in LoginTokens /\ pending[page[t][1]] = want[t] /\ want[t] \in AuthRequests
  BY <1>0, <1>1 DEF Pages, IsMap
<1>3. /\ DOMAIN pending' = DOMAIN pending \ {page[t][1]}
      /\ pending' = [k \in DOMAIN pending' |-> pending[k]]
  BY <1>1 DEF Without
<1>4. Pages'
  BY <1>0, <1>1, <1>3, NothingMoved, RemovalKeepsPages
<1>5. /\ lstep' \in [Tabs -> LoginSteps] /\ lstep'[t] = "verify" /\ \A o \in Tabs \ {t} : lstep'[o] = lstep[o]
  BY <1>0, <1>1 DEF HandlerTypes, LoginSteps
<1>6. /\ taken' \in [Tabs -> (LoginTokens \cup {NoToken}) \X AuthRequests] /\ \A o \in Tabs \ {t} : taken'[o] = taken[o]
      /\ taken'[t] = <<page[t][1], want[t]>>
  BY <1>0, <1>1, <1>2 DEF HandlerTypes
<1>7. HandlerTypes'
  BY <1>0, <1>1, <1>5, <1>6 DEF HandlerTypes, IsMap
<1>8. OthersStay(t) /\ NothingComesBack(t)
  BY <1>1, <1>3, <1>5, <1>6 DEF OthersStay, NothingComesBack
<1>9. TabAt(t)'
  <2>1. grant'[t] # <<>> => grant'[t] = <<want'[t]>>
    BY <1>1, GrantIsWanted
  <2> QED BY <1>1, <1>2, <1>3, <1>5, <1>6, <2>1 DEF TabAt, Submitting
<1>10. \A o \in Tabs \ {t} : lstep[o] \in Submitting => taken[o][1] # taken'[t][1]
  BY <1>1, <1>6 DEF LoginInv, TabAt
<1>11. (\A o \in Tabs : TabAt(o))' /\ TakenByOne'
  <2>1. \A o \in Tabs : TabAt(o)'
    <3>1. \A o \in Tabs \ {t} : TabAt(o)'
      <4> SUFFICES ASSUME NEW o \in Tabs \ {t} PROVE TabAt(o)'
        OBVIOUS
      <4>1. TabAt(o)
        BY DEF LoginInv
      <4>2. /\ lstep'[o] = lstep[o] /\ taken'[o] = taken[o]
            /\ UNCHANGED <<page, want, typed, sid, stale, sessions, grant>>
            /\ taken[o][1] \in DOMAIN pending' => taken[o][1] \in DOMAIN pending
        BY <1>1, <1>3, <1>5, <1>6
      <4> QED BY <4>1, <4>2 DEF TabAt
    <3> QED BY <1>9, <3>1
  <2>2. TakenByOne'
    BY <1>5, <1>6, <1>10 DEF LoginInv, TakenByOne
  <2> QED BY <2>1, <2>2
<1> QED BY <1>4, <1>7, <1>11 DEF LoginInv

LEMMA HandlersKeep ==
  ASSUME LoginInv, NEW t \in Tabs,
         \/ LookupFound(t) \/ IssueCodeOk(t) \/ Logout(t) \/ RevokeSession(t)
         \/ \E u \in Accounts : VerifyAccepts(t, u)
  PROVE  LoginInv'
<1>0. /\ Pages /\ HandlerTypes /\ TabAt(t)
      /\ page \in [Tabs -> (LoginTokens \cup {NoToken}) \X (LoginTokens \cup {NoToken})] /\ want \in [Tabs -> AuthRequests]
  BY DEF LoginInv, Pages
<1>1. /\ UNCHANGED <<pending, restarts, page, want, taken, stale, cookie, lapsed>>
      /\ sessions' = sessions \/ sessions' = Without(sessions, sid[t])
  BY DEF LookupFound, IssueCodeOk, Logout, RevokeSession, VerifyAccepts, tokenVars, sessionVars
<1>2. /\ DOMAIN sessions' \subseteq DOMAIN sessions /\ IsMap(sessions, SessionIds, Accounts)'
  BY <1>0, <1>1 DEF HandlerTypes, IsMap, Without
<1>3. Pages'
  BY <1>0, <1>1 DEF Pages, IsMap
<1>4. ASSUME NEW s \in LoginSteps, lstep' = [lstep EXCEPT ![t] = s], OthersStay(t), TabAt(t)',
             typed' \in [Tabs -> Accounts \cup {NoOne}], sid' \in [Tabs -> SessionIds \cup {NoSession}],
             grant' \in [Tabs -> {<<>>} \cup {<<q>> : q \in AuthRequests}],
             s \in Submitting => lstep[t] \in Submitting
      PROVE  LoginInv'
  <2>1. NothingComesBack(t)
    BY <1>1, <1>2, LessComesBack
  <2>2. lstep' \in [Tabs -> LoginSteps] /\ lstep'[t] = s
    BY <1>0, <1>4 DEF HandlerTypes
  <2>3. HandlerTypes'
    BY <1>0, <1>1, <1>2, <1>4, <2>2 DEF HandlerTypes
  <2>4. (\A o \in Tabs : TabAt(o))' /\ TakenByOne'
    BY <1>1, <1>4, <2>1, <2>2, HandlerKeeps
  <2> QED BY <1>3, <2>3, <2>4 DEF LoginInv
<1>5. /\ \A s \in LoginSteps : lstep' = [lstep EXCEPT ![t] = s] => lstep'[t] = s /\ \A o \in Tabs \ {t} : lstep'[o] = lstep[o]
      /\ \A x : typed' = [typed EXCEPT ![t] = x] => typed'[t] = x /\ \A o \in Tabs \ {t} : typed'[o] = typed[o]
      /\ \A x : sid' = [sid EXCEPT ![t] = x] => sid'[t] = x /\ \A o \in Tabs \ {t} : sid'[o] = sid[o]
      /\ \A x : grant' = [grant EXCEPT ![t] = x] => grant'[t] = x /\ \A o \in Tabs \ {t} : grant'[o] = grant[o]
      /\ LoginSteps = {"idle", "verify", "issue", "session", "lookup", "reissue", "revoke", "clear"}
      /\ NoOne \notin Accounts
  BY <1>0, LoginAssumption DEF HandlerTypes, LoginSteps
<1>6. CASE LookupFound(t)
  <2>1. /\ lstep[t] = "lookup" /\ lstep' = [lstep EXCEPT ![t] = "reissue"] /\ sid[t] \in DOMAIN sessions
        /\ typed' = [typed EXCEPT ![t] = sessions[sid[t]]] /\ UNCHANGED <<sid, stale, sessions, grant>>
    BY <1>6 DEF LookupFound, sessionVars
  <2>2. sessions[sid[t]] \in Accounts
    BY <1>0, <2>1 DEF HandlerTypes, IsMap
  <2>3. typed' \in [Tabs -> Accounts \cup {NoOne}]
    BY <1>0, <2>1, <2>2 DEF HandlerTypes
  <2>4. OthersStay(t) /\ lstep'[t] = "reissue" /\ typed'[t] # NoOne
    <3>1. typed'[t] = sessions[sid[t]] /\ \A o \in Tabs \ {t} : typed'[o] = typed[o]
      BY <1>0, <2>1 DEF HandlerTypes
    <3>2. lstep'[t] = "reissue" /\ \A o \in Tabs \ {t} : lstep'[o] = lstep[o]
      BY <1>0, <2>1 DEF HandlerTypes
    <3> QED BY <1>1, <1>5, <2>1, <2>2, <3>1, <3>2 DEF OthersStay
  <2>5. TabAt(t)'
    BY <1>0, <1>1, <2>1, <2>4 DEF TabAt, Submitting
  <2> QED BY <1>0, <1>4, <1>5, <2>1, <2>3, <2>4, <2>5 DEF HandlerTypes, Submitting
<1>7. ASSUME NEW u \in Accounts, VerifyAccepts(t, u) PROVE LoginInv'
  <2>1. /\ lstep[t] = "verify" /\ lstep' = [lstep EXCEPT ![t] = "issue"]
        /\ typed' = [typed EXCEPT ![t] = u] /\ UNCHANGED <<sid, stale, sessions, grant>>
    BY <1>7 DEF VerifyAccepts, sessionVars
  <2>2. typed' \in [Tabs -> Accounts \cup {NoOne}]
    BY <1>0, <2>1 DEF HandlerTypes
  <2>3. OthersStay(t) /\ lstep'[t] = "issue" /\ typed'[t] # NoOne
    <3>1. typed'[t] = u /\ \A o \in Tabs \ {t} : typed'[o] = typed[o]
      BY <1>0, <2>1 DEF HandlerTypes
    <3>2. lstep'[t] = "issue" /\ \A o \in Tabs \ {t} : lstep'[o] = lstep[o]
      BY <1>0, <2>1 DEF HandlerTypes
    <3> QED BY <1>1, <1>5, <2>1, <3>1, <3>2 DEF OthersStay
  <2>4. TabAt(t)'
    BY <1>0, <1>1, <2>1, <2>3 DEF TabAt, Submitting
  <2> QED BY <1>0, <1>4, <1>5, <2>1, <2>2, <2>3, <2>4 DEF HandlerTypes, Submitting
<1>8. CASE IssueCodeOk(t)
  <2>1. /\ lstep[t] = "issue" /\ lstep' = [lstep EXCEPT ![t] = "session"]
        /\ grant' = [grant EXCEPT ![t] = <<taken[t][2]>>] /\ UNCHANGED <<typed, sid, stale, sessions>>
    BY <1>8 DEF IssueCodeOk, sessionVars
  <2>2. taken[t][2] = want[t] /\ want[t] \in AuthRequests
    BY <1>0, <2>1 DEF TabAt, Submitting
  <2>3. grant' \in [Tabs -> {<<>>} \cup {<<q>> : q \in AuthRequests}]
    BY <1>0, <2>1, <2>2 DEF HandlerTypes
  <2>4. OthersStay(t) /\ lstep'[t] = "session" /\ grant'[t] = <<want[t]>>
    BY <1>1, <1>5, <2>1, <2>2 DEF OthersStay
  <2>5. TabAt(t)'
    BY <1>0, <1>1, <2>1, <2>4 DEF TabAt, Submitting
  <2> QED BY <1>0, <1>4, <1>5, <2>1, <2>3, <2>4, <2>5 DEF HandlerTypes, Submitting
<1>9. CASE Logout(t)
  <2>1. /\ lstep[t] = "idle" /\ page[t] = Blank /\ lstep' = [lstep EXCEPT ![t] = "revoke"]
        /\ sid' = [sid EXCEPT ![t] = cookie] /\ UNCHANGED <<typed, stale, sessions, grant>>
    BY <1>9 DEF Logout, sessionVars
  <2>2. sid' \in [Tabs -> SessionIds \cup {NoSession}]
    BY <1>0, <2>1 DEF HandlerTypes
  <2>3. OthersStay(t) /\ lstep'[t] = "revoke"
    BY <1>1, <1>5, <2>1 DEF OthersStay
  <2>4. TabAt(t)'
    BY <1>0, <1>1, <2>1, <2>3 DEF TabAt, Submitting
  <2> QED BY <1>0, <1>4, <1>5, <2>1, <2>2, <2>3, <2>4 DEF HandlerTypes, Submitting
<1>10. CASE RevokeSession(t)
  <2>1. /\ lstep[t] = "revoke" /\ lstep' = [lstep EXCEPT ![t] = "clear"]
        /\ UNCHANGED <<typed, sid, stale, grant>>
    BY <1>10 DEF RevokeSession
  <2>2. OthersStay(t) /\ lstep'[t] = "clear"
    BY <1>1, <1>5, <2>1 DEF OthersStay
  <2>3. TabAt(t)'
    BY <1>0, <1>1, <2>1, <2>2 DEF TabAt, Submitting
  <2> QED BY <1>0, <1>4, <1>5, <2>1, <2>2, <2>3 DEF HandlerTypes, Submitting
<1> QED BY <1>6, <1>7, <1>8, <1>9, <1>10

LEMMA CookieKeeps ==
  ASSUME LoginInv, NEW t \in Tabs, NEW q \in AuthRequests, AuthorizeWithCookie(t, q)
  PROVE  LoginInv'
<1>0. /\ Pages /\ HandlerTypes
      /\ page \in [Tabs -> (LoginTokens \cup {NoToken}) \X (LoginTokens \cup {NoToken})] /\ want \in [Tabs -> AuthRequests]
  BY DEF LoginInv, Pages
<1>1. /\ lstep[t] = "idle" /\ page[t] = Blank /\ UNCHANGED <<pending, restarts, page, typed, cookie, sessions>>
      /\ lstep' = [lstep EXCEPT ![t] = "lookup"] /\ want' = [want EXCEPT ![t] = q]
      /\ taken' = [taken EXCEPT ![t] = <<NoToken, q>>] /\ sid' = [sid EXCEPT ![t] = cookie]
      /\ stale' = [stale EXCEPT ![t] = cookie \notin DOMAIN sessions] /\ grant' = [grant EXCEPT ![t] = <<>>]
      /\ lapsed' = lapsed \ {t}
  BY DEF AuthorizeWithCookie, tokenVars, sessionVars
<1>2. Pages'
  BY <1>0, <1>1, SettingOutKeepsPages
<1>3. lstep' \in [Tabs -> LoginSteps] /\ lstep'[t] = "lookup" /\ \A o \in Tabs \ {t} : lstep'[o] = lstep[o]
  BY <1>0, <1>1 DEF HandlerTypes, LoginSteps
<1>4. /\ taken' \in [Tabs -> (LoginTokens \cup {NoToken}) \X AuthRequests] /\ taken'[t] = <<NoToken, q>>
      /\ \A o \in Tabs \ {t} : taken'[o] = taken[o]
  BY <1>0, <1>1 DEF HandlerTypes
<1>5. /\ sid' \in [Tabs -> SessionIds \cup {NoSession}] /\ sid'[t] = cookie
      /\ \A o \in Tabs \ {t} : sid'[o] = sid[o]
  BY <1>0, <1>1 DEF HandlerTypes
<1>6. /\ stale' \in [Tabs -> BOOLEAN] /\ stale'[t] = (cookie \notin DOMAIN sessions)
      /\ \A o \in Tabs \ {t} : stale'[o] = stale[o]
  BY <1>0, <1>1 DEF HandlerTypes
<1>7. /\ grant' \in [Tabs -> {<<>>} \cup {<<x>> : x \in AuthRequests}] /\ grant'[t] = <<>>
      /\ \A o \in Tabs \ {t} : grant'[o] = grant[o]
  BY <1>0, <1>1 DEF HandlerTypes
<1>8. want'[t] = q /\ \A o \in Tabs \ {t} : want'[o] = want[o]
  BY <1>0, <1>1
<1>9. HandlerTypes'
  BY <1>0, <1>1, <1>3, <1>4, <1>5, <1>6, <1>7 DEF HandlerTypes, IsMap
<1>10. OthersStay(t) /\ NothingComesBack(t)
  BY <1>1, <1>3, <1>4, <1>5, <1>6, <1>7, <1>8 DEF OthersStay, NothingComesBack
<1>11. TabAt(t)'
  <2>1. stale'[t] => sid'[t] \notin DOMAIN sessions'
    BY <1>1, <1>5, <1>6
  <2>2. taken'[t][2] = want'[t] /\ page'[t] = Blank
    BY <1>1, <1>4, <1>8
  <2> QED BY <1>3, <1>7, <2>1, <2>2 DEF TabAt, Submitting
<1>12. lstep'[t] \notin Submitting
  BY <1>3 DEF Submitting
<1>13. (\A o \in Tabs : TabAt(o))' /\ TakenByOne'
  BY <1>10, <1>11, <1>12, HandlerKeeps
<1> QED BY <1>2, <1>9, <1>13 DEF LoginInv

(* Expiry and the restart of the daemon.                                   *)
LEMMA LapsesKeep ==
  ASSUME LoginInv,
         \/ \E k \in LoginTokens : LapseContinuation(k) \/ LapseRestart(k)
         \/ \E s \in SessionIds : ExpireSession(s)
  PROVE  LoginInv'
<1>0. Pages /\ HandlerTypes /\ IsMap(sessions, SessionIds, Accounts) /\ lapsed \subseteq Tabs
  BY DEF LoginInv, Pages, HandlerTypes
<1>1. UNCHANGED <<page, want, lstep, taken, typed, sid, stale, cookie, grant>>
  BY DEF LapseContinuation, LapseRestart, ExpireSession, handlerVars, sessionVars
<1>2. /\ DOMAIN pending' \subseteq DOMAIN pending /\ pending' = [k \in DOMAIN pending' |-> pending[k]]
      /\ DOMAIN restarts' \subseteq DOMAIN restarts /\ restarts' = [k \in DOMAIN restarts' |-> restarts[k]]
      /\ lapsed \subseteq lapsed' /\ lapsed' \subseteq Tabs
      /\ \A t \in Tabs : page[t][2] \in DOMAIN restarts => page[t][2] \in DOMAIN restarts' \/ t \in lapsed'
  <2>1. ASSUME NEW k \in LoginTokens, LapseContinuation(k)
        PROVE  pending' = Without(pending, k) /\ UNCHANGED <<restarts, lapsed>>
    BY <2>1 DEF LapseContinuation
  <2>2. ASSUME NEW k \in LoginTokens, LapseRestart(k)
        PROVE  restarts' = Without(restarts, k) /\ pending' = pending /\ lapsed' = lapsed \cup {t \in Tabs : page[t][2] = k}
    BY <2>2 DEF LapseRestart
  <2>3. ASSUME NEW s \in SessionIds, ExpireSession(s)
        PROVE  UNCHANGED <<pending, restarts, lapsed>>
    BY <2>3 DEF ExpireSession, tokenVars
  <2>5. CASE \E k \in LoginTokens : LapseContinuation(k)
    <3>1. PICK k \in LoginTokens : pending' = Without(pending, k) /\ UNCHANGED <<restarts, lapsed>>
      BY <2>1, <2>5
    <3>2. DOMAIN pending' = DOMAIN pending \ {k} /\ pending' = [x \in DOMAIN pending' |-> pending[x]]
      BY <3>1 DEF Without
    <3> QED BY <1>0, <3>1, <3>2, NothingMoved
  <2>6. CASE \E k \in LoginTokens : LapseRestart(k)
    <3>1. PICK k \in LoginTokens : /\ restarts' = Without(restarts, k) /\ pending' = pending
                                   /\ lapsed' = lapsed \cup {t \in Tabs : page[t][2] = k}
      BY <2>2, <2>6
    <3>2. DOMAIN restarts' = DOMAIN restarts \ {k} /\ restarts' = [x \in DOMAIN restarts' |-> restarts[x]]
      BY <3>1 DEF Without
    <3>3. \A t \in Tabs : page[t][2] \in DOMAIN restarts => page[t][2] \in DOMAIN restarts' \/ t \in lapsed'
      BY <3>1, <3>2
    <3>4. lapsed \subseteq lapsed' /\ lapsed' \subseteq Tabs
      BY <1>0, <3>1
    <3> QED BY <1>0, <3>1, <3>2, <3>3, <3>4, NothingMoved
  <2>7. CASE \E s \in SessionIds : ExpireSession(s)
    BY <1>0, <2>3, <2>7, NothingMoved
  <2> QED BY <2>5, <2>6, <2>7
<1>3. IsMap(sessions, SessionIds, Accounts)' /\ DOMAIN sessions' \subseteq DOMAIN sessions
  <2>1. sessions' = sessions \/ \E s \in SessionIds : sessions' = Without(sessions, s)
    BY DEF LapseContinuation, LapseRestart, ExpireSession, sessionVars
  <2> QED BY <1>0, <2>1 DEF IsMap, Without
<1>4. Pages'
  BY <1>0, <1>1, <1>2, RemovalKeepsPages
<1>5. HandlerTypes'
  BY <1>0, <1>1, <1>3 DEF HandlerTypes
<1>6. \A t \in Tabs : TabAt(t)'
  <2> SUFFICES ASSUME NEW t \in Tabs PROVE TabAt(t)'
    OBVIOUS
  <2>1. TabAt(t)
    BY DEF LoginInv
  <2> QED BY <1>1, <1>2, <1>3, <2>1 DEF TabAt
<1>7. TakenByOne'
  BY <1>1 DEF LoginInv, TakenByOne
<1> QED BY <1>4, <1>5, <1>6, <1>7 DEF LoginInv

LEMMA RestartKeeps == LoginInv /\ RestartDaemon => LoginInv'
<1> SUFFICES ASSUME LoginInv, RestartDaemon PROVE LoginInv'
  OBVIOUS
<1>0. Pages /\ HandlerTypes /\ want \in [Tabs -> AuthRequests] /\ lapsed \subseteq Tabs
  BY DEF LoginInv, Pages
<1>1. /\ pending' = <<>> /\ restarts' = <<>> /\ lapsed' = lapsed \cup {t \in Tabs : page[t] # Blank}
      /\ UNCHANGED <<page, want, cookie, sessions, grant>>
  BY DEF RestartDaemon, sessionVars
<1>2. DOMAIN pending' = {} /\ DOMAIN restarts' = {}
  BY <1>1
<1>3. Pages'
  BY <1>0, <1>1, <1>2, RemovalKeepsPages
<1>4. lstep' = [t \in Tabs |-> "idle"] /\ stale' = [t \in Tabs |-> FALSE]
  BY DEF RestartDaemon
<1>5. /\ taken' \in [Tabs -> (LoginTokens \cup {NoToken}) \X AuthRequests]
      /\ typed' \in [Tabs -> Accounts \cup {NoOne}] /\ sid' \in [Tabs -> SessionIds \cup {NoSession}]
      /\ stale' \in [Tabs -> BOOLEAN]
  BY <1>0 DEF RestartDaemon
<1>6. HandlerTypes'
  BY <1>0, <1>1, <1>4, <1>5 DEF HandlerTypes, IsMap, LoginSteps
<1>7. \A t \in Tabs : lstep'[t] = "idle" /\ (grant'[t] # <<>> => grant'[t] = <<want'[t]>>)
  BY <1>1, <1>4, GrantIsWanted
<1>8. (\A t \in Tabs : TabAt(t))' /\ TakenByOne'
  BY <1>7 DEF TabAt, TakenByOne, Submitting
<1> QED BY <1>3, <1>6, <1>8 DEF LoginInv

LEMMA LoginStep == LoginInv /\ [NextLogin]_loginVars => LoginInv'
<1> SUFFICES ASSUME LoginInv, [NextLogin]_loginVars PROVE LoginInv'
  OBVIOUS
<1>1. ASSUME NEW t \in Tabs, Submit(t) \/ Handle(t) \/ Logout(t) \/ Reopen(t) \/ ReopenFails(t) PROVE LoginInv'
  BY <1>1, FormsKeep, EndsKeep, SubmitKeeps, HandlersKeep DEF Submit, Handle
<1>2. ASSUME NEW t \in Tabs, NEW q \in AuthRequests, AuthorizeWithCookie(t, q) \/ AuthorizeWithoutCookie(t, q) PROVE LoginInv'
  BY <1>2, FormsKeep, CookieKeeps
<1>3. ASSUME UNCHANGED loginVars PROVE LoginInv'
  BY <1>3 DEF loginVars, tokenVars, handlerVars, sessionVars, LoginInv, Pages, HandlerTypes, TabAt, TakenByOne, IsMap
<1> QED BY <1>1, <1>2, <1>3, DuplicateKeeps, LapsesKeep, RestartKeeps DEF NextLogin

LEMMA LoginTells ==
  LoginInv => TypeOKLogin /\ ContinuationSpentOnce /\ CodeForWantedRequest /\ FormsAreResumable /\ NoCodeFromDeadSession
<1> SUFFICES ASSUME LoginInv
             PROVE  TypeOKLogin /\ ContinuationSpentOnce /\ CodeForWantedRequest /\ FormsAreResumable /\ NoCodeFromDeadSession
  OBVIOUS
<1>0. Pages /\ HandlerTypes /\ \A t \in Tabs : TabAt(t)
  BY DEF LoginInv
<1>1. TypeOKLogin
  <2>1. /\ pending \in UNION {[S -> AuthRequests] : S \in SUBSET LoginTokens}
        /\ restarts \in UNION {[S -> AuthRequests] : S \in SUBSET LoginTokens}
        /\ sessions \in UNION {[S -> Accounts] : S \in SUBSET SessionIds}
    BY <1>0, MapsAreMaps DEF Pages, HandlerTypes
  <2>2. DOMAIN pending \cap DOMAIN restarts = {}
    <3> SUFFICES ASSUME NEW k \in DOMAIN pending, k \in DOMAIN restarts PROVE FALSE
      OBVIOUS
    <3>1. PICK o \in Tabs : page[o][1] = k
      BY <1>0 DEF Pages
    <3>2. PICK p \in Tabs : page[p][2] = k
      BY <1>0 DEF Pages
    <3>3. k = NoToken /\ k \in LoginTokens
      BY <1>0, <3>1, <3>2 DEF Pages, IsMap
    <3> QED BY <3>3, TokensAreTokens
  <2> QED BY <1>0, <2>1, <2>2 DEF Pages, HandlerTypes, TabAt, TypeOKLogin
<1>2. ContinuationSpentOnce
  BY <1>0 DEF LoginInv, TakenByOne, TabAt, Submitting, ContinuationSpentOnce
<1>3. CodeForWantedRequest
  BY <1>0 DEF TabAt, CodeForWantedRequest
<1>4. FormsAreResumable
  BY <1>0 DEF Pages, FormsAreResumable
<1>5. NoCodeFromDeadSession
  BY <1>0 DEF TabAt, NoCodeFromDeadSession
<1> QED BY <1>1, <1>2, <1>3, <1>4, <1>5

LiveTokens == DOMAIN pending
InsideTokens == {e \in Tabs \X LoginTokens : lstep[e[1]] \in {"verify", "issue"} /\ taken[e[1]][1] = e[2]}
LoginStoreStep == [Continuations!StoreNext]_<<LiveTokens, InsideTokens>>

(* Tabs hold on to what they hold; t holds nothing before and after.       *)
LEMMA HoldersStay ==
  ASSUME NEW t \in Tabs, lstep[t] \notin {"verify", "issue"}, lstep'[t] \notin {"verify", "issue"},
         \A o \in Tabs \ {t} : lstep'[o] = lstep[o] /\ taken'[o] = taken[o]
  PROVE  InsideTokens' = InsideTokens
  BY DEF InsideTokens

LEMMA HolderLeaves ==
  ASSUME NEW t \in Tabs, taken[t][1] \in LoginTokens, lstep[t] \in {"verify", "issue"}, lstep'[t] \notin {"verify", "issue"},
         \A o \in Tabs \ {t} : lstep'[o] = lstep[o] /\ taken'[o] = taken[o]
  PROVE  <<t, taken[t][1]>> \in InsideTokens /\ InsideTokens' = InsideTokens \ {<<t, taken[t][1]>>}
<1>1. <<t, taken[t][1]>> \in InsideTokens
  BY DEF InsideTokens
<1>2. \A e \in InsideTokens' : e \in InsideTokens /\ e # <<t, taken[t][1]>>
  BY DEF InsideTokens
<1>3. \A e \in InsideTokens : e = <<t, taken[t][1]>> \/ e \in InsideTokens'
  BY DEF InsideTokens
<1> QED BY <1>1, <1>2, <1>3

LEMMA LapsingIsAStep ==
  ASSUME DOMAIN pending' \subseteq DOMAIN pending, InsideTokens' \in {InsideTokens, {}}
  PROVE  LoginStoreStep
<1>1. LiveTokens' = LiveTokens \ (LiveTokens \ LiveTokens')
  BY DEF LiveTokens
<1>2. Continuations!Lapse
  <2> DEFINE gone == LiveTokens \ LiveTokens'
  <2>1. gone \in SUBSET LiveTokens /\ LiveTokens' = LiveTokens \ gone
    BY <1>1
  <2> HIDE DEF gone
  <2> QED BY <2>1 DEF Continuations!Lapse, LiveTokens, InsideTokens
<1> QED BY <1>2 DEF LoginStoreStep, Continuations!StoreNext

(* What a new form does to the live continuations.                         *)
LEMMA NewTokenIsLive ==
  ASSUME Pages, NEW t \in Tabs, NEW q, NEW k, NEW r, NEW rest, Goto(t, <<k, r>>, Bind(pending, k, q), rest)
  PROVE  k \in DOMAIN pending' /\ DOMAIN pending' = (DOMAIN pending \ (DOMAIN pending \ DOMAIN pending')) \cup {k}
<1>1. page \in [Tabs -> (LoginTokens \cup {NoToken}) \X (LoginTokens \cup {NoToken})]
  BY DEF Pages
<1>2. /\ \A o \in Tabs : page'[o] = IF o = t THEN <<k, r>> ELSE page[o]
      /\ DOMAIN pending' \subseteq DOMAIN Bind(pending, k, q)
      /\ \A o \in Tabs : page'[o][1] \in DOMAIN Bind(pending, k, q) => page'[o][1] \in DOMAIN pending'
  BY <1>1, GotoMoves
<1>3. DOMAIN Bind(pending, k, q) = DOMAIN pending \cup {k}
  BY DEF Bind
<1> QED BY <1>2, <1>3

LEMMA PuttingIsAStep ==
  ASSUME Pages, NEW t \in Tabs, NEW q, NEW k \in Free(t), NEW r, NEW rest, Goto(t, <<k, r>>, Bind(pending, k, q), rest),
         lstep[t] \notin {"verify", "issue"}, InsideTokens' = InsideTokens
  PROVE  LoginStoreStep
<1>0. k \in LoginTokens /\ \A o \in Tabs \ {t} : k # taken[o][1]
  BY DEF Free
<1>1. k \in DOMAIN pending' /\ DOMAIN pending' = (DOMAIN pending \ (DOMAIN pending \ DOMAIN pending')) \cup {k}
  BY <1>0, NewTokenIsLive
<1>2. CASE k \in DOMAIN pending
  BY <1>1, <1>2, LapsingIsAStep
<1>3. CASE k \notin DOMAIN pending
  <2> DEFINE gone == LiveTokens \ LiveTokens'
  <2>1. /\ k \in LoginTokens \ LiveTokens /\ gone \in SUBSET LiveTokens /\ LiveTokens' = (LiveTokens \ gone) \cup {k}
        /\ \A c \in Tabs : <<c, k>> \notin InsideTokens
    BY <1>0, <1>1, <1>3 DEF LiveTokens, InsideTokens
  <2> HIDE DEF gone
  <2>2. Continuations!Put
    BY <2>1 DEF Continuations!Put, LiveTokens, InsideTokens
  <2> QED BY <2>2 DEF LoginStoreStep, Continuations!StoreNext
<1> QED BY <1>2, <1>3

LEMMA RenewingIsAStep ==
  ASSUME LoginInv, NEW t \in Tabs, VerifyRejects(t)
  PROVE  LoginStoreStep
<1>0. Pages /\ HandlerTypes /\ want \in [Tabs -> AuthRequests] /\ TabAt(t)
  BY DEF LoginInv, Pages
<1>1. lstep[t] = "verify" /\ ShowForm(t, taken[t][2], page[t][2], restarts) /\ Finish(t)
  BY DEF VerifyRejects
<1>2. taken[t][1] = page[t][1] /\ taken[t][1] \in LoginTokens /\ taken[t][1] \notin DOMAIN pending
  BY <1>0, <1>1 DEF TabAt, Submitting
<1>3. PICK k \in LoginTokens : k \in Free(t) /\ Goto(t, <<k, page[t][2]>>, Bind(pending, k, taken[t][2]), restarts)
  BY <1>1 DEF ShowForm, Least
<1>4. \A o \in Tabs \ {t} : k # taken[o][1] /\ k # page[o][1]
  BY <1>3 DEF Free
<1>5. k \notin DOMAIN pending
  BY <1>0, <1>2, <1>4 DEF Pages
<1>6. k \in DOMAIN pending' /\ DOMAIN pending' = (DOMAIN pending \ (DOMAIN pending \ DOMAIN pending')) \cup {k}
  BY <1>0, <1>3, NewTokenIsLive
<1>7. lstep'[t] = "idle" /\ \A o \in Tabs \ {t} : lstep'[o] = lstep[o] /\ taken'[o] = taken[o]
  BY <1>0, <1>1, FinishMoves
<1>8. <<t, taken[t][1]>> \in InsideTokens /\ InsideTokens' = InsideTokens \ {<<t, taken[t][1]>>}
  BY <1>1, <1>2, <1>7, HolderLeaves
<1>9. Continuations!Renew
  <2> DEFINE gone == LiveTokens \ LiveTokens'
             e == <<t, taken[t][1]>>
  <2>1. /\ k \in LoginTokens \ LiveTokens /\ gone \in SUBSET LiveTokens /\ LiveTokens' = (LiveTokens \ gone) \cup {k}
        /\ e \in InsideTokens /\ InsideTokens' = InsideTokens \ {e}
    BY <1>5, <1>6, <1>8 DEF LiveTokens
  <2>2. \A c \in Tabs : <<c, k>> \notin InsideTokens \ {e}
    BY <1>4 DEF InsideTokens
  <2> HIDE DEF gone, e
  <2> QED BY <2>1, <2>2 DEF Continuations!Renew, LiveTokens, InsideTokens
<1> QED BY <1>9 DEF LoginStoreStep, Continuations!StoreNext

(* A submission opens the continuation of its form ...                     *)
LEMMA OpeningIsAStep ==
  ASSUME LoginInv, NEW t \in Tabs, SubmitTakes(t)
  PROVE  LoginStoreStep
<1>0. HandlerTypes /\ DOMAIN pending \subseteq LoginTokens
  BY DEF LoginInv, Pages, IsMap
<1>1. /\ lstep[t] = "idle" /\ page[t][1] \in DOMAIN pending /\ lstep' = [lstep EXCEPT ![t] = "verify"]
      /\ taken' = [taken EXCEPT ![t] = <<page[t][1], pending[page[t][1]]>>]
      /\ pending' = Without(pending, page[t][1])
  BY DEF SubmitTakes
<1>2. DOMAIN pending' = DOMAIN pending \ {page[t][1]}
  BY <1>1 DEF Without
<1>3. /\ lstep'[t] = "verify" /\ taken'[t] = <<page[t][1], pending[page[t][1]]>>
      /\ \A o \in Tabs \ {t} : lstep'[o] = lstep[o] /\ taken'[o] = taken[o]
  BY <1>0, <1>1 DEF HandlerTypes
<1>4. InsideTokens' = InsideTokens \cup {<<t, page[t][1]>>}
  <2>1. <<t, page[t][1]>> \in InsideTokens'
    BY <1>0, <1>1, <1>3 DEF InsideTokens
  <2>2. \A e \in InsideTokens' : e = <<t, page[t][1]>> \/ e \in InsideTokens
    BY <1>3 DEF InsideTokens
  <2>3. \A e \in InsideTokens : e \in InsideTokens'
    BY <1>1, <1>3 DEF InsideTokens
  <2> QED BY <2>1, <2>2, <2>3
<1>5. Continuations!Open
  <2> DEFINE h == page[t][1]
  <2>1. h \in LiveTokens /\ InsideTokens' = InsideTokens \cup {<<t, h>>} /\ LiveTokens' = LiveTokens \ {h}
    BY <1>1, <1>2, <1>4 DEF LiveTokens
  <2> HIDE DEF h
  <2> QED BY <2>1 DEF Continuations!Open, LiveTokens, InsideTokens
<1> QED BY <1>5 DEF LoginStoreStep, Continuations!StoreNext

(* ... and leaves with a code, or with the answer that there is none.      *)
LEMMA LeavingIsAStep ==
  ASSUME LoginInv, NEW t \in Tabs, IssueCodeOk(t) \/ IssueCodeFails(t)
  PROVE  LoginStoreStep
<1>0. HandlerTypes /\ TabAt(t) /\ want \in [Tabs -> AuthRequests]
  BY DEF LoginInv, Pages
<1>1. lstep[t] = "issue" /\ pending' = pending
  BY DEF IssueCodeOk, IssueCodeFails, tokenVars
<1>2. taken[t][1] \in LoginTokens
  BY <1>0, <1>1 DEF TabAt, Submitting
<1>3. lstep'[t] \notin {"verify", "issue"} /\ \A o \in Tabs \ {t} : lstep'[o] = lstep[o] /\ taken'[o] = taken[o]
  <2>1. CASE IssueCodeOk(t)
    BY <1>0, <2>1 DEF IssueCodeOk, HandlerTypes
  <2>2. CASE IssueCodeFails(t)
    BY <1>0, <2>2, FinishMoves DEF IssueCodeFails
  <2> QED BY <2>1, <2>2
<1>4. <<t, taken[t][1]>> \in InsideTokens /\ InsideTokens' = InsideTokens \ {<<t, taken[t][1]>>}
  BY <1>1, <1>2, <1>3, HolderLeaves
<1>5. Continuations!Leave
  <2> DEFINE e == <<t, taken[t][1]>>
  <2>1. e \in InsideTokens /\ InsideTokens' = InsideTokens \ {e} /\ LiveTokens' = LiveTokens
    BY <1>1, <1>4 DEF LiveTokens
  <2> HIDE DEF e
  <2> QED BY <2>1 DEF Continuations!Leave, LiveTokens, InsideTokens
<1> QED BY <1>5 DEF LoginStoreStep, Continuations!StoreNext

(* Forms shown to a tab whose request holds no continuation.               *)
LEMMA FormIsAStep ==
  ASSUME LoginInv, NEW t \in Tabs,
         \/ Reopen(t) \/ SubmitRestarts(t) \/ LookupMissing(t) \/ IssueForSessionFails(t)
         \/ \E q \in AuthRequests : AuthorizeWithoutCookie(t, q)
  PROVE  LoginStoreStep
<1>0. Pages /\ HandlerTypes /\ want \in [Tabs -> AuthRequests]
  BY DEF LoginInv, Pages
<1>1. /\ lstep[t] \in {"idle", "lookup", "reissue"} /\ lstep'[t] = "idle"
      /\ \A o \in Tabs \ {t} : lstep'[o] = lstep[o] /\ taken'[o] = taken[o]
  <2>1. CASE Reopen(t) \/ SubmitRestarts(t) \/ \E q \in AuthRequests : AuthorizeWithoutCookie(t, q)
    BY <2>1 DEF Reopen, SubmitRestarts, AuthorizeWithoutCookie, handlerVars
  <2>2. CASE LookupMissing(t) \/ IssueForSessionFails(t)
    <3>1. Finish(t) /\ lstep[t] \in {"lookup", "reissue"}
      BY <2>2 DEF LookupMissing, IssueForSessionFails
    <3> QED BY <1>0, <3>1, FinishMoves
  <2> QED BY <2>1, <2>2
<1>2. InsideTokens' = InsideTokens
  BY <1>1, HoldersStay
<1>3. lstep[t] \notin {"verify", "issue"}
  BY <1>1
<1>4. \A q, r, rest : ShowForm(t, q, r, rest) => LoginStoreStep
  <2> SUFFICES ASSUME NEW q, NEW r, NEW rest, ShowForm(t, q, r, rest) PROVE LoginStoreStep
    OBVIOUS
  <2>1. PICK k \in LoginTokens : k \in Free(t) /\ Goto(t, <<k, r>>, Bind(pending, k, q), rest)
    BY DEF ShowForm, Least
  <2> QED BY <1>0, <1>2, <1>3, <2>1, PuttingIsAStep
<1>5. \E q, r, rest : ShowForm(t, q, r, rest)
  BY DEF Reopen, SubmitRestarts, LookupMissing, IssueForSessionFails, AuthorizeWithoutCookie, SendToLogin
<1> QED BY <1>4, <1>5

LEMMA NavigationIsAStep ==
  ASSUME LoginInv, NEW t \in Tabs,
         ReopenFails(t) \/ SubmitDeadEnds(t) \/ OpenSessionFails(t) \/ \E s \in SessionIds : OpenSession(t, s)
  PROVE  LoginStoreStep
<1>0. Pages /\ HandlerTypes /\ want \in [Tabs -> AuthRequests]
  BY DEF LoginInv, Pages
<1>1. Goto(t, Blank, pending, restarts) /\ lstep[t] \notin {"verify", "issue"}
  BY DEF ReopenFails, SubmitDeadEnds, OpenSessionFails, OpenSession
<1>2. DOMAIN pending' \subseteq DOMAIN pending
  BY <1>0, <1>1, GotoMoves DEF Pages
<1>3. lstep'[t] \notin {"verify", "issue"} /\ \A o \in Tabs \ {t} : lstep'[o] = lstep[o] /\ taken'[o] = taken[o]
  <2>1. CASE ReopenFails(t) \/ SubmitDeadEnds(t)
    BY <1>1, <2>1 DEF ReopenFails, SubmitDeadEnds, handlerVars
  <2>2. CASE OpenSessionFails(t) \/ \E s \in SessionIds : OpenSession(t, s)
    <3>1. Finish(t)
      BY <2>2 DEF OpenSessionFails, OpenSession
    <3> QED BY <1>0, <3>1, FinishMoves
  <2> QED BY <2>1, <2>2
<1>4. InsideTokens' = InsideTokens
  BY <1>1, <1>3, HoldersStay
<1> QED BY <1>2, <1>4, LapsingIsAStep

(* Steps that touch neither a continuation nor who holds one.              *)
LEMMA OtherIsAStep ==
  ASSUME LoginInv, NEW t \in Tabs,
         \/ LookupFound(t) \/ IssueForSession(t) \/ RevokeSession(t) \/ ClearCookie(t) \/ Logout(t)
         \/ \E u \in Accounts : VerifyAccepts(t, u)
         \/ \E q \in AuthRequests : AuthorizeWithCookie(t, q)
         \/ \E o \in Tabs : DuplicateTab(t, o)
  PROVE  LoginStoreStep
<1>0. HandlerTypes /\ want \in [Tabs -> AuthRequests]
  BY DEF LoginInv, Pages
<1>1. pending' = pending
  BY DEF LookupFound, IssueForSession, RevokeSession, ClearCookie, Logout, VerifyAccepts, AuthorizeWithCookie, DuplicateTab, tokenVars
<1>2. InsideTokens' = InsideTokens
  <2>1. CASE IssueForSession(t) \/ ClearCookie(t)
    <3>1. Finish(t) /\ lstep[t] \notin {"verify", "issue"}
      BY <2>1 DEF IssueForSession, ClearCookie
    <3>2. lstep'[t] = "idle" /\ \A o \in Tabs \ {t} : lstep'[o] = lstep[o] /\ taken'[o] = taken[o]
      BY <1>0, <3>1, FinishMoves
    <3> QED BY <3>1, <3>2, HoldersStay
  <2>2. ASSUME NEW u \in Accounts, VerifyAccepts(t, u) PROVE InsideTokens' = InsideTokens
    <3>1. lstep[t] = "verify" /\ lstep' = [lstep EXCEPT ![t] = "issue"] /\ taken' = taken
      BY <2>2 DEF VerifyAccepts
    <3>2. \A o \in Tabs : lstep'[o] = IF o = t THEN "issue" ELSE lstep[o]
      BY <1>0, <3>1 DEF HandlerTypes
    <3> QED BY <3>1, <3>2 DEF InsideTokens
  <2>3. CASE LookupFound(t) \/ RevokeSession(t) \/ Logout(t) \/ \E q \in AuthRequests : AuthorizeWithCookie(t, q)
    <3>1. /\ lstep[t] \notin {"verify", "issue"}
          /\ \E s \in {"reissue", "clear", "revoke", "lookup"} : lstep' = [lstep EXCEPT ![t] = s]
          /\ taken' = taken \/ \E q \in AuthRequests : taken' = [taken EXCEPT ![t] = <<NoToken, q>>]
      BY <2>3 DEF LookupFound, RevokeSession, Logout, AuthorizeWithCookie
    <3>2. lstep'[t] \notin {"verify", "issue"} /\ \A o \in Tabs \ {t} : lstep'[o] = lstep[o]
      BY <1>0, <3>1 DEF HandlerTypes
    <3>3. \A o \in Tabs \ {t} : taken'[o] = taken[o]
      BY <1>0, <3>1 DEF HandlerTypes
    <3> QED BY <3>1, <3>2, <3>3, HoldersStay
  <2>4. ASSUME NEW o \in Tabs, DuplicateTab(t, o) PROVE InsideTokens' = InsideTokens
    <3>1. lstep[t] = "idle" /\ lstep' = lstep /\ taken' = [taken EXCEPT ![t] = <<NoToken, want[o]>>]
      BY <2>4 DEF DuplicateTab
    <3>2. \A p \in Tabs \ {t} : taken'[p] = taken[p]
      BY <1>0, <3>1 DEF HandlerTypes
    <3> QED BY <3>1, <3>2, HoldersStay
  <2> QED BY <2>1, <2>2, <2>3, <2>4
<1> QED BY <1>1, <1>2, LapsingIsAStep

LEMMA LoginRefines == LoginInv /\ [NextLogin]_loginVars => LoginStoreStep
<1> SUFFICES ASSUME LoginInv, [NextLogin]_loginVars PROVE LoginStoreStep
  OBVIOUS
<1>1. ASSUME NEW t \in Tabs, Submit(t) \/ Handle(t) \/ Logout(t) \/ Reopen(t) \/ ReopenFails(t) PROVE LoginStoreStep
  BY <1>1, RenewingIsAStep, OpeningIsAStep, LeavingIsAStep, FormIsAStep, NavigationIsAStep, OtherIsAStep DEF Submit, Handle
<1>2. ASSUME NEW t \in Tabs, NEW q \in AuthRequests, AuthorizeWithCookie(t, q) \/ AuthorizeWithoutCookie(t, q)
      PROVE  LoginStoreStep
  BY <1>2, FormIsAStep, OtherIsAStep
<1>3. ASSUME NEW t \in Tabs, NEW o \in Tabs, DuplicateTab(t, o) PROVE LoginStoreStep
  BY <1>3, OtherIsAStep
<1>4. ASSUME (\E k \in LoginTokens : LapseContinuation(k) \/ LapseRestart(k)) \/ (\E s \in SessionIds : ExpireSession(s))
      PROVE  LoginStoreStep
  <2>1. pending' = pending \/ \E k \in LoginTokens : pending' = Without(pending, k)
    BY <1>4 DEF LapseContinuation, LapseRestart, ExpireSession, tokenVars
  <2>2. DOMAIN pending' \subseteq DOMAIN pending
    BY <2>1 DEF Without
  <2>3. InsideTokens' = InsideTokens
    BY <1>4 DEF LapseContinuation, LapseRestart, ExpireSession, handlerVars, InsideTokens
  <2> QED BY <2>2, <2>3, LapsingIsAStep
<1>5. CASE RestartDaemon
  <2>1. DOMAIN pending' \subseteq DOMAIN pending
    BY <1>5 DEF RestartDaemon
  <2>2. \A t \in Tabs : lstep'[t] = "idle"
    BY <1>5 DEF RestartDaemon
  <2>3. InsideTokens' = {}
    BY <2>2 DEF InsideTokens
  <2> QED BY <2>1, <2>3, LapsingIsAStep
<1>6. CASE UNCHANGED loginVars
  BY <1>6 DEF loginVars, tokenVars, handlerVars, LoginStoreStep, LiveTokens, InsideTokens
<1> QED BY <1>1, <1>2, <1>3, <1>4, <1>5, <1>6 DEF NextLogin

(* For every number of tabs, requests, tokens and sessions: one submission *)
(* gets past a continuation, a code is for the request its tab set out     *)
(* with, forms can be resumed until their restart token lapses, no dead    *)
(* session skips the form, and take and store are an atomic single-use     *)
(* store.                                                                  *)
THEOREM LoginsAreSound == SpecLogin => SignInsAreSound
<1>1. SpecLogin => []LoginInv
  BY LoginInitial, LoginStep, PTL DEF SpecLogin
<1>2. InitLogin => Continuations!StoreInit
  <2> SUFFICES ASSUME InitLogin PROVE Continuations!StoreInit
    OBVIOUS
  <2>1. pending = <<>> /\ \A t \in Tabs : lstep[t] = "idle"
    BY DEF InitLogin
  <2> QED BY <2>1 DEF Continuations!StoreInit
<1>3. SpecLogin => Continuations!StoreSpec
  BY <1>1, <1>2, LoginRefines, PTL DEF SpecLogin, Continuations!StoreSpec, LoginStoreStep, LiveTokens, InsideTokens
<1> QED BY <1>1, <1>3, LoginTells, PTL DEF SignInsAreSound, ContinuationsAreOneTime

(***************************************************************************)
(* What MCSso checks: a behaviour in which one of the three moves.         *)
(***************************************************************************)
LEMMA PartsMove ==
  /\ Init => InitLogin /\ InitSso /\ InitSockets
  /\ [Next]_ssoAllVars => [NextLogin]_loginVars /\ [NextSso]_ssoVars /\ [NextSockets]_socketVars
<1>1. Init => InitLogin /\ InitSso /\ InitSockets
  BY DEF Init
<1>2. [Next]_ssoAllVars => [NextLogin]_loginVars /\ [NextSso]_ssoVars /\ [NextSockets]_socketVars
  BY DEF Next, ssoAllVars
<1> QED BY <1>1, <1>2

(* The handles of the login form, the tickets and the SAML requests are    *)
(* single-use in every behaviour, whatever the fairness.                   *)
THEOREM HandlesStayOneTime == Spec => HandlesAreOneTime
<1>1. Spec => SpecLogin /\ SpecSso
  BY PartsMove, PTL DEF Spec, SpecLogin, SpecSso
<1> QED BY <1>1, LoginsAreSound, TicketsAreOneTime, PTL DEF HandlesAreOneTime

(* The count of handler threads is exact while any of the parts moves.     *)
THEOREM SocketsKeepCount == Spec => []ServerKeepsCount
<1>1. Spec => SpecSockets
  BY PartsMove, PTL DEF Spec, SpecSockets
<1> QED BY <1>1, ServersKeepCount, PTL
=============================================================================
