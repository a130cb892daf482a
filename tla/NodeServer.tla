----------------------------- MODULE NodeServer -----------------------------
(***************************************************************************)
(* The P2P node (src/src/p2p/NetNode.cpp, PeerListManager.cpp) on the      *)
(* cooperative contexts of src/src/system and src/src/platform/Linux: the  *)
(* loops that accept and make connections, the handler of each connection, *)
(* the white and the gray list of peers, and the stop of all of it.        *)
(*                                                                         *)
(* One context runs at a time, from where it was resumed to the next call  *)
(* that waits.  `resuming' is the dispatcher's queue of contexts that may  *)
(* go on, the one that runs at its head; `wake' says why a context was put *)
(* there, and `interrupted' is the flag that makes its next wait throw.    *)
(* The contexts that a step creates only to wait for them (the inner       *)
(* context of connectionHandler, the ones around connect, handshake and    *)
(* ping) are part of the context that waits: Context::wait passes an       *)
(* interrupt on to them.                                                   *)
(***************************************************************************)
EXTENDS Integers, FiniteSets, Sequences, SequencesExt, FiniteSetsExt

CONSTANTS
  Address,            \* addresses of peers; a peer's id is its address
  Own,                \* the address, and the id, of this node
  Loopback,           \* addresses that is_ip_allowed refuses
  Alive,              \* addresses at which a peer answers
  Connection,         \* connection ids
  Seeds, Priority,    \* m_seed_nodes, m_priority_peers
  ConnectionsCount,   \* connections_count
  WhiteLimit, GrayLimit,
  Visitors,           \* peers that connect to this node
  MaxIncoming,        \* bound: incoming connections
  MaxEvents,          \* bound: events reported at a yield, 16 in the code
  MaxLists,           \* bound: non-empty peer lists received
  MaxFaults           \* bound: lost connections, failed handshakes, timeouts

ASSUME NodeAssumption ==
  /\ {Own} \cup Loopback \cup Alive \cup Visitors \subseteq Address
  /\ Seeds \in Seq(Address) /\ Priority \in Seq(Address)
  /\ {ConnectionsCount, WhiteLimit, GrayLimit, MaxIncoming, MaxEvents, MaxLists, MaxFaults} \subseteq Nat
  /\ Cardinality(Connection) >= ConnectionsCount + Len(Priority) + MaxIncoming
  /\ Connection \cap {"accept", "idle", "timedSync", "main", "stopSignal"} = {}

VARIABLES
  resuming, group,               \* Dispatcher, m_workingContextGroup
  pc, wake, interrupted,         \* NativeContext
  m_stop, remote, stopEvent, handlerStop,
  m_peers_white, m_peers_gray,   \* by_time, newest first
  m_connections,
  maker,                         \* local variables of connections_maker
  incoming, lists, faults        \* so far

dispatcherVars == <<resuming, group, pc, wake, interrupted>>
stopVars  == <<m_stop, remote, stopEvent, handlerStop>>
peerVars  == <<m_peers_white, m_peers_gray>>
boundVars == <<incoming, lists, faults>>
vars == <<dispatcherVars, stopVars, peerVars, m_connections, maker, boundVars>>

Loops   == {"accept", "idle", "timedSync"}
Context == Loops \cup Connection \cup {"main", "stopSignal"}
-----------------------------------------------------------------------------
(* The peer lists. *)
is_ip_allowed(a) == a \notin Loopback
Without(list, a) == RemoveFirst(list, a)
trim(list, limit) == SubSeq(list, 1, Min({Len(list), limit}))

(* The peer was seen now: it becomes the newest of the white list and      *)
(* leaves the gray one, which is `gray' so far.                            *)
SeenWith(gray, a) ==
  /\ m_peers_white' = IF is_ip_allowed(a)
                      THEN trim(<<a>> \o Without(m_peers_white, a), WhiteLimit)
                      ELSE m_peers_white
  /\ m_peers_gray' = IF is_ip_allowed(a) THEN Without(gray, a) ELSE gray

append_with_peer_white(a) == SeenWith(m_peers_gray, a)

(* Where an entry of the gray list stands depends on when the sender of    *)
(* the list saw the peer: any place.                                       *)
GrayWith(gray, a) ==
  IF is_ip_allowed(a) /\ ~Contains(m_peers_white, a)
  THEN {trim(InsertAt(Without(gray, a), i, a), GrayLimit) : i \in 1 .. Len(Without(gray, a)) + 1}
  ELSE {gray}

(* The gray list after a list from a peer, of at most two entries. *)
merge_peerlist(gray) ==
  \/ gray = m_peers_gray /\ UNCHANGED lists
  \/ gray # m_peers_gray /\ lists < MaxLists /\ lists' = lists + 1
WithEntry(gray) == UNION {GrayWith(gray, a) : a \in Address}
Merged == {m_peers_gray} \cup UNION {{g} \cup WithEntry(g) : g \in WithEntry(m_peers_gray)}

(* Which positions get_random_index_with_fixed_probability can return. *)
RandomIndexes(max) ==
  IF max = 0 THEN {0} ELSE {(x * x * x) \div (max * max) : x \in 0 .. max}
-----------------------------------------------------------------------------
(* Dispatcher, Context and ContextGroup. *)
Waiting(c) ==
  /\ wake[c] = "none"
  /\ pc[c] \in {"accept", "sleep", "connect", "handshake", "read", "ping", "stopEvent"}

(* A call that waits; it throws at once in an interrupted context, which   *)
(* then goes on at `where' with the exception.                             *)
Block(c, where) ==
  /\ pc' = [pc EXCEPT ![c] = where]
  /\ IF interrupted[c]
     THEN /\ interrupted' = [interrupted EXCEPT ![c] = FALSE]
          /\ wake' = [wake EXCEPT ![c] = "interrupted"]
          /\ UNCHANGED resuming
     ELSE /\ wake' = [wake EXCEPT ![c] = "none"]
          /\ resuming' = Tail(resuming)
          /\ UNCHANGED interrupted
  /\ UNCHANGED group

(* ContextGroup::spawn of the handler of a connection; c goes on. *)
Spawn(c, handler, where) ==
  /\ group' = Append(group, handler)
  /\ resuming' = Append(resuming, handler)
  /\ interrupted' = [interrupted EXCEPT ![handler] = FALSE]
  /\ wake' = [wake EXCEPT ![handler] = "none"]
  /\ pc' = [pc EXCEPT ![c] = where, ![handler] = "start"]

(* The context ends; the last of the group resumes the one that waits for  *)
(* it.                                                                     *)
Finish(c) ==
  /\ group' = RemoveFirst(group, c)
  /\ pc' = [pc EXCEPT ![c] = "ended"]
  /\ resuming' = Tail(resuming) \o
                   (IF group' = <<>> /\ pc["main"] = "join" THEN <<"main">> ELSE <<>>)
  /\ wake' = [wake EXCEPT ![c] = "none"]
  /\ UNCHANGED interrupted

Goto(c, where) ==
  /\ pc' = [pc EXCEPT ![c] = where]
  /\ UNCHANGED <<resuming, group, wake, interrupted>>

(* Dispatcher::interrupt of every context of the group.  A context that    *)
(* waits is resumed with the exception, any other gets the flag.  A timer  *)
(* that has expired, unnoticed so far, resumes its context without either. *)
InterruptGroup ==
  LET hit == {c \in ToSet(group) : Waiting(c)} IN
  \E expired \in SUBSET {c \in hit : pc[c] = "sleep"} :
    /\ wake' = [c \in Context |->
                  IF c \notin hit THEN wake[c]
                  ELSE IF c \in expired THEN "ready" ELSE "interrupted"]
    /\ interrupted' = [c \in Context |-> interrupted[c] \/ c \in ToSet(group) \ hit]
    /\ resuming' = Tail(resuming) \o SelectSeq(group, Waiting)

Running(c, where) == resuming # <<>> /\ Head(resuming) = c /\ pc[c] = where

Incoming == {c \in DOMAIN m_connections : m_connections[c].m_is_income}
Outgoing == DOMAIN m_connections \ Incoming

(* What epoll_wait may report: an operation that ended, a timer, a remote  *)
(* spawn.                                                                  *)
Reported(s) ==
  \/ s = "stopSignal" /\ remote
  \/ s = "accept" /\ Waiting(s) /\ incoming < MaxIncoming
  \/ s \in Context \ {"main", "stopSignal", "accept"} /\ Waiting(s)

Report(events) ==
  /\ wake' = [c \in Context |-> IF c \in ToSet(events) THEN "ready" ELSE wake[c]]
  /\ remote' = (remote /\ "stopSignal" \notin ToSet(events))

Epoll(s) ==
  /\ resuming = <<>> /\ Reported(s)
  /\ Report(<<s>>) /\ resuming' = <<s>>
  /\ pc' = IF s = "stopSignal" THEN [pc EXCEPT ![s] = "start"] ELSE pc
  /\ UNCHANGED <<group, interrupted, m_stop, stopEvent, handlerStop, peerVars,
                 m_connections, maker, boundVars>>

Batches == {b \in BoundedSeq({s \in Context : Reported(s)}, MaxEvents) : IsInjective(b)}

(* Dispatcher::yield: what is reported now, in any order, is queued before *)
(* the context that yields; with an empty queue it goes on.                *)
Yield(c) ==
  \E events \in Batches :
    /\ resuming' = Tail(resuming) \o events \o <<c>>
    /\ Report(events)
    /\ pc' = [pc EXCEPT !["stopSignal"] = IF "stopSignal" \in ToSet(events) THEN "start" ELSE @,
                        ![c] = "yield"]
    /\ UNCHANGED <<group, interrupted>>
-----------------------------------------------------------------------------
(* NodeServer::run and sendStopSignal. *)
NoMaker == [stage |-> <<>>, next |-> 1, tries |-> 0, count |-> 0, tried |-> {}, target |-> Own,
            for |-> "none"]

Init ==
  /\ resuming = <<"accept", "idle", "timedSync">> /\ group = resuming
  /\ pc = [c \in Context |->
             IF c = "main" THEN "stopEvent" ELSE IF c \in Loops THEN "start" ELSE "ended"]
  /\ wake = [c \in Context |-> "none"] /\ interrupted = [c \in Context |-> FALSE]
  /\ m_stop = FALSE /\ remote = FALSE /\ stopEvent = FALSE /\ handlerStop = FALSE
  /\ m_peers_white = <<>> /\ m_peers_gray = <<>> /\ m_connections = <<>>
  /\ maker = NoMaker
  /\ incoming = 0 /\ lists = 0 /\ faults = 0

(* From another thread; the flag first. *)
SetStop ==
  /\ ~m_stop /\ m_stop' = TRUE
  /\ UNCHANGED <<dispatcherVars, remote, stopEvent, handlerStop, peerVars, m_connections, maker, boundVars>>

RemoteSpawn ==
  /\ m_stop /\ ~remote /\ ~stopEvent /\ pc["stopSignal"] = "ended" /\ remote' = TRUE
  /\ UNCHANGED <<dispatcherVars, m_stop, stopEvent, handlerStop, peerVars, m_connections, maker, boundVars>>

StopSignal ==
  /\ Running("stopSignal", "start")
  /\ stopEvent' = TRUE /\ handlerStop' = TRUE
  /\ resuming' = Append(Tail(resuming), "main")
  /\ wake' = [wake EXCEPT !["stopSignal"] = "none", !["main"] = "ready"]
  /\ pc' = [pc EXCEPT !["stopSignal"] = "ended"]
  /\ UNCHANGED <<group, interrupted, m_stop, remote, peerVars, m_connections, maker, boundVars>>

StopGroup ==
  /\ Running("main", "stopEvent")
  /\ InterruptGroup
  /\ pc' = [pc EXCEPT !["main"] = "join"]
  /\ UNCHANGED <<group, stopVars, peerVars, m_connections, maker, boundVars>>

Return ==
  /\ Running("main", "join")
  /\ pc' = [pc EXCEPT !["main"] = "returned"] /\ resuming' = Tail(resuming)
  /\ UNCHANGED <<group, wake, interrupted, stopVars, peerVars, m_connections, maker, boundVars>>
-----------------------------------------------------------------------------
(* The loops that accept and that remind the peers. *)
FreeId == CHOOSE c \in Connection : c \notin DOMAIN m_connections
NewConnection(c, a, income, peer) ==
  m_connections' = [d \in DOMAIN m_connections \cup {c} |->
    IF d = c THEN [m_remote |-> a, m_is_income |-> income, peerId |-> peer] ELSE m_connections[d]]

StartLoop ==
  /\ \/ Running("accept", "start") /\ Block("accept", "accept")
     \/ Running("timedSync", "start") /\ Block("timedSync", "sleep")
  /\ UNCHANGED <<stopVars, peerVars, m_connections, maker, boundVars>>

Accept ==
  /\ Running("accept", "accept")
  /\ \/ /\ wake["accept"] = "ready"
        /\ Spawn("accept", FreeId, "start")
        /\ NewConnection(FreeId, "unknown", TRUE, "unknown")
        /\ incoming' = incoming + 1
     \/ /\ wake["accept"] = "interrupted"
        /\ Finish("accept") /\ UNCHANGED <<m_connections, incoming>>
  /\ UNCHANGED <<stopVars, peerVars, maker, lists, faults>>

(* The messages that timedSync queues are left to the connections. *)
TimedSync ==
  /\ Running("timedSync", "sleep")
  /\ \/ wake["timedSync"] = "ready" /\ Block("timedSync", "sleep")
     \/ wake["timedSync"] = "interrupted" /\ Finish("timedSync")
  /\ UNCHANGED <<stopVars, peerVars, m_connections, maker, boundVars>>
-----------------------------------------------------------------------------
(* connectionHandler. *)
Fault == faults < MaxFaults /\ faults' = faults + 1

StartHandler(c) ==
  /\ Running(c, "start") /\ Block(c, "read")
  /\ UNCHANGED <<stopVars, peerVars, m_connections, maker, boundVars>>

(* The peer is gone, a message is refused (state_shutdown), or an interrupt *)
(* came: on_connection_close, m_connections.erase.                          *)
CloseConnection(c) ==
  /\ \/ Running(c, "read") /\ wake[c] = "interrupted" /\ UNCHANGED faults
     \/ Running(c, "read") /\ wake[c] = "ready" /\ Fault
     \/ Running(c, "yield") /\ Fault
  /\ Finish(c)
  /\ m_connections' = [d \in DOMAIN m_connections \ {c} |-> m_connections[d]]
  /\ UNCHANGED <<stopVars, peerVars, maker, incoming, lists>>

(* A first handshake on an incoming connection; neither a peer that hides  *)
(* its port nor this node itself is pinged.                                *)
handle_handshake(c) ==
  /\ Running(c, "read") /\ wake[c] = "ready"
  /\ m_connections[c].m_is_income /\ m_connections[c].peerId = "unknown"
  /\ \E a \in Visitors, my_port \in BOOLEAN :
       /\ m_connections' = [m_connections EXCEPT ![c].peerId = a]
       /\ Block(c, IF a # Own /\ my_port /\ is_ip_allowed(a) THEN "ping" ELSE "read")
  /\ UNCHANGED <<stopVars, peerVars, maker, boundVars>>

(* try_ping catches every exception, an interrupt too. *)
PingAnswered(c) ==
  /\ Running(c, "ping")
  /\ \/ wake[c] = "ready" /\ append_with_peer_white(m_connections[c].peerId)
     \/ UNCHANGED peerVars
  /\ Block(c, "read")
  /\ UNCHANGED <<stopVars, m_connections, maker, boundVars>>

handleTimedSyncResponse(c) ==
  /\ Running(c, "read") /\ wake[c] = "ready" /\ m_connections[c].peerId # "unknown"
  /\ \E gray \in Merged :
       /\ merge_peerlist(gray)
       /\ IF m_connections[c].m_is_income
          THEN m_peers_gray' = gray /\ UNCHANGED m_peers_white
          ELSE SeenWith(gray, m_connections[c].m_remote)
  /\ Block(c, "read")
  /\ UNCHANGED <<stopVars, m_connections, maker, incoming, faults>>

(* Mutant: the response is processed to its end whatever the stop says. *)
processAllObjects(c) ==
  /\ \/ Running(c, "read") /\ wake[c] = "ready" /\ m_connections[c].peerId # "unknown"
     \/ Running(c, "yield")
  /\ Yield(c)
  /\ UNCHANGED <<m_stop, stopEvent, handlerStop, peerVars, m_connections, maker, boundVars>>

(* processObjects: a block, then the other contexts, then the next one. *)
processObjects(c) ==
  /\ \/ Running(c, "read") /\ wake[c] = "ready" /\ m_connections[c].peerId # "unknown"
     \/ Running(c, "yield")
  /\ ~handlerStop
  /\ Yield(c)
  /\ UNCHANGED <<m_stop, stopEvent, handlerStop, peerVars, m_connections, maker, boundVars>>

EndObjects(c) ==
  /\ Running(c, "yield") /\ Block(c, "read")
  /\ UNCHANGED <<stopVars, peerVars, m_connections, maker, boundVars>>
-----------------------------------------------------------------------------
(* onIdle, connections_maker. *)
is_addr_connected(a) == \E c \in Outgoing : m_connections[c].m_remote = a

(* Mutant: only the peers that connected to this node are looked at. *)
is_peer_used_in(a) == a = Own \/ \E c \in Incoming : m_connections[c].peerId = a

is_peer_used(a) ==
  \/ a = Own
  \/ \E c \in DOMAIN m_connections : m_connections[c].peerId = a
  \/ is_addr_connected(a)

P2P_DEFAULT_WHITELIST_CONNECTIONS_PERCENT == 70
ExpectedWhite == (ConnectionsCount * P2P_DEFAULT_WHITELIST_CONNECTIONS_PERCENT) \div 100

ListOf(stage) == IF stage.white THEN m_peers_white ELSE m_peers_gray
Stage(white, expected) == [white |-> white, expected |-> expected]

(* Mutant: the white list is not returned to once it had its share. *)
StagesWhiteFirst ==
  LET conn_count == Cardinality(Outgoing) IN
  IF conn_count >= ConnectionsCount THEN <<>>
  ELSE IF conn_count < ExpectedWhite
       THEN <<Stage(TRUE, ExpectedWhite), Stage(FALSE, ConnectionsCount)>>
       ELSE <<Stage(FALSE, ConnectionsCount)>>

(* What is left to do for connections_maker when it comes to the lists. *)
Stages ==
  LET conn_count == Cardinality(Outgoing) IN
  IF conn_count >= ConnectionsCount THEN <<>>
  ELSE IF conn_count < ExpectedWhite
       THEN <<Stage(TRUE, ExpectedWhite), Stage(FALSE, ConnectionsCount)>>
       ELSE <<Stage(FALSE, ConnectionsCount), Stage(TRUE, ConnectionsCount)>>

TryToConnect(a, purpose, next, tries, tried) ==
  /\ maker' = [maker EXCEPT !.target = a, !.for = purpose, !.next = next, !.tries = tries,
                            !.tried = tried]
  /\ Block("idle", "connect")

AfterFailure(purpose) ==
  CASE purpose = "seed" -> "seedFailed" [] purpose = "priority" -> "priority" [] purpose = "list" -> "draw"
AfterSuccess(purpose) == IF purpose = "list" THEN "stages" ELSE "priority"
AtRest == [maker EXCEPT !.target = Own, !.for = "none"]

IdleInterrupted ==
  /\ Running("idle", "sleep") /\ wake["idle"] = "interrupted" /\ Finish("idle")
  /\ UNCHANGED <<stopVars, peerVars, m_connections, maker, boundVars>>

(* A round, unless m_stop; seeds are asked when the white list is empty. *)
StartRound ==
  /\ Running("idle", "start") \/ (Running("idle", "sleep") /\ wake["idle"] = "ready")
  /\ \/ m_stop /\ Finish("idle") /\ UNCHANGED maker
     \/ /\ ~m_stop /\ m_peers_white = <<>>
        /\ \E i \in DOMAIN Seeds : TryToConnect(Seeds[i], "seed", i, 0, {})
     \/ /\ ~m_stop /\ (m_peers_white # <<>> \/ Seeds = <<>>)
        /\ maker' = NoMaker /\ Goto("idle", "priority")
  /\ UNCHANGED <<stopVars, peerVars, m_connections, boundVars>>

SeedFailed ==
  /\ Running("idle", "seedFailed")
  /\ \/ /\ maker.tries + 1 > Len(Seeds)
        /\ maker' = NoMaker /\ Goto("idle", "priority")
     \/ /\ maker.tries + 1 <= Len(Seeds)
        /\ LET i == (maker.next % Len(Seeds)) + 1 IN
             TryToConnect(Seeds[i], "seed", i, maker.tries + 1, {})
  /\ UNCHANGED <<stopVars, peerVars, m_connections, boundVars>>

ConnectToPriority ==
  /\ Running("idle", "priority")
  /\ LET open == {i \in maker.next .. Len(Priority) : ~is_addr_connected(Priority[i])} IN
     \/ /\ open # {}
        /\ TryToConnect(Priority[Min(open)], "priority", Min(open) + 1, 0, {})
     \/ /\ open = {}
        /\ maker' = [NoMaker EXCEPT !.stage = Stages] /\ Goto("idle", "stages")
  /\ UNCHANGED <<stopVars, peerVars, m_connections, boundVars>>

(* make_expected_connections_count. *)
Missing == maker.stage # <<>> /\ Cardinality(Outgoing) < Head(maker.stage).expected

EndRound ==
  /\ Running("idle", "stages") /\ (maker.stage = <<>> \/ (Missing /\ stopEvent))
  /\ Block("idle", "sleep") /\ maker' = NoMaker
  /\ UNCHANGED <<stopVars, peerVars, m_connections, boundVars>>

EndStage ==
  /\ Running("idle", "stages") /\ maker.stage # <<>>
  /\ ~Missing \/ (~stopEvent /\ ListOf(Head(maker.stage)) = <<>>)
  /\ maker' = [NoMaker EXCEPT !.stage = Tail(maker.stage)] /\ Goto("idle", "stages")
  /\ UNCHANGED <<stopVars, peerVars, m_connections, boundVars>>

StartDraws ==
  /\ Running("idle", "stages") /\ Missing /\ ~stopEvent /\ ListOf(Head(maker.stage)) # <<>>
  /\ maker' = [NoMaker EXCEPT !.stage = maker.stage, !.count = Len(ListOf(Head(maker.stage)))]
  /\ Goto("idle", "draw")
  /\ UNCHANGED <<stopVars, peerVars, m_connections, boundVars>>

(* make_new_connection_from_peerlist: a position drawn for the first time. *)
(* The size of the list is the one read before the first draw.             *)
Draw(i) ==
  /\ Running("idle", "draw") /\ ~m_stop
  /\ i \in RandomIndexes(Min({maker.count - 1, 20})) \ maker.tried /\ Cardinality(maker.tried) < 10
  /\ LET list == ListOf(Head(maker.stage)) IN
     \/ /\ i < Len(list) /\ ~is_peer_used(list[i + 1])
        /\ TryToConnect(list[i + 1], "list", 1, 0, maker.tried \cup {i})
     \/ /\ i < Len(list) /\ is_peer_used(list[i + 1])
        /\ maker' = [maker EXCEPT !.tried = @ \cup {i}] /\ Goto("idle", "draw")
     \/ /\ i >= Len(list)
        /\ maker' = [NoMaker EXCEPT !.stage = Tail(maker.stage)] /\ Goto("idle", "stages")
  /\ UNCHANGED <<stopVars, peerVars, m_connections, boundVars>>

(* No draw is left, or all that were left drew a position again. *)
GiveUp ==
  /\ Running("idle", "draw") /\ (m_stop \/ maker.tried # {})
  /\ maker' = [NoMaker EXCEPT !.stage = Tail(maker.stage)] /\ Goto("idle", "stages")
  /\ UNCHANGED <<stopVars, peerVars, m_connections, boundVars>>

(* try_to_connect_and_handshake_with_new_peer, after the connect. *)
Connected ==
  /\ Running("idle", "connect") /\ wake["idle"] = "ready" /\ maker.target \in Alive \cup {Own}
  /\ Block("idle", "handshake")
  /\ UNCHANGED <<stopVars, peerVars, m_connections, maker, boundVars>>

AttemptFails ==
  /\ Running("idle", "connect") \/ Running("idle", "handshake")
  /\ \/ wake["idle"] = "interrupted" /\ UNCHANGED faults
     \/ wake["idle"] = "ready" /\ maker.target \notin Alive \cup {Own} /\ UNCHANGED faults
     \/ wake["idle"] = "ready" /\ maker.target \in Alive /\ Fault
  /\ Goto("idle", AfterFailure(maker.for)) /\ maker' = AtRest
  /\ UNCHANGED <<stopVars, peerVars, m_connections, incoming, lists>>

(* just_take_peerlist. *)
PeerlistTaken ==
  /\ Running("idle", "handshake") /\ wake["idle"] = "ready" /\ maker.for = "seed"
  /\ \E gray \in Merged : merge_peerlist(gray) /\ m_peers_gray' = gray
  /\ maker' = NoMaker /\ Goto("idle", "priority")
  /\ UNCHANGED <<stopVars, m_peers_white, m_connections, incoming, faults>>

(* set_peer_just_seen comes before the test for a connection to self. *)
HandshakeDone ==
  /\ Running("idle", "handshake") /\ wake["idle"] = "ready" /\ maker.for # "seed"
  /\ \E gray \in Merged : merge_peerlist(gray) /\ SeenWith(gray, maker.target)
  /\ \/ /\ maker.target = Own
        /\ Goto("idle", AfterFailure(maker.for)) /\ maker' = AtRest
        /\ UNCHANGED m_connections
     \/ /\ maker.target # Own /\ m_stop
        /\ Block("idle", "sleep") /\ maker' = NoMaker
        /\ UNCHANGED m_connections
     \/ /\ maker.target # Own /\ ~m_stop
        /\ NewConnection(FreeId, maker.target, FALSE, maker.target)
        /\ Spawn("idle", FreeId, AfterSuccess(maker.for)) /\ maker' = AtRest
  /\ UNCHANGED <<stopVars, incoming, faults>>
-----------------------------------------------------------------------------
Handler(c) ==
  \/ StartHandler(c) \/ CloseConnection(c) \/ handle_handshake(c) \/ PingAnswered(c)
  \/ handleTimedSyncResponse(c) \/ processObjects(c) \/ EndObjects(c)
Idle ==
  \/ IdleInterrupted \/ StartRound \/ SeedFailed \/ ConnectToPriority
  \/ EndRound \/ EndStage \/ StartDraws \/ (\E i \in 0 .. 20 : Draw(i)) \/ GiveUp
  \/ Connected \/ AttemptFails \/ PeerlistTaken \/ HandshakeDone
Loop == StartLoop \/ Accept \/ TimedSync
Step == StopSignal \/ StopGroup \/ Return \/ Loop \/ Idle \/ \E c \in Connection : Handler(c)

Next == Step \/ SetStop \/ RemoteSpawn \/ \E s \in Context : Epoll(s)

(* A context that may go on does; the timer of onIdle, of a connect and of *)
(* a handshake expires and is reported, by the loop of the dispatcher or   *)
(* by a yield; the draws are independent, so that a position with a peer   *)
(* that answers is not passed over for ever.                               *)
TimerReported ==
  (Epoll("idle") \/ \E c \in Connection : processObjects(c)) /\ wake'["idle"] = "ready"
Drawn == \E i \in 0 .. 20 : Draw(i) /\ maker'.for = "list" /\ maker'.target \in Alive
Fairness == WF_vars(Step) /\ SF_vars(TimerReported) /\ SF_vars(Drawn)

Spec == Init /\ [][Next]_vars /\ Fairness
-----------------------------------------------------------------------------
(* What each variable holds; a context waits once in the queue and the     *)
(* group knows the handler of every connection.                            *)
TypeOK ==
  /\ resuming \in Seq(Context) /\ IsInjective(resuming)
  /\ ToSet(group) \subseteq Loops \cup Connection
  /\ DOMAIN m_connections = ToSet(group) \cap Connection
  /\ \A list \in {m_peers_white, m_peers_gray} : list \in Seq(Address) /\ IsInjective(list)

(* The lists of the PeerlistManager share no address and stay within their *)
(* limits, whatever lists, handshakes and pings bring.                     *)
ListsDisjoint ==
  /\ ToSet(m_peers_white) \cap ToSet(m_peers_gray) = {}
  /\ Len(m_peers_white) <= WhiteLimit /\ Len(m_peers_gray) <= GrayLimit

(* connections_maker asks is_peer_used and counts connections before it    *)
(* waits for a peer: there still is at most one outgoing connection to an  *)
(* address, and connections_count bounds those that no priority asks for.  *)
OutgoingBounded ==
  /\ \A c, d \in Outgoing : m_connections[c].m_remote = m_connections[d].m_remote => c = d
  /\ Cardinality({c \in Outgoing : m_connections[c].m_remote \notin ToSet(Priority)})
       <= ConnectionsCount

(* run interrupts the contexts of its group once and waits for all of      *)
(* them: nothing may join the group after that.                            *)
NothingOpensAfterStop ==
  [][pc["main"] = "join" => DOMAIN m_connections' \subseteq DOMAIN m_connections]_vars

(* connections_maker goes on until there are connections_count outgoing    *)
(* connections or every peer of its lists that answers is connected.       *)
EventuallyConnected ==
  <>[](\/ m_stop \/ Cardinality(Outgoing) >= ConnectionsCount
       \/ \A a \in Alive \cap (ToSet(m_peers_white) \cup ToSet(m_peers_gray)) : is_peer_used(a))

(* "This inner context is necessary in order to stop connection handler at *)
(* any moment" (NetNode.cpp:1558): once run has interrupted its contexts,  *)
(* every connection closes.                                                *)
StopEndsHandlers == pc["main"] = "join" ~> m_connections = <<>>
=============================================================================
