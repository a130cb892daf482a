--------------------------- MODULE ProtocolHandler ---------------------------
(***************************************************************************)
(* CryptoNoteProtocolHandler (cryptonote/protocol/handler.cpp): how a node *)
(* brings its chain up to that of its peers.  Each connection has a        *)
(* context and a handler that runs, as a cooperative context of the        *)
(* dispatcher, the loop of NodeServer::connectionHandler (p2p/NetNode.cpp);*)
(* a step below runs from one place where that context may yield to the    *)
(* next.  The peers run the same program, and answer from their own main   *)
(* chain, which may grow and switch meanwhile.  The core is the set of     *)
(* blocks it knows and the top of its main chain; module Blockchain has    *)
(* the rest.  Transactions, and the requests for those of the pool, do not *)
(* matter to the state of a connection and are left out.                   *)
(***************************************************************************)
EXTENDS Integers, Sequences, SequencesExt, FiniteSets, FiniteSetsExt

CONSTANTS
  Conn,             \* connections, one to each peer
  Block, Genesis, Parent, Work,  \* blocks, and the work of the chain below each
  InitialTip,       \* last block of each peer's main chain at the start
  Rejected,         \* blocks that fail verification
  IdsPerResponse,   \* BLOCKS_IDS_SYNCHRONIZING_DEFAULT_COUNT
  BlocksPerRequest, \* BLOCKS_SYNCHRONIZING_DEFAULT_COUNT
  MaxAdvances,      \* bound: changes of the peers' main chains
  MaxDrops          \* bound: connections lost for reasons outside the protocol

ASSUME BlockAssumption ==
  /\ Genesis \in Block /\ Rejected \subseteq Block \ {Genesis}
  /\ Parent \in [Block \ {Genesis} -> Block]
  /\ Work \in [Block -> Nat] /\ InitialTip \in [Conn -> Block]
  /\ \A b \in Block \ {Genesis} : Work[Parent[b]] < Work[b]
ASSUME LimitAssumption ==
  /\ IdsPerResponse \in Nat \ {0} /\ BlocksPerRequest \in Nat \ {0}
  /\ MaxAdvances \in Nat /\ MaxDrops \in Nat

VARIABLES
  known,    \* blocks of the main and the alternative chains (have_block)
  top,      \* last block of the main chain
  ctx,      \* CryptoNoteConnectionContext of each connection
  todo,     \* blocks of a response that processObjects has still to add
  busy,     \* connections inside processObjects
  observed, \* m_observedHeight
  stop,     \* m_stop
  tip,      \* last block of the main chain of each peer
  toPeer,   \* requests on their way to each peer
  toUs,     \* messages on their way from each peer
  told,     \* history: the last block of the last chain entry of each peer
  advances, \* changes of the peers' main chains so far
  drops     \* connections lost so far

vars == <<known, top, ctx, todo, busy, observed, stop, tip, toPeer, toUs, told, advances, drops>>

States == {"closed", "befor_handshake", "synchronizing", "idle", "normal", "shutdown"}

-----------------------------------------------------------------------------
(* Chains.                                                                 *)

PathTo[b \in Block] == IF b = Genesis THEN <<b>> ELSE Append(PathTo[Parent[b]], b)
ChainOf == [b \in Block |-> PathTo[b]]
Height(b) == Len(ChainOf[b])

(* The elements of s that are in S, in their order.                        *)
Only(s, S) ==
  LET first[k \in Nat] ==
        IF k = 0 THEN <<>> ELSE IF s[k] \in S THEN Append(first[k - 1], s[k]) ELSE first[k - 1]
  IN  first[Len(s)]

(* The last block, and those 2, 4, 8, .. from the end, and the first.      *)
buildSparseChain(b) ==
  LET n == Len(ChainOf[b])
  IN  {ChainOf[b][n + 1 - 2^k] : k \in {j \in 0 .. n : 2^j <= n}} \cup {Genesis}

(* The ids from the highest block of the sparse chain that is on this      *)
(* chain; start is an index that counts from zero.                         *)
findBlockchainSupplement(b, ids) ==
  LET chain == ChainOf[b]
      start == CHOOSE i \in DOMAIN chain :
                 chain[i] \in ids /\ \A j \in DOMAIN chain : chain[j] \in ids => j <= i
  IN  [ids |-> SubSeq(chain, start, Min({Len(chain), start + IdsPerResponse - 1})),
       start |-> start - 1, total |-> Len(chain)]

(* Only blocks of the main chain are found.                                *)
handleGetObjects(b, blocks) ==
  [blocks |-> Only(blocks, Range(ChainOf[b])), height |-> Height(b)]

-----------------------------------------------------------------------------
(* What one handler does to the node is a record: its context c, the       *)
(* messages out that it sends, and the chain.                              *)

Node(c) == [ctx |-> ctx[c], out |-> <<>>, known |-> known, top |-> top]
Send(n, m) == [n EXCEPT !.out = Append(@, m)]
SetState(n, s) == [n EXCEPT !.ctx.state = s]

requestChain(n) == Send(n, [type |-> "chain", ids |-> buildSparseChain(n.top)])

(* core::handle_incoming_block_blob; see Blockchain for addNewBlock.       *)
Verdict(n, b) ==
  IF b \in n.known THEN "already_exists"
  ELSE IF Parent[b] \notin n.known THEN "orphaned"
  ELSE IF b \in Rejected THEN "failed"
  ELSE "added"
AddBlock(n, b) ==
  IF Verdict(n, b) # "added" THEN n
  ELSE [n EXCEPT !.known = @ \cup {b}, !.top = IF Work[b] > Work[@] THEN b ELSE @]

(* The blocks that fit in a request, in their order, go from needed to     *)
(* requested; with check, those that came meanwhile are passed over, and   *)
(* the request may be empty.                                               *)
(* Mutants: an empty request is not sent; what does not fit is forgotten.  *)
requestUnlessEmpty(n, blocks, rest) ==
  LET m == IF blocks = <<>> THEN n ELSE Send(n, [type |-> "objects", blocks |-> blocks])
  IN  [m EXCEPT !.ctx.needed = rest, !.ctx.requested = @ \cup Range(blocks)]
requestFirstOnly(n, blocks, rest) ==
  [Send(n, [type |-> "objects", blocks |-> blocks]) EXCEPT
    !.ctx.needed = <<>>, !.ctx.requested = @ \cup Range(blocks)]
requestObjects(n, blocks, rest) ==
  [Send(n, [type |-> "objects", blocks |-> blocks]) EXCEPT
    !.ctx.needed = rest, !.ctx.requested = @ \cup Range(blocks)]

NextRequest(n, check) ==
  LET needed == n.ctx.needed
      Wanted(b) == ~(check /\ b \in n.known)
      Fits(i) == Cardinality({j \in 1 .. i - 1 : Wanted(needed[j])}) < BlocksPerRequest
      taken == Cardinality({i \in DOMAIN needed : Fits(i)})
      first == SubSeq(needed, 1, taken)
  IN  [blocks |-> IF check THEN Only(first, Block \ n.known) ELSE first,
       rest |-> SubSeq(needed, taken + 1, Len(needed))]

request_missing_objects(n, check) ==
  LET c == n.ctx
      next == NextRequest(n, check)
  IN  IF c.needed # <<>> THEN requestObjects(n, next.blocks, next.rest)
      ELSE IF c.last < c.remote - 1 THEN requestChain(n)
      ELSE IF c.last = c.remote - 1 /\ c.requested = {} THEN SetState(n, "normal")
      ELSE n

(* The loop of connectionHandler acts on the state that a handler left:    *)
(* sync_required becomes synchronizing with start_sync, and                *)
(* pool_sync_required becomes normal.                                      *)
start_sync(n) == requestChain(SetState(n, "synchronizing"))

(* Mutant: an idle connection stays idle.                                  *)
processUnlessIdle(n, m) ==
  LET moved == IF n.ctx.state \in {"synchronizing", "idle"} THEN n
               ELSE IF m.top \in n.known THEN SetState(n, "normal")
               ELSE start_sync(n)
  IN  [moved EXCEPT !.ctx.remote = m.height]
process_payload_sync_data(n, m) ==
  LET moved == IF n.ctx.state = "synchronizing" THEN n
               ELSE IF m.top \in n.known THEN SetState(n, "normal")
               ELSE start_sync(n)
  IN  [moved EXCEPT !.ctx.remote = m.height]

handle_timed_sync(n, m) ==
  IF n.ctx.state = "befor_handshake" THEN n ELSE process_payload_sync_data(n, m)

handle_notify_new_block(n, m) ==
  LET seen == [n EXCEPT !.ctx.remote = m.height]
      verdict == Verdict(n, m.block)
  IN  IF n.ctx.state # "normal" THEN seen
      ELSE CASE verdict = "failed" -> SetState(seen, "shutdown")
             [] verdict = "orphaned" -> start_sync(seen)
             [] OTHER -> AddBlock(seen, m.block)

Unknown(n, ids) == Only(ids, Block \ n.known)

handle_response_chain_entry(n, m) ==
  LET last == m.start + Len(m.ids) - 1
      noted == [n EXCEPT !.ctx.remote = m.total, !.ctx.last = last,
                         !.ctx.state = IF last > m.total THEN "shutdown" ELSE @,
                         !.ctx.needed = @ \o Unknown(n, m.ids)]
  IN  IF m.ids = <<>> \/ Head(m.ids) \notin n.known THEN SetState(n, "shutdown")
      ELSE request_missing_objects(noted, FALSE)

(* Mutant: the blocks still to be asked for stay.                          *)
ToIdleKeeping(n) == [n EXCEPT !.ctx.state = "idle", !.ctx.requested = {}]
ToIdle(n) == [n EXCEPT !.ctx.state = "idle", !.ctx.needed = <<>>, !.ctx.requested = {}]

(* The checks of handle_response_get_objects before any block is added.    *)
checkObjects(n, m) ==
  LET seen == [n EXCEPT !.ctx.remote = m.height]
      wrong == \E i \in DOMAIN m.blocks :
                 m.blocks[i] \notin n.ctx.requested \/ \E j \in 1 .. i - 1 : m.blocks[j] = m.blocks[i]
  IN  IF n.ctx.last > m.height THEN SetState(n, "shutdown")
      ELSE IF Len(m.blocks) > 1 /\ m.blocks[1] \in n.ctx.requested /\ m.blocks[2] \in n.known
           THEN ToIdle(seen)
      ELSE IF wrong THEN SetState(seen, "shutdown")
      ELSE IF Range(m.blocks) # n.ctx.requested THEN SetState(seen, "shutdown")
      ELSE [seen EXCEPT !.ctx.requested = {}]

(* One round of the loop of processObjects.                                *)
processObject(n, b) ==
  CASE Verdict(n, b) \in {"failed", "orphaned"} -> SetState(n, "shutdown")
    [] Verdict(n, b) = "already_exists" -> ToIdle(n)
    [] OTHER -> AddBlock(n, b)

-----------------------------------------------------------------------------
(* The highest chain that peers have spoken of.                            *)

recalculateMaxObservedHeight(c) ==
  Max({ctx[d].remote : d \in {e \in Conn \ {c} : ctx[e].state # "closed"}} \cup {Height(top)})

updateObservedHeight(c, height) ==
  IF height > ctx[c].remote THEN Max({observed, height})
  ELSE IF height # ctx[c].remote /\ ctx[c].remote = observed THEN recalculateMaxObservedHeight(c)
  ELSE observed

-----------------------------------------------------------------------------
Closed == [state |-> "closed", needed |-> <<>>, requested |-> {}, last |-> 0, remote |-> 0]

Init ==
  /\ known = {Genesis} /\ top = Genesis
  /\ ctx = [c \in Conn |-> Closed]
  /\ todo = [c \in Conn |-> <<>>] /\ busy = {}
  /\ observed = 0 /\ stop = FALSE
  /\ tip = InitialTip
  /\ toPeer = [c \in Conn |-> <<>>] /\ toUs = [c \in Conn |-> <<>>]
  /\ told = [c \in Conn |-> Genesis]
  /\ advances = 0 /\ drops = 0

(* The handler of c ends as n, with blocks still to add when it waits.     *)
Commit(c, n, blocks, waits) ==
  /\ known' = n.known /\ top' = n.top
  /\ ctx' = [ctx EXCEPT ![c] = n.ctx]
  /\ toPeer' = [toPeer EXCEPT ![c] = @ \o n.out]
  /\ todo' = [todo EXCEPT ![c] = blocks]
  /\ busy' = IF waits THEN busy \cup {c} ELSE busy \ {c}

SyncData(c) == [top |-> tip[c], height |-> Height(tip[c])]

(* A connection opens, and the handshake brings the peer's sync data.      *)
Connect(c) ==
  /\ ~stop /\ ctx[c].state = "closed"
  /\ ctx' = [ctx EXCEPT ![c].state = "befor_handshake"]
  /\ toUs' = [toUs EXCEPT ![c] = <<[type |-> "handshake", data |-> SyncData(c)]>>]
  /\ UNCHANGED <<known, top, todo, busy, observed, stop, tip, toPeer, told, advances, drops>>

(* The timed sync of either side; the other's sync data comes with it.  At *)
(* most one is on its way: the interval is a minute.                       *)
TimedSync(c) ==
  /\ ~stop /\ ctx[c].state \in {"idle", "normal"}
  /\ \A i \in DOMAIN toUs[c] : toUs[c][i].type # "timed"
  /\ toUs' = [toUs EXCEPT ![c] = Append(@, [type |-> "timed", data |-> SyncData(c)])]
  /\ UNCHANGED <<known, top, ctx, todo, busy, observed, stop, tip, toPeer, told, advances, drops>>

(* The peer's main chain grows or switches, with or without a notice.      *)
PeerAdvances(c) ==
  \E b \in Block, notify \in BOOLEAN :
    /\ ~stop /\ Work[b] > Work[tip[c]]
    /\ advances < MaxAdvances /\ advances' = advances + 1
    /\ tip' = [tip EXCEPT ![c] = b]
    /\ notify => ctx[c].state \notin {"closed", "shutdown"}
    /\ toUs' = IF notify
               THEN [toUs EXCEPT ![c] = Append(@, [type |-> "new_block", block |-> b, height |-> Height(b)])]
               ELSE toUs
    /\ UNCHANGED <<known, top, ctx, todo, busy, observed, stop, toPeer, told, drops>>

(* The peer's handle_request_chain and handle_request_get_objects.         *)
PeerAnswers(c) ==
  /\ ~stop /\ toPeer[c] # <<>>
  /\ LET m == Head(toPeer[c])
     IN  toUs' = [toUs EXCEPT ![c] = Append(@,
           IF m.type = "chain"
           THEN [type |-> "chain", entry |-> findBlockchainSupplement(tip[c], m.ids)]
           ELSE [type |-> "objects", entry |-> handleGetObjects(tip[c], m.blocks)])]
  /\ toPeer' = [toPeer EXCEPT ![c] = Tail(@)]
  /\ UNCHANGED <<known, top, ctx, todo, busy, observed, stop, tip, told, advances, drops>>

(* connectionHandler reads a command and handles it.                       *)
Ready(c) == ~stop /\ c \notin busy /\ toUs[c] # <<>> /\ ctx[c].state \notin {"closed", "shutdown"}
Take(c) ==
  /\ toUs' = [toUs EXCEPT ![c] = Tail(@)]
  /\ UNCHANGED <<stop, tip, advances, drops>>

ReceiveSyncData(c) ==
  /\ Ready(c)
  /\ LET m == Head(toUs[c])
         n == IF m.type = "handshake" THEN process_payload_sync_data(Node(c), m.data)
              ELSE handle_timed_sync(Node(c), m.data)
     IN  /\ m.type \in {"handshake", "timed"}
         /\ Commit(c, n, <<>>, FALSE)
         /\ observed' = updateObservedHeight(c, m.data.height)
  /\ Take(c) /\ UNCHANGED told

ReceiveNewBlock(c) ==
  /\ Ready(c)
  /\ LET m == Head(toUs[c])
     IN  /\ m.type = "new_block"
         /\ Commit(c, handle_notify_new_block(Node(c), m), <<>>, FALSE)
         /\ observed' = updateObservedHeight(c, m.height)
  /\ Take(c) /\ UNCHANGED told

(* The height of the entry goes to the context and not to observed.        *)
ReceiveChain(c) ==
  /\ Ready(c)
  /\ LET m == Head(toUs[c])
     IN  /\ m.type = "chain"
         /\ Commit(c, handle_response_chain_entry(Node(c), m.entry), <<>>, FALSE)
         /\ told' = [told EXCEPT ![c] = Last(m.entry.ids)]
  /\ Take(c) /\ UNCHANGED observed

(* The checks and the first block; a block that is added ends in a yield.  *)
ReceiveObjects(c) ==
  /\ Ready(c)
  /\ LET m == Head(toUs[c])
         checked == checkObjects(Node(c), m.entry)
         first == processObject(checked, m.entry.blocks[1])
         stays == checked.ctx.state \notin {"shutdown", "idle"}
     IN  /\ m.type = "objects"
         /\ CASE ~stays -> Commit(c, checked, <<>>, FALSE)
              [] stays /\ m.entry.blocks = <<>> ->
                   Commit(c, IF checked.ctx.state = "synchronizing"
                             THEN request_missing_objects(checked, TRUE) ELSE checked, <<>>, FALSE)
              [] OTHER ->
                   LET waits == Verdict(checked, m.entry.blocks[1]) = "added"
                   IN  Commit(c, first, IF waits THEN Tail(m.entry.blocks) ELSE <<>>, waits)
         /\ observed' = IF ctx[c].last > m.entry.height THEN observed
                        ELSE updateObservedHeight(c, m.entry.height)
  /\ Take(c) /\ UNCHANGED told

(* After the yield: the next block, or the end of the response.            *)
ProcessNext(c) ==
  /\ c \in busy
  /\ LET n == processObject(Node(c), Head(todo[c]))
         waits == Verdict(Node(c), Head(todo[c])) = "added"
     IN  CASE stop -> Commit(c, Node(c), <<>>, FALSE)
           [] ~stop /\ todo[c] = <<>> ->
                Commit(c, IF ctx[c].state = "synchronizing"
                          THEN request_missing_objects(Node(c), TRUE) ELSE Node(c), <<>>, FALSE)
           [] OTHER -> Commit(c, n, IF waits THEN Tail(todo[c]) ELSE <<>>, waits)
  /\ UNCHANGED <<observed, stop, tip, toUs, told, advances, drops>>

(* The end of connectionHandler, with onConnectionClosed.                  *)
Disconnect(c) ==
  /\ ctx' = [ctx EXCEPT ![c] = Closed]
  /\ todo' = [todo EXCEPT ![c] = <<>>] /\ busy' = busy \ {c}
  /\ toPeer' = [toPeer EXCEPT ![c] = <<>>] /\ toUs' = [toUs EXCEPT ![c] = <<>>]
  /\ observed' = recalculateMaxObservedHeight(c)
  /\ UNCHANGED <<known, top, stop, tip, told, advances>>

Close(c) ==
  /\ ctx[c].state = "shutdown" \/ (stop /\ ctx[c].state # "closed")
  /\ c \notin busy
  /\ Disconnect(c) /\ UNCHANGED drops

(* The peer goes away, or a write times out: an interruption at a yield.   *)
Drop(c) ==
  /\ ~stop /\ drops < MaxDrops /\ ctx[c].state \notin {"closed", "shutdown"}
  /\ Disconnect(c) /\ drops' = drops + 1

(* Every context is interrupted: no message is read or sent from here on.  *)
Stop ==
  /\ ~stop /\ stop' = TRUE
  /\ toPeer' = [c \in Conn |-> <<>>] /\ toUs' = [c \in Conn |-> <<>>]
  /\ UNCHANGED <<known, top, ctx, todo, busy, observed, tip, told, advances, drops>>

Handler(c) ==
  \/ ReceiveSyncData(c) \/ ReceiveNewBlock(c) \/ ReceiveChain(c) \/ ReceiveObjects(c)
  \/ ProcessNext(c) \/ Close(c)

Next ==
  \/ \E c \in Conn :
       \/ Connect(c) \/ TimedSync(c) \/ PeerAdvances(c) \/ PeerAnswers(c)
       \/ Handler(c) \/ Drop(c)
  \/ Stop

(* The dispatcher runs every context that is ready, connections_maker      *)
(* opens the connections that are missing, timedSyncLoop comes round every *)
(* minute, and the peers answer.                                           *)
Fairness == \A c \in Conn :
  /\ WF_vars(Handler(c)) /\ WF_vars(Connect(c))
  /\ WF_vars(TimedSync(c)) /\ WF_vars(PeerAnswers(c))

Spec == Init /\ [][Next]_vars /\ Fairness

-----------------------------------------------------------------------------
TypeOK ==
  /\ known \subseteq Block /\ top \in known
  /\ \A c \in Conn :
       /\ ctx[c].state \in States
       /\ ctx[c].needed \in Seq(Block) /\ ctx[c].requested \subseteq Block
       /\ ctx[c].last \in Nat /\ ctx[c].remote \in Nat
       /\ todo[c] \in Seq(Block) /\ told[c] \in Block /\ tip[c] \in Block
  /\ busy \subseteq Conn /\ observed \in Nat /\ stop \in BOOLEAN /\ advances \in 0 .. MaxAdvances
  /\ drops \in 0 .. MaxDrops

(* A connection that is not synchronizing waits for no block: start_sync   *)
(* asserts that both lists are empty, whatever responses, notices and      *)
(* timed syncs came before.                                                *)
NothingRequestedAtRest ==
  \A c \in Conn : ctx[c].state \in {"idle", "normal"} =>
    ctx[c].needed = <<>> /\ ctx[c].requested = {}

(* A connection that is synchronizing always waits for something: a        *)
(* request, its answer, or its own processing.  Timed syncs pass such a    *)
(* connection over, so that nothing else would wake it.                    *)
Awaited(c) ==
  \/ c \in busy
  \/ toPeer[c] # <<>>
  \/ \E i \in DOMAIN toUs[c] : toUs[c][i].type \in {"chain", "objects"}
SynchronizingIsAwaited ==
  \A c \in Conn : ctx[c].state = "synchronizing" /\ ~stop => Awaited(c)

(* When a connection reports SYNCHRONIZED OK the node has every block that *)
(* the peer had listed, although other connections delivered some of them. *)
SynchronizedHasChain ==
  [][\A c \in Conn : ctx[c].state = "synchronizing" /\ ctx'[c].state = "normal"
       => Range(ChainOf[told'[c]]) \subseteq known']_vars

(* Once the peers' chains rest, the node comes to know the whole chain of  *)
(* each, unless the chain has a block that it must reject.                 *)
EventuallySynchronized ==
  <>[](\/ stop
       \/ \A c \in Conn : tip[c] \in known \/ Range(ChainOf[tip[c]]) \cap Rejected # {})

(* When request_missing_objects has nothing more to ask for, the last id   *)
(* listed is the top of the peer's chain and nothing is left to fetch; the *)
(* code logs "final condition failed!" otherwise and leaves the connection *)
(* as it is.                                                               *)
FinalCondition ==
  \A c \in Conn : ctx[c].state = "synchronizing" /\ ~Awaited(c) /\ ~stop =>
    ctx[c].last = ctx[c].remote - 1 /\ ctx[c].needed = <<>> /\ ctx[c].requested = {}
=============================================================================
