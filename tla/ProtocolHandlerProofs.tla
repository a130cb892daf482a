----------------------- MODULE ProtocolHandlerProofs -----------------------
EXTENDS ProtocolHandler, SequenceTheorems, WellFoundedInduction, FiniteSetTheorems, TLAPS

-----------------------------------------------------------------------------
(* What a connection waits for.                                            *)
IsAnswer(m) == m.type \in {"chain", "objects"}
NoAnswer(s) == \A i \in 1 .. Len(s) : ~IsAnswer(s[i])
OneAnswer(s) == \A i, j \in 1 .. Len(s) : IsAnswer(s[i]) /\ IsAnswer(s[j]) => i = j
NoChain(s) == \A i \in 1 .. Len(s) : s[i].type # "chain"

(* The context and the two queues of a connection have this form.          *)
Fields == {"state", "needed", "requested", "last", "remote"}
IsContext(x) == DOMAIN x = Fields /\ x.state \in States
IsSequence(s) == s \in Seq(Range(s))
AtMostOne(s) == s = <<>> \/ s = <<s[1]>>

ShapeInv ==
  /\ DOMAIN ctx = Conn /\ DOMAIN toPeer = Conn /\ DOMAIN toUs = Conn
  /\ \A c \in Conn : IsContext(ctx[c]) /\ IsSequence(toUs[c]) /\ AtMostOne(toPeer[c])

(* A connection waits for one thing at a time: a request on its way, its   *)
(* answer, or the blocks of an answer.  It has asked for no block while a  *)
(* chain entry is under way or the blocks are added, and for nothing at    *)
(* all outside a synchronization.                                          *)
Resting(x) == x.needed = <<>> /\ x.requested = {}
ConnInv(x, peer, us, adding) ==
  /\ peer # <<>> => NoAnswer(us) /\ ~adding
  /\ adding => NoAnswer(us) /\ x.requested = {}
  /\ OneAnswer(us)
  /\ peer # <<>> /\ peer[1].type = "chain" => Resting(x)
  /\ ~NoChain(us) => Resting(x)
  /\ x.state \in {"closed", "befor_handshake", "idle", "normal"}
       => Resting(x) /\ peer = <<>> /\ NoAnswer(us) /\ ~adding
WaitInv == \A c \in Conn : ConnInv(ctx[c], toPeer[c], toUs[c], c \in busy)

-----------------------------------------------------------------------------
(* What the handlers do to the record of a node.                           *)
IsNode(n) == DOMAIN n = {"ctx", "out", "known", "top"} /\ IsContext(n.ctx)
Apart == {"closed", "befor_handshake", "idle", "normal"}

(* The node as a handler may leave it when nothing else is under way.      *)
Sound(n) ==
  /\ IsNode(n) /\ AtMostOne(n.out)
  /\ n.out # <<>> /\ n.out[1].type = "chain" => Resting(n.ctx)
  /\ n.ctx.state \in Apart => Resting(n.ctx) /\ n.out = <<>>

(* The context of a node, and what it sends.                               *)
LEMMA NodeRecord == ASSUME ShapeInv, NEW c \in Conn
                    PROVE  IsNode(Node(c)) /\ Node(c).out = <<>> /\ Node(c).ctx = ctx[c]
  BY DEF ShapeInv, Node, IsNode

(* The states that handlers set.                                           *)
LEMMA StateNames == {"normal", "synchronizing", "shutdown", "idle"} \subseteq States
  BY DEF States

(* SetState changes the state and nothing else.                            *)
LEMMA SetStateIs ==
  ASSUME NEW n, IsNode(n), NEW s \in States
  PROVE  /\ IsNode(SetState(n, s)) /\ SetState(n, s).out = n.out
         /\ SetState(n, s).ctx.state = s
         /\ SetState(n, s).ctx.needed = n.ctx.needed /\ SetState(n, s).ctx.requested = n.ctx.requested
  BY DEF SetState, IsNode, IsContext, Fields

(* A handler that gives up closes the connection.                          *)
LEMMA ShutdownIs ==
  ASSUME NEW n, IsNode(n)
  PROVE  /\ IsNode(SetState(n, "shutdown")) /\ SetState(n, "shutdown").out = n.out
         /\ SetState(n, "shutdown").ctx.state = "shutdown"
  BY SetStateIs, StateNames

(* Send adds a message.                                                    *)
LEMMA SendIs ==
  ASSUME NEW n, IsNode(n), n.out = <<>>, NEW m
  PROVE  IsNode(Send(n, m)) /\ Send(n, m).out = <<m>> /\ Send(n, m).ctx = n.ctx
  <1>1. Append(<<>>, m) = <<m>>
    OBVIOUS
  <1> QED BY <1>1 DEF Send, IsNode

(* The height of a message goes to the context.                            *)
LEMMA RemoteIs ==
  ASSUME NEW n, IsNode(n), NEW r
  PROVE  LET k == [n EXCEPT !.ctx.remote = r]
         IN  /\ IsNode(k) /\ k.out = n.out /\ k.ctx.state = n.ctx.state
             /\ k.ctx.needed = n.ctx.needed /\ k.ctx.requested = n.ctx.requested
             /\ k.known = n.known
  BY DEF IsNode, IsContext, Fields

(* AddBlock leaves the context alone.                                      *)
LEMMA AddBlockIs ==
  ASSUME NEW n, IsNode(n), NEW b
  PROVE  IsNode(AddBlock(n, b)) /\ AddBlock(n, b).out = n.out /\ AddBlock(n, b).ctx = n.ctx
  BY DEF IsNode, AddBlock

(* A connection that goes idle forgets what it wanted.                     *)
LEMMA ToIdleIs ==
  ASSUME NEW n, IsNode(n)
  PROVE  /\ IsNode(ToIdle(n)) /\ ToIdle(n).out = n.out /\ ToIdle(n).ctx.state = "idle"
         /\ Resting(ToIdle(n).ctx)
  BY StateNames DEF IsNode, IsContext, Fields, ToIdle, Resting

(* requestObjects sends one request for blocks.                            *)
LEMMA RequestObjectsIs ==
  ASSUME NEW n, IsNode(n), n.out = <<>>, NEW blocks, NEW rest
  PROVE  LET k == requestObjects(n, blocks, rest)
         IN  /\ IsNode(k) /\ k.ctx.state = n.ctx.state
             /\ k.out = <<[type |-> "objects", blocks |-> blocks]>>
  <1> DEFINE m == [type |-> "objects", blocks |-> blocks]
             k == Send(n, m)
  <1>1. IsNode(k) /\ k.out = <<m>> /\ k.ctx = n.ctx
    BY SendIs
  <1> HIDE DEF k, m
  <1>2. requestObjects(n, blocks, rest) =
          [k EXCEPT !.ctx.needed = rest, !.ctx.requested = @ \cup Range(blocks)]
    BY DEF requestObjects, k, m
  <1> DEFINE q == [k EXCEPT !.ctx.needed = rest, !.ctx.requested = @ \cup Range(blocks)]
  <1>3. IsNode(q) /\ q.ctx.state = k.ctx.state /\ q.out = k.out
    BY <1>1 DEF IsNode, IsContext, Fields
  <1> QED BY <1>1, <1>2, <1>3 DEF m

(* start_sync asks for the chain.                                          *)
LEMMA StartSyncIs ==
  ASSUME NEW n, IsNode(n), n.out = <<>>
  PROVE  /\ IsNode(start_sync(n)) /\ start_sync(n).ctx.state = "synchronizing"
         /\ start_sync(n).ctx.needed = n.ctx.needed /\ start_sync(n).ctx.requested = n.ctx.requested
         /\ AtMostOne(start_sync(n).out)
  <1> DEFINE k == SetState(n, "synchronizing")
             m == [type |-> "chain", ids |-> buildSparseChain(k.top)]
  <1>1. /\ IsNode(k) /\ k.out = <<>> /\ k.ctx.state = "synchronizing"
        /\ k.ctx.needed = n.ctx.needed /\ k.ctx.requested = n.ctx.requested
    BY SetStateIs, StateNames
  <1>2. start_sync(n) = Send(k, m)
    BY DEF start_sync, requestChain
  <1> HIDE DEF k, m
  <1>3. IsNode(Send(k, m)) /\ Send(k, m).out = <<m>> /\ Send(k, m).ctx = k.ctx
    BY <1>1, SendIs
  <1>4. AtMostOne(<<m>>)
    BY DEF AtMostOne
  <1> QED BY <1>1, <1>2, <1>3, <1>4

(* request_missing_objects, when no block is asked for.                    *)
LEMMA RequestMissingSound ==
  ASSUME NEW n, IsNode(n), n.out = <<>>, n.ctx.requested = {}, n.ctx.state \notin Apart, NEW check
  PROVE  Sound(request_missing_objects(n, check))
  <1> DEFINE r == request_missing_objects(n, check)
             q == requestObjects(n, NextRequest(n, check).blocks, NextRequest(n, check).rest)
             m == [type |-> "chain", ids |-> buildSparseChain(n.top)]
  <1>1. CASE n.ctx.needed # <<>>
    <2>1. r = q
      BY <1>1 DEF request_missing_objects
    <2>2. /\ IsNode(q) /\ q.ctx.state = n.ctx.state
          /\ q.out = <<[type |-> "objects", blocks |-> NextRequest(n, check).blocks]>>
      BY RequestObjectsIs
    <2>3. AtMostOne(q.out) /\ q.out[1].type = "objects"
      BY <2>2 DEF AtMostOne
    <2> HIDE DEF r, q
    <2>4. Sound(q)
      BY <2>2, <2>3 DEF Sound
    <2> QED BY <2>1, <2>4 DEF r
  <1>2. CASE n.ctx.needed = <<>> /\ n.ctx.last < n.ctx.remote - 1
    <2>1. r = Send(n, m)
      BY <1>2 DEF request_missing_objects, requestChain
    <2> HIDE DEF m, r
    <2>2. IsNode(Send(n, m)) /\ Send(n, m).out = <<m>> /\ Send(n, m).ctx = n.ctx
      BY SendIs
    <2>3. AtMostOne(<<m>>)
      BY DEF AtMostOne
    <2>4. Sound(Send(n, m))
      BY <1>2, <2>2, <2>3 DEF Sound, Resting
    <2> QED BY <2>1, <2>4 DEF r
  <1>3. CASE n.ctx.needed = <<>> /\ ~(n.ctx.last < n.ctx.remote - 1) /\ n.ctx.last = n.ctx.remote - 1
    <2>1. r = SetState(n, "normal")
      BY <1>3 DEF request_missing_objects
    <2>2. Sound(SetState(n, "normal"))
      BY <1>3, SetStateIs, StateNames DEF States, Sound, Resting, AtMostOne
    <2> QED BY <2>1, <2>2
  <1>4. CASE n.ctx.needed = <<>> /\ ~(n.ctx.last < n.ctx.remote - 1) /\ n.ctx.last # n.ctx.remote - 1
    <2>1. r = n
      BY <1>4 DEF request_missing_objects
    <2>2. Sound(n)
      BY DEF Sound, AtMostOne
    <2> QED BY <2>1, <2>2
  <1> QED BY <1>1, <1>2, <1>3, <1>4

(* The context keeps its state and what it waits for, and sends nothing.   *)
Passes(n, k) ==
  /\ IsNode(k) /\ k.out = <<>> /\ k.ctx.state = n.ctx.state
  /\ k.ctx.needed = n.ctx.needed /\ k.ctx.requested = n.ctx.requested

(* The sync data of a peer.                                                *)
LEMMA SyncDataSound ==
  ASSUME NEW n, IsNode(n), n.out = <<>>, NEW m
  PROVE  LET k == process_payload_sync_data(n, m)
         IN  /\ n.ctx.state = "synchronizing" => Passes(n, k)
             /\ n.ctx.state # "synchronizing" /\ Resting(n.ctx) => Sound(k)
  <1> DEFINE moved == IF n.ctx.state = "synchronizing" THEN n
                      ELSE IF m.top \in n.known THEN SetState(n, "normal")
                      ELSE start_sync(n)
             k == [moved EXCEPT !.ctx.remote = m.height]
  <1>1. process_payload_sync_data(n, m) = k
    BY DEF process_payload_sync_data
  <1>2. IsNode(moved) /\ AtMostOne(moved.out)
    BY SetStateIs, StateNames, StartSyncIs DEF AtMostOne
  <1>3. n.ctx.state = "synchronizing" => moved = n
    OBVIOUS
  <1>4. ASSUME n.ctx.state # "synchronizing", Resting(n.ctx)
        PROVE  Resting(moved.ctx) /\ (moved.ctx.state \in Apart => moved.out = <<>>)
    BY <1>4, SetStateIs, StateNames, StartSyncIs DEF Resting, Apart
  <1> HIDE DEF moved
  <1>5. /\ IsNode(k) /\ k.out = moved.out /\ k.ctx.state = moved.ctx.state
        /\ k.ctx.needed = moved.ctx.needed /\ k.ctx.requested = moved.ctx.requested
    BY <1>2, RemoteIs
  <1> HIDE DEF k
  <1>6. n.ctx.state = "synchronizing" => Passes(n, k)
    BY <1>3, <1>5 DEF Passes
  <1>7. ASSUME n.ctx.state # "synchronizing", Resting(n.ctx) PROVE Sound(k)
    BY <1>2, <1>4, <1>5, <1>7 DEF Sound, Resting
  <1> QED BY <1>1, <1>6, <1>7

(* The notice of a block.                                                  *)
LEMMA NewBlockSound ==
  ASSUME NEW n, IsNode(n), n.out = <<>>, NEW m
  PROVE  LET k == handle_notify_new_block(n, m)
         IN  /\ n.ctx.state # "normal" => Passes(n, k)
             /\ n.ctx.state = "normal" /\ Resting(n.ctx) => Sound(k)
  <1> DEFINE seen == [n EXCEPT !.ctx.remote = m.height]
             k == handle_notify_new_block(n, m)
  <1>1. /\ IsNode(seen) /\ seen.out = <<>> /\ seen.ctx.state = n.ctx.state
        /\ seen.ctx.needed = n.ctx.needed /\ seen.ctx.requested = n.ctx.requested
    BY RemoteIs
  <1>2. n.ctx.state # "normal" => k = seen
    BY DEF handle_notify_new_block
  <1>3. n.ctx.state = "normal" => k \in {SetState(seen, "shutdown"), start_sync(seen), AddBlock(seen, m.block)}
    BY DEF handle_notify_new_block
  <1> HIDE DEF seen, k
  <1>4. n.ctx.state # "normal" => Passes(n, k)
    BY <1>1, <1>2 DEF Passes
  <1>5. ASSUME n.ctx.state = "normal", Resting(n.ctx) PROVE Sound(k)
    <2>1. Resting(seen.ctx)
      BY <1>1, <1>5 DEF Resting
    <2>2. Sound(SetState(seen, "shutdown"))
      BY <1>1, <2>1, SetStateIs, StateNames DEF States, Sound, Resting, AtMostOne, Apart
    <2>3. Sound(start_sync(seen))
      BY <1>1, <2>1, StartSyncIs DEF Sound, Resting, Apart
    <2>4. Sound(AddBlock(seen, m.block))
      BY <1>1, <2>1, AddBlockIs DEF Sound, AtMostOne
    <2> QED BY <1>3, <1>5, <2>2, <2>3, <2>4
  <1> QED BY <1>4, <1>5 DEF k

(* A chain entry.                                                          *)
LEMMA ChainSound ==
  ASSUME NEW n, IsNode(n), n.out = <<>>, n.ctx.requested = {}, n.ctx.state \notin Apart, NEW m
  PROVE  Sound(handle_response_chain_entry(n, m))
  <1> DEFINE last == m.start + Len(m.ids) - 1
             state == IF last > m.total THEN "shutdown" ELSE n.ctx.state
             noted == [n EXCEPT !.ctx.remote = m.total, !.ctx.last = last,
                                !.ctx.state = IF last > m.total THEN "shutdown" ELSE @,
                                !.ctx.needed = @ \o Unknown(n, m.ids)]
  <1>1. handle_response_chain_entry(n, m)
          \in {SetState(n, "shutdown"), request_missing_objects(noted, FALSE)}
    BY DEF handle_response_chain_entry
  <1>2. /\ IsNode(noted) /\ noted.out = <<>> /\ noted.ctx.requested = {}
        /\ noted.ctx.state \in {"shutdown", n.ctx.state}
    BY StateNames DEF IsNode, IsContext, Fields
  <1> HIDE DEF noted
  <1>3. Sound(request_missing_objects(noted, FALSE))
    BY <1>2, RequestMissingSound DEF Apart
  <1>4. Sound(SetState(n, "shutdown"))
    BY SetStateIs, StateNames DEF States, Sound, AtMostOne, Apart
  <1> QED BY <1>1, <1>3, <1>4

(* The checks of a response with blocks.                                   *)
LEMMA CheckObjectsSound ==
  ASSUME NEW n, IsNode(n), n.out = <<>>, n.ctx.state = "synchronizing", NEW m
  PROVE  LET k == checkObjects(n, m)
         IN  /\ Sound(k) /\ k.out = <<>>
             /\ k.ctx.state \notin {"shutdown", "idle"}
                  => k.ctx.requested = {} /\ k.ctx.state = "synchronizing"
  <1> DEFINE seen == [n EXCEPT !.ctx.remote = m.height]
             clear == [seen EXCEPT !.ctx.requested = {}]
             k == checkObjects(n, m)
  <1>1. IsNode(seen) /\ seen.out = <<>> /\ seen.ctx.state = "synchronizing"
    BY RemoteIs
  <1>2. k \in {SetState(n, "shutdown"), ToIdle(seen), SetState(seen, "shutdown"), clear}
    BY DEF checkObjects
  <1> HIDE DEF seen, k
  <1>3. IsNode(clear) /\ clear.out = <<>> /\ clear.ctx.requested = {} /\ clear.ctx.state = "synchronizing"
    BY <1>1 DEF IsNode, IsContext, Fields
  <1> HIDE DEF clear
  <1>4. CASE k = SetState(n, "shutdown") \/ k = SetState(seen, "shutdown")
    <2>1. IsNode(k) /\ k.out = <<>> /\ k.ctx.state = "shutdown"
      BY <1>1, <1>4, ShutdownIs
    <2> QED BY <2>1 DEF Sound, AtMostOne, Apart, k
  <1>5. CASE k = ToIdle(seen)
    <2>1. IsNode(k) /\ k.out = <<>> /\ k.ctx.state = "idle" /\ Resting(k.ctx)
      BY <1>1, <1>5, ToIdleIs
    <2> QED BY <2>1 DEF Sound, AtMostOne, k
  <1>6. CASE k = clear
    BY <1>3, <1>6 DEF Sound, AtMostOne, Apart, k
  <1> QED BY <1>2, <1>4, <1>5, <1>6

(* One block of the response.                                              *)
LEMMA ProcessObjectSound ==
  ASSUME NEW n, IsNode(n), n.out = <<>>, n.ctx.state \notin Apart, NEW b
  PROVE  LET k == processObject(n, b)
         IN  /\ Sound(k) /\ k.out = <<>>
             /\ Verdict(n, b) = "added" => k.ctx = n.ctx
  <1> DEFINE k == processObject(n, b)
  <1>1. CASE Verdict(n, b) \in {"failed", "orphaned"}
    <2>1. k = SetState(n, "shutdown") /\ Verdict(n, b) # "added"
      BY <1>1 DEF processObject
    <2>2. IsNode(k) /\ k.out = <<>> /\ k.ctx.state = "shutdown"
      BY <2>1, ShutdownIs
    <2> QED BY <2>1, <2>2 DEF Sound, AtMostOne, Apart
  <1>2. CASE Verdict(n, b) = "already_exists"
    <2>1. k = ToIdle(n) /\ Verdict(n, b) # "added"
      BY <1>2 DEF processObject
    <2>2. IsNode(k) /\ k.out = <<>> /\ k.ctx.state = "idle" /\ Resting(k.ctx)
      BY <2>1, ToIdleIs
    <2> QED BY <2>1, <2>2 DEF Sound, AtMostOne
  <1>3. CASE Verdict(n, b) = "added"
    <2>1. k = AddBlock(n, b)
      BY <1>3 DEF processObject
    <2>2. IsNode(k) /\ k.out = <<>> /\ k.ctx = n.ctx
      BY <2>1, AddBlockIs
    <2> QED BY <2>2 DEF Sound, AtMostOne
  <1>4. Verdict(n, b) \in {"failed", "orphaned", "already_exists", "added"}
    BY DEF Verdict
  <1> QED BY <1>1, <1>2, <1>3, <1>4

(* A sequence over any set is one over its own elements.                   *)
LEMMA SequenceRange == ASSUME NEW S, NEW s \in Seq(S) PROVE IsSequence(s)
  <1>1. \A i \in 1 .. Len(s) : s[i] \in Range(s)
    BY DEF Range
  <1> DEFINE R == Range(s)
  <1> HIDE DEF R
  <1>2. s \in Seq(R)
    BY <1>1 DEF R
  <1> QED BY <1>2 DEF IsSequence, R

-----------------------------------------------------------------------------
(* The queues.  The rest of a queue.                                       *)
LEMMA TailIs ==
  ASSUME NEW s, IsSequence(s), s # <<>>
  PROVE  /\ IsSequence(Tail(s)) /\ Head(s) = s[1] /\ 1 \in 1 .. Len(s)
         /\ \A i \in 1 .. Len(Tail(s)) : i + 1 \in 1 .. Len(s) /\ Tail(s)[i] = s[i + 1] /\ i + 1 # 1
  <1> DEFINE S == Range(s)
             t == Tail(s)
  <1>1. s \in Seq(S)
    BY DEF IsSequence
  <1> HIDE DEF S
  <1>2. Len(s) \in Nat /\ Len(s) # 0 /\ Head(s) = s[1]
    BY <1>1
  <1>3. t \in Seq(S) /\ Len(t) = Len(s) - 1 /\ \A i \in 1 .. Len(t) : t[i] = s[i + 1]
    BY <1>1
  <1> HIDE DEF t
  <1>4. \A i \in 1 .. Len(t) : i + 1 \in 1 .. Len(s) /\ i + 1 # 1
    BY <1>2, <1>3
  <1>5. IsSequence(t)
    BY <1>3, SequenceRange
  <1> QED BY <1>2, <1>3, <1>4, <1>5 DEF t

(* A queue with one more message.                                          *)
LEMMA AppendIs ==
  ASSUME NEW s, IsSequence(s), NEW m
  PROVE  LET t == Append(s, m)
         IN  /\ IsSequence(t)
             /\ \A i \in 1 .. Len(t) : (i \in 1 .. Len(s) /\ t[i] = s[i]) \/ (i = Len(s) + 1 /\ t[i] = m)
  <1> DEFINE S == Range(s) \cup {m}
             t == Append(s, m)
  <1>1. s \in Seq(S)
    <2>1. s \in Seq(Range(s))
      BY DEF IsSequence
    <2> DEFINE R == Range(s)
    <2> HIDE DEF R
    <2> QED BY <2>1 DEF R
  <1>2. m \in S
    OBVIOUS
  <1> HIDE DEF S
  <1>3. /\ t \in Seq(S) /\ Len(t) = Len(s) + 1 /\ Len(s) \in Nat
        /\ \A i \in 1 .. Len(t) : t[i] = IF i <= Len(s) THEN s[i] ELSE m
    BY <1>1, <1>2
  <1> HIDE DEF t
  <1>4. IsSequence(t)
    BY <1>3, SequenceRange
  <1>5. \A i \in 1 .. Len(t) : (i \in 1 .. Len(s) /\ t[i] = s[i]) \/ (i = Len(s) + 1 /\ t[i] = m)
    BY <1>3
  <1> QED BY <1>4, <1>5 DEF t

(* An answer is taken.                                                     *)
LEMMA TakeAnswer ==
  ASSUME NEW s, IsSequence(s), s # <<>>, OneAnswer(s), IsAnswer(Head(s))
  PROVE  NoAnswer(Tail(s))
  BY TailIs DEF OneAnswer, NoAnswer

(* Another message is taken.                                               *)
LEMMA TakeOther ==
  ASSUME NEW s, IsSequence(s), s # <<>>
  PROVE  /\ NoAnswer(s) => NoAnswer(Tail(s))
         /\ OneAnswer(s) => OneAnswer(Tail(s))
         /\ NoChain(s) => NoChain(Tail(s))
  <1>1. \A i, j \in 1 .. Len(Tail(s)) : i + 1 = j + 1 => i = j
    OBVIOUS
  <1>2. OneAnswer(s) => OneAnswer(Tail(s))
    BY <1>1, TailIs DEF OneAnswer
  <1>3. NoAnswer(s) => NoAnswer(Tail(s))
    BY TailIs DEF NoAnswer
  <1>4. NoChain(s) => NoChain(Tail(s))
    BY TailIs DEF NoChain
  <1> QED BY <1>2, <1>3, <1>4

(* A message comes.                                                        *)
LEMMA PutOther ==
  ASSUME NEW s, IsSequence(s), NEW m, ~IsAnswer(m)
  PROVE  /\ NoAnswer(s) => NoAnswer(Append(s, m))
         /\ OneAnswer(s) => OneAnswer(Append(s, m))
         /\ NoChain(s) => NoChain(Append(s, m))
  <1> DEFINE t == Append(s, m)
  <1>1. \A i \in 1 .. Len(t) : (i \in 1 .. Len(s) /\ t[i] = s[i]) \/ (i = Len(s) + 1 /\ t[i] = m)
    BY AppendIs
  <1> HIDE DEF t
  <1>2. m.type # "chain"
    BY DEF IsAnswer
  <1>3. NoAnswer(s) => NoAnswer(t)
    BY <1>1 DEF NoAnswer
  <1>4. OneAnswer(s) => OneAnswer(t)
    BY <1>1 DEF OneAnswer
  <1>5. NoChain(s) => NoChain(t)
    BY <1>1, <1>2 DEF NoChain
  <1> QED BY <1>3, <1>4, <1>5 DEF t

(* An answer comes.                                                        *)
LEMMA PutAnswer ==
  ASSUME NEW s, IsSequence(s), NEW m, NoAnswer(s)
  PROVE  OneAnswer(Append(s, m)) /\ (m.type # "chain" => NoChain(Append(s, m)))
  <1> DEFINE t == Append(s, m)
  <1>1. \A i \in 1 .. Len(t) : (i \in 1 .. Len(s) /\ t[i] = s[i]) \/ (i = Len(s) + 1 /\ t[i] = m)
    BY AppendIs
  <1> HIDE DEF t
  <1>2. OneAnswer(t)
    BY <1>1 DEF NoAnswer, OneAnswer
  <1>3. m.type # "chain" => NoChain(t)
    BY <1>1 DEF NoAnswer, IsAnswer, NoChain
  <1> QED BY <1>2, <1>3 DEF t

(* Queues without an answer.                                               *)
LEMMA NoAnswerIs ==
  /\ \A s : NoAnswer(s) => OneAnswer(s) /\ NoChain(s)
  /\ IsSequence(<<>>) /\ NoAnswer(<<>>) /\ AtMostOne(<<>>)
  <1>1. ASSUME NEW s, NoAnswer(s) PROVE OneAnswer(s) /\ NoChain(s)
    BY <1>1 DEF NoAnswer, OneAnswer, NoChain, IsAnswer
  <1>2. <<>> \in Seq({}) /\ Len(<<>>) = 0
    OBVIOUS
  <1>3. IsSequence(<<>>)
    BY <1>2, SequenceRange
  <1> QED BY <1>1, <1>2, <1>3 DEF NoAnswer, AtMostOne

(* At most one message is a sequence of messages.                          *)
LEMMA AtMostOneIs == ASSUME NEW s, AtMostOne(s) PROVE \E S : s \in Seq(S)
  <1>1. CASE s = <<>>
    <2>1. <<>> \in Seq({})
      OBVIOUS
    <2> QED BY <1>1, <2>1
  <1>2. CASE s = <<s[1]>>
    <2> DEFINE x == s[1]
    <2>1. s = <<x>>
      BY <1>2
    <2> HIDE DEF x
    <2>2. <<x>> \in Seq({x})
      OBVIOUS
    <2>3. s \in Seq({x})
      BY <2>1, <2>2, Zenon
    <2> QED BY <2>3
  <1> QED BY <1>1, <1>2 DEF AtMostOne

(* A handler sends when nothing is on its way, or nothing.                 *)
LEMMA SendOne ==
  ASSUME NEW s, AtMostOne(s), NEW o, AtMostOne(o), s = <<>> \/ o = <<>>
  PROVE  AtMostOne(s \o o) /\ s \o o = IF s = <<>> THEN o ELSE s
  <1>1. CASE s = <<>>
    <2>1. PICK S : o \in Seq(S)
      BY AtMostOneIs
    <2>2. s \o o = o
      BY <1>1, <2>1
    <2> QED BY <1>1, <2>2
  <1>2. CASE o = <<>> /\ s # <<>>
    <2>1. PICK S : s \in Seq(S)
      BY AtMostOneIs
    <2>2. s \o o = s
      BY <1>2, <2>1
    <2> QED BY <1>2, <2>2
  <1> QED BY <1>1, <1>2


-----------------------------------------------------------------------------
(* The steps.  Everything but connection c stays.                          *)
Others(c) ==
  /\ DOMAIN ctx' = Conn /\ DOMAIN toPeer' = Conn /\ DOMAIN toUs' = Conn
  /\ \A d \in Conn \ {c} : /\ ctx'[d] = ctx[d] /\ toPeer'[d] = toPeer[d] /\ toUs'[d] = toUs[d]
                           /\ d \in busy' <=> d \in busy

(* The queue from the peer becomes us.                                     *)
Becomes(c, us) ==
  DOMAIN toUs' = Conn /\ toUs'[c] = us /\ \A d \in Conn \ {c} : toUs'[d] = toUs[d]

(* So connection c decides.                                                *)
LEMMA OneConnection ==
  ASSUME ShapeInv, WaitInv, NEW c \in Conn, Others(c), IsContext(ctx'[c]), IsSequence(toUs'[c]),
         AtMostOne(toPeer'[c]), ConnInv(ctx'[c], toPeer'[c], toUs'[c], c \in busy')
  PROVE  ShapeInv' /\ WaitInv'
  <1>1. ShapeInv'
    BY DEF ShapeInv, Others
  <1>2. ASSUME NEW d \in Conn PROVE ConnInv(ctx'[d], toPeer'[d], toUs'[d], d \in busy')
    <2>1. CASE d = c
      BY <2>1
    <2>2. CASE d # c
      <3>1. ConnInv(ctx[d], toPeer[d], toUs[d], d \in busy)
        BY DEF WaitInv
      <3>2. /\ ctx'[d] = ctx[d] /\ toPeer'[d] = toPeer[d] /\ toUs'[d] = toUs[d]
            /\ d \in busy' <=> d \in busy
        BY <2>2 DEF Others
      <3> QED BY <3>1, <3>2 DEF ConnInv
    <2> QED BY <2>1, <2>2
  <1>3. WaitInv'
    BY <1>2 DEF WaitInv
  <1> QED BY <1>1, <1>3

(* What a handler commits.                                                 *)
LEMMA CommitIs ==
  ASSUME ShapeInv, NEW c \in Conn, NEW n, NEW blocks, NEW waits \in BOOLEAN, Commit(c, n, blocks, waits),
         NEW us, Becomes(c, us)
  PROVE  /\ Others(c) /\ ctx'[c] = n.ctx /\ toPeer'[c] = toPeer[c] \o n.out /\ toUs'[c] = us
         /\ c \in busy' <=> waits
  BY DEF ShapeInv, Commit, Others, Becomes

(* A handler that ends when nothing is under way.                          *)
LEMMA EndKeeps ==
  ASSUME ShapeInv, WaitInv, NEW c \in Conn, NEW n, NEW blocks, Commit(c, n, blocks, FALSE),
         NEW us, Becomes(c, us), IsSequence(us),
         toPeer[c] = <<>>, NoAnswer(us), Sound(n)
  PROVE  ShapeInv' /\ WaitInv'
  <1>1. /\ Others(c) /\ ctx'[c] = n.ctx /\ toPeer'[c] = toPeer[c] \o n.out /\ toUs'[c] = us
        /\ c \notin busy'
    BY CommitIs
  <1>2. AtMostOne(n.out) /\ IsContext(n.ctx)
    BY DEF Sound, IsNode
  <1>3. toPeer'[c] = n.out
    BY <1>1, <1>2, NoAnswerIs, SendOne
  <1>4. ConnInv(n.ctx, n.out, us, FALSE)
    BY NoAnswerIs DEF ConnInv, Sound, Apart
  <1>5. ConnInv(ctx'[c], toPeer'[c], toUs'[c], c \in busy')
    BY <1>1, <1>3, <1>4 DEF ConnInv
  <1> QED BY <1>1, <1>2, <1>3, <1>5, OneConnection

(* A handler that yields with blocks to add.                               *)
LEMMA YieldKeeps ==
  ASSUME ShapeInv, WaitInv, NEW c \in Conn, NEW n, NEW blocks, Commit(c, n, blocks, TRUE),
         NEW us, Becomes(c, us), IsSequence(us),
         toPeer[c] = <<>>, NoAnswer(us), IsNode(n), n.out = <<>>, n.ctx.requested = {},
         n.ctx.state \notin Apart
  PROVE  ShapeInv' /\ WaitInv'
  <1>1. /\ Others(c) /\ ctx'[c] = n.ctx /\ toPeer'[c] = toPeer[c] \o n.out /\ toUs'[c] = us
        /\ c \in busy'
    BY CommitIs
  <1>2. AtMostOne(n.out) /\ IsContext(n.ctx)
    BY NoAnswerIs DEF IsNode
  <1>3. toPeer'[c] = <<>>
    BY <1>1, <1>2, NoAnswerIs, SendOne
  <1>4. ConnInv(n.ctx, <<>>, us, TRUE)
    BY NoAnswerIs DEF ConnInv, Apart
  <1>5. ConnInv(ctx'[c], toPeer'[c], toUs'[c], c \in busy')
    BY <1>1, <1>3, <1>4 DEF ConnInv
  <1> QED BY <1>1, <1>2, <1>3, <1>5, NoAnswerIs, OneConnection

(* A handler that leaves alone what the connection waits for.              *)
LEMMA PassKeeps ==
  ASSUME ShapeInv, WaitInv, NEW c \in Conn, NEW n, NEW blocks, Commit(c, n, blocks, FALSE),
         NEW us, Becomes(c, us), IsSequence(us),
         NoAnswer(toUs[c]) => NoAnswer(us), OneAnswer(toUs[c]) => OneAnswer(us),
         NoChain(toUs[c]) => NoChain(us),
         Passes(Node(c), n)
  PROVE  ShapeInv' /\ WaitInv'
  <1>1. /\ Others(c) /\ ctx'[c] = n.ctx /\ toPeer'[c] = toPeer[c] \o n.out /\ toUs'[c] = us
        /\ c \notin busy'
    BY CommitIs
  <1>2. /\ n.out = <<>> /\ AtMostOne(n.out) /\ AtMostOne(toPeer[c]) /\ IsContext(n.ctx)
        /\ n.ctx.state = ctx[c].state /\ n.ctx.needed = ctx[c].needed
        /\ n.ctx.requested = ctx[c].requested
    BY NodeRecord, NoAnswerIs DEF IsNode, Passes, ShapeInv
  <1>3. toPeer'[c] = toPeer[c]
    BY <1>1, <1>2, SendOne
  <1>4. ConnInv(ctx[c], toPeer[c], toUs[c], c \in busy)
    BY DEF WaitInv
  <1>5. ConnInv(n.ctx, toPeer[c], us, FALSE)
    BY <1>2, <1>4 DEF ConnInv, Resting
  <1>6. ConnInv(ctx'[c], toPeer'[c], toUs'[c], c \in busy')
    BY <1>1, <1>3, <1>5 DEF ConnInv
  <1> QED BY <1>1, <1>2, <1>3, <1>6, OneConnection

(* A connection that is ready, and the queue without its first message.    *)
LEMMA ReadyIs ==
  ASSUME ShapeInv, WaitInv, NEW c \in Conn, Ready(c), Take(c)
  PROVE  /\ Becomes(c, Tail(toUs[c])) /\ IsSequence(Tail(toUs[c]))
         /\ NoAnswer(toUs[c]) => NoAnswer(Tail(toUs[c]))
         /\ OneAnswer(toUs[c]) => OneAnswer(Tail(toUs[c]))
         /\ NoChain(toUs[c]) => NoChain(Tail(toUs[c]))
         /\ ctx[c].state = "synchronizing" \/ ctx[c].state \in {"befor_handshake", "idle", "normal"}
         /\ ctx[c].state # "synchronizing" => Resting(ctx[c]) /\ toPeer[c] = <<>> /\ NoAnswer(toUs[c])
         /\ IsNode(Node(c)) /\ Node(c).out = <<>> /\ Node(c).ctx = ctx[c]
  <1>1. toUs[c] # <<>> /\ IsSequence(toUs[c]) /\ ctx[c].state \in States
    BY DEF Ready, ShapeInv, IsContext
  <1>2. Becomes(c, Tail(toUs[c]))
    BY DEF Take, ShapeInv, Becomes
  <1>3. ctx[c].state = "synchronizing" \/ ctx[c].state \in {"befor_handshake", "idle", "normal"}
    BY <1>1 DEF Ready, States
  <1>4. ConnInv(ctx[c], toPeer[c], toUs[c], c \in busy)
    BY DEF WaitInv
  <1>5. ctx[c].state # "synchronizing" => Resting(ctx[c]) /\ toPeer[c] = <<>> /\ NoAnswer(toUs[c])
    BY <1>3, <1>4 DEF ConnInv
  <1> QED BY <1>1, <1>2, <1>3, <1>5, TailIs, TakeOther, NodeRecord

(* An answer at the head of the queue is all that the connection waits for.*)
LEMMA AnswerIs ==
  ASSUME ShapeInv, WaitInv, NEW c \in Conn, Ready(c), IsAnswer(Head(toUs[c]))
  PROVE  /\ NoAnswer(Tail(toUs[c])) /\ toPeer[c] = <<>> /\ ctx[c].state = "synchronizing"
         /\ Head(toUs[c]).type = "chain" => Resting(ctx[c])
  <1>1. toUs[c] # <<>> /\ IsSequence(toUs[c]) /\ ctx[c].state \in States
    BY DEF Ready, ShapeInv, IsContext
  <1>2. ConnInv(ctx[c], toPeer[c], toUs[c], c \in busy)
    BY DEF WaitInv
  <1>3. Head(toUs[c]) = toUs[c][1] /\ 1 \in 1 .. Len(toUs[c])
    BY <1>1, TailIs
  <1>4. ~NoAnswer(toUs[c]) /\ (Head(toUs[c]).type = "chain" => ~NoChain(toUs[c]))
    BY <1>3 DEF NoAnswer, NoChain
  <1>5. NoAnswer(Tail(toUs[c]))
    BY <1>1, <1>2, TakeAnswer DEF ConnInv
  <1>6. toPeer[c] = <<>> /\ ctx[c].state = "synchronizing"
    BY <1>1, <1>2, <1>4 DEF ConnInv, Ready, States
  <1> QED BY <1>2, <1>4, <1>5, <1>6 DEF ConnInv

(* Sync data, with the handshake or with a timed sync.                     *)
LEMMA ReceiveSyncDataKeeps ==
  ASSUME ShapeInv, WaitInv, NEW c \in Conn, ReceiveSyncData(c)
  PROVE  ShapeInv' /\ WaitInv'
  <1> DEFINE m == Head(toUs[c])
             us == Tail(toUs[c])
             sync == process_payload_sync_data(Node(c), m.data)
             n == IF m.type = "handshake" THEN sync ELSE handle_timed_sync(Node(c), m.data)
  <1>1. Ready(c) /\ Take(c) /\ Commit(c, n, <<>>, FALSE)
    BY DEF ReceiveSyncData
  <1>2. n = sync \/ (n = Node(c) /\ ctx[c].state = "befor_handshake")
    BY <1>1, ReadyIs DEF handle_timed_sync
  <1>3. /\ ctx[c].state = "synchronizing" => Passes(Node(c), sync)
        /\ ctx[c].state # "synchronizing" => Sound(sync)
    BY <1>1, ReadyIs, SyncDataSound
  <1>4. Passes(Node(c), Node(c))
    BY <1>1, ReadyIs DEF Passes
  <1> HIDE DEF n, sync, us, m
  <1>5. /\ Becomes(c, us) /\ IsSequence(us)
        /\ NoAnswer(toUs[c]) => NoAnswer(us)
        /\ OneAnswer(toUs[c]) => OneAnswer(us)
        /\ NoChain(toUs[c]) => NoChain(us)
    BY <1>1, ReadyIs DEF us
  <1>6. CASE Passes(Node(c), n)
    BY <1>1, <1>5, <1>6, PassKeeps
  <1>7. CASE ctx[c].state # "synchronizing" /\ n = sync
    <2>1. toPeer[c] = <<>> /\ NoAnswer(us) /\ Sound(n)
      BY <1>1, <1>3, <1>5, <1>7, ReadyIs
    <2> QED BY <1>1, <1>5, <2>1, EndKeeps
  <1> QED BY <1>2, <1>3, <1>4, <1>6, <1>7

(* The notice of a new block.                                              *)
LEMMA ReceiveNewBlockKeeps ==
  ASSUME ShapeInv, WaitInv, NEW c \in Conn, ReceiveNewBlock(c)
  PROVE  ShapeInv' /\ WaitInv'
  <1> DEFINE us == Tail(toUs[c])
             n == handle_notify_new_block(Node(c), Head(toUs[c]))
  <1>1. Ready(c) /\ Take(c) /\ Commit(c, n, <<>>, FALSE)
    BY DEF ReceiveNewBlock
  <1>2. /\ ctx[c].state # "normal" => Passes(Node(c), n)
        /\ ctx[c].state = "normal" => Sound(n)
    BY <1>1, ReadyIs, NewBlockSound
  <1> HIDE DEF n, us
  <1>3. /\ Becomes(c, us) /\ IsSequence(us)
        /\ NoAnswer(toUs[c]) => NoAnswer(us)
        /\ OneAnswer(toUs[c]) => OneAnswer(us)
        /\ NoChain(toUs[c]) => NoChain(us)
    BY <1>1, ReadyIs DEF us
  <1>4. CASE ctx[c].state # "normal"
    BY <1>1, <1>2, <1>3, <1>4, PassKeeps
  <1>5. CASE ctx[c].state = "normal"
    <2>1. toPeer[c] = <<>> /\ NoAnswer(us) /\ Sound(n)
      BY <1>1, <1>2, <1>3, <1>5, ReadyIs
    <2> QED BY <1>1, <1>3, <2>1, EndKeeps
  <1> QED BY <1>4, <1>5

(* A chain entry.                                                          *)
LEMMA ReceiveChainKeeps ==
  ASSUME ShapeInv, WaitInv, NEW c \in Conn, ReceiveChain(c)
  PROVE  ShapeInv' /\ WaitInv'
  <1> DEFINE us == Tail(toUs[c])
             n == handle_response_chain_entry(Node(c), Head(toUs[c]).entry)
  <1>1. Ready(c) /\ Take(c) /\ Commit(c, n, <<>>, FALSE) /\ Head(toUs[c]).type = "chain"
    BY DEF ReceiveChain
  <1>2. NoAnswer(us) /\ toPeer[c] = <<>> /\ ctx[c].state = "synchronizing" /\ Resting(ctx[c])
    BY <1>1, AnswerIs DEF IsAnswer
  <1>3. Sound(n)
    BY <1>1, <1>2, ReadyIs, ChainSound DEF Resting, Apart
  <1> HIDE DEF n, us
  <1>4. Becomes(c, us) /\ IsSequence(us)
    BY <1>1, ReadyIs DEF us
  <1> QED BY <1>1, <1>2, <1>3, <1>4, EndKeeps

(* A response with blocks: the checks, and its first block.                *)
LEMMA ReceiveObjectsKeeps ==
  ASSUME ShapeInv, WaitInv, NEW c \in Conn, ReceiveObjects(c)
  PROVE  ShapeInv' /\ WaitInv'
  <1> DEFINE us == Tail(toUs[c])
             m == Head(toUs[c])
             checked == checkObjects(Node(c), m.entry)
             waits == Verdict(checked, m.entry.blocks[1]) = "added"
             first == processObject(checked, m.entry.blocks[1])
             rest == IF waits THEN Tail(m.entry.blocks) ELSE <<>>
             next == IF checked.ctx.state = "synchronizing"
                     THEN request_missing_objects(checked, TRUE) ELSE checked
  <1>1. Ready(c) /\ Take(c) /\ m.type = "objects"
    BY DEF ReceiveObjects
  <1>2. \/ checked.ctx.state \in {"shutdown", "idle"} /\ Commit(c, checked, <<>>, FALSE)
        \/ checked.ctx.state \notin {"shutdown", "idle"} /\ Commit(c, next, <<>>, FALSE)
        \/ checked.ctx.state \notin {"shutdown", "idle"} /\ Commit(c, first, rest, waits)
    BY DEF ReceiveObjects
  <1>3. waits \in BOOLEAN
    OBVIOUS
  <1>4. NoAnswer(us) /\ toPeer[c] = <<>> /\ ctx[c].state = "synchronizing"
    BY <1>1, AnswerIs DEF IsAnswer
  <1>5. /\ Sound(checked) /\ checked.out = <<>> /\ IsNode(checked)
        /\ checked.ctx.state \notin {"shutdown", "idle"}
             => checked.ctx.requested = {} /\ checked.ctx.state = "synchronizing"
    BY <1>1, <1>4, ReadyIs, CheckObjectsSound DEF Sound
  <1> HIDE DEF checked, us, m
  <1>6. Becomes(c, us) /\ IsSequence(us)
    BY <1>1, ReadyIs DEF us
  <1>7. CASE Commit(c, checked, <<>>, FALSE)
    BY <1>4, <1>5, <1>6, <1>7, EndKeeps
  <1>8. CASE checked.ctx.state \notin {"shutdown", "idle"} /\ Commit(c, next, <<>>, FALSE)
    <2>1. Sound(request_missing_objects(checked, TRUE)) /\ next = request_missing_objects(checked, TRUE)
      BY <1>5, <1>8, RequestMissingSound DEF Apart
    <2> HIDE DEF next
    <2> QED BY <1>4, <1>6, <1>8, <2>1, EndKeeps
  <1>9. CASE checked.ctx.state \notin {"shutdown", "idle"} /\ Commit(c, first, rest, waits)
    <2>1. Sound(first) /\ first.out = <<>> /\ IsNode(first) /\ (waits => first.ctx = checked.ctx)
      BY <1>5, <1>9, ProcessObjectSound DEF Apart, Sound
    <2> HIDE DEF first, rest, waits
    <2>2. CASE waits
      <3>1. first.ctx.requested = {} /\ first.ctx.state \notin Apart
        BY <1>5, <1>9, <2>1, <2>2 DEF Apart
      <3>2. Commit(c, first, rest, TRUE)
        BY <1>3, <1>9, <2>2 DEF Commit
      <3> QED BY <1>4, <1>6, <2>1, <3>1, <3>2, YieldKeeps
    <2>3. CASE ~waits
      <3>1. Commit(c, first, rest, FALSE)
        BY <1>3, <1>9, <2>3 DEF Commit
      <3> QED BY <1>4, <1>6, <2>1, <3>1, EndKeeps
    <2> QED BY <2>2, <2>3
  <1> QED BY <1>2, <1>7, <1>8, <1>9

(* The next block of a response, or its end.                               *)
LEMMA ProcessNextKeeps ==
  ASSUME ShapeInv, WaitInv, NEW c \in Conn, ProcessNext(c)
  PROVE  ShapeInv' /\ WaitInv'
  <1> DEFINE us == toUs[c]
             n == Node(c)
             waits == Verdict(n, Head(todo[c])) = "added"
             first == processObject(n, Head(todo[c]))
             rest == IF waits THEN Tail(todo[c]) ELSE <<>>
             next == IF ctx[c].state = "synchronizing" THEN request_missing_objects(n, TRUE) ELSE n
  <1>1. c \in busy /\ UNCHANGED toUs
    BY DEF ProcessNext
  <1>2. Commit(c, n, <<>>, FALSE) \/ Commit(c, next, <<>>, FALSE) \/ Commit(c, first, rest, waits)
    BY DEF ProcessNext
  <1>3. waits \in BOOLEAN
    OBVIOUS
  <1>4. ConnInv(ctx[c], toPeer[c], toUs[c], c \in busy) /\ IsSequence(us)
    BY DEF WaitInv, ShapeInv
  <1>5. NoAnswer(us) /\ toPeer[c] = <<>> /\ ctx[c].requested = {} /\ ctx[c].state \notin Apart
    BY <1>1, <1>4 DEF ConnInv, Apart
  <1>6. IsNode(n) /\ n.out = <<>> /\ n.ctx = ctx[c]
    BY NodeRecord
  <1>7. Sound(n)
    BY <1>5, <1>6, NoAnswerIs DEF Sound
  <1>8. Becomes(c, us)
    BY <1>1 DEF ShapeInv, Becomes
  <1> HIDE DEF us, n
  <1>9. CASE Commit(c, n, <<>>, FALSE)
    BY <1>4, <1>5, <1>7, <1>8, <1>9, EndKeeps
  <1>10. CASE Commit(c, next, <<>>, FALSE)
    <2>1. Sound(next)
      BY <1>5, <1>6, <1>7, RequestMissingSound
    <2> HIDE DEF next
    <2> QED BY <1>4, <1>5, <1>8, <1>10, <2>1, EndKeeps
  <1>11. CASE Commit(c, first, rest, waits)
    <2>1. Sound(first) /\ first.out = <<>> /\ IsNode(first) /\ (waits => first.ctx = n.ctx)
      BY <1>5, <1>6, ProcessObjectSound DEF Sound
    <2> HIDE DEF first, rest, waits
    <2>2. CASE waits
      <3>1. Commit(c, first, rest, TRUE)
        BY <1>3, <1>11, <2>2 DEF Commit
      <3> QED BY <1>4, <1>5, <1>6, <1>8, <2>1, <2>2, <3>1, YieldKeeps
    <2>3. CASE ~waits
      <3>1. Commit(c, first, rest, FALSE)
        BY <1>3, <1>11, <2>3 DEF Commit
      <3> QED BY <1>4, <1>5, <1>8, <2>1, <3>1, EndKeeps
    <2> QED BY <2>2, <2>3
  <1> QED BY <1>2, <1>9, <1>10, <1>11

(* A message that is no answer comes from the peer, and no handler runs.   *)
LEMMA MessageKeeps ==
  ASSUME ShapeInv, WaitInv, NEW c \in Conn, NEW m, ~IsAnswer(m),
         toUs' = [toUs EXCEPT ![c] = Append(toUs[c], m)], UNCHANGED <<ctx, toPeer, busy>>
  PROVE  ShapeInv' /\ WaitInv'
  <1> DEFINE us == Append(toUs[c], m)
  <1>1. toUs'[c] = us /\ Others(c)
    BY DEF ShapeInv, Others
  <1>2. IsSequence(toUs[c]) /\ IsContext(ctx[c]) /\ AtMostOne(toPeer[c])
    BY DEF ShapeInv
  <1>3. /\ IsSequence(us)
        /\ NoAnswer(toUs[c]) => NoAnswer(us)
        /\ OneAnswer(toUs[c]) => OneAnswer(us)
        /\ NoChain(toUs[c]) => NoChain(us)
    BY <1>2, AppendIs, PutOther
  <1>4. ConnInv(ctx[c], toPeer[c], toUs[c], c \in busy)
    BY DEF WaitInv
  <1> HIDE DEF us
  <1>5. ConnInv(ctx[c], toPeer[c], us, c \in busy)
    BY <1>3, <1>4 DEF ConnInv
  <1>6. ConnInv(ctx'[c], toPeer'[c], toUs'[c], c \in busy')
    BY <1>1, <1>5
  <1> QED BY <1>1, <1>2, <1>3, <1>6, OneConnection

(* A connection opens.                                                     *)
LEMMA ConnectKeeps ==
  ASSUME ShapeInv, WaitInv, NEW c \in Conn, Connect(c)
  PROVE  ShapeInv' /\ WaitInv'
  <1> DEFINE m == [type |-> "handshake", data |-> SyncData(c)]
  <1>1. /\ Others(c) /\ toUs'[c] = <<m>> /\ toPeer'[c] = toPeer[c] /\ (c \in busy' <=> c \in busy)
        /\ ctx'[c] = [ctx[c] EXCEPT !.state = "befor_handshake"] /\ ctx[c].state = "closed"
    BY DEF Connect, ShapeInv, Others
  <1>2. IsContext(ctx[c]) /\ AtMostOne(toPeer[c])
    BY DEF ShapeInv
  <1>3. /\ IsContext(ctx'[c]) /\ ctx'[c].state = "befor_handshake"
        /\ ctx'[c].needed = ctx[c].needed /\ ctx'[c].requested = ctx[c].requested
    BY <1>1, <1>2 DEF IsContext, Fields, States
  <1>4. Resting(ctx[c]) /\ toPeer[c] = <<>> /\ c \notin busy
    BY <1>1 DEF WaitInv, ConnInv
  <1>5. ~IsAnswer(m)
    BY DEF IsAnswer
  <1> HIDE DEF m
  <1>6. <<m>> \in Seq({m}) /\ Len(<<m>>) = 1 /\ <<m>>[1] = m
    OBVIOUS
  <1>7. IsSequence(<<m>>)
    BY <1>6, SequenceRange
  <1>8. NoAnswer(<<m>>)
    BY <1>5, <1>6 DEF NoAnswer
  <1>9. ConnInv(ctx'[c], toPeer'[c], toUs'[c], c \in busy')
    BY <1>1, <1>3, <1>4, <1>8, NoAnswerIs DEF ConnInv, Resting
  <1> QED BY <1>1, <1>2, <1>3, <1>7, <1>9, OneConnection

(* The peer answers the request that is on its way.                        *)
LEMMA PeerAnswersKeeps ==
  ASSUME ShapeInv, WaitInv, NEW c \in Conn, PeerAnswers(c)
  PROVE  ShapeInv' /\ WaitInv'
  <1> DEFINE m == Head(toPeer[c])
             a == IF m.type = "chain"
                  THEN [type |-> "chain", entry |-> findBlockchainSupplement(tip[c], m.ids)]
                  ELSE [type |-> "objects", entry |-> handleGetObjects(tip[c], m.blocks)]
             us == Append(toUs[c], a)
  <1>1. /\ Others(c) /\ toUs'[c] = us /\ toPeer'[c] = Tail(toPeer[c]) /\ toPeer[c] # <<>>
        /\ ctx'[c] = ctx[c] /\ (c \in busy' <=> c \in busy)
    BY DEF PeerAnswers, ShapeInv, Others
  <1>2. IsSequence(toUs[c]) /\ IsContext(ctx[c]) /\ AtMostOne(toPeer[c])
    BY DEF ShapeInv
  <1>3. a.type = "chain" => m.type = "chain"
    OBVIOUS
  <1> HIDE DEF a
  <1>4. Tail(toPeer[c]) = <<>> /\ m = toPeer[c][1]
    <2> DEFINE x == toPeer[c][1]
    <2>1. toPeer[c] = <<x>>
      BY <1>1, <1>2 DEF AtMostOne
    <2> HIDE DEF x
    <2>2. Tail(<<x>>) = <<>> /\ Head(<<x>>) = x
      OBVIOUS
    <2> QED BY <2>1, <2>2 DEF x
  <1> HIDE DEF m
  <1>5. ConnInv(ctx[c], toPeer[c], toUs[c], c \in busy)
    BY DEF WaitInv
  <1>6. NoAnswer(toUs[c]) /\ c \notin busy /\ ctx[c].state \notin Apart
    BY <1>1, <1>5 DEF ConnInv, Apart
  <1>7. IsSequence(us) /\ OneAnswer(us) /\ (a.type # "chain" => NoChain(us))
    BY <1>2, <1>6, AppendIs, PutAnswer
  <1>8. ~NoChain(us) => Resting(ctx[c])
    BY <1>1, <1>3, <1>4, <1>5, <1>7 DEF ConnInv
  <1> HIDE DEF us
  <1>9. ConnInv(ctx'[c], toPeer'[c], toUs'[c], c \in busy')
    BY <1>1, <1>4, <1>6, <1>7, <1>8 DEF ConnInv, Apart
  <1> QED BY <1>1, <1>2, <1>4, <1>7, <1>9, NoAnswerIs, OneConnection

(* A connection ends.                                                      *)
LEMMA DisconnectKeeps ==
  ASSUME ShapeInv, WaitInv, NEW c \in Conn, Disconnect(c)
  PROVE  ShapeInv' /\ WaitInv'
  <1>1. /\ Others(c) /\ toUs'[c] = <<>> /\ toPeer'[c] = <<>> /\ c \notin busy' /\ ctx'[c] = Closed
    BY DEF Disconnect, ShapeInv, Others
  <1>2. IsContext(Closed) /\ Resting(Closed)
    BY DEF IsContext, Closed, Fields, States, Resting
  <1>3. ConnInv(ctx'[c], toPeer'[c], toUs'[c], c \in busy')
    BY <1>1, <1>2, NoAnswerIs DEF ConnInv
  <1> QED BY <1>1, <1>2, <1>3, NoAnswerIs, OneConnection

(* The node stops.                                                         *)
LEMMA StopKeeps ==
  ASSUME ShapeInv, WaitInv, Stop
  PROVE  ShapeInv' /\ WaitInv'
  <1>1. /\ DOMAIN toUs' = Conn /\ DOMAIN toPeer' = Conn /\ UNCHANGED <<ctx, busy>>
        /\ \A c \in Conn : toUs'[c] = <<>> /\ toPeer'[c] = <<>>
    BY DEF Stop
  <1>2. ShapeInv'
    BY <1>1, NoAnswerIs DEF ShapeInv
  <1>3. ASSUME NEW c \in Conn PROVE ConnInv(ctx[c], <<>>, <<>>, c \in busy)
    BY NoAnswerIs DEF WaitInv, ConnInv
  <1>4. WaitInv'
    BY <1>1, <1>3 DEF WaitInv
  <1> QED BY <1>2, <1>4

(* At the start no connection is open.                                     *)
LEMMA InitWaits == Init => ShapeInv /\ WaitInv
  <1> SUFFICES ASSUME Init PROVE ShapeInv /\ WaitInv
    OBVIOUS
  <1>1. IsContext(Closed) /\ Resting(Closed)
    BY DEF IsContext, Closed, Fields, States, Resting
  <1>2. ShapeInv
    BY <1>1, NoAnswerIs DEF Init, ShapeInv
  <1>3. \A c \in Conn : ConnInv(Closed, <<>>, <<>>, c \in {})
    BY <1>1, NoAnswerIs DEF ConnInv
  <1>4. WaitInv
    BY <1>3 DEF Init, WaitInv
  <1> QED BY <1>2, <1>4

(* Every step keeps what a connection waits for.                           *)
LEMMA NextWaits == ShapeInv /\ WaitInv /\ [Next]_vars => ShapeInv' /\ WaitInv'
  <1> SUFFICES ASSUME ShapeInv, WaitInv, [Next]_vars PROVE ShapeInv' /\ WaitInv'
    OBVIOUS
  <1>1. ASSUME NEW c \in Conn, Connect(c) PROVE ShapeInv' /\ WaitInv'
    BY <1>1, ConnectKeeps
  <1>2. ASSUME NEW c \in Conn, TimedSync(c) PROVE ShapeInv' /\ WaitInv'
    <2> DEFINE m == [type |-> "timed", data |-> SyncData(c)]
    <2>1. ~IsAnswer(m)
      BY DEF IsAnswer
    <2>2. toUs' = [toUs EXCEPT ![c] = Append(toUs[c], m)] /\ UNCHANGED <<ctx, toPeer, busy>>
      BY <1>2 DEF TimedSync
    <2> HIDE DEF m
    <2> QED BY <2>1, <2>2, MessageKeeps
  <1>3. ASSUME NEW c \in Conn, PeerAdvances(c) PROVE ShapeInv' /\ WaitInv'
    <2>1. PICK b \in Block, notify \in BOOLEAN :
            /\ toUs' = IF notify
                       THEN [toUs EXCEPT ![c] = Append(@, [type |-> "new_block", block |-> b, height |-> Height(b)])]
                       ELSE toUs
            /\ UNCHANGED <<ctx, toPeer, busy>>
      BY <1>3 DEF PeerAdvances
    <2> DEFINE m == [type |-> "new_block", block |-> b, height |-> Height(b)]
    <2>2. CASE notify
      <3>1. ~IsAnswer(m)
        BY DEF IsAnswer
      <3>2. toUs' = [toUs EXCEPT ![c] = Append(toUs[c], m)] /\ UNCHANGED <<ctx, toPeer, busy>>
        BY <2>1, <2>2
      <3> HIDE DEF m
      <3> QED BY <3>1, <3>2, MessageKeeps
    <2>3. CASE ~notify
      BY <2>1, <2>3 DEF ShapeInv, WaitInv
    <2> QED BY <2>2, <2>3
  <1>4. ASSUME NEW c \in Conn, PeerAnswers(c) PROVE ShapeInv' /\ WaitInv'
    BY <1>4, PeerAnswersKeeps
  <1>5. ASSUME NEW c \in Conn, ReceiveSyncData(c) PROVE ShapeInv' /\ WaitInv'
    BY <1>5, ReceiveSyncDataKeeps
  <1>6. ASSUME NEW c \in Conn, ReceiveNewBlock(c) PROVE ShapeInv' /\ WaitInv'
    BY <1>6, ReceiveNewBlockKeeps
  <1>7. ASSUME NEW c \in Conn, ReceiveChain(c) PROVE ShapeInv' /\ WaitInv'
    BY <1>7, ReceiveChainKeeps
  <1>8. ASSUME NEW c \in Conn, ReceiveObjects(c) PROVE ShapeInv' /\ WaitInv'
    BY <1>8, ReceiveObjectsKeeps
  <1>9. ASSUME NEW c \in Conn, ProcessNext(c) PROVE ShapeInv' /\ WaitInv'
    BY <1>9, ProcessNextKeeps
  <1>10. ASSUME NEW c \in Conn, Close(c) \/ Drop(c) PROVE ShapeInv' /\ WaitInv'
    BY <1>10, DisconnectKeeps DEF Close, Drop
  <1>11. CASE Stop
    BY <1>11, StopKeeps
  <1>12. CASE UNCHANGED vars
    BY <1>12 DEF vars, ShapeInv, WaitInv
  <1> QED BY <1>1, <1>2, <1>3, <1>4, <1>5, <1>6, <1>7, <1>8, <1>9, <1>10, <1>11, <1>12
          DEF Next, Handler

(***************************************************************************)
(* A connection that is idle or synchronized asks for no block, whatever   *)
(* responses, notices and timed syncs came before and wherever the context *)
(* yielded in processObjects: the assertions of start_sync never fail.     *)
(***************************************************************************)
THEOREM NeverRequestedAtRest == Spec => []NothingRequestedAtRest
  <1>1. ShapeInv /\ WaitInv => NothingRequestedAtRest
    BY DEF WaitInv, ConnInv, Resting, NothingRequestedAtRest
  <1> QED BY <1>1, InitWaits, NextWaits, PTL DEF Spec

-----------------------------------------------------------------------------
(* Numbers.  A set of naturals that is not empty has a least element, so   *)
(* that Min and, below a bound, Max are what their names say.              *)
LEMMA LeastExists ==
  ASSUME NEW T \in SUBSET Nat, T # {}
  PROVE  \E x \in T : \A y \in T : x <= y
  <1> DEFINE R == OpToRel(<, Nat)
  <1>1. IsWellFoundedOn(R, Nat)
    BY NatLessThanWellFounded
  <1>2. \E x \in T : \A y \in T : ~ (<<y, x>> \in R)
    <2> HIDE DEF R
    <2> QED BY <1>1, WFMin
  <1>3. PICK x \in T : \A y \in T : ~ (<<y, x>> \in R)
    BY <1>2
  <1>4. \A y \in T : ~ (y < x)
    BY <1>3 DEF OpToRel
  <1>5. \A y \in T : x <= y
    BY <1>4
  <1> QED BY <1>5

LEMMA MaxIsGreatest ==
  ASSUME NEW T \in SUBSET Nat, T # {}, NEW n \in Nat, \A y \in T : y <= n
  PROVE  Max(T) \in T /\ \A y \in T : Max(T) >= y
  <1> DEFINE U == {m \in Nat : \A y \in T : y <= m}
  <1>1. U \in SUBSET Nat /\ U # {}
    OBVIOUS
  <1>2. PICK x \in U : \A y \in U : x <= y
    BY <1>1, LeastExists
  <1>3. x \in T
    <2>1. SUFFICES ASSUME x \notin T PROVE FALSE
      OBVIOUS
    <2>2. \A y \in T : y < x
      BY <2>1
    <2>3. x # 0
      <3>1. PICK z \in T : TRUE
        OBVIOUS
      <3>2. z \in Nat /\ z < x
        BY <2>2
      <3> QED BY <3>2
    <2>4. x - 1 \in U
      BY <2>2, <2>3
    <2> QED BY <1>2, <2>4
  <1>4. \A y \in T : x >= y
    OBVIOUS
  <1> QED BY <1>3, <1>4 DEF Max

(* Induction, for a set in place of a property.                            *)
LEMMA SetInduction ==
  ASSUME NEW S, 0 \in S, \A n \in Nat : n \in S => n + 1 \in S
  PROVE  Nat \subseteq S
  <1> DEFINE T == Nat \ S
  <1>1. SUFFICES ASSUME T # {} PROVE FALSE
    OBVIOUS
  <1>2. PICK x \in T : \A y \in T : x <= y
    BY <1>1, LeastExists
  <1>3. x # 0 /\ x \in Nat
    OBVIOUS
  <1>4. x - 1 \in T
    BY <1>3
  <1> QED BY <1>2, <1>3, <1>4

-----------------------------------------------------------------------------
(* The block tree.  The work of a block is more than that of its parent,   *)
(* so that PathTo, which goes from block to parent, has the values its     *)
(* definition gives it.                                                    *)
IsPathBelow(g, n) ==
  \A b \in Block : Work[b] < n =>
    g[b] = IF b = Genesis THEN <<b>> ELSE Append(g[Parent[b]], b)

LEMMA ParentIsBelow ==
  ASSUME NEW b \in Block, b # Genesis
  PROVE  Parent[b] \in Block /\ Work[b] \in Nat /\ Work[Parent[b]] \in Nat
         /\ Work[Parent[b]] < Work[b]
  BY BlockAssumption

LEMMA PathsExist == \A n \in Nat : \E g : IsPathBelow(g, n)
  <1> DEFINE S == {n \in Nat : \E g : IsPathBelow(g, n)}
  <1>1. 0 \in S
    <2>1. IsPathBelow(<<>>, 0)
      BY BlockAssumption DEF IsPathBelow
    <2> QED BY <2>1
  <1>2. ASSUME NEW n \in Nat, n \in S PROVE n + 1 \in S
    <2>1. PICK g : IsPathBelow(g, n)
      BY <1>2
    <2> DEFINE h == [b \in Block |-> IF Work[b] < n THEN g[b]
                                     ELSE IF b = Genesis THEN <<b>> ELSE Append(g[Parent[b]], b)]
    <2>2. ASSUME NEW b \in Block, Work[b] < n + 1
          PROVE  h[b] = IF b = Genesis THEN <<b>> ELSE Append(h[Parent[b]], b)
      <3>1. h[b] = IF b = Genesis THEN <<b>> ELSE Append(g[Parent[b]], b)
        BY <2>1 DEF IsPathBelow
      <3>2. CASE b = Genesis
        BY <3>1, <3>2
      <3>3. CASE b # Genesis
        <4>1. Parent[b] \in Block /\ Work[Parent[b]] < n
          BY <2>2, <3>3, ParentIsBelow
        <4>2. h[Parent[b]] = g[Parent[b]]
          BY <4>1
        <4> QED BY <3>1, <3>3, <4>2
      <3> QED BY <3>2, <3>3
    <2> HIDE DEF h
    <2>3. IsPathBelow(h, n + 1)
      BY <2>2 DEF IsPathBelow
    <2> QED BY <2>3
  <1> HIDE DEF S
  <1>3. Nat \subseteq S
    BY <1>1, <1>2, SetInduction
  <1> QED BY <1>3 DEF S

LEMMA PathsUnique ==
  ASSUME NEW g, NEW h, NEW n \in Nat, IsPathBelow(g, n), IsPathBelow(h, n)
  PROVE  \A b \in Block : Work[b] < n => g[b] = h[b]
  <1> DEFINE S == {m \in Nat : m <= n => \A b \in Block : Work[b] < m => g[b] = h[b]}
  <1>1. 0 \in S
    BY BlockAssumption
  <1>2. ASSUME NEW m \in Nat, m \in S PROVE m + 1 \in S
    <2>1. SUFFICES ASSUME m + 1 <= n, NEW b \in Block, Work[b] < m + 1 PROVE g[b] = h[b]
      OBVIOUS
    <2>2. \A a \in Block : Work[a] < m => g[a] = h[a]
      BY <1>2, <2>1
    <2>3. Work[b] \in Nat /\ Work[b] < n
      BY <2>1, BlockAssumption
    <2>4. /\ g[b] = IF b = Genesis THEN <<b>> ELSE Append(g[Parent[b]], b)
          /\ h[b] = IF b = Genesis THEN <<b>> ELSE Append(h[Parent[b]], b)
      BY <2>3 DEF IsPathBelow
    <2>5. CASE b = Genesis
      BY <2>4, <2>5
    <2>6. CASE b # Genesis
      <3>1. Parent[b] \in Block /\ Work[Parent[b]] < m
        BY <2>1, <2>3, <2>6, ParentIsBelow
      <3> QED BY <2>2, <2>4, <2>6, <3>1
    <2> QED BY <2>5, <2>6
  <1> HIDE DEF S
  <1>3. Nat \subseteq S
    BY <1>1, <1>2, SetInduction
  <1> QED BY <1>3 DEF S

LEMMA PathDefined ==
  \A b \in Block : PathTo[b] = IF b = Genesis THEN <<b>> ELSE Append(PathTo[Parent[b]], b)
  <1> DEFINE G(n) == CHOOSE g : IsPathBelow(g, n)
             f == [b \in Block |-> G(Work[b] + 1)[b]]
             IsPaths(h) == h = [b \in Block |-> IF b = Genesis THEN <<b>> ELSE Append(h[Parent[b]], b)]
  <1>1. \A n \in Nat : IsPathBelow(G(n), n)
    BY PathsExist
  <1>2. ASSUME NEW b \in Block
        PROVE  f[b] = IF b = Genesis THEN <<b>> ELSE Append(f[Parent[b]], b)
    <2>1. Work[b] \in Nat /\ Work[b] + 1 \in Nat
      BY BlockAssumption
    <2>2. IsPathBelow(G(Work[b] + 1), Work[b] + 1)
      BY <1>1, <2>1
    <2> HIDE DEF G
    <2>3. f[b] = IF b = Genesis THEN <<b>> ELSE Append(G(Work[b] + 1)[Parent[b]], b)
      BY <2>1, <2>2 DEF IsPathBelow
    <2>4. CASE b = Genesis
      BY <2>3, <2>4
    <2>5. CASE b # Genesis
      <3> DEFINE p == Parent[b]
      <3>1. p \in Block /\ Work[p] \in Nat /\ Work[p] < Work[b]
        BY <2>5, ParentIsBelow
      <3> HIDE DEF p
      <3>2. Work[p] + 1 \in Nat /\ IsPathBelow(G(Work[p] + 1), Work[p] + 1)
        BY <1>1, <3>1
      <3>3. IsPathBelow(G(Work[b] + 1), Work[p] + 1)
        <4>1. \A a \in Block : Work[a] < Work[p] + 1 => Work[a] < Work[b] + 1
          BY <2>1, <3>1, BlockAssumption
        <4> QED BY <2>2, <4>1 DEF IsPathBelow
      <3>4. \A a \in Block : Work[a] < Work[p] + 1 => G(Work[b] + 1)[a] = G(Work[p] + 1)[a]
        BY <3>2, <3>3, PathsUnique
      <3>5. G(Work[b] + 1)[p] = f[p]
        BY <3>1, <3>4
      <3> QED BY <2>3, <2>5, <3>5 DEF p
    <2> QED BY <2>4, <2>5
  <1>3. f = [b \in Block |-> f[b]]
    OBVIOUS
  <1> HIDE DEF f
  <1>4. IsPaths(f)
    BY <1>2, <1>3
  <1> DEFINE paths == CHOOSE h : IsPaths(h)
  <1>5. IsPaths(paths)
    BY <1>4
  <1>6. PathTo = paths
    BY DEF PathTo
  <1> HIDE DEF paths
  <1>7. \A b \in Block : paths[b] = IF b = Genesis THEN <<b>> ELSE Append(paths[Parent[b]], b)
    BY <1>5
  <1> QED BY <1>6, <1>7

-----------------------------------------------------------------------------
(* What a path is: it leads from the genesis block to its block through    *)
(* blocks of growing work, and its beginnings are the paths to the blocks  *)
(* on it.                                                                  *)
LEMMA SameSeq ==
  ASSUME NEW S, NEW s \in Seq(S), NEW t \in Seq(S), Len(s) = Len(t),
         \A i \in 1 .. Len(s) : s[i] = t[i]
  PROVE  s = t
  <1>1. Len(s) \in Nat /\ s = [i \in 1 .. Len(s) |-> s[i]] /\ t = [i \in 1 .. Len(t) |-> t[i]]
    OBVIOUS
  <1> QED BY <1>1

(* The first i elements of a sequence.                                     *)
LEMMA PrefixOf ==
  ASSUME NEW S, NEW s \in Seq(S), NEW i \in 0 .. Len(s)
  PROVE  /\ SubSeq(s, 1, i) \in Seq(S) /\ Len(SubSeq(s, 1, i)) = i
         /\ \A j \in 1 .. i : SubSeq(s, 1, i)[j] = s[j]
  <1>1. 1 \in Int /\ i \in Int /\ \A j \in 1 .. i : s[j] \in S
    OBVIOUS
  <1>2. /\ SubSeq(s, 1, i) \in Seq(S)
        /\ Len(SubSeq(s, 1, i)) = IF 1 <= i THEN i - 1 + 1 ELSE 0
        /\ \A j \in 1 .. i - 1 + 1 : SubSeq(s, 1, i)[j] = s[1 + j - 1]
    BY <1>1, SubSeqProperties
  <1>3. \A j \in 1 .. i : SubSeq(s, 1, i)[j] = s[j]
    BY <1>2
  <1> QED BY <1>2, <1>3

IsPathTo(b, path) ==
  /\ path \in Seq(Block) /\ Len(path) \in Nat \ {0}
  /\ path[Len(path)] = b /\ path[1] = Genesis
  /\ \A i \in 1 .. Len(path) - 1 : Work[path[i]] < Work[b]
  /\ \A i \in 1 .. Len(path) : PathTo[path[i]] = SubSeq(path, 1, i)

LEMMA PathOfGenesis == IsPathTo(Genesis, PathTo[Genesis])
  <1>1. PathTo[Genesis] = <<Genesis>> /\ Genesis \in Block
    BY PathDefined, BlockAssumption
  <1>2. <<Genesis>> \in Seq(Block) /\ Len(<<Genesis>>) = 1 /\ <<Genesis>>[1] = Genesis
    BY <1>1
  <1>3. /\ SubSeq(<<Genesis>>, 1, 1) \in Seq(Block) /\ Len(SubSeq(<<Genesis>>, 1, 1)) = 1
        /\ \A j \in 1 .. 1 : SubSeq(<<Genesis>>, 1, 1)[j] = <<Genesis>>[j]
    BY <1>2, PrefixOf
  <1>4. SubSeq(<<Genesis>>, 1, 1) = <<Genesis>>
    BY <1>2, <1>3, SameSeq
  <1> DEFINE p == PathTo[Genesis]
  <1>5. p \in Seq(Block) /\ Len(p) = 1 /\ p[1] = Genesis /\ PathTo[p[1]] = SubSeq(p, 1, 1)
    BY <1>1, <1>2, <1>4
  <1> HIDE DEF p
  <1>6. IsPathTo(Genesis, p)
    <2>1. \A i \in 1 .. Len(p) : i = 1
      BY <1>5
    <2>2. \A i \in 1 .. Len(p) - 1 : FALSE
      BY <1>5
    <2> QED BY <1>5, <2>1, <2>2 DEF IsPathTo
  <1> QED BY <1>6 DEF p

LEMMA PathOfChild ==
  ASSUME NEW b \in Block, b # Genesis, IsPathTo(Parent[b], PathTo[Parent[b]])
  PROVE  IsPathTo(b, PathTo[b])
  <1> DEFINE p == PathTo[Parent[b]]
             q == PathTo[b]
  <1>1. q = Append(p, b)
    BY PathDefined
  <1>2. Parent[b] \in Block /\ Work[b] \in Nat /\ Work[Parent[b]] \in Nat /\ Work[Parent[b]] < Work[b]
    BY ParentIsBelow
  <1>3. /\ p \in Seq(Block) /\ Len(p) \in Nat \ {0} /\ p[Len(p)] = Parent[b] /\ p[1] = Genesis
        /\ \A i \in 1 .. Len(p) - 1 : Work[p[i]] < Work[Parent[b]]
        /\ \A i \in 1 .. Len(p) : PathTo[p[i]] = SubSeq(p, 1, i)
    BY DEF IsPathTo
  <1> HIDE DEF p, q
  <1>4. /\ q \in Seq(Block) /\ Len(q) = Len(p) + 1
        /\ \A i \in 1 .. Len(p) : q[i] = p[i]
        /\ q[Len(p) + 1] = b
    BY <1>1, <1>3, AppendProperties
  <1>5. q[Len(q)] = b /\ q[1] = Genesis /\ Len(q) \in Nat \ {0}
    BY <1>3, <1>4
  <1>6. ASSUME NEW i \in 1 .. Len(q) - 1 PROVE Work[q[i]] < Work[b]
    <2>1. i \in 1 .. Len(p) /\ q[i] = p[i] /\ p[i] \in Block
      BY <1>3, <1>4
    <2>2. Work[p[i]] \in Nat
      BY <2>1, BlockAssumption
    <2>3. CASE i = Len(p)
      BY <1>2, <1>3, <2>1, <2>3
    <2>4. CASE i # Len(p)
      <3>1. Work[p[i]] < Work[Parent[b]]
        BY <1>3, <2>1, <2>4
      <3> QED BY <1>2, <2>1, <2>2, <3>1
    <2> QED BY <2>3, <2>4
  <1>7. ASSUME NEW i \in 1 .. Len(q) PROVE PathTo[q[i]] = SubSeq(q, 1, i)
    <2>1. i \in 0 .. Len(q)
      OBVIOUS
    <2>2. /\ SubSeq(q, 1, i) \in Seq(Block) /\ Len(SubSeq(q, 1, i)) = i
          /\ \A j \in 1 .. i : SubSeq(q, 1, i)[j] = q[j]
      BY <1>4, <2>1, PrefixOf
    <2>3. CASE i = Len(q)
      <3>1. SubSeq(q, 1, i) = q
        BY <1>4, <2>2, <2>3, SameSeq
      <3>2. PathTo[q[i]] = q
        BY <1>5, <2>3 DEF q
      <3> QED BY <3>1, <3>2
    <2>4. CASE i # Len(q)
      <3>1. i \in 1 .. Len(p) /\ i \in 0 .. Len(p) /\ q[i] = p[i]
        BY <1>3, <1>4, <2>4
      <3>2. /\ SubSeq(p, 1, i) \in Seq(Block) /\ Len(SubSeq(p, 1, i)) = i
            /\ \A j \in 1 .. i : SubSeq(p, 1, i)[j] = p[j]
        BY <1>3, <3>1, PrefixOf
      <3>3. \A j \in 1 .. i : p[j] = q[j]
        BY <1>3, <1>4, <3>1
      <3>4. SubSeq(q, 1, i) = SubSeq(p, 1, i)
        BY <2>2, <3>2, <3>3, SameSeq
      <3> QED BY <1>3, <3>1, <3>4
    <2> QED BY <2>3, <2>4
  <1>8. IsPathTo(b, q)
    BY <1>4, <1>5, <1>6, <1>7 DEF IsPathTo
  <1> QED BY <1>8 DEF q

LEMMA PathFacts == \A b \in Block : IsPathTo(b, PathTo[b])
  <1> DEFINE S == {n \in Nat : \A b \in Block : Work[b] < n => IsPathTo(b, PathTo[b])}
  <1>1. 0 \in S
    BY BlockAssumption
  <1>2. ASSUME NEW n \in Nat, n \in S PROVE n + 1 \in S
    <2>1. SUFFICES ASSUME NEW b \in Block, Work[b] < n + 1 PROVE IsPathTo(b, PathTo[b])
      OBVIOUS
    <2>2. \A a \in Block : Work[a] < n => IsPathTo(a, PathTo[a])
      BY <1>2
    <2>3. CASE b = Genesis
      BY <2>3, PathOfGenesis
    <2>4. CASE b # Genesis
      <3>1. Parent[b] \in Block /\ Work[Parent[b]] < n
        BY <2>1, <2>4, ParentIsBelow
      <3>2. IsPathTo(Parent[b], PathTo[Parent[b]])
        BY <2>2, <3>1
      <3> QED BY <2>4, <3>2, PathOfChild
    <2> QED BY <2>3, <2>4
  <1> HIDE DEF S
  <1>3. Nat \subseteq S
    BY <1>1, <1>2, SetInduction
  <1>4. ASSUME NEW b \in Block PROVE IsPathTo(b, PathTo[b])
    <2>1. Work[b] \in Nat /\ Work[b] + 1 \in Nat /\ Work[b] < Work[b] + 1
      BY BlockAssumption
    <2>2. Work[b] + 1 \in S
      BY <1>3, <2>1
    <2> QED BY <2>1, <2>2 DEF S
  <1> QED BY <1>4

(* The chain of a block, and of the blocks on it.                          *)
LEMMA ChainFacts ==
  ASSUME NEW b \in Block
  PROVE  /\ ChainOf[b] \in Seq(Block) /\ Len(ChainOf[b]) \in Nat \ {0}
         /\ ChainOf[b][Len(ChainOf[b])] = b /\ ChainOf[b][1] = Genesis
         /\ \A i \in 1 .. Len(ChainOf[b]) : ChainOf[ChainOf[b][i]] = SubSeq(ChainOf[b], 1, i)
  <1>1. \A a \in Block : ChainOf[a] = PathTo[a]
    BY DEF ChainOf
  <1>2. IsPathTo(b, PathTo[b])
    BY PathFacts
  <1>3. ASSUME NEW i \in 1 .. Len(PathTo[b]) PROVE ChainOf[PathTo[b][i]] = SubSeq(PathTo[b], 1, i)
    <2>1. PathTo[b][i] \in Block
      BY <1>2 DEF IsPathTo
    <2> QED BY <1>1, <1>2, <2>1 DEF IsPathTo
  <1> QED BY <1>1, <1>2, <1>3 DEF IsPathTo

LEMMA RangeIs == ASSUME NEW S, NEW s \in Seq(S) PROVE Range(s) = {s[i] : i \in 1 .. Len(s)} /\ Range(s) \subseteq S
  BY DEF Range

LEMMA ChainOfChild ==
  ASSUME NEW b \in Block, b # Genesis
  PROVE  Parent[b] \in Block /\ Range(ChainOf[b]) = Range(ChainOf[Parent[b]]) \cup {b}
  <1>1. Parent[b] \in Block
    BY ParentIsBelow
  <1>2. ChainOf[b] = Append(ChainOf[Parent[b]], b)
    BY <1>1, PathDefined DEF ChainOf
  <1> DEFINE p == ChainOf[Parent[b]]
             q == ChainOf[b]
  <1>3. p \in Seq(Block) /\ q \in Seq(Block)
    BY <1>1, ChainFacts
  <1>4. q = Append(p, b)
    BY <1>2
  <1> HIDE DEF p, q
  <1>5. Len(q) = Len(p) + 1 /\ Len(p) \in Nat /\ \A i \in 1 .. Len(q) : q[i] = IF i <= Len(p) THEN p[i] ELSE b
    BY <1>3, <1>4
  <1>6. Range(q) = Range(p) \cup {b}
    <2>1. Range(q) = {q[i] : i \in 1 .. Len(q)} /\ Range(p) = {p[i] : i \in 1 .. Len(p)}
      BY <1>3, RangeIs
    <2>2. ASSUME NEW x \in Range(p) PROVE x \in Range(q)
      <3>1. PICK i \in 1 .. Len(p) : x = p[i]
        BY <2>1
      <3>2. i \in 1 .. Len(q) /\ q[i] = p[i]
        BY <1>5
      <3> QED BY <2>1, <3>1, <3>2
    <2>3. b \in Range(q)
      <3>1. Len(q) \in 1 .. Len(q) /\ q[Len(q)] = b
        BY <1>5
      <3> QED BY <2>1, <3>1
    <2>4. Range(q) \subseteq Range(p) \cup {b}
      BY <1>5, <2>1
    <2> QED BY <2>2, <2>3, <2>4
  <1> QED BY <1>1, <1>6 DEF p, q

-----------------------------------------------------------------------------
(* A part of a sequence.                                                   *)
LEMMA PartIs ==
  ASSUME NEW S, NEW s \in Seq(S), NEW i \in 1 .. Len(s) + 1, NEW j \in 0 .. Len(s)
  PROVE  /\ SubSeq(s, i, j) \in Seq(S)
         /\ Len(SubSeq(s, i, j)) = IF i <= j THEN j - i + 1 ELSE 0
         /\ \A k \in 1 .. j - i + 1 : SubSeq(s, i, j)[k] = s[i + k - 1]
  <1>1. i \in Int /\ j \in Int /\ \A k \in i .. j : s[k] \in S
    OBVIOUS
  <1> QED BY <1>1, SubSeqProperties

(* A part with its elements, as a set.                                     *)
LEMMA PartRange ==
  ASSUME NEW S, NEW s \in Seq(S), NEW i \in 1 .. Len(s) + 1, NEW j \in 0 .. Len(s)
  PROVE  Range(SubSeq(s, i, j)) = {s[k] : k \in i .. j}
  <1> DEFINE t == SubSeq(s, i, j)
  <1>1. /\ t \in Seq(S) /\ Len(t) = IF i <= j THEN j - i + 1 ELSE 0
        /\ \A k \in 1 .. j - i + 1 : t[k] = s[i + k - 1]
    BY PartIs
  <1> HIDE DEF t
  <1>2. Range(t) = {t[k] : k \in 1 .. Len(t)}
    BY <1>1, RangeIs
  <1>3. ASSUME NEW k \in 1 .. Len(t) PROVE i + k - 1 \in i .. j /\ t[k] = s[i + k - 1]
    BY <1>1
  <1>4. ASSUME NEW k \in i .. j PROVE k - i + 1 \in 1 .. Len(t) /\ t[k - i + 1] = s[k]
    <2>1. k - i + 1 \in 1 .. j - i + 1 /\ i + (k - i + 1) - 1 = k /\ Len(t) = j - i + 1
      BY <1>1
    <2> QED BY <1>1, <2>1
  <1>5. Range(t) \subseteq {s[k] : k \in i .. j}
    BY <1>2, <1>3
  <1>6. {s[k] : k \in i .. j} \subseteq Range(t)
    BY <1>2, <1>4
  <1> QED BY <1>5, <1>6 DEF t

(* What a chain entry lists: a part of a chain.  The chain to its last     *)
(* block is the chain to its first, and the blocks that it lists.          *)
IsEntry(ids) ==
  \E t \in Block : \E i, j \in 1 .. Len(ChainOf[t]) : i <= j /\ ids = SubSeq(ChainOf[t], i, j)

LEMMA EntryFacts ==
  ASSUME NEW ids, IsEntry(ids)
  PROVE  /\ ids \in Seq(Block) /\ ids # <<>> /\ Last(ids) \in Block /\ Head(ids) \in Block
         /\ Range(ChainOf[Last(ids)]) \subseteq Range(ChainOf[Head(ids)]) \cup Range(ids)
  <1>1. PICK t \in Block : \E i, j \in 1 .. Len(ChainOf[t]) : i <= j /\ ids = SubSeq(ChainOf[t], i, j)
    BY DEF IsEntry
  <1> DEFINE s == ChainOf[t]
  <1>2. /\ s \in Seq(Block) /\ Len(s) \in Nat \ {0}
        /\ \A i \in 1 .. Len(s) : ChainOf[s[i]] = SubSeq(s, 1, i)
    BY ChainFacts
  <1>3. PICK i \in 1 .. Len(s), j \in 1 .. Len(s) : i <= j /\ ids = SubSeq(s, i, j)
    BY <1>1
  <1> HIDE DEF s
  <1>4. /\ i \in 1 .. Len(s) + 1 /\ j \in 0 .. Len(s) /\ i \in 0 .. Len(s) /\ 1 \in 1 .. Len(s) + 1
        /\ i \in Nat /\ j \in Nat
    BY <1>2, <1>3
  <1>5. /\ ids \in Seq(Block) /\ Len(ids) = j - i + 1
        /\ \A k \in 1 .. j - i + 1 : ids[k] = s[i + k - 1]
    BY <1>2, <1>3, <1>4, PartIs
  <1>6. Range(ids) = {s[k] : k \in i .. j}
    BY <1>2, <1>3, <1>4, PartRange
  <1>7. ids # <<>> /\ Head(ids) = ids[1] /\ Last(ids) = ids[Len(ids)]
    BY <1>3, <1>4, <1>5 DEF Last
  <1>8. ids[1] = s[i] /\ ids[Len(ids)] = s[j] /\ s[i] \in Block /\ s[j] \in Block
    <2>1. 1 \in 1 .. j - i + 1 /\ j - i + 1 \in 1 .. j - i + 1 /\ i + 1 - 1 = i /\ i + (j - i + 1) - 1 = j
      BY <1>3, <1>4
    <2> QED BY <1>2, <1>5, <2>1
  <1>9. ChainOf[s[i]] = SubSeq(s, 1, i) /\ ChainOf[s[j]] = SubSeq(s, 1, j)
    BY <1>2
  <1>10. Range(SubSeq(s, 1, i)) = {s[k] : k \in 1 .. i} /\ Range(SubSeq(s, 1, j)) = {s[k] : k \in 1 .. j}
    BY <1>2, <1>4, PartRange
  <1>11. {s[k] : k \in 1 .. j} \subseteq {s[k] : k \in 1 .. i} \cup {s[k] : k \in i .. j}
    BY <1>4
  <1> QED BY <1>5, <1>6, <1>7, <1>8, <1>9, <1>10, <1>11

(* The peer answers with such an entry: its chain begins with the genesis  *)
(* block, which every request names.                                       *)
LEMMA SupplementIsEntry ==
  ASSUME NEW b \in Block, NEW ids, Genesis \in ids
  PROVE  IsEntry(findBlockchainSupplement(b, ids).ids)
  <1> DEFINE chain == ChainOf[b]
             T == {i \in 1 .. Len(chain) : chain[i] \in ids}
             Highest(i) == i \in T /\ \A j \in T : j <= i
             start == CHOOSE i \in DOMAIN chain :
                        chain[i] \in ids /\ \A j \in DOMAIN chain : chain[j] \in ids => j <= i
             e == Min({Len(chain), start + IdsPerResponse - 1})
  <1>1. chain \in Seq(Block) /\ Len(chain) \in Nat \ {0} /\ chain[1] = Genesis /\ DOMAIN chain = 1 .. Len(chain)
    BY ChainFacts
  <1>2. findBlockchainSupplement(b, ids).ids = SubSeq(chain, start, e)
    BY DEF findBlockchainSupplement
  <1> HIDE DEF chain
  <1>3. T \in SUBSET Nat /\ T # {} /\ \A y \in T : y <= Len(chain)
    BY <1>1
  <1>4. \E i \in T : \A j \in T : i >= j
    <2> HIDE DEF T
    <2>1. Len(chain) \in Nat
      BY <1>1
    <2> QED BY <1>3, <2>1, MaxIsGreatest
  <1>5. \E i \in DOMAIN chain : chain[i] \in ids /\ \A j \in DOMAIN chain : chain[j] \in ids => j <= i
    BY <1>1, <1>4
  <1>6. start \in 1 .. Len(chain)
    BY <1>1, <1>5
  <1> HIDE DEF start
  <1>7. e \in 1 .. Len(chain) /\ start <= e
    <2> DEFINE n == start + IdsPerResponse - 1
    <2>1. n \in Nat /\ start <= n /\ Len(chain) \in Nat /\ start \in Nat /\ 1 <= start /\ start <= Len(chain)
      BY <1>1, <1>6, LimitAssumption
    <2>2. e = Min({Len(chain), n})
      OBVIOUS
    <2> HIDE DEF n, e
    <2>3. {Len(chain), n} \in SUBSET Nat /\ {Len(chain), n} # {}
      BY <2>1
    <2>4. \E x \in {Len(chain), n} : \A y \in {Len(chain), n} : x <= y
      BY <2>3, LeastExists
    <2>5. e \in {Len(chain), n} /\ \A y \in {Len(chain), n} : e <= y
      BY <2>2, <2>4 DEF Min
    <2> QED BY <2>1, <2>5
  <1> HIDE DEF e
  <1> QED BY <1>2, <1>6, <1>7 DEF IsEntry, chain

-----------------------------------------------------------------------------
(* Only keeps the elements that are in a set: the function that it names   *)
(* exists, so that it has the values its definition gives it.              *)
OnlyTo(s, S, g, n) ==
  /\ g[0] = <<>>
  /\ \A k \in 1 .. n : g[k] = IF s[k] \in S THEN Append(g[k - 1], s[k]) ELSE g[k - 1]

LEMMA OnlyExists ==
  ASSUME NEW s, NEW S
  PROVE  \A n \in Nat : \E g : OnlyTo(s, S, g, n)
  <1> DEFINE N == {n \in Nat : \E g : OnlyTo(s, S, g, n)}
  <1>1. 0 \in N
    <2>1. OnlyTo(s, S, [k \in {0} |-> <<>>], 0)
      BY DEF OnlyTo
    <2> QED BY <2>1
  <1>2. ASSUME NEW n \in Nat, n \in N PROVE n + 1 \in N
    <2>1. PICK g : OnlyTo(s, S, g, n)
      BY <1>2
    <2> DEFINE x == IF s[n + 1] \in S THEN Append(g[n], s[n + 1]) ELSE g[n]
               h == [k \in 0 .. n + 1 |-> IF k = n + 1 THEN x ELSE g[k]]
    <2>2. h[0] = <<>> /\ h[n + 1] = x /\ \A k \in 0 .. n : h[k] = g[k]
      BY <2>1 DEF OnlyTo
    <2> HIDE DEF h
    <2>3. ASSUME NEW k \in 1 .. n + 1
          PROVE  h[k] = IF s[k] \in S THEN Append(h[k - 1], s[k]) ELSE h[k - 1]
      <3>1. CASE k = n + 1
        BY <2>2, <3>1
      <3>2. CASE k # n + 1
        <4>1. k \in 1 .. n /\ k \in 0 .. n /\ k - 1 \in 0 .. n
          BY <3>2
        <4>2. g[k] = IF s[k] \in S THEN Append(g[k - 1], s[k]) ELSE g[k - 1]
          BY <2>1, <4>1 DEF OnlyTo
        <4> QED BY <2>2, <4>1, <4>2
      <3> QED BY <3>1, <3>2
    <2>4. OnlyTo(s, S, h, n + 1)
      BY <2>2, <2>3 DEF OnlyTo
    <2> QED BY <2>4
  <1> HIDE DEF N
  <1>3. Nat \subseteq N
    BY <1>1, <1>2, SetInduction
  <1> QED BY <1>3 DEF N

LEMMA OnlyUnique ==
  ASSUME NEW s, NEW S, NEW g, NEW h, NEW n \in Nat, OnlyTo(s, S, g, n), OnlyTo(s, S, h, n)
  PROVE  \A k \in 0 .. n : g[k] = h[k]
  <1> DEFINE N == {k \in Nat : k <= n => g[k] = h[k]}
  <1>1. 0 \in N
    BY DEF OnlyTo
  <1>2. ASSUME NEW k \in Nat, k \in N PROVE k + 1 \in N
    <2>1. CASE k + 1 <= n
      <3>1. g[k] = h[k] /\ k + 1 \in 1 .. n /\ (k + 1) - 1 = k
        BY <1>2, <2>1
      <3>2. /\ g[k + 1] = IF s[k + 1] \in S THEN Append(g[k], s[k + 1]) ELSE g[k]
            /\ h[k + 1] = IF s[k + 1] \in S THEN Append(h[k], s[k + 1]) ELSE h[k]
        BY <3>1 DEF OnlyTo
      <3> QED BY <3>1, <3>2
    <2>2. CASE ~ (k + 1 <= n)
      BY <2>2
    <2> QED BY <2>1, <2>2
  <1> HIDE DEF N
  <1>3. Nat \subseteq N
    BY <1>1, <1>2, SetInduction
  <1> QED BY <1>3 DEF N

(* So Only(s, S) is the end of such a function.                            *)
LEMMA OnlyDefined ==
  ASSUME NEW s, NEW S, Len(s) \in Nat
  PROVE  \E g : OnlyTo(s, S, g, Len(s)) /\ Only(s, S) = g[Len(s)]
  <1> DEFINE G(n) == CHOOSE g : OnlyTo(s, S, g, n)
             f == [n \in Nat |-> G(n)[n]]
             Value(h, k) == IF k = 0 THEN <<>>
                            ELSE IF s[k] \in S THEN Append(h[k - 1], s[k]) ELSE h[k - 1]
             IsOnly(h) == h = [k \in Nat |-> IF k = 0 THEN <<>>
                                 ELSE IF s[k] \in S THEN Append(h[k - 1], s[k]) ELSE h[k - 1]]
  <1>1. \A n \in Nat : OnlyTo(s, S, G(n), n)
    BY OnlyExists
  <1>2. f[0] = <<>>
    BY <1>1 DEF OnlyTo
  <1>3. ASSUME NEW n \in Nat PROVE f[n + 1] = Value(f, n + 1)
    <2>1. OnlyTo(s, S, G(n), n) /\ OnlyTo(s, S, G(n + 1), n + 1)
      BY <1>1
    <2> HIDE DEF G
    <2>2. OnlyTo(s, S, G(n + 1), n)
      BY <2>1 DEF OnlyTo
    <2>3. G(n + 1)[n] = G(n)[n]
      BY <2>1, <2>2, OnlyUnique
    <2>4. G(n + 1)[n + 1] = IF s[n + 1] \in S THEN Append(G(n + 1)[n], s[n + 1]) ELSE G(n + 1)[n]
      BY <2>1 DEF OnlyTo
    <2>5. f[n] = G(n)[n] /\ f[n + 1] = G(n + 1)[n + 1] /\ (n + 1) - 1 = n /\ n + 1 # 0
      OBVIOUS
    <2> HIDE DEF f
    <2> QED BY <2>3, <2>4, <2>5
  <1>4. f = [k \in Nat |-> f[k]]
    OBVIOUS
  <1> HIDE DEF f
  <1>5. ASSUME NEW k \in Nat PROVE f[k] = Value(f, k)
    <2>1. CASE k = 0
      BY <1>2, <2>1
    <2>2. CASE k # 0
      <3>1. k - 1 \in Nat /\ (k - 1) + 1 = k
        BY <2>2
      <3> QED BY <1>3, <3>1
    <2> QED BY <2>1, <2>2
  <1>6. IsOnly(f)
    BY <1>4, <1>5
  <1> DEFINE first == CHOOSE h : IsOnly(h)
  <1>7. IsOnly(first)
    BY <1>6
  <1>8. Only(s, S) = first[Len(s)]
    BY DEF Only
  <1> HIDE DEF first
  <1>9. \A k \in Nat : first[k] = Value(first, k)
    BY <1>7
  <1>10. OnlyTo(s, S, first, Len(s))
    <2>1. first[0] = <<>>
      BY <1>9
    <2>2. ASSUME NEW k \in 1 .. Len(s)
          PROVE  first[k] = IF s[k] \in S THEN Append(first[k - 1], s[k]) ELSE first[k - 1]
      <3>1. k \in Nat /\ k # 0
        OBVIOUS
      <3> QED BY <1>9, <3>1
    <2> QED BY <2>1, <2>2 DEF OnlyTo
  <1> QED BY <1>8, <1>10

(* A sequence with one more element, as a set.                             *)
LEMMA AppendRange ==
  ASSUME NEW T, NEW s \in Seq(T), NEW x \in T
  PROVE  Append(s, x) \in Seq(T) /\ Range(Append(s, x)) = Range(s) \cup {x}
  <1> DEFINE q == Append(s, x)
  <1>1. /\ q \in Seq(T) /\ Len(q) = Len(s) + 1 /\ Len(s) \in Nat
        /\ \A i \in 1 .. Len(q) : q[i] = IF i <= Len(s) THEN s[i] ELSE x
    OBVIOUS
  <1> HIDE DEF q
  <1>2. Range(q) = {q[i] : i \in 1 .. Len(q)} /\ Range(s) = {s[i] : i \in 1 .. Len(s)}
    BY <1>1, RangeIs
  <1>3. ASSUME NEW y \in Range(s) PROVE y \in Range(q)
    <2>1. PICK i \in 1 .. Len(s) : y = s[i]
      BY <1>2
    <2>2. i \in 1 .. Len(q) /\ q[i] = s[i]
      BY <1>1
    <2> QED BY <1>2, <2>1, <2>2
  <1>4. x \in Range(q)
    <2>1. Len(q) \in 1 .. Len(q) /\ q[Len(q)] = x
      BY <1>1
    <2> QED BY <1>2, <2>1
  <1>5. Range(q) \subseteq Range(s) \cup {x}
    BY <1>1, <1>2
  <1> QED BY <1>1, <1>3, <1>4, <1>5 DEF q

LEMMA EmptyRange == <<>> \in Seq({}) /\ Range(<<>>) = {} /\ \A T : <<>> \in Seq(T)
  BY DEF Range

(* What it keeps.                                                          *)
LEMMA OnlyIs ==
  ASSUME NEW T, NEW s \in Seq(T), NEW S
  PROVE  Only(s, S) \in Seq(T) /\ Range(Only(s, S)) = Range(s) \cap S
  <1>1. Len(s) \in Nat /\ Range(s) = {s[i] : i \in 1 .. Len(s)}
    BY RangeIs
  <1>2. PICK g : OnlyTo(s, S, g, Len(s)) /\ Only(s, S) = g[Len(s)]
    BY <1>1, OnlyDefined
  <1> DEFINE N == {k \in Nat : k <= Len(s) =>
                     g[k] \in Seq(T) /\ Range(g[k]) = {s[i] : i \in 1 .. k} \cap S}
  <1>3. 0 \in N
    <2>1. g[0] = <<>> /\ <<>> \in Seq(T) /\ Range(<<>>) = {} /\ {s[i] : i \in 1 .. 0} = {}
      BY <1>2, EmptyRange DEF OnlyTo
    <2> QED BY <2>1
  <1>4. ASSUME NEW k \in Nat, k \in N PROVE k + 1 \in N
    <2>1. SUFFICES ASSUME k + 1 <= Len(s)
                   PROVE  g[k + 1] \in Seq(T) /\ Range(g[k + 1]) = {s[i] : i \in 1 .. k + 1} \cap S
      OBVIOUS
    <2>2. /\ g[k] \in Seq(T) /\ Range(g[k]) = {s[i] : i \in 1 .. k} \cap S
          /\ k + 1 \in 1 .. Len(s) /\ (k + 1) - 1 = k /\ s[k + 1] \in T
      BY <1>1, <1>4, <2>1
    <2>3. g[k + 1] = IF s[k + 1] \in S THEN Append(g[k], s[k + 1]) ELSE g[k]
      BY <1>2, <2>2 DEF OnlyTo
    <2>4. {s[i] : i \in 1 .. k + 1} = {s[i] : i \in 1 .. k} \cup {s[k + 1]}
      OBVIOUS
    <2>5. CASE s[k + 1] \in S
      <3>1. g[k + 1] \in Seq(T) /\ Range(g[k + 1]) = Range(g[k]) \cup {s[k + 1]}
        BY <2>2, <2>3, <2>5, AppendRange
      <3> QED BY <2>2, <2>4, <2>5, <3>1
    <2>6. CASE s[k + 1] \notin S
      BY <2>2, <2>3, <2>4, <2>6
    <2> QED BY <2>5, <2>6
  <1> HIDE DEF N
  <1>5. Nat \subseteq N
    BY <1>3, <1>4, SetInduction
  <1>6. Len(s) \in N
    BY <1>1, <1>5
  <1> QED BY <1>1, <1>2, <1>6 DEF N

-----------------------------------------------------------------------------
(* What the node has.  The chain of every block that it knows is known.    *)
Rooted(k) == k \subseteq Block /\ Genesis \in k /\ \A b \in k : Range(ChainOf[b]) \subseteq k

(* Requests name the genesis block or blocks; answers list a part of a     *)
(* chain or blocks.                                                        *)
RequestData(m) ==
  \/ m.type = "chain" /\ Genesis \in m.ids
  \/ m.type = "objects" /\ m.blocks \in Seq(Block)
PeerData(peer) == peer # <<>> => RequestData(peer[1])
MessageData(m) ==
  /\ m.type = "chain" => IsEntry(m.entry.ids)
  /\ m.type = "objects" => m.entry.blocks \in Seq(Block)
  /\ m.type = "new_block" => m.block \in Block
UsData(us) == \A i \in 1 .. Len(us) : MessageData(us[i])

DataInv ==
  /\ Rooted(known) /\ tip \in [Conn -> Block] /\ DOMAIN todo = Conn /\ DOMAIN told = Conn
  /\ \A c \in Conn :
       /\ ctx[c].needed \in Seq(Block) /\ todo[c] \in Seq(Block)
       /\ c \notin busy => todo[c] = <<>>
       /\ PeerData(toPeer[c]) /\ UsData(toUs[c])

(* While a connection synchronizes, and no further entry is to come, each  *)
(* block of the chain that the peer listed is known, asked for, waiting to *)
(* be asked for, or among those that processObjects has still to add.      *)
ChainComes(peer, us) == (peer # <<>> /\ peer[1].type = "chain") \/ ~NoChain(us)
Has(k, x, rest, t) == Range(ChainOf[t]) \subseteq k \cup x.requested \cup Range(x.needed) \cup Range(rest)
HasInv ==
  ~stop => \A c \in Conn : ctx[c].state = "synchronizing" /\ ~ChainComes(toPeer[c], toUs[c])
             => Has(known, ctx[c], todo[c], told[c])

-----------------------------------------------------------------------------
(* The blocks that were needed are known, asked for or still needed.       *)
LEMMA NextRequestIs ==
  ASSUME NEW n, n.ctx.needed \in Seq(Block), NEW check
  PROVE  LET r == NextRequest(n, check)
         IN  /\ r.blocks \in Seq(Block) /\ r.rest \in Seq(Block)
             /\ Range(n.ctx.needed) \subseteq n.known \cup Range(r.blocks) \cup Range(r.rest)
  <1> DEFINE s == n.ctx.needed
             W(b) == ~(check /\ b \in n.known)
             F == {i \in DOMAIN s : Cardinality({j \in 1 .. i - 1 : W(s[j])}) < BlocksPerRequest}
             taken == Cardinality(F)
             first == SubSeq(s, 1, taken)
             blocks == IF check THEN Only(first, Block \ n.known) ELSE first
             rest == SubSeq(s, taken + 1, Len(s))
  <1>1. NextRequest(n, check).blocks = blocks /\ NextRequest(n, check).rest = rest
    BY DEF NextRequest
  <1>2. s \in Seq(Block) /\ Len(s) \in Nat /\ F \subseteq 1 .. Len(s)
    OBVIOUS
  <1> HIDE DEF s, F
  <1>3. taken \in 0 .. Len(s)
    <2>0. 1 \in Int /\ Len(s) \in Int
      BY <1>2
    <2>1. IsFiniteSet(1 .. Len(s)) /\ Cardinality(1 .. Len(s)) = Len(s)
      <3>1. /\ IsFiniteSet(1 .. Len(s))
            /\ Cardinality(1 .. Len(s)) = IF 1 > Len(s) THEN 0 ELSE Len(s) - 1 + 1
        BY <2>0, FS_Interval
      <3> QED BY <1>2, <3>1
    <2>2. IsFiniteSet(F) /\ Cardinality(F) <= Cardinality(1 .. Len(s)) /\ Cardinality(F) \in Nat
      BY <1>2, <2>1, FS_Subset, FS_CardinalityType
    <2> QED BY <1>2, <2>1, <2>2
  <1> HIDE DEF taken
  <1>4. /\ 1 \in 1 .. Len(s) + 1 /\ taken + 1 \in 1 .. Len(s) + 1 /\ Len(s) \in 0 .. Len(s)
        /\ taken \in Nat
    BY <1>2, <1>3
  <1>5. first \in Seq(Block) /\ rest \in Seq(Block)
    BY <1>2, <1>3, <1>4, PartIs
  <1>6. Range(first) = {s[k] : k \in 1 .. taken} /\ Range(rest) = {s[k] : k \in taken + 1 .. Len(s)}
    BY <1>2, <1>3, <1>4, PartRange
  <1>7. Range(s) = {s[k] : k \in 1 .. Len(s)}
    BY <1>2, RangeIs
  <1>8. Range(s) \subseteq Range(first) \cup Range(rest)
    BY <1>2, <1>4, <1>6, <1>7
  <1> HIDE DEF first, rest
  <1>9. Range(first) \subseteq Block
    BY <1>5, RangeIs
  <1>10. /\ Only(first, Block \ n.known) \in Seq(Block)
         /\ Range(Only(first, Block \ n.known)) = Range(first) \cap (Block \ n.known)
    BY <1>5, OnlyIs
  <1>11. blocks \in Seq(Block) /\ Range(first) \subseteq n.known \cup Range(blocks)
    BY <1>5, <1>9, <1>10
  <1> HIDE DEF blocks
  <1> QED BY <1>1, <1>5, <1>8, <1>11 DEF s

(* The records of a node: what is known does not change with the context.  *)
LEMMA KnownIs ==
  ASSUME NEW n, IsNode(n)
  PROVE  /\ \A s : SetState(n, s).known = n.known
         /\ \A m : Send(n, m).known = n.known
         /\ \A blocks, rest : requestObjects(n, blocks, rest).known = n.known
         /\ ToIdle(n).known = n.known
  BY DEF IsNode, SetState, Send, requestObjects, ToIdle

LEMMA RequestContextIs ==
  ASSUME NEW n, IsNode(n), NEW blocks, NEW rest
  PROVE  LET x == requestObjects(n, blocks, rest).ctx
         IN  x.needed = rest /\ x.requested = n.ctx.requested \cup Range(blocks)
  BY DEF IsNode, IsContext, Fields, requestObjects, Send

(* A request for the chain names the genesis block.                        *)
LEMMA SparseChainHasGenesis == ASSUME NEW b PROVE Genesis \in buildSparseChain(b)
  BY DEF buildSparseChain

LEMMA RequestChainIs ==
  ASSUME NEW n, IsNode(n), n.out = <<>>
  PROVE  LET k == requestChain(n)
         IN  /\ IsNode(k) /\ k.ctx = n.ctx /\ k.known = n.known
             /\ k.out # <<>> /\ k.out[1].type = "chain" /\ PeerData(k.out)
  <1> DEFINE m == [type |-> "chain", ids |-> buildSparseChain(n.top)]
  <1>1. requestChain(n) = Send(n, m)
    BY DEF requestChain
  <1>2. RequestData(m) /\ m.type = "chain"
    BY SparseChainHasGenesis DEF RequestData
  <1> HIDE DEF m
  <1>3. IsNode(Send(n, m)) /\ Send(n, m).out = <<m>> /\ Send(n, m).ctx = n.ctx /\ Send(n, m).known = n.known
    BY SendIs, KnownIs
  <1>4. <<m>> # <<>> /\ <<m>>[1] = m
    OBVIOUS
  <1> QED BY <1>1, <1>2, <1>3, <1>4 DEF PeerData

(* A handler leaves k of n, with blocks rest to add and t the last block   *)
(* listed: it is still owed them all, or it waits for an entry, or is done.*)
Owed(k, rest, t) ==
  /\ k.ctx.state = "synchronizing" /\ ~(k.out # <<>> /\ k.out[1].type = "chain")
       => Has(k.known, k.ctx, rest, t)
  /\ k.ctx.state = "normal" => Range(ChainOf[t]) \subseteq k.known
NodeData(k) == Rooted(k.known) /\ k.ctx.needed \in Seq(Block) /\ PeerData(k.out)

LEMMA RequestMissingHas ==
  ASSUME NEW n, IsNode(n), n.out = <<>>, n.ctx.requested = {}, n.ctx.state \notin Apart,
         NodeData(n), NEW t, Has(n.known, n.ctx, <<>>, t), NEW check
  PROVE  LET k == request_missing_objects(n, check)
         IN  NodeData(k) /\ k.known = n.known /\ Owed(k, <<>>, t)
  <1> DEFINE r == request_missing_objects(n, check)
             next == NextRequest(n, check)
             q == requestObjects(n, next.blocks, next.rest)
  <1>1. Range(ChainOf[t]) \subseteq n.known \cup Range(n.ctx.needed)
    BY EmptyRange DEF Has
  <1>2. CASE n.ctx.needed # <<>>
    <2>1. r = q
      BY <1>2 DEF request_missing_objects
    <2>2. /\ next.blocks \in Seq(Block) /\ next.rest \in Seq(Block)
          /\ Range(n.ctx.needed) \subseteq n.known \cup Range(next.blocks) \cup Range(next.rest)
      BY NextRequestIs DEF NodeData
    <2> HIDE DEF next
    <2>3. /\ IsNode(q) /\ q.ctx.state = n.ctx.state /\ q.known = n.known
          /\ q.out = <<[type |-> "objects", blocks |-> next.blocks]>>
          /\ q.ctx.needed = next.rest /\ q.ctx.requested = Range(next.blocks)
      <3>1. /\ IsNode(q) /\ q.ctx.state = n.ctx.state
            /\ q.out = <<[type |-> "objects", blocks |-> next.blocks]>>
        BY RequestObjectsIs
      <3>2. q.known = n.known
        BY KnownIs
      <3>3. q.ctx.needed = next.rest /\ q.ctx.requested = n.ctx.requested \cup Range(next.blocks)
        BY RequestContextIs, ZenonT(40)
      <3> QED BY <3>1, <3>2, <3>3
    <2>4. PeerData(q.out)
      BY <2>2, <2>3 DEF PeerData, RequestData
    <2> HIDE DEF q, r
    <2>5. NodeData(q)
      BY <2>2, <2>3, <2>4 DEF NodeData
    <2>6. Has(q.known, q.ctx, <<>>, t)
      BY <1>1, <2>2, <2>3 DEF Has
    <2>7. q.ctx.state # "normal"
      BY <2>3 DEF Apart
    <2> QED BY <2>1, <2>3, <2>5, <2>6, <2>7 DEF Owed, r
  <1>3. CASE n.ctx.needed = <<>> /\ n.ctx.last < n.ctx.remote - 1
    <2>1. r = requestChain(n)
      BY <1>3 DEF request_missing_objects
    <2>2. /\ IsNode(r) /\ r.ctx = n.ctx /\ r.known = n.known
          /\ r.out # <<>> /\ r.out[1].type = "chain" /\ PeerData(r.out)
      BY <2>1, RequestChainIs
    <2> HIDE DEF r
    <2> QED BY <2>2 DEF Owed, NodeData, r, Apart
  <1>4. CASE n.ctx.needed = <<>> /\ ~(n.ctx.last < n.ctx.remote - 1) /\ n.ctx.last = n.ctx.remote - 1
    <2>1. r = SetState(n, "normal")
      BY <1>4 DEF request_missing_objects
    <2>2. /\ r.known = n.known /\ r.ctx.needed = n.ctx.needed /\ r.out = n.out
          /\ r.ctx.state = "normal"
      <3>1. SetState(n, "normal").known = n.known
        BY KnownIs
      <3>2. /\ SetState(n, "normal").out = n.out /\ SetState(n, "normal").ctx.state = "normal"
            /\ SetState(n, "normal").ctx.needed = n.ctx.needed
        BY SetStateIs, StateNames
      <3> QED BY <2>1, <3>1, <3>2
    <2>3. Range(ChainOf[t]) \subseteq n.known
      BY <1>1, <1>4, EmptyRange
    <2> HIDE DEF r
    <2> QED BY <2>2, <2>3 DEF Owed, NodeData, r
  <1>5. CASE n.ctx.needed = <<>> /\ ~(n.ctx.last < n.ctx.remote - 1) /\ n.ctx.last # n.ctx.remote - 1
    <2>1. r = n
      BY <1>5 DEF request_missing_objects
    <2> QED BY <2>1 DEF Owed, Apart
  <1> QED BY <1>2, <1>3, <1>4, <1>5

(* A handler that gives up or goes idle is owed nothing.                   *)
LEMMA LeavesNothingOwed ==
  ASSUME NEW k, k.ctx.state \in {"shutdown", "idle"}, NEW rest, NEW t
  PROVE  Owed(k, rest, t)
  BY DEF Owed

(* A block that is added has its chain.                                    *)
LEMMA AddBlockHas ==
  ASSUME NEW n, IsNode(n), Rooted(n.known), NEW b \in Block
  PROVE  LET k == AddBlock(n, b)
         IN  /\ Rooted(k.known) /\ n.known \subseteq k.known
             /\ Verdict(n, b) = "added" => k.known = n.known \cup {b}
  <1> DEFINE k == AddBlock(n, b)
  <1>1. CASE Verdict(n, b) # "added"
    BY <1>1 DEF AddBlock
  <1>2. CASE Verdict(n, b) = "added"
    <2>1. k.known = n.known \cup {b}
      BY <1>2 DEF AddBlock, IsNode
    <2>2. b \notin n.known /\ Parent[b] \in n.known
      BY <1>2 DEF Verdict
    <2>3. b # Genesis
      BY <2>2 DEF Rooted
    <2>4. Range(ChainOf[b]) = Range(ChainOf[Parent[b]]) \cup {b}
      BY <2>3, ChainOfChild
    <2> HIDE DEF k
    <2>5. Rooted(k.known)
      BY <2>1, <2>2, <2>4 DEF Rooted
    <2> QED BY <2>1, <2>5 DEF k
  <1> QED BY <1>1, <1>2

(* Sync data: a synchronization that begins waits for a chain entry.       *)
LEMMA StartSyncHas ==
  ASSUME NEW n, IsNode(n), n.out = <<>>
  PROVE  LET k == start_sync(n)
         IN  /\ IsNode(k) /\ k.known = n.known /\ k.ctx.needed = n.ctx.needed
             /\ k.out # <<>> /\ k.out[1].type = "chain" /\ PeerData(k.out)
  <1> DEFINE s == SetState(n, "synchronizing")
  <1>1. IsNode(s) /\ s.out = <<>> /\ s.ctx.needed = n.ctx.needed
    BY SetStateIs, StateNames
  <1>2. s.known = n.known
    BY KnownIs
  <1>3. start_sync(n) = requestChain(s)
    BY DEF start_sync
  <1> HIDE DEF s
  <1> QED BY <1>1, <1>2, <1>3, RequestChainIs

LEMMA NothingSent == PeerData(<<>>)
  BY DEF PeerData

LEMMA SyncDataHas ==
  ASSUME NEW n, IsNode(n), n.out = <<>>, NodeData(n), NEW m
  PROVE  LET k == process_payload_sync_data(n, m)
         IN  /\ NodeData(k) /\ k.known = n.known
             /\ n.ctx.state # "synchronizing" /\ k.ctx.state = "synchronizing"
                  => k.out # <<>> /\ k.out[1].type = "chain"
  <1> DEFINE moved == IF n.ctx.state = "synchronizing" THEN n
                      ELSE IF m.top \in n.known THEN SetState(n, "normal")
                      ELSE start_sync(n)
             k == [moved EXCEPT !.ctx.remote = m.height]
             Good(q) == /\ IsNode(q) /\ NodeData(q) /\ q.known = n.known
                        /\ n.ctx.state # "synchronizing" /\ q.ctx.state = "synchronizing"
                             => q.out # <<>> /\ q.out[1].type = "chain"
  <1>1. process_payload_sync_data(n, m) = k
    BY DEF process_payload_sync_data
  <1>2. moved \in {SetState(n, "normal"), start_sync(n)} \/ (n.ctx.state = "synchronizing" /\ moved = n)
    OBVIOUS
  <1>3. Good(SetState(n, "normal"))
    <2>1. SetState(n, "normal").known = n.known
      BY KnownIs
    <2>2. /\ IsNode(SetState(n, "normal")) /\ SetState(n, "normal").out = n.out
          /\ SetState(n, "normal").ctx.state = "normal"
          /\ SetState(n, "normal").ctx.needed = n.ctx.needed
      BY SetStateIs, StateNames
    <2> QED BY <2>1, <2>2 DEF NodeData
  <1>4. Good(start_sync(n))
    BY StartSyncHas DEF NodeData
  <1>5. n.ctx.state = "synchronizing" => Good(n)
    OBVIOUS
  <1>6. Good(moved)
    <2> HIDE DEF moved, Good
    <2> QED BY <1>2, <1>3, <1>4, <1>5
  <1> HIDE DEF moved
  <1>7. /\ IsNode(k) /\ k.out = moved.out /\ k.ctx.state = moved.ctx.state
        /\ k.ctx.needed = moved.ctx.needed /\ k.known = moved.known
    BY <1>6, RemoteIs
  <1> HIDE DEF k
  <1> QED BY <1>1, <1>6, <1>7 DEF NodeData

(* The notice of a block.                                                  *)
LEMMA NewBlockHas ==
  ASSUME NEW n, IsNode(n), n.out = <<>>, NodeData(n), NEW m, m.block \in Block
  PROVE  LET k == handle_notify_new_block(n, m)
         IN  /\ NodeData(k) /\ n.known \subseteq k.known
             /\ n.ctx.state = "normal" /\ k.ctx.state = "synchronizing"
                  => k.out # <<>> /\ k.out[1].type = "chain"
  <1> DEFINE seen == [n EXCEPT !.ctx.remote = m.height]
             k == handle_notify_new_block(n, m)
             Good(q) == /\ NodeData(q) /\ n.known \subseteq q.known
                        /\ n.ctx.state = "normal" /\ q.ctx.state = "synchronizing"
                             => q.out # <<>> /\ q.out[1].type = "chain"
  <1>1. /\ IsNode(seen) /\ seen.out = <<>> /\ seen.ctx.state = n.ctx.state
        /\ seen.ctx.needed = n.ctx.needed /\ seen.known = n.known
    BY RemoteIs
  <1>2. k = seen \/ k = SetState(seen, "shutdown") \/ k = start_sync(seen) \/ k = AddBlock(seen, m.block)
    BY DEF handle_notify_new_block
  <1> HIDE DEF seen, k
  <1>3. NodeData(seen)
    BY <1>1 DEF NodeData
  <1>4. Good(seen)
    BY <1>1, <1>3
  <1>5. Good(SetState(seen, "shutdown"))
    <2>1. SetState(seen, "shutdown").known = seen.known
      BY <1>1, KnownIs
    <2>2. /\ SetState(seen, "shutdown").out = seen.out
          /\ SetState(seen, "shutdown").ctx.state = "shutdown"
          /\ SetState(seen, "shutdown").ctx.needed = seen.ctx.needed
      BY <1>1, SetStateIs, StateNames
    <2> QED BY <1>1, <1>3, <2>1, <2>2 DEF NodeData
  <1>6. Good(start_sync(seen))
    BY <1>1, <1>3, StartSyncHas DEF NodeData
  <1>7. Good(AddBlock(seen, m.block))
    <2> DEFINE a == AddBlock(seen, m.block)
    <2>1. a.out = <<>> /\ a.ctx = seen.ctx
      BY <1>1, AddBlockIs
    <2>2. Rooted(a.known) /\ seen.known \subseteq a.known
      BY <1>1, <1>3, AddBlockHas DEF NodeData
    <2> HIDE DEF a
    <2>3. Good(a)
      BY <1>1, <1>3, <2>1, <2>2 DEF NodeData
    <2> QED BY <2>3 DEF a
  <1>8. Good(k)
    <2> HIDE DEF Good
    <2> QED BY <1>2, <1>4, <1>5, <1>6, <1>7
  <1> QED BY <1>8 DEF k

(* A chain entry.                                                          *)
LEMMA ChainHas ==
  ASSUME NEW n, IsNode(n), n.out = <<>>, NodeData(n), Resting(n.ctx), n.ctx.state = "synchronizing",
         NEW m, IsEntry(m.ids)
  PROVE  LET k == handle_response_chain_entry(n, m)
         IN  NodeData(k) /\ k.known = n.known /\ Owed(k, <<>>, Last(m.ids))
  <1> DEFINE last == m.start + Len(m.ids) - 1
             more == Unknown(n, m.ids)
             noted == [n EXCEPT !.ctx.remote = m.total, !.ctx.last = last,
                                !.ctx.state = IF last > m.total THEN "shutdown" ELSE @,
                                !.ctx.needed = @ \o Unknown(n, m.ids)]
             k == handle_response_chain_entry(n, m)
             t == Last(m.ids)
  <1>1. /\ m.ids \in Seq(Block) /\ m.ids # <<>> /\ t \in Block /\ Head(m.ids) \in Block
        /\ Range(ChainOf[t]) \subseteq Range(ChainOf[Head(m.ids)]) \cup Range(m.ids)
    BY EntryFacts
  <1>2. CASE Head(m.ids) \notin n.known
    <2> DEFINE q == SetState(n, "shutdown")
    <2>1. k = q
      BY <1>2 DEF handle_response_chain_entry
    <2>2. q.known = n.known
      BY KnownIs
    <2>3. q.out = n.out /\ q.ctx.state = "shutdown" /\ q.ctx.needed = n.ctx.needed
      BY SetStateIs, StateNames
    <2> HIDE DEF q
    <2>4. NodeData(q) /\ Owed(q, <<>>, t)
      BY <2>2, <2>3, LeavesNothingOwed DEF NodeData
    <2> HIDE DEF k, t
    <2>5. NodeData(k) /\ k.known = n.known /\ Owed(k, <<>>, t)
      BY <2>1, <2>2, <2>4
    <2> QED BY <2>5 DEF k, t
  <1>3. CASE Head(m.ids) \in n.known
    <2>1. k = request_missing_objects(noted, FALSE)
      BY <1>1, <1>3 DEF handle_response_chain_entry
    <2>2. more \in Seq(Block) /\ Range(more) = Range(m.ids) \cap (Block \ n.known)
      BY <1>1, OnlyIs DEF Unknown
    <2>3. <<>> \o more = more
      BY <2>2
    <2>4. /\ IsNode(noted) /\ noted.out = <<>> /\ noted.ctx.requested = {} /\ noted.known = n.known
          /\ noted.ctx.state \in {"shutdown", "synchronizing"} /\ noted.ctx.needed = n.ctx.needed \o more
      BY StateNames DEF IsNode, IsContext, Fields, Resting
    <2> HIDE DEF noted, more
    <2>5. noted.ctx.needed = more
      BY <2>3, <2>4 DEF Resting
    <2>6. Range(m.ids) \subseteq Block
      BY <1>1, RangeIs
    <2>7. Range(ChainOf[t]) \subseteq n.known \cup Range(more)
      <3>1. Range(ChainOf[Head(m.ids)]) \subseteq n.known
        BY <1>3 DEF NodeData, Rooted
      <3> QED BY <1>1, <2>2, <2>6, <3>1
    <2> HIDE DEF t
    <2>8. Has(noted.known, noted.ctx, <<>>, t)
      BY <2>4, <2>5, <2>7 DEF Has
    <2>9. NodeData(noted)
      BY <2>2, <2>4, <2>5 DEF NodeData, PeerData
    <2>10. noted.ctx.state \notin Apart
      BY <2>4 DEF Apart
    <2> HIDE DEF k
    <2>11. NodeData(k) /\ k.known = noted.known /\ Owed(k, <<>>, t)
      BY <2>1, <2>4, <2>8, <2>9, <2>10, RequestMissingHas
    <2> QED BY <2>4, <2>11 DEF t, k
  <1> QED BY <1>2, <1>3

(* The checks of a response with blocks: those that pass are what was      *)
(* asked for.                                                              *)
LEMMA CheckObjectsHas ==
  ASSUME NEW n, IsNode(n), n.out = <<>>, NodeData(n), n.ctx.state = "synchronizing", NEW m
  PROVE  LET k == checkObjects(n, m)
         IN  /\ NodeData(k) /\ k.known = n.known
             /\ k.ctx.state \notin {"shutdown", "idle"}
                  => k.ctx.needed = n.ctx.needed /\ Range(m.blocks) = n.ctx.requested
  <1> DEFINE seen == [n EXCEPT !.ctx.remote = m.height]
             clear == [seen EXCEPT !.ctx.requested = {}]
             k == checkObjects(n, m)
  <1>1. /\ IsNode(seen) /\ seen.out = <<>> /\ seen.ctx.state = "synchronizing"
        /\ seen.ctx.needed = n.ctx.needed /\ seen.known = n.known
    BY RemoteIs
  <1>2. \/ k = SetState(n, "shutdown") \/ k = ToIdle(seen) \/ k = SetState(seen, "shutdown")
        \/ k = clear /\ Range(m.blocks) = n.ctx.requested
    BY DEF checkObjects
  <1> HIDE DEF seen, k
  <1>3. NodeData(seen)
    BY <1>1 DEF NodeData
  <1>4. ASSUME NEW q, IsNode(q), NodeData(q), q.known = n.known, k = SetState(q, "shutdown")
        PROVE  NodeData(k) /\ k.known = n.known /\ k.ctx.state = "shutdown"
    <2>1. SetState(q, "shutdown").known = q.known
      BY <1>4, KnownIs
    <2>2. /\ SetState(q, "shutdown").out = q.out /\ SetState(q, "shutdown").ctx.state = "shutdown"
          /\ SetState(q, "shutdown").ctx.needed = q.ctx.needed
      BY <1>4, SetStateIs, StateNames
    <2> QED BY <1>4, <2>1, <2>2 DEF NodeData
  <1>5. CASE k = SetState(n, "shutdown") \/ k = SetState(seen, "shutdown")
    BY <1>1, <1>3, <1>4, <1>5 DEF k
  <1>6. CASE k = ToIdle(seen)
    <2> DEFINE q == ToIdle(seen)
    <2>1. q.known = n.known
      BY <1>1, KnownIs
    <2>2. q.out = <<>> /\ q.ctx.state = "idle" /\ q.ctx.needed = <<>>
      BY <1>1, ToIdleIs DEF Resting
    <2> HIDE DEF q
    <2>3. NodeData(q)
      BY <2>1, <2>2, NothingSent, EmptyRange DEF NodeData
    <2> QED BY <1>6, <2>1, <2>2, <2>3 DEF q, k
  <1>7. CASE k = clear /\ Range(m.blocks) = n.ctx.requested
    <2>1. clear.out = <<>> /\ clear.ctx.needed = n.ctx.needed /\ clear.known = n.known
      BY <1>1 DEF IsNode, IsContext, Fields
    <2> HIDE DEF clear
    <2>2. NodeData(clear)
      BY <2>1, NothingSent DEF NodeData
    <2> QED BY <1>7, <2>1, <2>2 DEF k
  <1> QED BY <1>2, <1>5, <1>6, <1>7

(* One block of the response.                                              *)
LEMMA ProcessObjectHas ==
  ASSUME NEW n, IsNode(n), n.out = <<>>, NodeData(n), NEW b \in Block
  PROVE  LET k == processObject(n, b)
         IN  /\ NodeData(k) /\ n.known \subseteq k.known
             /\ Verdict(n, b) = "added" => k.known = n.known \cup {b}
             /\ Verdict(n, b) # "added" => k.ctx.state \in {"shutdown", "idle"}
  <1> DEFINE k == processObject(n, b)
  <1>1. CASE Verdict(n, b) \in {"failed", "orphaned"}
    <2>1. k = SetState(n, "shutdown") /\ Verdict(n, b) # "added"
      BY <1>1 DEF processObject
    <2>2. SetState(n, "shutdown").known = n.known
      BY KnownIs
    <2>3. /\ SetState(n, "shutdown").out = n.out /\ SetState(n, "shutdown").ctx.state = "shutdown"
          /\ SetState(n, "shutdown").ctx.needed = n.ctx.needed
      BY SetStateIs, StateNames
    <2> QED BY <2>1, <2>2, <2>3 DEF NodeData
  <1>2. CASE Verdict(n, b) = "already_exists"
    <2>1. k = ToIdle(n) /\ Verdict(n, b) # "added"
      BY <1>2 DEF processObject
    <2>2. k.known = n.known
      BY <2>1, KnownIs
    <2>3. k.out = <<>> /\ k.ctx.state = "idle" /\ k.ctx.needed = <<>>
      BY <2>1, ToIdleIs DEF Resting
    <2> HIDE DEF k
    <2> QED BY <2>1, <2>2, <2>3, NothingSent, EmptyRange DEF NodeData, k
  <1>3. CASE Verdict(n, b) = "added"
    <2>1. k = AddBlock(n, b)
      BY <1>3 DEF processObject
    <2>2. k.out = <<>> /\ k.ctx = n.ctx
      BY <2>1, AddBlockIs
    <2>3. Rooted(k.known) /\ k.known = n.known \cup {b}
      BY <1>3, <2>1, AddBlockHas DEF NodeData
    <2> HIDE DEF k
    <2> QED BY <1>3, <2>2, <2>3 DEF NodeData, k
  <1>4. Verdict(n, b) \in {"failed", "orphaned", "already_exists", "added"}
    BY DEF Verdict
  <1> QED BY <1>1, <1>2, <1>3, <1>4

-----------------------------------------------------------------------------
(* The steps.  A connection that reports SYNCHRONIZED OK has the chain.    *)
Report(c) ==
  ctx[c].state = "synchronizing" /\ ctx'[c].state = "normal"
    => Range(ChainOf[told'[c]]) \subseteq known'
Keeps == DataInv' /\ HasInv' /\ \A c \in Conn : Report(c)

(* What is known grows, and the context of connection c decides.           *)
LEMMA HandlerHas ==
  ASSUME ShapeInv, DataInv, HasInv, ~stop, UNCHANGED <<stop, tip>>, NEW c \in Conn, NEW n, NEW blocks,
         NEW waits \in BOOLEAN, Commit(c, n, blocks, waits), NEW us, Becomes(c, us),
         DOMAIN told' = Conn, \A d \in Conn \ {c} : told'[d] = told[d],
         NodeData(n), known \subseteq n.known, blocks \in Seq(Block), ~waits => blocks = <<>>,
         UsData(us), PeerData(toPeer'[c]),
         n.ctx.state = "synchronizing" /\ ~ChainComes(toPeer'[c], us)
           => Has(n.known, n.ctx, blocks, told'[c]),
         ctx[c].state = "synchronizing" /\ n.ctx.state = "normal"
           => Range(ChainOf[told'[c]]) \subseteq n.known
  PROVE  Keeps
  <1>1. /\ Others(c) /\ ctx'[c] = n.ctx /\ toPeer'[c] = toPeer[c] \o n.out /\ toUs'[c] = us
        /\ c \in busy' <=> waits
    BY DEF ShapeInv, Commit, Others, Becomes
  <1>2. /\ known' = n.known /\ DOMAIN todo' = Conn /\ todo'[c] = blocks
        /\ \A d \in Conn \ {c} : todo'[d] = todo[d]
    BY DEF Commit, DataInv
  <1>3. \A d \in Conn \ {c} : /\ ctx'[d] = ctx[d] /\ toPeer'[d] = toPeer[d] /\ toUs'[d] = toUs[d]
                              /\ d \in busy' <=> d \in busy
    BY <1>1 DEF Others
  <1>4. DataInv'
    <2>1. Rooted(known') /\ tip' \in [Conn -> Block]
      BY <1>2 DEF NodeData, DataInv
    <2>2. ASSUME NEW d \in Conn
          PROVE  /\ ctx'[d].needed \in Seq(Block) /\ todo'[d] \in Seq(Block)
                 /\ d \notin busy' => todo'[d] = <<>>
                 /\ PeerData(toPeer'[d]) /\ UsData(toUs'[d])
      <3>1. CASE d = c
        BY <1>1, <1>2, <3>1 DEF NodeData
      <3>2. CASE d # c
        BY <1>2, <1>3, <3>2 DEF DataInv
      <3> QED BY <3>1, <3>2
    <2> QED BY <1>2, <2>1, <2>2 DEF DataInv
  <1>5. HasInv'
    <2>1. SUFFICES ASSUME NEW d \in Conn, ctx'[d].state = "synchronizing",
                          ~ChainComes(toPeer'[d], toUs'[d])
                   PROVE  Has(known', ctx'[d], todo'[d], told'[d])
      BY DEF HasInv
    <2>2. CASE d = c
      BY <1>1, <1>2, <2>1, <2>2
    <2>3. CASE d # c
      <3>1. Has(known, ctx[d], todo[d], told[d])
        BY <1>3, <2>1, <2>3 DEF HasInv
      <3>2. /\ ctx'[d] = ctx[d] /\ todo'[d] = todo[d] /\ told'[d] = told[d] /\ known \subseteq known'
        BY <1>2, <1>3, <2>3
      <3> QED BY <3>1, <3>2 DEF Has
    <2> QED BY <2>2, <2>3
  <1>6. ASSUME NEW d \in Conn PROVE Report(d)
    <2>1. CASE d = c
      BY <1>1, <1>2, <2>1 DEF Report
    <2>2. CASE d # c
      BY <1>3, <2>2 DEF Report
    <2> QED BY <2>1, <2>2
  <1> QED BY <1>4, <1>5, <1>6 DEF Keeps

(* A handler that ends or yields when nothing else is under way.           *)
LEMMA EndHas ==
  ASSUME ShapeInv, DataInv, HasInv, ~stop, UNCHANGED <<stop, tip>>, NEW c \in Conn, NEW n, NEW blocks,
         NEW waits \in BOOLEAN, Commit(c, n, blocks, waits), NEW us, Becomes(c, us),
         DOMAIN told' = Conn, \A d \in Conn \ {c} : told'[d] = told[d],
         NodeData(n), known \subseteq n.known, blocks \in Seq(Block), ~waits => blocks = <<>>,
         UsData(us), toPeer[c] = <<>>, NoAnswer(us), AtMostOne(n.out),
         Owed(n, blocks, told'[c])
  PROVE  Keeps
  <1>1. toPeer'[c] = toPeer[c] \o n.out
    BY DEF ShapeInv, Commit
  <1>2. toPeer'[c] = n.out
    BY <1>1, NoAnswerIs, SendOne
  <1>3. PeerData(toPeer'[c])
    BY <1>2 DEF NodeData
  <1>4. n.ctx.state = "synchronizing" /\ ~ChainComes(toPeer'[c], us)
          => Has(n.known, n.ctx, blocks, told'[c])
    BY <1>2 DEF ChainComes, Owed
  <1>5. n.ctx.state = "normal" => Range(ChainOf[told'[c]]) \subseteq n.known
    BY DEF Owed
  <1> QED BY <1>3, <1>4, <1>5, HandlerHas

(* A handler that leaves alone what the connection waits for, or begins to *)
(* wait for a chain entry.                                                 *)
LEMMA PassHas ==
  ASSUME ShapeInv, DataInv, HasInv, ~stop, UNCHANGED <<stop, tip>>, NEW c \in Conn, c \notin busy, NEW n,
         Commit(c, n, <<>>, FALSE), NEW us, Becomes(c, us), told' = told,
         NodeData(n), known \subseteq n.known, UsData(us),
         Passes(Node(c), n), NoChain(us) <=> NoChain(toUs[c])
  PROVE  Keeps
  <1>1. toPeer'[c] = toPeer[c] \o n.out
    BY CommitIs
  <1>2. /\ n.out = <<>> /\ AtMostOne(n.out) /\ AtMostOne(toPeer[c])
        /\ n.ctx.state = ctx[c].state /\ n.ctx.needed = ctx[c].needed
        /\ n.ctx.requested = ctx[c].requested
    BY NodeRecord, NoAnswerIs DEF Passes, ShapeInv
  <1>3. toPeer'[c] = toPeer[c]
    BY <1>1, <1>2, SendOne
  <1>4. PeerData(toPeer'[c]) /\ todo[c] = <<>>
    BY <1>3 DEF DataInv
  <1>5. ASSUME n.ctx.state = "synchronizing", ~ChainComes(toPeer'[c], us)
        PROVE  Has(n.known, n.ctx, <<>>, told'[c])
    <2>1. ~ChainComes(toPeer[c], toUs[c])
      BY <1>3, <1>5 DEF ChainComes
    <2>2. Has(known, ctx[c], todo[c], told[c])
      BY <1>2, <1>5, <2>1 DEF HasInv
    <2> QED BY <1>2, <1>4, <2>2 DEF Has
  <1>6. ~(ctx[c].state = "synchronizing" /\ n.ctx.state = "normal")
    BY <1>2
  <1>7. DOMAIN told' = Conn /\ \A d \in Conn \ {c} : told'[d] = told[d]
    BY DEF DataInv
  <1> QED BY <1>4, <1>5, <1>6, <1>7, EmptyRange, HandlerHas

(* The node at the beginning of a handler, and the first message.          *)
LEMMA ReadyHas ==
  ASSUME ShapeInv, WaitInv, DataInv, NEW c \in Conn, Ready(c), Take(c)
  PROVE  /\ ~stop /\ UNCHANGED <<stop, tip>> /\ c \notin busy /\ todo[c] = <<>>
         /\ NodeData(Node(c)) /\ Node(c).known = known
         /\ MessageData(Head(toUs[c])) /\ UsData(Tail(toUs[c]))
         /\ Head(toUs[c]).type # "chain" => (NoChain(Tail(toUs[c])) <=> NoChain(toUs[c]))
  <1>1. toUs[c] # <<>> /\ IsSequence(toUs[c])
    BY DEF Ready, ShapeInv
  <1> DEFINE s == toUs[c]
             t == Tail(toUs[c])
  <1>2. /\ Head(s) = s[1] /\ 1 \in 1 .. Len(s)
        /\ \A i \in 1 .. Len(t) : i + 1 \in 1 .. Len(s) /\ t[i] = s[i + 1] /\ i + 1 # 1
    BY <1>1, TailIs
  <1>3. UsData(s)
    BY DEF DataInv
  <1>4. ~stop /\ UNCHANGED <<stop, tip>> /\ c \notin busy /\ todo[c] = <<>>
    BY DEF Ready, Take, DataInv
  <1>5. NodeData(Node(c)) /\ Node(c).known = known
    BY NothingSent DEF Node, NodeData, DataInv
  <1>6. Len(t) = Len(s) - 1 /\ Len(s) \in Nat
    <2> DEFINE S == Range(s)
    <2>1. s \in Seq(S) /\ s # <<>>
      BY <1>1 DEF IsSequence
    <2> HIDE DEF S, s
    <2>2. Len(Tail(s)) = Len(s) - 1 /\ Len(s) \in Nat
      BY <2>1
    <2> QED BY <2>2 DEF s
  <1> HIDE DEF s, t
  <1>7. MessageData(Head(s)) /\ UsData(t)
    BY <1>2, <1>3 DEF UsData
  <1>8. Head(s).type # "chain" => (NoChain(t) <=> NoChain(s))
    <2>1. NoChain(s) => NoChain(t)
      BY <1>2 DEF NoChain
    <2>2. ASSUME NoChain(t), s[1].type # "chain" PROVE NoChain(s)
      <3>1. SUFFICES ASSUME NEW i \in 1 .. Len(s) PROVE s[i].type # "chain"
        BY DEF NoChain
      <3>2. CASE i = 1
        BY <2>2, <3>2
      <3>3. CASE i # 1
        <4>1. i - 1 \in 1 .. Len(t) /\ (i - 1) + 1 = i
          BY <1>6, <3>3
        <4>2. t[i - 1] = s[i]
          BY <1>2, <4>1
        <4> QED BY <2>2, <4>1, <4>2 DEF NoChain
      <3> QED BY <3>2, <3>3
    <2> QED BY <1>2, <2>1, <2>2
  <1> QED BY <1>4, <1>5, <1>7, <1>8 DEF s, t

LEMMA ReceiveSyncDataHas ==
  ASSUME ShapeInv, WaitInv, DataInv, HasInv, NEW c \in Conn, ReceiveSyncData(c)
  PROVE  Keeps
  <1> DEFINE m == Head(toUs[c])
             us == Tail(toUs[c])
             sync == process_payload_sync_data(Node(c), m.data)
             n == IF m.type = "handshake" THEN sync ELSE handle_timed_sync(Node(c), m.data)
  <1>1. Ready(c) /\ Take(c) /\ Commit(c, n, <<>>, FALSE) /\ told' = told /\ m.type # "chain"
    BY DEF ReceiveSyncData
  <1>2. n = sync \/ n = Node(c)
    BY DEF handle_timed_sync
  <1>3. /\ ctx[c].state = "synchronizing" => Passes(Node(c), sync)
        /\ ctx[c].state # "synchronizing" => Sound(sync)
    BY <1>1, ReadyIs, SyncDataSound
  <1>4. Passes(Node(c), Node(c))
    BY <1>1, ReadyIs DEF Passes
  <1>5. /\ NodeData(sync) /\ sync.known = known
        /\ ctx[c].state # "synchronizing" /\ sync.ctx.state = "synchronizing"
             => sync.out # <<>> /\ sync.out[1].type = "chain"
    BY <1>1, ReadyIs, ReadyHas, SyncDataHas
  <1>6. NodeData(Node(c)) /\ Node(c).known = known
    BY <1>1, ReadyHas
  <1> HIDE DEF n, sync, us, m
  <1>7. /\ Becomes(c, us) /\ UsData(us) /\ (NoChain(us) <=> NoChain(toUs[c]))
        /\ ~stop /\ UNCHANGED <<stop, tip>> /\ c \notin busy
    BY <1>1, ReadyIs, ReadyHas DEF us, m
  <1>8. NodeData(n) /\ known \subseteq n.known
    BY <1>2, <1>5, <1>6
  <1>9. CASE Passes(Node(c), n)
    BY <1>1, <1>7, <1>8, <1>9, PassHas
  <1>10. CASE ctx[c].state # "synchronizing" /\ n = sync
    <2>1. toPeer[c] = <<>> /\ AtMostOne(n.out)
      BY <1>1, <1>3, <1>10, ReadyIs DEF Sound
    <2>2. toPeer'[c] = toPeer[c] \o n.out
      BY <1>1, <1>7, CommitIs
    <2>3. toPeer'[c] = n.out
      BY <2>1, <2>2, NoAnswerIs, SendOne
    <2>4. PeerData(toPeer'[c])
      BY <1>8, <2>3 DEF NodeData
    <2>5. ~(n.ctx.state = "synchronizing" /\ ~ChainComes(toPeer'[c], us))
      BY <1>5, <1>10, <2>3 DEF ChainComes
    <2>6. DOMAIN told' = Conn /\ \A d \in Conn \ {c} : told'[d] = told[d]
      BY <1>1 DEF DataInv
    <2> QED BY <1>1, <1>7, <1>8, <1>10, <2>4, <2>5, <2>6, EmptyRange, HandlerHas
  <1> QED BY <1>2, <1>3, <1>4, <1>9, <1>10

LEMMA ReceiveNewBlockHas ==
  ASSUME ShapeInv, WaitInv, DataInv, HasInv, NEW c \in Conn, ReceiveNewBlock(c)
  PROVE  Keeps
  <1> DEFINE m == Head(toUs[c])
             us == Tail(toUs[c])
             n == handle_notify_new_block(Node(c), m)
  <1>1. Ready(c) /\ Take(c) /\ Commit(c, n, <<>>, FALSE) /\ told' = told /\ m.type = "new_block"
    BY DEF ReceiveNewBlock
  <1>2. m.block \in Block
    BY <1>1, ReadyHas DEF MessageData
  <1>3. /\ ctx[c].state # "normal" => Passes(Node(c), n)
        /\ ctx[c].state = "normal" => Sound(n)
    BY <1>1, ReadyIs, NewBlockSound
  <1>4. /\ NodeData(n) /\ known \subseteq n.known
        /\ ctx[c].state = "normal" /\ n.ctx.state = "synchronizing"
             => n.out # <<>> /\ n.out[1].type = "chain"
    BY <1>1, <1>2, ReadyIs, ReadyHas, NewBlockHas
  <1> HIDE DEF n, us, m
  <1>5. /\ Becomes(c, us) /\ UsData(us) /\ (NoChain(us) <=> NoChain(toUs[c]))
        /\ ~stop /\ UNCHANGED <<stop, tip>> /\ c \notin busy
    BY <1>1, ReadyIs, ReadyHas DEF us, m
  <1>6. CASE ctx[c].state # "normal"
    BY <1>1, <1>3, <1>4, <1>5, <1>6, PassHas
  <1>7. CASE ctx[c].state = "normal"
    <2>1. toPeer[c] = <<>> /\ AtMostOne(n.out)
      BY <1>1, <1>3, <1>7, ReadyIs DEF Sound
    <2>2. toPeer'[c] = toPeer[c] \o n.out
      BY <1>1, <1>5, CommitIs
    <2>3. toPeer'[c] = n.out
      BY <2>1, <2>2, NoAnswerIs, SendOne
    <2>4. PeerData(toPeer'[c])
      BY <1>4, <2>3 DEF NodeData
    <2>5. ~(n.ctx.state = "synchronizing" /\ ~ChainComes(toPeer'[c], us))
      BY <1>4, <1>7, <2>3 DEF ChainComes
    <2>6. DOMAIN told' = Conn /\ \A d \in Conn \ {c} : told'[d] = told[d]
      BY <1>1 DEF DataInv
    <2> QED BY <1>1, <1>4, <1>5, <1>7, <2>4, <2>5, <2>6, EmptyRange, HandlerHas
  <1> QED BY <1>6, <1>7

LEMMA ReceiveChainHas ==
  ASSUME ShapeInv, WaitInv, DataInv, HasInv, NEW c \in Conn, ReceiveChain(c)
  PROVE  Keeps
  <1> DEFINE m == Head(toUs[c])
             us == Tail(toUs[c])
             n == handle_response_chain_entry(Node(c), m.entry)
  <1>1. /\ Ready(c) /\ Take(c) /\ Commit(c, n, <<>>, FALSE) /\ m.type = "chain"
        /\ told' = [told EXCEPT ![c] = Last(m.entry.ids)]
    BY DEF ReceiveChain
  <1>2. NoAnswer(us) /\ toPeer[c] = <<>> /\ ctx[c].state = "synchronizing" /\ Resting(ctx[c])
    BY <1>1, AnswerIs DEF IsAnswer
  <1>3. IsEntry(m.entry.ids)
    BY <1>1, ReadyHas DEF MessageData
  <1>4. Sound(n)
    BY <1>1, <1>2, ReadyIs, ChainSound DEF Resting, Apart
  <1>5. NodeData(n) /\ n.known = known /\ Owed(n, <<>>, Last(m.entry.ids))
    BY <1>1, <1>2, <1>3, ReadyIs, ReadyHas, ChainHas
  <1>6. told'[c] = Last(m.entry.ids) /\ DOMAIN told' = Conn /\ \A d \in Conn \ {c} : told'[d] = told[d]
    BY <1>1 DEF DataInv
  <1> HIDE DEF n, us, m
  <1>7. Becomes(c, us) /\ UsData(us) /\ ~stop /\ UNCHANGED <<stop, tip>>
    BY <1>1, ReadyIs, ReadyHas DEF us
  <1>8. AtMostOne(n.out)
    BY <1>4 DEF Sound
  <1> QED BY <1>1, <1>2, <1>5, <1>6, <1>7, <1>8, EmptyRange, EndHas

(* The blocks of a response: the first, and the others.                    *)
LEMMA HeadAndTail ==
  ASSUME NEW S, NEW s \in Seq(S), s # <<>>
  PROVE  /\ s[1] \in S /\ Head(s) = s[1] /\ Tail(s) \in Seq(S) /\ Range(s) \subseteq {s[1]} \cup Range(Tail(s))
  <1>1. /\ Tail(s) \in Seq(S) /\ Len(s) \in Nat \ {0} /\ Head(s) = s[1] /\ s[1] \in S
        /\ Len(Tail(s)) = Len(s) - 1 /\ \A i \in 1 .. Len(Tail(s)) : Tail(s)[i] = s[i + 1]
    OBVIOUS
  <1> DEFINE t == Tail(s)
  <1> HIDE DEF t
  <1>2. Range(s) = {s[i] : i \in 1 .. Len(s)} /\ Range(t) = {t[i] : i \in 1 .. Len(t)}
    BY <1>1, RangeIs DEF t
  <1>3. ASSUME NEW i \in 1 .. Len(s) PROVE s[i] \in {s[1]} \cup Range(t)
    <2>1. CASE i = 1
      BY <2>1
    <2>2. CASE i # 1
      <3>1. i - 1 \in 1 .. Len(t) /\ (i - 1) + 1 = i
        BY <1>1, <2>2 DEF t
      <3>2. t[i - 1] = s[i]
        BY <1>1, <3>1 DEF t
      <3> QED BY <1>2, <3>1, <3>2
    <2> QED BY <2>1, <2>2
  <1> QED BY <1>1, <1>2, <1>3 DEF t

(* A block is added, and the others are still to be.                       *)
LEMMA AddedIsOwed ==
  ASSUME NEW n, NEW k, NEW s \in Seq(Block), s # <<>>, k.ctx = n.ctx, k.known = n.known \cup {s[1]},
         k.ctx.state # "normal", NEW t, Has(n.known, n.ctx, s, t)
  PROVE  Owed(k, Tail(s), t)
  <1>1. Range(s) \subseteq {s[1]} \cup Range(Tail(s))
    BY HeadAndTail
  <1> QED BY <1>1 DEF Owed, Has

LEMMA ReceiveObjectsHas ==
  ASSUME ShapeInv, WaitInv, DataInv, HasInv, NEW c \in Conn, ReceiveObjects(c)
  PROVE  Keeps
  <1> DEFINE us == Tail(toUs[c])
             m == Head(toUs[c])
             blocks == m.entry.blocks
             checked == checkObjects(Node(c), m.entry)
             waits == Verdict(checked, blocks[1]) = "added"
             first == processObject(checked, blocks[1])
             rest == IF waits THEN Tail(blocks) ELSE <<>>
             stays == checked.ctx.state \notin {"shutdown", "idle"}
             next == IF checked.ctx.state = "synchronizing"
                     THEN request_missing_objects(checked, TRUE) ELSE checked
  <1>1. Ready(c) /\ Take(c) /\ m.type = "objects" /\ told' = told
    BY DEF ReceiveObjects
  <1>2. \/ ~stays /\ Commit(c, checked, <<>>, FALSE)
        \/ stays /\ blocks = <<>> /\ Commit(c, next, <<>>, FALSE)
        \/ stays /\ blocks # <<>> /\ Commit(c, first, rest, waits)
    BY DEF ReceiveObjects
  <1>3. waits \in BOOLEAN
    OBVIOUS
  <1>4. NoAnswer(us) /\ toPeer[c] = <<>> /\ ctx[c].state = "synchronizing"
    BY <1>1, AnswerIs DEF IsAnswer
  <1>5. /\ Sound(checked) /\ checked.out = <<>> /\ IsNode(checked)
        /\ stays => checked.ctx.requested = {} /\ checked.ctx.state = "synchronizing"
    BY <1>1, <1>4, ReadyIs, CheckObjectsSound DEF Sound
  <1>6. /\ NodeData(checked) /\ checked.known = known
        /\ stays => checked.ctx.needed = ctx[c].needed /\ Range(blocks) = ctx[c].requested
    BY <1>1, <1>4, ReadyIs, ReadyHas, CheckObjectsHas
  <1>7. blocks \in Seq(Block)
    BY <1>1, ReadyHas DEF MessageData
  <1>8. stays => Has(checked.known, checked.ctx, blocks, told[c])
    <2>1. todo[c] = <<>> /\ ~stop
      BY <1>1, ReadyHas
    <2>2. ~ChainComes(toPeer[c], toUs[c])
      <3>1. NoChain(us) /\ (NoChain(us) <=> NoChain(toUs[c]))
        BY <1>1, <1>4, NoAnswerIs, ReadyHas
      <3> QED BY <1>4, <3>1 DEF ChainComes
    <2>3. Has(known, ctx[c], <<>>, told[c])
      BY <1>4, <2>1, <2>2 DEF HasInv
    <2> HIDE DEF checked, m, stays
    <2> QED BY <1>5, <1>6, <2>3, EmptyRange DEF Has, stays
  <1> HIDE DEF checked, us, m, blocks, stays
  <1>9. Becomes(c, us) /\ UsData(us) /\ ~stop /\ UNCHANGED <<stop, tip>>
    BY <1>1, ReadyIs, ReadyHas DEF us
  <1>10. told'[c] = told[c] /\ DOMAIN told' = Conn /\ \A d \in Conn \ {c} : told'[d] = told[d]
    BY <1>1 DEF DataInv
  <1>11. CASE ~stays /\ Commit(c, checked, <<>>, FALSE)
    <2>1. Owed(checked, <<>>, told'[c])
      BY <1>11, LeavesNothingOwed DEF stays
    <2>2. AtMostOne(checked.out)
      BY <1>5 DEF Sound
    <2> QED BY <1>4, <1>6, <1>9, <1>10, <1>11, <2>1, <2>2, EmptyRange, EndHas
  <1>12. CASE stays /\ blocks = <<>> /\ Commit(c, next, <<>>, FALSE)
    <2>1. Sound(next) /\ next = request_missing_objects(checked, TRUE) /\ checked.ctx.state \notin Apart
      BY <1>5, <1>12, RequestMissingSound DEF Apart
    <2>2. Has(checked.known, checked.ctx, <<>>, told[c])
      BY <1>8, <1>12
    <2> HIDE DEF next
    <2>3. NodeData(next) /\ next.known = known /\ Owed(next, <<>>, told[c])
      BY <1>5, <1>6, <1>12, <2>1, <2>2, RequestMissingHas
    <2>4. AtMostOne(next.out)
      BY <2>1 DEF Sound
    <2> QED BY <1>4, <1>9, <1>10, <1>12, <2>3, <2>4, EmptyRange, EndHas
  <1>13. CASE stays /\ blocks # <<>> /\ Commit(c, first, rest, waits)
    <2>1. blocks[1] \in Block /\ Tail(blocks) \in Seq(Block)
      BY <1>7, <1>13, HeadAndTail
    <2>2. Sound(first) /\ first.out = <<>> /\ IsNode(first) /\ (waits => first.ctx = checked.ctx)
      BY <1>5, <1>13, ProcessObjectSound DEF Apart, Sound
    <2>3. /\ NodeData(first) /\ known \subseteq first.known
          /\ waits => first.known = checked.known \cup {blocks[1]}
          /\ ~waits => first.ctx.state \in {"shutdown", "idle"}
      BY <1>5, <1>6, <2>1, ProcessObjectHas
    <2>4. rest \in Seq(Block) /\ (~waits => rest = <<>>) /\ (waits => rest = Tail(blocks))
      BY <2>1, EmptyRange
    <2> HIDE DEF first, rest, waits
    <2>5. Owed(first, rest, told'[c])
      <3>1. CASE waits
        <4>1. first.ctx.state # "normal"
          BY <1>5, <1>13, <2>2, <3>1
        <4>2. /\ first.ctx = checked.ctx /\ first.known = checked.known \cup {blocks[1]}
              /\ Has(checked.known, checked.ctx, blocks, told[c]) /\ blocks # <<>>
          BY <1>8, <1>13, <2>2, <2>3, <3>1
        <4>3. Owed(first, Tail(blocks), told[c])
          BY <1>7, <4>1, <4>2, AddedIsOwed
        <4> QED BY <1>10, <2>4, <3>1, <4>3
      <3>2. CASE ~waits
        BY <2>3, <3>2, LeavesNothingOwed
      <3> QED BY <3>1, <3>2
    <2>6. AtMostOne(first.out)
      BY <2>2 DEF Sound
    <2>7. Commit(c, first, rest, waits)
      BY <1>13
    <2>8. CASE waits
      <3>1. Commit(c, first, rest, TRUE)
        BY <1>3, <2>7, <2>8 DEF Commit
      <3> QED BY <1>4, <1>9, <1>10, <2>3, <2>4, <2>5, <2>6, <3>1, EndHas
    <2>9. CASE ~waits
      <3>1. Commit(c, first, rest, FALSE)
        BY <1>3, <2>7, <2>9 DEF Commit
      <3> QED BY <1>4, <1>9, <1>10, <2>3, <2>4, <2>5, <2>6, <2>9, <3>1, EndHas
    <2> QED BY <2>8, <2>9
  <1> QED BY <1>2, <1>11, <1>12, <1>13

LEMMA ProcessNextHas ==
  ASSUME ShapeInv, WaitInv, DataInv, HasInv, NEW c \in Conn, ProcessNext(c), ~stop
  PROVE  Keeps
  <1> DEFINE us == toUs[c]
             s == todo[c]
             n == Node(c)
             waits == Verdict(n, Head(s)) = "added"
             first == processObject(n, Head(s))
             rest == IF waits THEN Tail(s) ELSE <<>>
             next == IF ctx[c].state = "synchronizing" THEN request_missing_objects(n, TRUE) ELSE n
  <1>1. c \in busy /\ UNCHANGED <<toUs, told, stop, tip>>
    BY DEF ProcessNext
  <1>2. (s = <<>> /\ Commit(c, next, <<>>, FALSE)) \/ (s # <<>> /\ Commit(c, first, rest, waits))
    BY DEF ProcessNext
  <1>3. waits \in BOOLEAN
    OBVIOUS
  <1>4. ConnInv(ctx[c], toPeer[c], toUs[c], c \in busy) /\ IsSequence(us) /\ UsData(us) /\ s \in Seq(Block)
    BY DEF WaitInv, ShapeInv, DataInv
  <1>5. NoAnswer(us) /\ toPeer[c] = <<>> /\ ctx[c].requested = {} /\ ctx[c].state \notin Apart
    BY <1>1, <1>4 DEF ConnInv, Apart
  <1>6. IsNode(n) /\ n.out = <<>> /\ n.ctx = ctx[c] /\ n.known = known
    BY NodeRecord DEF Node
  <1>7. NodeData(n)
    BY NothingSent DEF Node, NodeData, DataInv
  <1>8. Becomes(c, us)
    BY <1>1 DEF ShapeInv, Becomes
  <1>9. ctx[c].state = "synchronizing" => Has(n.known, n.ctx, s, told[c])
    <2>1. ~ChainComes(toPeer[c], us)
      BY <1>5, NoAnswerIs DEF ChainComes
    <2> QED BY <1>6, <2>1 DEF HasInv
  <1>10. told'[c] = told[c] /\ DOMAIN told' = Conn /\ \A d \in Conn \ {c} : told'[d] = told[d]
    BY <1>1 DEF DataInv
  <1> HIDE DEF us, n, s
  <1>11. CASE s = <<>> /\ Commit(c, next, <<>>, FALSE)
    <2>1. AtMostOne(next.out)
      <3>1. Sound(request_missing_objects(n, TRUE))
        BY <1>5, <1>6, RequestMissingSound
      <3> QED BY <1>6, <3>1, NoAnswerIs DEF Sound
    <2>2. NodeData(next) /\ next.known = known /\ Owed(next, <<>>, told[c])
      <3>1. CASE ctx[c].state = "synchronizing"
        <4>1. Has(n.known, n.ctx, <<>>, told[c])
          BY <1>9, <1>11, <3>1
        <4>2. next = request_missing_objects(n, TRUE)
          BY <3>1
        <4> HIDE DEF next
        <4> QED BY <1>5, <1>6, <1>7, <4>1, <4>2, RequestMissingHas
      <3>2. CASE ctx[c].state # "synchronizing"
        <4>1. next = n
          BY <3>2
        <4>2. Owed(n, <<>>, told[c])
          BY <1>5, <1>6, <3>2 DEF Owed, Apart
        <4> QED BY <1>6, <1>7, <4>1, <4>2
      <3> QED BY <3>1, <3>2
    <2> HIDE DEF next
    <2> QED BY <1>1, <1>4, <1>5, <1>8, <1>10, <1>11, <2>1, <2>2, EmptyRange, EndHas
  <1>12. CASE s # <<>> /\ Commit(c, first, rest, waits)
    <2>1. s[1] \in Block /\ Tail(s) \in Seq(Block) /\ Head(s) = s[1]
      BY <1>4, <1>12, HeadAndTail
    <2>2. Sound(first) /\ first.out = <<>> /\ IsNode(first) /\ (waits => first.ctx = n.ctx)
      BY <1>5, <1>6, <1>12, ProcessObjectSound DEF Sound
    <2>3. /\ NodeData(first) /\ known \subseteq first.known
          /\ waits => first.known = n.known \cup {s[1]}
          /\ ~waits => first.ctx.state \in {"shutdown", "idle"}
      BY <1>6, <1>7, <2>1, ProcessObjectHas
    <2>4. rest \in Seq(Block) /\ (~waits => rest = <<>>) /\ (waits => rest = Tail(s))
      BY <2>1, EmptyRange
    <2> HIDE DEF first, rest, waits
    <2>5. Owed(first, rest, told'[c])
      <3>1. CASE waits /\ ctx[c].state = "synchronizing"
        <4>1. first.ctx.state # "normal"
          BY <1>6, <2>2, <3>1
        <4>2. /\ first.ctx = n.ctx /\ first.known = n.known \cup {s[1]}
              /\ Has(n.known, n.ctx, s, told[c]) /\ s # <<>>
          BY <1>9, <1>12, <2>2, <2>3, <3>1
        <4>3. Owed(first, Tail(s), told[c])
          BY <1>4, <4>1, <4>2, AddedIsOwed
        <4> QED BY <1>10, <2>4, <3>1, <4>3
      <3>2. CASE ~waits
        BY <2>3, <3>2, LeavesNothingOwed
      <3>3. CASE waits /\ ctx[c].state # "synchronizing"
        BY <1>5, <1>6, <2>2, <3>3 DEF Owed, Apart
      <3> QED BY <3>1, <3>2, <3>3
    <2>6. AtMostOne(first.out)
      BY <2>2 DEF Sound
    <2>8. CASE waits
      <3>1. Commit(c, first, rest, TRUE)
        BY <1>3, <1>12, <2>8 DEF Commit
      <3> QED BY <1>1, <1>4, <1>5, <1>8, <1>10, <2>3, <2>4, <2>5, <2>6, <3>1, EndHas
    <2>9. CASE ~waits
      <3>1. Commit(c, first, rest, FALSE)
        BY <1>3, <1>12, <2>9 DEF Commit
      <3> QED BY <1>1, <1>4, <1>5, <1>8, <1>10, <2>3, <2>4, <2>5, <2>6, <2>9, <3>1, EndHas
    <2> QED BY <2>8, <2>9
  <1> QED BY <1>2, <1>11, <1>12

(* A step outside the handlers: the blocks that are known and the entry of *)
(* each peer stay, and connection c decides.                               *)
LEMMA OutsideHas ==
  ASSUME DataInv, HasInv, NEW c \in Conn, Others(c), UNCHANGED <<known, told, stop>>,
         tip' \in [Conn -> Block], DOMAIN todo' = Conn, \A d \in Conn \ {c} : todo'[d] = todo[d],
         ctx'[c].needed \in Seq(Block), todo'[c] \in Seq(Block), c \notin busy' => todo'[c] = <<>>,
         PeerData(toPeer'[c]), UsData(toUs'[c]),
         ctx'[c].state = ctx[c].state \/ ctx'[c].state \notin {"normal", "synchronizing"},
         ~stop /\ ctx'[c].state = "synchronizing" /\ ~ChainComes(toPeer'[c], toUs'[c])
           => Has(known, ctx'[c], todo'[c], told[c])
  PROVE  Keeps
  <1>1. \A d \in Conn \ {c} : /\ ctx'[d] = ctx[d] /\ toPeer'[d] = toPeer[d] /\ toUs'[d] = toUs[d]
                              /\ d \in busy' <=> d \in busy
    BY DEF Others
  <1>2. DataInv'
    <2>1. ASSUME NEW d \in Conn
          PROVE  /\ ctx'[d].needed \in Seq(Block) /\ todo'[d] \in Seq(Block)
                 /\ d \notin busy' => todo'[d] = <<>>
                 /\ PeerData(toPeer'[d]) /\ UsData(toUs'[d])
      <3>1. CASE d = c
        BY <3>1
      <3>2. CASE d # c
        BY <1>1, <3>2 DEF DataInv
      <3> QED BY <3>1, <3>2
    <2>2. Rooted(known') /\ DOMAIN told' = Conn
      BY DEF DataInv
    <2> QED BY <2>1, <2>2 DEF DataInv
  <1>3. HasInv'
    <2>1. SUFFICES ASSUME NEW d \in Conn, ~stop, ctx'[d].state = "synchronizing",
                          ~ChainComes(toPeer'[d], toUs'[d])
                   PROVE  Has(known, ctx'[d], todo'[d], told[d])
      BY DEF HasInv
    <2>2. CASE d = c
      BY <2>1, <2>2
    <2>3. CASE d # c
      BY <1>1, <2>1, <2>3 DEF HasInv
    <2> QED BY <2>2, <2>3
  <1>4. ASSUME NEW d \in Conn PROVE Report(d)
    <2>1. CASE d = c
      BY <2>1 DEF Report
    <2>2. CASE d # c
      BY <1>1, <2>2 DEF Report
    <2> QED BY <2>1, <2>2
  <1> QED BY <1>2, <1>3, <1>4 DEF Keeps

(* A message comes: what it brings, and whether it is a chain entry.       *)
LEMMA PutData ==
  ASSUME NEW s, IsSequence(s), UsData(s), NEW m, MessageData(m)
  PROVE  UsData(Append(s, m)) /\ (NoChain(Append(s, m)) => NoChain(s) /\ m.type # "chain")
  <1> DEFINE S == Range(s) \cup {m}
             t == Append(s, m)
  <1>1. s \in Seq(S) /\ m \in S
    <2>1. s \in Seq(Range(s))
      BY DEF IsSequence
    <2> DEFINE R == Range(s)
    <2> HIDE DEF R
    <2> QED BY <2>1 DEF R
  <1> HIDE DEF S
  <1>2. /\ Len(t) = Len(s) + 1 /\ Len(s) \in Nat
        /\ \A i \in 1 .. Len(s) : t[i] = s[i]
        /\ t[Len(s) + 1] = m
    BY <1>1
  <1> HIDE DEF t
  <1>3. /\ \A i \in 1 .. Len(t) : i \in 1 .. Len(s) \/ i = Len(s) + 1
        /\ 1 .. Len(s) \subseteq 1 .. Len(t) /\ Len(s) + 1 \in 1 .. Len(t)
    BY <1>2
  <1>4. UsData(t)
    BY <1>2, <1>3 DEF UsData
  <1>5. NoChain(t) => NoChain(s) /\ m.type # "chain"
    BY <1>2, <1>3 DEF NoChain
  <1> QED BY <1>4, <1>5 DEF t

(* A message that is no answer comes from the peer, whose chain may have   *)
(* changed.                                                                *)
LEMMA MessageHas ==
  ASSUME ShapeInv, DataInv, HasInv, NEW c \in Conn, NEW m, MessageData(m), m.type # "chain",
         toUs' = [toUs EXCEPT ![c] = Append(toUs[c], m)], tip' \in [Conn -> Block],
         UNCHANGED <<known, told, stop, ctx, todo, toPeer, busy>>
  PROVE  Keeps
  <1> DEFINE us == Append(toUs[c], m)
  <1>1. toUs'[c] = us /\ Others(c)
    BY DEF ShapeInv, Others
  <1>2. UsData(us) /\ (NoChain(us) => NoChain(toUs[c]))
    BY PutData DEF ShapeInv, DataInv
  <1> HIDE DEF us
  <1>3. ASSUME ~stop, ctx[c].state = "synchronizing", ~ChainComes(toPeer[c], us)
        PROVE  Has(known, ctx[c], todo[c], told[c])
    <2>1. ~ChainComes(toPeer[c], toUs[c])
      BY <1>2, <1>3 DEF ChainComes
    <2> QED BY <1>3, <2>1 DEF HasInv
  <1>4. /\ DOMAIN todo' = Conn /\ ctx'[c].needed \in Seq(Block) /\ todo'[c] \in Seq(Block)
        /\ c \notin busy' => todo'[c] = <<>>
        /\ PeerData(toPeer'[c])
    BY DEF DataInv
  <1>5. UsData(toUs'[c])
    BY <1>1, <1>2
  <1>6. ~stop /\ ctx'[c].state = "synchronizing" /\ ~ChainComes(toPeer'[c], toUs'[c])
          => Has(known, ctx'[c], todo'[c], told[c])
    BY <1>1, <1>3
  <1> QED BY <1>1, <1>4, <1>5, <1>6, OutsideHas

(* A connection opens.                                                     *)
LEMMA ConnectHas ==
  ASSUME ShapeInv, DataInv, HasInv, NEW c \in Conn, Connect(c)
  PROVE  Keeps
  <1> DEFINE m == [type |-> "handshake", data |-> SyncData(c)]
  <1>1. /\ Others(c) /\ toUs'[c] = <<m>>
        /\ ctx'[c] = [ctx[c] EXCEPT !.state = "befor_handshake"]
        /\ UNCHANGED <<known, told, stop, tip, todo, toPeer, busy>>
    BY DEF Connect, ShapeInv, Others
  <1>2. ctx'[c].state = "befor_handshake" /\ ctx'[c].needed = ctx[c].needed
    BY <1>1 DEF ShapeInv, IsContext, Fields
  <1>3. MessageData(m)
    BY DEF MessageData
  <1> HIDE DEF m
  <1>4. UsData(<<m>>)
    BY <1>3 DEF UsData
  <1>5. /\ tip' \in [Conn -> Block] /\ DOMAIN todo' = Conn /\ ctx'[c].needed \in Seq(Block)
        /\ todo'[c] \in Seq(Block) /\ (c \notin busy' => todo'[c] = <<>>) /\ PeerData(toPeer'[c])
    BY <1>1, <1>2 DEF DataInv
  <1>6. \A d \in Conn \ {c} : todo'[d] = todo[d]
    BY <1>1
  <1>7. UsData(toUs'[c])
    BY <1>1, <1>4
  <1> QED BY <1>1, <1>2, <1>5, <1>6, <1>7, OutsideHas

(* The peer answers from its chain.                                        *)
LEMMA PeerAnswersHas ==
  ASSUME ShapeInv, DataInv, HasInv, NEW c \in Conn, PeerAnswers(c)
  PROVE  Keeps
  <1> DEFINE m == Head(toPeer[c])
             a == IF m.type = "chain"
                  THEN [type |-> "chain", entry |-> findBlockchainSupplement(tip[c], m.ids)]
                  ELSE [type |-> "objects", entry |-> handleGetObjects(tip[c], m.blocks)]
             us == Append(toUs[c], a)
  <1>1. /\ Others(c) /\ toUs'[c] = us /\ toPeer'[c] = Tail(toPeer[c]) /\ toPeer[c] # <<>>
        /\ ctx'[c] = ctx[c] /\ UNCHANGED <<known, told, stop, tip, todo, busy>>
    BY DEF PeerAnswers, ShapeInv, Others
  <1>2. Tail(toPeer[c]) = <<>> /\ m = toPeer[c][1]
    <2> DEFINE x == toPeer[c][1]
    <2>1. toPeer[c] = <<x>>
      BY <1>1 DEF ShapeInv, AtMostOne
    <2> HIDE DEF x
    <2>2. Tail(<<x>>) = <<>> /\ Head(<<x>>) = x
      OBVIOUS
    <2> QED BY <2>1, <2>2 DEF x
  <1>3. RequestData(m) /\ tip[c] \in Block
    BY <1>1, <1>2 DEF DataInv, PeerData
  <1>4. m.type = "chain" <=> a.type = "chain"
    OBVIOUS
  <1> HIDE DEF m
  <1>5. MessageData(a)
    <2>1. CASE m.type = "chain"
      <3> DEFINE e == findBlockchainSupplement(tip[c], m.ids)
      <3>1. IsEntry(e.ids)
        BY <1>3, <2>1, SupplementIsEntry DEF RequestData
      <3> HIDE DEF e
      <3>2. a = [type |-> "chain", entry |-> e]
        BY <2>1 DEF e
      <3> QED BY <3>1, <3>2 DEF MessageData
    <2>2. CASE m.type # "chain"
      <3> DEFINE e == handleGetObjects(tip[c], m.blocks)
      <3>1. e.blocks = Only(m.blocks, Range(ChainOf[tip[c]]))
        BY DEF handleGetObjects
      <3>2. m.blocks \in Seq(Block)
        BY <1>3, <2>2 DEF RequestData
      <3> HIDE DEF e
      <3>3. e.blocks \in Seq(Block)
        BY <3>1, <3>2, OnlyIs
      <3>4. a = [type |-> "objects", entry |-> e]
        BY <2>2 DEF e
      <3> QED BY <3>3, <3>4 DEF MessageData
    <2> QED BY <2>1, <2>2
  <1> HIDE DEF a
  <1>6. UsData(us) /\ (NoChain(us) => NoChain(toUs[c]) /\ a.type # "chain")
    BY <1>5, PutData DEF ShapeInv, DataInv
  <1> HIDE DEF us
  <1>7. ASSUME ~stop, ctx[c].state = "synchronizing", ~ChainComes(toPeer'[c], us)
        PROVE  Has(known, ctx[c], todo[c], told[c])
    <2>1. ~ChainComes(toPeer[c], toUs[c])
      BY <1>2, <1>4, <1>6, <1>7 DEF ChainComes
    <2> QED BY <1>7, <2>1 DEF HasInv
  <1>8. /\ tip' \in [Conn -> Block] /\ DOMAIN todo' = Conn /\ ctx'[c].needed \in Seq(Block)
        /\ todo'[c] \in Seq(Block) /\ (c \notin busy' => todo'[c] = <<>>)
    BY <1>1 DEF DataInv
  <1>9. PeerData(toPeer'[c]) /\ UsData(toUs'[c]) /\ \A d \in Conn \ {c} : todo'[d] = todo[d]
    BY <1>1, <1>2, <1>6, NothingSent
  <1>10. ~stop /\ ctx'[c].state = "synchronizing" /\ ~ChainComes(toPeer'[c], toUs'[c])
          => Has(known, ctx'[c], todo'[c], told[c])
    BY <1>1, <1>7
  <1> QED BY <1>1, <1>8, <1>9, <1>10, OutsideHas

(* A connection ends.                                                      *)
LEMMA DisconnectHas ==
  ASSUME ShapeInv, DataInv, HasInv, NEW c \in Conn, Disconnect(c)
  PROVE  Keeps
  <1>1. /\ Others(c) /\ toUs'[c] = <<>> /\ toPeer'[c] = <<>> /\ c \notin busy' /\ ctx'[c] = Closed
        /\ UNCHANGED <<known, told, stop, tip>>
    BY DEF Disconnect, ShapeInv, Others
  <1>2. DOMAIN todo' = Conn /\ todo'[c] = <<>> /\ \A d \in Conn \ {c} : todo'[d] = todo[d]
    BY DEF Disconnect, DataInv
  <1>3. Closed.state = "closed" /\ Closed.needed \in Seq(Block)
    BY EmptyRange DEF Closed
  <1>4. UsData(<<>>)
    BY DEF UsData
  <1>5. tip' \in [Conn -> Block]
    BY <1>1 DEF DataInv
  <1> QED BY <1>1, <1>2, <1>3, <1>4, <1>5, EmptyRange, NothingSent, OutsideHas

(* The node stops.                                                         *)
LEMMA StopHas ==
  ASSUME DataInv, Stop
  PROVE  Keeps
  <1>1. /\ UNCHANGED <<known, told, tip, ctx, todo, busy>> /\ stop'
        /\ \A c \in Conn : toUs'[c] = <<>> /\ toPeer'[c] = <<>>
    BY DEF Stop
  <1>2. UsData(<<>>)
    BY DEF UsData
  <1>3. DataInv'
    BY <1>1, <1>2, NothingSent DEF DataInv
  <1>4. HasInv' /\ \A c \in Conn : Report(c)
    BY <1>1 DEF HasInv, Report
  <1> QED BY <1>3, <1>4 DEF Keeps

(* A handler inside processObjects gives up when the node stops.           *)
LEMMA StoppedHas ==
  ASSUME ShapeInv, DataInv, NEW c \in Conn, ProcessNext(c), stop
  PROVE  Keeps
  <1>1. Commit(c, Node(c), <<>>, FALSE) /\ UNCHANGED <<stop, tip, toUs, told>>
    BY DEF ProcessNext
  <1>2. /\ known' = known /\ toPeer' = [toPeer EXCEPT ![c] = toPeer[c] \o <<>>] /\ busy' = busy \ {c}
        /\ ctx' = [ctx EXCEPT ![c] = ctx[c]] /\ todo' = [todo EXCEPT ![c] = <<>>]
    BY <1>1, NodeRecord DEF Commit, Node
  <1>3. toPeer[c] \o <<>> = toPeer[c]
    BY NoAnswerIs, SendOne DEF ShapeInv
  <1>4. \A d \in Conn : ctx'[d] = ctx[d] /\ toPeer'[d] = toPeer[d]
    BY <1>2, <1>3 DEF ShapeInv
  <1>5. /\ DOMAIN todo' = Conn
        /\ \A d \in Conn : todo'[d] \in Seq(Block) /\ (d \notin busy' => todo'[d] = <<>>)
    BY <1>2, EmptyRange DEF DataInv
  <1>6. DataInv'
    BY <1>1, <1>2, <1>4, <1>5 DEF DataInv
  <1>7. HasInv' /\ \A d \in Conn : Report(d)
    BY <1>1, <1>4 DEF HasInv, Report
  <1> QED BY <1>6, <1>7 DEF Keeps

(* At the start the node has the genesis block, and no connection is open. *)
LEMMA InitHas == Init => DataInv /\ HasInv
  <1> SUFFICES ASSUME Init PROVE DataInv /\ HasInv
    OBVIOUS
  <1>1. Rooted(known)
    <2>1. PathTo[Genesis] = <<Genesis>> /\ Genesis \in Block
      BY PathDefined, BlockAssumption
    <2>2. ChainOf[Genesis] = <<Genesis>>
      BY <2>1 DEF ChainOf
    <2>3. Range(<<Genesis>>) = {Genesis}
      BY DEF Range
    <2> QED BY <2>1, <2>2, <2>3 DEF Init, Rooted
  <1>2. UsData(<<>>) /\ Closed.needed = <<>> /\ Closed.state = "closed"
    BY DEF UsData, Closed
  <1>3. DataInv
    BY <1>1, <1>2, EmptyRange, NothingSent, BlockAssumption DEF Init, DataInv
  <1>4. HasInv
    BY <1>2 DEF Init, HasInv
  <1> QED BY <1>3, <1>4

(* Every step keeps what the node has and has still to get.                *)
LEMMA NextHas == ShapeInv /\ WaitInv /\ DataInv /\ HasInv /\ [Next]_vars => Keeps
  <1> SUFFICES ASSUME ShapeInv, WaitInv, DataInv, HasInv, [Next]_vars PROVE Keeps
    OBVIOUS
  <1>1. ASSUME NEW c \in Conn, Connect(c) PROVE Keeps
    BY <1>1, ConnectHas
  <1>2. ASSUME NEW c \in Conn, TimedSync(c) PROVE Keeps
    <2> DEFINE m == [type |-> "timed", data |-> SyncData(c)]
    <2>1. MessageData(m) /\ m.type # "chain"
      BY DEF MessageData
    <2>2. /\ toUs' = [toUs EXCEPT ![c] = Append(toUs[c], m)]
          /\ UNCHANGED <<known, told, stop, ctx, todo, toPeer, busy, tip>>
      BY <1>2 DEF TimedSync
    <2>3. tip' \in [Conn -> Block]
      BY <2>2 DEF DataInv
    <2> HIDE DEF m
    <2> QED BY <2>1, <2>2, <2>3, MessageHas
  <1>3. ASSUME NEW c \in Conn, PeerAdvances(c) PROVE Keeps
    <2>1. PICK b \in Block, notify \in BOOLEAN :
            /\ tip' = [tip EXCEPT ![c] = b]
            /\ toUs' = IF notify
                       THEN [toUs EXCEPT ![c] = Append(@, [type |-> "new_block", block |-> b, height |-> Height(b)])]
                       ELSE toUs
            /\ UNCHANGED <<known, told, stop, ctx, todo, toPeer, busy>>
      BY <1>3 DEF PeerAdvances
    <2>2. tip' \in [Conn -> Block]
      BY <2>1 DEF DataInv
    <2> DEFINE m == [type |-> "new_block", block |-> b, height |-> Height(b)]
    <2>3. CASE notify
      <3>1. MessageData(m) /\ m.type # "chain"
        BY DEF MessageData
      <3>2. toUs' = [toUs EXCEPT ![c] = Append(toUs[c], m)]
        BY <2>1, <2>3
      <3> HIDE DEF m
      <3> QED BY <2>1, <2>2, <3>1, <3>2, MessageHas
    <2>4. CASE ~notify
      <3>1. UNCHANGED <<toUs, known, told, stop, ctx, todo, toPeer, busy>>
        BY <2>1, <2>4
      <3>2. DataInv' /\ HasInv'
        BY <2>2, <3>1 DEF DataInv, HasInv
      <3>3. \A d \in Conn : Report(d)
        BY <3>1 DEF Report
      <3> QED BY <3>2, <3>3 DEF Keeps
    <2> QED BY <2>3, <2>4
  <1>4. ASSUME NEW c \in Conn, PeerAnswers(c) PROVE Keeps
    BY <1>4, PeerAnswersHas
  <1>5. ASSUME NEW c \in Conn, ReceiveSyncData(c) PROVE Keeps
    BY <1>5, ReceiveSyncDataHas
  <1>6. ASSUME NEW c \in Conn, ReceiveNewBlock(c) PROVE Keeps
    BY <1>6, ReceiveNewBlockHas
  <1>7. ASSUME NEW c \in Conn, ReceiveChain(c) PROVE Keeps
    BY <1>7, ReceiveChainHas
  <1>8. ASSUME NEW c \in Conn, ReceiveObjects(c) PROVE Keeps
    BY <1>8, ReceiveObjectsHas
  <1>9. ASSUME NEW c \in Conn, ProcessNext(c) PROVE Keeps
    BY <1>9, ProcessNextHas, StoppedHas
  <1>10. ASSUME NEW c \in Conn, Close(c) \/ Drop(c) PROVE Keeps
    BY <1>10, DisconnectHas DEF Close, Drop
  <1>11. CASE Stop
    BY <1>11, StopHas
  <1>12. CASE UNCHANGED vars
    <2>1. UNCHANGED <<toUs, known, told, stop, ctx, todo, toPeer, busy, tip>>
      BY <1>12 DEF vars
    <2>2. DataInv' /\ HasInv'
      BY <2>1 DEF DataInv, HasInv
    <2>3. \A d \in Conn : Report(d)
      BY <2>1 DEF Report
    <2> QED BY <2>2, <2>3 DEF Keeps
  <1> QED BY <1>1, <1>2, <1>3, <1>4, <1>5, <1>6, <1>7, <1>8, <1>9, <1>10, <1>11, <1>12
          DEF Next, Handler

(***************************************************************************)
(* When a connection reports SYNCHRONIZED OK the node has every block of   *)
(* the chain that the peer listed last, whatever blocks other connections  *)
(* and notices brought while this one waited, however often the peer's     *)
(* chain switched, and wherever the context yielded: no block that         *)
(* handle_response_chain_entry noted is lost before it is added.           *)
(***************************************************************************)
THEOREM ReportsOnlyWholeChains == Spec => SynchronizedHasChain
  <1>1. ShapeInv /\ WaitInv /\ DataInv /\ HasInv /\ [Next]_vars
          => [\A c \in Conn : ctx[c].state = "synchronizing" /\ ctx'[c].state = "normal"
                => Range(ChainOf[told'[c]]) \subseteq known']_vars
    BY NextHas DEF Keeps, Report
  <1>2. ShapeInv /\ WaitInv /\ DataInv /\ HasInv /\ [Next]_vars => DataInv' /\ HasInv'
    BY NextHas DEF Keeps
  <1> QED BY <1>1, <1>2, InitWaits, NextWaits, InitHas, PTL DEF Spec, SynchronizedHasChain

=============================================================================
