------------------------ MODULE BlockchainSynchronizer ------------------------
(***************************************************************************)
(* BlockchainSynchronizer: the thread that keeps the consumers of a wallet *)
(* in step with the chain and the pool of a node.                          *)
(*                                                                         *)
(* Three threads meet here.  The worker runs workingProcedure; the user    *)
(* starts and stops it, gives it tasks and reads the state of a consumer;  *)
(* the node changes, and calls back.  m_stateMutex and m_consumersMutex    *)
(* are held over several steps where the code holds one while it waits for *)
(* the other; a critical section that waits for nothing is one step, taken *)
(* when the mutex is free.                                                 *)
(***************************************************************************)
EXTENDS Integers, Sequences, SequencesExt, FiniteSetsExt

CONSTANTS
  Consumer,      \* consumers, numbered in the order of their addresses
  Block, Genesis, Parent,
  Work,          \* the cumulative difficulty of the chain that ends in a block
  NoBlock,       \* a hash that is no block's
  Tx,
  DenseHistory,  \* getShortHistory takes this many offsets before they double
  BlockLimit,    \* BLOCKS_SYNCHRONIZING_DEFAULT_COUNT
  ReadsWhileRunning, \* getConsumerState is called between start and stop too
  Failures,      \* what may fail: a request to the node, or a consumer, in two ways
  Budget         \* bounds on the steps that could go on for ever

Steps == {"change", "call", "failure"}

ASSUME ConsumerAssumption == Consumer \subseteq Nat \ {0}
ASSUME BlockAssumption == Genesis \in Block /\ NoBlock \notin Block
                          /\ Parent \in [Block \ {Genesis} -> Block]
                          /\ Work \in [Block -> Nat]
                          /\ \A b \in Block \ {Genesis} : Work[Parent[b]] < Work[b]
ASSUME LimitAssumption == DenseHistory \in Nat /\ BlockLimit \in Nat \ {0, 1}
ASSUME ChoiceAssumption == ReadsWhileRunning \in BOOLEAN /\ Budget \in [Steps -> Nat]
                           /\ Failures \subseteq {"node", "refusal", "exception"}

VARIABLES
  m_currentState, m_futureState,
  m_consumers,
  m_blockchain,    \* of the SynchronizationState of each consumer
  m_poolTxs,       \* getKnownPoolTxIds of each consumer
  unconfirmed,     \* the unconfirmed transactions in the containers of each consumer
  lastBlockId,
  m_addTransactionTasks, m_removeTransactionTasks,
  m_stateMutex, m_consumersMutex,
  pc, leaving, job, \* the worker: where it is, whether its loop has ended, its locals
  userPc,
  observing,       \* the node has the synchronizer among its observers
  nodeTail,
  nodePool,        \* the transactions of its pool that are ready for a block
  catchingUp,      \* getLastKnownBlockHeight # getLastLocalBlockHeight
  events,          \* changes the node has not announced yet
  calls,           \* announced: the observer list is copied, the call not made
  completed,       \* the last synchronizationCompleted
  reply,           \* what the last task was answered
  used

userVars == <<m_consumers, userPc>>
dataVars == <<m_blockchain, m_poolTxs, unconfirmed, lastBlockId>>
taskVars == <<m_addTransactionTasks, m_removeTransactionTasks, reply>>
nodeVars == <<nodeTail, nodePool, catchingUp, events, calls>>
vars == <<m_currentState, m_futureState, userVars, dataVars, taskVars, m_stateMutex,
          m_consumersMutex, pc, leaving, job, observing, nodeVars, completed, used>>

-----------------------------------------------------------------------------
(* State: prioritized finite states.                                       *)
idle == 0
poolSync == 1
blockchainSync == 2
stopped == 3

Free == "free"
StateFree == m_stateMutex = Free
ConsumersFree == m_consumersMutex = Free

Spend(step) == used[step] < Budget[step] /\ used' = [used EXCEPT ![step] = @ + 1]
Fails(what) == what \in Failures /\ Spend("failure")

(* Mutants: priority over the current state; an error that forgets the     *)
(* stop.                                                                   *)
SetFutureStateAboveCurrent(s) == m_futureState' = IF s > m_currentState THEN s ELSE m_futureState
IdleAlways == m_futureState' = idle

(* setFutureState, and setFutureStateIf as the error paths use it.         *)
SetFutureState(s) == m_futureState' = IF s > m_futureState THEN s ELSE m_futureState
IdleUnlessStopped == m_futureState' = IF m_futureState # stopped THEN idle ELSE stopped

IsStopped == m_currentState = stopped /\ m_futureState = stopped

PathTo[b \in Block] == IF b = Genesis THEN <<b>> ELSE Append(PathTo[Parent[b]], b)
NodeChain == PathTo[nodeTail]

NoJob == [none |-> TRUE]

-----------------------------------------------------------------------------
(* SynchronizationState.  A position is one more than the height.          *)

(* getShortHistory: the offsets from the end that it takes.                *)
Offset(n) == IF n <= DenseHistory + 1 THEN n ELSE DenseHistory - 1 + 2 ^ (n - DenseHistory)

(* Mutant: only the genesis block.                                         *)
GenesisHistory(chain, localCount) == {chain[1]}

ShortHistory(chain, localCount) ==
  LET sz == Min({Len(chain), localCount})
  IN  {chain[1]} \cup {chain[sz - o + 1] : o \in {Offset(n) : n \in 1 .. sz} \cap 1 .. sz - 1}

(* checkInterval: where the interval and the chain first differ.           *)
Mismatches(chain, interval) ==
  {i \in interval.start .. Min({Len(chain), interval.start + Len(interval.blocks) - 1}) :
     chain[i] # interval.blocks[i - interval.start + 1]}

(* Mutant: a fork is not noticed.                                          *)
AppendPosition(chain, interval) == Len(chain) + 1

NewBlockPosition(chain, interval) ==
  IF Mismatches(chain, interval) # {} THEN Min(Mismatches(chain, interval)) ELSE Len(chain) + 1

HasNewBlocks(chain, interval) ==
  NewBlockPosition(chain, interval) < interval.start + Len(interval.blocks)

(* Mutant: the first block that differs stays.                             *)
DetachOneLate(chain, interval) ==
  SubSeq(chain, 1, Min({Len(chain), NewBlockPosition(chain, interval)}))

Detach(chain, interval) == SubSeq(chain, 1, NewBlockPosition(chain, interval) - 1)

AddBlocks(chain, interval) ==
  IF HasNewBlocks(chain, interval)
  THEN Detach(chain, interval)
         \o SubSeq(interval.blocks, NewBlockPosition(chain, interval) - interval.start + 1,
                   Len(interval.blocks))
  ELSE chain

-----------------------------------------------------------------------------
(* A new synchronizer.  lastBlockId is not initialised: it may hold any    *)
(* hash, that of a block too.                                              *)
Init ==
  /\ m_currentState = stopped /\ m_futureState = stopped
  /\ m_consumers = {}
  /\ m_blockchain = [c \in Consumer |-> <<>>]
  /\ m_poolTxs = [c \in Consumer |-> {}]
  /\ unconfirmed = [c \in Consumer |-> {}]
  /\ lastBlockId \in Block \cup {NoBlock}
  /\ m_addTransactionTasks = <<>> /\ m_removeTransactionTasks = <<>>
  /\ m_stateMutex = Free /\ m_consumersMutex = Free
  /\ pc = "none" /\ leaving = FALSE /\ job = NoJob
  /\ userPc = "ready"
  /\ observing = FALSE
  /\ nodeTail = Genesis /\ nodePool = {} /\ catchingUp = FALSE
  /\ events = {} /\ calls = {}
  /\ completed = "none" /\ reply = "none"
  /\ used = [s \in Steps |-> 0]

-----------------------------------------------------------------------------
(* The user.                                                               *)
AddConsumer(c) ==
  /\ userPc = "ready" /\ StateFree /\ IsStopped /\ c \notin m_consumers
  /\ m_consumers' = m_consumers \cup {c}
  /\ m_blockchain' = [m_blockchain EXCEPT ![c] = <<Genesis>>]
  /\ UNCHANGED <<m_currentState, m_futureState, m_poolTxs, unconfirmed, lastBlockId, taskVars,
                 m_stateMutex, m_consumersMutex, pc, leaving, job, userPc, observing, nodeVars,
                 completed, used>>

(* The consumer itself goes with its state.                                *)
RemoveConsumer(c) ==
  /\ userPc = "ready" /\ StateFree /\ IsStopped /\ c \in m_consumers
  /\ m_consumers' = m_consumers \ {c}
  /\ m_blockchain' = [m_blockchain EXCEPT ![c] = <<>>]
  /\ m_poolTxs' = [m_poolTxs EXCEPT ![c] = {}]
  /\ unconfirmed' = [unconfirmed EXCEPT ![c] = {}]
  /\ UNCHANGED <<m_currentState, m_futureState, lastBlockId, taskVars, m_stateMutex,
                 m_consumersMutex, pc, leaving, job, userPc, observing, nodeVars, completed, used>>

Start ==
  /\ userPc = "ready" /\ m_consumers # {} /\ StateFree /\ IsStopped
  /\ Spend("call")
  /\ m_futureState' = blockchainSync
  /\ pc' = "loop" /\ leaving' = FALSE
  /\ UNCHANGED <<m_currentState, userVars, dataVars, taskVars, m_stateMutex, m_consumersMutex,
                 job, observing, nodeVars, completed>>

(* stop: the request, and the join.                                        *)
Stop ==
  /\ userPc = "ready" /\ StateFree
  /\ SetFutureState(stopped)
  /\ userPc' = "joining"
  /\ UNCHANGED <<m_currentState, m_consumers, dataVars, taskVars, m_stateMutex, m_consumersMutex,
                 pc, leaving, job, observing, nodeVars, completed, used>>

Join ==
  /\ userPc = "joining" /\ pc \in {"none", "ended"}
  /\ pc' = "none" /\ userPc' = "ready"
  /\ UNCHANGED <<m_currentState, m_futureState, m_consumers, dataVars, taskVars, m_stateMutex,
                 m_consumersMutex, leaving, job, observing, nodeVars, completed, used>>

TaskAllowed ==
  /\ userPc = "ready" /\ StateFree
  /\ m_currentState # stopped /\ m_futureState # stopped
  /\ Spend("call")

AddUnconfirmedTransaction(t) ==
  /\ TaskAllowed
  /\ m_addTransactionTasks' = Append(m_addTransactionTasks, t)
  /\ UNCHANGED <<m_currentState, m_futureState, userVars, dataVars, m_removeTransactionTasks, reply,
                 m_stateMutex, m_consumersMutex, pc, leaving, job, observing, nodeVars, completed>>

RemoveUnconfirmedTransaction(t) ==
  /\ TaskAllowed
  /\ m_removeTransactionTasks' = Append(m_removeTransactionTasks, t)
  /\ UNCHANGED <<m_currentState, m_futureState, userVars, dataVars, m_addTransactionTasks, reply,
                 m_stateMutex, m_consumersMutex, pc, leaving, job, observing, nodeVars, completed>>

(* getConsumerState and getConsumerKnownBlocks: m_consumersMutex first,    *)
(* and under it m_stateMutex, for the question whether to throw.           *)
GetConsumerState ==
  /\ userPc = "ready" /\ (ReadsWhileRunning \/ IsStopped) /\ ConsumersFree
  /\ m_consumersMutex' = "user"
  /\ userPc' = "reading"
  /\ UNCHANGED <<m_currentState, m_futureState, m_consumers, dataVars, taskVars, m_stateMutex,
                 pc, leaving, job, observing, nodeVars, completed, used>>

ReturnConsumerState ==
  /\ userPc = "reading" /\ StateFree
  /\ m_consumersMutex' = Free
  /\ userPc' = "ready"
  /\ UNCHANGED <<m_currentState, m_futureState, m_consumers, dataVars, taskVars, m_stateMutex,
                 pc, leaving, job, observing, nodeVars, completed, used>>

-----------------------------------------------------------------------------
(* The node.  It changes first, then copies the list of its observers, and *)
(* calls those on the copy without a lock.  Its main chain grows, or gives *)
(* way to one of more work.                                                *)
BlockchainChanges(b) ==
  /\ Work[b] > Work[nodeTail] /\ Spend("change")
  /\ nodeTail' = b
  /\ catchingUp' \in BOOLEAN
  /\ events' = events \cup {"blockchain"}
  /\ UNCHANGED <<m_currentState, m_futureState, userVars, dataVars, taskVars, m_stateMutex,
                 m_consumersMutex, pc, leaving, job, observing, nodePool, calls, completed>>

LastKnownHeightChanges ==
  /\ Spend("change")
  /\ catchingUp' = ~catchingUp
  /\ events' = events \cup {"blockchain"}
  /\ UNCHANGED <<m_currentState, m_futureState, userVars, dataVars, taskVars, m_stateMutex,
                 m_consumersMutex, pc, leaving, job, observing, nodeTail, nodePool, calls, completed>>

PoolChanges(t) ==
  /\ Spend("change")
  /\ nodePool' = IF t \in nodePool THEN nodePool \ {t} ELSE nodePool \cup {t}
  /\ events' = events \cup {"pool"}
  /\ UNCHANGED <<m_currentState, m_futureState, userVars, dataVars, taskVars, m_stateMutex,
                 m_consumersMutex, pc, leaving, job, observing, nodeTail, catchingUp, calls, completed>>

Announce(e) ==
  /\ e \in events
  /\ events' = events \ {e}
  /\ calls' = IF observing THEN calls \cup {e} ELSE calls
  /\ UNCHANGED <<m_currentState, m_futureState, userVars, dataVars, taskVars, m_stateMutex,
                 m_consumersMutex, pc, leaving, job, observing, nodeTail, nodePool, catchingUp,
                 completed, used>>

(* localBlockchainUpdated, lastKnownBlockHeightUpdated, poolChanged.       *)
Notified(e) ==
  /\ e \in calls /\ StateFree
  /\ SetFutureState(IF e = "pool" THEN poolSync ELSE blockchainSync)
  /\ calls' = calls \ {e}
  /\ UNCHANGED <<m_currentState, userVars, dataVars, taskVars, m_stateMutex, m_consumersMutex, pc,
                 leaving, job, observing, nodeTail, nodePool, catchingUp, events, completed, used>>

-----------------------------------------------------------------------------
(* The worker: workingProcedure.                                           *)
At(l) == pc = l
Goto(l) == pc' = l

CheckIfShouldStop ==
  /\ At("loop") /\ StateFree
  /\ leaving' = (m_futureState = stopped)
  /\ Goto("actualize")
  /\ UNCHANGED <<m_currentState, m_futureState, userVars, dataVars, taskVars, m_stateMutex,
                 m_consumersMutex, job, observing, nodeVars, completed, used>>

(* The first actualization of a run attaches the observer, the last one    *)
(* detaches it.                                                            *)
Observes ==
  \/ m_currentState = stopped /\ m_futureState = blockchainSync
  \/ observing /\ ~(m_futureState = stopped /\ m_currentState # stopped)

(* actualizeFutureState, from the lock to the tasks.                       *)
ActualizeFutureState ==
  /\ At("actualize") /\ StateFree
  /\ m_stateMutex' = "worker"
  /\ observing' = Observes
  /\ Goto("tasks")
  /\ UNCHANGED <<m_currentState, m_futureState, userVars, dataVars, taskVars, m_consumersMutex,
                 leaving, job, nodeVars, completed, used>>

(* The consumers before k have added the transaction when k fails; they    *)
(* are rolled back when k returns an error, and not when it throws.        *)
Before(k) == {c \in m_consumers : c < k}
AddedBefore(k, t) ==
  [c \in Consumer |-> unconfirmed[c] \cup IF c \in Before(k) THEN {t} ELSE {}]
RolledBack(k, t) ==
  [c \in Consumer |-> unconfirmed[c] \ IF c \in Before(k) THEN {t} ELSE {}]

(* A task waits for m_consumersMutex while the worker holds m_stateMutex.  *)
(* A removal has reached the consumers before k when k throws.             *)
DoRemoveUnconfirmedTransaction ==
  /\ At("tasks") /\ m_removeTransactionTasks # <<>> /\ ConsumersFree
  /\ LET t == Head(m_removeTransactionTasks)
     IN  \/ /\ unconfirmed' = [c \in Consumer |-> unconfirmed[c] \ {t}]
            /\ reply' = "ok"
            /\ UNCHANGED used
         \/ \E k \in m_consumers :
              /\ Fails("exception")
              /\ unconfirmed' = RolledBack(k, t)
              /\ reply' = "exception"
  /\ m_removeTransactionTasks' = Tail(m_removeTransactionTasks)
  /\ UNCHANGED <<m_currentState, m_futureState, userVars, m_blockchain, m_poolTxs, lastBlockId,
                 m_addTransactionTasks, m_stateMutex, m_consumersMutex, pc, leaving, job, observing,
                 nodeVars, completed>>

DoAddUnconfirmedTransaction ==
  /\ At("tasks") /\ m_removeTransactionTasks = <<>> /\ m_addTransactionTasks # <<>> /\ ConsumersFree
  /\ LET t == Head(m_addTransactionTasks)
     IN  \/ /\ unconfirmed' = [c \in Consumer |-> unconfirmed[c] \cup IF c \in m_consumers THEN {t} ELSE {}]
            /\ reply' = "ok"
            /\ UNCHANGED used
         \/ \E k \in m_consumers :
              /\ Fails("refusal")
              /\ unconfirmed' = RolledBack(k, t)
              /\ reply' = "error"
         \/ \E k \in m_consumers :
              /\ Fails("exception")
              /\ unconfirmed' = AddedBefore(k, t)
              /\ reply' = "exception"
  /\ m_addTransactionTasks' = Tail(m_addTransactionTasks)
  /\ UNCHANGED <<m_currentState, m_futureState, userVars, m_blockchain, m_poolTxs, lastBlockId,
                 m_removeTransactionTasks, m_stateMutex, m_consumersMutex, pc, leaving, job,
                 observing, nodeVars, completed>>

(* The switch of actualizeFutureState, which gives up m_stateMutex.        *)
AfterSwitch ==
  [s \in {idle, poolSync, blockchainSync, stopped} |->
     CASE s = stopped        -> [future |-> stopped,  pc |-> IF leaving THEN "ended" ELSE "loop"]
       [] s = blockchainSync -> [future |-> poolSync, pc |-> "startBlockchainSync"]
       [] s = poolSync       -> [future |-> idle,     pc |-> "startPoolSync"]
       [] s = idle           -> [future |-> idle,     pc |-> "waiting"]]

SwitchState ==
  /\ At("tasks") /\ m_removeTransactionTasks = <<>> /\ m_addTransactionTasks = <<>>
  /\ m_currentState' = m_futureState
  /\ m_futureState' = AfterSwitch[m_futureState].future
  /\ Goto(AfterSwitch[m_futureState].pc)
  /\ m_stateMutex' = Free
  /\ UNCHANGED <<userVars, dataVars, taskVars, m_consumersMutex, leaving, job, observing, nodeVars,
                 completed, used>>

(* Mutant: tasks do not wake the worker.                                   *)
HasState == m_futureState # idle

(* m_hasWork.wait.                                                         *)
HasWork == m_futureState # idle \/ m_removeTransactionTasks # <<>> \/ m_addTransactionTasks # <<>>

WakeUp ==
  /\ At("waiting") /\ StateFree /\ HasWork
  /\ Goto("loop")
  /\ UNCHANGED <<m_currentState, m_futureState, userVars, dataVars, taskVars, m_stateMutex,
                 m_consumersMutex, leaving, job, observing, nodeVars, completed, used>>

(* The error paths of startBlockchainSync, processBlocks and startPoolSync *)
ReportError ==
  /\ At("failed") /\ StateFree
  /\ IdleUnlessStopped
  /\ completed' = "error"
  /\ job' = NoJob /\ Goto("loop")
  /\ UNCHANGED <<m_currentState, userVars, dataVars, taskVars, m_stateMutex, m_consumersMutex,
                 leaving, observing, nodeVars, used>>

-----------------------------------------------------------------------------
(* The worker's synchronisation steps change neither the task lists, nor   *)
(* who observes, nor the node.                                             *)
syncFrame == <<m_currentState, userVars, taskVars, m_stateMutex, leaving, observing, nodeVars>>

(* Mutant: the comparison the wrong way round.                             *)
Longest ==
  CHOOSE c \in m_consumers : \A d \in m_consumers :
    \/ Len(m_blockchain[c]) > Len(m_blockchain[d])
    \/ Len(m_blockchain[c]) = Len(m_blockchain[d]) /\ c <= d

(* getCommonHistory, of the consumer with the shortest chain, and the      *)
(* query.                                                                  *)
Shortest ==
  CHOOSE c \in m_consumers : \A d \in m_consumers :
    \/ Len(m_blockchain[c]) < Len(m_blockchain[d])
    \/ Len(m_blockchain[c]) = Len(m_blockchain[d]) /\ c <= d

StartBlockchainSync ==
  /\ At("startBlockchainSync") /\ ConsumersFree
  /\ job' = [knownBlocks |-> ShortHistory(m_blockchain[Shortest], Len(NodeChain))]
  /\ Goto("queryBlocks")
  /\ UNCHANGED <<syncFrame, m_futureState, dataVars, m_consumersMutex, completed, used>>

(* core::queryBlocksLite: from the last known block of the main chain on.  *)
QueryBlocks ==
  /\ At("queryBlocks")
  /\ \/ LET start == Max({i \in 1 .. Len(NodeChain) : NodeChain[i] \in job.knownBlocks})
        IN  /\ job' = [start |-> start,
                       blocks |-> SubSeq(NodeChain, start, Min({Len(NodeChain), start + BlockLimit - 1}))]
            /\ Goto("processBlocks")
            /\ UNCHANGED used
     \/ Fails("node") /\ job' = NoJob /\ Goto("failed")
  /\ UNCHANGED <<syncFrame, m_futureState, dataVars, m_consumersMutex, completed>>

(* processBlocks, until it has m_consumersMutex.  A stop breaks its loop,  *)
(* and stays until the worker has ended.                                   *)
ProcessBlocks ==
  /\ At("processBlocks") /\ StateFree
  /\ \/ /\ m_futureState = stopped
        /\ job' = NoJob /\ Goto("processed")
        /\ UNCHANGED used
     \/ /\ m_futureState # stopped
        /\ Goto("updateConsumers")
        /\ UNCHANGED <<job, used>>
     \/ /\ m_futureState # stopped /\ Fails("node")   \* a prefix that does not parse
        /\ job' = NoJob /\ Goto("failed")
  /\ UNCHANGED <<syncFrame, m_futureState, dataVars, m_consumersMutex, completed>>

(* updateConsumers: the consumers before k get the blocks; k refuses them, *)
(* or throws, after it was detached.                                       *)
ChainsBefore(k) ==
  [c \in Consumer |->
     IF c \notin m_consumers \/ c > k THEN m_blockchain[c]
     ELSE IF c < k THEN AddBlocks(m_blockchain[c], job)
     ELSE Detach(m_blockchain[c], job)]

AllChains == [c \in Consumer |->
  IF c \in m_consumers THEN AddBlocks(m_blockchain[c], job) ELSE m_blockchain[c]]

UpdateConsumers ==
  /\ At("updateConsumers") /\ ConsumersFree
  /\ \/ /\ m_blockchain' = AllChains
        /\ job' = [last |-> Last(job.blocks),
                   result |-> IF \E c \in m_consumers : HasNewBlocks(m_blockchain[c], job)
                              THEN "addedNewBlocks" ELSE "nothingChanged"]
        /\ Goto("updated")
        /\ UNCHANGED used
     \/ \E k \in {c \in m_consumers : HasNewBlocks(m_blockchain[c], job)} :
          /\ m_blockchain' = ChainsBefore(k)
          /\ \/ /\ Fails("refusal")
                /\ job' = [last |-> Last(job.blocks), result |-> "errorOccurred"] /\ Goto("updated")
             \/ /\ Fails("exception")
                /\ job' = NoJob /\ Goto("failed")
  /\ UNCHANGED <<syncFrame, m_futureState, m_poolTxs, unconfirmed, lastBlockId, m_consumersMutex,
                 completed>>

(* The rest of processBlocks; synchronizationProgressUpdated is left out.  *)
HandleResult ==
  /\ At("updated") /\ StateFree
  /\ \/ /\ job.result = "errorOccurred"
        /\ IdleUnlessStopped
        /\ completed' = IF m_futureState # stopped THEN "error" ELSE completed
     \/ /\ job.result = "nothingChanged" /\ ~catchingUp
        /\ UNCHANGED <<m_futureState, completed>>
     \/ /\ job.result = "addedNewBlocks" \/ (job.result = "nothingChanged" /\ catchingUp)
        /\ SetFutureState(blockchainSync)
        /\ UNCHANGED completed
  /\ lastBlockId' = job.last
  /\ job' = NoJob /\ Goto("processed")
  /\ UNCHANGED <<syncFrame, m_blockchain, m_poolTxs, unconfirmed, m_consumersMutex, used>>

NotifyInterrupted ==
  /\ At("processed") /\ StateFree
  /\ completed' = IF m_futureState = stopped THEN "interrupted" ELSE completed
  /\ Goto("loop")
  /\ UNCHANGED <<syncFrame, m_futureState, dataVars, m_consumersMutex, job, used>>

-----------------------------------------------------------------------------
(* startPoolSync.                                                          *)
PoolUnion == UNION {m_poolTxs[c] : c \in m_consumers}
PoolIntersection == {t \in PoolUnion : \A c \in m_consumers : t \in m_poolTxs[c]}

StartPoolSync ==
  /\ At("startPoolSync") /\ ConsumersFree
  /\ job' = [known |-> PoolUnion, both |-> PoolIntersection]
  /\ Goto("queryUnion")
  /\ UNCHANGED <<syncFrame, m_futureState, dataVars, m_consumersMutex, completed, used>>

(* getPoolSymmetricDifference: core::getPoolChanges.                       *)
Difference(known) == [actual |-> lastBlockId = nodeTail, new |-> nodePool \ known,
                      deleted |-> known \ nodePool]

QueryUnion ==
  /\ At("queryUnion")
  /\ \/ /\ job' = [both |-> job.both, same |-> job.known = job.both, answer |-> Difference(job.known)]
        /\ Goto("unionAnswered")
        /\ UNCHANGED used
     \/ Fails("node") /\ job' = NoJob /\ Goto("failed")
  /\ UNCHANGED <<syncFrame, m_futureState, dataVars, m_consumersMutex, completed>>

ApplyTo(new, deleted) ==
  /\ job' = [new |-> new, deleted |-> deleted, left |-> m_consumers]
  /\ Goto("processPoolTxs")

(* The chain of the consumers is not the node's any more.                  *)
BlockchainOutdated ==
  /\ ~job.answer.actual /\ StateFree
  /\ SetFutureState(blockchainSync)
  /\ job' = NoJob /\ Goto("loop")

UnionAnswered ==
  /\ At("unionAnswered")
  /\ \/ BlockchainOutdated
     \/ /\ job.answer.actual /\ job.same
        /\ ApplyTo(job.answer.new, job.answer.deleted)
        /\ UNCHANGED m_futureState
     \/ /\ job.answer.actual /\ ~job.same
        /\ job' = [known |-> job.both, deleted |-> job.answer.deleted]
        /\ Goto("queryIntersection")
        /\ UNCHANGED m_futureState
  /\ UNCHANGED <<syncFrame, dataVars, m_consumersMutex, completed, used>>

QueryIntersection ==
  /\ At("queryIntersection")
  /\ \/ /\ job' = [deleted |-> job.deleted, answer |-> Difference(job.known)]
        /\ Goto("intersectionAnswered")
        /\ UNCHANGED used
     \/ Fails("node") /\ job' = NoJob /\ Goto("failed")
  /\ UNCHANGED <<syncFrame, m_futureState, dataVars, m_consumersMutex, completed>>

IntersectionAnswered ==
  /\ At("intersectionAnswered")
  /\ \/ BlockchainOutdated
     \/ job.answer.actual /\ ApplyTo(job.answer.new, job.deleted) /\ UNCHANGED m_futureState
  /\ UNCHANGED <<syncFrame, dataVars, m_consumersMutex, completed, used>>

(* processPoolTxs holds m_consumersMutex over all consumers, and asks      *)
(* before each whether to stop.                                            *)
LockConsumers ==
  /\ At("processPoolTxs") /\ ConsumersFree
  /\ m_consumersMutex' = "worker"
  /\ Goto("onPoolUpdated")
  /\ UNCHANGED <<syncFrame, m_futureState, dataVars, job, completed, used>>

FinishPool(result) ==
  /\ completed' = result
  /\ m_consumersMutex' = Free
  /\ job' = NoJob /\ Goto("loop")

(* TransfersConsumer::onPoolUpdated: a transaction that fails stays among  *)
(* the known ones, and nothing is deleted.                                 *)
OnPoolUpdated ==
  /\ At("onPoolUpdated") /\ job.left # {} /\ StateFree
  /\ LET c == Min(job.left)
     IN  \/ /\ m_futureState = stopped
            /\ FinishPool("interrupted")
            /\ UNCHANGED <<m_poolTxs, unconfirmed, used>>
         \/ /\ m_futureState # stopped
            /\ m_poolTxs' = [m_poolTxs EXCEPT ![c] = (@ \cup job.new) \ job.deleted]
            /\ unconfirmed' = [unconfirmed EXCEPT ![c] = (@ \cup job.new) \ job.deleted]
            /\ job' = [job EXCEPT !.left = @ \ {c}]
            /\ UNCHANGED <<pc, m_consumersMutex, completed, used>>
         \/ /\ m_futureState # stopped /\ Fails("refusal")
            /\ \E s \in SUBSET job.new : \E t \in s :
                 /\ m_poolTxs' = [m_poolTxs EXCEPT ![c] = @ \cup s]
                 /\ unconfirmed' = [unconfirmed EXCEPT ![c] = @ \cup (s \ {t})]
            /\ FinishPool("error")
  /\ UNCHANGED <<syncFrame, m_futureState, m_blockchain, lastBlockId>>

PoolProcessed ==
  /\ At("onPoolUpdated") /\ job.left = {}
  /\ FinishPool("ok")
  /\ UNCHANGED <<syncFrame, m_futureState, dataVars, used>>

-----------------------------------------------------------------------------
User ==
  \/ \E c \in Consumer : AddConsumer(c) \/ RemoveConsumer(c)
  \/ Start \/ Stop \/ Join
  \/ \E t \in Tx : AddUnconfirmedTransaction(t) \/ RemoveUnconfirmedTransaction(t)
  \/ GetConsumerState \/ ReturnConsumerState

Node ==
  \/ \E b \in Block : BlockchainChanges(b)
  \/ LastKnownHeightChanges
  \/ \E t \in Tx : PoolChanges(t)

Announcements == \E e \in {"blockchain", "pool"} : Announce(e) \/ Notified(e)

Worker ==
  \/ CheckIfShouldStop \/ ActualizeFutureState \/ DoRemoveUnconfirmedTransaction
  \/ DoAddUnconfirmedTransaction \/ SwitchState \/ WakeUp \/ ReportError
  \/ StartBlockchainSync \/ QueryBlocks \/ ProcessBlocks \/ UpdateConsumers \/ HandleResult
  \/ NotifyInterrupted
  \/ StartPoolSync \/ QueryUnion \/ UnionAnswered \/ QueryIntersection \/ IntersectionAnswered
  \/ LockConsumers \/ OnPoolUpdated \/ PoolProcessed

Next == User \/ Node \/ Announcements \/ Worker

(* The threads run on: the worker, the node's answers and callbacks, and a *)
(* call of the user that has begun.  Nothing makes the user call, or the   *)
(* node change.                                                            *)
Spec ==
  /\ Init /\ [][Next]_vars
  /\ WF_vars(Worker)
  /\ \A e \in {"blockchain", "pool"} : WF_vars(Announce(e)) /\ WF_vars(Notified(e))
  /\ WF_vars(Join) /\ WF_vars(ReturnConsumerState)

-----------------------------------------------------------------------------
Running == pc \notin {"none", "ended"} /\ m_futureState # stopped
SyncedBlockchain == \A c \in m_consumers : m_blockchain[c] = NodeChain
Synced == SyncedBlockchain /\ \A c \in m_consumers : m_poolTxs[c] = nodePool

(* Types; and who holds a mutex is where it takes it.                      *)
TypeOK ==
  /\ m_currentState \in idle .. stopped /\ m_futureState \in idle .. stopped
  /\ m_consumers \subseteq Consumer
  /\ m_blockchain \in [Consumer -> Seq(Block)]
  /\ m_poolTxs \in [Consumer -> SUBSET Tx] /\ unconfirmed \in [Consumer -> SUBSET Tx]
  /\ lastBlockId \in Block \cup {NoBlock}
  /\ m_addTransactionTasks \in Seq(Tx) /\ m_removeTransactionTasks \in Seq(Tx)
  /\ m_stateMutex = IF At("tasks") THEN "worker" ELSE Free
  /\ m_consumersMutex = IF At("onPoolUpdated") THEN "worker"
                        ELSE IF userPc = "reading" THEN "user" ELSE Free
  /\ pc \in {"none", "loop", "actualize", "tasks", "waiting", "failed", "ended",
             "startBlockchainSync", "queryBlocks", "processBlocks", "updateConsumers", "updated",
             "processed", "startPoolSync", "queryUnion", "unionAnswered", "queryIntersection",
             "intersectionAnswered", "processPoolTxs", "onPoolUpdated"}
  /\ userPc \in {"ready", "joining", "reading"}
  /\ leaving \in BOOLEAN /\ observing \in BOOLEAN /\ catchingUp \in BOOLEAN
  /\ nodeTail \in Block /\ nodePool \subseteq Tx
  /\ events \subseteq {"blockchain", "pool"} /\ calls \subseteq {"blockchain", "pool"}
  /\ completed \in {"none", "ok", "error", "interrupted"}
  /\ reply \in {"none", "ok", "error", "exception"}

(* The chain a consumer keeps is a path of the block tree, whatever the    *)
(* node switched to between query and answer: updateConsumers detaches each*)
(* where it leaves the interval, and the interval begins no later than the *)
(* shortest chain.  It holds while no consumer refuses blocks, and with two*)
(* consumers when one does; a third, which the refusal kept on the old     *)
(* chain, may miss the fork once the one that refused is gone.             *)
ChainsLinked == \A c \in m_consumers :
  Len(m_blockchain[c]) > 0 /\ m_blockchain[c] = PathTo[Last(m_blockchain[c])]

(* The asserts of checkInterval, detach and addBlocks: an interval from    *)
(* the node leaves no gap after the chain of any consumer, and a detach    *)
(* keeps the genesis block.                                                *)
IntervalFits == At("updateConsumers") =>
  \A c \in m_consumers : /\ job.start <= Len(m_blockchain[c]) + 1
                         /\ Detach(m_blockchain[c], job) # <<>>

(* When no call fails, a worker that waits with no notification under way  *)
(* has left no consumer behind the node: no notification is lost to a      *)
(* change of m_futureState, and none comes between a query and its use.    *)
WaitingMeansSynced ==
  At("waiting") /\ m_futureState = idle /\ events = {} /\ calls = {} => Synced

(* A successful synchronizationCompleted comes with the chain of every     *)
(* consumer at lastBlockId, which the node has confirmed as its tail.      *)
CompletedMeansUpToDate ==
  [][At("onPoolUpdated") /\ pc' = "loop" /\ completed' = "ok" =>
       \A c \in m_consumers : Last(m_blockchain[c]) = lastBlockId]_vars

(* addUnconfirmedTransaction that answers with an error has added nothing  *)
(* to any consumer.                                                        *)
FailedAddLeavesNothing ==
  [][Len(m_addTransactionTasks') < Len(m_addTransactionTasks) /\ reply' = "error" =>
       \A c \in Consumer : unconfirmed'[c] \subseteq unconfirmed[c]]_vars

(* Only start ends a stop: a request to stop survives every notification,  *)
(* error path and change of state until the thread is joined.              *)
StopIsKept == [][m_futureState = stopped /\ m_futureState' # stopped => pc = "none"]_vars

(* Calls return: a user who waits for the worker to end, or for a task,    *)
(* even one that was queued just before the stop, does not wait for ever.  *)
CallsReturn ==
  []<>(userPc # "joining" /\ m_addTransactionTasks = <<>> /\ m_removeTransactionTasks = <<>>)

(* A node that has caught up and changes no more gets its chain and its    *)
(* pool to every consumer, unless the synchronizer is stopped.             *)
EventuallySynced == <>[](Running /\ ~catchingUp => Synced)
=============================================================================
