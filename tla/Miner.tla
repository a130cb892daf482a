-------------------------------- MODULE Miner --------------------------------
(***************************************************************************)
(* cryptonote/core/Miner.cpp with the calls of core.cpp that drive it: the *)
(* worker threads, the console thread that starts and stops them, and the  *)
(* dispatcher thread, whose contexts add blocks from the network, refresh  *)
(* the block template and start and stop the miner too.  A step ends where *)
(* another thread can see its effect: at an atomic, at a lock, or at the   *)
(* yield between two blocks of a response.                                 *)
(* A block template is known by the block it is built on, and that block   *)
(* by its height: the main chain only grows here, and a block that is      *)
(* mined on an older one goes to the alternative chains.  m_template_no is *)
(* seen through the question that a worker asks of it: is it the number    *)
(* that I noted?  A request for a template can fail, and so can the long   *)
(* hash.  Nonces, hash rates and extra messages are left out.              *)
(***************************************************************************)
EXTENDS Naturals, FiniteSets

CONSTANTS
  Worker,    \* mining threads
  Sync,      \* contexts of the dispatcher that add blocks of a peer
  MaxBlocks, \* bound: height up to which peers bring blocks
  MaxAdds,   \* bound: times that a context begins to add blocks
  MaxFound,  \* bound: blocks that the workers find
  MaxCalls   \* bound: calls of start and stop

ASSUME MinerAssumption ==
  /\ Worker \cap Sync = {} /\ {"rpc", "console", "none"} \cap (Worker \cup Sync) = {}
  /\ IsFiniteSet(Worker) /\ IsFiniteSet(Sync)
  /\ MaxBlocks \in Nat /\ MaxAdds \in Nat /\ MaxFound \in Nat /\ MaxCalls \in Nat

Context == Sync \cup {"rpc"}          \* share the dispatcher thread
Caller == {"rpc", "console"}          \* start and stop mining
Thread == Worker \cup Context \cup {"console"}

VARIABLES
  tail,     \* height of the main chain
  running,  \* the context that has the dispatcher thread
  pc,       \* where each thread or context is
  stop,     \* m_stop
  template, \* m_template; none before the first set_block_template
  current,  \* workers whose local_template_ver is m_template_no
  block,    \* b of each worker
  taken,    \* the template that a thread has got and not yet set
  pausers,  \* m_pausers_count
  lock,     \* owner of m_threads_lock
  threads,  \* m_threads
  adds, found, calls

vars == <<tail, running, pc, stop, template, current, block, taken, pausers, lock, threads,
          adds, found, calls>>
miner == <<stop, template, current, block, lock, threads>>
budget == <<adds, found, calls>>

None == MaxBlocks + MaxFound + 1

Init ==
  /\ tail = 0 /\ running = "none"
  /\ pc = [p \in Thread |-> IF p \in Worker THEN "off" ELSE "idle"]
  /\ stop = TRUE /\ template = None /\ current = {} /\ block = [w \in Worker |-> None]
  /\ taken = [p \in Thread |-> None] /\ pausers = 0 /\ lock = "none" /\ threads = {}
  /\ adds = 0 /\ found = 0 /\ calls = 0

(* A context keeps the dispatcher thread until it waits for something that *)
(* wakes it through the dispatcher; a mutex or a join does not.            *)
Goto(p, from, to) ==
  /\ pc[p] = from /\ pc' = [pc EXCEPT ![p] = to]
  /\ IF p \in Context
     THEN running \in {"none", p} /\ running' = IF to \in {"idle", "add"} THEN "none" ELSE p
     ELSE UNCHANGED running

-----------------------------------------------------------------------------
(* Templates.                                                              *)

(* A request that fails logs "stopping mining" and leaves everything as it *)
(* is: what follows it, start included, goes on with the template there    *)
(* was.                                                                    *)
request_block_template(p, from, then) ==
  \/ Goto(p, from, "set") /\ taken' = [taken EXCEPT ![p] = tail]
  \/ Goto(p, from, then) /\ UNCHANGED taken

(* on_block_chain_update and on_idle ask for one only while mining; after  *)
(* it a thread goes on with what it has asked for it.                      *)
Then(p) == IF lock = p THEN "run" ELSE IF p = "rpc" THEN "idle" ELSE "resume"
on_block_chain_update(p, from) ==
  \/ stop /\ Goto(p, from, Then(p)) /\ UNCHANGED taken
  \/ ~stop /\ request_block_template(p, from, Then(p))

(* Mutant: m_template_no is not advanced.                                  *)
set_block_template_same(p) ==
  /\ Goto(p, "set", Then(p))
  /\ template' = taken[p]
  /\ taken' = [taken EXCEPT ![p] = None]
  /\ UNCHANGED <<tail, stop, current, block, pausers, lock, threads, budget>>
set_block_template(p) ==
  /\ Goto(p, "set", Then(p))
  /\ template' = taken[p] /\ current' = {}
  /\ taken' = [taken EXCEPT ![p] = None]
  /\ UNCHANGED <<tail, stop, block, pausers, lock, threads, budget>>

on_idle ==
  /\ ~stop /\ request_block_template("rpc", "idle", "idle")
  /\ UNCHANGED <<tail, miner, pausers, budget>>

-----------------------------------------------------------------------------
(* A response with blocks: pause, the blocks with a yield after each, the  *)
(* new template, resume.                                                   *)

pause(p, from) == Goto(p, from, "add") /\ pausers' = pausers + 1

(* Mutant: resume() clears the count.                                      *)
resumeAll(p) ==
  /\ Goto(p, "resume", IF p \in Worker THEN "check" ELSE "idle")
  /\ pausers' = 0
  /\ UNCHANGED <<tail, taken, miner, budget>>
resume(p) ==
  /\ Goto(p, "resume", IF p \in Worker THEN "check" ELSE "idle")
  /\ pausers' = IF pausers = 0 THEN 0 ELSE pausers - 1
  /\ UNCHANGED <<tail, taken, miner, budget>>

BeginResponse(s) ==
  /\ adds < MaxAdds /\ adds' = adds + 1
  /\ pause(s, "idle")
  /\ UNCHANGED <<tail, taken, miner, found, calls>>

AddResponseBlock(s) ==
  /\ tail < MaxBlocks /\ tail' = tail + 1
  /\ Goto(s, "add", "add")
  /\ UNCHANGED <<taken, miner, pausers, budget>>

EndResponse(s) ==
  /\ on_block_chain_update(s, "add")
  /\ UNCHANGED <<tail, miner, pausers, budget>>

-----------------------------------------------------------------------------
(* start and stop.                                                         *)

CallStart(p) ==
  /\ calls < MaxCalls /\ calls' = calls + 1
  /\ stop /\ Goto(p, "idle", "start")
  /\ UNCHANGED <<tail, taken, miner, pausers, adds, found>>

(* Refused while threads of an earlier start are not joined.               *)
StartLocked(p) ==
  /\ lock = "none"
  /\ \/ /\ threads # {} /\ Goto(p, "start", "idle") /\ UNCHANGED <<lock, taken>>
     \/ /\ threads = {} /\ template # None /\ Goto(p, "start", "run")
        /\ lock' = p /\ UNCHANGED taken
     \/ /\ threads = {} /\ template = None /\ request_block_template(p, "start", "run")
        /\ lock' = p
  /\ UNCHANGED <<tail, stop, template, current, block, pausers, threads, budget>>

StartWorkers(p) ==
  /\ pc[p] = "run" /\ pc' = [q \in Thread |->
       IF q = p THEN "idle" ELSE IF q \in Worker THEN "check" ELSE pc[q]]
  /\ running' = IF p \in Context THEN "none" ELSE running
  /\ stop' = FALSE /\ threads' = Worker /\ lock' = "none"
  /\ block' = [w \in Worker |-> None] /\ current' = {}
  /\ UNCHANGED <<tail, template, taken, pausers, budget>>

CallStop(p) ==
  /\ calls < MaxCalls /\ calls' = calls + 1
  /\ Goto(p, "idle", "stop") /\ stop' = TRUE
  /\ UNCHANGED <<tail, template, current, block, taken, pausers, lock, threads, adds, found>>

StopLocked(p) ==
  /\ lock = "none" /\ lock' = p
  /\ Goto(p, "stop", "join")
  /\ UNCHANGED <<tail, stop, template, current, block, taken, pausers, threads, budget>>

StopJoined(p) ==
  /\ \A w \in threads : pc[w] = "off"
  /\ Goto(p, "join", "idle")
  /\ threads' = {} /\ lock' = "none"
  /\ UNCHANGED <<tail, stop, template, current, block, taken, pausers, budget>>

-----------------------------------------------------------------------------
(* worker_thread.                                                          *)

(* A worker that has seen no template, for none was set, sleeps.           *)
Look(w) ==
  IF stop THEN "off" ELSE IF template = None THEN "check"
  ELSE IF w \notin current THEN "copy" ELSE "hash"

(* Mutant: the pause is waited for before m_stop is looked at.             *)
LoopTestPaused(w) ==
  /\ pausers = 0
  /\ Goto(w, "check", Look(w))
  /\ UNCHANGED <<tail, taken, miner, pausers, budget>>
LoopTest(w) ==
  /\ stop \/ pausers = 0
  /\ Goto(w, "check", Look(w))
  /\ UNCHANGED <<tail, taken, miner, pausers, budget>>

(* m_template is copied under the lock, m_template_no is read after it.    *)
CopyTemplate(w) ==
  /\ Goto(w, "copy", "version")
  /\ block' = [block EXCEPT ![w] = template]
  /\ UNCHANGED <<tail, stop, template, current, taken, pausers, lock, threads, budget>>

NoteVersion(w) ==
  /\ Goto(w, "version", "hash")
  /\ current' = current \cup {w}
  /\ UNCHANGED <<tail, stop, template, block, taken, pausers, lock, threads, budget>>

HashMissed(w) ==
  /\ Goto(w, "hash", "check")
  /\ UNCHANGED <<tail, taken, miner, pausers, budget>>

(* A long hash that fails ends the work of all, threads unjoined.          *)
HashFails(w) ==
  /\ ~stop /\ stop' = TRUE
  /\ Goto(w, "hash", "check")
  /\ UNCHANGED <<tail, template, current, block, taken, pausers, lock, threads, budget>>

(* handle_block_found: handle_incoming_block with control_miner.           *)
HashFound(w) ==
  /\ ~stop /\ found < MaxFound /\ found' = found + 1
  /\ pause(w, "hash")
  /\ UNCHANGED <<tail, taken, miner, adds, calls>>

AddFoundBlock(w) ==
  /\ tail' = IF block[w] = tail THEN tail + 1 ELSE tail
  /\ Goto(w, "add", "update")
  /\ UNCHANGED <<taken, miner, pausers, budget>>

UpdateAfterFound(w) ==
  /\ on_block_chain_update(w, "update")
  /\ UNCHANGED <<tail, miner, pausers, budget>>

-----------------------------------------------------------------------------
WorkerStep(w) ==
  \/ LoopTest(w) \/ CopyTemplate(w) \/ NoteVersion(w) \/ HashMissed(w) \/ HashFails(w)
  \/ HashFound(w) \/ AddFoundBlock(w) \/ UpdateAfterFound(w) \/ set_block_template(w) \/ resume(w)
SyncStep(s) == EndResponse(s) \/ set_block_template(s) \/ resume(s)
CallerStep(p) ==
  set_block_template(p) \/ StartLocked(p) \/ StartWorkers(p) \/ StopLocked(p) \/ StopJoined(p)

Next ==
  \/ \E w \in Worker : WorkerStep(w)
  \/ \E s \in Sync : BeginResponse(s) \/ AddResponseBlock(s) \/ SyncStep(s)
  \/ \E p \in Caller : CallStart(p) \/ CallStop(p) \/ CallerStep(p)
  \/ on_idle

(* Threads run, and the dispatcher runs the contexts that are ready.       *)
Fairness ==
  /\ \A w \in Worker : WF_vars(WorkerStep(w))
  /\ \A s \in Sync : SF_vars(SyncStep(s))
  /\ \A p \in Caller : SF_vars(CallerStep(p))

Spec == Init /\ [][Next]_vars /\ Fairness

-----------------------------------------------------------------------------
TypeOK ==
  /\ tail \in 0 .. None - 1 /\ running \in Context \cup {"none"}
  /\ pc \in [Thread -> {"off", "idle", "check", "copy", "version", "hash", "add", "update",
                        "set", "resume", "start", "run", "stop", "join"}]
  /\ stop \in BOOLEAN /\ template \in 0 .. None /\ current \subseteq Worker
  /\ block \in [Worker -> 0 .. None] /\ taken \in [Thread -> 0 .. None]
  /\ pausers \in Nat /\ lock \in Caller \cup {"none"} /\ threads \subseteq Worker

(* Mining stays paused until the last of those who add blocks is done,     *)
(* however their pauses overlap, and resume() is never unexpected.         *)
Pausing(p) == pc[p] \in {"add", "update", "resume"} \/ (pc[p] = "set" /\ p \in Worker \cup Sync)
PausesBalance == pausers = Cardinality({p \in Thread : Pausing(p)})

(* A miner that is left running, and whose requests in on_idle succeed     *)
(* again and again, comes to work on the top of the main chain, although   *)
(* others of its requests fail, templates are set in another order than    *)
(* they were read, a worker may note the number of a template it has not   *)
(* copied, and a restart begins with the template of the time before, or   *)
(* with none.  (A stop that a start overtakes waits for the workers, with  *)
(* m_threads_lock.)                                                        *)
MiningOn(b) == \A w \in Worker : pc[w] = "hash" => block[w] = b
LeftRunning == <>[](~stop /\ lock = "none")
OnIdleRenews == []<><<on_idle /\ pc'["rpc"] = "set">>_vars
FinallyMinesOnTop == LeftRunning /\ OnIdleRenews => <>[]MiningOn(tail)

(* stop() returns once the workers have seen the signal, unless a start()  *)
(* that runs at the same time takes the signal back.                       *)
StopReturns == \A p \in Caller : pc[p] = "join" /\ stop ~> pc[p] # "join" \/ ~stop
=============================================================================
