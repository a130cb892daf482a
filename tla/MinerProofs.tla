----------------------------- MODULE MinerProofs -----------------------------
EXTENDS Miner, FiniteSetTheorems, TLAPS

(***************************************************************************)
(* Pauses balance for every number of workers, of contexts that add blocks *)
(* and of calls.  PausesBalance alone is not inductive: a start puts every *)
(* worker at the head of its loop, which would lose the pause of a worker  *)
(* that still runs.  StartInv says why none does.                          *)
(***************************************************************************)

(* Where a thread can be, and where each kind of thread can be.            *)
Place == {"off", "idle", "check", "copy", "version", "hash", "add", "update", "set", "resume",
          "start", "run", "stop", "join"}
PlaceInv ==
  /\ pc \in [Thread -> Place]
  /\ \A w \in Worker : pc[w] \in {"off", "check", "copy", "version", "hash", "add", "update",
                                  "set", "resume"}
  /\ \A s \in Sync : pc[s] \in {"idle", "add", "set", "resume"}
  /\ \A p \in Caller : pc[p] \in {"idle", "start", "run", "set", "stop", "join"}
  /\ lock \in Caller \cup {"none"}
  /\ threads \in {{}, Worker}

(* Who holds m_threads_lock, that a start which holds it has found no      *)
(* threads, and that threads that were joined have ended.                  *)
StartInv ==
  /\ \A p \in Caller :
       /\ lock = p => pc[p] \in {"run", "join", "set"}
       /\ pc[p] \in {"run", "join"} => lock = p
       /\ lock = p /\ pc[p] \in {"run", "set"} => threads = {}
  /\ pc["console"] = "set" => lock = "console"
  /\ threads = {} => \A w \in Worker : pc[w] = "off"

Inv == PlaceInv /\ StartInv /\ PausesBalance

Paused == {p \in Thread : Pausing(p)}

-----------------------------------------------------------------------------
LEMMA ThreadsAreDistinct ==
  /\ IsFiniteSet(Thread)
  /\ \A w \in Worker : w \in Thread /\ w \notin Caller /\ w \notin Sync /\ w \notin Context
                       /\ w # "none"
  /\ \A s \in Sync : s \in Thread /\ s \notin Caller /\ s \notin Worker /\ s \in Context
                     /\ s # "none"
  /\ \A p \in Caller : p \in Thread /\ p \notin Worker /\ p \notin Sync /\ p # "none"
  /\ \A t \in Thread : t \in Worker \/ t \in Sync \/ t \in Caller
  <1>1. Thread = (Worker \cup Sync) \cup {"rpc", "console"}
    BY DEF Thread, Context
  <1>2. IsFiniteSet({"rpc", "console"})
    <2>1. IsFiniteSet({"rpc"})
      BY FS_Singleton
    <2>2. IsFiniteSet({"rpc"} \cup {"console"})
      BY <2>1, FS_AddElement
    <2> QED BY <2>2
  <1>3. IsFiniteSet(Worker \cup Sync)
    BY MinerAssumption, FS_Union
  <1>4. IsFiniteSet(Thread)
    BY <1>1, <1>2, <1>3, FS_Union
  <1> QED BY <1>1, <1>4, MinerAssumption DEF Caller, Context

(* What pause, resume and the other steps do to the number of those who    *)
(* pause.                                                                  *)
LEMMA PausedFinite == IsFiniteSet(Paused) /\ Cardinality(Paused) \in Nat
  <1>1. Paused \subseteq Thread
    BY DEF Paused
  <1> QED BY <1>1, ThreadsAreDistinct, FS_Subset, FS_CardinalityType

LEMMA PauseKept ==
  ASSUME PausesBalance, Paused' = Paused, UNCHANGED pausers
  PROVE  PausesBalance'
  BY DEF PausesBalance, Paused

LEMMA PauseBegins ==
  ASSUME PausesBalance, NEW p, p \notin Paused, Paused' = Paused \cup {p}, pausers' = pausers + 1
  PROVE  PausesBalance'
  <1>1. Cardinality(Paused \cup {p}) = Cardinality(Paused) + 1
    BY PausedFinite, FS_AddElement
  <1>2. pausers = Cardinality(Paused)
    BY DEF PausesBalance, Paused
  <1>3. pausers' = Cardinality(Paused')
    BY <1>1, <1>2
  <1> QED BY <1>3 DEF PausesBalance, Paused

LEMMA PauseEnds ==
  ASSUME PausesBalance, NEW p, p \in Paused, Paused' = Paused \ {p},
         pausers' = IF pausers = 0 THEN 0 ELSE pausers - 1
  PROVE  PausesBalance'
  <1>1. Cardinality(Paused \ {p}) = Cardinality(Paused) - 1
    BY PausedFinite, FS_RemoveElement
  <1>2. Cardinality(Paused \ {p}) \in Nat
    BY PausedFinite, FS_RemoveElement, FS_CardinalityType
  <1>3. pausers = Cardinality(Paused)
    BY DEF PausesBalance, Paused
  <1>4. pausers' = Cardinality(Paused')
    BY <1>1, <1>2, <1>3, PausedFinite
  <1> QED BY <1>4 DEF PausesBalance, Paused

(* A step of one thread: only its own pause can change.                    *)
LEMMA OnlyOneMoves ==
  ASSUME PlaceInv, NEW p \in Thread, NEW from, NEW to, Goto(p, from, to)
  PROVE  /\ pc[p] = from
         /\ pc'[p] = to
         /\ \A q \in Thread : q # p => pc'[q] = pc[q]
         /\ pc' = [pc EXCEPT ![p] = to]
         /\ Paused' \ {p} = Paused \ {p}
         /\ p \in Paused <=> Pausing(p)
         /\ p \in Paused' <=> Pausing(p)'
  BY DEF Goto, PlaceInv, Paused, Pausing

(* A worker that is in its loop goes on in it, or leaves it once m_stop is *)
(* set; the threads are not joined meanwhile.                              *)
LEMMA WorkerMoves ==
  ASSUME PlaceInv, StartInv, NEW w \in Worker, NEW from, NEW to, Goto(w, from, to),
         from # "off", UNCHANGED <<lock, threads>>,
         to \in {"off", "check", "copy", "version", "hash", "add", "update", "set", "resume"}
  PROVE  PlaceInv' /\ StartInv'
  <1>1. /\ w \in Thread /\ \A p \in Caller : p # w /\ p \in Thread
        /\ \A s \in Sync : s # w /\ s \in Thread
        /\ \A v \in Worker : v \in Thread
        /\ "console" \in Caller
    BY ThreadsAreDistinct DEF Caller
  <1>2. /\ pc[w] = from /\ pc' = [pc EXCEPT ![w] = to] /\ pc \in [Thread -> Place]
    BY <1>1, OnlyOneMoves DEF PlaceInv
  <1>3. \A q \in Thread : pc'[q] = IF q = w THEN to ELSE pc[q]
    BY <1>1, <1>2
  <1>4. PlaceInv'
    <2>1. pc' \in [Thread -> Place]
      BY <1>2 DEF Place
    <2> QED BY <1>1, <1>3, <2>1 DEF PlaceInv
  <1>5. threads # {}
    BY <1>2 DEF StartInv
  <1> QED BY <1>1, <1>3, <1>4, <1>5 DEF StartInv

(* A context that adds the blocks of a peer has nothing to do with the     *)
(* start and the stop of the miner.                                        *)
LEMMA SyncMoves ==
  ASSUME PlaceInv, StartInv, NEW s \in Sync, NEW from, NEW to, Goto(s, from, to),
         UNCHANGED <<lock, threads>>, to \in {"idle", "add", "set", "resume"}
  PROVE  PlaceInv' /\ StartInv'
  <1>1. /\ s \in Thread /\ \A p \in Caller : p # s /\ p \in Thread
        /\ \A v \in Worker : v # s /\ v \in Thread
        /\ \A t \in Sync : t \in Thread
        /\ "console" \in Caller
    BY ThreadsAreDistinct DEF Caller
  <1>2. /\ pc' = [pc EXCEPT ![s] = to] /\ pc \in [Thread -> Place]
    BY <1>1, OnlyOneMoves DEF PlaceInv
  <1>3. \A q \in Thread : pc'[q] = IF q = s THEN to ELSE pc[q]
    BY <1>1, <1>2
  <1>4. PlaceInv'
    <2>1. pc' \in [Thread -> Place]
      BY <1>2 DEF Place
    <2> QED BY <1>1, <1>3, <2>1 DEF PlaceInv
  <1> QED BY <1>1, <1>3, <1>4 DEF StartInv

(* A caller pauses nothing: a step of one keeps the balance.               *)
LEMMA CallerMoves ==
  ASSUME PlaceInv, PausesBalance, NEW p \in Caller, NEW from, NEW to, Goto(p, from, to),
         UNCHANGED pausers, to \in {"idle", "start", "run", "set", "stop", "join"}
  PROVE  /\ PausesBalance'
         /\ pc[p] = from
         /\ \A q \in Thread : pc'[q] = IF q = p THEN to ELSE pc[q]
         /\ pc' \in [Thread -> Place]
         /\ \A q \in Caller : pc'[q] \in {"idle", "start", "run", "set", "stop", "join"}
  <1>1. p \in Thread /\ p \notin Worker /\ p \notin Sync
    BY ThreadsAreDistinct
  <1>2. pc[p] = from /\ pc'[p] = to /\ pc' = [pc EXCEPT ![p] = to] /\ Paused' \ {p} = Paused \ {p}
        /\ (p \in Paused <=> Pausing(p)) /\ (p \in Paused' <=> Pausing(p)')
    BY <1>1, OnlyOneMoves
  <1>3. ~Pausing(p) /\ ~Pausing(p)'
    BY <1>1, <1>2 DEF Pausing, PlaceInv
  <1>4. Paused' = Paused
    BY <1>2, <1>3
  <1>5. PausesBalance'
    BY <1>4, PauseKept
  <1>6. pc \in [Thread -> Place]
    BY DEF PlaceInv
  <1>7. \A q \in Thread : pc'[q] = IF q = p THEN to ELSE pc[q]
    BY <1>1, <1>2, <1>6
  <1>8. \A q \in Caller : q \in Thread
    BY ThreadsAreDistinct
  <1>9. pc' \in [Thread -> Place]
    BY <1>2, <1>6 DEF Place
  <1> QED BY <1>2, <1>5, <1>7, <1>8, <1>9 DEF PlaceInv

(* Where the other threads are after a step of a caller.                   *)
LEMMA OthersStay ==
  ASSUME PlaceInv, NEW p \in Caller, NEW to, threads' \in {{}, Worker}, lock' \in Caller \cup {"none"},
         \A q \in Thread : pc'[q] = IF q = p THEN to ELSE pc[q],
         pc' \in [Thread -> Place],
         \A q \in Caller : pc'[q] \in {"idle", "start", "run", "set", "stop", "join"}
  PROVE  /\ PlaceInv'
         /\ \A w \in Worker : pc'[w] = pc[w]
  <1>1. \A w \in Worker \cup Sync : w \in Thread /\ w # p
    BY ThreadsAreDistinct
  <1> QED BY <1>1 DEF PlaceInv

(* The steps of a worker between two tests of its loop that neither pause  *)
(* nor resume.                                                             *)
LEMMA PauseStays ==
  ASSUME PlaceInv, PausesBalance, NEW p \in Worker \cup Sync, NEW from, NEW to, Goto(p, from, to),
         UNCHANGED pausers,
         from \in {"add", "update", "set", "resume"} <=> to \in {"add", "update", "set", "resume"}
  PROVE  PausesBalance'
  <1>1. p \in Thread
    BY ThreadsAreDistinct
  <1>2. pc[p] = from /\ pc'[p] = to /\ Paused' \ {p} = Paused \ {p}
        /\ (p \in Paused <=> Pausing(p)) /\ (p \in Paused' <=> Pausing(p)')
    BY <1>1, OnlyOneMoves
  <1>3. Pausing(p) <=> Pausing(p)'
    BY <1>2 DEF Pausing
  <1>4. Paused' = Paused
    BY <1>2, <1>3
  <1> QED BY <1>4, PauseKept

(* pause: from a state outside of it.                                      *)
LEMMA PauseCounts ==
  ASSUME PlaceInv, PausesBalance, NEW p \in Worker \cup Sync, NEW from, pause(p, from),
         from \notin {"add", "update", "set", "resume"}
  PROVE  PausesBalance'
  <1>1. p \in Thread
    BY ThreadsAreDistinct
  <1>2. Goto(p, from, "add") /\ pausers' = pausers + 1
    BY DEF pause
  <1>3. pc[p] = from /\ pc'[p] = "add" /\ Paused' \ {p} = Paused \ {p}
        /\ (p \in Paused <=> Pausing(p)) /\ (p \in Paused' <=> Pausing(p)')
    BY <1>1, <1>2, OnlyOneMoves
  <1>4. ~Pausing(p) /\ Pausing(p)'
    BY <1>3 DEF Pausing
  <1>5. p \notin Paused /\ Paused' = Paused \cup {p}
    BY <1>3, <1>4
  <1> QED BY <1>2, <1>5, PauseBegins

(* resume: to a state outside of it.                                       *)
LEMMA ResumeCounts ==
  ASSUME PlaceInv, PausesBalance, NEW p \in Worker \cup Sync, resume(p)
  PROVE  PausesBalance'
  <1>1. p \in Thread
    BY ThreadsAreDistinct
  <1> DEFINE to == IF p \in Worker THEN "check" ELSE "idle"
  <1>2. Goto(p, "resume", to) /\ pausers' = IF pausers = 0 THEN 0 ELSE pausers - 1
    BY DEF resume
  <1>3. pc[p] = "resume" /\ pc'[p] = to /\ Paused' \ {p} = Paused \ {p}
        /\ (p \in Paused <=> Pausing(p)) /\ (p \in Paused' <=> Pausing(p)')
    BY <1>1, <1>2, OnlyOneMoves
  <1>4. Pausing(p) /\ ~Pausing(p)'
    BY <1>3 DEF Pausing
  <1>5. p \in Paused /\ Paused' = Paused \ {p}
    BY <1>3, <1>4
  <1> QED BY <1>2, <1>5, PauseEnds

(* Nobody but a caller holds m_threads_lock, so a worker or a context that *)
(* has set a template goes on to resume.                                   *)
LEMMA ThenResumes ==
  ASSUME PlaceInv, NEW p \in Worker \cup Sync
  PROVE  Then(p) = "resume"
  BY ThreadsAreDistinct DEF PlaceInv, Then, Caller

-----------------------------------------------------------------------------
LEMMA InitInv == Init => Inv
  <1> SUFFICES ASSUME Init PROVE Inv
    OBVIOUS
  <1>1. PlaceInv
    BY ThreadsAreDistinct DEF Init, PlaceInv, Place
  <1>2. StartInv
    BY ThreadsAreDistinct DEF Init, StartInv, Caller
  <1>3. {p \in Thread : Pausing(p)} = {}
    BY DEF Init, Pausing
  <1>4. PausesBalance
    BY <1>3, FS_EmptySet DEF Init, PausesBalance
  <1> QED BY <1>1, <1>2, <1>4 DEF Inv

(* A step of a worker thread.                                              *)
LEMMA WorkerKeepsInv ==
  ASSUME Inv, NEW w \in Worker, WorkerStep(w)
  PROVE  Inv'
  <1> USE DEF Inv, miner
  <1>1. CASE LoopTest(w)
    BY <1>1, WorkerMoves, PauseStays DEF LoopTest, Look
  <1>2. CASE CopyTemplate(w)
    BY <1>2, WorkerMoves, PauseStays DEF CopyTemplate
  <1>3. CASE NoteVersion(w)
    BY <1>3, WorkerMoves, PauseStays DEF NoteVersion
  <1>4. CASE HashMissed(w)
    BY <1>4, WorkerMoves, PauseStays DEF HashMissed
  <1>5. CASE HashFound(w)
    BY <1>5, WorkerMoves, PauseCounts DEF HashFound, pause
  <1>6. CASE AddFoundBlock(w)
    BY <1>6, WorkerMoves, PauseStays DEF AddFoundBlock
  <1>7. CASE UpdateAfterFound(w)
    <2>1. PICK to \in {"resume", "set"} : Goto(w, "update", to)
      BY <1>7, ThenResumes DEF UpdateAfterFound, on_block_chain_update, request_block_template
    <2> QED BY <1>7, <2>1, WorkerMoves, PauseStays DEF UpdateAfterFound
  <1>8. CASE set_block_template(w)
    BY <1>8, ThenResumes, WorkerMoves, PauseStays DEF set_block_template
  <1>9. CASE resume(w)
    BY <1>9, WorkerMoves, ResumeCounts DEF resume
  <1>10. CASE HashFails(w)
    BY <1>10, WorkerMoves, PauseStays DEF HashFails
  <1> QED BY <1>1, <1>2, <1>3, <1>4, <1>5, <1>6, <1>7, <1>8, <1>9, <1>10 DEF WorkerStep

(* A step of a context that adds the blocks of a response.                 *)
LEMMA SyncKeepsInv ==
  ASSUME Inv, NEW s \in Sync, BeginResponse(s) \/ AddResponseBlock(s) \/ SyncStep(s)
  PROVE  Inv'
  <1> USE DEF Inv, miner
  <1>1. CASE BeginResponse(s)
    BY <1>1, SyncMoves, PauseCounts DEF BeginResponse, pause
  <1>2. CASE AddResponseBlock(s)
    BY <1>2, SyncMoves, PauseStays DEF AddResponseBlock
  <1>3. CASE EndResponse(s)
    <2>1. PICK to \in {"resume", "set"} : Goto(s, "add", to)
      BY <1>3, ThenResumes DEF EndResponse, on_block_chain_update, request_block_template
    <2> QED BY <1>3, <2>1, SyncMoves, PauseStays DEF EndResponse
  <1>4. CASE set_block_template(s)
    BY <1>4, ThenResumes, SyncMoves, PauseStays DEF set_block_template
  <1>5. CASE resume(s)
    <2>1. Goto(s, "resume", "idle")
      BY <1>5, ThreadsAreDistinct DEF resume
    <2> QED BY <1>5, <2>1, SyncMoves, ResumeCounts DEF resume
  <1> QED BY <1>1, <1>2, <1>3, <1>4, <1>5 DEF SyncStep

(* A step of the rpc context or of the console that starts or stops.       *)
LEMMA CallerKeepsInv ==
  ASSUME Inv, NEW p \in Caller, CallStart(p) \/ CallStop(p) \/ CallerStep(p)
  PROVE  Inv'
  <1> USE DEF Inv, miner
  <1>a. /\ \A q \in Caller : q \in Thread /\ q # "none" /\ q \notin Worker
        /\ Caller = {"rpc", "console"}
    BY ThreadsAreDistinct DEF Caller
  <1>1. CASE CallStart(p)
    <2>1. Goto(p, "idle", "start") /\ UNCHANGED <<lock, threads, pausers>>
      BY <1>1 DEF CallStart
    <2>2. /\ PausesBalance' /\ pc[p] = "idle" /\ pc' \in [Thread -> Place]
          /\ \A q \in Thread : pc'[q] = IF q = p THEN "start" ELSE pc[q]
          /\ \A q \in Caller : pc'[q] \in {"idle", "start", "run", "set", "stop", "join"}
      BY <2>1, CallerMoves
    <2>3. PlaceInv' /\ \A w \in Worker : pc'[w] = pc[w]
      BY <2>1, <2>2, OthersStay DEF PlaceInv
    <2> QED BY <1>a, <2>1, <2>2, <2>3 DEF StartInv
  <1>2. CASE CallStop(p)
    <2>1. Goto(p, "idle", "stop") /\ UNCHANGED <<lock, threads, pausers>>
      BY <1>2 DEF CallStop
    <2>2. /\ PausesBalance' /\ pc[p] = "idle" /\ pc' \in [Thread -> Place]
          /\ \A q \in Thread : pc'[q] = IF q = p THEN "stop" ELSE pc[q]
          /\ \A q \in Caller : pc'[q] \in {"idle", "start", "run", "set", "stop", "join"}
      BY <2>1, CallerMoves
    <2>3. PlaceInv' /\ \A w \in Worker : pc'[w] = pc[w]
      BY <2>1, <2>2, OthersStay DEF PlaceInv
    <2> QED BY <1>a, <2>1, <2>2, <2>3 DEF StartInv
  <1>3. CASE set_block_template(p)
    <2> DEFINE to == Then(p)
    <2>1. Goto(p, "set", to) /\ UNCHANGED <<lock, threads, pausers>>
      BY <1>3 DEF set_block_template
    <2>2. pc[p] = "set"
      BY <2>1, <1>a, OnlyOneMoves
    <2>3. (lock = p => to = "run") /\ (lock # p => to = "idle")
      BY <1>a, <2>2 DEF Then, StartInv
    <2>4. to \in {"idle", "run"}
      BY <2>3
    <2> HIDE DEF to
    <2>5. /\ PausesBalance' /\ pc' \in [Thread -> Place]
          /\ \A q \in Thread : pc'[q] = IF q = p THEN to ELSE pc[q]
          /\ \A q \in Caller : pc'[q] \in {"idle", "start", "run", "set", "stop", "join"}
      BY <2>1, <2>4, CallerMoves
    <2>6. PlaceInv' /\ \A w \in Worker : pc'[w] = pc[w]
      BY <2>1, <2>5, OthersStay DEF PlaceInv
    <2> QED BY <1>a, <2>1, <2>2, <2>3, <2>5, <2>6 DEF StartInv
  <1>4. CASE StartLocked(p)
    <2>1. PICK to \in {"idle", "run", "set"} :
            /\ Goto(p, "start", to) /\ lock = "none"
            /\ to = "idle" => lock' = lock
            /\ to # "idle" => lock' = p /\ threads = {}
      BY <1>4 DEF StartLocked, request_block_template
    <2>2. UNCHANGED <<threads, pausers>>
      BY <1>4 DEF StartLocked
    <2>3. /\ PausesBalance' /\ pc[p] = "start" /\ pc' \in [Thread -> Place]
          /\ \A q \in Thread : pc'[q] = IF q = p THEN to ELSE pc[q]
          /\ \A q \in Caller : pc'[q] \in {"idle", "start", "run", "set", "stop", "join"}
      BY <2>1, <2>2, CallerMoves
    <2>4. PlaceInv' /\ \A w \in Worker : pc'[w] = pc[w]
      BY <2>1, <2>2, <2>3, OthersStay DEF PlaceInv
    <2> QED BY <1>a, <2>1, <2>2, <2>3, <2>4 DEF StartInv
  <1>5. CASE StartWorkers(p)
    <2>1. /\ pc[p] = "run" /\ threads' = Worker /\ lock' = "none" /\ pausers' = pausers
          /\ pc' = [q \in Thread |->
                      IF q = p THEN "idle" ELSE IF q \in Worker THEN "check" ELSE pc[q]]
      BY <1>5 DEF StartWorkers
    <2>2. lock = p /\ threads = {} /\ \A w \in Worker : pc[w] = "off"
      BY <2>1 DEF StartInv
    <2>3. PlaceInv'
      BY <1>a, <2>1, ThreadsAreDistinct DEF PlaceInv, Place
    <2>4. \A q \in Thread : Pausing(q)' <=> Pausing(q)
      BY <1>a, <2>1, <2>2, ThreadsAreDistinct DEF Pausing
    <2>5. Paused' = Paused
      BY <2>4 DEF Paused
    <2>6. PausesBalance'
      BY <2>1, <2>5, PauseKept
    <2>7. StartInv'
      <3>1. \A q \in Caller : q # p => pc'[q] = pc[q] /\ pc[q] \notin {"run", "join"}
        BY <1>a, <2>1, <2>2 DEF StartInv
      <3>2. pc'[p] = "idle"
        BY <1>a, <2>1
      <3>3. Worker = {} => \A w \in Worker : pc'[w] = "off"
        OBVIOUS
      <3>4. pc'["console"] # "set"
        BY <1>a, <2>2, <3>1, <3>2 DEF StartInv
      <3> QED BY <1>a, <2>1, <3>1, <3>2, <3>3, <3>4 DEF StartInv
    <2> QED BY <2>3, <2>6, <2>7
  <1>6. CASE StopLocked(p)
    <2>1. Goto(p, "stop", "join") /\ lock = "none" /\ lock' = p /\ UNCHANGED <<threads, pausers>>
      BY <1>6 DEF StopLocked
    <2>2. /\ PausesBalance' /\ pc[p] = "stop" /\ pc' \in [Thread -> Place]
          /\ \A q \in Thread : pc'[q] = IF q = p THEN "join" ELSE pc[q]
          /\ \A q \in Caller : pc'[q] \in {"idle", "start", "run", "set", "stop", "join"}
      BY <2>1, CallerMoves
    <2>3. PlaceInv' /\ \A w \in Worker : pc'[w] = pc[w]
      BY <2>1, <2>2, OthersStay DEF PlaceInv
    <2> QED BY <1>a, <2>1, <2>2, <2>3 DEF StartInv
  <1>7. CASE StopJoined(p)
    <2>1. /\ Goto(p, "join", "idle") /\ lock' = "none" /\ threads' = {} /\ UNCHANGED pausers
          /\ \A w \in threads : pc[w] = "off"
      BY <1>7 DEF StopJoined
    <2>2. /\ PausesBalance' /\ pc[p] = "join" /\ pc' \in [Thread -> Place]
          /\ \A q \in Thread : pc'[q] = IF q = p THEN "idle" ELSE pc[q]
          /\ \A q \in Caller : pc'[q] \in {"idle", "start", "run", "set", "stop", "join"}
      BY <2>1, CallerMoves
    <2>3. PlaceInv' /\ \A w \in Worker : pc'[w] = pc[w]
      BY <2>1, <2>2, OthersStay
    <2>4. \A w \in Worker : pc[w] = "off"
      BY <2>1 DEF PlaceInv, StartInv
    <2>5. lock = p
      BY <2>2 DEF StartInv
    <2> QED BY <1>a, <2>1, <2>2, <2>3, <2>4, <2>5 DEF StartInv
  <1> QED BY <1>1, <1>2, <1>3, <1>4, <1>5, <1>6, <1>7 DEF CallerStep

(* on_idle: a request of the rpc context, which holds no lock.             *)
LEMMA IdleKeepsInv ==
  ASSUME Inv, on_idle
  PROVE  Inv'
  <1> USE DEF Inv, miner
  <1>a. /\ \A q \in Caller : q \in Thread /\ q # "none"
        /\ Caller = {"rpc", "console"}
    BY ThreadsAreDistinct DEF Caller
  <1>1. PICK to \in {"idle", "set"} : Goto("rpc", "idle", to)
    BY DEF on_idle, request_block_template
  <1>4. UNCHANGED <<lock, threads, pausers>>
    BY DEF on_idle
  <1>2. /\ PausesBalance' /\ pc["rpc"] = "idle" /\ pc' \in [Thread -> Place]
        /\ \A q \in Thread : pc'[q] = IF q = "rpc" THEN to ELSE pc[q]
        /\ \A q \in Caller : pc'[q] \in {"idle", "start", "run", "set", "stop", "join"}
    BY <1>a, <1>1, <1>4, CallerMoves
  <1>3. PlaceInv' /\ \A w \in Worker : pc'[w] = pc[w]
    BY <1>a, <1>1, <1>2, <1>4, OthersStay DEF PlaceInv
  <1> QED BY <1>a, <1>1, <1>2, <1>3, <1>4 DEF StartInv

(* Every pause() of miner::pause is undone by one resume(): m_pausers_count *)
(* is the number of the threads and contexts that add blocks, whatever     *)
(* starts and stops, templates and blocks found come between; so mining    *)
(* goes on only when the last of them is done, and resume() never finds    *)
(* the count at zero.                                                      *)
THEOREM PausesAlwaysBalance == Spec => []PausesBalance
  <1>1. Inv /\ [Next]_vars => Inv'
    <2> SUFFICES ASSUME Inv, [Next]_vars PROVE Inv'
      OBVIOUS
    <2>1. CASE UNCHANGED vars
      BY <2>1 DEF vars, Inv, PlaceInv, StartInv, PausesBalance, Pausing
    <2>2. CASE Next
      BY <2>2, WorkerKeepsInv, SyncKeepsInv, CallerKeepsInv, IdleKeepsInv DEF Next
    <2> QED BY <2>1, <2>2
  <1>2. Inv => PausesBalance
    BY DEF Inv
  <1> QED BY InitInv, <1>1, <1>2, PTL DEF Spec
=============================================================================
