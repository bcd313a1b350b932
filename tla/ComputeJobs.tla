---------------------------- MODULE ComputeJobs ----------------------------
(***************************************************************************)
(* Backtest and optimization jobs: the server process creates a job record *)
(* in the shared snapshot, spawns a detached worker process for it, and    *)
(* polling requests reconcile the record with the worker's liveness.       *)
(*                                                                         *)
(* Server and workers each hold a private copy of the WHOLE snapshot and   *)
(* exchange state only by flushing it to, and reloading it from, the       *)
(* store.  Backend selects what a flush does: "lowdb" overwrites the file  *)
(* with the copy captured when write() was called; "postgres" merges the   *)
(* copy into the row, newest record first, when the transaction runs.      *)
(*                                                                         *)
(* Time is abstracted: a timeout may or may not have passed whenever it is *)
(* looked at.  Process ids are never reused.                               *)
(***************************************************************************)
EXTENDS Integers, FiniteSets

CONSTANTS
  Backend,          (* persistence/index.ts: which store is configured      *)
  Handlers,         (* requests and ticks the server can have in flight     *)
  Candidates,       (* parameter combinations of an optimization            *)
  AutoResumeLimit,  (* OPTIMIZER_WORKER_AUTO_RESUME_LIMIT                   *)
  Backtests,        (* ids of backtest runs; bound: those ever created      *)
  Optimizations,    (* ids of optimizations; bound: those ever created      *)
  MaxPids,          (* bound: worker processes ever spawned                 *)
  MaxLive,          (* bound: server updates of the non-job collections     *)
  MaxCrashes        (* bound: crashes of the server and of workers          *)

ASSUME BackendAssumption == Backend \in {"lowdb", "postgres"}
ASSUME BoundsAssumption ==
  /\ Candidates \in Nat \ {0}
  /\ AutoResumeLimit \in Nat
  /\ Backtests \subseteq Nat \ {0}
  /\ Optimizations \subseteq Nat \ {0}
  /\ Backtests \cap Optimizations = {}
  /\ MaxPids \in Nat
  /\ MaxLive \in Nat
  /\ MaxCrashes \in Nat

Jobs  == Backtests \cup Optimizations
Pids  == 1..MaxPids
NoPid == 0
NoJob == 0
Kinds == {"backtest", "optimization"}
JobsOf(k) == IF k = "backtest" THEN Backtests ELSE Optimizations
InFlightStatus == {"queued", "running"}

VARIABLES
  store,     (* the persisted snapshot: db.json, or the state_snapshot row *)
  mem,       (* the server's db.data                                       *)
  hs,        (* handler -> where its request is and what it is writing     *)
  attached,  (* handlers whose new job object is still part of mem         *)
  wk,        (* pid -> worker process                                      *)
  made,      (* id of the youngest job; ids grow, 0 before the first       *)
  spawned,   (* number of processes spawned so far                         *)
  clock,     (* source of record timestamps; only the merge reads them     *)
  mixed,     (* ghost: requests overlapped, a reload arrived with a job     *)
             (* record that was no longer the stored one, or the server     *)
             (* restarted amid a request                                    *)
  crashes

vars == <<store, mem, hs, attached, wk, made, spawned, clock, mixed, crashes>>

(***************************************************************************)
(* A job record keeps what the control flow reads: evald is                *)
(* evaluatedCandidates, restarts is workerRestartCount, ts is              *)
(* recordTimestampMs.  live stands for the collections that postgres does  *)
(* not merge by id (positions, tradeEvents, settings, ...): the number of  *)
(* the server's last update of them.                                       *)
(***************************************************************************)
Record == [status: {"absent", "queued", "running", "completed", "failed"},
           worker: 0..MaxPids,
           evald: 0..Candidates,
           restarts: 0..AutoResumeLimit,
           ts: Nat]

Snapshot == [jobs: [Jobs -> Record], live: 0..MaxLive]

Absent == [status |-> "absent", worker |-> NoPid,
           evald |-> 0, restarts |-> 0, ts |-> 0]

EmptySnapshot == [jobs |-> [j \in Jobs |-> Absent], live |-> 0]

IdleHandler == [pc |-> "idle", op |-> "poll", job |-> NoJob, left |-> {},
                snap |-> EmptySnapshot]

Handler == [pc: {"idle", "reloading", "reconciling", "inserting", "claiming", "writing"},
            op: {"poll"} \cup Kinds,
            job: Jobs \cup {NoJob},
            left: SUBSET Kinds,
            snap: Snapshot]

(* A worker's opt is the job object the executor works on, and own says    *)
(* whether that object is still the one in the worker's snapshot.          *)
UnusedWorker == [pc |-> "unused", job |-> NoJob, mem |-> EmptySnapshot,
                 opt |-> Absent, own |-> FALSE]

Worker == [pc: {"unused", "boot", "claimed", "ready", "starting", "loading",
                "progressing", "evaluating", "finishing",
                "catch", "catchWrite", "exited"},
           job: Jobs \cup {NoJob},
           mem: Snapshot,
           opt: Record,
           own: BOOLEAN]

(***************************************************************************)
(* The store                                                               *)
(***************************************************************************)

(* mergeById keeps the local record unless the stored one is newer; every  *)
(* collection that is not merged by id is taken from the local copy.       *)
(* Mutant: the local record always wins.                                   *)
MergeByIdLocalWins(current, local) == local
MergeById(current, local) ==
  [j \in Jobs |-> IF local[j].ts >= current[j].ts THEN local[j] ELSE current[j]]

MergeSnapshot(current, local) ==
  [jobs |-> MergeById(current.jobs, local.jobs), live |-> local.live]

(* What write() captures when it is called.  PostgresStore reads this.data *)
(* only inside the transaction, so nothing is captured.                    *)
Captured(data) == IF Backend = "lowdb" THEN data ELSE EmptySnapshot

(* The store after a flush, and the flushing process's own copy after it.  *)
Flushed(captured, data) ==
  IF Backend = "lowdb" THEN captured ELSE MergeSnapshot(store, data)
AfterFlush(data) ==
  IF Backend = "lowdb" THEN data ELSE MergeSnapshot(store, data)

Tick == clock' = IF Backend = "postgres" THEN clock + 1 ELSE clock
Now  == IF Backend = "postgres" THEN clock + 1 ELSE 0

(***************************************************************************)
(* Changes of a job record                                                 *)
(***************************************************************************)
(* Mutant: the claim forgets the process.                                  *)
ClaimedByNobody(r, pid) == [r EXCEPT !.status = "running", !.ts = Now]
Claimed(r, pid) == [r EXCEPT !.status = "running", !.worker = pid, !.ts = Now]
Started(r)      == [r EXCEPT !.status = "running", !.ts = Now]
Completed(r)    == [r EXCEPT !.status = "completed", !.ts = Now]
Failed(r)       == [r EXCEPT !.status = "failed", !.ts = Now]
Progressed(r)   == [r EXCEPT !.ts = Now]
Evaluated(r)    == [r EXCEPT !.evald = @ + 1, !.ts = Now]
Resumed(r, pid) == Claimed([r EXCEPT !.restarts = @ + 1], pid)
Queued          == [Absent EXCEPT !.status = "queued", !.ts = Now]

SetJob(data, j, r) == [data EXCEPT !.jobs[j] = r]

ActiveJobs(data)   == {j \in Jobs : data.jobs[j].status \in InFlightStatus}
ActiveOf(data, k)  == ActiveJobs(data) \cap JobsOf(k)
(* Collections are newest first, so find() returns the youngest job.       *)
IsFirst(j, active) == j \in active /\ \A i \in active : i <= j

(* isPidAlive: process.kill(pid, 0).                                       *)
(* Mutant: process.kill(pid, 0) always reports an error.                   *)
PidNeverAlive(pid) == FALSE
PidAlive(pid) == pid \in Pids /\ wk[pid].pc \notin {"unused", "exited"}

(***************************************************************************)
(* reconcileComputeJob.  MayFail: some timing of the clocks yields a       *)
(* failure reason; MayPass: some timing yields null.                       *)
(***************************************************************************)
WorkerGone(r) == r.status = "running" /\ r.worker # NoPid /\ ~PidAlive(r.worker)

(* Mutant: only a missing heartbeat counts, not a missing process.         *)
MayFailWhenStale(r) == \/ r.status = "queued" /\ ~PidAlive(r.worker)
                       \/ r.status = "running" /\ r.worker = NoPid
MayFail(r) == \/ WorkerGone(r)
              \/ r.status = "queued" /\ ~PidAlive(r.worker)
              \/ r.status = "running" /\ r.worker = NoPid
MayPass(r) == ~WorkerGone(r)

(* canResumeOptimization and the restart limit.                            *)
Resumable(j, r) == /\ j \in Optimizations
                   /\ WorkerGone(r)
                   /\ r.evald \in 1..(Candidates - 1)
                   /\ r.restarts < AutoResumeLimit
                   /\ spawned < MaxPids      (* bound: a process is left *)

(***************************************************************************)
(* Server requests.  Serve is the code that runs, without yielding, on     *)
(* db.data = data once it is current: reconcile the job kinds that are     *)
(* left, and respond when nothing had to be written.                       *)
(***************************************************************************)
StartWrite(h, op, pc, job, left, data) ==
  /\ mem' = data
  /\ hs' = [hs EXCEPT ![h] = [pc |-> pc, op |-> op, job |-> job,
                              left |-> left, snap |-> Captured(data)]]

SpawnWorker(j) ==
  /\ spawned < MaxPids
  /\ spawned' = spawned + 1
  /\ wk' = [wk EXCEPT ![spawned + 1] = [UnusedWorker EXCEPT !.pc = "boot", !.job = j]]

ReconcileFail(h, op, data, kinds) ==
  \E k \in kinds : \E j \in Jobs :
    /\ IsFirst(j, ActiveOf(data, k))
    /\ MayFail(data.jobs[j])
    /\ ~Resumable(j, data.jobs[j])
    /\ StartWrite(h, op, "reconciling", NoJob, kinds \ {k},
                  SetJob(data, j, Failed(data.jobs[j])))
    /\ Tick
    /\ UNCHANGED <<wk, spawned, made>>

(* spawn() is taken not to throw here; where it is caught, see SpawnThrows.*)
ReconcileResume(h, op, data, kinds) ==
  \E j \in Jobs :
    /\ "optimization" \in kinds
    /\ IsFirst(j, ActiveOf(data, "optimization"))
    /\ Resumable(j, data.jobs[j])
    /\ SpawnWorker(j)
    /\ StartWrite(h, op, "reconciling", NoJob, kinds \ {"optimization"},
                  SetJob(data, j, Resumed(data.jobs[j], spawned + 1)))
    /\ Tick
    /\ UNCHANGED made

NothingToReconcile(data, kinds) ==
  \A k \in kinds : \A j \in Jobs :
    IsFirst(j, ActiveOf(data, k)) => MayPass(data.jobs[j])

(* A status poll answers; so does a start request while any job is active. *)
Respond(h, op, data, kinds) ==
  /\ NothingToReconcile(data, kinds)
  /\ \/ op = "poll"
     \/ ActiveJobs(data) # {}
     \/ \A j \in JobsOf(op) : j <= made     (* bound: no id is left *)
  /\ mem' = data
  /\ hs' = [hs EXCEPT ![h] = IdleHandler]
  /\ UNCHANGED <<wk, spawned, made, clock>>

(* POST start: the new queued job goes to the front of its collection.     *)
CreateJob(h, op, data, kinds) ==
  /\ NothingToReconcile(data, kinds)
  /\ op \in Kinds
  /\ ActiveJobs(data) = {}
  /\ \E j \in JobsOf(op) :
       /\ j > made
       /\ made' = j
       /\ StartWrite(h, op, "inserting", j, {}, SetJob(data, j, Queued))
  /\ Tick
  /\ UNCHANGED <<wk, spawned>>

Serve(h, op, data, kinds) ==
  \/ ReconcileFail(h, op, data, kinds)
  \/ ReconcileResume(h, op, data, kinds)
  \/ Respond(h, op, data, kinds)
  \/ CreateJob(h, op, data, kinds)

(* A request arrives, and its reload() reads the store.  The lists and the *)
(* status reconcile both kinds of jobs, a single record its own kind, and  *)
(* pages of candidates and others none; a start reconciles both.           *)
Busy(h) == hs[h].pc \notin {"idle", "writing"}

Begin(h, op, kinds) ==
  /\ hs[h].pc = "idle"
  /\ op = "poll" \/ kinds = Kinds
  /\ hs' = [hs EXCEPT ![h] = [IdleHandler EXCEPT !.pc = "reloading", !.op = op,
                                                !.left = kinds, !.snap = store]]
  /\ mixed' = (mixed \/ \E g \in Handlers : Busy(g))
  /\ UNCHANGED <<store, mem, attached, wk, made, spawned, clock, crashes>>

(* What was read replaces db.data, whatever became of db.data meanwhile,   *)
(* and the request is served.  The job objects that other requests still   *)
(* hold are no longer part of db.data.                                     *)
Reloaded(h) ==
  /\ hs[h].pc = "reloading"
  /\ Serve(h, hs[h].op, hs[h].snap, hs[h].left)
  /\ attached' = {h}
  /\ mixed' = (mixed \/ hs[h].snap.jobs # store.jobs)
  /\ UNCHANGED <<store, crashes>>

(* The write of a reconciliation lands and the request goes on.            *)
ReconcileLanded(h) ==
  /\ hs[h].pc = "reconciling"
  /\ store' = Flushed(hs[h].snap, mem)
  /\ Serve(h, hs[h].op, AfterFlush(mem), hs[h].left)
  /\ attached' = attached \cup {h}
  /\ UNCHANGED <<mixed, crashes>>

(* The queued job is stored; spawn the worker and claim the job for it.    *)
InsertLanded(h) ==
  LET j    == hs[h].job
      data == AfterFlush(mem)
  IN
  /\ hs[h].pc = "inserting"
  /\ store' = Flushed(hs[h].snap, mem)
  /\ SpawnWorker(j)
  /\ StartWrite(h, hs[h].op, "claiming", j, {},
                IF h \in attached
                  THEN SetJob(data, j, Claimed(data.jobs[j], spawned + 1))
                  ELSE data)
  /\ Tick
  /\ UNCHANGED <<attached, made, mixed, crashes>>

(* The same, when spawn() throws: the job is marked failed.                *)
SpawnThrows(h) ==
  LET j    == hs[h].job
      data == AfterFlush(mem)
  IN
  /\ hs[h].pc = "inserting"
  /\ store' = Flushed(hs[h].snap, mem)
  /\ StartWrite(h, hs[h].op, "claiming", j, {},
                IF h \in attached
                  THEN SetJob(data, j, Failed(data.jobs[j]))
                  ELSE data)
  /\ Tick
  /\ UNCHANGED <<attached, made, spawned, wk, mixed, crashes>>

(* The last write of a request lands.                                      *)
WriteLanded(h) ==
  /\ hs[h].pc \in {"claiming", "writing"}
  /\ store' = Flushed(hs[h].snap, mem)
  /\ mem' = AfterFlush(mem)
  /\ hs' = [hs EXCEPT ![h] = IdleHandler]
  /\ UNCHANGED <<attached, wk, made, spawned, clock, mixed, crashes>>

(* Any other handler or tick of the server: it changes its own collections *)
(* and writes the snapshot, without reloading it first.                    *)
LiveUpdate(h) ==
  /\ hs[h].pc = "idle"
  /\ mem.live < MaxLive
  /\ StartWrite(h, "poll", "writing", NoJob, {}, [mem EXCEPT !.live = @ + 1])
  /\ UNCHANGED <<store, attached, wk, made, spawned, clock, mixed, crashes>>

(* The server dies with its requests and comes back with what is stored.   *)
ServerRestart ==
  /\ crashes < MaxCrashes
  /\ crashes' = crashes + 1
  /\ mem' = store
  /\ hs' = [h \in Handlers |-> IdleHandler]
  /\ attached' = {}
  /\ mixed' = (mixed \/ \E h \in Handlers : Busy(h))
  /\ UNCHANGED <<store, wk, made, spawned, clock>>

(***************************************************************************)
(* Worker processes: computeJobProcess and the two executors               *)
(***************************************************************************)
WorkerJob(w) == wk[w].mem.jobs[wk[w].job]

WorkerOnly == UNCHANGED <<mem, hs, attached, made, spawned, mixed, crashes>>

(* The process outside the executors: its snapshot becomes data.           *)
WorkerSet(w, pc, data) ==
  wk' = [wk EXCEPT ![w] = [UnusedWorker EXCEPT !.pc = pc, !.job = wk[w].job,
                                               !.mem = data]]

WorkerExit(w) == WorkerSet(w, "exited", EmptySnapshot)

(* main(): load the snapshot and claim the job if it is still queued.      *)
WorkerLoad(w) ==
  LET j == wk[w].job
      r == store.jobs[j]
  IN
  /\ wk[w].pc = "boot"
  /\ \/ /\ r.status = "absent"
        /\ WorkerSet(w, "catch", store)
        /\ UNCHANGED clock
     \/ /\ r.status = "queued"
        /\ WorkerSet(w, "claimed", SetJob(store, j, Claimed(r, w)))
        /\ Tick
     \/ /\ r.status \notin {"absent", "queued"}
        /\ WorkerSet(w, "ready", store)
        /\ UNCHANGED clock
  /\ WorkerOnly
  /\ UNCHANGED store

WorkerClaim(w) ==
  /\ wk[w].pc = "claimed"
  /\ store' = Flushed(wk[w].mem, wk[w].mem)
  /\ WorkerSet(w, "ready", AfterFlush(wk[w].mem))
  /\ WorkerOnly
  /\ UNCHANGED clock

(* The guards of executeBacktestRun and executeOptimization.               *)
AcceptsBacktest(r)        == r.status = "queued"
AcceptsOptimization(w, r) ==
  \/ r.status = "queued"
  \/ r.status = "running" /\ r.worker = w
  \/ r.status = "failed" /\ r.evald \in 1..(Candidates - 1)

Accepts(w, r) == IF wk[w].job \in Backtests THEN AcceptsBacktest(r)
                                             ELSE AcceptsOptimization(w, r)

WorkerRefuses(w) ==
  /\ wk[w].pc = "ready"
  /\ ~Accepts(w, WorkerJob(w))
  /\ WorkerSet(w, "catch", wk[w].mem)
  /\ WorkerOnly
  /\ UNCHANGED <<store, clock>>

(* An executor changes its job object to opt.  The change is part of the   *)
(* worker's snapshot only while the object is: a merge that finds a newer  *)
(* record in the row puts that record in the object's place.               *)
ExecutorCopy(w, own, opt) ==
  IF own THEN SetJob(wk[w].mem, wk[w].job, opt) ELSE wk[w].mem

ExecutorSet(w, pc, own, opt) ==
  wk' = [wk EXCEPT ![w] = [@ EXCEPT !.pc = pc, !.opt = opt, !.own = own,
                                    !.mem = ExecutorCopy(w, own, opt)]]

(* mutateBacktestRun looks the run up again in the current snapshot, the   *)
(* optimizer keeps the object it found when it started.                    *)
JobObject(w)  == IF wk[w].job \in Backtests THEN WorkerJob(w) ELSE wk[w].opt
OwnsObject(w) == wk[w].job \in Backtests \/ wk[w].own

WorkerStart(w) ==
  /\ wk[w].pc = "ready"
  /\ Accepts(w, WorkerJob(w))
  /\ ExecutorSet(w, "starting", TRUE, Started(WorkerJob(w)))
  /\ Tick
  /\ WorkerOnly
  /\ UNCHANGED store

(* Candle data is loaded; an optimization goes on with its candidates, a   *)
(* backtest runs to its end.                                               *)
WorkerCandlesLoaded(w) ==
  /\ wk[w].pc = "loading"
  /\ IF wk[w].job \in Optimizations
       THEN ExecutorSet(w, "progressing", OwnsObject(w), Progressed(JobObject(w)))
       ELSE ExecutorSet(w, "finishing", OwnsObject(w), Completed(JobObject(w)))
  /\ Tick
  /\ WorkerOnly
  /\ UNCHANGED store

(* no_candle_data_loaded, or an exception of the engine.                   *)
WorkerFails(w) ==
  /\ wk[w].pc = "loading"
  /\ ExecutorSet(w, "finishing", OwnsObject(w), Failed(JobObject(w)))
  /\ Tick
  /\ WorkerOnly
  /\ UNCHANGED store

(* One candidate.  Progress is persisted for the last candidate, and for   *)
(* some of the others (shouldPersistProgress, HEARTBEAT_PERSIST_MS).       *)
WorkerEvaluate(w) ==
  LET opt == wk[w].opt
  IN
  /\ wk[w].pc = "evaluating"
  /\ opt.evald < Candidates
  /\ \/ ExecutorSet(w, "progressing", wk[w].own, Evaluated(opt))
     \/ /\ opt.evald + 1 < Candidates
        /\ ExecutorSet(w, "evaluating", wk[w].own, Evaluated(opt))
  /\ Tick
  /\ WorkerOnly
  /\ UNCHANGED store

(* Mutant: the last candidate is skipped.                                  *)
WorkerFinishEarly(w) ==
  /\ wk[w].pc = "evaluating"
  /\ wk[w].opt.evald >= Candidates - 1
  /\ ExecutorSet(w, "finishing", wk[w].own, Completed(wk[w].opt))
  /\ Tick
  /\ WorkerOnly
  /\ UNCHANGED store

WorkerFinish(w) ==
  /\ wk[w].pc = "evaluating"
  /\ wk[w].opt.evald = Candidates
  /\ ExecutorSet(w, "finishing", wk[w].own, Completed(wk[w].opt))
  /\ Tick
  /\ WorkerOnly
  /\ UNCHANGED store

(* A write of the executor lands; after the last one the process ends.     *)
WorkerWritten(w) ==
  LET after == AfterFlush(wk[w].mem)
      pc    == wk[w].pc
  IN
  /\ pc \in {"starting", "progressing", "finishing"}
  /\ store' = Flushed(wk[w].mem, wk[w].mem)
  /\ IF pc = "finishing"
       THEN WorkerExit(w)
       ELSE wk' = [wk EXCEPT ![w] =
                     [@ EXCEPT !.pc  = IF pc = "starting" THEN "loading" ELSE "evaluating",
                               !.mem = after,
                               !.own = wk[w].own /\ after.jobs[wk[w].job] = wk[w].opt]]
  /\ WorkerOnly
  /\ UNCHANGED clock

(* main().catch: reload, mark the job failed if it is still in flight.     *)
WorkerCatch(w) ==
  LET r == store.jobs[wk[w].job]
  IN
  /\ wk[w].pc = "catch"
  /\ IF r.status \in InFlightStatus
       THEN WorkerSet(w, "catchWrite", SetJob(store, wk[w].job, Failed(r))) /\ Tick
       ELSE WorkerExit(w) /\ UNCHANGED clock
  /\ WorkerOnly
  /\ UNCHANGED store

WorkerCatchWrite(w) ==
  /\ wk[w].pc = "catchWrite"
  /\ store' = Flushed(wk[w].mem, wk[w].mem)
  /\ WorkerExit(w)
  /\ WorkerOnly
  /\ UNCHANGED clock

WorkerCrash(w) ==
  /\ wk[w].pc \notin {"unused", "exited"}
  /\ crashes < MaxCrashes
  /\ crashes' = crashes + 1
  /\ WorkerExit(w)
  /\ UNCHANGED <<store, mem, hs, attached, made, spawned, clock, mixed>>

(***************************************************************************)
(* Specification                                                           *)
(***************************************************************************)
Init ==
  /\ store = EmptySnapshot
  /\ mem = EmptySnapshot
  /\ hs = [h \in Handlers |-> IdleHandler]
  /\ attached = {}
  /\ wk = [p \in Pids |-> UnusedWorker]
  /\ made = 0
  /\ spawned = 0
  /\ clock = 0
  /\ mixed = FALSE
  /\ crashes = 0

ServerStep(h) ==
  \/ \E op \in {"poll"} \cup Kinds, kinds \in SUBSET Kinds : Begin(h, op, kinds)
  \/ Reloaded(h)
  \/ ReconcileLanded(h)
  \/ InsertLanded(h)
  \/ SpawnThrows(h)
  \/ WriteLanded(h)
  \/ LiveUpdate(h)

WorkerProgress(w) ==
  \/ WorkerLoad(w)
  \/ WorkerClaim(w)
  \/ WorkerStart(w)
  \/ WorkerRefuses(w)
  \/ WorkerCandlesLoaded(w)
  \/ WorkerFails(w)
  \/ WorkerEvaluate(w)
  \/ WorkerFinish(w)
  \/ WorkerWritten(w)
  \/ WorkerCatch(w)
  \/ WorkerCatchWrite(w)

Next ==
  \/ \E h \in Handlers : ServerStep(h)
  \/ \E w \in Pids : WorkerProgress(w) \/ WorkerCrash(w)
  \/ ServerRestart

Spec == Init /\ [][Next]_vars

(* Workers are scheduled, the store answers, the page that shows a job     *)
(* keeps polling (setInterval(poll, POLL_INTERVAL_MS)), and clocks advance:*)
(* a poll that can find a job overdue eventually does.  Nothing else is    *)
(* fair: users need not start jobs, spawn need not throw.                  *)
PollReconciles(h) ==
  /\ Reloaded(h)
  /\ hs[h].op = "poll" /\ hs[h].left = Kinds
  /\ hs'[h].pc = "reconciling"

Fairness ==
  /\ \A w \in Pids : WF_vars(WorkerProgress(w))
  /\ \A h \in Handlers : /\ WF_vars(Reloaded(h))
                         /\ WF_vars(ReconcileLanded(h))
                         /\ WF_vars(InsertLanded(h))
                         /\ WF_vars(WriteLanded(h))
                         /\ SF_vars(Begin(h, "poll", Kinds))
                         /\ SF_vars(PollReconciles(h))

FairSpec == Spec /\ Fairness

(***************************************************************************)
(* Invariants                                                              *)
(***************************************************************************)

(* Every variable has the shape the code gives it.                         *)
TypeOK ==
  /\ store \in Snapshot
  /\ mem \in Snapshot
  /\ hs \in [Handlers -> Handler]
  /\ attached \subseteq Handlers
  /\ wk \in [Pids -> Worker]
  /\ made \in Jobs \cup {NoJob}
  /\ spawned \in 0..MaxPids
  /\ clock \in Nat
  /\ mixed \in BOOLEAN
  /\ crashes \in 0..MaxCrashes

(* All copies of the snapshot that can still reach the store.              *)
Copies == {store, mem} \cup {hs[h].snap : h \in Handlers}
                       \cup {wk[w].mem : w \in Pids}

(* Whatever copy is flushed next, a running job names a process that was   *)
(* spawned for that very job, and a queued job names none: reconciliation  *)
(* asks the liveness of the right process, and never mistakes a queued job *)
(* for one that lost its worker (reconcileComputeJob, isPidAlive).         *)
OwnerIsOwnWorker ==
  \A s \in Copies : \A j \in Jobs :
    /\ s.jobs[j].status = "queued" => s.jobs[j].worker = NoPid
    /\ s.jobs[j].status = "running" =>
         /\ s.jobs[j].worker \in 1..spawned
         /\ wk[s.jobs[j].worker].job = j

(* No copy shows an optimization as completed before its last candidate    *)
(* has been evaluated, however often it was resumed (executeOptimization). *)
CompletedIsWhole ==
  \A s \in Copies : \A j \in Optimizations :
    s.jobs[j].status = "completed" => s.jobs[j].evald = Candidates

(* On Postgres at most one live process is past the executor's guard for a *)
(* job, however often it was resumed, as long as each request has found the*)
(* jobs as they are stored, one request at a time (executeOptimization     *)
(* compares workerPid with process.pid, but takes any failed job that has  *)
(* got somewhere).                                                         *)
Executing(w) == wk[w].pc \in {"starting", "loading", "progressing", "evaluating"}
SingleExecutor ==
  Backend = "postgres" /\ ~mixed =>
    \A v, w \in Pids :
      (Executing(v) /\ Executing(w) /\ wk[v].job = wk[w].job) => v = w

(* A backtest run is never turned away by the guard of executeBacktestRun  *)
(* just because its own process, or the server, has already claimed it.    *)
OwnClaimIsAccepted ==
  \A w \in Pids :
    (wk[w].pc = "ready" /\ wk[w].job \in Backtests
       /\ WorkerJob(w).status = "running" /\ WorkerJob(w).worker = w)
      => Accepts(w, WorkerJob(w))

(***************************************************************************)
(* Action properties                                                       *)
(***************************************************************************)

(* A completed job stays completed: no stale copy, reconciliation or late  *)
(* write takes its result back.  (Only a worker that did not finish        *)
(* "exited unexpectedly".)                                                 *)
CompletedStays ==
  [][\A j \in Jobs : store.jobs[j].status = "completed"
                        => store'.jobs[j].status = "completed"]_vars

(* A worker writes the whole snapshot it has in memory, as old as that may *)
(* be, and no other job's record changes by it (mergeById), even while     *)
(* requests, restarts and other workers write theirs.                      *)
WorkersMindTheirJob ==
  [][Backend = "postgres" =>
       \A w \in Pids : WorkerProgress(w) =>
         \A j \in Jobs \ {wk[w].job} : store'.jobs[j] = store.jobs[j]]_vars

(***************************************************************************)
(* Liveness                                                                *)
(***************************************************************************)

(* Every job leaves the queue and the running state: crashed workers are   *)
(* noticed, resumed at most AutoResumeLimit times, and then given up.      *)
JobsSettle ==
  \A j \in Jobs : store.jobs[j].status \in InFlightStatus
                     ~> store.jobs[j].status \notin InFlightStatus
=============================================================================
