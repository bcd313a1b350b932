------------------------ MODULE ComputeJobs_proofs ------------------------
(***************************************************************************)
(* For every backend, every number of handlers, jobs, candidates and       *)
(* crashes: type correctness, job ownership and completeness of finished   *)
(* optimizations.                                                          *)
(*                                                                         *)
(* The inductive invariant says that EVERY copy of the snapshot, stored,   *)
(* in memory, captured by a pending write or held by a worker, consists of *)
(* good records; so whichever copy is flushed or merged next, the result   *)
(* does too.  On the postgres backend this needs birth times: the queued   *)
(* record of a job is older than its other records, so that no merge puts  *)
(* a worker's claimed record back to queued.                               *)
(*                                                                         *)
(* For the postgres backend, in the second half: workers mind their own    *)
(* job, and one process at most executes a job.  Two more layers of the    *)
(* invariant carry that.  Stamps: records of a job with equal time stamps  *)
(* are equal, and a worker knows no younger record of another job than the *)
(* row does, so that its merge changes nothing there.  Turns: as long as   *)
(* requests find the jobs as they are stored, one after the other, a job   *)
(* has at most one live process and its youngest record names it, so that  *)
(* reconciliation gives up or replaces only processes that are gone.       *)
(***************************************************************************)
EXTENDS ComputeJobs, TLAPS

(* The job each process was spawned for. *)
Owner == [p \in Pids |-> wk[p].job]

(* own, m and b: the owners, the youngest job and the birth times.         *)
GoodRecord(own, m, b, j, r) ==
  /\ r \in Record
  /\ r.status # "absent" => j <= m
  /\ r.status = "queued" => r.worker = NoPid
  /\ (r.status = "running" \/ r.evald > 0) => r.worker # NoPid
  /\ r.worker # NoPid => own[r.worker] = j
  /\ (j \in Optimizations /\ r.status = "completed") => r.evald = Candidates
  /\ (Backend = "postgres" /\ r.status = "queued") => r.ts = b[j]
  /\ (Backend = "postgres" /\ r.status \notin {"queued", "absent"}) => r.ts > b[j]

Good(own, m, b, s) ==
  /\ s \in Snapshot
  /\ \A j \in Jobs : GoodRecord(own, m, b, j, s.jobs[j])

(* What a step may do to owners, youngest job and birth times.             *)
Extended(own, m, b, own2, m2, b2) ==
  /\ \A p \in Pids : own[p] # NoJob => own2[p] = own[p]
  /\ m <= m2
  /\ \A j \in Jobs : j <= m => b2[j] = b[j]

GoodServer(b) ==
  /\ Good(Owner, made, b, mem)
  /\ \A h \in Handlers :
       /\ Good(Owner, made, b, hs[h].snap)
       /\ hs[h].pc = "inserting" => hs[h].job \in Jobs /\ hs[h].job <= made

GoodWorker(b, w) ==
  /\ Good(Owner, made, b, wk[w].mem)
  /\ wk[w].pc = "unused" <=> w > spawned
  /\ wk[w].pc = "unused" => wk[w].job = NoJob
  /\ wk[w].pc # "unused" => wk[w].job \in Jobs /\ wk[w].job <= made
  /\ wk[w].pc = "claimed" => WorkerJob(w).status \notin {"queued", "absent"}
  /\ wk[w].pc = "ready" => WorkerJob(w).status # "queued"
  /\ Executing(w) => /\ GoodRecord(Owner, made, b, wk[w].job, wk[w].opt)
                     /\ wk[w].opt.status = "running"

IInv(b) ==
  /\ TypeOK
  /\ b \in [Jobs -> Nat]
  /\ \A j \in Jobs : b[j] <= clock
  /\ Good(Owner, made, b, store)
  /\ GoodServer(b)
  /\ \A w \in Pids : GoodWorker(b, w)

Inv == \E b \in [Jobs -> Nat] : IInv(b)

-----------------------------------------------------------------------------
(* Facts about constants used throughout. *)
LEMMA ConstFacts ==
  /\ \A j \in Jobs : j \in Nat /\ j # NoJob
  /\ \A p \in Pids : p \in Nat /\ p # NoPid
  /\ Absent \in Record
  /\ EmptySnapshot \in Snapshot
  /\ EmptySnapshot.jobs = [j \in Jobs |-> Absent]
  /\ 0 \in 0..MaxLive
BY BoundsAssumption
   DEF Jobs, Pids, NoJob, NoPid, Absent, Record, EmptySnapshot, Snapshot

LEMMA EmptyGood ==
  ASSUME NEW own, NEW m, NEW b PROVE Good(own, m, b, EmptySnapshot)
BY ConstFacts DEF Good, GoodRecord, Absent, NoPid

(* A good record stays good when owners, jobs and births are extended.     *)
LEMMA RecordExtended ==
  ASSUME NEW own, NEW m \in Nat, NEW b, NEW own2, NEW m2 \in Nat, NEW b2,
         Extended(own, m, b, own2, m2, b2),
         NEW j \in Jobs, NEW r, GoodRecord(own, m, b, j, r)
  PROVE  GoodRecord(own2, m2, b2, j, r)
<1>1. j \in Nat /\ j # NoJob BY ConstFacts
<1>2. r.worker # NoPid => r.worker \in Pids
  BY BoundsAssumption DEF GoodRecord, Record, Pids, NoPid
<1>3. QED BY <1>1, <1>2 DEF GoodRecord, Extended

LEMMA SnapshotExtended ==
  ASSUME NEW own, NEW m \in Nat, NEW b, NEW own2, NEW m2 \in Nat, NEW b2,
         Extended(own, m, b, own2, m2, b2),
         NEW s, Good(own, m, b, s)
  PROVE  Good(own2, m2, b2, s)
BY RecordExtended DEF Good

(* Every way a snapshot comes about yields good snapshots from good ones.  *)
LEMMA SetJobGood ==
  ASSUME NEW own, NEW m, NEW b, NEW s, Good(own, m, b, s),
         NEW j \in Jobs, NEW r, GoodRecord(own, m, b, j, r)
  PROVE  /\ Good(own, m, b, SetJob(s, j, r))
         /\ SetJob(s, j, r).jobs[j] = r
<1>1. s \in Snapshot /\ r \in Record BY DEF Good, GoodRecord
<1>2. SetJob(s, j, r).jobs = [s.jobs EXCEPT ![j] = r] BY <1>1 DEF SetJob, Snapshot
<1>3. SetJob(s, j, r) \in Snapshot BY <1>1 DEF SetJob, Snapshot
<1>4. QED BY <1>1, <1>2, <1>3 DEF Good, Snapshot

LEMMA MergeGood ==
  ASSUME NEW own, NEW m, NEW b, NEW s, NEW t,
         Good(own, m, b, s), Good(own, m, b, t)
  PROVE  Good(own, m, b, MergeSnapshot(s, t))
<1>1. s \in Snapshot /\ t \in Snapshot BY DEF Good
<1>2. MergeSnapshot(s, t).jobs = MergeById(s.jobs, t.jobs) BY DEF MergeSnapshot
<1>3. \A j \in Jobs : s.jobs[j] \in Record /\ t.jobs[j] \in Record
  BY <1>1 DEF Snapshot
<1>4. MergeSnapshot(s, t) \in Snapshot
  BY <1>1, <1>3 DEF MergeSnapshot, MergeById, Snapshot
<1>5. QED BY <1>2, <1>3, <1>4 DEF Good, MergeById

LEMMA FlushGood ==
  ASSUME NEW own, NEW m, NEW b, NEW s, NEW t, Good(own, m, b, store),
         Good(own, m, b, s), Good(own, m, b, t)
  PROVE  /\ Good(own, m, b, Flushed(s, t))
         /\ Good(own, m, b, AfterFlush(t))
         /\ Good(own, m, b, Captured(t))
BY MergeGood, EmptyGood DEF Flushed, AfterFlush, Captured

-----------------------------------------------------------------------------
(* Changes of a record.                                                    *)
LEMMA Clocks ==
  ASSUME NEW b, NEW j \in Jobs, b[j] \in Nat, b[j] <= clock, clock \in Nat
  PROVE  /\ Now \in Nat
         /\ Backend = "postgres" => Now > b[j]
BY DEF Now

LEMMA ChangedGood ==
  ASSUME NEW own, NEW m, NEW b, NEW j \in Jobs, b[j] \in Nat, b[j] <= clock,
         clock \in Nat, NEW r, GoodRecord(own, m, b, j, r), j <= m
  PROVE  /\ GoodRecord(own, m, b, j, Failed(r))
         /\ \A pid \in Pids : own[pid] = j => GoodRecord(own, m, b, j, Claimed(r, pid))
         /\ (j \in Optimizations => r.evald = Candidates)
               => GoodRecord(own, m, b, j, Completed(r))
         /\ r.worker # NoPid => GoodRecord(own, m, b, j, Started(r))
         /\ r.status = "running" => GoodRecord(own, m, b, j, Progressed(r))
         /\ r.status = "running" /\ r.evald < Candidates
               => GoodRecord(own, m, b, j, Evaluated(r))
         /\ \A pid \in Pids : own[pid] = j /\ r.restarts < AutoResumeLimit
               => GoodRecord(own, m, b, j, Resumed(r, pid))
<1>1. Now \in Nat /\ (Backend = "postgres" => Now > b[j]) BY Clocks
<1>2. r \in Record BY DEF GoodRecord
<1>3. Pids \subseteq 0..MaxPids /\ NoPid \notin Pids
  BY BoundsAssumption DEF Pids, NoPid
<1>4. GoodRecord(own, m, b, j, Failed(r))
  BY <1>1, <1>2, BoundsAssumption DEF GoodRecord, Record, Failed
<1>5. ASSUME NEW pid \in Pids, own[pid] = j, NEW q, GoodRecord(own, m, b, j, q)
               \/ (\E k \in 0..AutoResumeLimit : q = [r EXCEPT !.restarts = k])
      PROVE  GoodRecord(own, m, b, j, Claimed(q, pid))
  BY <1>1, <1>2, <1>3, <1>5, BoundsAssumption DEF GoodRecord, Record, Claimed
<1>6. ASSUME j \in Optimizations => r.evald = Candidates
      PROVE  GoodRecord(own, m, b, j, Completed(r))
  BY <1>1, <1>2, <1>6, BoundsAssumption DEF GoodRecord, Record, Completed
<1>7. ASSUME r.worker # NoPid PROVE GoodRecord(own, m, b, j, Started(r))
  BY <1>1, <1>2, <1>7, BoundsAssumption DEF GoodRecord, Record, Started
<1>8. ASSUME r.status = "running" PROVE GoodRecord(own, m, b, j, Progressed(r))
  BY <1>1, <1>2, <1>8, BoundsAssumption DEF GoodRecord, Record, Progressed
<1>9. ASSUME r.status = "running", r.evald < Candidates
      PROVE  GoodRecord(own, m, b, j, Evaluated(r))
  <2>1. r.evald + 1 \in 0..Candidates BY <1>2, <1>9, BoundsAssumption DEF Record
  <2>2. /\ Evaluated(r) \in Record
        /\ Evaluated(r).status = r.status /\ Evaluated(r).worker = r.worker
        /\ Evaluated(r).ts = Now
    BY <1>1, <1>2, <2>1 DEF Record, Evaluated
  <2>3. QED BY <1>1, <1>9, <2>2 DEF GoodRecord
<1>10. ASSUME NEW pid \in Pids, own[pid] = j, r.restarts < AutoResumeLimit
       PROVE  GoodRecord(own, m, b, j, Resumed(r, pid))
  <2>1. r.restarts + 1 \in 0..AutoResumeLimit
    BY <1>2, <1>10, BoundsAssumption DEF Record
  <2>2. QED BY <1>5, <1>10, <2>1 DEF Resumed
<1>11. QED BY <1>4, <1>5, <1>6, <1>7, <1>8, <1>9, <1>10

(* The record of a new job, with its time of birth.                        *)
LEMMA QueuedGood ==
  ASSUME NEW own, NEW m, NEW b, NEW j \in Jobs, clock \in Nat, j <= m,
         Backend = "postgres" => b[j] = Now
  PROVE  GoodRecord(own, m, b, j, Queued)
<1>1. /\ Absent \in Record
      /\ Absent.worker = 0 /\ Absent.evald = 0
  <2>1. Absent.worker = 0 /\ Absent.evald = 0 BY DEF Absent, NoPid
  <2>2. QED BY <2>1, ConstFacts
<1>2. Now \in Nat BY DEF Now
<1>3. /\ Queued \in Record
      /\ Queued.status = "queued" /\ Queued.worker = 0
      /\ Queued.evald = 0 /\ Queued.ts = Now
  BY <1>1, <1>2 DEF Record, Queued
<1>4. QED BY <1>3 DEF GoodRecord, NoPid

LEMMA ClockGrows ==
  ASSUME clock \in Nat, clock' = clock \/ Tick
  PROVE  clock' \in Nat /\ clock <= clock' /\ (Tick => Now <= clock')
BY DEF Tick, Now

LEMMA ExtendedRefl ==
  ASSUME NEW own, NEW m \in Nat, NEW b PROVE Extended(own, m, b, own, m, b)
BY DEF Extended

-----------------------------------------------------------------------------
(* Steps: what is common to several actions.                               *)
Typed ==
  /\ hs \in [Handlers -> Handler]
  /\ wk \in [Pids -> Worker]
  /\ made \in Jobs \cup {NoJob}
  /\ spawned \in 0..MaxPids
  /\ clock \in Nat

LEMMA InvFacts ==
  ASSUME NEW b, IInv(b)
  PROVE  /\ Typed
         /\ made \in Nat /\ spawned \in Nat
         /\ Extended(Owner, made, b, Owner, made, b)
         /\ Good(Owner, made, b, store) /\ Good(Owner, made, b, mem)
         /\ GoodServer(b)
         /\ \A w \in Pids : GoodWorker(b, w) /\ Owner[w] = wk[w].job
         /\ b \in [Jobs -> Nat] /\ \A j \in Jobs : b[j] <= clock /\ b[j] \in Nat
<1>1. made \in Nat BY ConstFacts DEF IInv, TypeOK, NoJob
<1>2. Extended(Owner, made, b, Owner, made, b) BY <1>1, ExtendedRefl
<1>3. QED BY <1>1, <1>2, BoundsAssumption DEF IInv, TypeOK, Typed, GoodServer, Owner

LEMMA OwnerFrame ==
  ASSUME wk' = wk PROVE Owner' = Owner
BY DEF Owner

LEMMA WorkerKept ==
  ASSUME NEW b, IInv(b), NEW b2,
         made' \in Nat, Extended(Owner, made, b, Owner', made', b2),
         NEW w \in Pids, wk'[w] = wk[w],
         spawned' = spawned \/ (spawned' = spawned + 1 /\ w # spawned')
  PROVE  GoodWorker(b2, w)'
<1>1. GoodWorker(b, w) /\ made \in Nat /\ spawned \in Nat BY InvFacts
<1>2. w \in Nat BY ConstFacts
<1>3. (w > spawned') <=> (w > spawned) BY <1>1, <1>2
<1>4. Good(Owner', made', b2, wk[w].mem)
  BY <1>1, SnapshotExtended DEF GoodWorker
<1>5. ASSUME wk[w].pc # "unused"
      PROVE  wk[w].job \in Jobs /\ wk[w].job <= made'
  BY <1>1, <1>5, ConstFacts DEF GoodWorker, Extended
<1>6. ASSUME Executing(w)
      PROVE  GoodRecord(Owner', made', b2, wk[w].job, wk[w].opt)
  <2>1. wk[w].job \in Jobs BY <1>1, <1>6 DEF Executing, GoodWorker
  <2>2. QED BY <1>1, <1>6, <2>1, RecordExtended DEF GoodWorker
<1>7. QED BY <1>1, <1>3, <1>4, <1>5, <1>6
          DEF GoodWorker, Executing, WorkerJob

LEMMA WorkersKept ==
  ASSUME NEW b, IInv(b), NEW b2, UNCHANGED <<wk, spawned>>,
         made' \in Nat, Extended(Owner, made, b, Owner', made', b2)
  PROVE  \A w \in Pids : GoodWorker(b2, w)'
BY WorkerKept

LEMMA SpawnGood ==
  ASSUME NEW b, IInv(b), NEW j \in Jobs, j <= made, SpawnWorker(j),
         UNCHANGED made
  PROVE  /\ Extended(Owner, made, b, Owner', made', b)
         /\ spawned + 1 \in Pids /\ Owner'[spawned + 1] = j
         /\ wk' \in [Pids -> Worker] /\ spawned' \in 0..MaxPids
         /\ \A w \in Pids : GoodWorker(b, w)'
<1> DEFINE W == [UnusedWorker EXCEPT !.pc = "boot", !.job = j]
<1>1. /\ Typed /\ made \in Nat /\ spawned \in Nat
      /\ \A w \in Pids : GoodWorker(b, w) /\ Owner[w] = wk[w].job
  BY InvFacts
<1>2. spawned + 1 \in Pids /\ spawned' = spawned + 1 /\ spawned' \in 0..MaxPids
  BY <1>1, BoundsAssumption DEF SpawnWorker, Pids
<1>3. /\ W.pc = "boot" /\ W.job = j /\ W.mem = EmptySnapshot
      /\ W \in Worker
  BY ConstFacts DEF UnusedWorker, Worker
<1>4. wk' = [wk EXCEPT ![spawned + 1] = W] /\ wk' \in [Pids -> Worker]
  BY <1>1, <1>3 DEF SpawnWorker, Typed
<1>5. \A p \in Pids : Owner'[p] = wk'[p].job BY DEF Owner
<1>6. Owner[spawned + 1] = NoJob
  BY <1>1, <1>2, ConstFacts DEF GoodWorker
<1>7. \A p \in Pids : Owner[p] # NoJob => Owner'[p] = Owner[p]
  BY <1>1, <1>4, <1>5, <1>6 DEF Typed
<1>8. Extended(Owner, made, b, Owner', made', b) BY <1>1, <1>7 DEF Extended
<1>9. Owner'[spawned + 1] = j BY <1>1, <1>2, <1>3, <1>4, <1>5 DEF Typed
<1>10. ASSUME NEW w \in Pids PROVE GoodWorker(b, w)'
  <2>1. CASE w # spawned + 1
    <3>1. wk'[w] = wk[w] BY <1>1, <1>4, <2>1 DEF Typed
    <3>2. QED BY <1>1, <1>2, <1>8, <2>1, <3>1, WorkerKept
  <2>2. CASE w = spawned + 1
    <3>1. wk'[w] = W BY <1>1, <1>4, <2>2 DEF Typed
    <3>2. Good(Owner', made', b, EmptySnapshot) BY EmptyGood
    <3>3. QED BY <1>1, <1>2, <1>3, <2>2, <3>1, <3>2 DEF GoodWorker, Executing
  <2>3. QED BY <2>1, <2>2
<1>11. QED BY <1>2, <1>4, <1>8, <1>9, <1>10

HandlerPcs == {"idle", "reloading", "reconciling", "inserting", "claiming", "writing"}

LEMMA StartWriteGood ==
  ASSUME NEW b, IInv(b), NEW b2,
         made' \in Nat, Extended(Owner, made, b, Owner', made', b2),
         NEW h \in Handlers, NEW op \in {"poll"} \cup Kinds,
         NEW pc \in HandlerPcs, NEW job \in Jobs \cup {NoJob},
         NEW left \in SUBSET Kinds, NEW data, Good(Owner', made', b2, data),
         pc = "inserting" => job \in Jobs /\ job <= made',
         StartWrite(h, op, pc, job, left, data)
  PROVE  GoodServer(b2)' /\ hs' \in [Handlers -> Handler]
<1> DEFINE H == [pc |-> pc, op |-> op, job |-> job, left |-> left,
                 snap |-> Captured(data)]
<1>1. Typed /\ made \in Nat /\ GoodServer(b) BY InvFacts
<1>2. hs' = [hs EXCEPT ![h] = H] /\ mem' = data BY DEF StartWrite
<1>3. Good(Owner', made', b2, Captured(data)) BY EmptyGood DEF Captured
<1>4. H \in Handler
  <2>1. Captured(data) \in Snapshot BY <1>3 DEF Good
  <2>2. QED BY <2>1 DEF Handler, HandlerPcs
<1>5. ASSUME NEW g \in Handlers, g # h
      PROVE  /\ Good(Owner', made', b2, hs'[g].snap)
             /\ hs'[g].pc = "inserting" => hs'[g].job \in Jobs /\ hs'[g].job <= made'
  <2>1. hs'[g] = hs[g] BY <1>1, <1>2, <1>5 DEF Typed
  <2>2. made <= made' BY DEF Extended
  <2>3. QED BY <1>1, <2>1, <2>2, SnapshotExtended, ConstFacts DEF GoodServer
<1>6. hs'[h] = H BY <1>1, <1>2 DEF Typed
<1>7. QED BY <1>1, <1>2, <1>3, <1>4, <1>5, <1>6 DEF GoodServer, Typed

(* What a step leads to, apart from the store.                             *)
Reached(b, b2) ==
  /\ b2 \in [Jobs -> Nat]
  /\ Extended(Owner, made, b, Owner', made', b2)
  /\ \A j \in Jobs : b2[j] <= clock'
  /\ Typed'
  /\ GoodServer(b2)'
  /\ \A w \in Pids : GoodWorker(b2, w)'

LEMMA IdleGood ==
  IdleHandler \in Handler /\ IdleHandler.snap = EmptySnapshot
    /\ IdleHandler.pc = "idle"
BY ConstFacts DEF IdleHandler, Handler

(* Serving a request, from any good snapshot.                              *)
LEMMA ServeGood ==
  ASSUME NEW b, IInv(b), NEW h \in Handlers, NEW op \in {"poll"} \cup Kinds,
         NEW kinds \in SUBSET Kinds, NEW data, Good(Owner, made, b, data),
         Serve(h, op, data, kinds)
  PROVE  \E b2 : Reached(b, b2)
<1>1. /\ Typed /\ made \in Nat /\ spawned \in Nat
      /\ Extended(Owner, made, b, Owner, made, b)
      /\ GoodServer(b)
      /\ b \in [Jobs -> Nat] /\ \A j \in Jobs : b[j] <= clock /\ b[j] \in Nat
  BY InvFacts
<1>2. \A j \in Jobs : data.jobs[j].status # "absent" => j <= made
  BY DEF Good, GoodRecord
<1>3. \A k \in kinds : kinds \ {k} \in SUBSET Kinds OBVIOUS
<1>4. CASE ReconcileFail(h, op, data, kinds)
  <2>1. PICK k \in kinds, j \in Jobs :
          /\ IsFirst(j, ActiveOf(data, k))
          /\ StartWrite(h, op, "reconciling", NoJob, kinds \ {k},
                        SetJob(data, j, Failed(data.jobs[j])))
          /\ Tick /\ UNCHANGED <<wk, spawned, made>>
    BY <1>4 DEF ReconcileFail
  <2>2. j <= made
    BY <1>2, <2>1 DEF IsFirst, ActiveOf, ActiveJobs, InFlightStatus
  <2>3. Owner' = Owner BY <2>1, OwnerFrame
  <2>4. GoodRecord(Owner, made, b, j, Failed(data.jobs[j]))
    BY <1>1, <2>2, ChangedGood DEF Good, Typed
  <2>5. Good(Owner', made', b, SetJob(data, j, Failed(data.jobs[j])))
    BY <2>1, <2>3, <2>4, SetJobGood
  <2>6. GoodServer(b)' /\ hs' \in [Handlers -> Handler]
    BY <1>1, <1>3, <2>1, <2>3, <2>5, StartWriteGood DEF HandlerPcs
  <2>7. \A w \in Pids : GoodWorker(b, w)' BY <1>1, <2>1, <2>3, WorkersKept
  <2>8. QED BY <1>1, <2>1, <2>3, <2>6, <2>7, ClockGrows DEF Reached, Typed
<1>5. CASE ReconcileResume(h, op, data, kinds)
  <2>1. PICK j \in Jobs :
          /\ "optimization" \in kinds
          /\ Resumable(j, data.jobs[j])
          /\ SpawnWorker(j)
          /\ StartWrite(h, op, "reconciling", NoJob, kinds \ {"optimization"},
                        SetJob(data, j, Resumed(data.jobs[j], spawned + 1)))
          /\ Tick /\ UNCHANGED made
    BY <1>5 DEF ReconcileResume
  <2>2. j <= made /\ data.jobs[j].restarts < AutoResumeLimit
    BY <1>2, <2>1 DEF Resumable, WorkerGone
  <2>3. /\ Extended(Owner, made, b, Owner', made', b)
        /\ spawned + 1 \in Pids /\ Owner'[spawned + 1] = j
        /\ wk' \in [Pids -> Worker] /\ spawned' \in 0..MaxPids
        /\ \A w \in Pids : GoodWorker(b, w)'
    BY <2>1, <2>2, SpawnGood
  <2>4. Good(Owner', made', b, data) BY <1>1, <2>1, <2>3, SnapshotExtended
  <2>5. GoodRecord(Owner', made', b, j, Resumed(data.jobs[j], spawned + 1))
    BY <1>1, <2>1, <2>2, <2>3, <2>4, ChangedGood DEF Good, Typed
  <2>6. Good(Owner', made', b, SetJob(data, j, Resumed(data.jobs[j], spawned + 1)))
    BY <2>4, <2>5, SetJobGood
  <2>7. GoodServer(b)' /\ hs' \in [Handlers -> Handler]
    BY <1>1, <1>3, <2>1, <2>3, <2>6, StartWriteGood DEF HandlerPcs
  <2>8. QED BY <1>1, <2>1, <2>3, <2>7, ClockGrows DEF Reached, Typed
<1>6. CASE Respond(h, op, data, kinds)
  <2>1. /\ mem' = data /\ hs' = [hs EXCEPT ![h] = IdleHandler]
        /\ UNCHANGED <<wk, spawned, made, clock>>
    BY <1>6 DEF Respond
  <2>2. Owner' = Owner BY <2>1, OwnerFrame
  <2>3. hs' \in [Handlers -> Handler] BY <1>1, <2>1, IdleGood DEF Typed
  <2>4. Good(Owner, made, b, EmptySnapshot) BY EmptyGood
  <2>5. GoodServer(b)'
    BY <1>1, <2>1, <2>2, <2>4, IdleGood DEF GoodServer, Typed
  <2>6. \A w \in Pids : GoodWorker(b, w)' BY <1>1, <2>1, <2>2, WorkersKept
  <2>7. QED BY <1>1, <2>1, <2>2, <2>3, <2>5, <2>6 DEF Reached, Typed
<1>7. CASE CreateJob(h, op, data, kinds)
  <2>1. PICK j \in JobsOf(op) :
          /\ j > made /\ made' = j
          /\ StartWrite(h, op, "inserting", j, {}, SetJob(data, j, Queued))
    BY <1>7 DEF CreateJob
  <2>2. Tick /\ UNCHANGED <<wk, spawned>> BY <1>7 DEF CreateJob
  <2>3. j \in Jobs /\ j \in Nat BY ConstFacts DEF JobsOf, Jobs
  <2>4. Owner' = Owner BY <2>2, OwnerFrame
  <2>5. Now \in Nat /\ clock' \in Nat /\ clock <= clock' /\ Now <= clock'
    BY <1>1, <2>2, ClockGrows DEF Now, Typed
  <2>5b. PICK b2 : b2 = [b EXCEPT ![j] = Now] OBVIOUS
  <2>6. b2 \in [Jobs -> Nat] /\ b2[j] = Now /\ \A i \in Jobs : b2[i] <= clock'
    BY <1>1, <2>3, <2>5, <2>5b DEF Typed
  <2>7. Extended(Owner, made, b, Owner', made', b2)
    BY <1>1, <2>1, <2>3, <2>4, <2>5b, ConstFacts DEF Extended
  <2>8. GoodRecord(Owner', made', b2, j, Queued)
    BY <1>1, <2>1, <2>3, <2>6, QueuedGood DEF Typed
  <2>9. Good(Owner', made', b2, data) BY <1>1, <2>1, <2>3, <2>7, SnapshotExtended
  <2>10. Good(Owner', made', b2, SetJob(data, j, Queued))
    BY <2>3, <2>8, <2>9, SetJobGood
  <2>11. GoodServer(b2)' /\ hs' \in [Handlers -> Handler]
    BY <1>1, <2>1, <2>3, <2>7, <2>10, StartWriteGood DEF HandlerPcs
  <2>12. \A w \in Pids : GoodWorker(b2, w)'
    BY <1>1, <2>1, <2>2, <2>3, <2>7, WorkersKept
  <2>13. Reached(b, b2)
    BY <1>1, <2>1, <2>2, <2>3, <2>5, <2>6, <2>7, <2>11, <2>12 DEF Reached, Typed
  <2>14. QED BY <2>13
<1>8. QED BY <1>4, <1>5, <1>6, <1>7 DEF Serve

LEMMA Assemble ==
  ASSUME NEW b, NEW b2, Reached(b, b2), Good(Owner', made', b2, store'),
         attached' \subseteq Handlers, crashes' \in 0..MaxCrashes, mixed' \in BOOLEAN
  PROVE  Inv'
<1>1. mem' \in Snapshot /\ store' \in Snapshot
  BY DEF Reached, GoodServer, Good
<1>2. IInv(b2)' BY <1>1 DEF Reached, Typed, IInv, TypeOK
<1>3. QED BY <1>2 DEF Inv, Reached

LEMMA ServerStepInv ==
  ASSUME NEW b, IInv(b), NEW h \in Handlers, ServerStep(h)
  PROVE  Inv'
<1>1. /\ Typed /\ made \in Nat /\ spawned \in Nat
      /\ Extended(Owner, made, b, Owner, made, b)
      /\ Good(Owner, made, b, store) /\ Good(Owner, made, b, mem)
      /\ GoodServer(b)
      /\ b \in [Jobs -> Nat] /\ \A j \in Jobs : b[j] <= clock /\ b[j] \in Nat
  BY InvFacts
<1>2. attached \subseteq Handlers /\ crashes \in 0..MaxCrashes /\ mixed' \in BOOLEAN
  BY DEF IInv, TypeOK, ServerStep, Begin, Reloaded, ReconcileLanded, InsertLanded, SpawnThrows,
         WriteLanded, LiveUpdate
<1>3. Good(Owner, made, b, hs[h].snap) /\ hs[h] \in Handler
  BY <1>1 DEF GoodServer, Typed
<1>4. /\ Good(Owner, made, b, Flushed(hs[h].snap, mem))
      /\ Good(Owner, made, b, AfterFlush(mem))
  BY <1>1, <1>3, FlushGood
<1>5. ASSUME NEW op \in {"poll"} \cup Kinds, NEW kinds \in SUBSET Kinds,
             Begin(h, op, kinds)
      PROVE  Inv'
  <2> DEFINE H == [IdleHandler EXCEPT !.pc = "reloading", !.op = op,
                                      !.left = kinds, !.snap = store]
  <2>1. /\ hs' = [hs EXCEPT ![h] = H]
        /\ UNCHANGED <<store, mem, attached, wk, made, spawned, clock, crashes>>
    BY <1>5 DEF Begin
  <2>2. Owner' = Owner BY <2>1, OwnerFrame
  <2>3. store \in Snapshot BY <1>1 DEF Good
  <2>4. H \in Handler /\ H.pc = "reloading" /\ H.snap = store
    BY <2>3, IdleGood DEF Handler
  <2>5. hs' \in [Handlers -> Handler] BY <1>1, <2>1, <2>4 DEF Typed
  <2>6. GoodServer(b)' BY <1>1, <2>1, <2>2, <2>4 DEF GoodServer, Typed
  <2>7. \A w \in Pids : GoodWorker(b, w)' BY <1>1, <2>1, <2>2, WorkersKept
  <2>8. Reached(b, b) BY <1>1, <2>1, <2>2, <2>5, <2>6, <2>7 DEF Reached, Typed
  <2>9. QED BY <1>1, <1>2, <2>1, <2>2, <2>8, Assemble
<1>5a. CASE Reloaded(h)
  <2>1. /\ hs[h].op \in {"poll"} \cup Kinds /\ hs[h].left \in SUBSET Kinds
        /\ Serve(h, hs[h].op, hs[h].snap, hs[h].left)
    BY <1>3, <1>5a DEF Handler, Reloaded
  <2>2. PICK b2 : Reached(b, b2) BY <1>3, <2>1, ServeGood
  <2>2a. made' \in Nat /\ Extended(Owner, made, b, Owner', made', b2)
    BY <2>2, ConstFacts DEF Reached, Typed, NoJob
  <2>3. Good(Owner', made', b2, store)
    BY <1>1, <2>2a, SnapshotExtended
  <2>4. QED BY <1>2, <1>5a, <2>2, <2>3, Assemble DEF Reloaded
<1>6. CASE ReconcileLanded(h)
  <2>1. /\ hs[h].op \in {"poll"} \cup Kinds /\ hs[h].left \in SUBSET Kinds
        /\ Serve(h, hs[h].op, AfterFlush(mem), hs[h].left)
        /\ store' = Flushed(hs[h].snap, mem)
    BY <1>3, <1>6 DEF Handler, ReconcileLanded
  <2>2. PICK b2 : Reached(b, b2) BY <1>4, <2>1, ServeGood
  <2>3. Good(Owner', made', b2, store')
    BY <1>1, <1>4, <2>1, <2>2, ConstFacts, SnapshotExtended
       DEF Reached, Typed, NoJob
  <2>4. QED BY <1>2, <1>6, <2>2, <2>3, Assemble DEF ReconcileLanded
<1>7. CASE InsertLanded(h)
  <2> DEFINE j == hs[h].job
             data == AfterFlush(mem)
             claim == SetJob(data, j, Claimed(data.jobs[j], spawned + 1))
             next == IF h \in attached THEN claim ELSE data
  <2>1. /\ j \in Jobs /\ j <= made
        /\ store' = Flushed(hs[h].snap, mem)
        /\ SpawnWorker(j)
        /\ StartWrite(h, hs[h].op, "claiming", j, {}, next)
        /\ Tick /\ UNCHANGED <<attached, made, crashes>>
    BY <1>1, <1>7 DEF InsertLanded, GoodServer
  <2>2. /\ Extended(Owner, made, b, Owner', made', b)
        /\ spawned + 1 \in Pids /\ Owner'[spawned + 1] = j
        /\ wk' \in [Pids -> Worker] /\ spawned' \in 0..MaxPids
        /\ \A w \in Pids : GoodWorker(b, w)'
    BY <2>1, SpawnGood
  <2>3. Good(Owner', made', b, data) /\ Good(Owner', made', b, store')
    BY <1>1, <1>4, <2>1, <2>2, SnapshotExtended
  <2>4. GoodRecord(Owner', made', b, j, Claimed(data.jobs[j], spawned + 1))
    BY <1>1, <2>1, <2>2, <2>3, ChangedGood DEF Good, Typed
  <2>5. Good(Owner', made', b, next) BY <2>1, <2>3, <2>4, SetJobGood
  <2>6. hs[h].op \in {"poll"} \cup Kinds /\ {} \in SUBSET Kinds
    BY <1>3 DEF Handler
  <2>7. GoodServer(b)' /\ hs' \in [Handlers -> Handler]
    BY <1>1, <2>1, <2>2, <2>5, <2>6, StartWriteGood DEF HandlerPcs
  <2>8. Reached(b, b) BY <1>1, <2>1, <2>2, <2>7, ClockGrows DEF Reached, Typed
  <2>9. QED BY <1>2, <2>1, <2>3, <2>8, Assemble
<1>8. CASE SpawnThrows(h)
  <2> DEFINE j == hs[h].job
             data == AfterFlush(mem)
             fail == SetJob(data, j, Failed(data.jobs[j]))
             next == IF h \in attached THEN fail ELSE data
  <2>1. /\ j \in Jobs /\ j <= made
        /\ store' = Flushed(hs[h].snap, mem)
        /\ StartWrite(h, hs[h].op, "claiming", j, {}, next)
        /\ Tick /\ UNCHANGED <<attached, made, crashes, wk, spawned>>
    BY <1>1, <1>8 DEF SpawnThrows, GoodServer
  <2>2. Owner' = Owner BY <2>1, OwnerFrame
  <2>3. GoodRecord(Owner, made, b, j, Failed(data.jobs[j]))
    BY <1>1, <1>4, <2>1, ChangedGood DEF Good, Typed
  <2>4. Good(Owner', made', b, next) BY <1>4, <2>1, <2>2, <2>3, SetJobGood
  <2>5. hs[h].op \in {"poll"} \cup Kinds /\ {} \in SUBSET Kinds
    BY <1>3 DEF Handler
  <2>6. GoodServer(b)' /\ hs' \in [Handlers -> Handler]
    BY <1>1, <2>1, <2>2, <2>4, <2>5, StartWriteGood DEF HandlerPcs
  <2>7. \A w \in Pids : GoodWorker(b, w)' BY <1>1, <2>1, <2>2, WorkersKept
  <2>8. Reached(b, b)
    BY <1>1, <2>1, <2>2, <2>6, <2>7, ClockGrows DEF Reached, Typed
  <2>9. QED BY <1>2, <1>4, <2>1, <2>2, <2>8, Assemble
<1>9. CASE WriteLanded(h)
  <2>1. /\ store' = Flushed(hs[h].snap, mem) /\ mem' = AfterFlush(mem)
        /\ hs' = [hs EXCEPT ![h] = IdleHandler]
        /\ UNCHANGED <<attached, wk, made, spawned, clock, crashes>>
    BY <1>9 DEF WriteLanded
  <2>2. Owner' = Owner BY <2>1, OwnerFrame
  <2>3. Good(Owner, made, b, EmptySnapshot) BY EmptyGood
  <2>4. hs' \in [Handlers -> Handler] BY <1>1, <2>1, IdleGood DEF Typed
  <2>5. GoodServer(b)'
    BY <1>1, <1>4, <2>1, <2>2, <2>3, IdleGood DEF GoodServer, Typed
  <2>6. \A w \in Pids : GoodWorker(b, w)' BY <1>1, <2>1, <2>2, WorkersKept
  <2>7. Reached(b, b) BY <1>1, <2>1, <2>2, <2>4, <2>5, <2>6 DEF Reached, Typed
  <2>8. QED BY <1>2, <1>4, <2>1, <2>2, <2>7, Assemble
<1>10. CASE LiveUpdate(h)
  <2> DEFINE next == [mem EXCEPT !.live = @ + 1]
  <2>1. /\ mem.live < MaxLive
        /\ StartWrite(h, "poll", "writing", NoJob, {}, next)
        /\ UNCHANGED <<store, attached, wk, made, spawned, clock, crashes>>
    BY <1>10 DEF LiveUpdate
  <2>2. Owner' = Owner BY <2>1, OwnerFrame
  <2>3. Good(Owner', made', b, next)
    <3>1. mem \in Snapshot /\ mem.live + 1 \in 0..MaxLive
      BY <1>1, <2>1, BoundsAssumption DEF Good, Snapshot
    <3>2. next \in Snapshot /\ next.jobs = mem.jobs BY <3>1 DEF Snapshot
    <3>3. QED BY <1>1, <2>1, <2>2, <3>2 DEF Good
  <2>4. GoodServer(b)' /\ hs' \in [Handlers -> Handler]
    BY <1>1, <2>1, <2>2, <2>3, StartWriteGood DEF HandlerPcs
  <2>5. \A w \in Pids : GoodWorker(b, w)' BY <1>1, <2>1, <2>2, WorkersKept
  <2>6. Reached(b, b) BY <1>1, <2>1, <2>2, <2>4, <2>5 DEF Reached, Typed
  <2>7. QED BY <1>1, <1>2, <2>1, <2>2, <2>6, Assemble
<1>11. QED BY <1>5, <1>5a, <1>6, <1>7, <1>8, <1>9, <1>10 DEF ServerStep

LEMMA ServerRestartInv ==
  ASSUME NEW b, IInv(b), ServerRestart PROVE Inv'
<1>1. /\ Typed /\ made \in Nat
      /\ Extended(Owner, made, b, Owner, made, b)
      /\ Good(Owner, made, b, store)
      /\ b \in [Jobs -> Nat] /\ \A j \in Jobs : b[j] <= clock
  BY InvFacts
<1>2. crashes' \in 0..MaxCrashes /\ mixed' \in BOOLEAN
  BY BoundsAssumption DEF IInv, TypeOK, ServerRestart
<1>3. Owner' = Owner BY OwnerFrame DEF ServerRestart
<1>4. Good(Owner, made, b, EmptySnapshot) BY EmptyGood
<1>5. GoodServer(b)' /\ hs' \in [Handlers -> Handler]
  BY <1>1, <1>3, <1>4, IdleGood DEF GoodServer, ServerRestart
<1>6. \A w \in Pids : GoodWorker(b, w)'
  BY <1>1, <1>3, WorkersKept DEF ServerRestart
<1>7. Reached(b, b)
  BY <1>1, <1>3, <1>5, <1>6 DEF Reached, Typed, ServerRestart
<1>8. QED BY <1>1, <1>2, <1>3, <1>7, Assemble DEF ServerRestart

-----------------------------------------------------------------------------
(* Steps of workers: one worker becomes W, the rest of the system stays.   *)
FineWorker(b, w, W) ==
  /\ W \in Worker
  /\ W.job = wk[w].job
  /\ W.pc # "unused"
  /\ Good(Owner, made, b, W.mem)
  /\ W.pc = "claimed" => W.mem.jobs[W.job].status \notin {"queued", "absent"}
  /\ W.pc = "ready" => W.mem.jobs[W.job].status # "queued"
  /\ W.pc \in {"starting", "loading", "progressing", "evaluating"} =>
       /\ GoodRecord(Owner, made, b, W.job, W.opt)
       /\ W.opt.status = "running"

LEMMA OneWorker ==
  ASSUME NEW b, IInv(b), NEW w \in Pids, wk[w].pc # "unused",
         NEW W, FineWorker(b, w, W), wk' = [wk EXCEPT ![w] = W],
         UNCHANGED <<mem, hs, attached, made, spawned, mixed>>,
         crashes' \in 0..MaxCrashes, clock' = clock \/ Tick,
         Good(Owner, made, b, store')
  PROVE  Inv'
<1>1. /\ Typed /\ made \in Nat /\ spawned \in Nat /\ GoodServer(b)
      /\ Extended(Owner, made, b, Owner, made, b)
      /\ \A v \in Pids : GoodWorker(b, v) /\ Owner[v] = wk[v].job
      /\ b \in [Jobs -> Nat] /\ \A j \in Jobs : b[j] <= clock /\ b[j] \in Nat
  BY InvFacts
<1>2. wk'[w] = W /\ wk' \in [Pids -> Worker]
  BY <1>1 DEF Typed, FineWorker
<1>3. \A v \in Pids : v # w => wk'[v] = wk[v] BY <1>1 DEF Typed
<1>4. Owner' = Owner BY <1>1, <1>2, <1>3 DEF Owner, FineWorker
<1>5. \A v \in Pids : v # w => GoodWorker(b, v)' BY <1>1, <1>3, <1>4, WorkerKept
<1>6. GoodWorker(b, w)'
  BY <1>1, <1>2, <1>4 DEF FineWorker, GoodWorker, WorkerJob, Executing
<1>7. GoodServer(b)' BY <1>1, <1>4 DEF GoodServer
<1>8. Reached(b, b)
  BY <1>1, <1>2, <1>4, <1>5, <1>6, <1>7, ClockGrows DEF Reached, Typed
<1>9. attached' \subseteq Handlers /\ mixed' \in BOOLEAN BY DEF IInv, TypeOK
<1>10. QED BY <1>4, <1>8, <1>9, Assemble

(* The process outside the executors. *)
Outside(w, pc, data) ==
  [UnusedWorker EXCEPT !.pc = pc, !.job = wk[w].job, !.mem = data]

LEMMA OutsideFine ==
  ASSUME NEW b, IInv(b), NEW w \in Pids, wk[w].pc # "unused",
         NEW pc \in {"claimed", "ready", "catch", "catchWrite", "exited"},
         NEW data, Good(Owner, made, b, data),
         pc = "claimed" => data.jobs[wk[w].job].status \notin {"queued", "absent"},
         pc = "ready" => data.jobs[wk[w].job].status # "queued"
  PROVE  FineWorker(b, w, Outside(w, pc, data))
<1>1. wk[w] \in Worker /\ data \in Snapshot
  BY InvFacts DEF Typed, Good
<1>2. UnusedWorker \in Worker BY ConstFacts DEF UnusedWorker, Worker
<1>3. /\ Outside(w, pc, data) \in Worker
      /\ Outside(w, pc, data).pc = pc
      /\ Outside(w, pc, data).job = wk[w].job
      /\ Outside(w, pc, data).mem = data
  BY <1>1, <1>2 DEF Outside, Worker
<1>4. QED BY <1>3 DEF FineWorker

(* The process inside an executor, which changes the job object to opt.    *)
ExecutorPcs == {"starting", "loading", "progressing", "evaluating"}

LEMMA ExecutorFine ==
  ASSUME NEW b, IInv(b), NEW w \in Pids, wk[w].pc # "unused",
         NEW pc \in ExecutorPcs \cup {"finishing"}, NEW own \in BOOLEAN,
         NEW opt, GoodRecord(Owner, made, b, wk[w].job, opt),
         pc # "finishing" => opt.status = "running", NEW data, Good(Owner, made, b, data)
  PROVE  FineWorker(b, w, [wk[w] EXCEPT !.pc = pc, !.opt = opt, !.own = own,
                                        !.mem = data])
<1> DEFINE W == [wk[w] EXCEPT !.pc = pc, !.opt = opt, !.own = own, !.mem = data]
<1>1. wk[w] \in Worker /\ data \in Snapshot /\ opt \in Record
  BY InvFacts DEF Typed, Good, GoodRecord
<1>2. /\ W \in Worker /\ W.pc = pc /\ W.job = wk[w].job /\ W.mem = data
      /\ W.opt = opt
  BY <1>1 DEF Worker, ExecutorPcs
<1>3. QED BY <1>2 DEF FineWorker, ExecutorPcs

LEMMA ExecutorSetInv ==
  ASSUME NEW b, IInv(b), NEW w \in Pids, wk[w].pc # "unused",
         NEW pc \in ExecutorPcs \cup {"finishing"}, NEW own \in BOOLEAN,
         NEW opt, GoodRecord(Owner, made, b, wk[w].job, opt),
         pc # "finishing" => opt.status = "running", ExecutorSet(w, pc, own, opt),
         clock' = clock \/ Tick, WorkerOnly, UNCHANGED store
  PROVE  Inv'
<1> DEFINE data  == ExecutorCopy(w, own, opt)
<1>1. /\ Good(Owner, made, b, store)
      /\ GoodWorker(b, w) /\ wk \in [Pids -> Worker]
  BY InvFacts DEF Typed
<1>2. Good(Owner, made, b, data)
  BY <1>1, SetJobGood DEF ExecutorCopy, GoodWorker
<1>3. FineWorker(b, w, [wk[w] EXCEPT !.pc = pc, !.opt = opt, !.own = own, !.mem = data])
  BY <1>2, ExecutorFine
<1>4. wk' = [wk EXCEPT ![w] = [wk[w] EXCEPT !.pc = pc, !.opt = opt, !.own = own, !.mem = data]]
  BY DEF ExecutorSet
<1>5. /\ UNCHANGED <<mem, hs, attached, made, spawned, mixed>>
      /\ crashes' \in 0..MaxCrashes
  BY DEF WorkerOnly, IInv, TypeOK
<1>6. QED BY <1>1, <1>3, <1>4, <1>5, OneWorker

LEMMA ExitInv ==
  ASSUME NEW b, IInv(b), NEW w \in Pids, wk[w].pc # "unused", WorkerExit(w),
         UNCHANGED <<mem, hs, attached, made, spawned, mixed>>,
         crashes' \in 0..MaxCrashes, clock' = clock \/ Tick,
         Good(Owner, made, b, store')
  PROVE  Inv'
<1>1. Good(Owner, made, b, EmptySnapshot) BY EmptyGood
<1>2. FineWorker(b, w, Outside(w, "exited", EmptySnapshot))
  BY <1>1, OutsideFine
<1>3. QED BY <1>2, OneWorker DEF WorkerExit, WorkerSet, Outside

-----------------------------------------------------------------------------
(* The actions of a worker.                                                *)
LEMMA WorkerFacts ==
  ASSUME NEW b, IInv(b), NEW w \in Pids, wk[w].pc # "unused"
  PROVE  /\ Typed /\ made \in Nat
         /\ Good(Owner, made, b, store) /\ Good(Owner, made, b, wk[w].mem)
         /\ GoodWorker(b, w) /\ Owner[w] = wk[w].job
         /\ wk[w] \in Worker
         /\ wk[w].job \in Jobs /\ wk[w].job <= made
         /\ b[wk[w].job] \in Nat /\ b[wk[w].job] <= clock
         /\ GoodRecord(Owner, made, b, wk[w].job, WorkerJob(w))
         /\ GoodRecord(Owner, made, b, wk[w].job, store.jobs[wk[w].job])
<1>1. /\ Typed /\ made \in Nat /\ Good(Owner, made, b, store)
      /\ GoodWorker(b, w) /\ Owner[w] = wk[w].job
      /\ \A j \in Jobs : b[j] \in Nat /\ b[j] <= clock
  BY InvFacts
<1>2. wk[w].job \in Jobs /\ wk[w].job <= made BY <1>1 DEF GoodWorker
<1>3. QED BY <1>1, <1>2 DEF GoodWorker, Good, WorkerJob, Typed

LEMMA WorkerLoadInv ==
  ASSUME NEW b, IInv(b), NEW w \in Pids, WorkerLoad(w) PROVE Inv'
<1> DEFINE j == wk[w].job
           r == store.jobs[j]
           claim == SetJob(store, j, Claimed(r, w))
<1>1. wk[w].pc # "unused" BY DEF WorkerLoad
<1>2. /\ Typed /\ Good(Owner, made, b, store)
      /\ Owner[w] = j /\ j \in Jobs /\ j <= made
      /\ b[j] \in Nat /\ b[j] <= clock
      /\ GoodRecord(Owner, made, b, j, r)
  BY <1>1, WorkerFacts
<1>3. /\ UNCHANGED <<mem, hs, attached, made, spawned, mixed>>
      /\ crashes' \in 0..MaxCrashes /\ store' = store
  BY DEF WorkerLoad, WorkerOnly, IInv, TypeOK
<1>4. CASE r.status = "absent" /\ WorkerSet(w, "catch", store) /\ UNCHANGED clock
  <2>1. FineWorker(b, w, Outside(w, "catch", store)) BY <1>1, <1>2, OutsideFine
  <2>2. QED BY <1>1, <1>2, <1>3, <1>4, <2>1, OneWorker DEF WorkerSet, Outside
<1>5. CASE r.status = "queued" /\ WorkerSet(w, "claimed", claim) /\ Tick
  <2>1. GoodRecord(Owner, made, b, j, Claimed(r, w))
    BY <1>2, ChangedGood DEF Typed
  <2>2. Good(Owner, made, b, claim) /\ claim.jobs[j] = Claimed(r, w)
    BY <1>2, <2>1, SetJobGood
  <2>3. Claimed(r, w).status = "running" BY <1>2 DEF GoodRecord, Record, Claimed
  <2>4. FineWorker(b, w, Outside(w, "claimed", claim))
    BY <1>1, <2>2, <2>3, OutsideFine
  <2>5. QED BY <1>1, <1>2, <1>3, <1>5, <2>4, OneWorker DEF WorkerSet, Outside
<1>6. CASE /\ r.status \notin {"absent", "queued"} /\ WorkerSet(w, "ready", store)
           /\ UNCHANGED clock
  <2>1. FineWorker(b, w, Outside(w, "ready", store))
    BY <1>1, <1>2, <1>6, OutsideFine
  <2>2. QED BY <1>1, <1>2, <1>3, <1>6, <2>1, OneWorker DEF WorkerSet, Outside
<1>7. QED BY <1>4, <1>5, <1>6 DEF WorkerLoad

LEMMA WorkerClaimInv ==
  ASSUME NEW b, IInv(b), NEW w \in Pids, WorkerClaim(w) PROVE Inv'
<1> DEFINE j == wk[w].job
           local == wk[w].mem
           after == AfterFlush(local)
<1>1. wk[w].pc = "claimed" BY DEF WorkerClaim
<1>2. /\ Good(Owner, made, b, store) /\ Good(Owner, made, b, local)
      /\ j \in Jobs /\ GoodWorker(b, w) /\ b[j] \in Nat
      /\ GoodRecord(Owner, made, b, j, local.jobs[j])
      /\ GoodRecord(Owner, made, b, j, store.jobs[j])
  BY <1>1, WorkerFacts DEF WorkerJob
<1>3. local.jobs[j].status \notin {"queued", "absent"}
  BY <1>1, <1>2 DEF GoodWorker, WorkerJob
<1>4. /\ Good(Owner, made, b, Flushed(local, local))
      /\ Good(Owner, made, b, after)
  BY <1>2, FlushGood
<1>5. after.jobs[j].status # "queued"
  <2>1. CASE Backend = "lowdb" BY <1>3, <2>1 DEF AfterFlush
  <2>2. CASE Backend # "lowdb"
    <3>1. Backend = "postgres" BY <2>2, BackendAssumption
    <3>2. local.jobs[j].ts > b[j] BY <1>2, <1>3, <3>1 DEF GoodRecord
    <3>3. store.jobs[j].status = "queued" => store.jobs[j].ts = b[j]
      BY <1>2, <3>1 DEF GoodRecord
    <3>4. after.jobs[j] = IF local.jobs[j].ts >= store.jobs[j].ts
                            THEN local.jobs[j] ELSE store.jobs[j]
      BY <1>2, <2>2 DEF AfterFlush, MergeSnapshot, MergeById
    <3>5. local.jobs[j].ts \in Nat BY <1>2 DEF GoodRecord, Record
    <3>6. b[j] \in Nat BY <1>2
    <3> HIDE DEF j, local, after
    <3>7. QED BY <1>3, <3>2, <3>3, <3>4, <3>5, <3>6
  <2>3. QED BY <2>1, <2>2
<1>6. FineWorker(b, w, Outside(w, "ready", after))
  BY <1>1, <1>4, <1>5, OutsideFine
<1>7. /\ UNCHANGED <<mem, hs, attached, made, spawned, mixed>>
      /\ crashes' \in 0..MaxCrashes /\ clock' = clock
      /\ store' = Flushed(local, local)
      /\ wk' = [wk EXCEPT ![w] = Outside(w, "ready", after)]
  BY DEF WorkerClaim, WorkerOnly, IInv, TypeOK, WorkerSet, Outside
<1>8. QED BY <1>1, <1>4, <1>6, <1>7, OneWorker

LEMMA WorkerRefusesInv ==
  ASSUME NEW b, IInv(b), NEW w \in Pids, WorkerRefuses(w) PROVE Inv'
<1>1. wk[w].pc # "unused" BY DEF WorkerRefuses
<1>2. Good(Owner, made, b, store) /\ Good(Owner, made, b, wk[w].mem)
  BY <1>1, WorkerFacts
<1>3. FineWorker(b, w, Outside(w, "catch", wk[w].mem)) BY <1>1, <1>2, OutsideFine
<1>4. /\ UNCHANGED <<mem, hs, attached, made, spawned, mixed>>
      /\ crashes' \in 0..MaxCrashes /\ clock' = clock /\ store' = store
      /\ wk' = [wk EXCEPT ![w] = Outside(w, "catch", wk[w].mem)]
  BY DEF WorkerRefuses, WorkerOnly, IInv, TypeOK, WorkerSet, Outside
<1>5. QED BY <1>1, <1>2, <1>3, <1>4, OneWorker

LEMMA WorkerStartInv ==
  ASSUME NEW b, IInv(b), NEW w \in Pids, WorkerStart(w) PROVE Inv'
<1> DEFINE j == wk[w].job
           r == WorkerJob(w)
<1>1. wk[w].pc = "ready" /\ Accepts(w, r) BY DEF WorkerStart
<1>2. /\ Typed /\ GoodWorker(b, w)
      /\ j \in Jobs /\ j <= made /\ b[j] \in Nat /\ b[j] <= clock
      /\ GoodRecord(Owner, made, b, j, r)
  BY <1>1, WorkerFacts
<1>3. r.status # "queued" BY <1>1, <1>2 DEF GoodWorker
<1>4. r.status = "running" \/ r.evald > 0
  BY <1>1, <1>3, BoundsAssumption DEF Accepts, AcceptsBacktest, AcceptsOptimization
<1>5. r.worker # NoPid BY <1>2, <1>4 DEF GoodRecord
<1>6. GoodRecord(Owner, made, b, j, Started(r))
  BY <1>2, <1>5, ChangedGood DEF Typed
<1>7. Started(r).status = "running" BY <1>2 DEF GoodRecord, Record, Started
<1>8. QED BY <1>1, <1>6, <1>7, ExecutorSetInv DEF WorkerStart, ExecutorPcs

LEMMA JobObjectFacts ==
  ASSUME NEW b, IInv(b), NEW w \in Pids, Executing(w)
  PROVE  /\ GoodRecord(Owner, made, b, wk[w].job, JobObject(w))
         /\ wk[w].job \in Optimizations => JobObject(w).status = "running"
         /\ OwnsObject(w) \in BOOLEAN
         /\ wk[w].pc # "unused" /\ wk[w].own \in BOOLEAN
<1>1. wk[w].pc # "unused" BY DEF Executing
<1>2. /\ wk[w] \in Worker /\ GoodWorker(b, w)
      /\ GoodRecord(Owner, made, b, wk[w].job, WorkerJob(w))
  BY <1>1, WorkerFacts
<1>3. wk[w].job \in Optimizations => wk[w].job \notin Backtests
  BY BoundsAssumption
<1>4. wk[w].own \in BOOLEAN BY <1>2 DEF Worker
<1>5. QED BY <1>1, <1>2, <1>3, <1>4 DEF JobObject, GoodWorker, OwnsObject

LEMMA WorkerLoadedInv ==
  ASSUME NEW b, IInv(b), NEW w \in Pids, WorkerCandlesLoaded(w) PROVE Inv'
<1> DEFINE j == wk[w].job
           r == JobObject(w)
<1>1. Executing(w) BY DEF WorkerCandlesLoaded, Executing
<1>2. /\ GoodRecord(Owner, made, b, j, r) /\ wk[w].pc # "unused"
      /\ j \in Optimizations => r.status = "running"
      /\ OwnsObject(w) \in BOOLEAN
  BY <1>1, JobObjectFacts
<1>3. Typed /\ j \in Jobs /\ j <= made /\ b[j] \in Nat /\ b[j] <= clock
  BY <1>2, WorkerFacts
<1>4. CASE j \in Optimizations
  <2>1. GoodRecord(Owner, made, b, j, Progressed(r))
    BY <1>2, <1>3, <1>4, ChangedGood DEF Typed
  <2>2. Progressed(r).status = "running"
    BY <1>2, <1>4 DEF GoodRecord, Record, Progressed
  <2>3. QED BY <1>2, <1>4, <2>1, <2>2, ExecutorSetInv DEF WorkerCandlesLoaded, ExecutorPcs
<1>5. CASE j \notin Optimizations
  <2>1. GoodRecord(Owner, made, b, j, Completed(r))
    BY <1>2, <1>3, <1>5, ChangedGood DEF Typed
  <2>2. QED BY <1>2, <1>5, <2>1, ExecutorSetInv DEF WorkerCandlesLoaded
<1>6. QED BY <1>4, <1>5

LEMMA WorkerFailsInv ==
  ASSUME NEW b, IInv(b), NEW w \in Pids, WorkerFails(w) PROVE Inv'
<1>1. Executing(w) BY DEF WorkerFails, Executing
<1>2. /\ GoodRecord(Owner, made, b, wk[w].job, JobObject(w))
      /\ wk[w].pc # "unused" /\ OwnsObject(w) \in BOOLEAN
  BY <1>1, JobObjectFacts
<1>3. /\ Typed /\ wk[w].job \in Jobs /\ wk[w].job <= made
      /\ b[wk[w].job] \in Nat /\ b[wk[w].job] <= clock
  BY <1>2, WorkerFacts
<1>4. GoodRecord(Owner, made, b, wk[w].job, Failed(JobObject(w)))
  BY <1>2, <1>3, ChangedGood DEF Typed
<1>5. QED BY <1>2, <1>4, ExecutorSetInv DEF WorkerFails

LEMMA WorkerEvaluateInv ==
  ASSUME NEW b, IInv(b), NEW w \in Pids, WorkerEvaluate(w) PROVE Inv'
<1> DEFINE opt == wk[w].opt
<1>1. Executing(w) /\ opt.evald < Candidates /\ Tick /\ WorkerOnly
  BY DEF WorkerEvaluate, Executing
<1>2. wk[w].pc # "unused" /\ wk[w].own \in BOOLEAN BY <1>1, JobObjectFacts
<1>3. /\ Typed /\ wk[w].job \in Jobs /\ wk[w].job <= made
      /\ GoodWorker(b, w) /\ wk[w] \in Worker
      /\ Good(Owner, made, b, wk[w].mem) /\ Good(Owner, made, b, store)
      /\ b[wk[w].job] \in Nat /\ b[wk[w].job] <= clock
  BY <1>2, WorkerFacts
<1>4. GoodRecord(Owner, made, b, wk[w].job, opt) /\ opt.status = "running"
  BY <1>1, <1>3 DEF GoodWorker
<1>5. GoodRecord(Owner, made, b, wk[w].job, Evaluated(opt))
  BY <1>1, <1>3, <1>4, ChangedGood DEF Typed
<1>6. Evaluated(opt).status = "running"
  BY <1>4 DEF GoodRecord, Record, Evaluated
<1>7. QED BY <1>1, <1>2, <1>5, <1>6, ExecutorSetInv DEF WorkerEvaluate, ExecutorPcs

LEMMA WorkerFinishInv ==
  ASSUME NEW b, IInv(b), NEW w \in Pids, WorkerFinish(w) PROVE Inv'
<1>1. /\ Executing(w) /\ wk[w].opt.evald = Candidates
      /\ ExecutorSet(w, "finishing", wk[w].own, Completed(wk[w].opt)) /\ Tick /\ WorkerOnly
      /\ UNCHANGED store
  BY DEF WorkerFinish, Executing
<1>2. wk[w].pc # "unused" /\ wk[w].own \in BOOLEAN BY <1>1, JobObjectFacts
<1>3. /\ Typed /\ wk[w].job \in Jobs /\ wk[w].job <= made /\ GoodWorker(b, w)
      /\ b[wk[w].job] \in Nat /\ b[wk[w].job] <= clock
  BY <1>2, WorkerFacts
<1>4. GoodRecord(Owner, made, b, wk[w].job, wk[w].opt)
  BY <1>1, <1>3 DEF GoodWorker
<1>5. GoodRecord(Owner, made, b, wk[w].job, Completed(wk[w].opt))
  BY <1>1, <1>3, <1>4, ChangedGood DEF Typed
<1>6. QED BY <1>1, <1>2, <1>5, ExecutorSetInv

(* What lands is good, and the worker goes on with the job object it has.  *)
LEMMA WorkerWrittenInv ==
  ASSUME NEW b, IInv(b), NEW w \in Pids, WorkerWritten(w) PROVE Inv'
<1> DEFINE after == AfterFlush(wk[w].mem)
           pc    == IF wk[w].pc = "starting" THEN "loading" ELSE "evaluating"
           own   == wk[w].own /\ after.jobs[wk[w].job] = wk[w].opt
<1>1. wk[w].pc # "unused" BY DEF WorkerWritten
<1>2. /\ Good(Owner, made, b, store) /\ Good(Owner, made, b, wk[w].mem)
      /\ GoodWorker(b, w) /\ wk[w] \in Worker
  BY <1>1, WorkerFacts
<1>3. /\ Good(Owner, made, b, Flushed(wk[w].mem, wk[w].mem))
      /\ Good(Owner, made, b, after)
  BY <1>2, FlushGood
<1>4. /\ UNCHANGED <<mem, hs, attached, made, spawned, mixed>>
      /\ crashes' \in 0..MaxCrashes /\ clock' = clock
      /\ store' = Flushed(wk[w].mem, wk[w].mem)
  BY DEF WorkerWritten, WorkerOnly, IInv, TypeOK
<1>5. CASE wk[w].pc = "finishing"
  BY <1>1, <1>3, <1>4, <1>5, ExitInv DEF WorkerWritten
<1>6. CASE wk[w].pc # "finishing"
  <2>1. Executing(w) BY <1>6 DEF WorkerWritten, Executing
  <2>2. GoodRecord(Owner, made, b, wk[w].job, wk[w].opt) /\ wk[w].opt.status = "running"
    BY <1>2, <2>1 DEF GoodWorker
  <2>3. own \in BOOLEAN /\ pc \in ExecutorPcs /\ pc # "finishing" BY DEF ExecutorPcs
  <2>4. FineWorker(b, w, [wk[w] EXCEPT !.pc = pc, !.opt = wk[w].opt, !.own = own, !.mem = after])
    BY <1>1, <1>3, <2>2, <2>3, ExecutorFine
  <2>5. [wk[w] EXCEPT !.pc = pc, !.mem = after, !.own = own]
          = [wk[w] EXCEPT !.pc = pc, !.opt = wk[w].opt, !.own = own, !.mem = after]
    BY <1>2 DEF Worker
  <2>6. wk' = [wk EXCEPT ![w] = [wk[w] EXCEPT !.pc = pc, !.mem = after, !.own = own]]
    BY <1>6 DEF WorkerWritten
  <2>7. QED BY <1>1, <1>3, <1>4, <2>4, <2>5, <2>6, OneWorker
<1>7. QED BY <1>5, <1>6

LEMMA WorkerCatchInv ==
  ASSUME NEW b, IInv(b), NEW w \in Pids, WorkerCatch(w) PROVE Inv'
<1> DEFINE j == wk[w].job
           failed == SetJob(store, j, Failed(store.jobs[j]))
<1>1. wk[w].pc # "unused" BY DEF WorkerCatch
<1>2. /\ Typed /\ Good(Owner, made, b, store)
      /\ j \in Jobs /\ j <= made /\ b[j] \in Nat /\ b[j] <= clock
      /\ GoodRecord(Owner, made, b, j, store.jobs[j])
  BY <1>1, WorkerFacts
<1>3. /\ UNCHANGED <<mem, hs, attached, made, spawned, mixed>>
      /\ crashes' \in 0..MaxCrashes /\ store' = store
  BY DEF WorkerCatch, WorkerOnly, IInv, TypeOK
<1>4. CASE WorkerSet(w, "catchWrite", failed) /\ Tick
  <2>1. Good(Owner, made, b, failed)
    BY <1>2, ChangedGood, SetJobGood DEF Typed
  <2>2. FineWorker(b, w, Outside(w, "catchWrite", failed))
    BY <1>1, <2>1, OutsideFine
  <2>3. QED BY <1>1, <1>2, <1>3, <1>4, <2>2, OneWorker DEF WorkerSet, Outside
<1>5. CASE WorkerExit(w) /\ UNCHANGED clock
  BY <1>1, <1>2, <1>3, <1>5, ExitInv
<1>6. QED BY <1>4, <1>5 DEF WorkerCatch

LEMMA WorkerCatchWriteInv ==
  ASSUME NEW b, IInv(b), NEW w \in Pids, WorkerCatchWrite(w) PROVE Inv'
<1>1. wk[w].pc # "unused" BY DEF WorkerCatchWrite
<1>2. Good(Owner, made, b, store) /\ Good(Owner, made, b, wk[w].mem)
  BY <1>1, WorkerFacts
<1>3. Good(Owner, made, b, Flushed(wk[w].mem, wk[w].mem)) BY <1>2, FlushGood
<1>4. /\ UNCHANGED <<mem, hs, attached, made, spawned, mixed>>
      /\ crashes' \in 0..MaxCrashes /\ clock' = clock
      /\ store' = Flushed(wk[w].mem, wk[w].mem) /\ WorkerExit(w)
  BY DEF WorkerCatchWrite, WorkerOnly, IInv, TypeOK
<1>5. QED BY <1>1, <1>3, <1>4, ExitInv

LEMMA WorkerCrashInv ==
  ASSUME NEW b, IInv(b), NEW w \in Pids, WorkerCrash(w) PROVE Inv'
<1>1. wk[w].pc # "unused" /\ WorkerExit(w) BY DEF WorkerCrash
<1>2. /\ UNCHANGED <<mem, hs, attached, made, spawned, mixed>>
      /\ crashes' \in 0..MaxCrashes /\ clock' = clock /\ store' = store
  BY BoundsAssumption DEF WorkerCrash, IInv, TypeOK
<1>3. Good(Owner, made, b, store) BY InvFacts
<1>4. QED BY <1>1, <1>2, <1>3, ExitInv

-----------------------------------------------------------------------------
LEMMA InvInit == Init => Inv
<1> SUFFICES ASSUME Init PROVE Inv OBVIOUS
<1>1. PICK b : b = [j \in Jobs |-> 0] OBVIOUS
<1>2. Good(Owner, made, b, EmptySnapshot) BY EmptyGood
<1>3. /\ UnusedWorker \in Worker
      /\ UnusedWorker.pc = "unused" /\ UnusedWorker.job = NoJob
      /\ UnusedWorker.mem = EmptySnapshot
  BY ConstFacts DEF UnusedWorker, Worker
<1>4a. hs \in [Handlers -> Handler] /\ wk \in [Pids -> Worker]
  BY <1>3, IdleGood DEF Init
<1>4. TypeOK
  <2>1. store \in Snapshot /\ mem \in Snapshot BY ConstFacts DEF Init
  <2>2. spawned \in 0..MaxPids /\ clock \in Nat /\ crashes \in 0..MaxCrashes /\ made \in Jobs \cup {NoJob}
    BY BoundsAssumption DEF Init, NoJob
  <2>3. mixed \in BOOLEAN /\ attached \subseteq Handlers BY DEF Init
  <2>4. QED BY <1>4a, <2>1, <2>2, <2>3 DEF TypeOK
<1>5. GoodServer(b) BY <1>2, IdleGood DEF Init, GoodServer
<1>6. \A w \in Pids : w > 0 BY DEF Pids
<1>7. \A w \in Pids : GoodWorker(b, w)
  BY <1>2, <1>3, <1>6 DEF Init, GoodWorker, Executing
<1>8. b \in [Jobs -> Nat] /\ \A j \in Jobs : b[j] <= clock BY <1>1 DEF Init
<1>9. QED BY <1>2, <1>4, <1>5, <1>7, <1>8 DEF Init, Inv, IInv

LEMMA InvNext == Inv /\ [Next]_vars => Inv'
<1> SUFFICES ASSUME Inv, [Next]_vars PROVE Inv' OBVIOUS
<1>1. PICK b \in [Jobs -> Nat] : IInv(b) BY DEF Inv
<1>2. CASE \E h \in Handlers : ServerStep(h) BY <1>1, <1>2, ServerStepInv
<1>3. CASE \E w \in Pids : WorkerProgress(w)
  BY <1>1, <1>3, WorkerLoadInv, WorkerClaimInv, WorkerStartInv, WorkerRefusesInv,
     WorkerLoadedInv, WorkerFailsInv, WorkerEvaluateInv, WorkerFinishInv,
     WorkerWrittenInv, WorkerCatchInv, WorkerCatchWriteInv DEF WorkerProgress
<1>4. CASE \E w \in Pids : WorkerCrash(w) BY <1>1, <1>4, WorkerCrashInv
<1>5. CASE ServerRestart BY <1>1, <1>5, ServerRestartInv
<1>6. CASE UNCHANGED vars
  <2>1. TypeOK' BY <1>1, <1>6 DEF IInv, TypeOK, vars
  <2>2. Owner' = Owner BY <1>6 DEF Owner, vars
  <2>3. GoodServer(b)' BY <1>1, <1>6, <2>2 DEF IInv, GoodServer, vars
  <2>4. \A w \in Pids : GoodWorker(b, w)'
    BY <1>1, <1>6, <2>2 DEF IInv, GoodWorker, WorkerJob, Executing, vars
  <2>5. IInv(b)' BY <1>1, <1>6, <2>1, <2>2, <2>3, <2>4 DEF IInv, vars
  <2>6. QED BY <2>5 DEF Inv
<1>7. QED BY <1>2, <1>3, <1>4, <1>5, <1>6 DEF Next

LEMMA InvImplies == Inv => TypeOK /\ OwnerIsOwnWorker /\ CompletedIsWhole
<1> SUFFICES ASSUME Inv PROVE TypeOK /\ OwnerIsOwnWorker /\ CompletedIsWhole
  OBVIOUS
<1>1. PICK b \in [Jobs -> Nat] : IInv(b) BY DEF Inv
<1>2. \A s \in Copies : Good(Owner, made, b, s)
  BY <1>1 DEF Copies, IInv, GoodServer, GoodWorker
<1>3. CompletedIsWhole
  BY <1>2 DEF CompletedIsWhole, Good, GoodRecord, Jobs
<1>4. ASSUME NEW s \in Copies, NEW j \in Jobs
      PROVE  /\ s.jobs[j].status = "queued" => s.jobs[j].worker = NoPid
             /\ s.jobs[j].status = "running" =>
                  /\ s.jobs[j].worker \in 1..spawned
                  /\ wk[s.jobs[j].worker].job = j
  <2> DEFINE r == s.jobs[j]
  <2>1. GoodRecord(Owner, made, b, j, r) BY <1>2, <1>4 DEF Good
  <2>2. ASSUME r.status = "running"
        PROVE  r.worker \in 1..spawned /\ wk[r.worker].job = j
    <3>1. r.worker \in Pids /\ r.worker \in Nat \ {0} /\ Owner[r.worker] = j
      BY <2>1, <2>2, BoundsAssumption DEF GoodRecord, Record, Pids, NoPid
    <3>2. wk[r.worker].job = j BY <3>1 DEF Owner
    <3>3. j # NoJob BY ConstFacts
    <3>4. ~(r.worker > spawned)
      BY <1>1, <3>1, <3>2, <3>3 DEF IInv, GoodWorker
    <3>5. spawned \in Nat BY <1>1, InvFacts
    <3>6. QED BY <3>1, <3>2, <3>4, <3>5
  <2>3. QED BY <2>1, <2>2 DEF GoodRecord
<1>5. OwnerIsOwnWorker BY <1>4 DEF OwnerIsOwnWorker
<1>6. QED BY <1>1, <1>3, <1>5 DEF IInv

(* The variables keep the shape the code gives them.                       *)
THEOREM TypeCorrect == Spec => []TypeOK
<1>1. QED BY InvInit, InvNext, InvImplies, PTL DEF Spec

(* Whatever copy is written next, a running job names a process spawned    *)
(* for it and a queued one names none (claimComputeJob, isPidAlive).       *)
THEOREM OwnerCorrect == Spec => []OwnerIsOwnWorker
<1>1. QED BY InvInit, InvNext, InvImplies, PTL DEF Spec

(* No copy shows an optimization as completed before all its candidates    *)
(* have been evaluated (executeOptimization, resumeOptimization).          *)
THEOREM CompletedCorrect == Spec => []CompletedIsWhole
<1>1. QED BY InvInit, InvNext, InvImplies, PTL DEF Spec

-----------------------------------------------------------------------------
(* On Postgres: time stamps.  Every record that a copy of the snapshot or  *)
(* an executor keeps of job j: two with the same stamp are the same, so a  *)
(* merge keeps the younger one and nothing else happens to a record.       *)
Recs(j) ==
  {Absent, store.jobs[j], mem.jobs[j]}
    \cup {hs[h].snap.jobs[j] : h \in Handlers}
    \cup {wk[w].mem.jobs[j] : w \in Pids}
    \cup {wk[w].opt : w \in {v \in Pids : wk[v].job = j}}

Stamped ==
  \A j \in Jobs : \A r, q \in Recs(j) :
    /\ r \in Record /\ r.ts <= clock
    /\ q.ts = r.ts => q = r

(* A worker knows no younger record of another job than the row does.      *)
Foreign ==
  \A w \in Pids : \A j \in Jobs :
    j # wk[w].job => wk[w].mem.jobs[j].ts <= store.jobs[j].ts

StampInv == Stamped /\ Foreign

(* s consists of records that are kept and of n, the new one of job i.     *)
Of(s, i, n) == \A j \in Jobs : s.jobs[j] \in Recs(j) \/ (j = i /\ s.jobs[j] = n)

(* A step brings at most one new record, of job i, and it is the youngest. *)
Brings(i, n) ==
  \A j \in Jobs : \A r \in Recs(j)' : r \in Recs(j) \/ (j = i /\ r = n)

Dated(i, n) ==
  /\ clock' \in Nat /\ clock <= clock'
  /\ i \in Jobs => n \in Record /\ n.ts = clock + 1 /\ clock' = clock + 1

LEMMA StampedNext ==
  ASSUME clock \in Nat, Stamped, NEW i, NEW n, Brings(i, n), Dated(i, n)
  PROVE  Stamped'
<1> SUFFICES ASSUME NEW j \in Jobs, NEW r \in Recs(j)', NEW q \in Recs(j)'
             PROVE  /\ r \in Record /\ r.ts <= clock'
                    /\ q.ts = r.ts => q = r
  BY DEF Stamped
<1>1. \A p \in Recs(j) : p \in Record /\ p.ts \in Nat /\ p.ts <= clock
  BY DEF Stamped, Record
<1>2. r \in Recs(j) \/ (j = i /\ r = n) BY DEF Brings
<1>3. q \in Recs(j) \/ (j = i /\ q = n) BY DEF Brings
<1>4. r \in Recs(j) /\ q \in Recs(j) => (q.ts = r.ts => q = r) BY DEF Stamped
<1>5. QED BY <1>1, <1>2, <1>3, <1>4 DEF Dated

LEMMA RecsFacts ==
  ASSUME NEW j \in Jobs
  PROVE  /\ Absent \in Recs(j) /\ store.jobs[j] \in Recs(j) /\ mem.jobs[j] \in Recs(j)
         /\ \A h \in Handlers : hs[h].snap.jobs[j] \in Recs(j)
         /\ \A w \in Pids : wk[w].mem.jobs[j] \in Recs(j)
         /\ \A w \in Pids : wk[w].job = j => wk[w].opt \in Recs(j)
BY DEF Recs

LEMMA OfFacts ==
  ASSUME NEW i, NEW n
  PROVE  /\ Of(store, i, n) /\ Of(mem, i, n) /\ Of(EmptySnapshot, i, n)
         /\ \A h \in Handlers : Of(hs[h].snap, i, n)
         /\ \A w \in Pids : Of(wk[w].mem, i, n)
         /\ \A s : Of(s, NoJob, Absent) => Of(s, i, n)
<1>1. \A j \in Jobs : EmptySnapshot.jobs[j] = Absent BY ConstFacts
<1>2. \A j \in Jobs : j # NoJob BY ConstFacts
<1>3. QED BY <1>1, <1>2, RecsFacts DEF Of

LEMMA BringsIf ==
  ASSUME NEW i, NEW n, Of(store', i, n), Of(mem', i, n),
         \A h \in Handlers : Of(hs'[h].snap, i, n),
         \A w \in Pids : Of(wk'[w].mem, i, n),
         \A w \in Pids : wk'[w].job \in Jobs =>
            wk'[w].opt \in Recs(wk'[w].job) \/ (wk'[w].job = i /\ wk'[w].opt = n)
  PROVE  Brings(i, n)
<1> SUFFICES ASSUME NEW j \in Jobs, NEW r \in Recs(j)'
             PROVE  r \in Recs(j) \/ (j = i /\ r = n)
  BY DEF Brings
<1>1. \/ r \in {Absent, store'.jobs[j], mem'.jobs[j]}
      \/ \E h \in Handlers : r = hs'[h].snap.jobs[j]
      \/ \E w \in Pids : r = wk'[w].mem.jobs[j]
      \/ \E w \in Pids : wk'[w].job = j /\ r = wk'[w].opt
  BY DEF Recs
<1>2. CASE r = Absent BY <1>2, RecsFacts
<1>3. CASE r # Absent BY <1>1, <1>3 DEF Of
<1>4. QED BY <1>2, <1>3

(* A merge keeps of each job the younger record. *)
LEMMA MergeFacts ==
  ASSUME NEW s \in Snapshot, NEW t \in Snapshot, NEW j \in Jobs
  PROVE  LET m == MergeSnapshot(s, t) IN
         /\ m \in Snapshot
         /\ m.jobs[j] = IF t.jobs[j].ts >= s.jobs[j].ts THEN t.jobs[j] ELSE s.jobs[j]
         /\ s.jobs[j].ts <= m.jobs[j].ts /\ t.jobs[j].ts <= m.jobs[j].ts
         /\ m.jobs[j].ts \in Nat /\ s.jobs[j].ts \in Nat /\ t.jobs[j].ts \in Nat
<1> DEFINE m == MergeSnapshot(s, t)
<1>1. \A k \in Jobs : s.jobs[k] \in Record /\ t.jobs[k] \in Record BY DEF Snapshot
<1>2. m.jobs = MergeById(s.jobs, t.jobs) BY DEF MergeSnapshot
<1>3. m.jobs[j] = IF t.jobs[j].ts >= s.jobs[j].ts THEN t.jobs[j] ELSE s.jobs[j]
  BY <1>2 DEF MergeById
<1>4. m \in Snapshot BY <1>1 DEF MergeSnapshot, MergeById, Snapshot
<1>5. s.jobs[j].ts \in Nat /\ t.jobs[j].ts \in Nat BY <1>1 DEF Record
<1>6. QED BY <1>3, <1>4, <1>5

LEMMA MergeOf ==
  ASSUME NEW s \in Snapshot, NEW t \in Snapshot, NEW i, NEW n, Of(s, i, n), Of(t, i, n)
  PROVE  Of(MergeSnapshot(s, t), i, n)
BY MergeFacts DEF Of

LEMMA MergeSame ==
  ASSUME Stamped, NEW s \in Snapshot, NEW t \in Snapshot, NEW j \in Jobs,
         s.jobs[j] \in Recs(j), t.jobs[j] \in Recs(j), t.jobs[j].ts <= s.jobs[j].ts
  PROVE  MergeSnapshot(s, t).jobs[j] = s.jobs[j]
<1>1. s.jobs[j].ts \in Nat /\ t.jobs[j].ts \in Nat BY MergeFacts
<1>2. t.jobs[j].ts = s.jobs[j].ts => t.jobs[j] = s.jobs[j] BY DEF Stamped
<1>3. QED BY <1>1, <1>2, MergeFacts

LEMMA SetJobFacts ==
  ASSUME NEW s \in Snapshot, NEW i \in Jobs, NEW r \in Record
  PROVE  /\ SetJob(s, i, r) \in Snapshot
         /\ SetJob(s, i, r).jobs[i] = r
         /\ \A j \in Jobs : j # i => SetJob(s, i, r).jobs[j] = s.jobs[j]
<1>1. SetJob(s, i, r).jobs = [s.jobs EXCEPT ![i] = r] BY DEF SetJob, Snapshot
<1>2. SetJob(s, i, r) \in Snapshot BY DEF SetJob, Snapshot
<1>3. QED BY <1>1, <1>2 DEF Snapshot

LEMMA SetJobOf ==
  ASSUME NEW s \in Snapshot, NEW i \in Jobs, NEW n \in Record, Of(s, i, n)
  PROVE  Of(SetJob(s, i, n), i, n)
BY SetJobFacts DEF Of

(* What the postgres backend does at a flush. *)
LEMMA Flushes ==
  ASSUME Backend = "postgres", NEW c, NEW d
  PROVE  /\ Flushed(c, d) = MergeSnapshot(store, d)
         /\ AfterFlush(d) = MergeSnapshot(store, d)
         /\ Captured(d) = EmptySnapshot
BY DEF Flushed, AfterFlush, Captured

LEMMA Ticks ==
  ASSUME Backend = "postgres"
  PROVE  /\ Now = clock + 1
         /\ Tick <=> clock' = clock + 1
BY DEF Now, Tick

(* Shapes that the lemmas below need. *)
Shapes ==
  /\ store \in Snapshot /\ mem \in Snapshot
  /\ hs \in [Handlers -> Handler]
  /\ wk \in [Pids -> Worker]
  /\ clock \in Nat /\ spawned \in Nat /\ made \in Nat
  /\ \A h \in Handlers : hs[h].snap \in Snapshot
  /\ \A w \in Pids : /\ wk[w].mem \in Snapshot
                     /\ wk[w].pc = "unused" <=> w > spawned
                     /\ wk[w].pc = "unused" => wk[w].job = NoJob
                     /\ wk[w].pc # "unused" => wk[w].job \in Jobs /\ wk[w].job <= made
                     /\ wk[w].pc = "ready" => WorkerJob(w).status # "queued"
                     /\ Executing(w) => wk[w].opt.status = "running"
  /\ \A h \in Handlers : hs[h].pc = "inserting" => hs[h].job \in Jobs
  /\ \A j \in Jobs : \A r \in {store.jobs[j], mem.jobs[j]} :
       r.evald > 0 => \E p \in Pids : wk[p].job = j

LEMMA ShapesHold == Inv => Shapes
<1> SUFFICES ASSUME NEW b, IInv(b) PROVE Shapes BY DEF Inv
<1>1. /\ Typed /\ made \in Nat /\ spawned \in Nat
      /\ \A w \in Pids : GoodWorker(b, w)
      /\ GoodServer(b)
  BY InvFacts
<1>2. store \in Snapshot /\ mem \in Snapshot BY DEF IInv, TypeOK
<1>3. ASSUME NEW j \in Jobs, NEW r \in {store.jobs[j], mem.jobs[j]}, r.evald > 0
      PROVE  \E p \in Pids : wk[p].job = j
  <2>1. GoodRecord(Owner, made, b, j, r) BY <1>1 DEF IInv, Good, GoodServer
  <2>2. r.worker \in Pids /\ Owner[r.worker] = j
    BY <1>3, <2>1, BoundsAssumption DEF GoodRecord, Record, Pids, NoPid
  <2>3. QED BY <2>2 DEF Owner
<1>4. \A h \in Handlers : hs[h].snap \in Snapshot /\ (hs[h].pc = "inserting" => hs[h].job \in Jobs)
  BY <1>1 DEF GoodServer, Good
<1>5. \A w \in Pids : /\ wk[w].mem \in Snapshot
                      /\ wk[w].pc = "ready" => WorkerJob(w).status # "queued"
                      /\ Executing(w) => wk[w].opt.status = "running"
  BY <1>1 DEF GoodWorker, Good
<1>6. \A w \in Pids : /\ wk[w].pc = "unused" <=> w > spawned
                      /\ wk[w].pc = "unused" => wk[w].job = NoJob
                      /\ wk[w].pc # "unused" => wk[w].job \in Jobs /\ wk[w].job <= made
  BY <1>1 DEF GoodWorker
<1>7. QED BY <1>1, <1>2, <1>3, <1>4, <1>5, <1>6 DEF Typed, Shapes

LEMMA ShapesNext == Inv' => Shapes'
BY ShapesHold, PTL

LEMMA ServerStamps ==
  ASSUME Shapes, StampInv, NEW i, NEW n, Dated(i, n),
         Of(store', i, n), Of(mem', i, n), \A h \in Handlers : Of(hs'[h].snap, i, n),
         wk' = wk \/ \E x \in Jobs : SpawnWorker(x),
         store' \in Snapshot,
         \A j \in Jobs : store.jobs[j].ts <= store'.jobs[j].ts
  PROVE  Brings(i, n) /\ StampInv'
<1>1. \A w \in Pids : \/ wk'[w] = wk[w]
                      \/ wk'[w].mem = EmptySnapshot /\ wk'[w].opt = Absent
  <2>1. ASSUME NEW x \in Jobs, SpawnWorker(x), NEW w \in Pids
        PROVE  \/ wk'[w] = wk[w]
               \/ wk'[w].mem = EmptySnapshot /\ wk'[w].opt = Absent
    <3> DEFINE W == [UnusedWorker EXCEPT !.pc = "boot", !.job = x]
    <3>1. W.mem = EmptySnapshot /\ W.opt = Absent BY DEF UnusedWorker
    <3>2. wk' = [wk EXCEPT ![spawned + 1] = W] BY <2>1 DEF SpawnWorker
    <3>3. wk'[w] = wk[w] \/ wk'[w] = W BY <3>2 DEF Shapes
    <3>4. QED BY <3>1, <3>3
  <2>2. QED BY <2>1
<1>2. \A w \in Pids : Of(wk'[w].mem, i, n) BY <1>1, OfFacts
<1>3. \A w \in Pids : wk'[w].job \in Jobs =>
         wk'[w].opt \in Recs(wk'[w].job) \/ (wk'[w].job = i /\ wk'[w].opt = n)
  BY <1>1, RecsFacts
<1>4. Brings(i, n) BY <1>2, <1>3, BringsIf
<1>5. Stamped' BY <1>4, StampedNext DEF StampInv, Shapes
<1>6. Foreign'
  <2> SUFFICES ASSUME NEW w \in Pids, NEW j \in Jobs, j # wk'[w].job
               PROVE  wk'[w].mem.jobs[j].ts <= store'.jobs[j].ts
    BY DEF Foreign
  <2>1. store.jobs[j].ts \in Nat /\ store'.jobs[j].ts \in Nat /\ wk[w].mem.jobs[j].ts \in Nat
    BY DEF Shapes, Snapshot, Record
  <2>2. store.jobs[j].ts <= store'.jobs[j].ts OBVIOUS
  <2>3. CASE wk'[w] = wk[w] BY <2>1, <2>2, <2>3 DEF StampInv, Foreign
  <2>4. CASE wk'[w].mem = EmptySnapshot
    <3>1. wk'[w].mem.jobs[j].ts = 0 BY <2>4, ConstFacts DEF Absent
    <3>2. QED BY <2>1, <3>1
  <2>5. QED BY <1>1, <2>3, <2>4
<1>7. QED BY <1>4, <1>5, <1>6 DEF StampInv

LEMMA WorkerStamps ==
  ASSUME Shapes, StampInv, NEW w \in Pids, NEW W, NEW i, NEW n, Dated(i, n),
         UNCHANGED <<mem, hs>>, wk' = [wk EXCEPT ![w] = W], W.job = wk[w].job,
         Of(store', i, n), store' \in Snapshot,
         Of(W.mem, i, n), W.mem \in Snapshot,
         W.opt \in Recs(W.job) \/ (W.job = i /\ W.opt = n),
         \A j \in Jobs : store.jobs[j].ts <= store'.jobs[j].ts,
         \A j \in Jobs : j # W.job => W.mem.jobs[j].ts <= store'.jobs[j].ts
  PROVE  Brings(i, n) /\ StampInv'
<1>1. \A v \in Pids : v # w => wk'[v] = wk[v] BY DEF Shapes
<1>2. wk'[w] = W BY DEF Shapes
<1>3. \A v \in Pids : Of(wk'[v].mem, i, n) BY <1>1, <1>2, OfFacts
<1>4. \A v \in Pids : wk'[v].job \in Jobs =>
         wk'[v].opt \in Recs(wk'[v].job) \/ (wk'[v].job = i /\ wk'[v].opt = n)
  BY <1>1, <1>2, RecsFacts
<1>5. Of(mem', i, n) /\ \A h \in Handlers : Of(hs'[h].snap, i, n) BY OfFacts
<1>6. Brings(i, n) BY <1>3, <1>4, <1>5, BringsIf
<1>7. Stamped' BY <1>6, StampedNext DEF StampInv, Shapes
<1>8. Foreign'
  <2> SUFFICES ASSUME NEW v \in Pids, NEW j \in Jobs, j # wk'[v].job
               PROVE  wk'[v].mem.jobs[j].ts <= store'.jobs[j].ts
    BY DEF Foreign
  <2>1. store.jobs[j].ts \in Nat /\ store'.jobs[j].ts \in Nat /\ wk[v].mem.jobs[j].ts \in Nat
    BY DEF Shapes, Snapshot, Record
  <2>2. store.jobs[j].ts <= store'.jobs[j].ts OBVIOUS
  <2>3. CASE v # w BY <1>1, <2>1, <2>2, <2>3 DEF StampInv, Foreign
  <2>4. CASE v = w BY <1>2, <2>4
  <2>5. QED BY <2>3, <2>4
<1>9. QED BY <1>6, <1>7, <1>8 DEF StampInv

-----------------------------------------------------------------------------
(* One process per job, as long as requests take their turns and find the  *)
(* jobs as they are stored.                                                *)
Live(v)   == wk[v].pc \notin {"unused", "exited"}
Window    == \E h \in Handlers : hs[h].pc \in {"reconciling", "inserting", "claiming"}
Half(r)   == r.status = "failed" /\ r.evald \in 1..(Candidates - 1)

(* The stamp of the youngest record of j that is stored or about to be.    *)
Top(j) == IF Window /\ mem.jobs[j].ts > store.jobs[j].ts
            THEN mem.jobs[j].ts ELSE store.jobs[j].ts

(* Of a job with a live process, r can only say that this process runs it, *)
(* or that it has ended.                                                   *)
Names(j, r) == \A v \in Pids :
  Live(v) /\ wk[v].job = j => /\ r.status # "queued"
                              /\ r.status = "running" => r.worker = v

OneBusy  == \A g, h \in Handlers : Busy(g) /\ Busy(h) => g = h
Holds    == \A h \in Handlers : hs[h].pc = "inserting" => h \in attached
OneLive  == \A v, w \in Pids : Live(v) /\ Live(w) /\ wk[v].job = wk[w].job => v = w
TopNames == \A j \in Jobs : \A r \in Recs(j) : r.ts >= Top(j) => Names(j, r)
Unborn   == \A h \in Handlers :
              hs[h].pc = "inserting" => \A v \in Pids : wk[v].job # hs[h].job
Settled  == Window \/ \A j \in Jobs : mem.jobs[j].ts <= store.jobs[j].ts
NotHalf  == \A v \in Pids : wk[v].pc \in {"boot", "claimed"} =>
              /\ ~Half(store.jobs[wk[v].job])
              /\ Window => ~Half(mem.jobs[wk[v].job])
ReadyWhole == \A v \in Pids : wk[v].pc \in {"claimed", "ready"} => ~Half(WorkerJob(v))
OwnObject  == \A v \in Pids : Executing(v) =>
                wk[v].opt.worker = v /\ wk[v].job \in Optimizations

Orderly ==
  /\ OneBusy
  /\ Holds
  /\ OneLive
  /\ TopNames
  /\ Unborn
  /\ Settled
  /\ NotHalf
  /\ ReadyWhole
  /\ OwnObject

LEMMA StampFacts ==
  ASSUME Shapes, NEW j \in Jobs
  PROVE  /\ store.jobs[j] \in Record /\ mem.jobs[j] \in Record
         /\ store.jobs[j].ts \in Nat /\ mem.jobs[j].ts \in Nat /\ Top(j) \in Nat
         /\ store.jobs[j].ts <= Top(j)
         /\ Window => mem.jobs[j].ts <= Top(j)
         /\ \A w \in Pids : wk[w].mem.jobs[j] \in Record /\ wk[w].mem.jobs[j].ts \in Nat
<1>1. store.jobs[j] \in Record /\ mem.jobs[j] \in Record
  BY DEF Shapes, Snapshot
<1>2. \A w \in Pids : wk[w].mem.jobs[j] \in Record BY DEF Shapes, Snapshot
<1>3. \A r \in Record : r.ts \in Nat BY DEF Record
<1>4. QED BY <1>1, <1>2, <1>3 DEF Top

LEMMA StampFactsNext ==
  ASSUME Shapes', NEW j \in Jobs
  PROVE  store'.jobs[j].ts \in Nat /\ mem'.jobs[j].ts \in Nat /\ Top(j)' \in Nat
<1>1. store'.jobs[j] \in Record /\ mem'.jobs[j] \in Record
  BY DEF Shapes, Snapshot
<1>2. \A r \in Record : r.ts \in Nat BY DEF Record
<1>3. QED BY <1>1, <1>2 DEF Top

(* Old records name the processes they named, when no process has joined   *)
(* and the youngest stamp has not gone back.                               *)
LEMMA TopNamesNext ==
  ASSUME Shapes, Shapes', StampInv, TopNames, NEW i, NEW n, Brings(i, n), Dated(i, n),
         \A j \in Jobs : Top(j) <= Top(j)',
         \A j \in Jobs : \A v \in Pids :
            Live(v)' /\ wk'[v].job = j =>
              \/ Live(v) /\ wk[v].job = j
              \/ Top(j)' > clock,
         i \in Jobs => Names(i, n)'
  PROVE  TopNames'
<1> SUFFICES ASSUME NEW j \in Jobs, NEW r \in Recs(j)', r.ts >= Top(j)'
             PROVE  Names(j, r)'
  BY DEF TopNames
<1>1. Top(j) \in Nat /\ Top(j)' \in Nat /\ clock \in Nat
  BY StampFacts, StampFactsNext DEF Shapes
<1>2. CASE j = i /\ r = n BY <1>2
<1>3. CASE r \in Recs(j)
  <2>1. r \in Record /\ r.ts <= clock /\ r.ts \in Nat
    BY <1>3 DEF StampInv, Stamped, Record
  <2>2. Top(j) <= Top(j)' OBVIOUS
  <2>3. r.ts >= Top(j) /\ ~(Top(j)' > clock) BY <1>1, <2>1, <2>2
  <2>4. Names(j, r) BY <1>3, <2>3 DEF TopNames
  <2>5. QED BY <2>3, <2>4 DEF Names
<1>4. QED BY <1>2, <1>3 DEF Brings

(* A step of the server that spawns nothing.                               *)
LEMMA ServerSame ==
  ASSUME Shapes, Shapes', StampInv, Orderly, NEW i, NEW n, Brings(i, n), Dated(i, n),
         wk' = wk, \A j \in Jobs : Top(j) <= Top(j)',
         i \in Jobs => Names(i, n),
         OneBusy', Holds', Unborn', Settled', NotHalf'
  PROVE  Orderly'
<1>1. \A v \in Pids : Live(v)' <=> Live(v) BY DEF Live
<1>2. i \in Jobs => Names(i, n)' BY <1>1 DEF Names
<1>3. TopNames' BY <1>1, <1>2, TopNamesNext DEF Orderly
<1>4. OneLive' BY <1>1 DEF Orderly, OneLive
<1>5. ReadyWhole' BY DEF Orderly, ReadyWhole, WorkerJob
<1>6. OwnObject' BY DEF Orderly, OwnObject, Executing
<1>7. QED BY <1>3, <1>4, <1>5, <1>6 DEF Orderly

(* A step of the server that spawns a process for job x, which has none.   *)
LEMMA ServerSpawns ==
  ASSUME Shapes, Shapes', StampInv, Orderly, NEW x \in Jobs, NEW n,
         Brings(x, n), Dated(x, n), SpawnWorker(x),
         \A v \in Pids : Live(v) => wk[v].job # x,
         \A j \in Jobs : Top(j) <= Top(j)', Top(x)' = n.ts,
         n.status = "running", n.worker = spawned + 1,
         ~Half(store'.jobs[x]), ~Half(mem'.jobs[x]),
         \A v \in Pids : wk[v].pc \in {"boot", "claimed"} /\ wk[v].job # x =>
            /\ ~Half(store'.jobs[wk[v].job])
            /\ Window' => ~Half(mem'.jobs[wk[v].job]),
         OneBusy', Holds', Unborn', Settled'
  PROVE  Orderly'
<1> DEFINE W == [UnusedWorker EXCEPT !.pc = "boot", !.job = x]
<1>0. PICK p : p = spawned + 1 OBVIOUS
<1>1. W.pc = "boot" /\ W.job = x BY DEF UnusedWorker
<1>2. wk' = [wk EXCEPT ![p] = W] /\ p \in Pids
  BY <1>0, BoundsAssumption DEF SpawnWorker, Shapes, Pids
<1>3. wk'[p] = W /\ \A v \in Pids : v # p => wk'[v] = wk[v] BY <1>2 DEF Shapes
<1> HIDE DEF W
<1>4. Live(p)' /\ \A v \in Pids : v # p => (Live(v)' <=> Live(v))
  <2>1. Live(p)' BY <1>1, <1>3 DEF Live
  <2>2. QED BY <1>3, <2>1 DEF Live
<1>5. \A v \in Pids : Live(v)' /\ wk'[v].job = x => v = p BY <1>3, <1>4
<1>6. Names(x, n)' BY <1>0, <1>5 DEF Names
<1>7. clock \in Nat /\ Top(x)' > clock BY DEF Dated, Shapes
<1>8. ASSUME NEW j \in Jobs, NEW v \in Pids, Live(v)', wk'[v].job = j
      PROVE  (Live(v) /\ wk[v].job = j) \/ Top(j)' > clock
  <2>1. CASE v = p BY <1>1, <1>3, <1>7, <1>8, <2>1
  <2>2. CASE v # p BY <1>3, <1>4, <1>8, <2>2
  <2>3. QED BY <2>1, <2>2
<1>9. TopNames' BY <1>6, <1>8, TopNamesNext DEF Orderly
<1>10. OneLive'
  <2> SUFFICES ASSUME NEW v \in Pids, NEW w \in Pids, Live(v)', Live(w)',
                      wk'[v].job = wk'[w].job
               PROVE  v = w
    BY DEF OneLive
  <2>1. CASE wk'[v].job = x BY <1>5, <2>1
  <2>2. CASE wk'[v].job # x
    <3>1. v # p /\ w # p BY <1>1, <1>3, <2>2
    <3>2. QED BY <1>3, <1>4, <3>1 DEF Orderly, OneLive
  <2>3. QED BY <2>1, <2>2
<1>11. NotHalf'
  <2> SUFFICES ASSUME NEW v \in Pids, wk'[v].pc \in {"boot", "claimed"}
               PROVE  /\ ~Half(store'.jobs[wk'[v].job])
                      /\ Window' => ~Half(mem'.jobs[wk'[v].job])
    BY DEF NotHalf, Half
  <2>1. CASE v = p BY <1>1, <1>3, <2>1
  <2>2. CASE v # p
    <3>1. wk'[v] = wk[v] BY <1>3, <2>2
    <3>2. Live(v) BY <3>1 DEF Live
    <3>3. QED BY <3>1, <3>2
  <2>3. QED BY <2>1, <2>2
<1>12. ReadyWhole' BY <1>1, <1>3 DEF Orderly, ReadyWhole, WorkerJob, Half
<1>13. OwnObject' BY <1>1, <1>3 DEF Orderly, OwnObject, Executing
<1>14. QED BY <1>9, <1>10, <1>11, <1>12, <1>13 DEF Orderly

(* A step of process w, which becomes W.                                   *)
LEMMA WorkerOrderly ==
  ASSUME Shapes, Shapes', StampInv, Orderly, NEW w \in Pids, NEW W, NEW i, NEW n,
         Brings(i, n), Dated(i, n),
         UNCHANGED <<mem, hs, attached, spawned>>,
         wk' = [wk EXCEPT ![w] = W], Live(w), W.job = wk[w].job, W.pc # "boot",
         \/ store' = store
         \/ /\ store' = MergeSnapshot(store, wk[w].mem)
            /\ W.pc # "claimed",
         i \in Jobs => /\ i = W.job /\ n.status # "queued"
                       /\ n.status = "running" => n.worker = w,
         W.pc = "claimed" => wk[w].pc = "boot",
         W.pc \in {"claimed", "ready"} => ~Half(W.mem.jobs[W.job]),
         W.pc \in {"starting", "loading", "progressing", "evaluating"} =>
            W.opt.worker = w /\ W.job \in Optimizations
  PROVE  Orderly'
<1>1. wk'[w] = W /\ \A v \in Pids : v # w => wk'[v] = wk[v] BY DEF Shapes
<1>2. \A v \in Pids : wk'[v].job = wk[v].job /\ (Live(v)' => Live(v))
  BY <1>1 DEF Live
<1>3. ASSUME NEW j \in Jobs
      PROVE  /\ store.jobs[j].ts <= store'.jobs[j].ts
             /\ j # wk[w].job => store'.jobs[j] = store.jobs[j]
  <2>1. store \in Snapshot /\ wk[w].mem \in Snapshot BY DEF Shapes
  <2>2. store.jobs[j].ts \in Nat BY StampFacts
  <2>3. CASE store' = store BY <2>2, <2>3
  <2>4. CASE store' = MergeSnapshot(store, wk[w].mem)
    <3>1. store.jobs[j].ts <= store'.jobs[j].ts BY <2>1, <2>4, MergeFacts
    <3>2. ASSUME j # wk[w].job PROVE store'.jobs[j] = store.jobs[j]
      <4>1. wk[w].mem.jobs[j].ts <= store.jobs[j].ts BY <3>2 DEF StampInv, Foreign
      <4>2. store.jobs[j] \in Recs(j) /\ wk[w].mem.jobs[j] \in Recs(j) BY RecsFacts
      <4>3. QED BY <2>1, <2>4, <4>1, <4>2, MergeSame DEF StampInv
    <3>3. QED BY <3>1, <3>2
  <2>5. QED BY <2>3, <2>4
<1>4. Window' <=> Window BY DEF Window
<1>5. ASSUME NEW j \in Jobs PROVE Top(j) <= Top(j)'
  <2>1. /\ store.jobs[j].ts \in Nat /\ mem.jobs[j].ts \in Nat
        /\ store'.jobs[j].ts \in Nat
    BY StampFacts, StampFactsNext
  <2>2. store.jobs[j].ts <= store'.jobs[j].ts /\ mem'.jobs[j] = mem.jobs[j] BY <1>3
  <2>3. QED BY <1>4, <2>1, <2>2 DEF Top
<1>6. \A v \in Pids : Live(v)' /\ wk'[v].job = wk[w].job => v = w
  BY <1>2 DEF Orderly, OneLive
<1>7. i \in Jobs => Names(i, n)' BY <1>6 DEF Names
<1>8. TopNames' BY <1>2, <1>5, <1>7, TopNamesNext DEF Orderly
<1>9. OneBusy' /\ Holds' BY DEF Orderly, OneBusy, Busy, Holds
<1>10. Unborn' BY <1>2 DEF Orderly, Unborn
<1>11. OneLive' BY <1>2 DEF Orderly, OneLive
<1>12. Settled'
  <2> SUFFICES ASSUME ~Window, NEW j \in Jobs
               PROVE  mem'.jobs[j].ts <= store'.jobs[j].ts
    BY <1>4 DEF Settled
  <2>1. /\ store.jobs[j].ts \in Nat /\ mem.jobs[j].ts \in Nat
        /\ store'.jobs[j].ts \in Nat
    BY StampFacts, StampFactsNext
  <2>2. store.jobs[j].ts <= store'.jobs[j].ts /\ mem'.jobs[j] = mem.jobs[j] BY <1>3
  <2>3. mem.jobs[j].ts <= store.jobs[j].ts BY DEF Orderly, Settled
  <2>4. QED BY <2>1, <2>2, <2>3
<1>13. NotHalf'
  <2> SUFFICES ASSUME NEW v \in Pids, wk'[v].pc \in {"boot", "claimed"}
               PROVE  /\ ~Half(store'.jobs[wk'[v].job])
                      /\ Window => ~Half(mem.jobs[wk'[v].job])
    BY <1>4 DEF NotHalf, Half
  <2>1. CASE v = w BY <1>1, <2>1 DEF Orderly, NotHalf
  <2>2. CASE v # w
    <3>1. wk'[v] = wk[v] /\ Live(v) BY <1>1, <2>2 DEF Live
    <3>2. wk[v].job # wk[w].job BY <2>2, <3>1 DEF Orderly, OneLive
    <3>3. wk[v].job \in Jobs BY <3>1 DEF Live, Shapes
    <3>4. store'.jobs[wk[v].job] = store.jobs[wk[v].job] BY <1>3, <3>2, <3>3
    <3>5. QED BY <3>1, <3>4 DEF Orderly, NotHalf
  <2>3. QED BY <2>1, <2>2
<1>14. ReadyWhole' BY <1>1 DEF Orderly, ReadyWhole, WorkerJob, Half
<1>15. OwnObject' BY <1>1 DEF Orderly, OwnObject, Executing
<1>16. QED BY <1>8, <1>9, <1>10, <1>11, <1>12, <1>13, <1>14, <1>15 DEF Orderly

(* With requests that take turns; a request out of turn leaves no trace of *)
(* the order, so nothing is claimed from then on.                          *)
TurnInv == ~mixed => Orderly

-----------------------------------------------------------------------------
(* The actions of a worker.                                                *)
(* Process w becomes W and brings the record n of job i; only the merge of *)
(* its snapshot changes the row.                                           *)
Becomes(w, W, i, n) ==
  /\ mixed' = mixed /\ UNCHANGED <<mem, hs, attached, spawned>>
  /\ Live(w) /\ wk' = [wk EXCEPT ![w] = W] /\ W.job = wk[w].job /\ W.pc # "boot"
  /\ i \in {NoJob, W.job} /\ Dated(i, n)
  /\ \/ store' = store
     \/ store' = MergeSnapshot(store, wk[w].mem) /\ W.pc # "claimed"
  /\ \A j \in Jobs :
       \/ W.mem.jobs[j] \in {Absent, wk[w].mem.jobs[j], store'.jobs[j]}
       \/ j = W.job /\ j = i /\ W.mem.jobs[j] = n
  /\ W.opt \in {Absent, wk[w].opt} \/ (i = W.job /\ W.opt = n)

(* What keeps the order.                                                   *)
InOrder(w, W, i, n) ==
  /\ i \in Jobs => n.status # "queued" /\ (n.status = "running" => n.worker = w)
  /\ W.pc = "claimed" => wk[w].pc = "boot"
  /\ W.pc \in {"claimed", "ready"} => ~Half(W.mem.jobs[W.job])
  /\ W.pc \in {"starting", "loading", "progressing", "evaluating"} =>
       W.opt.worker = w /\ W.job \in Optimizations

LEMMA WorkerStep ==
  ASSUME Shapes, Shapes', StampInv, TurnInv, NEW w \in Pids, NEW W, NEW i, NEW n,
         Becomes(w, W, i, n), Orderly => InOrder(w, W, i, n)
  PROVE  StampInv' /\ TurnInv'
<1> USE DEF Becomes
<1>1. wk[w].job \in Jobs /\ NoJob \notin Jobs BY ConstFacts DEF Live, Shapes
<1>1a. i = NoJob \/ i = W.job OBVIOUS
<1>2. wk'[w] = W BY DEF Shapes
<1>3. W.mem \in Snapshot /\ store' \in Snapshot BY <1>2 DEF Shapes
<1>4. \A j \in Jobs : store'.jobs[j] \in Recs(j) /\ store.jobs[j].ts <= store'.jobs[j].ts
  <2>1. store \in Snapshot /\ wk[w].mem \in Snapshot BY DEF Shapes
  <2>2. \A j \in Jobs : store.jobs[j].ts \in Nat BY StampFacts
  <2>3. QED BY <2>1, <2>2, MergeFacts, RecsFacts
<1>5. Of(store', i, n) BY <1>4 DEF Of
<1>6. Of(W.mem, i, n) BY <1>4, RecsFacts DEF Of
<1>7. W.opt \in Recs(W.job) \/ (W.job = i /\ W.opt = n) BY <1>1, RecsFacts
<1>8. ASSUME NEW j \in Jobs, j # W.job PROVE W.mem.jobs[j].ts <= store'.jobs[j].ts
  <2>1. /\ store.jobs[j].ts \in Nat /\ store'.jobs[j].ts \in Nat
        /\ wk[w].mem.jobs[j].ts \in Nat
    BY StampFacts, StampFactsNext
  <2>2. wk[w].mem.jobs[j].ts <= store.jobs[j].ts BY <1>8 DEF StampInv, Foreign
  <2>3. Absent.ts = 0 BY DEF Absent
  <2>4. W.mem.jobs[j] \in {Absent, wk[w].mem.jobs[j], store'.jobs[j]} BY <1>8
  <2>5. QED BY <1>4, <2>1, <2>2, <2>3, <2>4
<1>9. Brings(i, n) /\ StampInv'
  BY <1>3, <1>4, <1>5, <1>6, <1>7, <1>8, WorkerStamps
<1>10. ASSUME ~mixed PROVE Orderly'
  <2>1. Orderly BY <1>10 DEF TurnInv
  <2>2. i \in Jobs => /\ i = W.job /\ n.status # "queued"
                      /\ n.status = "running" => n.worker = w
    BY <1>1, <2>1 DEF InOrder
  <2>3. QED BY <1>9, <2>1, <2>2, WorkerOrderly DEF InOrder
<1>11. QED BY <1>9, <1>10 DEF TurnInv

(* Outside the executors. *)
LEMMA OutsideFacts ==
  ASSUME NEW w, NEW pc, NEW data
  PROVE  LET W == Outside(w, pc, data) IN
         W.pc = pc /\ W.job = wk[w].job /\ W.mem = data /\ W.opt = Absent
BY DEF Outside, UnusedWorker

LEMMA ExitStep ==
  ASSUME Backend = "postgres", Shapes, Shapes', StampInv, TurnInv, NEW w \in Pids,
         WorkerExit(w), Live(w), mixed' = mixed, clock' = clock,
         UNCHANGED <<mem, hs, attached, spawned>>,
         store' = store \/ store' = MergeSnapshot(store, wk[w].mem)
  PROVE  StampInv' /\ TurnInv'
<1>1. PICK W : W = Outside(w, "exited", EmptySnapshot) OBVIOUS
<1>2. /\ W.pc = "exited" /\ W.job = wk[w].job /\ W.mem = EmptySnapshot
      /\ W.opt = Absent
  BY <1>1, OutsideFacts
<1>3. wk' = [wk EXCEPT ![w] = W] BY <1>1 DEF WorkerExit, WorkerSet, Outside
<1>4. wk[w].job \in Jobs /\ \A j \in Jobs : EmptySnapshot.jobs[j] = Absent
  BY ConstFacts DEF Live, Shapes
<1>5. Dated(NoJob, Absent) BY ConstFacts DEF Dated, Shapes
<1>6. Becomes(w, W, NoJob, Absent) BY <1>2, <1>3, <1>4, <1>5 DEF Becomes
<1>7. InOrder(w, W, NoJob, Absent) BY <1>2, ConstFacts DEF InOrder
<1>8. QED BY <1>6, <1>7, WorkerStep

LEMMA LoadStep ==
  ASSUME Backend = "postgres", Shapes, Shapes', StampInv, TurnInv, NEW w \in Pids,
         WorkerLoad(w)
  PROVE  StampInv' /\ TurnInv'
<1> DEFINE r == store.jobs[wk[w].job]
<1>1. PICK j : j = wk[w].job OBVIOUS
<1>2. /\ Live(w) /\ wk[w].pc = "boot" /\ j \in Jobs /\ j # NoJob
      /\ mixed' = mixed /\ UNCHANGED <<mem, hs, attached, spawned>> /\ store' = store
      /\ store \in Snapshot /\ r \in Record
  BY <1>1, StampFacts, ConstFacts DEF WorkerLoad, WorkerOnly, Live, Shapes
<1>3. ASSUME NEW pc \in {"catch", "ready"}, WorkerSet(w, pc, store), clock' = clock
      PROVE  StampInv' /\ TurnInv'
  <2>1. PICK W : W = Outside(w, pc, store) OBVIOUS
  <2>2. W.pc = pc /\ W.job = wk[w].job /\ W.mem = store /\ W.opt = Absent
    BY <2>1, OutsideFacts
  <2>3. wk' = [wk EXCEPT ![w] = W] BY <1>3, <2>1 DEF WorkerSet, Outside
  <2>4. Dated(NoJob, Absent) BY <1>3, ConstFacts DEF Dated, Shapes
  <2>5. Orderly => ~Half(W.mem.jobs[W.job]) BY <1>2, <2>2 DEF Orderly, NotHalf
  <2>6. NoJob \notin Jobs BY ConstFacts
  <2>7. Becomes(w, W, NoJob, Absent) BY <1>2, <2>2, <2>3, <2>4 DEF Becomes
  <2>8. Orderly => InOrder(w, W, NoJob, Absent) BY <2>2, <2>5, <2>6 DEF InOrder
  <2>9. QED BY <2>7, <2>8, WorkerStep
<1>4. ASSUME WorkerSet(w, "claimed", SetJob(store, wk[w].job, Claimed(r, w))), Tick
      PROVE  StampInv' /\ TurnInv'
  <2>1. PICK n : n = Claimed(r, w) OBVIOUS
  <2>2. PICK W : W = Outside(w, "claimed", SetJob(store, j, n)) OBVIOUS
  <2>3. /\ W.pc = "claimed" /\ W.job = j /\ W.mem = SetJob(store, j, n)
        /\ W.opt = Absent
    BY <1>1, <2>2, OutsideFacts
  <2>4. /\ n \in Record /\ n.ts = clock + 1 /\ n.status = "running" /\ n.worker = w
        /\ clock' = clock + 1
    <3>1. w \in 0..MaxPids /\ Now = clock + 1 /\ clock + 1 \in Nat
      BY BoundsAssumption, Ticks DEF Pids, Shapes
    <3>2. QED BY <1>2, <1>4, <2>1, <3>1, Ticks DEF Claimed, Record
  <2>5. wk' = [wk EXCEPT ![w] = W] BY <1>1, <1>4, <2>1, <2>2 DEF WorkerSet, Outside
  <2>6. Dated(j, n) BY <2>4 DEF Dated, Shapes
  <2>7. /\ W.mem.jobs[j] = n
        /\ \A k \in Jobs : k # j => W.mem.jobs[k] = store'.jobs[k]
    BY <1>2, <2>3, <2>4, SetJobFacts
  <2>8. ~Half(n) BY <2>4 DEF Half
  <2>9. Becomes(w, W, j, n) BY <1>1, <1>2, <2>3, <2>5, <2>6, <2>7 DEF Becomes
  <2>10. InOrder(w, W, j, n) BY <1>2, <2>3, <2>4, <2>7, <2>8 DEF InOrder
  <2>11. QED BY <2>9, <2>10, WorkerStep
<1>5. QED BY <1>3, <1>4 DEF WorkerLoad

LEMMA ClaimStep ==
  ASSUME Backend = "postgres", Shapes, Shapes', StampInv, TurnInv, NEW w \in Pids,
         WorkerClaim(w)
  PROVE  StampInv' /\ TurnInv'
<1>1. PICK W : W = Outside(w, "ready", MergeSnapshot(store, wk[w].mem)) OBVIOUS
<1>2. /\ Live(w) /\ wk[w].pc = "claimed" /\ wk[w].job \in Jobs
      /\ mixed' = mixed /\ clock' = clock /\ UNCHANGED <<mem, hs, attached, spawned>>
      /\ store' = MergeSnapshot(store, wk[w].mem)
  BY Flushes DEF WorkerClaim, WorkerOnly, Live, Shapes
<1>3. W.pc = "ready" /\ W.job = wk[w].job /\ W.mem = store' /\ W.opt = Absent
  BY <1>1, <1>2, OutsideFacts
<1>4. wk' = [wk EXCEPT ![w] = W] BY <1>1, Flushes DEF WorkerClaim, WorkerSet, Outside
<1>5. Dated(NoJob, Absent) /\ NoJob \notin Jobs
  BY <1>2, ConstFacts DEF Dated, Shapes
<1>6. Orderly => ~Half(W.mem.jobs[W.job])
  <2>1. store \in Snapshot /\ wk[w].mem \in Snapshot BY DEF Shapes
  <2>2. store'.jobs[wk[w].job] \in {store.jobs[wk[w].job], wk[w].mem.jobs[wk[w].job]}
    BY <1>2, <2>1, MergeFacts
  <2>3. QED BY <1>2, <1>3, <2>2 DEF Orderly, NotHalf, ReadyWhole, WorkerJob
<1>7. Becomes(w, W, NoJob, Absent) BY <1>2, <1>3, <1>4, <1>5 DEF Becomes
<1>8. Orderly => InOrder(w, W, NoJob, Absent) BY <1>3, <1>5, <1>6 DEF InOrder
<1>9. QED BY <1>7, <1>8, WorkerStep

LEMMA RefuseStep ==
  ASSUME Backend = "postgres", Shapes, Shapes', StampInv, TurnInv, NEW w \in Pids,
         WorkerRefuses(w)
  PROVE  StampInv' /\ TurnInv'
<1>1. PICK W : W = Outside(w, "catch", wk[w].mem) OBVIOUS
<1>2. /\ Live(w) /\ mixed' = mixed /\ clock' = clock
      /\ UNCHANGED <<mem, hs, attached, spawned>> /\ store' = store
  BY DEF WorkerRefuses, WorkerOnly, Live
<1>3. W.pc = "catch" /\ W.job = wk[w].job /\ W.mem = wk[w].mem /\ W.opt = Absent
  BY <1>1, OutsideFacts
<1>4. wk' = [wk EXCEPT ![w] = W] BY <1>1 DEF WorkerRefuses, WorkerSet, Outside
<1>5. Dated(NoJob, Absent) /\ NoJob \notin Jobs
  BY <1>2, ConstFacts DEF Dated, Shapes
<1>6. Becomes(w, W, NoJob, Absent) BY <1>2, <1>3, <1>4, <1>5 DEF Becomes
<1>7. InOrder(w, W, NoJob, Absent) BY <1>3, <1>5 DEF InOrder
<1>8. QED BY <1>6, <1>7, WorkerStep

LEMMA CatchStep ==
  ASSUME Backend = "postgres", Shapes, Shapes', StampInv, TurnInv, NEW w \in Pids,
         WorkerCatch(w)
  PROVE  StampInv' /\ TurnInv'
<1> DEFINE r == store.jobs[wk[w].job]
<1>1. PICK j : j = wk[w].job OBVIOUS
<1>2. /\ Live(w) /\ j \in Jobs /\ mixed' = mixed
      /\ UNCHANGED <<mem, hs, attached, spawned>> /\ store' = store
      /\ store \in Snapshot /\ r \in Record
  BY <1>1, StampFacts DEF WorkerCatch, WorkerOnly, Live, Shapes
<1>3. CASE WorkerSet(w, "catchWrite", SetJob(store, wk[w].job, Failed(r))) /\ Tick
  <2>1. PICK n : n = Failed(r) OBVIOUS
  <2>2. PICK W : W = Outside(w, "catchWrite", SetJob(store, j, n)) OBVIOUS
  <2>3. /\ W.pc = "catchWrite" /\ W.job = j /\ W.mem = SetJob(store, j, n)
        /\ W.opt = Absent
    BY <1>1, <2>2, OutsideFacts
  <2>4. n \in Record /\ n.ts = clock + 1 /\ n.status = "failed" /\ clock' = clock + 1
    <3>1. Now = clock + 1 /\ clock + 1 \in Nat BY Ticks DEF Shapes
    <3>2. QED BY <1>2, <1>3, <2>1, <3>1, Ticks DEF Failed, Record
  <2>5. wk' = [wk EXCEPT ![w] = W] BY <1>1, <1>3, <2>1, <2>2 DEF WorkerSet, Outside
  <2>6. Dated(j, n) BY <2>4 DEF Dated, Shapes
  <2>7. /\ W.mem.jobs[j] = n
        /\ \A k \in Jobs : k # j => W.mem.jobs[k] = store'.jobs[k]
    BY <1>2, <2>3, <2>4, SetJobFacts
  <2>8. Becomes(w, W, j, n) BY <1>1, <1>2, <2>3, <2>5, <2>6, <2>7 DEF Becomes
  <2>9. InOrder(w, W, j, n) BY <2>3, <2>4 DEF InOrder
  <2>10. QED BY <2>8, <2>9, WorkerStep
<1>4. CASE WorkerExit(w) /\ UNCHANGED clock BY <1>2, <1>4, ExitStep
<1>5. QED BY <1>3, <1>4 DEF WorkerCatch

LEMMA CatchWriteStep ==
  ASSUME Backend = "postgres", Shapes, Shapes', StampInv, TurnInv, NEW w \in Pids,
         WorkerCatchWrite(w)
  PROVE  StampInv' /\ TurnInv'
<1>1. /\ Live(w) /\ mixed' = mixed /\ clock' = clock
      /\ UNCHANGED <<mem, hs, attached, spawned>> /\ WorkerExit(w)
      /\ store' = MergeSnapshot(store, wk[w].mem)
  BY Flushes DEF WorkerCatchWrite, WorkerOnly, Live
<1>2. QED BY <1>1, ExitStep

LEMMA CrashStep ==
  ASSUME Backend = "postgres", Shapes, Shapes', StampInv, TurnInv, NEW w \in Pids,
         WorkerCrash(w)
  PROVE  StampInv' /\ TurnInv'
<1>1. /\ Live(w) /\ mixed' = mixed /\ clock' = clock
      /\ UNCHANGED <<mem, hs, attached, spawned>> /\ WorkerExit(w)
      /\ store' = store
  BY DEF WorkerCrash, Live
<1>2. QED BY <1>1, ExitStep

(* In the executors: the record n comes from process w itself.             *)
LEMMA ExecutorStep ==
  ASSUME Backend = "postgres", Shapes, Shapes', StampInv, TurnInv, NEW w \in Pids,
         NEW pc \in ExecutorPcs \cup {"finishing"}, NEW own, NEW n,
         ExecutorSet(w, pc, own, n), WorkerOnly, Tick, UNCHANGED store, Live(w),
         n.ts = Now,
         Orderly => /\ n.status # "queued"
                    /\ n.status = "running" => n.worker = w
                    /\ pc # "finishing" => n.worker = w /\ wk[w].job \in Optimizations
  PROVE  StampInv' /\ TurnInv'
<1>1. PICK j : j = wk[w].job OBVIOUS
<1>2. PICK m : m = ExecutorCopy(w, own, n) OBVIOUS
<1>3. PICK W : W = [wk[w] EXCEPT !.pc = pc, !.opt = n, !.own = own, !.mem = m] OBVIOUS
<1>4. wk[w] \in Worker /\ wk[w].mem \in Snapshot /\ j \in Jobs
  BY <1>1 DEF Shapes, Live
<1>5. W.pc = pc /\ W.opt = n /\ W.mem = m /\ W.job = j
  BY <1>1, <1>3, <1>4 DEF Worker
<1>6. wk' = [wk EXCEPT ![w] = W] BY <1>2, <1>3 DEF ExecutorSet
<1>7. n \in Record
  <2>1. wk'[w] = W /\ wk'[w] \in Worker BY <1>6 DEF Shapes
  <2>2. QED BY <1>5, <2>1 DEF Worker
<1>8. Dated(j, n) BY <1>7, Ticks DEF Dated, Shapes
<1>9. \A k \in Jobs : W.mem.jobs[k] = wk[w].mem.jobs[k] \/ (k = j /\ W.mem.jobs[k] = n)
  BY <1>1, <1>2, <1>4, <1>5, <1>7, SetJobFacts DEF ExecutorCopy
<1>10. Becomes(w, W, j, n)
  BY <1>1, <1>5, <1>6, <1>8, <1>9 DEF Becomes, WorkerOnly, ExecutorPcs
<1>11. Orderly => InOrder(w, W, j, n)
  BY <1>1, <1>5 DEF InOrder, ExecutorPcs
<1>12. QED BY <1>10, <1>11, WorkerStep

(* Only a process that its job's record names gets past the guard: no      *)
(* record that it finds is a failure half-way, and a backtest's is not     *)
(* queued any more.                                                        *)
LEMMA StartStep ==
  ASSUME Backend = "postgres", Shapes, Shapes', StampInv, TurnInv, NEW w \in Pids,
         WorkerStart(w)
  PROVE  StampInv' /\ TurnInv'
<1>1. PICK r : r = WorkerJob(w) OBVIOUS
<1>2. PICK n : n = Started(r) OBVIOUS
<1>3. /\ Live(w) /\ wk[w].pc = "ready" /\ Accepts(w, r) /\ Tick /\ WorkerOnly
      /\ UNCHANGED store /\ ExecutorSet(w, "starting", TRUE, n)
  BY <1>1, <1>2 DEF WorkerStart, Live
<1>4. wk[w].job \in Jobs /\ r \in Record
  BY <1>1, <1>3, StampFacts DEF Live, Shapes, WorkerJob
<1>5. n.ts = Now /\ n.status = "running" /\ n.worker = r.worker
  BY <1>2, <1>4 DEF Started, Record
<1>6. Orderly => r.worker = w /\ wk[w].job \in Optimizations
  <2> SUFFICES ASSUME Orderly PROVE r.worker = w /\ wk[w].job \in Optimizations
    OBVIOUS
  <2>1. ~Half(r) /\ r.status # "queued"
    BY <1>1, <1>3 DEF Orderly, ReadyWhole, Shapes
  <2>2. wk[w].job \notin Backtests /\ AcceptsOptimization(w, r)
    BY <1>3, <2>1 DEF Accepts, AcceptsBacktest
  <2>3. QED BY <1>4, <2>1, <2>2 DEF AcceptsOptimization, Half, Jobs
<1>7. "starting" \in ExecutorPcs BY DEF ExecutorPcs
<1>8. QED BY <1>3, <1>5, <1>6, <1>7, ExecutorStep

LEMMA ObjectFacts ==
  ASSUME Shapes, NEW w \in Pids, Executing(w)
  PROVE  /\ Live(w) /\ JobObject(w) \in Record /\ wk[w].opt \in Record
         /\ wk[w].opt.status = "running"
         /\ Orderly => /\ JobObject(w) = wk[w].opt /\ wk[w].opt.worker = w
                       /\ wk[w].job \in Optimizations
<1>1. Live(w) /\ wk[w].job \in Jobs BY DEF Live, Executing, Shapes
<1>2. WorkerJob(w) \in Record /\ wk[w].opt \in Record
  BY <1>1, StampFacts DEF WorkerJob, Shapes, Worker
<1>3. wk[w].opt.status = "running" BY DEF Shapes
<1>4. Orderly => wk[w].opt.worker = w /\ wk[w].job \in Optimizations
  BY DEF Orderly, OwnObject
<1>5. QED BY <1>1, <1>2, <1>3, <1>4, BoundsAssumption DEF JobObject

LEMMA CandlesLoadedStep ==
  ASSUME Backend = "postgres", Shapes, Shapes', StampInv, TurnInv, NEW w \in Pids,
         WorkerCandlesLoaded(w)
  PROVE  StampInv' /\ TurnInv'
<1>1. PICK r : r = JobObject(w) OBVIOUS
<1>2. PICK own : own = OwnsObject(w) OBVIOUS
<1>3. Executing(w) /\ Tick /\ WorkerOnly /\ UNCHANGED store
  BY DEF WorkerCandlesLoaded, Executing
<1>4. /\ Live(w) /\ r \in Record
      /\ Orderly => r.worker = w /\ r.status = "running" /\ wk[w].job \in Optimizations
  BY <1>1, <1>3, ObjectFacts
<1>5. CASE wk[w].job \in Optimizations
  <2>1. PICK n : n = Progressed(r) OBVIOUS
  <2>2. ExecutorSet(w, "progressing", own, n)
    BY <1>1, <1>2, <1>5, <2>1 DEF WorkerCandlesLoaded
  <2>3. n.ts = Now /\ n.status = r.status /\ n.worker = r.worker
    BY <1>4, <2>1 DEF Progressed, Record
  <2>4. "progressing" \in ExecutorPcs BY DEF ExecutorPcs
  <2>5. Orderly => n.status = "running" /\ n.worker = w BY <1>4, <2>3
  <2>6. QED BY <1>3, <1>4, <1>5, <2>2, <2>3, <2>4, <2>5, ExecutorStep
<1>6. CASE wk[w].job \notin Optimizations
  <2>1. PICK n : n = Completed(r) OBVIOUS
  <2>2. ExecutorSet(w, "finishing", own, n)
    BY <1>1, <1>2, <1>6, <2>1 DEF WorkerCandlesLoaded
  <2>3. n.ts = Now /\ n.status = "completed" BY <1>4, <2>1 DEF Completed, Record
  <2>4. QED BY <1>3, <1>4, <2>2, <2>3, ExecutorStep
<1>7. QED BY <1>5, <1>6

LEMMA FailsStep ==
  ASSUME Backend = "postgres", Shapes, Shapes', StampInv, TurnInv, NEW w \in Pids,
         WorkerFails(w)
  PROVE  StampInv' /\ TurnInv'
<1>1. PICK own : own = OwnsObject(w) OBVIOUS
<1>2. PICK n : n = Failed(JobObject(w)) OBVIOUS
<1>3. /\ Executing(w) /\ Tick /\ WorkerOnly /\ UNCHANGED store
      /\ ExecutorSet(w, "finishing", own, n)
  BY <1>1, <1>2 DEF WorkerFails, Executing
<1>4. Live(w) /\ JobObject(w) \in Record BY <1>3, ObjectFacts
<1>5. n.ts = Now /\ n.status = "failed" BY <1>2, <1>4 DEF Failed, Record
<1>6. QED BY <1>3, <1>4, <1>5, ExecutorStep

LEMMA EvaluateStep ==
  ASSUME Backend = "postgres", Shapes, Shapes', StampInv, TurnInv, NEW w \in Pids,
         WorkerEvaluate(w)
  PROVE  StampInv' /\ TurnInv'
<1>1. PICK own : own = wk[w].own OBVIOUS
<1>2. PICK n : n = Evaluated(wk[w].opt) OBVIOUS
<1>3. /\ Executing(w) /\ Tick /\ WorkerOnly /\ UNCHANGED store
      /\ \E pc \in {"progressing", "evaluating"} : ExecutorSet(w, pc, own, n)
  BY <1>1, <1>2 DEF WorkerEvaluate, Executing
<1>4. /\ Live(w) /\ wk[w].opt \in Record /\ wk[w].opt.status = "running"
      /\ Orderly => wk[w].opt.worker = w /\ wk[w].job \in Optimizations
  BY <1>3, ObjectFacts
<1>5. n.ts = Now /\ n.status = "running" /\ n.worker = wk[w].opt.worker
  BY <1>2, <1>4 DEF Evaluated, Record
<1>6. {"progressing", "evaluating"} \subseteq ExecutorPcs BY DEF ExecutorPcs
<1>7. PICK pc \in {"progressing", "evaluating"} : ExecutorSet(w, pc, own, n) BY <1>3
<1>8. QED BY <1>3, <1>4, <1>5, <1>6, <1>7, ExecutorStep

LEMMA FinishStep ==
  ASSUME Backend = "postgres", Shapes, Shapes', StampInv, TurnInv, NEW w \in Pids,
         WorkerFinish(w)
  PROVE  StampInv' /\ TurnInv'
<1>1. PICK own : own = wk[w].own OBVIOUS
<1>2. PICK n : n = Completed(wk[w].opt) OBVIOUS
<1>3. /\ Executing(w) /\ Tick /\ WorkerOnly /\ UNCHANGED store
      /\ ExecutorSet(w, "finishing", own, n)
  BY <1>1, <1>2 DEF WorkerFinish, Executing
<1>4. Live(w) /\ wk[w].opt \in Record BY <1>3, ObjectFacts
<1>5. n.ts = Now /\ n.status = "completed" BY <1>2, <1>4 DEF Completed, Record
<1>6. QED BY <1>3, <1>4, <1>5, ExecutorStep

LEMMA WrittenStep ==
  ASSUME Backend = "postgres", Shapes, Shapes', StampInv, TurnInv, NEW w \in Pids,
         WorkerWritten(w)
  PROVE  StampInv' /\ TurnInv'
<1>1. /\ Live(w) /\ WorkerOnly /\ clock' = clock
      /\ store' = MergeSnapshot(store, wk[w].mem)
      /\ AfterFlush(wk[w].mem) = store'
  BY Flushes DEF WorkerWritten, Live
<1>2. CASE wk[w].pc = "finishing"
  <2>1. WorkerExit(w) BY <1>2 DEF WorkerWritten
  <2>2. QED BY <1>1, <2>1, ExitStep DEF WorkerOnly
<1>3. CASE wk[w].pc # "finishing"
  <2>1. PICK pc : pc = IF wk[w].pc = "starting" THEN "loading" ELSE "evaluating" OBVIOUS
  <2>2. PICK own : own = (wk[w].own /\ store'.jobs[wk[w].job] = wk[w].opt) OBVIOUS
  <2>3. PICK m : m = store' OBVIOUS
  <2>4. PICK W : W = [wk[w] EXCEPT !.pc = pc, !.mem = m, !.own = own] OBVIOUS
  <2>5. wk[w] \in Worker BY DEF Shapes
  <2>6. W.pc = pc /\ W.mem = store' /\ W.opt = wk[w].opt /\ W.job = wk[w].job
    BY <2>3, <2>4, <2>5 DEF Worker
  <2>7. wk' = [wk EXCEPT ![w] = W]
    BY <1>1, <1>3, <2>1, <2>2, <2>3, <2>4 DEF WorkerWritten
  <2>8. Dated(NoJob, Absent) BY <1>1, ConstFacts DEF Dated, Shapes
  <2>9. Becomes(w, W, NoJob, Absent)
    BY <1>1, <2>1, <2>6, <2>7, <2>8 DEF Becomes, WorkerOnly
  <2>10. Executing(w) BY <1>3 DEF WorkerWritten, Executing
  <2>11. Orderly => InOrder(w, W, NoJob, Absent)
    BY <2>1, <2>6, <2>10, ConstFacts, ObjectFacts DEF InOrder
  <2>12. QED BY <2>9, <2>11, WorkerStep
<1>4. QED BY <1>2, <1>3

LEMMA WorkerProgressStep ==
  ASSUME Backend = "postgres", Shapes, Shapes', StampInv, TurnInv, NEW w \in Pids,
         WorkerProgress(w) \/ WorkerCrash(w)
  PROVE  StampInv' /\ TurnInv'
BY LoadStep, ClaimStep, StartStep, RefuseStep, CandlesLoadedStep, FailsStep,
   EvaluateStep, FinishStep, WrittenStep, CatchStep, CatchWriteStep, CrashStep
   DEF WorkerProgress

-----------------------------------------------------------------------------
(* The actions of the server.                                              *)
LEMMA StartWriteFacts ==
  ASSUME Backend = "postgres", Shapes, NEW h \in Handlers, NEW op, NEW pc, NEW job,
         NEW left, NEW data, StartWrite(h, op, pc, job, left, data)
  PROVE  /\ mem' = data
         /\ hs'[h].pc = pc /\ hs'[h].job = job /\ hs'[h].snap = EmptySnapshot
         /\ \A g \in Handlers : g # h => hs'[g] = hs[g]
<1> DEFINE H == [pc |-> pc, op |-> op, job |-> job, left |-> left,
                 snap |-> Captured(data)]
<1>1. hs' = [hs EXCEPT ![h] = H] /\ mem' = data BY DEF StartWrite
<1>2. hs'[h] = H /\ \A g \in Handlers : g # h => hs'[g] = hs[g]
  BY <1>1 DEF Shapes
<1>3. Captured(data) = EmptySnapshot BY Flushes
<1>4. QED BY <1>1, <1>2, <1>3

(* h serves a request that has found the jobs d, which are the stored ones *)
(* if requests take turns.                                                 *)
Finds(h, d) ==
  /\ d \in Snapshot /\ Of(d, NoJob, Absent)
  /\ store' \in Snapshot /\ Of(store', NoJob, Absent)
  /\ \A j \in Jobs : store.jobs[j].ts <= store'.jobs[j].ts
  /\ h \in attached' /\ Busy(h) /\ hs[h].pc # "inserting"
  /\ ~mixed' =>
       /\ ~mixed
       /\ \A j \in Jobs : store'.jobs[j] = d.jobs[j]
       /\ Orderly =>
            /\ \A j \in Jobs : Top(j) <= d.jobs[j].ts
            /\ \A v \in Pids :
                 wk[v].pc \in {"boot", "claimed"} => ~Half(d.jobs[wk[v].job])

(* Nobody but h is serving. *)
LEMMA Alone ==
  ASSUME Orderly, NEW h \in Handlers, Busy(h),
         \A g \in Handlers : g # h => hs'[g] = hs[g]
  PROVE  /\ OneBusy'
         /\ \A g \in Handlers : g # h => hs'[g].pc \in {"idle", "writing"}
         /\ hs'[h].pc \notin {"reconciling", "inserting", "claiming"} => ~Window'
         /\ hs'[h].pc # "inserting" => Holds' /\ Unborn'
<1>1. \A g \in Handlers : g # h => hs'[g].pc \in {"idle", "writing"}
  BY DEF Orderly, OneBusy, Busy
<1>2. OneBusy' BY <1>1 DEF OneBusy, Busy
<1>3. hs'[h].pc \notin {"reconciling", "inserting", "claiming"} => ~Window'
  BY <1>1 DEF Window
<1>4. hs'[h].pc # "inserting" => Holds' /\ Unborn'
  BY <1>1 DEF Holds, Unborn
<1>5. QED BY <1>1, <1>2, <1>3, <1>4

LEMMA RespondStep ==
  ASSUME Backend = "postgres", Shapes, Shapes', StampInv, TurnInv, NEW h \in Handlers,
         NEW op, NEW kinds, NEW d, Finds(h, d), Respond(h, op, d, kinds)
  PROVE  StampInv' /\ TurnInv'
<1>1. /\ mem' = d /\ hs' = [hs EXCEPT ![h] = IdleHandler]
      /\ wk' = wk /\ clock' = clock
  BY DEF Respond
<1>2. /\ hs'[h].pc = "idle" /\ hs'[h].snap = EmptySnapshot
      /\ \A g \in Handlers : g # h => hs'[g] = hs[g]
  BY <1>1, IdleGood DEF Shapes
<1>3. Dated(NoJob, Absent) /\ NoJob \notin Jobs
  BY <1>1, ConstFacts DEF Dated, Shapes
<1>4. /\ Of(mem', NoJob, Absent) /\ Of(store', NoJob, Absent)
      /\ \A g \in Handlers : Of(hs'[g].snap, NoJob, Absent)
  BY <1>1, <1>2, OfFacts DEF Finds
<1>5. Brings(NoJob, Absent) /\ StampInv'
  BY <1>1, <1>3, <1>4, ServerStamps DEF Finds
<1>6. ASSUME ~mixed' PROVE Orderly'
  <2>1. /\ Orderly /\ Busy(h)
        /\ \A j \in Jobs : store'.jobs[j] = d.jobs[j] /\ Top(j) <= d.jobs[j].ts
        /\ \A v \in Pids :
             wk[v].pc \in {"boot", "claimed"} => ~Half(d.jobs[wk[v].job])
    BY <1>6 DEF Finds, TurnInv
  <2>2. OneBusy' /\ Holds' /\ Unborn' /\ ~Window' BY <1>2, <2>1, Alone
  <2>3. \A j \in Jobs : Top(j) <= Top(j)' BY <2>1, <2>2 DEF Top
  <2>4. Settled' BY <1>1, <2>1, StampFactsNext DEF Settled
  <2>5. NotHalf'
    <3>1. \A v \in Pids : wk[v].pc \in {"boot", "claimed"} => wk[v].job \in Jobs
      BY DEF Shapes
    <3>2. QED BY <1>1, <2>1, <2>2, <3>1 DEF NotHalf, Half
  <2>6. QED BY <1>1, <1>3, <1>5, <2>1, <2>2, <2>3, <2>4, <2>5, ServerSame
<1>7. QED BY <1>5, <1>6 DEF TurnInv

(* What a reconciliation or a new job does to the stamps.                  *)
LEMMA WritesRecord ==
  ASSUME Backend = "postgres", Shapes, Shapes', NEW h \in Handlers, NEW d, Finds(h, d),
         NEW i \in Jobs, NEW n \in Record, n.ts = clock + 1, Tick,
         mem' = SetJob(d, i, n), hs'[h].pc \in {"reconciling", "inserting"},
         hs'[h].snap = EmptySnapshot, \A g \in Handlers : g # h => hs'[g] = hs[g]
  PROVE  /\ Dated(i, n) /\ Of(mem', i, n) /\ Of(store', i, n)
         /\ \A g \in Handlers : Of(hs'[g].snap, i, n)
         /\ mem'.jobs[i] = n /\ \A j \in Jobs : j # i => mem'.jobs[j] = d.jobs[j]
         /\ Window' /\ Settled'
<1>1. /\ mem'.jobs[i] = n /\ \A j \in Jobs : j # i => mem'.jobs[j] = d.jobs[j]
  BY SetJobFacts DEF Finds
<1>2. Of(mem', i, n) /\ Of(store', i, n)
  <2>1. Of(d, i, n) /\ Of(store', i, n) BY OfFacts DEF Finds
  <2>2. QED BY <2>1, SetJobOf DEF Finds
<1>3. \A g \in Handlers : Of(hs'[g].snap, i, n) BY OfFacts
<1>4. Dated(i, n) BY Ticks DEF Dated, Shapes
<1>5. Window' /\ Settled' BY DEF Window, Settled
<1>6. QED BY <1>1, <1>2, <1>3, <1>4, <1>5

(* ... and to the youngest stamps, when requests take turns.               *)
LEMMA WritesTop ==
  ASSUME Shapes, Shapes', StampInv, Orderly, NEW d, NEW i \in Jobs, NEW n \in Record, n.ts = clock + 1,
         d \in Snapshot, Of(d, NoJob, Absent),
         \A j \in Jobs : store'.jobs[j] = d.jobs[j] /\ Top(j) <= d.jobs[j].ts,
         mem'.jobs[i] = n, \A j \in Jobs : j # i => mem'.jobs[j] = d.jobs[j],
         Window'
  PROVE  /\ \A j \in Jobs : Top(j) <= Top(j)'
         /\ Top(i)' = n.ts
         /\ \A j \in Jobs : Names(j, d.jobs[j])
<1>1. \A j \in Jobs : d.jobs[j] \in Recs(j) /\ d.jobs[j].ts <= clock
                       /\ d.jobs[j].ts \in Nat /\ Top(j) \in Nat
  <2>1. \A j \in Jobs : d.jobs[j] \in Recs(j) BY ConstFacts DEF Of
  <2>2. \A j \in Jobs : d.jobs[j].ts \in Nat BY DEF Snapshot, Record
  <2>3. QED BY <2>1, <2>2, StampFacts DEF StampInv, Stamped
<1>2. Top(i)' = n.ts BY <1>1 DEF Top, Shapes
<1>3. \A j \in Jobs : j # i => Top(j)' = d.jobs[j].ts BY <1>1 DEF Top
<1>4. clock \in Nat BY DEF Shapes
<1>5. \A j \in Jobs : Top(j) <= Top(j)' BY <1>1, <1>2, <1>3, <1>4
<1>6. \A j \in Jobs : Names(j, d.jobs[j]) BY <1>1 DEF Orderly, TopNames
<1>7. QED BY <1>2, <1>5, <1>6

LEMMA ReconcileFailStep ==
  ASSUME Backend = "postgres", Shapes, Shapes', StampInv, TurnInv, NEW h \in Handlers,
         NEW op, NEW kinds, NEW d, Finds(h, d), ReconcileFail(h, op, d, kinds)
  PROVE  StampInv' /\ TurnInv'
<1>1. PICK k \in kinds, j \in Jobs :
        /\ IsFirst(j, ActiveOf(d, k)) /\ MayFail(d.jobs[j])
        /\ StartWrite(h, op, "reconciling", NoJob, kinds \ {k},
                      SetJob(d, j, Failed(d.jobs[j])))
        /\ Tick /\ wk' = wk
  BY DEF ReconcileFail
<1>2. PICK n : n = Failed(d.jobs[j]) OBVIOUS
<1>3. d.jobs[j] \in Record BY DEF Finds, Snapshot
<1>4. n \in Record /\ n.ts = clock + 1 /\ n.status = "failed"
  <2>1. Now = clock + 1 /\ clock + 1 \in Nat BY Ticks DEF Shapes
  <2>2. QED BY <1>2, <1>3, <2>1 DEF Failed, Record
<1>5. /\ mem' = SetJob(d, j, n) /\ hs'[h].pc = "reconciling"
      /\ hs'[h].snap = EmptySnapshot
      /\ \A g \in Handlers : g # h => hs'[g] = hs[g]
  BY <1>1, <1>2, StartWriteFacts
<1>6. /\ Dated(j, n) /\ Of(mem', j, n) /\ Of(store', j, n)
      /\ \A g \in Handlers : Of(hs'[g].snap, j, n)
      /\ mem'.jobs[j] = n /\ \A i \in Jobs : i # j => mem'.jobs[i] = d.jobs[i]
      /\ Window' /\ Settled'
  BY <1>1, <1>4, <1>5, WritesRecord
<1>7. Brings(j, n) /\ StampInv' BY <1>1, <1>6, ServerStamps DEF Finds
<1>8. ASSUME ~mixed' PROVE Orderly'
  <2>1. /\ Orderly /\ Busy(h) /\ d \in Snapshot /\ Of(d, NoJob, Absent)
        /\ \A i \in Jobs : store'.jobs[i] = d.jobs[i] /\ Top(i) <= d.jobs[i].ts
        /\ \A v \in Pids :
             wk[v].pc \in {"boot", "claimed"} => ~Half(d.jobs[wk[v].job])
    BY <1>8 DEF Finds, TurnInv
  <2>2. OneBusy' /\ Holds' /\ Unborn' BY <1>5, <2>1, Alone
  <2>3. (\A i \in Jobs : Top(i) <= Top(i)') /\ Names(j, d.jobs[j])
    BY <1>4, <1>6, <2>1, WritesTop
  <2>4. \A v \in Pids : Live(v) => wk[v].job # j
    <3> SUFFICES ASSUME NEW v \in Pids, Live(v), wk[v].job = j PROVE FALSE
      OBVIOUS
    <3>1. /\ d.jobs[j].status # "queued"
          /\ d.jobs[j].status = "running" => d.jobs[j].worker = v
      BY <2>3 DEF Names
    <3>2. d.jobs[j].status \in InFlightStatus
      BY <1>1 DEF IsFirst, ActiveOf, ActiveJobs
    <3>3. d.jobs[j].status = "running" /\ d.jobs[j].worker = v
      BY <3>1, <3>2 DEF InFlightStatus
    <3>4. v # NoPid /\ PidAlive(v) BY ConstFacts DEF PidAlive, Live
    <3>5. QED BY <1>1, <3>3, <3>4 DEF MayFail, WorkerGone
  <2>5. Names(j, n) BY <1>4 DEF Names
  <2>6. NotHalf'
    <3> SUFFICES ASSUME NEW v \in Pids, wk[v].pc \in {"boot", "claimed"}
                 PROVE  ~Half(store'.jobs[wk[v].job]) /\ ~Half(mem'.jobs[wk[v].job])
      BY <1>1 DEF NotHalf, Half
    <3>1. wk[v].job \in Jobs /\ wk[v].job # j BY <2>4 DEF Live, Shapes
    <3>2. QED BY <1>6, <2>1, <3>1
  <2>7. QED BY <1>1, <1>6, <1>7, <2>1, <2>2, <2>3, <2>5, <2>6, ServerSame
<1>9. QED BY <1>7, <1>8 DEF TurnInv

LEMMA SpawnFacts ==
  ASSUME Shapes, NEW x, SpawnWorker(x)
  PROVE  spawned + 1 \in Pids /\ spawned + 1 \in 0..MaxPids
BY BoundsAssumption DEF SpawnWorker, Shapes, Pids

LEMMA ReconcileResumeStep ==
  ASSUME Backend = "postgres", Shapes, Shapes', StampInv, TurnInv, NEW h \in Handlers,
         NEW op, NEW kinds, NEW d, Finds(h, d), ReconcileResume(h, op, d, kinds)
  PROVE  StampInv' /\ TurnInv'
<1>1. PICK j \in Jobs :
        /\ Resumable(j, d.jobs[j]) /\ SpawnWorker(j)
        /\ StartWrite(h, op, "reconciling", NoJob, kinds \ {"optimization"},
                      SetJob(d, j, Resumed(d.jobs[j], spawned + 1)))
        /\ Tick
  BY DEF ReconcileResume
<1>2. PICK n : n = Resumed(d.jobs[j], spawned + 1) OBVIOUS
<1>3. d.jobs[j] \in Record BY DEF Finds, Snapshot
<1>4. n \in Record /\ n.ts = clock + 1 /\ n.status = "running" /\ n.worker = spawned + 1
  <2>1. Now = clock + 1 /\ clock + 1 \in Nat BY Ticks DEF Shapes
  <2>2. spawned + 1 \in 0..MaxPids BY <1>1, SpawnFacts
  <2>3. d.jobs[j].restarts + 1 \in 0..AutoResumeLimit
    BY <1>1, <1>3, BoundsAssumption DEF Resumable, Record
  <2>4. PICK q : q = [d.jobs[j] EXCEPT !.restarts = d.jobs[j].restarts + 1] OBVIOUS
  <2>5. q \in Record BY <1>3, <2>3, <2>4 DEF Record
  <2>6. n = [q EXCEPT !.status = "running", !.worker = spawned + 1, !.ts = Now]
    BY <1>2, <2>4 DEF Resumed, Claimed
  <2>7. QED BY <2>1, <2>2, <2>5, <2>6 DEF Record
<1>5. /\ mem' = SetJob(d, j, n) /\ hs'[h].pc = "reconciling"
      /\ hs'[h].snap = EmptySnapshot
      /\ \A g \in Handlers : g # h => hs'[g] = hs[g]
  BY <1>1, <1>2, StartWriteFacts
<1>6. /\ Dated(j, n) /\ Of(mem', j, n) /\ Of(store', j, n)
      /\ \A g \in Handlers : Of(hs'[g].snap, j, n)
      /\ mem'.jobs[j] = n /\ \A i \in Jobs : i # j => mem'.jobs[i] = d.jobs[i]
      /\ Window' /\ Settled'
  BY <1>1, <1>4, <1>5, WritesRecord
<1>7. Brings(j, n) /\ StampInv' BY <1>1, <1>6, ServerStamps DEF Finds
<1>8. ASSUME ~mixed' PROVE Orderly'
  <2>1. /\ Orderly /\ Busy(h) /\ d \in Snapshot /\ Of(d, NoJob, Absent)
        /\ \A i \in Jobs : store'.jobs[i] = d.jobs[i] /\ Top(i) <= d.jobs[i].ts
        /\ \A v \in Pids :
             wk[v].pc \in {"boot", "claimed"} => ~Half(d.jobs[wk[v].job])
    BY <1>8 DEF Finds, TurnInv
  <2>2. OneBusy' BY <1>5, <2>1, Alone
  <2>2a. Holds' /\ Unborn' BY <1>5, <2>1, Alone
  <2>3. /\ \A i \in Jobs : Top(i) <= Top(i)'
        /\ Top(j)' = n.ts /\ Names(j, d.jobs[j])
    BY <1>4, <1>6, <2>1, WritesTop
  <2>4. \A v \in Pids : Live(v) => wk[v].job # j
    <3> SUFFICES ASSUME NEW v \in Pids, Live(v), wk[v].job = j PROVE FALSE
      OBVIOUS
    <3>1. d.jobs[j].status = "running" /\ ~PidAlive(d.jobs[j].worker)
      BY <1>1 DEF Resumable, WorkerGone
    <3>2. d.jobs[j].worker = v BY <2>3, <3>1 DEF Names
    <3>3. PidAlive(v) BY DEF PidAlive, Live
    <3>4. QED BY <3>1, <3>2, <3>3
  <2>5. d.jobs[j].status = "running" BY <1>1 DEF Resumable, WorkerGone
  <2>6. ~Half(store'.jobs[j]) /\ ~Half(mem'.jobs[j])
    BY <1>4, <1>6, <2>1, <2>5 DEF Half
  <2>7. ASSUME NEW v \in Pids, wk[v].pc \in {"boot", "claimed"}, wk[v].job # j
        PROVE  /\ ~Half(store'.jobs[wk[v].job])
               /\ Window' => ~Half(mem'.jobs[wk[v].job])
    <3>1. wk[v].job \in Jobs BY <2>7 DEF Shapes
    <3>2. QED BY <1>6, <2>1, <2>7, <3>1
  <2>8. QED BY <1>1, <1>4, <1>6, <1>7, <2>1, <2>2, <2>2a, <2>3, <2>4, <2>6, <2>7, ServerSpawns
<1>9. QED BY <1>7, <1>8 DEF TurnInv

LEMMA CreateJobStep ==
  ASSUME Backend = "postgres", Shapes, Shapes', StampInv, TurnInv, NEW h \in Handlers,
         NEW op, NEW kinds, NEW d, Finds(h, d), CreateJob(h, op, d, kinds)
  PROVE  StampInv' /\ TurnInv'
<1>1. PICK j \in JobsOf(op) :
        /\ j > made /\ StartWrite(h, op, "inserting", j, {}, SetJob(d, j, Queued))
  BY DEF CreateJob
<1>2. Tick /\ wk' = wk BY DEF CreateJob
<1>3. PICK n : n = Queued OBVIOUS
<1>4. j \in Jobs /\ j \in Nat /\ j # NoJob BY ConstFacts DEF JobsOf, Jobs
<1>5. n \in Record /\ n.ts = clock + 1
  <2>1. Now = clock + 1 /\ clock + 1 \in Nat /\ Absent \in Record
    BY Ticks, ConstFacts DEF Shapes
  <2>2. QED BY <1>3, <2>1 DEF Queued, Record
<1>6. /\ mem' = SetJob(d, j, n) /\ hs'[h].pc = "inserting" /\ hs'[h].job = j
      /\ hs'[h].snap = EmptySnapshot
      /\ \A g \in Handlers : g # h => hs'[g] = hs[g]
  BY <1>1, <1>3, StartWriteFacts
<1>7. /\ Dated(j, n) /\ Of(mem', j, n) /\ Of(store', j, n)
      /\ \A g \in Handlers : Of(hs'[g].snap, j, n)
      /\ mem'.jobs[j] = n /\ \A i \in Jobs : i # j => mem'.jobs[i] = d.jobs[i]
      /\ Window' /\ Settled'
  BY <1>2, <1>4, <1>5, <1>6, WritesRecord
<1>8. Brings(j, n) /\ StampInv' BY <1>2, <1>7, ServerStamps DEF Finds
<1>9. \A v \in Pids : wk[v].job # j
  BY <1>1, <1>4, ConstFacts DEF Shapes
<1>10. ASSUME ~mixed' PROVE Orderly'
  <2>1. /\ Orderly /\ Busy(h) /\ d \in Snapshot /\ Of(d, NoJob, Absent)
        /\ h \in attached'
        /\ \A i \in Jobs : store'.jobs[i] = d.jobs[i] /\ Top(i) <= d.jobs[i].ts
        /\ \A v \in Pids :
             wk[v].pc \in {"boot", "claimed"} => ~Half(d.jobs[wk[v].job])
    BY <1>10 DEF Finds, TurnInv
  <2>2. OneBusy' /\ \A g \in Handlers : g # h => hs'[g].pc \in {"idle", "writing"}
    BY <1>6, <2>1, Alone
  <2>3. Holds' BY <2>1, <2>2 DEF Holds
  <2>4. Unborn'
    <3>1. ASSUME NEW g \in Handlers, hs'[g].pc = "inserting", NEW v \in Pids
          PROVE  wk'[v].job # hs'[g].job
      <4>1. g = h BY <2>2, <3>1
      <4>2. QED BY <1>2, <1>6, <1>9, <4>1
    <3>2. QED BY <3>1 DEF Unborn
  <2>5. \A i \in Jobs : Top(i) <= Top(i)' BY <1>4, <1>5, <1>7, <2>1, WritesTop
  <2>6. Names(j, n) BY <1>9 DEF Names
  <2>7. NotHalf'
    <3> SUFFICES ASSUME NEW v \in Pids, wk[v].pc \in {"boot", "claimed"}
                 PROVE  ~Half(store'.jobs[wk[v].job]) /\ ~Half(mem'.jobs[wk[v].job])
      BY <1>2 DEF NotHalf, Half
    <3>1. wk[v].job \in Jobs /\ wk[v].job # j BY <1>9 DEF Shapes
    <3>2. QED BY <1>7, <2>1, <3>1
  <2>8. QED BY <1>2, <1>7, <1>8, <2>1, <2>2, <2>3, <2>4, <2>5, <2>6, <2>7, ServerSame
<1>11. QED BY <1>8, <1>10 DEF TurnInv

LEMMA ServeStep ==
  ASSUME Backend = "postgres", Shapes, Shapes', StampInv, TurnInv, NEW h \in Handlers,
         NEW op, NEW kinds, NEW d, Finds(h, d), Serve(h, op, d, kinds)
  PROVE  StampInv' /\ TurnInv'
BY RespondStep, ReconcileFailStep, ReconcileResumeStep, CreateJobStep DEF Serve

LEMMA ReloadedStep ==
  ASSUME Backend = "postgres", Shapes, Shapes', StampInv, TurnInv, NEW h \in Handlers,
         Reloaded(h)
  PROVE  StampInv' /\ TurnInv'
<1>1. PICK op, kinds, d : op = hs[h].op /\ kinds = hs[h].left /\ d = hs[h].snap
  OBVIOUS
<1>2. /\ hs[h].pc = "reloading" /\ Serve(h, op, d, kinds) /\ attached' = {h}
      /\ store' = store /\ mixed' = (mixed \/ d.jobs # store.jobs)
  BY <1>1 DEF Reloaded
<1>3. d \in Snapshot /\ Of(d, NoJob, Absent) /\ Of(store, NoJob, Absent)
  BY <1>1, OfFacts DEF Shapes
<1>4. \A j \in Jobs : store.jobs[j].ts <= store'.jobs[j].ts BY <1>2, StampFacts
<1>5. Busy(h) BY <1>2 DEF Busy
<1>6. ASSUME ~mixed', Orderly
      PROVE  /\ \A j \in Jobs : Top(j) <= d.jobs[j].ts
             /\ \A v \in Pids :
                  wk[v].pc \in {"boot", "claimed"} => ~Half(d.jobs[wk[v].job])
  <2>1. ~Window BY <1>2, <1>5, <1>6 DEF Orderly, OneBusy, Window, Busy
  <2>2. d.jobs = store.jobs BY <1>2, <1>6
  <2>3. \A j \in Jobs : Top(j) <= d.jobs[j].ts BY <2>1, <2>2, StampFacts DEF Top
  <2>4. QED BY <1>6, <2>2, <2>3 DEF Orderly, NotHalf
<1>7. Finds(h, d) BY <1>2, <1>3, <1>4, <1>5, <1>6 DEF Finds, Shapes
<1>8. QED BY <1>2, <1>7, ServeStep

(* What the server's merge keeps.                                          *)
LEMMA MemLands ==
  ASSUME Shapes, StampInv, NEW d, d = MergeSnapshot(store, mem)
  PROVE  /\ d \in Snapshot /\ \A i, n : Of(d, i, n)
         /\ \A j \in Jobs : /\ store.jobs[j].ts <= d.jobs[j].ts
                            /\ mem.jobs[j].ts <= d.jobs[j].ts
                            /\ Top(j) <= d.jobs[j].ts
                            /\ d.jobs[j] \in {store.jobs[j], mem.jobs[j]}
         /\ Orderly => \A v \in Pids :
              wk[v].pc \in {"boot", "claimed"} => ~Half(d.jobs[wk[v].job])
<1>1. store \in Snapshot /\ mem \in Snapshot BY DEF Shapes
<1>2. d \in Snapshot BY <1>1 DEF MergeSnapshot, MergeById, Snapshot
<1>3. \A j \in Jobs : /\ store.jobs[j].ts <= d.jobs[j].ts
                      /\ mem.jobs[j].ts <= d.jobs[j].ts
                      /\ d.jobs[j] \in {store.jobs[j], mem.jobs[j]}
  BY <1>1, MergeFacts
<1>4. \A j \in Jobs : Top(j) <= d.jobs[j].ts BY <1>3 DEF Top
<1>5. \A i, n : Of(d, i, n) BY <1>3, RecsFacts DEF Of
<1>6. ASSUME Orderly, NEW v \in Pids, wk[v].pc \in {"boot", "claimed"}
      PROVE  ~Half(d.jobs[wk[v].job])
  <2>1. wk[v].job \in Jobs BY <1>6 DEF Shapes
  <2>2. ~Half(store.jobs[wk[v].job]) BY <1>6 DEF Orderly, NotHalf
  <2>3. CASE Window BY <1>3, <1>6, <2>1, <2>2, <2>3 DEF Orderly, NotHalf
  <2>4. CASE ~Window
    <3>1. mem.jobs[wk[v].job].ts <= store.jobs[wk[v].job].ts
      BY <1>6, <2>1, <2>4 DEF Orderly, Settled
    <3>2. d.jobs[wk[v].job] = store.jobs[wk[v].job]
      BY <1>1, <2>1, <3>1, RecsFacts, MergeSame DEF StampInv
    <3>3. QED BY <2>2, <3>2
  <2>5. QED BY <2>3, <2>4
<1>7. QED BY <1>2, <1>3, <1>4, <1>5, <1>6

LEMMA ReconcileLandedStep ==
  ASSUME Backend = "postgres", Shapes, Shapes', StampInv, TurnInv, NEW h \in Handlers,
         ReconcileLanded(h)
  PROVE  StampInv' /\ TurnInv'
<1>1. PICK op, kinds, d :
        op = hs[h].op /\ kinds = hs[h].left /\ d = MergeSnapshot(store, mem)
  OBVIOUS
<1>2. /\ hs[h].pc = "reconciling" /\ Serve(h, op, d, kinds)
      /\ attached' = attached \cup {h}
      /\ store' = d /\ mixed' = mixed
  BY <1>1, Flushes DEF ReconcileLanded
<1>3. /\ d \in Snapshot /\ Of(d, NoJob, Absent)
      /\ \A j \in Jobs : store.jobs[j].ts <= d.jobs[j].ts /\ Top(j) <= d.jobs[j].ts
      /\ Orderly => \A v \in Pids :
              wk[v].pc \in {"boot", "claimed"} => ~Half(d.jobs[wk[v].job])
  BY <1>1, MemLands
<1>4. Busy(h) BY <1>2 DEF Busy
<1>5. Finds(h, d) BY <1>2, <1>3, <1>4 DEF Finds
<1>6. QED BY <1>2, <1>5, ServeStep

(* The write that inserted a job lands, and h writes d with record n of    *)
(* its job x, or as it is when the job object is not part of it any more.  *)
LEMMA InsertedFacts ==
  ASSUME Backend = "postgres", Shapes, Shapes', StampInv, NEW h \in Handlers,
         NEW x, x = hs[h].job, hs[h].pc = "inserting",
         NEW d, d = MergeSnapshot(store, mem), store' = d,
         NEW n \in Record, n.ts = clock + 1, Tick,
         wk' = wk \/ SpawnWorker(x),
         StartWrite(h, hs[h].op, "claiming", x, {},
                    IF h \in attached THEN SetJob(d, x, n) ELSE d)
  PROVE  /\ x \in Jobs /\ StampInv' /\ Window' /\ Settled'
         /\ Orderly =>
              /\ Dated(x, n) /\ Brings(x, n)
              /\ OneBusy' /\ Holds' /\ Unborn'
              /\ \A v \in Pids : wk[v].job # x
              /\ \A j \in Jobs : store'.jobs[j] = d.jobs[j] /\ Top(j) <= d.jobs[j].ts
              /\ mem'.jobs[x] = n /\ \A j \in Jobs : j # x => mem'.jobs[j] = d.jobs[j]
              /\ \A v \in Pids :
                   wk[v].pc \in {"boot", "claimed"} => ~Half(d.jobs[wk[v].job])
<1>1. x \in Jobs BY DEF Shapes
<1>2. /\ d \in Snapshot /\ \A i, r : Of(d, i, r)
      /\ \A j \in Jobs : store.jobs[j].ts <= d.jobs[j].ts /\ Top(j) <= d.jobs[j].ts
      /\ Orderly => \A v \in Pids :
              wk[v].pc \in {"boot", "claimed"} => ~Half(d.jobs[wk[v].job])
  BY MemLands
<1>3. /\ mem' = IF h \in attached THEN SetJob(d, x, n) ELSE d
      /\ hs'[h].pc = "claiming" /\ hs'[h].snap = EmptySnapshot
      /\ \A g \in Handlers : g # h => hs'[g] = hs[g]
  <2>1. PICK op, data : op = hs[h].op /\ data = IF h \in attached THEN SetJob(d, x, n) ELSE d
    OBVIOUS
  <2>2. StartWrite(h, op, "claiming", x, {}, data) BY <2>1
  <2>3. QED BY <2>1, <2>2, StartWriteFacts
<1>4. Window' /\ Settled' BY <1>3 DEF Window, Settled
<1>5. \A i, r : \A g \in Handlers : Of(hs'[g].snap, i, r) BY <1>3, OfFacts
<1>6. CASE h \in attached
  <2>1. /\ mem'.jobs[x] = n /\ \A j \in Jobs : j # x => mem'.jobs[j] = d.jobs[j]
    BY <1>1, <1>2, <1>3, <1>6, SetJobFacts
  <2>2. Of(mem', x, n) BY <1>1, <1>2, <1>3, <1>6, SetJobOf
  <2>3. Dated(x, n) BY Ticks DEF Dated, Shapes
  <2>4. Brings(x, n) /\ StampInv' BY <1>1, <1>2, <1>5, <2>2, <2>3, ServerStamps
  <2>5. ASSUME Orderly
        PROVE  /\ OneBusy' /\ Holds' /\ Unborn' /\ \A v \in Pids : wk[v].job # x
    <3>1. Busy(h) BY DEF Busy
    <3>2. OneBusy' /\ Holds' /\ Unborn' BY <1>3, <2>5, <3>1, Alone
    <3>3. QED BY <2>5, <3>2 DEF Orderly, Unborn
  <2>6. QED BY <1>1, <1>2, <1>4, <2>1, <2>3, <2>4, <2>5
<1>7. CASE h \notin attached
  <2>1. Dated(NoJob, Absent) BY ConstFacts, Ticks DEF Dated, Shapes
  <2>2. Of(mem', NoJob, Absent) /\ Of(store', NoJob, Absent) BY <1>2, <1>3, <1>7
  <2>3. StampInv' BY <1>1, <1>2, <1>5, <2>1, <2>2, ServerStamps
  <2>4. ~Orderly BY <1>7 DEF Orderly, Holds
  <2>5. QED BY <1>1, <1>4, <2>3, <2>4
<1>8. QED BY <1>6, <1>7

LEMMA InsertLandedStep ==
  ASSUME Backend = "postgres", Shapes, Shapes', StampInv, TurnInv, NEW h \in Handlers,
         InsertLanded(h)
  PROVE  StampInv' /\ TurnInv'
<1>1. PICK x, d : x = hs[h].job /\ d = MergeSnapshot(store, mem) OBVIOUS
<1>2. PICK n : n = Claimed(d.jobs[x], spawned + 1) OBVIOUS
<1>3. /\ hs[h].pc = "inserting" /\ store' = d /\ SpawnWorker(x) /\ Tick
      /\ mixed' = mixed
      /\ StartWrite(h, hs[h].op, "claiming", x, {},
                    IF h \in attached THEN SetJob(d, x, n) ELSE d)
  BY <1>1, <1>2, Flushes DEF InsertLanded
<1>4. x \in Jobs /\ d \in Snapshot /\ d.jobs[x] \in {store.jobs[x], mem.jobs[x]}
  BY <1>1, <1>3, MemLands DEF Shapes
<1>5. d.jobs[x] \in Record BY <1>4 DEF Snapshot
<1>6. n \in Record /\ n.ts = clock + 1 /\ n.status = "running" /\ n.worker = spawned + 1
  <2>1. Now = clock + 1 /\ clock + 1 \in Nat BY Ticks DEF Shapes
  <2>2. spawned + 1 \in 0..MaxPids BY <1>3, SpawnFacts
  <2>3. QED BY <1>2, <1>5, <2>1, <2>2 DEF Claimed, Record
<1>7. /\ StampInv' /\ Window' /\ Settled'
      /\ Orderly =>
           /\ Dated(x, n) /\ Brings(x, n)
           /\ OneBusy' /\ Holds' /\ Unborn'
           /\ \A v \in Pids : wk[v].job # x
           /\ \A j \in Jobs : store'.jobs[j] = d.jobs[j] /\ Top(j) <= d.jobs[j].ts
           /\ mem'.jobs[x] = n /\ \A j \in Jobs : j # x => mem'.jobs[j] = d.jobs[j]
           /\ \A v \in Pids :
                wk[v].pc \in {"boot", "claimed"} => ~Half(d.jobs[wk[v].job])
  BY <1>1, <1>3, <1>6, InsertedFacts
<1>8. ASSUME ~mixed' PROVE Orderly'
  <2>1. Orderly BY <1>3, <1>8 DEF TurnInv
  <2>2. Of(d, NoJob, Absent) BY <1>1, MemLands
  <2>3. (\A j \in Jobs : Top(j) <= Top(j)') /\ Top(x)' = n.ts
    BY <1>4, <1>6, <1>7, <2>1, <2>2, WritesTop
  <2>4. ~Half(d.jobs[x])
    <3>1. ~(d.jobs[x].evald > 0)
      BY <1>4, <1>7, <2>1 DEF Shapes
    <3>2. QED BY <1>5, <3>1, BoundsAssumption DEF Half, Record
  <2>5. ~Half(store'.jobs[x]) /\ ~Half(mem'.jobs[x])
    BY <1>3, <1>6, <1>7, <2>1, <2>4 DEF Half
  <2>6. ASSUME NEW v \in Pids, wk[v].pc \in {"boot", "claimed"}, wk[v].job # x
        PROVE  /\ ~Half(store'.jobs[wk[v].job])
               /\ Window' => ~Half(mem'.jobs[wk[v].job])
    <3>1. wk[v].job \in Jobs BY <2>6 DEF Shapes
    <3>2. QED BY <1>3, <1>7, <2>1, <2>6, <3>1
  <2>7. QED BY <1>3, <1>4, <1>6, <1>7, <2>1, <2>3, <2>5, <2>6, ServerSpawns
<1>9. QED BY <1>7, <1>8 DEF TurnInv

LEMMA SpawnThrowsStep ==
  ASSUME Backend = "postgres", Shapes, Shapes', StampInv, TurnInv, NEW h \in Handlers,
         SpawnThrows(h)
  PROVE  StampInv' /\ TurnInv'
<1>1. PICK x, d : x = hs[h].job /\ d = MergeSnapshot(store, mem) OBVIOUS
<1>2. PICK n : n = Failed(d.jobs[x]) OBVIOUS
<1>3. /\ hs[h].pc = "inserting" /\ store' = d /\ wk' = wk /\ Tick
      /\ mixed' = mixed
      /\ StartWrite(h, hs[h].op, "claiming", x, {},
                    IF h \in attached THEN SetJob(d, x, n) ELSE d)
  BY <1>1, <1>2, Flushes DEF SpawnThrows
<1>4. x \in Jobs /\ d \in Snapshot BY <1>1, <1>3, MemLands DEF Shapes
<1>5. d.jobs[x] \in Record BY <1>4 DEF Snapshot
<1>6. n \in Record /\ n.ts = clock + 1 /\ n.status = "failed"
  <2>1. Now = clock + 1 /\ clock + 1 \in Nat BY Ticks DEF Shapes
  <2>2. QED BY <1>2, <1>5, <2>1 DEF Failed, Record
<1>7. /\ StampInv' /\ Window' /\ Settled'
      /\ Orderly =>
           /\ Dated(x, n) /\ Brings(x, n)
           /\ OneBusy' /\ Holds' /\ Unborn'
           /\ \A v \in Pids : wk[v].job # x
           /\ \A j \in Jobs : store'.jobs[j] = d.jobs[j] /\ Top(j) <= d.jobs[j].ts
           /\ mem'.jobs[x] = n /\ \A j \in Jobs : j # x => mem'.jobs[j] = d.jobs[j]
           /\ \A v \in Pids :
                wk[v].pc \in {"boot", "claimed"} => ~Half(d.jobs[wk[v].job])
  BY <1>1, <1>3, <1>6, InsertedFacts
<1>8. ASSUME ~mixed' PROVE Orderly'
  <2>1. Orderly BY <1>3, <1>8 DEF TurnInv
  <2>2. Of(d, NoJob, Absent) BY <1>1, MemLands
  <2>3. \A j \in Jobs : Top(j) <= Top(j)'
    BY <1>4, <1>6, <1>7, <2>1, <2>2, WritesTop
  <2>4. Names(x, n) BY <1>6 DEF Names
  <2>5. NotHalf'
    <3> SUFFICES ASSUME NEW v \in Pids, wk[v].pc \in {"boot", "claimed"}
                 PROVE  ~Half(store'.jobs[wk[v].job]) /\ ~Half(mem'.jobs[wk[v].job])
      BY <1>3 DEF NotHalf, Half
    <3>1. wk[v].job \in Jobs /\ wk[v].job # x BY <1>7, <2>1 DEF Shapes
    <3>2. QED BY <1>3, <1>7, <2>1, <3>1
  <2>6. QED BY <1>3, <1>7, <2>1, <2>3, <2>4, <2>5, ServerSame
<1>9. QED BY <1>7, <1>8 DEF TurnInv

(* A step of the server that brings no record and spawns nothing.          *)
LEMMA ServerKeeps ==
  ASSUME Shapes, Shapes', StampInv, TurnInv, wk' = wk, clock' = clock,
         Of(store', NoJob, Absent), Of(mem', NoJob, Absent),
         \A h \in Handlers : Of(hs'[h].snap, NoJob, Absent),
         \A j \in Jobs : store.jobs[j].ts <= store'.jobs[j].ts,
         ~mixed' => ~mixed,
         ~mixed' /\ Orderly => /\ \A j \in Jobs : Top(j) <= Top(j)'
                               /\ OneBusy' /\ Holds' /\ Unborn' /\ Settled' /\ NotHalf'
  PROVE  StampInv' /\ TurnInv'
<1>1. Dated(NoJob, Absent) /\ NoJob \notin Jobs BY ConstFacts DEF Dated, Shapes
<1>2. store' \in Snapshot BY DEF Shapes
<1>3. Brings(NoJob, Absent) /\ StampInv' BY <1>1, <1>2, ServerStamps
<1>4. ASSUME ~mixed' PROVE Orderly'
  <2>1. Orderly BY <1>4 DEF TurnInv
  <2>2. QED BY <1>1, <1>3, <1>4, <2>1, ServerSame
<1>5. QED BY <1>3, <1>4 DEF TurnInv

LEMMA SameTop ==
  ASSUME Shapes, NEW j \in Jobs, Window' <=> Window,
         store' = store, mem'.jobs = mem.jobs
  PROVE  Top(j) <= Top(j)'
BY StampFacts DEF Top

LEMMA BeginStep ==
  ASSUME Backend = "postgres", Shapes, Shapes', StampInv, TurnInv, NEW h \in Handlers,
         NEW op, NEW kinds, Begin(h, op, kinds)
  PROVE  StampInv' /\ TurnInv'
<1> DEFINE H == [IdleHandler EXCEPT !.pc = "reloading", !.op = op,
                                    !.left = kinds, !.snap = store]
<1>1. /\ hs[h].pc = "idle" /\ hs' = [hs EXCEPT ![h] = H]
      /\ mixed' = (mixed \/ \E g \in Handlers : Busy(g))
      /\ store' = store /\ mem' = mem /\ wk' = wk /\ clock' = clock
  BY DEF Begin
<1>2. H.pc = "reloading" /\ H.snap = store BY DEF IdleHandler
<1>3. /\ hs'[h].pc = "reloading" /\ hs'[h].snap = store
      /\ \A g \in Handlers : g # h => hs'[g] = hs[g]
  BY <1>1, <1>2 DEF Shapes
<1>4. /\ Of(store', NoJob, Absent) /\ Of(mem', NoJob, Absent)
      /\ \A g \in Handlers : Of(hs'[g].snap, NoJob, Absent)
  BY <1>1, <1>3, OfFacts
<1>5. \A j \in Jobs : store.jobs[j].ts <= store'.jobs[j].ts BY <1>1, StampFacts
<1>6. Window' <=> Window BY <1>1, <1>3 DEF Window
<1>7. ASSUME ~mixed', Orderly
      PROVE  /\ \A j \in Jobs : Top(j) <= Top(j)'
             /\ OneBusy' /\ Holds' /\ Unborn' /\ Settled' /\ NotHalf'
  <2>1. \A g \in Handlers : g # h => hs'[g].pc \in {"idle", "writing"}
    BY <1>1, <1>3, <1>7 DEF Busy
  <2>2. OneBusy' /\ Holds' /\ Unborn'
    BY <1>3, <2>1 DEF OneBusy, Busy, Holds, Unborn
  <2>3. Settled' BY <1>1, <1>6, <1>7 DEF Orderly, Settled
  <2>4. NotHalf' BY <1>1, <1>6, <1>7 DEF Orderly, NotHalf, Half
  <2>5. \A j \in Jobs : Top(j) <= Top(j)' BY <1>1, <1>6, SameTop
  <2>6. QED BY <2>2, <2>3, <2>4, <2>5
<1>8. QED BY <1>1, <1>4, <1>5, <1>7, ServerKeeps

LEMMA LiveUpdateStep ==
  ASSUME Backend = "postgres", Shapes, Shapes', StampInv, TurnInv, NEW h \in Handlers,
         LiveUpdate(h)
  PROVE  StampInv' /\ TurnInv'
<1>1. PICK d : d = [mem EXCEPT !.live = @ + 1] OBVIOUS
<1>2. /\ hs[h].pc = "idle" /\ StartWrite(h, "poll", "writing", NoJob, {}, d)
      /\ store' = store /\ wk' = wk /\ clock' = clock
      /\ attached' = attached /\ mixed' = mixed
  BY <1>1 DEF LiveUpdate
<1>3. d.jobs = mem.jobs BY <1>1 DEF Shapes, Snapshot
<1>4. /\ mem' = d /\ hs'[h].pc = "writing" /\ hs'[h].snap = EmptySnapshot
      /\ \A g \in Handlers : g # h => hs'[g] = hs[g]
  BY <1>2, StartWriteFacts
<1>5. /\ Of(store', NoJob, Absent) /\ Of(mem', NoJob, Absent)
      /\ \A g \in Handlers : Of(hs'[g].snap, NoJob, Absent)
  <2>1. Of(mem, NoJob, Absent) BY OfFacts
  <2>2. Of(d, NoJob, Absent) BY <1>3, <2>1 DEF Of
  <2>3. QED BY <1>2, <1>4, <2>2, OfFacts
<1>6. \A j \in Jobs : store.jobs[j].ts <= store'.jobs[j].ts BY <1>2, StampFacts
<1>7. Window' <=> Window BY <1>2, <1>4 DEF Window
<1>8. ASSUME ~mixed', Orderly
      PROVE  /\ \A j \in Jobs : Top(j) <= Top(j)'
             /\ OneBusy' /\ Holds' /\ Unborn' /\ Settled' /\ NotHalf'
  <2>1. OneBusy' BY <1>2, <1>4, <1>8 DEF Orderly, OneBusy, Busy
  <2>2. Holds' BY <1>2, <1>4, <1>8 DEF Orderly, Holds
  <2>3. Unborn' BY <1>2, <1>4, <1>8 DEF Orderly, Unborn
  <2>4. Settled' BY <1>2, <1>3, <1>4, <1>7, <1>8 DEF Orderly, Settled
  <2>5. NotHalf' BY <1>2, <1>3, <1>4, <1>7, <1>8 DEF Orderly, NotHalf, Half
  <2>6. \A j \in Jobs : Top(j) <= Top(j)' BY <1>2, <1>3, <1>4, <1>7, SameTop
  <2>7. QED BY <2>1, <2>2, <2>3, <2>4, <2>5, <2>6
<1>9. QED BY <1>2, <1>5, <1>6, <1>8, ServerKeeps

LEMMA WriteLandedStep ==
  ASSUME Backend = "postgres", Shapes, Shapes', StampInv, TurnInv, NEW h \in Handlers,
         WriteLanded(h)
  PROVE  StampInv' /\ TurnInv'
<1>1. PICK d : d = MergeSnapshot(store, mem) OBVIOUS
<1>2. /\ store' = d /\ mem' = d /\ hs' = [hs EXCEPT ![h] = IdleHandler]
      /\ wk' = wk /\ clock' = clock /\ attached' = attached /\ mixed' = mixed
  BY <1>1, Flushes DEF WriteLanded
<1>3. /\ hs'[h].pc = "idle" /\ hs'[h].snap = EmptySnapshot
      /\ \A g \in Handlers : g # h => hs'[g] = hs[g]
  BY <1>2, IdleGood DEF Shapes
<1>4. /\ d \in Snapshot /\ \A i, n : Of(d, i, n)
      /\ \A j \in Jobs : store.jobs[j].ts <= d.jobs[j].ts /\ Top(j) <= d.jobs[j].ts
      /\ Orderly => \A v \in Pids :
              wk[v].pc \in {"boot", "claimed"} => ~Half(d.jobs[wk[v].job])
  BY <1>1, MemLands
<1>5. /\ Of(store', NoJob, Absent) /\ Of(mem', NoJob, Absent)
      /\ \A g \in Handlers : Of(hs'[g].snap, NoJob, Absent)
  BY <1>2, <1>3, <1>4, OfFacts
<1>6. \A j \in Jobs : store.jobs[j].ts <= store'.jobs[j].ts BY <1>2, <1>4
<1>7. ASSUME ~mixed', Orderly
      PROVE  /\ \A j \in Jobs : Top(j) <= Top(j)'
             /\ OneBusy' /\ Holds' /\ Unborn' /\ Settled' /\ NotHalf'
  <2>1. OneBusy' BY <1>3, <1>7 DEF Orderly, OneBusy, Busy
  <2>2. Holds' BY <1>2, <1>3, <1>7 DEF Orderly, Holds
  <2>3. Unborn' BY <1>2, <1>3, <1>7 DEF Orderly, Unborn
  <2>4. Settled' BY <1>2, StampFactsNext DEF Settled
  <2>5. NotHalf' BY <1>2, <1>4, <1>7 DEF NotHalf, Half
  <2>6. \A j \in Jobs : Top(j) <= Top(j)' BY <1>2, <1>4 DEF Top
  <2>7. QED BY <2>1, <2>2, <2>3, <2>4, <2>5, <2>6
<1>8. QED BY <1>2, <1>5, <1>6, <1>7, ServerKeeps

LEMMA RestartStep ==
  ASSUME Backend = "postgres", Shapes, Shapes', StampInv, TurnInv, ServerRestart
  PROVE  StampInv' /\ TurnInv'
<1>1. /\ store' = store /\ mem' = store /\ wk' = wk /\ clock' = clock
      /\ hs' = [h \in Handlers |-> IdleHandler]
      /\ mixed' = (mixed \/ \E h \in Handlers : Busy(h))
  BY DEF ServerRestart
<1>2. \A h \in Handlers : hs'[h].pc = "idle" /\ hs'[h].snap = EmptySnapshot
  BY <1>1, IdleGood
<1>3. /\ Of(store', NoJob, Absent) /\ Of(mem', NoJob, Absent)
      /\ \A h \in Handlers : Of(hs'[h].snap, NoJob, Absent)
  BY <1>1, <1>2, OfFacts
<1>4. \A j \in Jobs : store.jobs[j].ts <= store'.jobs[j].ts BY <1>1, StampFacts
<1>5. ASSUME ~mixed', Orderly
      PROVE  /\ \A j \in Jobs : Top(j) <= Top(j)'
             /\ OneBusy' /\ Holds' /\ Unborn' /\ Settled' /\ NotHalf'
  <2>1. ~Window BY <1>1, <1>5 DEF Window, Busy
  <2>2. \A j \in Jobs : Top(j) <= Top(j)' BY <1>1, <2>1, StampFacts DEF Top
  <2>3. OneBusy' /\ Holds' /\ Unborn' BY <1>2 DEF OneBusy, Busy, Holds, Unborn
  <2>4. Settled' BY <1>1, StampFactsNext DEF Settled
  <2>5. NotHalf' BY <1>1, <1>5 DEF Orderly, NotHalf, Half
  <2>6. QED BY <2>2, <2>3, <2>4, <2>5
<1>6. QED BY <1>1, <1>3, <1>4, <1>5, ServerKeeps

-----------------------------------------------------------------------------
(* The inductive invariant of the postgres backend, and what follows.      *)
RowInv == Inv /\ (Backend = "postgres" => StampInv /\ TurnInv)

LEMMA RowInit == Init => RowInv
<1> SUFFICES ASSUME Init PROVE StampInv /\ TurnInv BY InvInit DEF RowInv
<1>1. /\ store = EmptySnapshot /\ mem = EmptySnapshot /\ clock = 0
      /\ \A h \in Handlers : hs[h] = IdleHandler
      /\ \A w \in Pids : wk[w] = UnusedWorker
  BY DEF Init
<1>2. \A h \in Handlers : hs[h].snap = EmptySnapshot /\ hs[h].pc = "idle"
  BY <1>1, IdleGood
<1>3. \A w \in Pids : /\ wk[w].mem = EmptySnapshot /\ wk[w].opt = Absent
                      /\ wk[w].pc = "unused"
  BY <1>1 DEF UnusedWorker
<1>4. \A j \in Jobs : EmptySnapshot.jobs[j] = Absent BY ConstFacts
<1>5. \A j \in Jobs : \A r \in Recs(j) : r = Absent
  BY <1>1, <1>2, <1>3, <1>4 DEF Recs
<1>6. Absent \in Record /\ Absent.ts = 0 BY ConstFacts DEF Absent
<1>7. Stamped BY <1>1, <1>5, <1>6 DEF Stamped
<1>8. Foreign BY <1>1, <1>3, <1>4, <1>6 DEF Foreign
<1>9. \A v \in Pids : ~Live(v) BY <1>3 DEF Live
<1>10. OneBusy /\ Holds /\ Unborn BY <1>2 DEF OneBusy, Busy, Holds, Unborn
<1>11. OneLive /\ TopNames BY <1>9 DEF OneLive, TopNames, Names
<1>12. Settled BY <1>1, <1>4, <1>6 DEF Settled
<1>13. NotHalf /\ ReadyWhole /\ OwnObject
  BY <1>3 DEF NotHalf, ReadyWhole, OwnObject, Executing
<1>14. QED BY <1>7, <1>8, <1>10, <1>11, <1>12, <1>13
            DEF StampInv, TurnInv, Orderly

LEMMA RowStutter ==
  ASSUME StampInv, TurnInv, UNCHANGED vars
  PROVE  StampInv' /\ TurnInv'
<1> USE DEF vars
<1>1. \A j \in Jobs : Recs(j)' = Recs(j) BY DEF Recs
<1>2. StampInv' BY <1>1 DEF StampInv, Stamped, Foreign
<1>3. Window' <=> Window BY DEF Window
<1>4. \A j \in Jobs : Top(j)' = Top(j) BY <1>3 DEF Top
<1>5. \A j, r : Names(j, r)' <=> Names(j, r) BY DEF Names, Live
<1>6. ASSUME Orderly PROVE Orderly'
  <2>1. OneBusy' /\ Holds' BY <1>6 DEF Orderly, OneBusy, Busy, Holds
  <2>2. OneLive' BY <1>6 DEF Orderly, OneLive, Live
  <2>3. TopNames' BY <1>1, <1>4, <1>5, <1>6 DEF Orderly, TopNames
  <2>4. Unborn' BY <1>6 DEF Orderly, Unborn
  <2>5. Settled' BY <1>3, <1>6 DEF Orderly, Settled
  <2>6. NotHalf' BY <1>3, <1>6 DEF Orderly, NotHalf, Half
  <2>7. ReadyWhole' /\ OwnObject'
    BY <1>6 DEF Orderly, ReadyWhole, OwnObject, WorkerJob, Executing, Half
  <2>8. QED BY <2>1, <2>2, <2>3, <2>4, <2>5, <2>6, <2>7 DEF Orderly
<1>7. QED BY <1>2, <1>6 DEF TurnInv

LEMMA RowNext == RowInv /\ [Next]_vars => RowInv'
<1> SUFFICES ASSUME RowInv, [Next]_vars PROVE RowInv' OBVIOUS
<1>1. Inv /\ Inv' BY InvNext DEF RowInv
<1>2. Shapes /\ Shapes' BY <1>1, ShapesHold, ShapesNext
<1>3. ASSUME Backend = "postgres" PROVE StampInv' /\ TurnInv'
  <2>1. StampInv /\ TurnInv BY <1>3 DEF RowInv
  <2>2. ASSUME NEW h \in Handlers, ServerStep(h) PROVE StampInv' /\ TurnInv'
    BY <1>2, <1>3, <2>1, <2>2, BeginStep, ReloadedStep, ReconcileLandedStep,
       InsertLandedStep, SpawnThrowsStep, WriteLandedStep, LiveUpdateStep
       DEF ServerStep
  <2>3. ASSUME NEW w \in Pids, WorkerProgress(w) \/ WorkerCrash(w)
        PROVE  StampInv' /\ TurnInv'
    BY <1>2, <1>3, <2>1, <2>3, WorkerProgressStep
  <2>4. CASE ServerRestart BY <1>2, <1>3, <2>1, <2>4, RestartStep
  <2>5. CASE UNCHANGED vars BY <2>1, <2>5, RowStutter
  <2>6. QED BY <2>2, <2>3, <2>4, <2>5 DEF Next
<1>4. QED BY <1>1, <1>3 DEF RowInv

LEMMA RowSingle == RowInv => SingleExecutor
<1> SUFFICES ASSUME RowInv, Backend = "postgres", ~mixed,
                    NEW v \in Pids, NEW w \in Pids,
                    Executing(v), Executing(w), wk[v].job = wk[w].job
             PROVE  v = w
  BY DEF SingleExecutor
<1>1. OneLive BY DEF RowInv, TurnInv, Orderly
<1>2. Live(v) /\ Live(w) BY DEF Executing, Live
<1>3. QED BY <1>1, <1>2 DEF OneLive

(* What a worker writes of other jobs is what the row says already.        *)
LEMMA RowMinds ==
  ASSUME RowInv, Backend = "postgres", NEW w \in Pids, WorkerProgress(w),
         NEW j \in Jobs \ {wk[w].job}
  PROVE  store'.jobs[j] = store.jobs[j]
<1>1. StampInv /\ Shapes BY ShapesHold DEF RowInv
<1>2. \/ store' = store
      \/ store' = MergeSnapshot(store, wk[w].mem)
  BY Flushes DEF WorkerProgress, WorkerLoad, WorkerClaim, WorkerStart, WorkerRefuses,
     WorkerCandlesLoaded, WorkerFails, WorkerEvaluate, WorkerFinish, WorkerWritten,
     WorkerCatch, WorkerCatchWrite
<1>3. wk[w].mem.jobs[j].ts <= store.jobs[j].ts BY <1>1 DEF StampInv, Foreign
<1>4. store \in Snapshot /\ wk[w].mem \in Snapshot BY <1>1 DEF Shapes
<1>5. MergeSnapshot(store, wk[w].mem).jobs[j] = store.jobs[j]
  BY <1>1, <1>3, <1>4, RecsFacts, MergeSame DEF StampInv
<1>6. QED BY <1>2, <1>5

(* At most one live process executes a job, as long as requests take their *)
(* turns (executeOptimization, reconcileComputeJob).                       *)
THEOREM SingleCorrect == Spec => []SingleExecutor
<1>1. QED BY RowInit, RowNext, RowSingle, PTL DEF Spec

(* No write of a worker changes the record of a job that is not its own    *)
(* (mergeById, computeJobProcess).                                         *)
THEOREM WorkersMindCorrect == Spec => WorkersMindTheirJob
<1>1. RowInv /\ [Next]_vars =>
        [Backend = "postgres" =>
           \A w \in Pids : WorkerProgress(w) =>
             \A j \in Jobs \ {wk[w].job} : store'.jobs[j] = store.jobs[j]]_vars
  BY RowMinds
<1>2. QED BY RowInit, RowNext, <1>1, PTL DEF Spec, WorkersMindTheirJob
=============================================================================
