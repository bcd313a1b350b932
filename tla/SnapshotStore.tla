---------------------------- MODULE SnapshotStore ----------------------------
(***************************************************************************)
(* The stores behind db.data, db.write() and db.reload(): PostgresStore,   *)
(* and DualWriteStore, which writes to LowdbStore and then to a Postgres   *)
(* shadow (core/persistence).  Every process has a store of its own with a *)
(* whole snapshot in memory; the row, the row lock and the file are shared.*)
(* Flushes of one process may overlap, and nothing in the stores           *)
(* serialises them but the row lock.                                       *)
(*                                                                         *)
(* A snapshot has records, which are merged by id, and the rest, which is  *)
(* written as it is (live).  Both are reduced to the time of their last    *)
(* change; 0 is a record that is not there.                                *)
(***************************************************************************)
EXTENDS Naturals, FiniteSets

CONSTANTS
  Backends,     (* those to check: "postgres", and "dual": lowdb with a     *)
                (* Postgres shadow                                          *)
  Procs,        (* the server and its workers                               *)
  Overlap,      (* how many flushes of each process can be under way, per   *)
                (* backend; a process that has none does not run            *)
  Ids, Trials,  (* records; those that ensureDbShape prunes                 *)
  Pinned,       (* trials that a champion, experiment or optimization names *)
  TrialLimit,   (* EXPERIMENT_TRIAL_HISTORY_LIMIT                           *)
  MaxClock,     (* bound: changes                                           *)
  MaxFaults,    (* bound: failed calls and crashes                          *)
  MaxEvents,    (* bound, per backend: changes and faults together          *)
  None

ASSUME StoreAssumption ==
  /\ Backends \subseteq {"postgres", "dual"}
  /\ Overlap \in [Backends -> [Procs -> Nat]]
  /\ Ids \subseteq Nat /\ IsFiniteSet(Ids)
  /\ Trials \subseteq Ids /\ Pinned \subseteq Trials
  /\ TrialLimit \in Nat
  /\ MaxClock \in Nat /\ MaxFaults \in Nat /\ MaxEvents \in [Backends -> Nat]
  /\ None \notin Procs \X Nat

Flushes  == Procs \X {1, 2}
Kept     == Ids \ (Trials \ Pinned)
Records  == [Ids -> Nat]
Snapshot == [recs: Records, live: Nat]
Empty    == [recs |-> [i \in Ids |-> 0], live |-> 0]

VARIABLES
  backend, (* PERSISTENCE_BACKEND and PERSISTENCE_DUAL_WRITE at start       *)
  row,     (* state_snapshot: the committed snapshot                        *)
  lock,    (* the flush that holds the row, or None                         *)
  data,    (* this.data of each process's PostgresStore                     *)
  prim,    (* dual: db.data of its LowdbStore                               *)
  file,    (* dual: db.json                                                 *)
  fl,      (* the flushes: where they are, what they write, what they were  *)
           (* asked to store, those whose text the file takes before, and   *)
           (* whether a reload replaced what they were to write             *)
  rl,      (* reload() under way: what it has read                          *)
  mixed,   (* dual, ghost: a reload landed while a flush was under way      *)
  gone,    (* ghost: the records that some handler has taken out            *)
  clock, faults

vars == <<backend, row, lock, data, prim, file, fl, rl, mixed, gone, clock, faults>>

NoFlush  == [pc |-> "idle", text |-> Empty, asked |-> [i \in Ids |-> 0],
             after |-> {}, mem |-> "same"]
NoReload == [pc |-> "idle", read |-> Empty]

Init ==
  /\ backend \in Backends
  /\ row = Empty
  /\ lock = None
  /\ data = [p \in Procs |-> Empty] /\ prim = data
  /\ file = Empty
  /\ fl = [f \in Flushes |-> NoFlush]
  /\ rl = [p \in Procs |-> NoReload]
  /\ mixed = FALSE /\ gone = {}
  /\ clock = 0 /\ faults = 0

Bounded == clock + faults < MaxEvents[backend]
Fault == Bounded /\ faults < MaxFaults /\ faults' = faults + 1

-----------------------------------------------------------------------------
(* Merge and shape                                                         *)

(* Mutant: a record that the row does not have is not added.               *)
MergeByIdKnown(current, local) ==
  [i \in Ids |-> IF current[i] > 0 /\ local[i] >= current[i] THEN local[i] ELSE current[i]]

(* mergeById: the local record wins a tie.                                 *)
MergeById(current, local) ==
  [i \in Ids |-> IF local[i] >= current[i] THEN local[i] ELSE current[i]]

(* The trials ensureDbShape drops: beyond the limit only the newest stay,  *)
(* and those that are pinned, which count.                                 *)
Newer(r, u, t) == r[u] > r[t] \/ (r[u] = r[t] /\ u < t)
Dropped(r) ==
  LET there == {t \in Trials : r[t] > 0}
  IN  IF Cardinality(there) <= TrialLimit THEN {}
      ELSE {t \in there \ Pinned :
              Cardinality(Pinned \cup {u \in there : Newer(r, u, t)}) >= TrialLimit}
Pruned(r) == [i \in Ids |-> IF i \in Dropped(r) THEN 0 ELSE r[i]]
Shaped(s) == [recs |-> Pruned(s.recs), live |-> s.live]

(* mergeSnapshotCollections: what is not merged is the local one.          *)
MergeSnapshots(current, local) ==
  Shaped([recs |-> MergeById(Shaped(current).recs, local.recs), live |-> local.live])

-----------------------------------------------------------------------------
(* The handlers of a process change what getData() returns.                *)

Data(p) == IF backend = "dual" THEN prim[p] ELSE data[p]
SetData(p, s) ==
  IF backend = "dual" THEN prim' = [prim EXCEPT ![p] = s] /\ UNCHANGED data
                      ELSE data' = [data EXCEPT ![p] = s] /\ UNCHANGED prim

(* A process of this deployment. *)
Running(p) == Overlap[backend][p] > 0

Change(p) ==
  /\ Running(p)
  /\ Bounded /\ clock < MaxClock
  /\ clock' = clock + 1
  /\ \/ \E i \in Ids : SetData(p, [Data(p) EXCEPT !.recs[i] = clock'])
     \/ SetData(p, [Data(p) EXCEPT !.live = clock'])
  /\ UNCHANGED <<backend, row, lock, file, fl, rl, mixed, gone, faults>>

(* A record is taken out.                                                  *)
Remove(p, i) ==
  /\ Data(p).recs[i] > 0
  /\ SetData(p, [Data(p) EXCEPT !.recs[i] = 0])
  /\ gone' = gone \cup {i}
  /\ UNCHANGED <<backend, row, lock, file, fl, rl, mixed, clock, faults>>

-----------------------------------------------------------------------------
(* flush()                                                                 *)

(* The lowdb adapter writes the text of the moment of the call, one after  *)
(* the other; a reload makes a new adapter, which waits for none before.   *)
Writing(p) == {g \in Flushes : g[1] = p /\ fl[g].pc = "file" /\ fl[g].mem = "same"}
Free(f) == /\ fl[f].pc = "idle" /\ f[2] <= Overlap[backend][f[1]]
           /\ \A g \in Flushes : g[1] = f[1] /\ g[2] < f[2] => fl[g].pc # "idle"
FlushStart(f) ==
  /\ Free(f)
  /\ fl' = [fl EXCEPT ![f] = [NoFlush EXCEPT !.pc = IF backend = "dual" THEN "file" ELSE "select",
                                !.text = IF backend = "dual" THEN Data(f[1]) ELSE Empty,
                                !.asked = Data(f[1]).recs, !.after = Writing(f[1])]]
  /\ UNCHANGED <<backend, row, lock, data, prim, file, rl, mixed, gone, clock, faults>>

(* f goes on as r, and none waits for it any more. *)
Leaves(f, r) ==
  fl' = [g \in Flushes |-> IF g = f THEN r ELSE [fl[g] EXCEPT !.after = @ \ {f}]]

(* Mutant: the shadow is not brought up to date while another flush of the *)
(* process is using it.                                                    *)
FileWrittenSkipsBusy(f) ==
  /\ fl[f].pc = "file" /\ fl[f].after = {}
  /\ file' = fl[f].text
  /\ data' = IF \E g \in Flushes : g[1] = f[1] /\ fl[g].pc \in {"select", "insert"} THEN data
             ELSE [data EXCEPT ![f[1]] = prim[f[1]]]
  /\ Leaves(f, [fl[f] EXCEPT !.pc = "select", !.text = Empty])
  /\ UNCHANGED <<backend, row, lock, prim, rl, mixed, gone, clock, faults>>

(* DualWriteStore: once the file is written, the shadow's data becomes a   *)
(* copy of what the primary holds by now, and the shadow is flushed.       *)
FileWritten(f) ==
  /\ fl[f].pc = "file" /\ fl[f].after = {}
  /\ file' = fl[f].text
  /\ data' = [data EXCEPT ![f[1]] = prim[f[1]]]
  /\ Leaves(f, [fl[f] EXCEPT !.pc = "select", !.text = Empty])
  /\ UNCHANGED <<backend, row, lock, prim, rl, mixed, gone, clock, faults>>

(* Mutant: the row is read without FOR UPDATE. *)
SelectedUnlocked(f) ==
  LET s == MergeSnapshots(row, data[f[1]]) IN
  /\ fl[f].pc = "select"
  /\ data' = [data EXCEPT ![f[1]] = s]
  /\ fl' = [fl EXCEPT ![f].pc = "insert", ![f].text = s]
  /\ UNCHANGED <<backend, row, lock, prim, file, rl, mixed, gone, clock, faults>>

(* SELECT ... FOR UPDATE returns once no other transaction holds the row.  *)
(* The merge becomes the memory and, in the same step, the text of the     *)
(* INSERT.  (The row is there: before the very first flush there is none,  *)
(* and then FOR UPDATE holds nothing.)                                     *)
Selected(f) ==
  LET s == MergeSnapshots(row, data[f[1]]) IN
  /\ fl[f].pc = "select" /\ lock = None
  /\ lock' = f
  /\ data' = [data EXCEPT ![f[1]] = s]
  /\ fl' = [fl EXCEPT ![f].pc = "insert", ![f].text = s]
  /\ UNCHANGED <<backend, row, prim, file, rl, mixed, gone, clock, faults>>

Committed(f) ==
  /\ fl[f].pc = "insert"
  /\ row' = fl[f].text
  /\ lock' = IF lock = f THEN None ELSE lock
  /\ fl' = [fl EXCEPT ![f] = NoFlush]
  /\ UNCHANGED <<backend, data, prim, file, rl, mixed, gone, clock, faults>>

(* The file cannot be written, or a query fails and is rolled back; the    *)
(* memory stays merged.  DualWriteStore swallows what its shadow throws.   *)
FlushFails(f) ==
  /\ Fault
  /\ fl[f].pc # "idle" /\ fl[f].after = {}
  /\ lock' = IF lock = f THEN None ELSE lock
  /\ Leaves(f, NoFlush)
  /\ UNCHANGED <<backend, row, data, prim, file, rl, mixed, gone, clock>>

-----------------------------------------------------------------------------
(* reload(): the read, and its arrival, which replaces the memory, also    *)
(* that of the flushes that have not taken their text from it yet.         *)

ReloadStart(p) ==
  /\ Running(p)
  /\ rl[p].pc = "idle"
  /\ rl' = [rl EXCEPT ![p] = IF backend = "dual" THEN [pc |-> "file", read |-> file]
                             ELSE [pc |-> "row", read |-> row]]
  /\ UNCHANGED <<backend, row, lock, data, prim, file, fl, mixed, gone, clock, faults>>

Swept(p, pcs) ==
  LET under == {f \in Flushes : f[1] = p /\ fl[f].pc \in pcs}
  IN  /\ fl' = [f \in Flushes |-> IF f \in under THEN [fl[f] EXCEPT !.mem = "replaced"] ELSE fl[f]]
      /\ mixed' = (mixed \/ (backend = "dual" /\ under # {}))

(* A dual store goes on to reload its shadow, whatever comes of it.        *)
ReloadFile(p) ==
  /\ rl[p].pc = "file"
  /\ prim' = [prim EXCEPT ![p] = Shaped(rl[p].read)]
  /\ rl' = [rl EXCEPT ![p] = [pc |-> "row", read |-> row]]
  /\ Swept(p, {"file", "select"})
  /\ UNCHANGED <<backend, row, lock, data, file, gone, clock, faults>>

ReloadRow(p) ==
  /\ rl[p].pc = "row"
  /\ data' = [data EXCEPT ![p] = Shaped(rl[p].read)]
  /\ rl' = [rl EXCEPT ![p] = NoReload]
  /\ Swept(p, {"select"})
  /\ UNCHANGED <<backend, row, lock, prim, file, gone, clock, faults>>

ReloadFails(p) ==
  /\ rl[p].pc # "idle"
  /\ Fault
  /\ rl' = [rl EXCEPT ![p] = NoReload]
  /\ UNCHANGED <<backend, row, lock, data, prim, file, fl, mixed, gone, clock>>

(* The process dies; its transactions are rolled back, the file keeps the  *)
(* old or has the new text.  It starts again with what is stored.          *)
Crash(p) ==
  /\ Running(p)
  /\ Fault
  /\ fl' = [f \in Flushes |-> IF f[1] = p THEN NoFlush ELSE fl[f]]
  /\ lock' = IF lock # None /\ lock[1] = p THEN None ELSE lock
  /\ rl' = [rl EXCEPT ![p] = NoReload]
  /\ data' = [data EXCEPT ![p] = Shaped(row)]
  /\ prim' = [prim EXCEPT ![p] = Shaped(file)]
  /\ UNCHANGED <<backend, row, file, mixed, gone, clock>>

Next ==
  \/ \E p \in Procs : \/ Change(p) \/ ReloadStart(p) \/ ReloadFile(p) \/ ReloadRow(p)
                      \/ ReloadFails(p) \/ Crash(p)
                      \/ \E i \in Ids : Remove(p, i)
  \/ \E f \in Flushes : \/ FlushStart(f) \/ FileWritten(f) \/ Selected(f)
                        \/ Committed(f) \/ FlushFails(f)

Spec == Init /\ [][Next]_vars

-----------------------------------------------------------------------------
(* Properties                                                              *)

(* The types, and that the row is locked exactly while a flush that has    *)
(* read it has not ended.                                                  *)
TypeOK ==
  /\ row \in Snapshot
  /\ lock \in Flushes \cup {None}
  /\ \A f \in Flushes : lock = f <=> fl[f].pc = "insert"
  /\ data \in [Procs -> Snapshot] /\ prim \in [Procs -> Snapshot]
  /\ file \in Snapshot
  /\ fl \in [Flushes -> [pc: {"idle", "file", "select", "insert"},
                         text: Snapshot, asked: Records, after: SUBSET Flushes, mem: {"same", "replaced"}]]
  /\ rl \in [Procs -> [pc: {"idle", "file", "row"}, read: Snapshot]]

(* The records that are not pruned form a register in which nothing is     *)
(* lost and nothing goes back, however flushes of several processes        *)
(* overlap, fail or die: the row lock makes merge and write one step       *)
(* (postgresStore.ts 381-412).                                             *)
Register == INSTANCE RecordRegister WITH reg <- [i \in Kept |-> row.recs[i]]
RegisterSpec == Register!Spec

(* A write() that returns has stored every record that was in memory when  *)
(* it was called, or a newer one, unless a reload of the process replaced  *)
(* the memory meanwhile or a handler took the record out.                  *)
Returns(f) == fl[f].pc = "insert" /\ fl'[f].pc = "idle" /\ faults' = faults
WrittenIsStored ==
  [][\A f \in Flushes : Returns(f) /\ fl[f].mem = "same"
       => \A i \in Kept \ gone : row'.recs[i] >= fl[f].asked[i]]_vars

(* Once all writes have returned, the shadow's records are not behind the  *)
(* file's, when no call has failed and no process has reloaded while it    *)
(* wrote (dualWriteStore.ts 46-58).  The rest may be: the row lock does    *)
(* not keep the order in which the file was written.                       *)
ShadowIsNotBehind ==
  /\ backend = "dual" /\ faults = 0 /\ ~mixed
  /\ \A f \in Flushes : fl[f].pc = "idle"
  => \A i \in Kept \ gone : row.recs[i] >= file.recs[i]

(* "This lets all existing core logic (which mutates db.data in-memory     *)
(* then calls db.write()) work unchanged" (postgresStore.ts:285): what a   *)
(* process writes is not taken back by one that wrote before it changed.   *)
LiveStays ==
  [][row'.live >= row.live]_row
=============================================================================
