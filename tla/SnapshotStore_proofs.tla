------------------------ MODULE SnapshotStore_proofs ------------------------
(***************************************************************************)
(* PostgresStore implements the register of records, for any number of     *)
(* processes, records and changes: the row lock makes the merge and the    *)
(* write one step, and neither the merge nor the pruning lets a kept       *)
(* record go back.  A write that returns has stored what it was asked to,  *)
(* and DualWriteStore's shadow catches up with its file.                   *)
(***************************************************************************)
EXTENDS SnapshotStore, TLAPS

-----------------------------------------------------------------------------
(* Pruning leaves the kept records as they are.                            *)
LEMMA ShapedKeeps ==
  ASSUME NEW s \in Snapshot
  PROVE  /\ Shaped(s) \in Snapshot
         /\ \A i \in Kept : Shaped(s).recs[i] = s.recs[i]
<1>1. \A i \in Kept : i \in Ids /\ i \notin Dropped(s.recs)
  BY DEF Kept, Dropped
<1>2. Pruned(s.recs) \in Records /\ \A i \in Kept : Pruned(s.recs)[i] = s.recs[i]
  BY <1>1 DEF Snapshot, Records, Pruned
<1> QED
  BY <1>2 DEF Shaped, Snapshot

(* Neither does a merge take a kept record back, from either side, and it  *)
(* makes up no record.                                                     *)
LEMMA MergeKeeps ==
  ASSUME NEW current \in Snapshot, NEW local \in Snapshot
  PROVE  /\ MergeSnapshots(current, local) \in Snapshot
         /\ \A i \in Kept : /\ MergeSnapshots(current, local).recs[i] >= current.recs[i]
                            /\ MergeSnapshots(current, local).recs[i] >= local.recs[i]
<1> DEFINE c == Shaped(current)
           s == [recs |-> MergeById(c.recs, local.recs), live |-> local.live]
<1>1. c \in Snapshot /\ \A i \in Kept : c.recs[i] = current.recs[i]
  BY ShapedKeeps
<1>2. MergeById(c.recs, local.recs) \in Records
  BY <1>1 DEF MergeById, Snapshot, Records
<1>3. s \in Snapshot
  BY <1>2 DEF Snapshot
<1>4. \A i \in Kept : s.recs[i] >= c.recs[i] /\ s.recs[i] >= local.recs[i]
  BY <1>1 DEF MergeById, Snapshot, Records, Kept
<1>5. Shaped(s) \in Snapshot /\ \A i \in Kept : Shaped(s).recs[i] = s.recs[i]
  BY <1>3, ShapedKeeps
<1>6. MergeSnapshots(current, local) = Shaped(s)
  BY DEF MergeSnapshots
<1> HIDE DEF c, s
<1> QED
  BY <1>1, <1>4, <1>5, <1>6

LEMMA EmptyIsSnapshot == Empty \in Snapshot
  BY DEF Empty, Snapshot, Records

LEMMA FlushIsNotNone == \A f \in Flushes : f # None /\ f = <<f[1], f[2]>> /\ f[1] \in Procs
  BY StoreAssumption DEF Flushes

-----------------------------------------------------------------------------
(* What each operation does to the row and to the flushes that hold it.    *)

Flush == [pc: {"idle", "file", "select", "insert"},
          text: Snapshot, asked: Records, after: SUBSET Flushes, mem: {"same", "replaced"}]
Reload == [pc: {"idle", "file", "row"}, read: Snapshot]

LEMMA ResetFlush == NoFlush \in Flush /\ NoFlush.pc = "idle" /\ NoReload \in Reload
  BY EmptyIsSnapshot DEF NoFlush, Flush, Records, NoReload, Reload

(* The types by themselves, with the clock's.                              *)
Types ==
  /\ row \in Snapshot
  /\ lock \in Flushes \cup {None}
  /\ data \in [Procs -> Snapshot] /\ prim \in [Procs -> Snapshot]
  /\ file \in Snapshot
  /\ fl \in [Flushes -> Flush]
  /\ rl \in [Procs -> Reload]
  /\ clock \in Nat

(* The row is held exactly by the flush that has read it.                  *)
Held == \A f \in Flushes : lock = f <=> fl[f].pc = "insert"

(* What a flush is about to write is not behind the row in a kept record.  *)
Ahead == \A f \in Flushes : fl[f].pc = "insert" => \A i \in Kept : fl[f].text.recs[i] >= row.recs[i]

IInv == Types /\ Held /\ Ahead

LEMMA InitIInv == Init => IInv
  BY EmptyIsSnapshot, ResetFlush, FlushIsNotNone DEF Init, IInv, Types, Held, Ahead, Flush, Reload

-----------------------------------------------------------------------------
(* Steps that leave row, lock and the flushes alone.                       *)
LEMMA ElsewhereKeeps ==
  ASSUME IInv, Types', UNCHANGED <<row, lock, fl>>
  PROVE  IInv'
  BY DEF IInv, Held, Ahead

(* A flush that has not read the row moves without having read it.         *)
LEMMA OutsideKeeps ==
  ASSUME IInv, Types', NEW f \in Flushes, fl[f].pc # "insert",
         NEW r, fl' = [fl EXCEPT ![f] = r] \/ Leaves(f, r), r.pc # "insert",
         UNCHANGED <<row, lock>>
  PROVE  IInv'
<1>1. \A g \in Flushes : /\ fl'[g].pc = "insert" <=> fl[g].pc = "insert"
                         /\ fl[g].pc = "insert" => fl'[g].text = fl[g].text
  <2>1. CASE fl' = [fl EXCEPT ![f] = r]
    BY <2>1 DEF IInv, Types
  <2>2. CASE Leaves(f, r)
    BY <2>2 DEF IInv, Types, Leaves, Flush
  <2> QED
    BY <2>1, <2>2
<1> QED
  BY <1>1 DEF IInv, Held, Ahead

(* None waits any more for a flush that has left the file.                 *)
Alike(g, h) == g.pc = h.pc /\ g.text = h.text /\ g.asked = h.asked /\ g.mem = h.mem

LEMMA LeavesTypes ==
  ASSUME IInv, NEW f \in Flushes, NEW r \in Flush, Leaves(f, r)
  PROVE  /\ fl' \in [Flushes -> Flush] /\ fl'[f] = r
         /\ \A g \in Flushes \ {f} : Alike(fl'[g], fl[g])
<1>1. ASSUME NEW g \in Flushes
      PROVE  /\ [fl[g] EXCEPT !.after = @ \ {f}] \in Flush
             /\ Alike([fl[g] EXCEPT !.after = @ \ {f}], fl[g])
  BY DEF IInv, Types, Flush, Alike
<1> QED
  BY <1>1 DEF Leaves

LEMMA ChangeKeeps == ASSUME IInv, NEW p \in Procs, Change(p) PROVE IInv'
<1>1. clock' \in Nat
  BY DEF Change, IInv, Types
<1>2. CASE \E i \in Ids : SetData(p, [Data(p) EXCEPT !.recs[i] = clock'])
  <2>1. PICK i \in Ids : SetData(p, [Data(p) EXCEPT !.recs[i] = clock'])
    BY <1>2
  <2>2. [Data(p) EXCEPT !.recs[i] = clock'] \in Snapshot
    BY <1>1 DEF Data, IInv, Types, Snapshot, Records
  <2>3. data' \in [Procs -> Snapshot] /\ prim' \in [Procs -> Snapshot]
    BY <2>1, <2>2 DEF SetData, IInv, Types
  <2>4. Types'
    BY <2>3, <1>1 DEF Change, IInv, Types
  <2> QED
    BY <2>4, ElsewhereKeeps DEF Change
<1>3. CASE SetData(p, [Data(p) EXCEPT !.live = clock'])
  <2>2. [Data(p) EXCEPT !.live = clock'] \in Snapshot
    BY <1>1 DEF Data, IInv, Types, Snapshot
  <2>3. data' \in [Procs -> Snapshot] /\ prim' \in [Procs -> Snapshot]
    BY <1>3, <2>2 DEF SetData, IInv, Types
  <2>4. Types'
    BY <2>3, <1>1 DEF Change, IInv, Types
  <2> QED
    BY <2>4, ElsewhereKeeps DEF Change
<1> QED
  BY <1>2, <1>3 DEF Change

LEMMA RemoveKeeps == ASSUME IInv, NEW p \in Procs, NEW i \in Ids, Remove(p, i) PROVE IInv'
<1>1. [Data(p) EXCEPT !.recs[i] = 0] \in Snapshot
  BY DEF Data, IInv, Types, Snapshot, Records
<1>2. data' \in [Procs -> Snapshot] /\ prim' \in [Procs -> Snapshot]
  BY <1>1 DEF Remove, SetData, IInv, Types
<1>3. Types'
  BY <1>2 DEF Remove, IInv, Types
<1> QED
  BY <1>3, ElsewhereKeeps DEF Remove

LEMMA FlushStartKeeps == ASSUME IInv, NEW f \in Flushes, FlushStart(f) PROVE IInv'
<1> DEFINE r == [NoFlush EXCEPT !.pc = IF backend = "dual" THEN "file" ELSE "select",
                                !.text = IF backend = "dual" THEN Data(f[1]) ELSE Empty,
                                !.asked = Data(f[1]).recs, !.after = Writing(f[1])]
<1>1. f[1] \in Procs /\ Data(f[1]) \in Snapshot
  BY FlushIsNotNone DEF Data, IInv, Types
<1>2. r \in Flush /\ r.pc # "insert"
  BY <1>1, ResetFlush, EmptyIsSnapshot DEF Flush, Snapshot, Writing
<1>3. fl' = [fl EXCEPT ![f] = r] /\ fl[f].pc # "insert" /\ UNCHANGED <<row, lock>>
  BY DEF FlushStart, Free
<1> HIDE DEF r
<1>4. Types'
  BY <1>2, <1>3 DEF FlushStart, IInv, Types
<1> QED
  BY <1>2, <1>3, <1>4, OutsideKeeps

LEMMA FileWrittenKeeps == ASSUME IInv, NEW f \in Flushes, FileWritten(f) PROVE IInv'
<1> DEFINE r == [fl[f] EXCEPT !.pc = "select", !.text = Empty]
<1>1. f[1] \in Procs /\ fl[f] \in Flush
  BY FlushIsNotNone DEF IInv, Types
<1>2. r \in Flush /\ r.pc # "insert" /\ Leaves(f, r)
  BY <1>1, EmptyIsSnapshot DEF FileWritten, Flush
<1> HIDE DEF r
<1>3. fl' \in [Flushes -> Flush]
  BY <1>2, LeavesTypes
<1>4. file' \in Snapshot
  BY <1>1 DEF FileWritten, Flush
<1>5. Types'
  BY <1>1, <1>3, <1>4 DEF FileWritten, IInv, Types
<1> QED
  BY <1>2, <1>5, OutsideKeeps DEF FileWritten

(* The merge is not behind the row it has read.                            *)
LEMMA SelectedKeeps == ASSUME IInv, NEW f \in Flushes, Selected(f) PROVE IInv'
<1> DEFINE s == MergeSnapshots(row, data[f[1]])
<1>1. f[1] \in Procs
  BY FlushIsNotNone
<1>2. s \in Snapshot /\ \A i \in Kept : s.recs[i] >= row.recs[i]
  BY <1>1, MergeKeeps DEF IInv, Types
<1>3. /\ lock = None /\ lock' = f /\ data' = [data EXCEPT ![f[1]] = s]
      /\ fl' = [fl EXCEPT ![f].pc = "insert", ![f].text = s]
      /\ UNCHANGED <<row, prim, file, rl, clock>>
  BY DEF Selected
<1> HIDE DEF s
<1>4. fl[f] \in Flush
  BY DEF IInv, Types
<1>5. /\ fl' \in [Flushes -> Flush] /\ fl'[f].pc = "insert" /\ fl'[f].text = s
      /\ \A g \in Flushes \ {f} : fl'[g] = fl[g]
  BY <1>2, <1>3, <1>4 DEF IInv, Types, Flush
<1>6. \A g \in Flushes : fl[g].pc # "insert"
  BY <1>3, FlushIsNotNone DEF IInv, Held
<1>7. Types'
  BY <1>1, <1>2, <1>3, <1>5 DEF IInv, Types
<1> QED
  BY <1>2, <1>3, <1>5, <1>6, <1>7 DEF IInv, Held, Ahead

(* Only the flush that holds the row writes it; nobody else has read it.   *)
LEMMA CommittedKeeps == ASSUME IInv, NEW f \in Flushes, Committed(f) PROVE IInv'
<1>1. lock = f /\ fl[f] \in Flush
  BY DEF Committed, IInv, Held, Types
<1>2. \A g \in Flushes \ {f} : fl[g].pc # "insert"
  BY <1>1 DEF IInv, Held
<1>3. Types'
  BY <1>1, ResetFlush DEF Committed, IInv, Types, Flush
<1>4. fl'[f].pc # "insert" /\ lock' = None /\ \A g \in Flushes \ {f} : fl'[g] = fl[g]
  BY <1>1, ResetFlush DEF Committed, IInv, Types
<1> QED
  BY <1>2, <1>3, <1>4, FlushIsNotNone DEF IInv, Held, Ahead

LEMMA FlushFailsKeeps == ASSUME IInv, NEW f \in Flushes, FlushFails(f) PROVE IInv'
<1>1. /\ fl'[f] = NoFlush /\ fl' \in [Flushes -> Flush]
      /\ \A g \in Flushes \ {f} : Alike(fl'[g], fl[g])
  BY ResetFlush, LeavesTypes DEF FlushFails
<1>2. lock' = IF lock = f THEN None ELSE lock
  BY DEF FlushFails
<1>3. Types'
  BY <1>1, <1>2 DEF FlushFails, IInv, Types
<1> QED
  BY <1>1, <1>2, <1>3, ResetFlush, FlushIsNotNone DEF FlushFails, IInv, Held, Ahead, Alike

LEMMA ReloadStartKeeps == ASSUME IInv, NEW p \in Procs, ReloadStart(p) PROVE IInv'
<1>1. Types'
  BY DEF ReloadStart, IInv, Types, Reload
<1> QED
  BY <1>1, ElsewhereKeeps DEF ReloadStart

LEMMA ReloadFailsKeeps == ASSUME IInv, NEW p \in Procs, ReloadFails(p) PROVE IInv'
<1>1. Types'
  BY ResetFlush DEF ReloadFails, IInv, Types
<1> QED
  BY <1>1, ElsewhereKeeps DEF ReloadFails

(* A reload that arrives leaves its mark on the flushes, and no more.      *)
LEMMA SweptKeeps ==
  ASSUME IInv, NEW p \in Procs, NEW pcs, Swept(p, pcs), UNCHANGED <<row, lock>>
  PROVE  /\ fl' \in [Flushes -> Flush]
         /\ Types' => IInv'
<1>1. ASSUME NEW f \in Flushes
      PROVE  /\ [fl[f] EXCEPT !.mem = "replaced"] \in Flush /\ fl[f] \in Flush
             /\ [fl[f] EXCEPT !.mem = "replaced"].pc = fl[f].pc
             /\ [fl[f] EXCEPT !.mem = "replaced"].text = fl[f].text
  BY DEF IInv, Types, Flush
<1>2. PICK under \in SUBSET Flushes :
        fl' = [f \in Flushes |-> IF f \in under THEN [fl[f] EXCEPT !.mem = "replaced"] ELSE fl[f]]
  BY DEF Swept
<1>3. /\ fl' \in [Flushes -> Flush]
      /\ \A f \in Flushes : fl'[f].pc = fl[f].pc /\ fl'[f].text = fl[f].text
  BY <1>1, <1>2
<1> QED
  BY <1>3 DEF IInv, Held, Ahead

LEMMA ReloadFileKeeps == ASSUME IInv, NEW p \in Procs, ReloadFile(p) PROVE IInv'
<1>1. Shaped(rl[p].read) \in Snapshot
  BY ShapedKeeps DEF IInv, Types, Reload
<1>2. rl' \in [Procs -> Reload] /\ prim' \in [Procs -> Snapshot]
  BY <1>1 DEF ReloadFile, IInv, Types, Reload
<1>3. Swept(p, {"file", "select"}) /\ UNCHANGED <<row, lock, data, file, clock>>
  BY DEF ReloadFile
<1>4. fl' \in [Flushes -> Flush]
  BY <1>3, SweptKeeps
<1>5. Types'
  BY <1>2, <1>3, <1>4 DEF IInv, Types
<1> QED
  BY <1>3, <1>5, SweptKeeps

LEMMA ReloadRowKeeps == ASSUME IInv, NEW p \in Procs, ReloadRow(p) PROVE IInv'
<1>1. Shaped(rl[p].read) \in Snapshot
  BY ShapedKeeps DEF IInv, Types, Reload
<1>2. rl' \in [Procs -> Reload] /\ data' \in [Procs -> Snapshot]
  BY <1>1, ResetFlush DEF ReloadRow, IInv, Types
<1>3. Swept(p, {"select"}) /\ UNCHANGED <<row, lock, prim, file, clock>>
  BY DEF ReloadRow
<1>4. fl' \in [Flushes -> Flush]
  BY <1>3, SweptKeeps
<1>5. Types'
  BY <1>2, <1>3, <1>4 DEF IInv, Types
<1> QED
  BY <1>3, <1>5, SweptKeeps

(* The transactions of a process that dies are rolled back.                *)
LEMMA CrashKeeps == ASSUME IInv, NEW p \in Procs, Crash(p) PROVE IInv'
<1>1. Shaped(row) \in Snapshot /\ Shaped(file) \in Snapshot
  BY ShapedKeeps DEF IInv, Types
<1>2. /\ fl' \in [Flushes -> Flush]
      /\ \A f \in Flushes : fl'[f] = IF f[1] = p THEN NoFlush ELSE fl[f]
  BY ResetFlush DEF Crash, IInv, Types
<1>3. lock' = IF lock # None /\ lock[1] = p THEN None ELSE lock
  BY DEF Crash
<1>4. Types'
  BY <1>1, <1>2, <1>3, ResetFlush DEF Crash, IInv, Types
<1> QED
  BY <1>2, <1>3, <1>4, ResetFlush, FlushIsNotNone DEF Crash, IInv, Held, Ahead

LEMMA NextIInv == IInv /\ [Next]_vars => IInv'
<1> SUFFICES ASSUME IInv, [Next]_vars PROVE IInv'
  OBVIOUS
<1>1. CASE UNCHANGED vars
  BY <1>1 DEF vars, IInv, Types, Held, Ahead
<1>2. ASSUME NEW p \in Procs,
             \/ Change(p) \/ ReloadStart(p) \/ ReloadFile(p) \/ ReloadRow(p)
             \/ ReloadFails(p) \/ Crash(p) \/ \E i \in Ids : Remove(p, i)
      PROVE  IInv'
  BY <1>2, ChangeKeeps, ReloadStartKeeps, ReloadFileKeeps, ReloadRowKeeps, ReloadFailsKeeps,
     CrashKeeps, RemoveKeeps
<1>3. ASSUME NEW f \in Flushes,
             FlushStart(f) \/ FileWritten(f) \/ Selected(f) \/ Committed(f) \/ FlushFails(f)
      PROVE  IInv'
  BY <1>3, FlushStartKeeps, FileWrittenKeeps, SelectedKeeps, CommittedKeeps, FlushFailsKeeps
<1> QED
  BY <1>1, <1>2, <1>3 DEF Next

(* TypeOK holds always: the types, and the row held by whoever has read it.*)
THEOREM StoreTypeOK == Spec => []TypeOK
<1>1. IInv => TypeOK
  BY DEF IInv, Types, Held, TypeOK, Flush, Reload
<1> QED
  BY <1>1, InitIInv, NextIInv, PTL DEF Spec

-----------------------------------------------------------------------------
(* The register                                                            *)

LEMMA InitRegister == Init => Register!Init
  BY EmptyIsSnapshot DEF Init, Register!Init, Snapshot, Records, Kept

(* Only a commit changes the row, and it takes no kept record back.        *)
LEMMA StepRegister == IInv /\ [Next]_vars => [Register!Commit]_([i \in Kept |-> row.recs[i]])
<1> SUFFICES ASSUME IInv, [Next]_vars
             PROVE  [Register!Commit]_([i \in Kept |-> row.recs[i]])
  OBVIOUS
<1>1. IInv'
  BY NextIInv
<1>2. UNCHANGED row \/ \E f \in Flushes : Committed(f)
  BY DEF Next, vars, Change, ReloadStart, ReloadFile, ReloadRow, ReloadFails, Crash, Remove,
         FlushStart, FileWritten, Selected, FlushFails
<1>3. CASE UNCHANGED row
  BY <1>3
<1>4. ASSUME NEW f \in Flushes, Committed(f)
      PROVE  Register!Commit
  <2>1. \A i \in Kept : row'.recs[i] >= row.recs[i]
    BY <1>4 DEF Committed, IInv, Ahead
  <2>2. [i \in Kept |-> row'.recs[i]] \in [Kept -> Nat]
    BY <1>1 DEF IInv, Types, Snapshot, Records, Kept
  <2> QED
    BY <2>1, <2>2 DEF Register!Commit
<1> QED
  BY <1>2, <1>3, <1>4

(* PostgresStore implements the register: whatever overlaps, fails or      *)
(* dies, a kept record that the row has stays, and never goes back.        *)
THEOREM StoreImplementsRegister == Spec => RegisterSpec
<1>1. Spec => []IInv
  BY InitIInv, NextIInv, PTL DEF Spec
<1> QED
  BY <1>1, InitRegister, StepRegister, PTL DEF Spec, RegisterSpec, Register!Spec

-----------------------------------------------------------------------------
(* What a write carries                                                    *)

(* Records are stamped with times that have come.                          *)
Upto(r, n) == \A i \in Ids : r[i] <= n
Stamped ==
  /\ Upto(row.recs, clock) /\ Upto(file.recs, clock)
  /\ \A p \in Procs : Upto(data[p].recs, clock) /\ Upto(prim[p].recs, clock) /\ Upto(rl[p].read.recs, clock)
  /\ \A f \in Flushes : Upto(fl[f].text.recs, clock) /\ Upto(fl[f].asked, clock)

(* What a flush was asked to store is in the memory that it will take its  *)
(* text from, and then in the text; a dual store's primary memory has it   *)
(* until the row is read, because the shadow's memory is copied from there *)
(* whenever any flush of the process has written the file.                 *)
Has(s, f) == \A i \in Kept \ gone : s.recs[i] >= fl[f].asked[i]
Carries(f) ==
  /\ fl[f].pc = "file" => Has(prim[f[1]], f)
  /\ fl[f].pc = "select" => Has(data[f[1]], f) /\ (backend = "dual" => Has(prim[f[1]], f))
  /\ fl[f].pc = "insert" => Has(fl[f].text, f)
Carried == \A f \in Flushes : fl[f].mem = "same" => Carries(f)

(* Only a dual store writes a file, with the text of the call.             *)
Taken == \A f \in Flushes : fl[f].pc = "file" => backend = "dual" /\ fl[f].text.recs = fl[f].asked

(* What the file has is in the row, or on its way there with some flush.   *)
Calm == backend = "dual" /\ faults = 0 /\ ~mixed
Owes(f, i) == \/ fl[f].pc = "select" /\ data[f[1]].recs[i] >= file.recs[i]
              \/ fl[f].pc = "insert" /\ fl[f].text.recs[i] >= file.recs[i]
Unmixed == Calm => \A f \in Flushes : fl[f].pc \in {"file", "select"} => fl[f].mem = "same"
Owed == Calm => \A i \in Kept \ gone : row.recs[i] >= file.recs[i] \/ \E f \in Flushes : Owes(f, i)

JInv == Stamped /\ Carried /\ Taken /\ Unmixed /\ Owed /\ faults \in Nat

LEMMA KeptAreIds == \A i \in Kept : i \in Ids
  BY DEF Kept

(* Neither pruning nor merging makes a record younger than both sides.     *)
LEMMA ShapedUpto ==
  ASSUME NEW s \in Snapshot, NEW n \in Nat, Upto(s.recs, n)
  PROVE  Upto(Shaped(s).recs, n)
<1>1. \A i \in Ids : Pruned(s.recs)[i] = 0 \/ Pruned(s.recs)[i] = s.recs[i]
  BY DEF Pruned
<1> QED
  BY <1>1 DEF Shaped, Upto, Snapshot, Records

LEMMA MergeUpto ==
  ASSUME NEW current \in Snapshot, NEW local \in Snapshot, NEW n \in Nat,
         Upto(current.recs, n), Upto(local.recs, n)
  PROVE  Upto(MergeSnapshots(current, local).recs, n)
<1> DEFINE c == Shaped(current)
           s == [recs |-> MergeById(c.recs, local.recs), live |-> local.live]
<1>1. c \in Snapshot /\ Upto(c.recs, n)
  BY ShapedKeeps, ShapedUpto
<1>2. MergeById(c.recs, local.recs) \in Records /\ Upto(MergeById(c.recs, local.recs), n)
  BY <1>1 DEF MergeById, Snapshot, Records, Upto
<1>3. s \in Snapshot /\ Upto(s.recs, n)
  BY <1>2 DEF Snapshot
<1>4. MergeSnapshots(current, local) = Shaped(s)
  BY DEF MergeSnapshots
<1> HIDE DEF c, s
<1> QED
  BY <1>3, <1>4, ShapedUpto

LEMMA EmptyUpto == Upto(Empty.recs, 0) /\ Upto(NoFlush.text.recs, 0) /\ Upto(NoFlush.asked, 0) /\ Upto(NoReload.read.recs, 0)
  BY DEF Upto, Empty, NoFlush, NoReload

LEMMA UptoLater ==
  ASSUME NEW r \in Records, NEW n \in Nat, NEW m \in Nat, n <= m, Upto(r, n)
  PROVE  Upto(r, m)
  BY DEF Upto, Records

LEMMA InitJInv == Init => JInv
<1> SUFFICES ASSUME Init PROVE JInv
  OBVIOUS
<1>1. Stamped
  <2>1. /\ row = Empty /\ file = Empty /\ clock = 0
        /\ \A p \in Procs : data[p] = Empty /\ prim[p] = Empty /\ rl[p] = NoReload
        /\ \A f \in Flushes : fl[f] = NoFlush
    BY DEF Init
  <2> QED
    BY <2>1, EmptyUpto DEF Stamped
<1>2. \A f \in Flushes : fl[f].pc = "idle"
  BY ResetFlush DEF Init
<1>3. \A i \in Kept : row.recs[i] >= file.recs[i]
  BY EmptyIsSnapshot, KeptAreIds DEF Init, Snapshot, Records
<1> QED
  BY <1>1, <1>2, <1>3 DEF Init, JInv, Carried, Carries, Taken, Unmixed, Owed

(* The step lemmas below share these facts.                                *)
LEMMA Shapes ==
  ASSUME IInv
  PROVE  /\ row.recs \in Records /\ file.recs \in Records
         /\ \A p \in Procs : data[p].recs \in Records /\ prim[p].recs \in Records /\ rl[p].read.recs \in Records
         /\ \A f \in Flushes : /\ f[1] \in Procs /\ fl[f].text.recs \in Records /\ fl[f].asked \in Records
         /\ clock \in Nat
<1>1. \A s \in Snapshot : s.recs \in Records
  BY DEF Snapshot
<1>2. \A f \in Flushes : fl[f] \in Flush
  BY DEF IInv, Types
<1>3. \A p \in Procs : rl[p] \in Reload
  BY DEF IInv, Types
<1> QED
  BY <1>1, <1>2, <1>3, FlushIsNotNone DEF IInv, Types, Flush, Reload

(* A change stamps one record with the next time.                          *)
LEMMA ChangeCarries == ASSUME IInv, IInv', JInv, NEW p \in Procs, Change(p) PROVE JInv'
<1> DEFINE old == Data(p)
           new == IF backend = "dual" THEN prim'[p] ELSE data'[p]
<1>1. /\ clock' = clock + 1 /\ clock \in Nat
      /\ UNCHANGED <<backend, row, lock, file, fl, rl, mixed, gone, faults>>
      /\ backend = "dual" => data' = data
      /\ backend # "dual" => prim' = prim
      /\ \A q \in Procs \ {p} : data'[q] = data[q] /\ prim'[q] = prim[q]
  BY DEF Change, SetData, IInv, Types
<1>2. \A i \in Ids : new.recs[i] = old.recs[i] \/ new.recs[i] = clock'
  <2>1. old \in Snapshot /\ \A s : SetData(p, s) => new = s
    BY DEF SetData, Data, IInv, Types
  <2> HIDE DEF old, new
  <2>2. ASSUME NEW i \in Ids, SetData(p, [old EXCEPT !.recs[i] = clock'])
        PROVE  \A k \in Ids : new.recs[k] = old.recs[k] \/ new.recs[k] = clock'
    <3>1. new = [old EXCEPT !.recs[i] = clock']
      BY <2>1, <2>2
    <3> QED
      BY <2>1, <3>1 DEF Snapshot, Records
  <2>3. CASE SetData(p, [old EXCEPT !.live = clock'])
    <3>1. new = [old EXCEPT !.live = clock']
      BY <2>1, <2>3
    <3> QED
      BY <2>1, <3>1 DEF Snapshot
  <2>4. \/ \E i \in Ids : SetData(p, [old EXCEPT !.recs[i] = clock'])
        \/ SetData(p, [old EXCEPT !.live = clock'])
    BY DEF Change, old
  <2> QED
    BY <2>2, <2>3, <2>4
<1>3. \A i \in Ids : old.recs[i] \in Nat /\ old.recs[i] <= clock
  BY Shapes DEF Data, JInv, Stamped, Upto, Records
<1>4. \A q \in Procs, i \in Ids : /\ data[q].recs[i] \in Nat /\ prim[q].recs[i] \in Nat
                                   /\ data[q].recs[i] <= clock /\ prim[q].recs[i] <= clock
                                   /\ \/ data'[q].recs[i] = data[q].recs[i]
                                      \/ data'[q].recs[i] = clock'
                                   /\ \/ prim'[q].recs[i] = prim[q].recs[i]
                                      \/ prim'[q].recs[i] = clock'
  BY <1>1, <1>2, Shapes DEF Data, JInv, Stamped, Upto, Records
<1> HIDE DEF old, new
<1>5. Stamped'
  <2>1. Upto(row'.recs, clock') /\ Upto(file'.recs, clock')
    BY <1>1, Shapes, UptoLater DEF JInv, Stamped
  <2>2. \A q \in Procs : Upto(data'[q].recs, clock') /\ Upto(prim'[q].recs, clock')
    BY <1>1, <1>4 DEF Upto
  <2>3. \A q \in Procs : Upto(rl'[q].read.recs, clock')
    BY <1>1, Shapes, UptoLater DEF JInv, Stamped
  <2>4. \A f \in Flushes : Upto(fl'[f].text.recs, clock') /\ Upto(fl'[f].asked, clock')
    BY <1>1, Shapes, UptoLater DEF JInv, Stamped
  <2> QED
    BY <2>1, <2>2, <2>3, <2>4 DEF Stamped
<1>6. Carried'
  <2>1. \A f \in Flushes, i \in Kept : fl[f].asked[i] \in Nat /\ fl[f].asked[i] <= clock
    BY Shapes, KeptAreIds DEF JInv, Stamped, Upto, Records
  <2>2. ASSUME NEW f \in Flushes
        PROVE  /\ Has(prim[f[1]], f) => Has(prim[f[1]], f)'
               /\ Has(data[f[1]], f) => Has(data[f[1]], f)'
               /\ Has(fl[f].text, f) => Has(fl[f].text, f)'
    BY <1>1, <1>4, <2>1, KeptAreIds, FlushIsNotNone DEF Has
  <2> QED
    BY <1>1, <2>2 DEF JInv, Carried, Carries
<1>7. Taken' /\ Unmixed'
  BY <1>1 DEF JInv, Taken, Unmixed, Calm
<1>8. Owed'
  BY <1>1 DEF JInv, Owed, Calm, Owes
<1> QED
  BY <1>1, <1>5, <1>6, <1>7, <1>8 DEF JInv

(* The record that is taken out is one of those no longer looked at.       *)
LEMMA RemoveCarries ==
  ASSUME IInv, IInv', JInv, NEW p \in Procs, NEW i \in Ids, Remove(p, i)
  PROVE  JInv'
<1> DEFINE old == Data(p)
           new == IF backend = "dual" THEN prim'[p] ELSE data'[p]
<1>1. /\ gone' = gone \cup {i}
      /\ UNCHANGED <<backend, row, lock, file, fl, rl, mixed, clock, faults>>
      /\ backend = "dual" => data' = data
      /\ backend # "dual" => prim' = prim
      /\ \A q \in Procs \ {p} : data'[q] = data[q] /\ prim'[q] = prim[q]
  BY DEF Remove, SetData, IInv, Types
<1>2. \A k \in Ids : new.recs[k] = IF k = i THEN 0 ELSE old.recs[k]
  <2>1. old \in Snapshot /\ \A s : SetData(p, s) => new = s
    BY DEF SetData, Data, IInv, Types
  <2>2. SetData(p, [old EXCEPT !.recs[i] = 0])
    BY DEF Remove
  <2> HIDE DEF old, new
  <2>3. new = [old EXCEPT !.recs[i] = 0]
    BY <2>1, <2>2
  <2> QED
    BY <2>1, <2>3 DEF Snapshot, Records
<1>3. \A q \in Procs, k \in Ids : /\ data'[q].recs[k] = data[q].recs[k] \/ (data'[q].recs[k] = 0 /\ k = i)
                                  /\ prim'[q].recs[k] = prim[q].recs[k] \/ (prim'[q].recs[k] = 0 /\ k = i)
  BY <1>1, <1>2 DEF Data
<1> HIDE DEF old, new
<1>4. \A q \in Procs : Upto(data'[q].recs, clock) /\ Upto(prim'[q].recs, clock)
  BY <1>3, Shapes DEF JInv, Stamped, Upto
<1>5. Stamped'
  BY <1>1, <1>4 DEF JInv, Stamped
<1>6. Carried'
  <2>1. ASSUME NEW f \in Flushes
        PROVE  /\ Has(prim[f[1]], f) => Has(prim[f[1]], f)'
               /\ Has(data[f[1]], f) => Has(data[f[1]], f)'
               /\ Has(fl[f].text, f) => Has(fl[f].text, f)'
    BY <1>1, <1>3, KeptAreIds, FlushIsNotNone DEF Has
  <2> QED
    BY <1>1, <2>1 DEF JInv, Carried, Carries
<1>7. Taken' /\ Unmixed'
  BY <1>1 DEF JInv, Taken, Unmixed, Calm
<1>8. Owed'
  BY <1>1 DEF JInv, Owed, Calm, Owes
<1> QED
  BY <1>1, <1>5, <1>6, <1>7, <1>8 DEF JInv

(* A new flush has to store what its memory has at this moment.            *)
LEMMA FlushStartCarries == ASSUME IInv, IInv', JInv, NEW f \in Flushes, FlushStart(f) PROVE JInv'
<1>1. /\ UNCHANGED <<backend, row, lock, data, prim, file, rl, mixed, gone, clock, faults>>
      /\ fl[f].pc = "idle" /\ f[1] \in Procs
      /\ \A g \in Flushes \ {f} : fl'[g] = fl[g]
      /\ fl'[f].pc = IF backend = "dual" THEN "file" ELSE "select"
      /\ fl'[f].text = IF backend = "dual" THEN Data(f[1]) ELSE Empty
      /\ fl'[f].asked = Data(f[1]).recs
      /\ fl'[f].mem = "same"
  BY FlushIsNotNone DEF FlushStart, Free, NoFlush, IInv, Types
<1>2. Stamped'
  <2>1. Upto(Data(f[1]).recs, clock)
    BY <1>1 DEF JInv, Stamped, Data
  <2>2. Upto(Empty.recs, clock)
    BY EmptyUpto, EmptyIsSnapshot, Shapes, UptoLater DEF Upto, Empty
  <2>3. Upto(fl'[f].text.recs, clock) /\ Upto(fl'[f].asked, clock)
    BY <1>1, <2>1, <2>2
  <2> QED
    BY <1>1, <2>3 DEF JInv, Stamped
<1>3. Carried'
  <2>1. CASE backend = "dual"
    <3>1. Has(prim[f[1]], f)'
      BY <1>1, <2>1, Shapes, KeptAreIds DEF Has, Data, Records
    <3> QED
      BY <1>1, <2>1, <3>1 DEF JInv, Carried, Carries, Has
  <2>2. CASE backend # "dual"
    <3>1. Has(data[f[1]], f)'
      BY <1>1, <2>2, Shapes, KeptAreIds DEF Has, Data, Records
    <3> QED
      BY <1>1, <2>2, <3>1 DEF JInv, Carried, Carries, Has
  <2> QED
    BY <2>1, <2>2
<1>4. Taken'
  BY <1>1 DEF JInv, Taken, Data
<1>5. Unmixed'
  BY <1>1 DEF JInv, Unmixed, Calm
<1>6. Owed'
  BY <1>1 DEF JInv, Owed, Calm, Owes
<1> QED
  BY <1>1, <1>2, <1>3, <1>4, <1>5, <1>6 DEF JInv

(* The primary's memory, which the shadow takes over, has what every flush *)
(* of the process was asked to store; the flush that wrote the file owes   *)
(* the row what the file has now.                                          *)
LEMMA FileWrittenCarries == ASSUME IInv, IInv', JInv, NEW f \in Flushes, FileWritten(f) PROVE JInv'
<1> DEFINE r == [fl[f] EXCEPT !.pc = "select", !.text = Empty]
<1>1. /\ UNCHANGED <<backend, row, lock, prim, rl, mixed, gone, clock, faults>>
      /\ fl[f].pc = "file" /\ file' = fl[f].text /\ f[1] \in Procs
      /\ data'[f[1]] = prim[f[1]]
      /\ \A q \in Procs \ {f[1]} : data'[q] = data[q]
  BY FlushIsNotNone DEF FileWritten, IInv, Types
<1>2. /\ r \in Flush /\ r.pc = "select" /\ r.text = Empty /\ r.asked = fl[f].asked /\ r.mem = fl[f].mem
      /\ Leaves(f, r)
  BY EmptyIsSnapshot DEF FileWritten, Flush, IInv, Types
<1> HIDE DEF r
<1>3. /\ \A g \in Flushes \ {f} : Alike(fl'[g], fl[g])
      /\ fl'[f].pc = "select" /\ fl'[f].text = Empty /\ fl'[f].asked = fl[f].asked /\ fl'[f].mem = fl[f].mem
  BY <1>2, LeavesTypes
<1>4. backend = "dual" /\ fl[f].text.recs = fl[f].asked
  BY <1>1 DEF JInv, Taken
<1>5. Stamped'
  <2>1. Upto(Empty.recs, clock)
    BY EmptyUpto, EmptyIsSnapshot, Shapes, UptoLater DEF Upto, Empty
  <2>2. Upto(file'.recs, clock') /\ Upto(row'.recs, clock')
    BY <1>1 DEF JInv, Stamped
  <2>3. \A q \in Procs : Upto(data'[q].recs, clock') /\ Upto(prim'[q].recs, clock') /\ Upto(rl'[q].read.recs, clock')
    BY <1>1 DEF JInv, Stamped
  <2>4. \A g \in Flushes : Upto(fl'[g].text.recs, clock') /\ Upto(fl'[g].asked, clock')
    BY <1>1, <1>3, <2>1 DEF JInv, Stamped, Alike
  <2> QED
    BY <2>2, <2>3, <2>4 DEF Stamped
<1>6. Carried'
  <2>1. \A g \in Flushes : /\ Has(prim[g[1]], g) => Has(prim[g[1]], g)'
                           /\ Has(data[g[1]], g) /\ Has(prim[g[1]], g) => Has(data[g[1]], g)'
    BY <1>1, <1>3, FlushIsNotNone DEF Has, Alike
  <2>2. Has(prim[f[1]], f) => Has(data[f[1]], f)' /\ Has(prim[f[1]], f)'
    BY <1>1, <1>3 DEF Has
  <2>3. \A g \in Flushes \ {f} : Has(fl[g].text, g) => Has(fl[g].text, g)'
    BY <1>1, <1>3 DEF Has, Alike
  <2> QED
    BY <1>1, <1>3, <1>4, <2>1, <2>2, <2>3 DEF JInv, Carried, Carries, Alike
<1>7. Taken' /\ Unmixed'
  BY <1>1, <1>3 DEF JInv, Taken, Unmixed, Calm, Alike
<1>8. Owed'
  <2> SUFFICES ASSUME Calm', NEW i \in (Kept \ gone)' PROVE Owes(f, i)'
    BY DEF Owed
  <2>1. fl[f].mem = "same" /\ i \in Kept \ gone
    BY <1>1 DEF Calm, JInv, Unmixed, Kept
  <2>2. prim[f[1]].recs[i] >= fl[f].asked[i]
    BY <1>1, <2>1 DEF JInv, Carried, Carries, Has
  <2> QED
    BY <1>1, <1>3, <1>4, <2>2 DEF Owes
<1> QED
  BY <1>1, <1>5, <1>6, <1>7, <1>8 DEF JInv

(* The merge has what the memory had, and is the text of the INSERT.       *)
LEMMA SelectedCarries == ASSUME IInv, IInv', JInv, NEW f \in Flushes, Selected(f) PROVE JInv'
<1> DEFINE s == MergeSnapshots(row, data[f[1]])
<1>1. f[1] \in Procs /\ clock \in Nat
  BY FlushIsNotNone DEF IInv, Types
<1>2. s \in Snapshot /\ \A i \in Kept : s.recs[i] >= data[f[1]].recs[i]
  BY <1>1, MergeKeeps DEF IInv, Types
<1>3. Upto(s.recs, clock)
  BY <1>1, MergeUpto DEF IInv, Types, JInv, Stamped
<1>4. /\ fl[f].pc = "select" /\ data' = [data EXCEPT ![f[1]] = s]
      /\ fl' = [fl EXCEPT ![f].pc = "insert", ![f].text = s]
      /\ UNCHANGED <<backend, row, prim, file, rl, mixed, gone, clock, faults>>
  BY DEF Selected
<1> HIDE DEF s
<1>5. /\ data'[f[1]] = s /\ \A q \in Procs \ {f[1]} : data'[q] = data[q]
      /\ fl'[f].pc = "insert" /\ fl'[f].text = s /\ fl'[f].asked = fl[f].asked /\ fl'[f].mem = fl[f].mem
      /\ \A g \in Flushes \ {f} : fl'[g] = fl[g]
  BY <1>1, <1>4 DEF IInv, Types, Flush
<1>6. Stamped'
  <2>1. \A p \in Procs : Upto(data'[p].recs, clock)
    BY <1>3, <1>5 DEF JInv, Stamped
  <2>2. \A g \in Flushes : Upto(fl'[g].text.recs, clock) /\ Upto(fl'[g].asked, clock)
    BY <1>3, <1>5 DEF JInv, Stamped
  <2>3. UNCHANGED <<row, file, prim, rl, clock>>
    BY <1>4
  <2> QED
    BY <2>1, <2>2, <2>3 DEF JInv, Stamped
<1>7. \A q \in Procs, i \in Kept : data'[q].recs[i] >= data[q].recs[i]
  BY <1>1, <1>2, <1>5, Shapes, KeptAreIds DEF Records
<1>8. Carried'
  <2>1. ASSUME NEW g \in Flushes
        PROVE  /\ Has(prim[g[1]], g) => Has(prim[g[1]], g)'
               /\ Has(data[g[1]], g) => Has(data[g[1]], g)'
    <3>1. g[1] \in Procs /\ fl'[g].asked = fl[g].asked
      BY <1>5, FlushIsNotNone
    <3>2. \A i \in Kept : /\ data'[g[1]].recs[i] \in Nat /\ data[g[1]].recs[i] \in Nat /\ fl[g].asked[i] \in Nat
                          /\ data'[g[1]].recs[i] >= data[g[1]].recs[i]
      <4>1. \A q \in Procs : data[q].recs \in Records /\ data'[q].recs \in Records
        BY <1>2, <1>5, Shapes DEF Snapshot
      <4>2. fl[g].asked \in Records
        BY Shapes
      <4> QED
        BY <1>7, <3>1, <4>1, <4>2, KeptAreIds DEF Records
    <3>3. UNCHANGED <<prim, gone>> /\ Kept' = Kept
      BY <1>4 DEF Kept
    <3>4. ASSUME Has(data[g[1]], g) PROVE \A i \in Kept \ gone : data'[g[1]].recs[i] >= fl[g].asked[i]
      BY <3>2, <3>4 DEF Has
    <3> QED
      BY <3>1, <3>3, <3>4 DEF Has
  <2>2. Has(data[f[1]], f)' => Has(fl[f].text, f)'
    BY <1>5 DEF Has
  <2>3. \A g \in Flushes \ {f} : Has(fl[g].text, g) => Has(fl[g].text, g)'
    BY <1>4, <1>5 DEF Has
  <2>4. Carried /\ UNCHANGED backend
    BY <1>4 DEF JInv
  <2>5. ASSUME NEW g \in Flushes \ {f}, fl'[g].mem = "same" PROVE Carries(g)'
    <3>1. fl'[g] = fl[g] /\ Carries(g)
      BY <1>5, <2>4, <2>5 DEF Carried
    <3> QED
      BY <2>1, <2>3, <2>4, <3>1 DEF Carries
  <2>6. fl'[f].mem = "same" => Carries(f)'
    <3>1. fl[f].mem = "same" => Has(data[f[1]], f)
      BY <1>4, <2>4 DEF Carried, Carries
    <3> QED
      BY <1>5, <2>1, <2>2, <3>1 DEF Carries
  <2> QED
    BY <2>5, <2>6 DEF Carried
<1>9. Taken' /\ Unmixed'
  <2>1. Taken /\ Unmixed /\ UNCHANGED <<backend, faults, mixed>>
    BY <1>4 DEF JInv
  <2>2. ASSUME NEW g \in Flushes, fl'[g].pc \in {"file", "select"} PROVE fl'[g] = fl[g]
    BY <1>5, <2>2
  <2> QED
    BY <2>1, <2>2 DEF Taken, Unmixed, Calm
<1>10. Owed'
  <2>1. ASSUME NEW g \in Flushes, NEW i \in Kept, Owes(g, i) PROVE Owes(g, i)'
    <3>1. g[1] \in Procs /\ i \in Ids
      BY FlushIsNotNone, KeptAreIds
    <3>2. /\ data'[g[1]].recs[i] \in Nat /\ data[g[1]].recs[i] \in Nat /\ file.recs[i] \in Nat
          /\ data'[g[1]].recs[i] >= data[g[1]].recs[i]
      <4>1. \A q \in Procs : data[q].recs \in Records /\ data'[q].recs \in Records
        BY <1>2, <1>5, Shapes DEF Snapshot
      <4>2. file.recs \in Records
        BY Shapes
      <4> QED
        BY <1>7, <3>1, <4>1, <4>2 DEF Records
    <3>3. CASE fl[g].pc = "select" /\ g # f
      <4>1. data[g[1]].recs[i] >= file.recs[i]
        BY <2>1, <3>3 DEF Owes
      <4>2. data'[g[1]].recs[i] >= file.recs[i]
        BY <3>2, <4>1
      <4> QED
        BY <1>4, <1>5, <3>3, <4>2 DEF Owes
    <3>4. CASE fl[g].pc = "insert"
      BY <1>4, <1>5, <2>1, <3>4 DEF Owes
    <3>5. CASE g = f
      BY <1>4, <1>5, <2>1, <3>2, <3>5 DEF Owes
    <3> QED
      BY <2>1, <3>3, <3>4, <3>5 DEF Owes
  <2> QED
    BY <1>4, <2>1 DEF JInv, Owed, Calm, Kept
<1> QED
  BY <1>4, <1>6, <1>8, <1>9, <1>10 DEF JInv

(* What the flush owed is in the row now; what the row had is there still. *)
LEMMA CommittedCarries == ASSUME IInv, IInv', JInv, NEW f \in Flushes, Committed(f) PROVE JInv'
<1>1. /\ UNCHANGED <<backend, data, prim, file, rl, mixed, gone, clock, faults>>
      /\ fl[f].pc = "insert" /\ row' = fl[f].text /\ fl'[f] = NoFlush
      /\ \A g \in Flushes \ {f} : fl'[g] = fl[g]
  BY DEF Committed, IInv, Types
<1>2. Upto(NoFlush.text.recs, clock) /\ Upto(NoFlush.asked, clock)
  BY EmptyUpto, Shapes, EmptyIsSnapshot, UptoLater DEF NoFlush, Upto, Empty
<1>3. Stamped'
  BY <1>1, <1>2 DEF JInv, Stamped
<1>4. \A i \in Kept : /\ row'.recs[i] \in Nat /\ row.recs[i] \in Nat /\ file.recs[i] \in Nat
                      /\ row'.recs[i] >= row.recs[i]
  BY <1>1, Shapes, KeptAreIds DEF IInv, Ahead, Records
<1>5. Carried' /\ Taken' /\ Unmixed'
  BY <1>1, ResetFlush DEF JInv, Carried, Carries, Has, Taken, Unmixed, Calm
<1>6. Owed'
  <2> SUFFICES ASSUME Calm', NEW i \in (Kept \ gone)', ~(row'.recs[i] >= file'.recs[i])
               PROVE  \E g \in Flushes : Owes(g, i)'
    BY DEF Owed
  <2>1. Calm /\ i \in Kept \ gone
    BY <1>1 DEF Calm, Kept
  <2>2. PICK g \in Flushes : Owes(g, i)
    BY <1>1, <1>4, <2>1 DEF JInv, Owed
  <2>3. g # f
    BY <1>1, <2>2 DEF Owes
  <2> QED
    BY <1>1, <2>2, <2>3 DEF Owes
<1> QED
  BY <1>1, <1>3, <1>5, <1>6 DEF JInv

LEMMA FaultCounts == ASSUME JInv, Fault PROVE faults' \in Nat /\ faults' # 0
  BY DEF JInv, Fault

LEMMA FlushFailsCarries == ASSUME IInv, IInv', JInv, NEW f \in Flushes, FlushFails(f) PROVE JInv'
<1>1. /\ UNCHANGED <<backend, row, data, prim, file, rl, mixed, gone, clock>>
      /\ faults' \in Nat /\ faults' # 0
      /\ fl'[f] = NoFlush /\ \A g \in Flushes \ {f} : Alike(fl'[g], fl[g])
  BY ResetFlush, LeavesTypes, FaultCounts DEF FlushFails
<1>2. Upto(NoFlush.text.recs, clock) /\ Upto(NoFlush.asked, clock)
  BY EmptyUpto, Shapes, EmptyIsSnapshot, UptoLater DEF NoFlush, Upto, Empty
<1>3. Stamped'
  BY <1>1, <1>2 DEF JInv, Stamped, Alike
<1>4. Carried' /\ Taken'
  BY <1>1, ResetFlush DEF JInv, Carried, Carries, Has, Taken, Alike
<1>5. Unmixed' /\ Owed'
  BY <1>1 DEF Unmixed, Owed, Calm
<1> QED
  BY <1>1, <1>3, <1>4, <1>5 DEF JInv

LEMMA ReloadStartCarries == ASSUME IInv, IInv', JInv, NEW p \in Procs, ReloadStart(p) PROVE JInv'
<1>1. /\ UNCHANGED <<backend, row, lock, data, prim, file, fl, mixed, gone, clock, faults>>
      /\ rl'[p].read = row \/ rl'[p].read = file
      /\ \A q \in Procs \ {p} : rl'[q] = rl[q]
  BY DEF ReloadStart, IInv, Types
<1>2. Stamped'
  BY <1>1 DEF JInv, Stamped
<1> QED
  BY <1>1, <1>2 DEF JInv, Carried, Carries, Has, Taken, Unmixed, Owed, Owes, Calm

LEMMA ReloadFailsCarries == ASSUME IInv, IInv', JInv, NEW p \in Procs, ReloadFails(p) PROVE JInv'
<1>1. /\ UNCHANGED <<backend, row, lock, data, prim, file, fl, mixed, gone, clock>>
      /\ faults' \in Nat /\ faults' # 0
      /\ rl'[p] = NoReload /\ \A q \in Procs \ {p} : rl'[q] = rl[q]
  BY FaultCounts DEF ReloadFails, IInv, Types
<1>2. Upto(NoReload.read.recs, clock)
  BY EmptyUpto, Shapes, EmptyIsSnapshot, UptoLater DEF NoReload, Upto, Empty
<1>3. Stamped'
  BY <1>1, <1>2 DEF JInv, Stamped
<1> QED
  BY <1>1, <1>3 DEF JInv, Carried, Carries, Has, Taken, Unmixed, Owed, Owes, Calm

(* A reload takes the memory from the flushes that still need it, and      *)
(* marks them.                                                             *)
LEMMA SweptMarks ==
  ASSUME IInv, NEW p \in Procs, NEW pcs, Swept(p, pcs)
  PROVE  \A f \in Flushes :
           /\ fl'[f].pc = fl[f].pc /\ fl'[f].text = fl[f].text /\ fl'[f].asked = fl[f].asked
           /\ fl'[f].mem = IF f[1] = p /\ fl[f].pc \in pcs THEN "replaced" ELSE fl[f].mem
           /\ ~mixed' => ~mixed /\ ~(backend = "dual" /\ f[1] = p /\ fl[f].pc \in pcs)
<1>1. \A f \in Flushes : fl[f] \in Flush
  BY DEF IInv, Types
<1>2. \A f \in Flushes :
        fl'[f] = IF f[1] = p /\ fl[f].pc \in pcs THEN [fl[f] EXCEPT !.mem = "replaced"] ELSE fl[f]
  BY DEF Swept
<1>3. \A f \in Flushes :
        ~mixed' => ~mixed /\ ~(backend = "dual" /\ f[1] = p /\ fl[f].pc \in pcs)
  BY DEF Swept
<1>4. ASSUME NEW f \in Flushes
      PROVE  /\ fl'[f].pc = fl[f].pc /\ fl'[f].text = fl[f].text /\ fl'[f].asked = fl[f].asked
             /\ fl'[f].mem = IF f[1] = p /\ fl[f].pc \in pcs THEN "replaced" ELSE fl[f].mem
  BY <1>1, <1>2 DEF Flush
<1> QED
  BY <1>3, <1>4

LEMMA SweptIsCalm == ASSUME NEW p \in Procs, NEW pcs, Swept(p, pcs), ~mixed' PROVE ~mixed
  BY DEF Swept

LEMMA ReloadFileCarries == ASSUME IInv, IInv', JInv, NEW p \in Procs, ReloadFile(p) PROVE JInv'
<1>1. /\ UNCHANGED <<backend, row, lock, data, file, gone, clock, faults>>
      /\ prim'[p] = Shaped(rl[p].read) /\ rl'[p].read = row
      /\ \A q \in Procs \ {p} : prim'[q] = prim[q] /\ rl'[q] = rl[q]
  BY DEF ReloadFile, IInv, Types
<1>2. \A f \in Flushes :
        /\ fl'[f].pc = fl[f].pc /\ fl'[f].text = fl[f].text /\ fl'[f].asked = fl[f].asked
        /\ fl'[f].mem = IF f[1] = p /\ fl[f].pc \in {"file", "select"} THEN "replaced" ELSE fl[f].mem
        /\ ~mixed' => ~mixed /\ ~(backend = "dual" /\ f[1] = p /\ fl[f].pc \in {"file", "select"})
  BY SweptMarks DEF ReloadFile
<1>3. Upto(Shaped(rl[p].read).recs, clock)
  BY ShapedUpto DEF JInv, Stamped, IInv, Types, Reload
<1>4. Stamped'
  BY <1>1, <1>2, <1>3 DEF JInv, Stamped
<1>5. Carried'
  BY <1>1, <1>2, FlushIsNotNone DEF JInv, Carried, Carries, Has
<1>6. Taken'
  BY <1>1, <1>2 DEF JInv, Taken
<1>7. Unmixed'
  BY <1>1, <1>2 DEF JInv, Unmixed, Calm
<1>8. Owed'
  <2> SUFFICES ASSUME Calm', NEW i \in (Kept \ gone)', ~(row'.recs[i] >= file'.recs[i])
               PROVE  \E g \in Flushes : Owes(g, i)'
    BY DEF Owed
  <2>1. Calm /\ i \in Kept \ gone
    BY <1>1, SweptIsCalm DEF Calm, Kept, ReloadFile
  <2>2. PICK g \in Flushes : Owes(g, i)
    BY <1>1, <2>1 DEF JInv, Owed
  <2> QED
    BY <1>1, <1>2, <2>2 DEF Owes
<1> QED
  BY <1>1, <1>4, <1>5, <1>6, <1>7, <1>8 DEF JInv

LEMMA ReloadRowCarries == ASSUME IInv, IInv', JInv, NEW p \in Procs, ReloadRow(p) PROVE JInv'
<1>1. /\ UNCHANGED <<backend, row, lock, prim, file, gone, clock, faults>>
      /\ data'[p] = Shaped(rl[p].read) /\ rl'[p] = NoReload
      /\ \A q \in Procs \ {p} : data'[q] = data[q] /\ rl'[q] = rl[q]
  BY DEF ReloadRow, IInv, Types
<1>2. \A f \in Flushes :
        /\ fl'[f].pc = fl[f].pc /\ fl'[f].text = fl[f].text /\ fl'[f].asked = fl[f].asked
        /\ fl'[f].mem = IF f[1] = p /\ fl[f].pc \in {"select"} THEN "replaced" ELSE fl[f].mem
        /\ ~mixed' => ~mixed /\ ~(backend = "dual" /\ f[1] = p /\ fl[f].pc \in {"select"})
  BY SweptMarks DEF ReloadRow
<1>3. Upto(Shaped(rl[p].read).recs, clock)
  BY ShapedUpto DEF JInv, Stamped, IInv, Types, Reload
<1>4. Upto(NoReload.read.recs, clock)
  BY EmptyUpto, Shapes, EmptyIsSnapshot, UptoLater DEF NoReload, Upto, Empty
<1>5. Stamped'
  BY <1>1, <1>2, <1>3, <1>4 DEF JInv, Stamped
<1>6. Carried'
  BY <1>1, <1>2, FlushIsNotNone DEF JInv, Carried, Carries, Has
<1>7. Taken'
  BY <1>1, <1>2 DEF JInv, Taken
<1>8. Unmixed'
  BY <1>1, <1>2 DEF JInv, Unmixed, Calm
<1>9. Owed'
  <2> SUFFICES ASSUME Calm', NEW i \in (Kept \ gone)', ~(row'.recs[i] >= file'.recs[i])
               PROVE  \E g \in Flushes : Owes(g, i)'
    BY DEF Owed
  <2>1. Calm /\ i \in Kept \ gone
    BY <1>1, SweptIsCalm DEF Calm, Kept, ReloadRow
  <2>2. PICK g \in Flushes : Owes(g, i)
    BY <1>1, <2>1 DEF JInv, Owed
  <2>3. fl[g].pc = "select" => g[1] # p
    BY <1>2, <2>1 DEF Calm
  <2> QED
    BY <1>1, <1>2, <2>2, <2>3, FlushIsNotNone DEF Owes
<1> QED
  BY <1>1, <1>5, <1>6, <1>7, <1>8, <1>9 DEF JInv

LEMMA CrashCarries == ASSUME IInv, IInv', JInv, NEW p \in Procs, Crash(p) PROVE JInv'
<1>1. /\ UNCHANGED <<backend, row, file, mixed, gone, clock>>
      /\ faults' \in Nat /\ faults' # 0
      /\ data'[p] = Shaped(row) /\ prim'[p] = Shaped(file) /\ rl'[p] = NoReload
      /\ \A q \in Procs \ {p} : data'[q] = data[q] /\ prim'[q] = prim[q] /\ rl'[q] = rl[q]
      /\ \A f \in Flushes : fl'[f] = IF f[1] = p THEN NoFlush ELSE fl[f]
  BY FaultCounts DEF Crash, IInv, Types
<1>2. /\ Upto(NoFlush.text.recs, clock) /\ Upto(NoFlush.asked, clock) /\ Upto(NoReload.read.recs, clock)
  BY EmptyUpto, Shapes, EmptyIsSnapshot, UptoLater DEF NoReload, NoFlush, Upto, Empty
<1>3. Upto(Shaped(row).recs, clock) /\ Upto(Shaped(file).recs, clock)
  BY ShapedUpto DEF JInv, Stamped, IInv, Types
<1>4. Stamped'
  BY <1>1, <1>2, <1>3 DEF JInv, Stamped
<1>5. Carried' /\ Taken'
  BY <1>1, ResetFlush, FlushIsNotNone DEF JInv, Carried, Carries, Has, Taken
<1>6. Unmixed' /\ Owed'
  BY <1>1 DEF Unmixed, Owed, Calm
<1> QED
  BY <1>1, <1>4, <1>5, <1>6 DEF JInv

LEMMA NextJInv == IInv /\ JInv /\ [Next]_vars => IInv' /\ JInv'
<1> SUFFICES ASSUME IInv, JInv, [Next]_vars PROVE IInv' /\ JInv'
  OBVIOUS
<1>1. IInv'
  BY NextIInv
<1>2. CASE UNCHANGED vars
  BY <1>1, <1>2 DEF vars, JInv, Stamped, Carried, Carries, Has, Taken, Unmixed, Owed, Owes, Calm
<1>3. ASSUME NEW p \in Procs,
             \/ Change(p) \/ ReloadStart(p) \/ ReloadFile(p) \/ ReloadRow(p)
             \/ ReloadFails(p) \/ Crash(p) \/ \E i \in Ids : Remove(p, i)
      PROVE  JInv'
  BY <1>1, <1>3, ChangeCarries, ReloadStartCarries, ReloadFileCarries, ReloadRowCarries,
     ReloadFailsCarries, CrashCarries, RemoveCarries
<1>4. ASSUME NEW f \in Flushes,
             FlushStart(f) \/ FileWritten(f) \/ Selected(f) \/ Committed(f) \/ FlushFails(f)
      PROVE  JInv'
  BY <1>1, <1>4, FlushStartCarries, FileWrittenCarries, SelectedCarries, CommittedCarries,
     FlushFailsCarries
<1> QED
  BY <1>1, <1>2, <1>3, <1>4 DEF Next

(* A flush returns by committing, and nothing else.                        *)
LEMMA ReturnsByCommit ==
  ASSUME IInv, JInv, [Next]_vars, NEW f \in Flushes, Returns(f)
  PROVE  Committed(f)
<1>1. fl[f].pc = "insert" /\ fl'[f].pc = "idle" /\ faults' = faults /\ ~UNCHANGED vars
  BY DEF Returns, vars
<1>2. ASSUME Fault PROVE FALSE
  BY <1>1, <1>2 DEF Fault, JInv
<1>3. ASSUME NEW p \in Procs,
             \/ Change(p) \/ ReloadStart(p) \/ ReloadFile(p) \/ ReloadRow(p)
             \/ ReloadFails(p) \/ Crash(p) \/ \E i \in Ids : Remove(p, i)
      PROVE  FALSE
  <2>1. Swept(p, {"file", "select"}) \/ Swept(p, {"select"}) => FALSE
    BY <1>1, SweptMarks
  <2> QED
    BY <1>1, <1>2, <1>3, <2>1 DEF Change, ReloadStart, ReloadFile, ReloadRow, ReloadFails, Crash, Remove
<1>4. ASSUME NEW g \in Flushes,
             FlushStart(g) \/ FileWritten(g) \/ Selected(g) \/ FlushFails(g) \/ (Committed(g) /\ g # f)
      PROVE  FALSE
  <2>1. CASE FlushStart(g)
    BY <1>1, <2>1 DEF FlushStart, Free, IInv, Types
  <2>2. CASE FileWritten(g)
    <3>1. fl'[f].pc = fl[f].pc \/ fl'[f].pc = "select"
      BY <2>2 DEF FileWritten, Leaves, IInv, Types, Flush
    <3> QED
      BY <1>1, <3>1
  <2>3. CASE Selected(g)
    BY <1>1, <2>3 DEF Selected, IInv, Types, Flush
  <2>4. CASE FlushFails(g)
    BY <1>2, <2>4 DEF FlushFails
  <2>5. CASE Committed(g) /\ g # f
    BY <1>1, <2>5 DEF Committed, IInv, Types
  <2> QED
    BY <1>4, <2>1, <2>2, <2>3, <2>4, <2>5
<1> QED
  BY <1>1, <1>3, <1>4 DEF Next

(* What write() was asked to store is in the row when it returns.          *)
THEOREM WritesAreStored == Spec => WrittenIsStored
<1>1. Spec => [](IInv /\ JInv)
  BY InitIInv, InitJInv, NextJInv, PTL DEF Spec
<1> DEFINE Stored == \A f \in Flushes : Returns(f) /\ fl[f].mem = "same"
                       => \A i \in Kept \ gone : row'.recs[i] >= fl[f].asked[i]
<1>2. IInv /\ JInv /\ [Next]_vars => [Stored]_vars
  <2> SUFFICES ASSUME IInv, JInv, [Next]_vars, NEW f \in Flushes, Returns(f), fl[f].mem = "same",
                      NEW i \in Kept \ gone
               PROVE  row'.recs[i] >= fl[f].asked[i]
    OBVIOUS
  <2>1. Committed(f)
    BY ReturnsByCommit
  <2> QED
    BY <2>1 DEF Committed, JInv, Carried, Carries, Has
<1> QED
  BY <1>1, <1>2, PTL DEF Spec, WrittenIsStored

(* The shadow has caught up with the file once every write has returned.   *)
THEOREM ShadowKeepsUp == Spec => []ShadowIsNotBehind
<1>1. IInv /\ JInv => ShadowIsNotBehind
  BY DEF JInv, Owed, Owes, Calm, ShadowIsNotBehind
<1> QED
  BY <1>1, InitIInv, InitJInv, NextJInv, PTL DEF Spec
=============================================================================
