------------------------ MODULE ExperimentGovernance ------------------------
(***************************************************************************)
(* One optimization with its experiment: the worker evaluates candidates   *)
(* (core/optimizerWorker.ts), is killed and starts again from what is      *)
(* stored, while the owner promotes trials to champions and applies them   *)
(* to the live rules (server/index.ts, core/experimentGovernance.ts).      *)
(*                                                                         *)
(* Server and worker each hold a snapshot and flush it into the Postgres   *)
(* row, which merges by id: of two versions of a record the newer one      *)
(* stays, the flushed one if they are equally old.  Champions have only    *)
(* the time of their creation.  The live rules are not merged.             *)
(***************************************************************************)
EXTENDS ResearchReports, Functions

CONSTANTS
  Tables,           (* of results: for each candidate of the grid a summary *)
                    (* of every window, or Error                            *)
  MaxCandidates,    (* of a larger grid so many are drawn at random         *)
  Criteria,         (* of acceptance                                        *)
  SampleEvery, MaxPersisted, (* OPTIMIZER_...: of trials that are stored    *)
  SourceRange,      (* [from, to] of the source run, in quarters of a month *)
  MaxQuarter,       (* bound of the ranges whose schedules are checked      *)
  Requests,         (* the owner's                                          *)
  MaxStarts, MaxChampions,   (* bounds                                      *)
  Error, None

VARIABLES
  results,   (* of each candidate: the engine is deterministic              *)
  row,       (* the stored snapshot                                         *)
  worker,    (* pc, mem: its snapshot, order: of the candidates, opened     *)
  starts,    (* of the worker                                               *)
  server,    (* the snapshot of the server                                  *)
  request,   (* pc, read                                                    *)
  stale      (* ghost: champions were flushed over others than were loaded  *)

vars == <<results, row, worker, starts, server, request, stale>>

(* A snapshot: the optimization (seen, a ghost, lists the candidates it    *)
(* counts as evaluated), the experiment, trials and champions by id, the   *)
(* champion whose rules are live, and loaded, a ghost: the champions that  *)
(* were in the row when the snapshot last met it.                          *)
Incumbent == [status |-> "active", trial |-> None, by |-> None]
First == [opt      |-> [at |-> 0, status |-> "queued", evaluated |-> 0, total |-> 0, best |-> None, seen |-> <<>>],
          exp      |-> [at |-> 0, status |-> "queued", candidate |-> None, champion |-> None],
          trials   |-> <<>>,
          champs   |-> (0 :> Incumbent),
          live     |-> 0,
          loaded   |-> (0 :> Incumbent)]

Idle == [pc |-> "down", mem |-> First, order |-> <<>>]

Init ==
  /\ results \in Tables
  /\ row = First /\ worker = Idle /\ starts = 0 /\ server = First
  /\ request = [r \in Requests |-> [pc |-> "idle", read |-> First]] /\ stale = FALSE

-----------------------------------------------------------------------------
(* A flush                                                                 *)

Newer(current, local) == IF local.at >= current.at THEN local ELSE current

(* Both the row and the memory of who flushes become the merge.            *)
Merge(current, local) ==
  LET champs == local.champs @@ current.champs IN
    [opt |-> Newer(current.opt, local.opt), exp |-> Newer(current.exp, local.exp),
     trials |-> local.trials @@ current.trials, champs |-> champs, live |-> local.live, loaded |-> champs]

Flushed(local) ==
  /\ row' = Merge(row, local)
  /\ stale' = (stale \/ local.loaded # row.champs)

-----------------------------------------------------------------------------
(* The worker                                                              *)

Schedule(range) == BuildRollingWindowSchedule(range.from, range.to, 3, 1, 1, 4)
Windows == Schedule(SourceRange)

(* generateCandidates: the whole grid in its order, or a random sample.    *)
Orders ==
  LET n == Cardinality(DOMAIN results) IN
    IF n <= MaxCandidates THEN {[i \in 1 .. n |-> i]}
    ELSE {f \in [1 .. MaxCandidates -> 1 .. n] : IsInjective(f)}

(* executeOptimization until the candles are loaded                        *)
Start ==
  /\ worker.pc = "down" /\ starts < MaxStarts
  /\ \/ row.opt.status \in {"queued", "running"}
     \/ row.opt.status = "failed" /\ row.opt.evaluated \in 1 .. row.opt.total - 1
  /\ starts' = starts + 1
  /\ LET mem == [row EXCEPT !.opt.status = "running", !.opt.at = @ + 1,
                            !.exp.status = "running", !.exp.at = Max({@, 1})]
     IN  worker' = [Idle EXCEPT !.pc = "loading", !.mem = Merge(row, mem)] /\ Flushed(mem)
  /\ UNCHANGED <<results, server, request>>

(* Candidates are counted from where the optimization got to.              *)
Load(order) ==
  /\ worker.pc = "loading" /\ order \in Orders
  /\ LET mem == [worker.mem EXCEPT !.opt.at = @ + 1, !.opt.total = Len(order),
                                   !.opt.evaluated = Min({Len(order), @})]
     IN  worker' = [pc |-> "evaluating", mem |-> Merge(row, mem), order |-> order] /\ Flushed(mem)
  /\ UNCHANGED <<results, starts, server, request>>

(* The windows up to the first that prunes the trial.                      *)
Judged(ws) ==
  LET n      == Min({Len(ws), Len(Windows)})
      pruned == {i \in 1 .. n : ShouldEarlyPruneTrial(Criteria, ws[i])}
  IN  IF pruned = {} THEN [status |-> "completed", windows |-> SubSeq(ws, 1, n)]
      ELSE [status |-> "pruned", windows |-> SubSeq(ws, 1, Min(pruned))]

Trial(c) == IF results[c] = Error THEN [status |-> "failed", windows |-> <<>>, cand |-> c]
            ELSE [cand |-> c] @@ Judged(results[c])
Metrics(t) == CombineSummaries(t.windows)
Net(t)     == Metrics(t).netPnl

(* compactPersistedTrialsForOptimization: best and candidate stay, and the *)
(* newest of the others.                                                   *)
Compacted(mem) ==
  LET pinned == {mem.opt.best, mem.exp.candidate} \cap DOMAIN mem.trials
      others == DOMAIN mem.trials \ pinned
      kept   == pinned \cup {t \in others :
                  Cardinality(pinned \cup {u \in others : u > t}) < MaxPersisted}
  IN  IF Cardinality(DOMAIN mem.trials) <= MaxPersisted THEN mem
      ELSE [mem EXCEPT !.trials = [t \in kept |-> mem.trials[t]]]

Persisted(mem, id, trial) == Compacted([mem EXCEPT !.trials = (id :> trial) @@ @])

(* Trials are numbered in the order in which they are made.                *)
Id(i) == starts * 10 + i

(* Mutant: the best of before is forgotten when the worker starts again. *)
WithBestFresh(mem, id, trial) ==
  LET best == mem.opt.best IN
    IF trial.status = "completed" /\ (best = None \/ best < starts * 10 \/ Net(trial) > Net(mem.trials[best]))
    THEN Persisted([mem EXCEPT !.opt.best = id, !.exp.candidate = id], id, trial) ELSE mem

(* A completed trial with a higher objective becomes best and candidate.   *)
WithBest(mem, id, trial) ==
  LET best == mem.opt.best IN
    IF trial.status = "completed" /\ (best = None \/ Net(trial) > Net(mem.trials[best]))
    THEN Persisted([mem EXCEPT !.opt.best = id, !.exp.candidate = id], id, trial) ELSE mem

(* One candidate; flush: progress is stored after it.                      *)
Evaluate(flush) ==
  LET i     == worker.mem.opt.evaluated + 1
      c     == worker.order[i]
      trial == Trial(c)
      mem1  == WithBest(worker.mem, Id(i), trial)
      mem2  == IF mem1.opt.best # Id(i) /\ (i % SampleEvery = 0 \/ i = Len(worker.order))
               THEN Persisted(mem1, Id(i), trial) ELSE mem1
      mem   == [mem2 EXCEPT !.opt.evaluated = i, !.opt.at = @ + 1, !.opt.seen = Append(@, c)]
  IN  /\ worker.pc = "evaluating" /\ i <= Len(worker.order)
      /\ IF flush THEN worker' = [worker EXCEPT !.mem = Merge(row, mem)] /\ Flushed(mem)
         ELSE worker' = [worker EXCEPT !.mem = mem] /\ UNCHANGED <<row, stale>>
      /\ UNCHANGED <<results, starts, server, request>>

(* pickBestTrial: which of several best ones depends on how the trials lie *)
(* in their array.                                                         *)
Best(mem) ==
  LET completed == {t \in DOMAIN mem.trials : mem.trials[t].status = "completed"}
  IN  {t \in completed : \A u \in completed : Net(mem.trials[u]) <= Net(mem.trials[t])}

Finish ==
  /\ worker.pc = "evaluating" /\ worker.mem.opt.evaluated = Len(worker.order)
  /\ \E t \in IF Best(worker.mem) = {} THEN {worker.mem.exp.candidate} ELSE Best(worker.mem) :
       LET mem == Compacted([worker.mem EXCEPT !.exp.candidate = t, !.exp.status = "completed", !.exp.at = 2,
                                               !.opt.status = "completed", !.opt.at = @ + 1])
       IN  worker' = [worker EXCEPT !.pc = "down", !.mem = First, !.order = <<>>] /\ Flushed(mem)
  /\ UNCHANGED <<results, starts, server, request>>

(* No candles: the optimization fails.                                     *)
LoadFails ==
  /\ worker.pc = "loading"
  /\ Flushed([worker.mem EXCEPT !.opt.status = "failed", !.opt.at = @ + 1, !.exp.status = "failed", !.exp.at = 2])
  /\ worker' = Idle
  /\ UNCHANGED <<results, starts, server, request>>

(* The process dies; what it has not flushed is lost.                      *)
Crash ==
  /\ worker.pc # "down" /\ worker' = Idle
  /\ UNCHANGED <<results, row, starts, server, request, stale>>

-----------------------------------------------------------------------------
(* The owner's requests.  A reload reads the row and arrives later; what   *)
(* it brings becomes the memory of the server, is changed at once and then *)
(* flushed, with whatever the memory holds by then.                        *)

Reads(r) ==
  /\ request[r].pc = "idle"
  /\ request' = [request EXCEPT ![r] = [pc |-> "reading", read |-> [row EXCEPT !.loaded = row.champs]]]
  /\ UNCHANGED <<results, row, worker, starts, server, stale>>

Replies(r) == request' = [request EXCEPT ![r].pc = "idle", ![r].read = First]
Writes(r)  == request' = [request EXCEPT ![r].pc = "writing", ![r].read = First]

Promotable(s, t) ==
  /\ t \in DOMAIN s.trials /\ s.trials[t].status = "completed"
  /\ EvaluateChampionAcceptance(Criteria, Metrics(s.trials[t]), s.trials[t].windows)

Active(s) == {c \in DOMAIN s.champs : s.champs[c].status = "active"}
Fresh == Cardinality(DOMAIN row.champs \cup DOMAIN server.champs)

(* Mutant: the champion of before stays active. *)
PromotedBeside(s, t, old) ==
  LET champ == [status |-> "active", trial |-> t, by |-> None]
  IN  [s EXCEPT !.champs = (Fresh :> champ) @@ @,
                !.exp.candidate = t, !.exp.champion = Fresh, !.exp.status = "promoted"]

(* promoteChampionTrial; the first active champion that is found is        *)
(* replaced.                                                               *)
Promoted(s, t, old) ==
  LET champ == [status |-> "active", trial |-> t, by |-> None]
      with  == IF old = None THEN s.champs
               ELSE [s.champs EXCEPT ![old].status = "replaced", ![old].by = Fresh]
  IN  [s EXCEPT !.champs = (Fresh :> champ) @@ with,
                !.exp.candidate = t, !.exp.champion = Fresh, !.exp.status = "promoted"]

Promote(r, t) ==
  LET s == request[r].read IN
  /\ request[r].pc = "reading" /\ Fresh <= MaxChampions /\ Promotable(s, t)
  /\ \E old \in IF Active(s) = {} THEN {None} ELSE Active(s) : server' = Promoted(s, t, old)
  /\ Writes(r) /\ UNCHANGED <<results, row, worker, starts, stale>>

(* POST /api/champions/:id/apply *)
Apply(r, c) ==
  LET s == request[r].read IN
  /\ request[r].pc = "reading" /\ c \in Active(s)
  /\ server' = [s EXCEPT !.live = c]
  /\ Writes(r) /\ UNCHANGED <<results, row, worker, starts, stale>>

(* Not found, not completed, not accepted, not active.                     *)
Refuse(r) ==
  /\ request[r].pc = "reading"
  /\ server' = request[r].read /\ Replies(r)
  /\ UNCHANGED <<results, row, worker, starts, stale>>

Write(r) ==
  /\ request[r].pc = "writing"
  /\ server' = Merge(row, server) /\ Flushed(server) /\ Replies(r)
  /\ UNCHANGED <<results, worker, starts>>

Next ==
  \/ Start \/ LoadFails \/ Finish \/ Crash
  \/ \E order \in Orders : Load(order)
  \/ \E flush \in BOOLEAN : Evaluate(flush)
  \/ \E r \in Requests : \/ Reads(r) \/ Refuse(r) \/ Write(r)
                         \/ \E t \in DOMAIN request[r].read.trials : Promote(r, t)
                         \/ \E c \in DOMAIN request[r].read.champs : Apply(r, c)

Spec == Init /\ [][Next]_vars

-----------------------------------------------------------------------------
(* Properties                                                              *)

(* However often the worker dies, and whatever it had not yet stored: when *)
(* the optimization is completed, as many candidates count as evaluated as *)
(* there are, and both its best trial and the candidate of the experiment  *)
(* are stored trials with the highest objective of them all.               *)
TheBestIsFound ==
  LET completed == {c \in Range(row.opt.seen) : Trial(c).status = "completed"}
      IsBest(t) == /\ t \in DOMAIN row.trials
                   /\ \A c \in completed : Net(Trial(c)) <= Net(row.trials[t])
  IN  row.opt.status = "completed" =>
        /\ Len(row.opt.seen) = row.opt.total
        /\ completed # {} => IsBest(row.opt.best)
        /\ completed # {} /\ row.exp.status = "completed" => IsBest(row.exp.candidate)

(* Of how many tests the candle that closes then is a part.                *)
Tests(ws, close) == Cardinality({i \in DOMAIN ws : Trades(ws[i], close)})

(* EXPERIMENT_GOVERNANCE_2026-04-26.md:34: "the scheduler falls back to    *)
(* one deterministic full-range test window".  Otherwise each test comes   *)
(* after its training, less than a month is left at the end, and every     *)
(* candle from the first test to the last is traded: in one test, or in    *)
(* two if it closes where one ends and the next begins                     *)
(* (backtestEngine.ts:278, optimizerWorker.ts:234).                        *)
TestsTile ==
  row = First => \A from \in 0 .. MaxQuarter : \A to \in from + 1 .. MaxQuarter :
    LET ws    == Schedule([from |-> from, to |-> to])
        n     == Len(ws)
        seams == {ws[i].testFrom : i \in 2 .. n}
        known == from + 1 .. to   (* the closes of the candles of the range *)
    IN  IF ws[1].trainFrom = ws[1].testFrom
        THEN n = 1 /\ \A close \in known : Tests(ws, close) = 1
        ELSE /\ \A i \in 1 .. n : ws[i].trainFrom < ws[i].testFrom /\ ws[i].testFrom < ws[i].testTo
             /\ to - ws[n].testTo \in 0 .. 3
             /\ \A close \in known : Tests(ws, close) =
                  IF close \notin ws[1].testFrom .. ws[n].testTo THEN 0 ELSE IF close \in seams THEN 2 ELSE 1

(* No candle is traded in two tests.  Does not hold: both ends of a test   *)
(* belong to it.                                                           *)
TestsAreApart == \A close \in 1 .. MaxQuarter : Tests(Schedule([from |-> 0, to |-> MaxQuarter]), close) <= 1

(* One champion is active, unless champions were flushed over others than  *)
(* those that had been loaded; and the one that replaced another is there. *)
OneActiveUnlessStale ==
  /\ Cardinality(Active(row)) = 1 \/ stale
  /\ \A c \in DOMAIN row.champs : row.champs[c].status = "replaced" => row.champs[c].by \in DOMAIN row.champs

(* promoteChampionTrial (experimentGovernance.ts:594) replaces the active  *)
(* champion by the new one.  One stays active.  Does not hold: the worker, *)
(* or a second request, flushes the old version of the replaced champion.  *)
OneActive == Cardinality(Active(row)) = 1

(* index.ts:8164: "active champion applied to live Trading Rules".  The    *)
(* rules that are live change only by applying a champion.  Does not hold. *)
AppliedStays ==
  [][row'.live # row.live => \E r \in Requests : request[r].pc = "writing" /\ request'[r].pc = "idle"]_vars

(* optimizerWorker.ts:176: "If the full grid exceeds the cap, it samples   *)
(* uniformly."  No candidate is evaluated twice.  Does not hold: a worker  *)
(* that starts again goes on in the middle of another sample.              *)
NoneTwice == IsInjective(row.opt.seen)
=============================================================================
