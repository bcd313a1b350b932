------------------------------ MODULE AlphaRadar ------------------------------
(***************************************************************************)
(* The radar of the server (server/index.ts, alphaRadar*.ts): collectors   *)
(* of the two planes, timed or asked for, that fetch what is due, the      *)
(* observations they save, the evidence these are bundled into, the signal *)
(* candidates and the policy book made of the evidence, and the entries    *)
(* that follow the book.  A story is a text: title, excerpt and tags; what *)
(* source and story name has one link and, in a feed, one id.              *)
(***************************************************************************)
EXTENDS Integers, Sequences, FiniteSets, FiniteSetsExt, SequencesExt, TLC

CONSTANTS
  Feeds, Monitors,     (* sources of the external and of the market plane    *)
  Telegram, Ticks,     (* the connector with a worker; the server's own prices *)
  Stories,             (* of a source                                        *)
  SymbolOf, ToneOf, SeverityOf, LengthOf,  (* of a story: ToneOf in hundredths *)
  Likeness,            (* of two stories, a set: shared words, in hundredths   *)
  ClassOf, LayerOf,    (* of a source                                        *)
  GroupOf,             (* of a monitor                                       *)
  Monitored,           (* the enabled coins of the trading rules             *)
  Cadence,             (* after which a source is due again                  *)
  CandidateTtl, BundleTtl, Lockout,
  MaxObservations, MaxBundles,
  MaxRuns, MaxStarts, MaxEdits, MaxTime, Reach,   (* bounds                   *)
  FreshWindow, StaleWindow, NoveltyLookback,
  StaleAfter, LiveBudget, CarryBudget, WeekendCarry, SessionHours, Weekend,
  None

VARIABLES
  now,
  settings,      (* alphaRadar: the enabled feeds and connectors              *)
  runtime,       (* alphaRadarSourceRuntime: [tried, succeeded, failed]       *)
  busy,          (* of the collector of each plane                            *)
  runs,          (* [phase, plane, trigger, settings, due, items, started]    *)
  observations,  (* alphaRadarObservations: [source, story, at]               *)
  bundles,       (* evidenceBundles: [id, link, ids, text, sources, first,    *)
                 (* last, status, updated]                                    *)
  candidates,    (* signalCandidates                                          *)
  policies,      (* radarContextPolicies, by symbol                           *)
  starts, born, edits

vars == <<now, settings, runtime, busy, runs, observations, bundles, candidates, policies,
          starts, born, edits>>
evidence == <<observations, bundles, candidates, policies>>

Planes == {"market", "external"}
External == Feeds \cup {Telegram}
Sources == External \cup Monitors
Entries == INSTANCE SignalCandidates WITH NoOrder <- None
Scoring == INSTANCE RadarScoring
Freshness == INSTANCE SourceHealth WITH Never <- None

Unknown == [tried |-> None, succeeded |-> None, failed |-> FALSE]
Idle == [phase |-> "idle"]

Init ==
  /\ now = 0 /\ settings = External
  /\ runtime = [s \in Sources |-> Unknown]
  /\ busy = [p \in Planes |-> FALSE]
  /\ runs = [r \in 1 .. MaxRuns |-> Idle]
  /\ observations = <<>> /\ bundles = <<>> /\ candidates = {}
  /\ policies = [s \in Monitored |-> None]
  /\ starts = 0 /\ born = 0 /\ edits = 0

-----------------------------------------------------------------------------
(* Collecting                                                              *)

Observed(source) == {observations[i].at : i \in {j \in DOMAIN observations : observations[j].source = source}}

(* The last try of this process or, before the first, the newest that is    *)
(* stored.                                                                  *)
Due(source, at) ==
  LET touched == IF runtime[source].tried # None THEN {runtime[source].tried} ELSE Observed(source)
  IN  \A t \in touched : at - t >= Cadence

SourcesOf(plane, chosen) == IF plane = "market" THEN Monitors ELSE chosen

Start(r, plane, trigger) ==
  /\ runs[r].phase = "idle" /\ \A q \in 1 .. r - 1 : runs[q].phase # "idle"
  /\ starts < MaxStarts /\ starts' = starts + 1
  /\ busy' = [busy EXCEPT ![plane] = TRUE]
  /\ runs' = [runs EXCEPT ![r] =
       [phase |-> "fetching", plane |-> plane, trigger |-> trigger, settings |-> settings, started |-> now,
        due |-> {s \in SourcesOf(plane, settings) \ {Telegram} : trigger = "manual" \/ Due(s, now)}]]
  /\ UNCHANGED <<now, settings, runtime, evidence, born, edits>>

(* kickMarket, kickExternal: the timers, and the start of the server.       *)
Kick(r, plane) == ~busy[plane] /\ Start(r, plane, "auto")
(* The collect routes do not look at busy.                                  *)
Collect(r, plane) == Start(r, plane, "manual")

(* What a source shows: [source, story, at], of the last Reach units.       *)
Published(source) ==
  {[source |-> source, story |-> y, at |-> t] : y \in Stories[source], t \in (0 .. now) \cap (now - Reach .. now)}

(* A run that waits for Telegram's process, and one that has all it can get. *)
AtTelegram(run, items) ==
  [phase |-> "telegram", plane |-> run.plane, settings |-> run.settings, started |-> run.started, items |-> items]
AtSave(run, items) == [phase |-> "saving", plane |-> run.plane, settings |-> run.settings, items |-> items]

(* Mutant: a try that fails leaves no mark but its time.                    *)
AskedQuietly(s, ok) ==
  IF ok THEN [tried |-> now, succeeded |-> now, failed |-> FALSE] ELSE [runtime[s] EXCEPT !.tried = now]

(* What is kept of a source that was asked                                  *)
Asked(s, ok) ==
  IF ok THEN [tried |-> now, succeeded |-> now, failed |-> FALSE]
  ELSE [runtime[s] EXCEPT !.tried = now, !.failed = TRUE]

(* All due feeds or quotes have answered, each for itself: with some items  *)
(* or with an error.  The connectors come after the feeds, due by the time  *)
(* of the start; one that is off only says so, as a failure.  Telegram's is *)
(* a process of its own, waited for without a limit.                        *)
FetchDue(r) ==
  /\ runs[r].phase = "fetching"
  /\ LET due == runs[r].due
         asked == runs[r].plane = "external" /\ (runs[r].trigger = "manual" \/ Due(Telegram, runs[r].started))
         on == Telegram \in runs[r].settings IN
     \E failed \in SUBSET due :
     \E items \in SUBSET UNION {Published(s) : s \in (due \ failed) \cup IF runs[r].plane = "market" THEN {Ticks} ELSE {}} :
       /\ runtime' = [s \in Sources |->
            CASE s \in due -> Asked(s, s \notin failed)
              [] s = Telegram /\ asked /\ ~on ->
                   [tried |-> IF runtime[s].tried = None THEN runs[r].started ELSE runtime[s].tried,
                    succeeded |-> None, failed |-> TRUE]
              [] OTHER -> runtime[s]]
       /\ runs' = [runs EXCEPT ![r] = IF asked /\ on THEN AtTelegram(@, items) ELSE AtSave(@, items)]
  /\ UNCHANGED <<now, settings, busy, evidence, starts, born, edits>>

(* The process has collected, or is not signed in, or has broken off.       *)
WorkerEnds(r) ==
  /\ runs[r].phase = "telegram"
  /\ \E end \in {"connected", "needs_auth", "error"} : \E items \in SUBSET Published(Telegram) :
       /\ end # "connected" => items = {}
       /\ runtime' = [runtime EXCEPT ![Telegram] =
            [tried |-> IF end = "error" THEN runs[r].started ELSE now,
             succeeded |-> CASE end = "connected" -> now [] end = "needs_auth" -> None [] OTHER -> @.succeeded,
             failed |-> end # "connected"]]
       /\ runs' = [runs EXCEPT ![r] = AtSave(@, @.items \cup items)]
  /\ UNCHANGED <<now, settings, busy, evidence, starts, born, edits>>

-----------------------------------------------------------------------------
(* Evidence                                                                *)

(* pruneAlphaRadarObservations drops what is in front.                      *)
PruneObservations(s) == IF Len(s) <= MaxObservations THEN s ELSE SubSeq(s, Len(s) - MaxObservations + 1, Len(s))
FirstOf(s, n) == SubSeq(s, 1, IF Len(s) < n THEN Len(s) ELSE n)
NewestFirst(s) == SortSeq(s, LAMBDA a, b : a.at > b.at)

Ref(item) == <<item.source, item.story>>
IdsOf(item) == IF item.source \in Feeds THEN {Ref(item)} ELSE {}

NewBundle(item, id) ==
  [id |-> id, link |-> Ref(item), ids |-> IdsOf(item), text |-> item.story, sources |-> {item.source},
   first |-> item.at, last |-> item.at, status |-> "active", updated |-> now]

(* Of two texts the longer one stays, the older one if they are as long.    *)
Joined(b, item) ==
  [b EXCEPT !.ids = @ \cup IdsOf(item), !.sources = @ \cup {item.source},
            !.text = IF LengthOf[@] >= LengthOf[item.story] THEN @ ELSE item.story,
            !.last = IF @ > item.at THEN @ ELSE item.at, !.updated = now]

Active(bs) == {i \in DOMAIN bs : bs[i].status = "active"}
Alike(x, y) == IF x = y THEN 100 ELSE Likeness[{x, y}]

(* The first of the most similar active bundles, at least 60 in hundredths. *)
Similar(bs, item) ==
  LET like(i) == Alike(item.story, bs[i].text)
      near == {i \in Active(bs) : like(i) >= 60}
  IN  {i \in near : \A j \in near : like(j) <= like(i)}

(* Mutant: the ids that a bundle has been given are not looked at.          *)
MatchingWithoutIds(bs, item) ==
  LET linked == {i \in Active(bs) : bs[i].link = Ref(item)}
  IN  Min(CASE linked # {} -> linked [] linked = {} /\ Similar(bs, item) # {} -> Similar(bs, item) [] OTHER -> {0})

(* findBundleMatch: the bundle that began with this text and link, else one *)
(* that was joined by this id, else a similar one, else none: 0.            *)
Matching(bs, item) ==
  LET linked == {i \in Active(bs) : bs[i].link = Ref(item)}
      known  == {i \in Active(bs) : Ref(item) \in bs[i].ids}
  IN  CASE linked # {} -> Min(linked)
        [] linked = {} /\ known # {} -> Min(known)
        [] OTHER -> Min(Similar(bs, item) \cup IF Similar(bs, item) = {} THEN {0} ELSE {})

(* One round of the loop of saveAlphaRadarObservations: st is <<stored      *)
(* observations, bundles, next id>>.                                        *)
Ingest(st, item) ==
  LET match == Matching(st[2], item)
  IN  IF Contains(st[1], item) THEN st
      ELSE <<Append(st[1], item),
             IF match = 0 THEN Append(st[2], NewBundle(item, st[3]))
             ELSE [st[2] EXCEPT ![match] = Joined(@, item)],
             IF match = 0 THEN st[3] + 1 ELSE st[3]>>

(* pruneEvidenceBundles: expired bundles stay until later ones push them out. *)
PruneBundles(bs) ==
  FirstOf(SortSeq([i \in DOMAIN bs |->
                     IF bs[i].status = "active" /\ bs[i].last < now - BundleTtl
                     THEN [bs[i] EXCEPT !.status = "expired", !.updated = now] ELSE bs[i]],
                  LAMBDA a, b : a.updated > b.updated), MaxBundles)

-----------------------------------------------------------------------------
(* Candidates                                                              *)

ScoreOf(b) ==
  Scoring!Composite(Scoring!FactorsOf(
    [sources |-> b.sources, classes |-> {ClassOf[s] : s \in b.sources}, layers |-> {LayerOf[s] : s \in b.sources},
     severity |-> SeverityOf[b.text], first |-> b.first, last |-> b.last], now))

(* The first monitored one of the tags, which are only added to.            *)
Symbol(b) == SymbolOf[b.link[2]]

NewCandidate(b) ==
  [bundle |-> b.id, symbol |-> Symbol(b), side |-> IF ToneOf[b.text] < 0 THEN "sell" ELSE "buy",
   state |-> "new", expires |-> b.last + CandidateTtl, score |-> ScoreOf(b), updated |-> now]

MoveIf(c, holds, to) == IF holds /\ to \in Entries!Allowed[c.state] THEN [c EXCEPT !.state = to] ELSE c

(* Mutant: the evidence counts as new whenever it is looked at.             *)
RefreshedByLooking(c, b) ==
  LET scored == [c EXCEPT !.score = ScoreOf(b), !.expires = now + CandidateTtl, !.updated = now]
      valid  == MoveIf(scored, scored.state = "new" /\ scored.score >= 45, "validated")
  IN  MoveIf(valid, valid.state = "validated" /\ valid.score >= 70, "actionable")

(* One that has expired goes no further; thresholds 45 and 70.              *)
Refreshed(c, b) ==
  LET scored == [c EXCEPT !.score = ScoreOf(b), !.expires = b.last + CandidateTtl, !.updated = now]
      valid  == MoveIf(scored, scored.state = "new" /\ scored.score >= 45, "validated")
  IN  IF c.state # "postmortem_ready" /\ scored.expires <= now THEN MoveIf(scored, TRUE, "expired")
      ELSE MoveIf(valid, valid.state = "validated" /\ valid.score >= 70, "actionable")

(* syncSignalCandidatesFromEvidence: only active bundles are looked at.     *)
SyncCandidates(bs, cs) ==
  LET relevant == {bs[i] : i \in {j \in DOMAIN bs : bs[j].status = "active" /\ Symbol(bs[j]) \in Monitored}}
      known(b) == {c \in cs : c.bundle = b.id /\ c.symbol = Symbol(b)}
  IN  {c \in cs : \A b \in relevant : c \notin known(b)}
      \cup UNION {{Refreshed(c, b) : c \in known(b)} : b \in relevant}
      \cup {NewCandidate(b) : b \in {x \in relevant : known(x) = {}}}

-----------------------------------------------------------------------------
(* The policy book                                                         *)

DirectionMode(c, tone) ==
  CASE c.score < 60 -> "blocked"
    [] c.score >= 60 /\ tone \in -11 .. 11 /\ c.score >= 65 -> "both"
    [] OTHER -> IF c.side = "buy" THEN "long_only" ELSE "short_only"

RiskBlocked(c, mode) == mode = "blocked" \/ c.state = "new"

HighImpact(b) ==
  \/ Scoring!Severities[SeverityOf[b.text]] >= 85
  \/ \E s \in b.sources : ClassOf[s] = "macro"

Blocked(why) == [mode |-> "blocked", why |-> why, until |-> None, lockout |-> None, candidate |-> None]

(* buildRadarContextPolicyBook for one symbol: its best candidate decides.  *)
PolicyOf(symbol, bs, cs) ==
  LET live == {c \in cs : c.symbol = symbol /\ c.state \notin {"expired", "rejected", "postmortem_ready"}}
      best == CHOOSE c \in live : \A d \in live :
                \/ c.score > d.score
                \/ c.score = d.score /\ (c.updated > d.updated \/ (c.updated = d.updated /\ c.bundle <= d.bundle))
      of   == {b \in Range(bs) : b.id = best.bundle}
      tone == IF of = {} THEN 0 ELSE ToneOf[(CHOOSE b \in of : TRUE).text]
      mode == DirectionMode(best, tone)
      locks == {b.last + Lockout : b \in {x \in of : HighImpact(x)}}
      locked == {t \in locks : t > now}
  IN  CASE live = {} -> Blocked("missing_required_evidence")
        [] live # {} /\ best.expires <= now -> [Blocked("ttl_expired") EXCEPT !.until = best.expires]
        [] OTHER -> [mode |-> mode, until |-> best.expires, candidate |-> best.bundle,
                     why |-> CASE locked # {} -> "event_lockout"
                               [] locked = {} /\ of = {} -> "missing_required_evidence"
                               [] locked = {} /\ of # {} /\ RiskBlocked(best, mode) -> "risk_multiplier_blocked"
                               [] OTHER -> "none",
                     lockout |-> IF locked = {} THEN None ELSE Max(locked)]

Book(bs, cs) == [s \in Monitored |-> PolicyOf(s, bs, cs)]

(* The items come as their sources list them, in any order, the connector's *)
(* last.                                                                    *)
Orders(items) ==
  {q \in SetToSeqs(items) : \A i, j \in DOMAIN q : q[i].source = Telegram /\ i < j => q[j].source = Telegram}

(* saveAlphaRadarObservations, up to the first wait on a file: its loop     *)
(* waits for nothing outside the process.  The external collector first     *)
(* puts back the settings it started with.                                  *)
Save(r) ==
  /\ runs[r].phase = "saving"
  /\ \E items \in Orders(runs[r].items) :
     \E st \in {FoldLeft(Ingest, <<observations, bundles, born>>, items)} :
     \E kept \in {PruneBundles(st[2])} :
     \E cs \in {SyncCandidates(kept, candidates)} :
       /\ observations' = FirstOf(NewestFirst(PruneObservations(st[1])), MaxObservations)
       /\ bundles' = kept
       /\ candidates' = cs
       /\ policies' = Book(kept, cs)
       /\ born' = st[3]
  /\ settings' = IF runs[r].plane = "external" THEN runs[r].settings ELSE settings
  /\ runs' = [runs EXCEPT ![r] = [phase |-> "writing", plane |-> @.plane]]
  /\ UNCHANGED <<now, runtime, busy, starts, edits>>

(* The file and the store have been written, or the write has failed; in    *)
(* both cases the collector is free again.                                  *)
Finish(r) ==
  /\ runs[r].phase = "writing"
  /\ busy' = [busy EXCEPT ![runs[r].plane] = FALSE]
  /\ runs' = [runs EXCEPT ![r] = Idle]
  /\ UNCHANGED <<now, settings, runtime, evidence, starts, born, edits>>

-----------------------------------------------------------------------------
(* Readers and the owner                                                   *)

(* evaluateRadarContextPolicyEntry with the policy p of the symbol.         *)
Allows(p, side) ==
  /\ p.candidate # None /\ p.until > now
  /\ p.lockout # None => p.lockout <= now
  /\ p.why = "none"
  /\ p.mode \in {"both", IF side = "buy" THEN "long_only" ELSE "short_only"}

(* The book is made anew before each entry, of which none may come of it,   *)
(* and for freqtrade.                                                       *)
SyncPolicies ==
  /\ policies' = Book(bundles, candidates)
  /\ UNCHANGED <<now, settings, runtime, busy, runs, observations, bundles, candidates, starts, born, edits>>

(* An entry is handed off: the candidate of the policy goes to routed.      *)
Enter(symbol, side) ==
  /\ policies' = Book(bundles, candidates)
  /\ Allows(policies'[symbol], side)
  /\ \E c \in candidates :
       /\ c.bundle = policies'[symbol].candidate /\ c.symbol = symbol /\ c.state \in {"validated", "actionable"}
       /\ candidates' = (candidates \ {c}) \cup {[c EXCEPT !.state = "routed", !.updated = now]}
  /\ UNCHANGED <<now, settings, runtime, busy, runs, observations, bundles, starts, born, edits>>

(* reconcileSignalCandidateOutcome: the order was placed or refused.        *)
EntryEnds(c, to) ==
  /\ c.state = "routed" /\ to \in Entries!Allowed[c.state] \ {"expired"}
  /\ candidates' = (candidates \ {c}) \cup {[c EXCEPT !.state = to, !.updated = now]}
  /\ UNCHANGED <<now, settings, runtime, busy, runs, observations, bundles, policies, starts, born, edits>>

(* PUT /api/settings/alpha-radar                                            *)
Edit(source) ==
  /\ edits < MaxEdits /\ edits' = edits + 1
  /\ settings' = IF source \in settings THEN settings \ {source} ELSE settings \cup {source}
  /\ UNCHANGED <<now, runtime, busy, runs, evidence, starts, born>>

Tick ==
  /\ now < MaxTime /\ now' = now + 1
  /\ UNCHANGED <<settings, runtime, busy, runs, evidence, starts, born, edits>>

Advance(r) == FetchDue(r) \/ Save(r) \/ Finish(r)
Next ==
  \/ \E r \in 1 .. MaxRuns :
       \/ \E p \in Planes : Kick(r, p) \/ Collect(r, p)
       \/ Advance(r) \/ WorkerEnds(r)
  \/ SyncPolicies
  \/ \E s \in Monitored, side \in {"buy", "sell"} : Enter(s, side)
  \/ \E c \in candidates, to \in {"executed", "rejected"} : EntryEnds(c, to)
  \/ \E s \in External : Edit(s)
  \/ Tick

(* A collector that can go on goes on: weak fairness of Advance(r), which   *)
(* is enabled in these phases.  Nothing makes Telegram's worker end.        *)
Fairness ==
  \A r \in 1 .. MaxRuns :
    []<>(runs[r].phase \notin {"fetching", "saving", "writing"}) \/ []<><<Advance(r)>>_vars
Spec == Init /\ [][Next]_vars /\ Fairness

-----------------------------------------------------------------------------
(* Properties                                                              *)

HealthOf(s) ==
  LET seen == Observed(s) IN
  Freshness!Health([group |-> IF s \in Monitors THEN GroupOf[s] ELSE "feed",
                    observed |-> IF seen = {} THEN None ELSE Max(seen),
                    tried |-> runtime[s].tried, succeeded |-> runtime[s].succeeded,
                    failed |-> runtime[s].failed], now)

(* Whatever collectors overlap, whatever a fetch brings again, and though   *)
(* likeness is not transitive and a bundle's text changes as it grows: an   *)
(* observation is stored once, of the bundles that can still grow no two    *)
(* were told the same item of a feed, and none has two candidates           *)
(* (index.ts:1529 saveAlphaRadarObservations, findBundleMatch).             *)
EvidenceIsJoined ==
  /\ IsInjective(observations)
  /\ \A i, j \in Active(bundles) : i # j =>
       bundles[i].link # bundles[j].link /\ bundles[i].ids \cap bundles[j].ids = {}
  /\ \A c, d \in candidates : c.bundle = d.bundle /\ c.symbol = d.symbol => c = d

(* What lets an entry pass, be it the stored policy, which is exported, or  *)
(* one made anew, rests on evidence that is stored, was heard of within the *)
(* life of a candidate, whatever was collected since, and of which no shock *)
(* is still in force (radarContextPolicy.ts:111, evaluated at 232).         *)
EntriesAreGrounded ==
  \A s \in Monitored, side \in {"buy", "sell"} :
  \A p \in {policies[s], Book(bundles, candidates)[s]} \ {None} :
    Allows(p, side) => \E b \in Range(bundles) :
      /\ b.id = p.candidate /\ Symbol(b) = s
      /\ now < b.last + CandidateTtl
      /\ HighImpact(b) => b.last + Lockout <= now

(* An entry goes with the tone of its evidence (alphaRadarEvidence.ts:263); *)
(* it may go against it, since a candidate keeps the side it began with     *)
(* when a longer text of another tone joins the bundle.                     *)
SidesFollowTone ==
  \A s \in Monitored : LET p == Book(bundles, candidates)[s] IN
    \A b \in Range(bundles) : p.why = "none" /\ b.id = p.candidate =>
      (p.mode = "long_only" => ToneOf[b.text] >= 0) /\ (p.mode = "short_only" => ToneOf[b.text] < 0)

(* The market collector is free again and again, whatever fails             *)
(* (alphaRadarCollectorFinished in both branches of index.ts:1186-1365).    *)
MarketComesBack == []<>~busy["market"]

(* Not so of the external one, whose Telegram worker may never end.         *)
ExternalComesBack == []<>~busy["external"]

(* What the owner chose stays chosen (index.ts:8461); it does not, an       *)
(* external collection puts back what it read at its start (index.ts:1816). *)
SettingsStay == [][edits' = edits => settings' = settings]_vars

(* When the store is full, the oldest go (index.ts:1556); it is the newest  *)
(* that go, since alphaRadar.ts:1002 prunes the front of a list that is     *)
(* kept newest first.                                                       *)
NewestAreKept ==
  [][\A gone \in Range(observations) \ Range(observations'), kept \in Range(observations') :
       gone.at <= kept.at]_observations

(* While fresh evidence of a symbol exists, its policy is not closed for    *)
(* old age (radarContextPolicy.ts:136); it may be, by a candidate whose     *)
(* evidence is no longer active and which nothing expires any more.         *)
FreshEvidenceIsHeard ==
  [][\A s \in Monitored :
       policies'[s] # None /\ policies'[s].why = "ttl_expired" =>
         ~\E c \in candidates' : c.symbol = s /\ c.expires > now /\ c.state \in {"new", "validated", "actionable"}]_policies

(* A shock of the last hour closes its symbol (radarContextPolicy.ts:171);  *)
(* not if another candidate of the symbol scores higher: only the best one  *)
(* is asked.                                                                *)
ShocksLock ==
  [][\A s \in Monitored :
       (\E b \in Range(bundles') : b.status = "active" /\ Symbol(b) = s /\ HighImpact(b) /\ b.last + Lockout > now)
         => ~Allows(policies'[s], "buy") /\ ~Allows(policies'[s], "sell")]_policies

(* A source whose last try failed is not shown as fresh (index.ts:1477);    *)
(* a monitor is.                                                            *)
FailingIsNotFresh == \A s \in Monitors \cup (Feeds \cap settings) : runtime[s].failed => HealthOf(s).status # "fresh"

(* A source that is shown as stale though its last try did not fail is due: *)
(* the next automatic collection asks it.  The one counts from what was     *)
(* heard and by the hours of the market, the other from the last try        *)
(* (index.ts:958, 1367; alphaRadar.ts:2487).                                *)
StaleIsDue ==
  \A s \in Monitors \cup (Feeds \cap settings) :
    HealthOf(s).status = "stale" /\ ~runtime[s].failed => Due(s, now)

Heard(s) == Observed(s)' \ Observed(s) # {} \/ (runtime'[s] # runtime[s] /\ ~runtime'[s].failed)
(* From the close of its session, or over the weekend, a monitor carries    *)
(* what it had; and one that could not be asked is judged by that try.      *)
Carries(s) ==
  /\ s \in Monitors
  /\ \/ GroupOf[s] \in {"equity", "proxy"} /\ now \in SessionHours /\ now' \notin SessionHours
     \/ GroupOf[s] = "macro" /\ now \notin Weekend /\ now' \in Weekend
     \/ runtime'[s].failed /\ runtime'[s] # runtime[s]

(* A source that is not shown as fresh becomes so only by being heard of,   *)
(* or by what Carries names, however collections, settings and the hours of *)
(* the market change (index.ts:1367-1527, alphaRadar.ts:2487-2604).         *)
FreshIsEarned ==
  \A s \in Monitors \cup (Feeds \cap settings \cap settings') :
    HealthOf(s).status # "fresh" /\ HealthOf(s)'.status = "fresh" => Heard(s) \/ Carries(s)
===============================================================================
