--------------------------- MODULE MCServerParts ---------------------------
(***************************************************************************)
(* Parts of the server that keep their state for themselves: the radar,    *)
(* once with what is told (News) and once with ages (Watch), paper trading *)
(* (Paper), and experiments with their worker (Lab).  A behaviour is one   *)
(* of one part; the others stay as they started.                           *)
(***************************************************************************)
EXTENDS Integers, FiniteSets, TLC

CONSTANTS
  MaxNewsTime, MaxWatchTime, MaxEdits,
  MaxStarts,
  Prices, Size,
  Requests, MaxQuarter, MaxChampions,
  Error, None

VARIABLES
  part,
  now, settings, runtime, busy, runs, observations, bundles, candidates, policies, collections, born, edits,
  ticks, commands, positions, tradeLogs, events,
  results, row, worker, starts, server, request, stale

radar  == <<now, settings, runtime, busy, runs, observations, bundles, candidates, policies, collections, born, edits>>
paper  == <<ticks, commands, positions, tradeLogs, events>>
lab    == <<results, row, worker, starts, server, request, stale>>
vars   == <<part, radar, paper, lab>>

(* The flash is shorter than the story and the shock is longer; each of    *)
(* them is like the story, and neither like the other.                     *)
SymbolOf == "story" :> "BTC" @@ "flash" :> "BTC" @@ "shock" :> "BTC" @@ "quote" :> "QQQ"
ToneOf == "story" :> 30 @@ "flash" :> 5 @@ "shock" :> -50 @@ "quote" :> 0
SeverityOf == "story" :> "listing" @@ "flash" :> "listing" @@ "shock" :> "breach" @@ "quote" :> "none"
LengthOf == "flash" :> 1 @@ "story" :> 2 @@ "shock" :> 3 @@ "quote" :> 1
Likeness == {"story", "flash"} :> 70 @@ {"story", "shock"} :> 65 @@ {"flash", "shock"} :> 20
         @@ {"story", "quote"} :> 0 @@ {"flash", "quote"} :> 0 @@ {"shock", "quote"} :> 0
ClassOf == "wire" :> "newswire" @@ "telegram" :> "social" @@ "equity" :> "market" @@ "bonds" :> "macro"
LayerOf == "wire" :> "primary" @@ "telegram" :> "narrative" @@ "equity" :> "primary" @@ "bonds" :> "primary"
Feeds == {"wire"}
Telegram == "telegram"
Ticks == "ticks"
Monitored == {"BTC"}

(* Durations in their order: a shock, a candidate, evidence; what is live, *)
(* stale, carried to the next session and over a weekend.                  *)
Lockout == 1
CandidateTtl == 2
BundleTtl == 3
Cadence == 1
StaleAfter == 2
LiveBudget == 1
CarryBudget == 3
WeekendCarry == 5
SessionHours == {1, 2, 3}
Weekend == {5, 6}
Reach == 0
FreshWindow == 0
StaleWindow == 1
NoveltyLookback == 2
MaxCollections == 2
MaxObservations == 2

(* A newswire tells all of them, and a Telegram channel the flash.         *)
News == INSTANCE AlphaRadar WITH
  Stories <- "wire" :> {"flash", "story", "shock"} @@ "telegram" :> {"flash"} @@ "ticks" :> {},
  Monitors <- {}, GroupOf <- <<>>, MaxRuns <- 2, MaxBundles <- 2, MaxEdits <- 0, MaxTime <- MaxNewsTime,
  starts <- collections, MaxStarts <- MaxCollections

(* Two monitors, of stocks and of bonds; the newswire is silent.           *)
Watch == INSTANCE AlphaRadar WITH
  Stories <- "wire" :> {} @@ "telegram" :> {} @@ "ticks" :> {} @@ "equity" :> {"quote"} @@ "bonds" :> {},
  Monitors <- {"equity", "bonds"}, GroupOf <- "equity" :> "equity" @@ "bonds" :> "macro",
  MaxRuns <- 1, MaxBundles <- 1, MaxTime <- MaxWatchTime,
  starts <- collections, MaxStarts <- MaxCollections

Paper == INSTANCE PaperTrading WITH
  Lookback <- 1, MinTicks <- 4, MinCandles <- 3, MaxTicks <- 6, MaxCommands <- 1, MaxWait <- 2, MaxRepeats <- 1

(* Results of two windows: with a tie, a loss in one of them, too few      *)
(* trades, a candidate that fails, and more candidates than are drawn.     *)
Of(trades, wins, net, drawdown) == [trades |-> trades, wins |-> wins, netPnl |-> net, drawdown |-> drawdown]
Good   == <<Of(6, 4, 5, 1), Of(5, 3, 1, 2)>>
Better == <<Of(6, 4, 5, 1), Of(5, 0, 4, 9)>>
Loses  == <<Of(6, 4, 8, 1), Of(5, 2, -1, 2)>>
Few    == <<Of(3, 2, 20, 1), Of(1, 1, 20, 2)>>
Tables == {<<Better, Good>>, <<Good, Better, Good>>, <<Good, Loses, Error>>, <<Few, Good>>}
Lab == INSTANCE ExperimentGovernance WITH
  MaxCandidates <- 2, SampleEvery <- 2, MaxPersisted <- 2, SourceRange <- [from |-> 1, to |-> 21],
  Criteria <- [minTrades |-> 10, minExpectancy |-> 0, minWinRate |-> 0, maxDrawdown |-> 25, maxNegative |-> 0]

Init ==
  /\ part \in {"news", "watch", "paper", "lab"}
  /\ IF part = "watch" THEN Watch!Init ELSE News!Init
  /\ Paper!Init /\ Lab!Init
  /\ part # "lab" => results = <<Few, Good>>

Next ==
  \/ part = "news"  /\ News!Next  /\ UNCHANGED <<part, paper, lab>>
  \/ part = "watch" /\ Watch!Next /\ UNCHANGED <<part, paper, lab>>
  \/ part = "paper" /\ Paper!Next /\ UNCHANGED <<part, radar, lab>>
  \/ part = "lab"   /\ Lab!Next   /\ UNCHANGED <<part, radar, paper>>

Spec == Init /\ [][Next]_vars

(* AlphaRadar: observations and evidence are joined once, and what lets an *)
(* entry pass rests on evidence that still counts.                         *)
EvidenceIsSound == part = "news" => News!EvidenceIsJoined /\ News!EntriesAreGrounded

(* AlphaRadar: a source that is stale, and not failing, is due, and one    *)
(* becomes fresh by being heard of.                                        *)
SourcesAreWatched ==
  /\ [](part = "watch" => Watch!StaleIsDue)
  /\ [][part = "watch" => Watch!FreshIsEarned]_vars

(* PaperTrading: positions, logs and events tell of the same trades.       *)
AccountsAgree == part = "paper" => Paper!AccountsAgree

(* ExperimentGovernance: a completed optimization has found the best, and  *)
(* one champion is active unless champions were flushed over others.       *)
BestIsPromoted == part = "lab" => Lab!TheBestIsFound /\ Lab!OneActiveUnlessStale
(* ResearchReports: the tests cover a range without a gap, and share       *)
(* nothing but the candles at which one ends and the next begins.          *)
TestsTile == part = "lab" => Lab!TestsTile
=============================================================================
