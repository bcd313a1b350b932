---------------------------- MODULE RuntimeRules ----------------------------
(***************************************************************************)
(* The trading rules (PUT /api/settings/trading-rules in server/index.ts,  *)
(* server/runtimeRules.ts): they are stored, exported to Freqtrade in two  *)
(* files, and read by the cache under which monitors and handed-off        *)
(* signals trade.  Of the rules only the enabled coins are kept.           *)
(***************************************************************************)
EXTENDS Integers

CONSTANTS
  Coins, Saves,       (* requests                                           *)
  Interval,           (* of the cache                                       *)
  MaxTime,            (* bound                                              *)
  None

(* What the constants are taken to be                                      *)
RulesAssumption == Interval \in Nat /\ None \notin Nat

VARIABLES
  clock,
  rules,       (* settings.tradingRules: the enabled coins                  *)
  disabled,    (* ghost: of a coin: when it was last taken out of the rules *)
  cached,      (* the rules of the cache; env_fallback has no coin          *)
  refreshed,   (* when the cache was last read                              *)
  exported,    (* [rules, pairs]: the two files Freqtrade reads             *)
  saves,       (* [pc, rules], by request                                   *)
  unread,      (* ghost: a save failed since the cache was read             *)
  strayed      (* ghost: saves overlapped or failed, or a champion was applied *)

vars == <<clock, rules, disabled, cached, refreshed, exported, saves, unread, strayed>>

Idle == [pc |-> "idle", rules |-> {}]
Quiet == \A q \in Saves : saves[q].pc = "idle"

TypeOK ==
  /\ clock \in Nat /\ refreshed \in Nat
  /\ rules \in SUBSET Coins
  /\ disabled \in [Coins -> Nat \cup {None}]
  /\ cached \in SUBSET Coins
  /\ exported \in [rules : SUBSET Coins, pairs : SUBSET Coins]
  /\ saves \in [Saves -> [pc : {"idle", "stored", "half", "applied"}, rules : SUBSET Coins]]
  /\ unread \in BOOLEAN /\ strayed \in BOOLEAN

Init ==
  /\ clock = 0
  /\ rules = Coins /\ disabled = [c \in Coins |-> None]
  /\ cached = {} /\ refreshed = 0
  /\ exported = [rules |-> Coins, pairs |-> Coins]
  /\ saves = [q \in Saves |-> Idle] /\ unread = FALSE /\ strayed = FALSE

-----------------------------------------------------------------------------
(* RuntimeRulesCache.refresh: once the store is there it reads in one go,  *)
(* so that refreshNow is never turned away by its flag.                    *)
Refresh == cached' = rules' /\ refreshed' = clock /\ unread' = FALSE

(* The timer, and GET /api/settings/trading-rules when it puts the stored  *)
(* rules into their normal form                                            *)
RefreshFires ==
  /\ UNCHANGED rules /\ Refresh
  /\ UNCHANGED <<clock, disabled, exported, saves, strayed>>

Assign(new) ==
  /\ rules' = new
  /\ disabled' = [c \in Coins |-> IF c \in rules \ new THEN clock ELSE disabled[c]]

(* PUT: at least one coin is enabled.                                      *)
PutRules(q, new) ==
  /\ saves[q].pc = "idle" /\ new # {}
  /\ Assign(new)
  /\ saves' = [saves EXCEPT ![q] = [pc |-> "stored", rules |-> new]]
  /\ strayed' = (strayed \/ ~Quiet)
  /\ UNCHANGED <<clock, cached, refreshed, exported, unread>>

(* POST /api/champions/:id/apply: nothing is exported.                     *)
Apply(q, new) ==
  /\ saves[q].pc = "idle" /\ new # {}
  /\ Assign(new) /\ strayed' = TRUE
  /\ saves' = [saves EXCEPT ![q] = [pc |-> "applied", rules |-> new]]
  /\ UNCHANGED <<clock, cached, refreshed, exported, unread>>

ApplyEnds(q) ==
  /\ saves[q].pc = "applied"
  /\ saves' = [saves EXCEPT ![q] = Idle]
  /\ UNCHANGED rules /\ Refresh
  /\ UNCHANGED <<clock, disabled, exported, strayed>>

(* exportTradingRulesToFreqtrade: one file after the other, each renamed   *)
(* into its place                                                          *)
ExportRules(q) ==
  /\ saves[q].pc = "stored"
  /\ exported' = [exported EXCEPT !.rules = saves[q].rules]
  /\ saves' = [saves EXCEPT ![q].pc = "half"]
  /\ UNCHANGED <<clock, rules, disabled, cached, refreshed, unread, strayed>>

(* Mutant: the cache is left to its timer. *)
ExportPairsOnly(q) ==
  /\ saves[q].pc = "half"
  /\ exported' = [exported EXCEPT !.pairs = saves[q].rules]
  /\ saves' = [saves EXCEPT ![q] = Idle]
  /\ UNCHANGED <<clock, rules, disabled, cached, refreshed, unread, strayed>>

(* The second file, after which the rules are in force and the save ends.  *)
ExportPairs(q) ==
  /\ saves[q].pc = "half"
  /\ exported' = [exported EXCEPT !.pairs = saves[q].rules]
  /\ saves' = [saves EXCEPT ![q] = Idle]
  /\ UNCHANGED rules /\ Refresh
  /\ UNCHANGED <<clock, disabled, strayed>>

(* 500 freqtrade_rules_export_failed, or the write before it threw: the    *)
(* rules stay, and the cache reads them when its timer comes.              *)
SaveFails(q) ==
  /\ saves[q].pc # "idle"
  /\ saves' = [saves EXCEPT ![q] = Idle] /\ strayed' = TRUE /\ unread' = TRUE
  /\ UNCHANGED <<clock, rules, disabled, cached, refreshed, exported>>

(* Mutant: the timer may be late. *)
TickLate ==
  /\ clock < MaxTime /\ clock' = clock + 1
  /\ UNCHANGED <<rules, disabled, cached, refreshed, exported, saves, unread, strayed>>

(* The timer of the cache is on time.                                      *)
Tick ==
  /\ clock < MaxTime /\ clock - refreshed < Interval /\ clock' = clock + 1
  /\ UNCHANGED <<rules, disabled, cached, refreshed, exported, saves, unread, strayed>>

Next ==
  \/ RefreshFires \/ Tick
  \/ \E q \in Saves, new \in SUBSET Coins : PutRules(q, new) \/ Apply(q, new)
  \/ \E q \in Saves : ExportRules(q) \/ ExportPairs(q) \/ ApplyEnds(q) \/ SaveFails(q)

Spec == Init /\ [][Next]_vars

-----------------------------------------------------------------------------
(* Properties                                                              *)

(* index.ts:7265: "Ensure monitors pick up new rules immediately (no       *)
(* cache-delay window)".  The cache differs from the stored rules only     *)
(* while a save is under way or since one has failed; and Freqtrade's two  *)
(* files hold the stored rules when no save is under way, unless saves     *)
(* overlapped or failed or a champion was applied.                         *)
RulesAreInForce ==
  /\ cached \notin {{}, rules} => unread \/ ~Quiet
  /\ Quiet /\ ~strayed => exported = [rules |-> rules, pairs |-> rules]

(* Whoever trades under the cache trades a coin that is enabled, or was an *)
(* interval of the cache ago.                                              *)
Covered(coin) == coin \in rules \/ (disabled[coin] # None /\ clock - disabled[coin] <= Interval)
CachedIsRecent == \A coin \in cached : Covered(coin)

(* Both: what trades, in this process and in Freqtrade, is what is stored, *)
(* but for the stated delays.                                              *)
RulesGovern == RulesAreInForce /\ CachedIsRecent

(* docs/RADAR_RUNTIME.md:79: "Only confirmed candidates for symbols        *)
(* enabled in Trading Rules may be handed off."  Does not hold: the cache, *)
(* under which they are, is older than the rules.                          *)
CachedIsEnabled == cached \subseteq rules
=============================================================================
