----------------------------- MODULE RuleEngine -----------------------------
(***************************************************************************)
(* The rule engine of engine/*.ts: a cycle (RuleEngine.run) evaluates the  *)
(* rules on a snapshot, decides which of them fire, in one go, and then    *)
(* carries out their actions one after the other, each with retries.       *)
(* Cycles overlap: they share the cooldowns and the action log.            *)
(*                                                                         *)
(* What an executor does, whether a condition holds and what the key of an *)
(* action is made of are choices.  All rules of a cycle have its source.   *)
(***************************************************************************)
EXTENDS Integers, FiniteSets

CONSTANTS
  Cycles,
  RuleCount,         (* rules are numbered in the order of their ids        *)
  Tier, Cooldown,    (* of a rule; tier 300 is RISK, 200 EXIT, 100 ENTRY    *)
  MaxAttempts, Backoff, (* of its action: attempts, and whether it waits    *)
  Timed,             (* rules whose key holds the time of the snapshot      *)
  Unregistered,      (* rules whose action has no executor                  *)
  Ttl,               (* of the action log                                   *)
  MaxTime            (* bound                                               *)

Rules == 1 .. RuleCount
Never == -1

(* What the constants are taken to be                                      *)
EngineAssumption ==
  /\ RuleCount \in Nat /\ Ttl \in Nat
  /\ Tier \in [Rules -> {100, 200, 300}] /\ Cooldown \in [Rules -> Nat]

VARIABLES
  clock,
  lastFired,   (* cooldownState                                             *)
  actionLog,   (* [key, at]                                                 *)
  cycles,      (* pc, at: its time, queue: fired and not yet acted on,      *)
               (* attempts of the first of them, fired, outcomes by rule    *)
  fired,       (* [rule, at], of all cycles                                 *)
  done         (* executors that succeeded: [key, cycle, at]                *)

vars == <<clock, lastFired, actionLog, cycles, fired, done>>

Idle == [pc |-> "idle", at |-> 0, queue |-> {}, attempts |-> 0, fired |-> {}, outcomes |-> {}]

Init ==
  /\ clock = 0 /\ lastFired = [r \in Rules |-> Never] /\ actionLog = {}
  /\ cycles = [c \in Cycles |-> Idle] /\ fired = {} /\ done = {}

-----------------------------------------------------------------------------
(* Decisions                                                               *)

(* Higher tiers first, then by id.                                         *)
Before(r, s) == Tier[r] > Tier[s] \/ (Tier[r] = Tier[s] /\ r < s)
First(S) == CHOOSE r \in S : \A s \in S \ {r} : Before(r, s)

Cooling(r) == Cooldown[r] > 0 /\ lastFired[r] # Never /\ clock - lastFired[r] < Cooldown[r]

(* A rule of tier 200 or more that fires keeps lower ones from firing:     *)
(* those below 300 for a RISK rule, those below 200 for an EXIT rule.      *)
Preempts(r) == IF Tier[r] >= 300 THEN 300 ELSE IF Tier[r] >= 200 THEN 200 ELSE 0

(* Whoever is kept from firing is so by one that fires, and what it would  *)
(* have kept from firing that one does as well.                            *)
Fires(met) ==
  LET ready == {r \in met : ~Cooling(r)}
  IN  {r \in ready : \A s \in ready : Tier[r] >= Preempts(s)}

-----------------------------------------------------------------------------
(* Actions                                                                 *)

KeyOf(r, at)  == IF r \in Timed THEN <<r, at>> ELSE <<r>>
(* Mutant: an entry as old as the ttl has expired. *)
HasStrictly(log, key, at) == \E e \in log : e.key = key /\ at - e.at < Ttl

Has(log, key, at) == \E e \in log : e.key = key /\ at - e.at <= Ttl

Set(log, key) == {e \in log : e.key # key} \cup {[key |-> key, at |-> clock]}

Needs(log, r, at) == ~Has(log, KeyOf(r, at), at) /\ r \notin Unregistered

(* Of the queue, what is left after the actions that need no executor      *)
Left(log, queue, at) ==
  LET needy == {r \in queue : Needs(log, r, at)}
  IN  IF needy = {} THEN {} ELSE {r \in queue : ~Before(r, First(needy))}

Outcome(r, status) == [rule |-> r, status |-> status]

(* A cycle goes on with its queue, having had these outcomes so far.       *)
Advanced(cy, log, queue, outcomes) ==
  LET left == Left(log, queue, cy.at)
      Skipped(r) == Outcome(r, IF Has(log, KeyOf(r, cy.at), cy.at) THEN "DEDUPED" ELSE "SKIPPED")
  IN  [cy EXCEPT !.queue = left, !.attempts = 1,
                 !.outcomes = outcomes \cup {Skipped(r) : r \in queue \ left},
                 !.pc = IF left = {} THEN "audited" ELSE "executing"]

(* Mutant: a rule cools down only from the success of its action on. *)
RunUncooled(c, met) ==
  /\ cycles[c].pc = "idle"
  /\ LET fires == Fires(met)
         log   == {e \in actionLog : clock - e.at <= Ttl}
     IN  /\ actionLog' = log
         /\ fired' = fired \cup {[rule |-> r, at |-> clock, cycle |-> c] : r \in fires}
         /\ cycles' = [cycles EXCEPT ![c] =
                         Advanced([Idle EXCEPT !.at = clock, !.fired = fires], log, fires, {})]
  /\ UNCHANGED <<clock, lastFired, done>>

(* run: the conditions of these rules hold.                                *)
Run(c, met) ==
  /\ cycles[c].pc = "idle"
  /\ LET fires == Fires(met)
         log   == {e \in actionLog : clock - e.at <= Ttl}
     IN  /\ lastFired' = [r \in Rules |-> IF r \in fires THEN clock ELSE lastFired[r]]
         /\ actionLog' = log
         /\ fired' = fired \cup {[rule |-> r, at |-> clock, cycle |-> c] : r \in fires}
         /\ cycles' = [cycles EXCEPT ![c] =
                         Advanced([Idle EXCEPT !.at = clock, !.fired = fires], log, fires, {})]
  /\ UNCHANGED <<clock, done>>

Current(c) == First(cycles[c].queue)
Continues(c, log, outcomes) ==
  /\ actionLog' = log
  /\ cycles' = [cycles EXCEPT ![c] = Advanced(cycles[c], log, cycles[c].queue \ {Current(c)}, outcomes)]

Succeeds(c) ==
  /\ cycles[c].pc = "executing"
  /\ LET key == KeyOf(Current(c), cycles[c].at) IN
     /\ Continues(c, Set(actionLog, key), cycles[c].outcomes \cup
          {Outcome(Current(c), IF cycles[c].attempts > 1 THEN "RETRIED_OK" ELSE "OK")})
     /\ done' = done \cup {[key |-> key, cycle |-> c, at |-> clock]}
  /\ UNCHANGED <<clock, lastFired, fired>>

(* The executor throws: it is called again, after a pause if there is one. *)
Retries(c) ==
  /\ cycles[c].pc = "executing" /\ cycles[c].attempts < MaxAttempts[Current(c)]
  /\ cycles' = [cycles EXCEPT ![c].pc = IF Backoff[Current(c)] THEN "sleeping" ELSE @,
                              ![c].attempts = @ + 1]
  /\ UNCHANGED <<clock, lastFired, actionLog, fired, done>>

Wakes(c) ==
  /\ cycles[c].pc = "sleeping"
  /\ cycles' = [cycles EXCEPT ![c].pc = "executing"]
  /\ UNCHANGED <<clock, lastFired, actionLog, fired, done>>

(* The last attempt throws; an error without a message leaves neither an   *)
(* outcome nor an entry in the log.                                        *)
Fails(c, message) ==
  /\ cycles[c].pc = "executing" /\ cycles[c].attempts >= MaxAttempts[Current(c)]
  /\ LET log == IF message THEN Set(actionLog, KeyOf(Current(c), cycles[c].at)) ELSE actionLog
         told == IF message THEN {Outcome(Current(c), "FAILED")} ELSE {}
     IN  Continues(c, log, cycles[c].outcomes \cup told)
  /\ UNCHANGED <<clock, lastFired, fired, done>>

Tick == clock < MaxTime /\ clock' = clock + 1 /\ UNCHANGED <<lastFired, actionLog, cycles, fired, done>>

Next ==
  \/ \E c \in Cycles : \/ \E met \in SUBSET Rules : Run(c, met)
                       \/ Succeeds(c) \/ Retries(c) \/ Wakes(c)
                       \/ \E message \in BOOLEAN : Fails(c, message)
  \/ Tick

Spec == Init /\ [][Next]_vars

-----------------------------------------------------------------------------
(* Properties                                                              *)

(* However cycles overlap and their actions fail: a rule fires at most     *)
(* once within its cooldown, and no cycle fires a rule beside one that     *)
(* preempts it.                                                            *)
FiringsAreSpaced ==
  /\ \A f, g \in fired : f.rule = g.rule /\ f.cycle # g.cycle /\ Cooldown[f.rule] > 0 =>
       f.at - g.at >= Cooldown[f.rule] \/ g.at - f.at >= Cooldown[f.rule]
  /\ \A c \in Cycles : \A r, s \in cycles[c].fired : Tier[r] >= Preempts(s)

(* actionLog.ts:7: "In-memory deduplication store for action idempotency". *)
(* An action is not carried out twice under one key within the ttl, unless *)
(* the two cycles overlapped: the log has an entry once an action is over, *)
(* not while it runs.                                                      *)
SameAction(d, e) == d.cycle # e.cycle /\ d.key = e.key /\ d.at <= e.at /\ e.at - d.at <= Ttl
TwiceOnlyIfOverlapping ==
  \A d, e \in done : SameAction(d, e) => cycles[e.cycle].at <= d.at
=============================================================================
