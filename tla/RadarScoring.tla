----------------------------- MODULE RadarScoring -----------------------------
(***************************************************************************)
(* The score of a signal candidate (server/radarScoringFactors.ts): seven  *)
(* factors in hundredths, weighed into a score from 0 to 100.  A bundle is *)
(* what the score looks at: [sources, classes, layers, severity, first,    *)
(* last], the times in whole units.                                        *)
(***************************************************************************)
EXTENDS Integers, FiniteSets, FiniteSetsExt

CONSTANTS
  FreshWindow, StaleWindow,   (* timeDecay: 15 minutes, 4 hours               *)
  NoveltyLookback             (* 6 hours                                      *)

Weights == [relevance |-> 20, novelty |-> 10, sourceReliability |-> 15, eventSeverity |-> 15,
            timeDecay |-> 15, marketConfirmation |-> 10, executionability |-> 15]

ClassWeights == [official |-> 100, newswire |-> 85, market |-> 80, macro |-> 75, flow |-> 60, social |-> 50]
LayerWeights == [primary |-> 100, duplicate |-> 60, narrative |-> 40]
(* The strongest group of words found in the text; none is general news.   *)
Severities == [breach |-> 100, regulator |-> 85, halt |-> 80, listing |-> 60, upgrade |-> 45, none |-> 30]

LOCAL Higher(a, b) == IF a < b THEN b ELSE a
LOCAL Lower(a, b)  == IF a < b THEN a ELSE b

(* From 100 at age from down to 0 at age to.                                *)
Fading(age, from, to) ==
  CASE age <= from -> 100 [] age >= to -> 0 [] OTHER -> 100 - (100 * (age - from)) \div (to - from)

NoveltyFactor(b, now) == Fading(Higher(0, now - b.first), 0, NoveltyLookback)
TimeDecayFactor(b, now) == Fading(Higher(0, now - b.last), FreshWindow, StaleWindow)

SourceReliabilityFactor(b) ==
  IF b.sources = {} THEN 0
  ELSE LET class == IF b.classes = {} THEN 50 ELSE Max({ClassWeights[c] : c \in b.classes})
           layer == IF b.layers = {} THEN 60 ELSE Max({LayerWeights[y] : y \in b.layers})
           breadth == Lower(100, (100 * Cardinality(b.sources)) \div 3)
       IN  (40 * class + 40 * layer + 20 * breadth) \div 100

(* As the evidence scores a bundle: the symbol is monitored, can be sized   *)
(* and is not vetoed; nothing is known of the market.                       *)
FactorsOf(b, now) ==
  [relevance |-> 100, novelty |-> NoveltyFactor(b, now),
   sourceReliability |-> SourceReliabilityFactor(b), eventSeverity |-> Severities[b.severity],
   timeDecay |-> TimeDecayFactor(b, now), marketConfirmation |-> 50, executionability |-> 100]

(* The weights add up to 100; Math.round rounds halves up.                  *)
Composite(factors) ==
  LET of(f) == factors[f] * Weights[f]
      sum == of("relevance") + of("novelty") + of("sourceReliability") + of("eventSeverity")
             + of("timeDecay") + of("marketConfirmation") + of("executionability")
  IN  Higher(0, Lower(100, (sum + 50) \div 100))
===============================================================================
