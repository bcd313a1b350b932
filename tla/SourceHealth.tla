----------------------------- MODULE SourceHealth -----------------------------
(***************************************************************************)
(* How old the dashboard believes a source of the radar is                 *)
(* (buildAlphaRadarSourceHealth of server/index.ts and server/alphaRadar.ts*)
(* with the two policies it applies).  What is known of a source: group,   *)
(* the time of its newest observation, when it was last tried and when     *)
(* that last succeeded, and whether the last try failed.                   *)
(***************************************************************************)
EXTENDS Integers, FiniteSets, FiniteSetsExt

CONSTANTS
  StaleAfter,       (* two cadences                                          *)
  LiveBudget,       (* 45 or 135 minutes, while the session is open          *)
  CarryBudget,      (* two or three hours before the close                   *)
  WeekendCarry,     (* 72 hours                                              *)
  SessionHours,     (* the times of the US cash session                      *)
  Weekend,          (* the times of Saturday and Sunday, UTC                 *)
  Never

LOCAL Later(a, b) == IF a = Never THEN b ELSE IF b = Never \/ a >= b THEN a ELSE b
Age(at, now) == IF now < at THEN 0 ELSE now - at

(* The last close of the session: the code walks back over the calendar.    *)
PreviousClose(now) ==
  LET closes == {t \in 1 .. now : t - 1 \in SessionHours /\ t \notin SessionHours}
  IN  IF closes = {} THEN 0 ELSE Max(closes)

(* How a source looks by the age of what it last produced.                  *)
ByAge(last, now) ==
  [last |-> last,
   status |-> IF last = Never THEN "inactive" ELSE IF Age(last, now) > StaleAfter THEN "stale" ELSE "fresh"]

(* A source whose last try failed counts as stale, and as last seen at the  *)
(* time of that try.                                                        *)
AfterFailure(h, source) ==
  IF source.failed /\ (source.succeeded = Never \/ source.tried >= source.succeeded)
  THEN [last |-> source.tried, status |-> "stale"] ELSE h

Carried(h, source, stale) ==
  [h EXCEPT !.status = IF ~stale THEN "fresh" ELSE IF source.observed = Never THEN "inactive" ELSE "stale"]

(* Mutant: every monitor carries what it had over the weekend.              *)
MonitoringOverWeekend(h, source, now) ==
  CASE now \in Weekend -> Carried(h, source, h.last = Never \/ Age(h.last, now) > WeekendCarry)
    [] now \notin Weekend /\ source.group = "macro" -> h
    [] now \notin Weekend /\ source.group # "macro" /\ h.last # Never /\ now \in SessionHours ->
         [h EXCEPT !.status = IF Age(h.last, now) > LiveBudget THEN "stale" ELSE "fresh"]
    [] OTHER -> Carried(h, source, h.last = Never \/ h.last < PreviousClose(now) - CarryBudget)

(* applyAlphaRadarMonitoringFreshnessPolicy: the status is taken from the   *)
(* time of h once more, by the hours of the market.                         *)
Monitoring(h, source, now) ==
  CASE source.group = "macro" /\ now \in Weekend ->
         Carried(h, source, h.last = Never \/ Age(h.last, now) > WeekendCarry)
    [] source.group = "macro" /\ now \notin Weekend -> h
    [] source.group \in {"equity", "proxy"} /\ h.last = Never -> [h EXCEPT !.status = "inactive"]
    [] source.group \in {"equity", "proxy"} /\ h.last # Never /\ now \in SessionHours ->
         [h EXCEPT !.status = IF Age(h.last, now) > LiveBudget THEN "stale" ELSE "fresh"]
    [] OTHER -> Carried(h, source, h.last < PreviousClose(now) - CarryBudget)

(* buildAlphaRadarSourceHealth for one expected source; only the monitors   *)
(* have a group.                                                            *)
Health(source, now) ==
  LET h == AfterFailure(ByAge(Later(source.observed, source.succeeded), now), source)
  IN  IF source.group = "feed" THEN h ELSE Monitoring(h, source, now)
===============================================================================
