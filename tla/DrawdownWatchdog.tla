-------------------------- MODULE DrawdownWatchdog --------------------------
(***************************************************************************)
(* The daily drawdown lock: a watchdog tick and the risk gate of the order *)
(* routes both measure the equity, latch ddLock, store it in the alert     *)
(* state file and close everything (emergencyCloseAll); once a close has   *)
(* been verified the watchdog marks the lock settled and sleeps until the  *)
(* owner resets it.                                                        *)
(*                                                                         *)
(* Entries reach the exchange on three ways: order requests through the    *)
(* gate, strategy signals in auto mode (handoffStrategyEntrySignal), and   *)
(* confirmations of pending signals (executePendingConfirmation).  Each    *)
(* await is a step of its own; what the exchange answers is what holds     *)
(* when it answers.  Telegram messages and the audit log are left out; of  *)
(* the other writers of the alert state file only their effect on ddLock   *)
(* is kept: they write back the one they read.                             *)
(***************************************************************************)
EXTENDS Integers, FiniteSets

CONSTANTS
  Orders,     (* entry requests of POST /api/live/order and order/limit     *)
  Signals,    (* auto-confirmed strategy signals                            *)
  Confirms,   (* confirmations of pending signals                           *)
  Watchdog,   (* runDrawdownWatchdogTick                                    *)
  MaxRounds,  (* maxRounds of emergencyCloseAll                             *)
  MaxFaults,  (* bound: failed calls of the exchange, failed writes of the file*)
  MaxSwings,  (* bound: times the equity crosses the limit                  *)
  MaxResets,  (* bound: resets of the lock by the owner                     *)
  MaxExports, (* bound: writes of other keys of the alert state file        *)
  MaxCrashes  (* bound: restarts of the server                              *)

Entries == Orders \cup Signals \cup Confirms

ASSUME DrawdownAssumption ==
  /\ Watchdog \notin Entries
  /\ Orders \cap Signals = {} /\ Confirms \cap (Orders \cup Signals) = {}
  /\ MaxRounds \in Nat \ {0}
  /\ {MaxFaults, MaxSwings, MaxResets, MaxExports, MaxCrashes} \subseteq Nat

Nobody == "nobody"
Closers == Orders \cup {Watchdog}

ASSUME NobodyAssumption == Nobody \notin Closers

VARIABLES
  lock,     (* ddLock: active, and settled for emergencyCloseSettledAt      *)
  file,     (* the ddLock part of the alert state file                      *)
  saving,   (* what a persistDdLockState under way has captured: of the     *)
            (* watchdog that settled, and of the owner's reset              *)
  export,   (* the ddLock that a writer of other keys has read, if any      *)
  wd,       (* where the watchdog's tick is                                 *)
  entry,    (* entry -> where its handler is, and whether it began locked   *)
  close,    (* the running emergencyCloseAll; by = Nobody when there is none*)
  reset,    (* where the owner's dd-lock reset is                           *)
  pos,      (* exchange: entries with an open position                      *)
  resting,  (* exchange: entries whose limit order rests in the book        *)
  deep,     (* exchange: the equity is below the daily limit                *)
  late,     (* entries the exchange accepted while the lock was active      *)
  kept,     (* entries whose order a failed cancelAll left in the book      *)
  faults, swings, resets, exports, crashes

storage  == <<file, saving, export>>
exchange == <<pos, resting, deep, late, kept>>
bounds   == <<faults, swings, resets, exports, crashes>>
vars     == <<lock, storage, wd, entry, close, reset, exchange, bounds>>

Lock     == [active: BOOLEAN, settled: BOOLEAN]
Unlocked == [active |-> FALSE, settled |-> FALSE]
Latched  == [active |-> TRUE, settled |-> FALSE]

NoClose  == [by |-> Nobody, pc |-> "cancel", round |-> 0, left |-> {},
             verified |-> FALSE, cleared |-> FALSE]

Fault    == faults < MaxFaults /\ faults' = faults + 1
NoFault  == faults' = faults
CountersKept == UNCHANGED <<swings, resets, exports, crashes>>

(* writeAlertState writes the lock, or throws with the file as it was.     *)
Writes(l) == NoFault /\ file' = l
WriteFails == Fault /\ UNCHANGED file

-----------------------------------------------------------------------------
(* The latch                                                               *)

EntryAt(e, pc) == entry' = [entry EXCEPT ![e].pc = pc]
CloserAt(c, pc) ==
  IF c = Watchdog THEN wd' = pc /\ UNCHANGED entry ELSE EntryAt(c, pc) /\ UNCHANGED wd

(* The daily loss limit is exceeded: latch and store, or, if the lock is   *)
(* active already, go straight on to the close.                            *)
Latch(c) ==
  IF lock.active THEN CloserAt(c, "close") /\ UNCHANGED lock
                 ELSE CloserAt(c, "persist") /\ lock' = Latched

(* A caller gives up: the tick ends, or the request is answered.           *)
GivesUp(c) == CloserAt(c, IF c = Watchdog THEN "idle" ELSE "done")

(* persistDdLockState has landed, with the lock as it was latched; when it *)
(* throws, the lock is active in memory only and nothing is closed.        *)
LatchStored(c) ==
  /\ IF c = Watchdog THEN wd = "persist" ELSE entry[c].pc = "persist"
  /\ \/ Writes(Latched) /\ CloserAt(c, "close")
     \/ WriteFails /\ GivesUp(c)
  /\ UNCHANGED <<lock, saving, export, close, reset, exchange>> /\ CountersKept

-----------------------------------------------------------------------------
(* runDrawdownWatchdogTick                                                 *)

(* A tick; with a settled lock it does nothing.                            *)
WatchdogTick ==
  /\ wd = "idle"
  /\ ~(lock.active /\ lock.settled)
  /\ wd' = "risk"
  /\ UNCHANGED <<lock, storage, entry, close, reset, exchange, bounds>>

(* evaluateRiskGates: no usable equity, a breach, or none.                 *)
WatchdogRisk ==
  /\ wd = "risk"
  /\ \/ Fault /\ wd' = "idle" /\ UNCHANGED <<lock, entry>>
     \/ NoFault /\ deep /\ Latch(Watchdog)
     \/ NoFault /\ ~deep /\ wd' = "idle" /\ UNCHANGED <<lock, entry>>
  /\ UNCHANGED <<storage, close, reset, exchange>> /\ CountersKept

(* The close is over and verified: the settled lock is stored, or stays in *)
(* memory only.                                                            *)
SettledStored ==
  /\ wd = "settling"
  /\ Writes(saving[Watchdog]) \/ WriteFails
  /\ saving' = [saving EXCEPT ![Watchdog] = Unlocked]
  /\ wd' = "idle"
  /\ UNCHANGED <<lock, export, entry, close, reset, exchange>> /\ CountersKept

-----------------------------------------------------------------------------
(* Entries                                                                 *)

(* riskGateMiddleware looks at the lock first, the other two ways never do *)
EntryStart(e) ==
  /\ entry[e].pc = "idle"
  /\ entry' = [entry EXCEPT ![e] =
       [pc |-> CASE e \in Orders /\ lock.active -> "done"
                 [] e \in Confirms -> "placing"
                 [] OTHER -> "risk",
        locked |-> lock.active]]
  /\ UNCHANGED <<lock, storage, wd, close, reset, exchange, bounds>>

(* evaluateRiskGates, for an order request and for an auto signal.  When   *)
(* it throws, both end; without an equity that is valid for risk it says   *)
(* risk_check_unavailable, which ends a signal and lets a request pass.    *)
EntryRisk(e) ==
  /\ entry[e].pc = "risk"
  /\ \/ Fault /\ EntryAt(e, "done") /\ UNCHANGED <<lock, wd>>
     \/ Fault /\ e \in Orders /\ EntryAt(e, "placing") /\ UNCHANGED <<lock, wd>>
     \/ NoFault /\ deep /\ e \in Orders /\ Latch(e)
     \/ NoFault /\ deep /\ e \in Signals /\ EntryAt(e, "done") /\ UNCHANGED <<lock, wd>>
     \/ NoFault /\ ~deep /\ EntryAt(e, "placing") /\ UNCHANGED <<lock, wd>>
  /\ UNCHANGED <<storage, close, reset, exchange>> /\ CountersKept

(* The exchange answers: filled, resting in the book, or refused.          *)
EntryPlaced(e) ==
  /\ entry[e].pc = "placing"
  /\ EntryAt(e, "done")
  /\ \/ pos' = pos \cup {e} /\ UNCHANGED resting
     \/ e \notin Confirms /\ resting' = resting \cup {e} /\ UNCHANGED pos
     \/ UNCHANGED <<pos, resting>>
  /\ late' = IF lock.active /\ <<pos, resting>>' # <<pos, resting>>
             THEN late \cup {e} ELSE late
  /\ UNCHANGED <<lock, storage, wd, close, reset, deep, kept, bounds>>

-----------------------------------------------------------------------------
(* emergencyCloseAll                                                       *)

CloseOnly == UNCHANGED <<lock, storage, wd, entry, reset, deep, late>> /\ CountersKept
CloseAt(pc) == close' = [close EXCEPT !.pc = pc]

(* Only one runs at a time; another call returns at once, not flat.        *)
CloseStart(c) ==
  /\ IF c = Watchdog THEN wd = "close" ELSE entry[c].pc = "close"
  /\ IF close.by # Nobody
     THEN GivesUp(c) /\ UNCHANGED close
     ELSE CloserAt(c, "closing") /\ close' = [NoClose EXCEPT !.by = c]
  /\ UNCHANGED <<lock, storage, reset, exchange, bounds>>

(* cancelAll; when it fails some of the orders may still be in the book.   *)
CloseCancel ==
  /\ close.by # Nobody /\ close.pc = "cancel"
  /\ CloseAt("orders")
  /\ \/ NoFault /\ resting' = {}
     \/ Fault /\ resting' \in SUBSET resting
  /\ kept' = kept \cup resting'
  /\ UNCHANGED pos /\ CloseOnly

CloseOrders ==
  /\ close.by # Nobody /\ close.pc = "orders"
  /\ \/ NoFault /\ close' = [close EXCEPT !.pc = "initial", !.cleared = (resting = {})]
     \/ Fault /\ CloseAt("initial")
  /\ UNCHANGED <<pos, resting, kept>> /\ CloseOnly

(* The first look at the positions: none is taken as verified; without an  *)
(* answer there are no rounds.                                             *)
CloseInitial ==
  /\ close.by # Nobody /\ close.pc = "initial"
  /\ \/ /\ NoFault
        /\ close' = [close EXCEPT !.left = pos, !.verified = (pos = {}),
                       !.pc = IF pos = {} THEN "verify" ELSE "round"]
     \/ Fault /\ CloseAt("verify")
  /\ UNCHANGED <<pos, resting, kept>> /\ CloseOnly

(* One round reads the positions and sends an IOC close for each; any of   *)
(* them may not be filled.                                                 *)
CloseRound ==
  /\ close.by # Nobody /\ close.pc = "round"
  /\ close.round < MaxRounds
  /\ \/ Fault /\ close' = [close EXCEPT !.round = @ + 1] /\ UNCHANGED pos
     \/ /\ NoFault
        /\ pos = {}
        /\ close' = [close EXCEPT !.round = @ + 1, !.pc = "verify"]
        /\ UNCHANGED pos
     \/ /\ NoFault
        /\ pos # {}
        /\ close' = [close EXCEPT !.round = @ + 1, !.left = pos]
        /\ pos' = {}
     \/ /\ Fault
        /\ pos # {}
        /\ close' = [close EXCEPT !.round = @ + 1, !.left = pos]
        /\ \E unfilled \in SUBSET pos : pos' = unfilled
  /\ UNCHANGED <<resting, kept>> /\ CloseOnly

CloseRoundsOver ==
  /\ close.by # Nobody /\ close.pc = "round"
  /\ close.round = MaxRounds
  /\ CloseAt("verify")
  /\ UNCHANGED <<pos, resting, kept, faults>> /\ CloseOnly

(* Mutant: without a last look what the rounds left behind counts.         *)
CloseVerifyUnread ==
  /\ close.by # Nobody /\ close.pc = "verify"
  /\ NoFault /\ close' = [close EXCEPT !.pc = "cleared", !.verified = TRUE]
  /\ UNCHANGED <<pos, resting, kept>> /\ CloseOnly

CloseVerify ==
  /\ close.by # Nobody /\ close.pc = "verify"
  /\ \/ NoFault /\ close' = [close EXCEPT !.pc = "cleared", !.left = pos, !.verified = TRUE]
     \/ Fault /\ CloseAt("cleared")
  /\ UNCHANGED <<pos, resting, kept>> /\ CloseOnly

CloseCleared ==
  /\ close.by # Nobody /\ close.pc = "cleared"
  /\ \/ NoFault /\ close' = [close EXCEPT !.pc = "finish", !.cleared = (resting = {})]
     \/ Fault /\ CloseAt("finish")
  /\ UNCHANGED <<pos, resting, kept>> /\ CloseOnly

(* Mutant: the flag is not cleared in the finally block.                   *)
CloseFinishRunning ==
  /\ close.by # Nobody /\ close.pc = "finish"
  /\ CloseAt("finished")
  /\ GivesUp(close.by)
  /\ UNCHANGED <<lock, storage, reset, exchange, bounds>>

(* It returns.  Only the watchdog settles the lock, when the close was     *)
(* verified flat with the orders cleared; a gated request answers 403.     *)
CloseFinish ==
  LET done == close.left = {} /\ close.verified /\ close.cleared IN
  /\ close.by # Nobody /\ close.pc = "finish"
  /\ close' = NoClose
  /\ IF close.by = Watchdog /\ done
     THEN /\ lock' = [lock EXCEPT !.settled = TRUE]
          /\ saving' = [saving EXCEPT ![Watchdog] = lock']
          /\ CloserAt(Watchdog, "settling")
     ELSE /\ GivesUp(close.by)
          /\ UNCHANGED <<lock, saving>>
  /\ UNCHANGED <<file, export, reset, exchange, bounds>>

CloseStep ==
  \/ CloseCancel
  \/ CloseOrders
  \/ CloseInitial
  \/ CloseRound
  \/ CloseRoundsOver
  \/ CloseVerify
  \/ CloseCleared
  \/ CloseFinish

-----------------------------------------------------------------------------
(* POST /api/live/dd-lock/reset: refused unless the positions are flat.    *)
ResetLock ==
  /\ reset = "idle"
  /\ resets < MaxResets /\ resets' = resets + 1
  /\ pos = {}
  /\ lock' = Unlocked
  /\ reset' = "clear"
  /\ UNCHANGED <<storage, wd, entry, close, exchange, faults, swings, exports, crashes>>

(* The notification key is cleared; the lock is captured only now.  Either *)
(* write may throw: the lock is off, and the file still has it.            *)
ResetCleared ==
  /\ reset = "clear"
  /\ \/ NoFault /\ saving' = [saving EXCEPT !["owner"] = lock] /\ reset' = "persist"
     \/ Fault /\ reset' = "idle" /\ UNCHANGED saving
  /\ UNCHANGED <<lock, file, export, wd, entry, close, exchange>> /\ CountersKept

ResetStored ==
  /\ reset = "persist"
  /\ Writes(saving["owner"]) \/ WriteFails
  /\ saving' = [saving EXCEPT !["owner"] = Unlocked]
  /\ reset' = "idle"
  /\ UNCHANGED <<lock, export, wd, entry, close, exchange>> /\ CountersKept

(* writeAlertState for another key (the radar keys exported to freqtrade,  *)
(* the notification key) reads the file, and later writes all of it back.  *)
ExportRead ==
  /\ export = {}
  /\ exports < MaxExports /\ exports' = exports + 1
  /\ export' = {file}
  /\ UNCHANGED <<lock, file, saving, wd, entry, close, reset, exchange, faults, swings, resets, crashes>>

ExportWrite ==
  /\ export # {}
  /\ (\E l \in export : Writes(l)) \/ WriteFails
  /\ export' = {}
  /\ UNCHANGED <<lock, saving, wd, entry, close, reset, exchange>> /\ CountersKept

-----------------------------------------------------------------------------
(* The exchange and the process                                            *)

OrderFills(e) ==
  /\ e \in resting
  /\ resting' = resting \ {e}
  /\ pos' = pos \cup {e}
  /\ UNCHANGED <<lock, storage, wd, entry, close, reset, deep, late, kept, bounds>>

EquityCrosses ==
  /\ swings < MaxSwings /\ swings' = swings + 1
  /\ deep' = ~deep
  /\ UNCHANGED <<lock, storage, wd, entry, close, reset, pos, resting, late, kept>>
  /\ UNCHANGED <<faults, resets, exports, crashes>>

(* The server restarts with the lock of the file; requests are gone.       *)
Crash ==
  /\ crashes < MaxCrashes /\ crashes' = crashes + 1
  /\ lock' = file
  /\ wd' = "idle" /\ reset' = "idle" /\ close' = NoClose /\ export' = {}
  /\ saving' = [p \in {Watchdog, "owner"} |-> Unlocked]
  /\ entry' = [e \in Entries |-> IF entry[e].pc = "idle" THEN entry[e]
                                 ELSE [entry[e] EXCEPT !.pc = "done"]]
  /\ UNCHANGED <<file, exchange, faults, swings, resets, exports>>

Init ==
  /\ lock = Unlocked /\ file = Unlocked /\ export = {}
  /\ saving = [p \in {Watchdog, "owner"} |-> Unlocked]
  /\ wd = "idle" /\ reset = "idle" /\ close = NoClose
  /\ entry = [e \in Entries |-> [pc |-> "idle", locked |-> FALSE]]
  /\ pos = {} /\ resting = {} /\ late = {} /\ kept = {} /\ deep = FALSE
  /\ faults = 0 /\ swings = 0 /\ resets = 0 /\ exports = 0 /\ crashes = 0

ServerStep ==
  \/ WatchdogTick
  \/ WatchdogRisk
  \/ SettledStored
  \/ \E c \in Closers : LatchStored(c) \/ CloseStart(c)
  \/ CloseStep
  \/ ResetCleared
  \/ ResetStored
  \/ ExportWrite
  \/ \E e \in Entries : EntryRisk(e) \/ EntryPlaced(e)

Next ==
  \/ ServerStep
  \/ \E e \in Entries : EntryStart(e) \/ OrderFills(e)
  \/ ResetLock
  \/ ExportRead
  \/ EquityCrosses
  \/ Crash

Spec == Init /\ [][Next]_vars

(* The watchdog's interval goes on, every await of it and of a close ends, *)
(* and a request that closes goes on too.                                  *)
Fairness ==
  /\ WF_vars(WatchdogTick \/ WatchdogRisk \/ SettledStored)
  /\ \A c \in Closers : WF_vars(LatchStored(c) \/ CloseStart(c))
  /\ WF_vars(CloseStep)

FairSpec == Spec /\ Fairness

-----------------------------------------------------------------------------
(* Properties                                                              *)

(* Types; and the close runs for the caller that waits for it.             *)
TypeOK ==
  /\ lock \in Lock /\ file \in Lock /\ export \subseteq Lock
  /\ saving \in [{Watchdog, "owner"} -> Lock]
  /\ wd \in {"idle", "risk", "persist", "close", "closing", "settling"}
  /\ reset \in {"idle", "clear", "persist"}
  /\ entry \in [Entries -> [pc: {"idle", "risk", "persist", "close", "closing", "placing", "done"},
                            locked: BOOLEAN]]
  /\ close \in [by: Closers \cup {Nobody},
                pc: {"cancel", "orders", "initial", "round", "verify", "cleared", "finish"},
                round: 0..MaxRounds, left: SUBSET Entries,
                verified: BOOLEAN, cleared: BOOLEAN]
  /\ \A c \in Closers :
       close.by = c <=> (IF c = Watchdog THEN wd ELSE entry[c].pc) = "closing"
  /\ pos \subseteq Entries /\ resting \subseteq Entries /\ late \subseteq Entries /\ kept \subseteq Entries
  /\ deep \in BOOLEAN
  /\ faults \in 0..MaxFaults /\ swings \in 0..MaxSwings
  /\ resets \in 0..MaxResets /\ exports \in 0..MaxExports /\ crashes \in 0..MaxCrashes

(* Until the owner resets, a settled lock leaves nothing of what was       *)
(* entered before it, whatever read or close failed and whatever raced:    *)
(* what is open came in under the lock, or a failed cancelAll kept it.     *)
SettledHasClosedAll ==
  lock.settled /\ resets = 0 => pos \cup resting \subseteq late \cup kept

(* An equity that stays below the limit ends in a settled lock, whatever   *)
(* fails, restarts or is reset on the way, finitely often.                 *)
DrawdownSettles ==
  <>[]deep => <>[](lock.active /\ lock.settled)

(* "New entry orders are blocked until owner resets the lock": a lock that *)
(* was stored stays stored, and so survives a restart, until a reset.      *)
StoredUntilReset ==
  [][file.active /\ resets = 0 => file'.active]_vars

(* The drawdown lock blocks new entries: an entry that began while it was  *)
(* active is never accepted.                                               *)
LockBlocksEntries ==
  \A e \in Entries : entry[e].locked => e \notin pos \cup resting

(* The completion message: positions are flat and open orders are cleared. *)
(* Of what was entered before the lock nothing is left once it is settled, *)
(* although calls of the exchange may fail.                                *)
SettledIsFlat ==
  lock.settled => pos \cup resting \subseteq late
=============================================================================
