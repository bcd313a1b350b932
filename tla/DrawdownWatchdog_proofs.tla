----------------------- MODULE DrawdownWatchdog_proofs ----------------------
(***************************************************************************)
(* A settled lock has closed all that came before it: for any number of    *)
(* orders, signals, confirmations, rounds, faults, swings and crashes.     *)
(***************************************************************************)
EXTENDS DrawdownWatchdog, TLAPS

Caller(c) == IF c = Watchdog THEN wd ELSE entry[c].pc

(* Whoever persists, closes or settles does so under an active lock.       *)
Calling ==
  /\ wd \in {"persist", "close", "closing", "settling"} => lock.active
  /\ \A e \in Entries : entry[e].pc \in {"persist", "close", "closing"} => lock.active

(* A copy of the lock that may still become the lock is settled only if    *)
(* the lock is: a crash cannot restore an earlier close.                   *)
Copies == {file} \cup export \cup {saving[p] : p \in {Watchdog, "owner"}}
CopiesFollow ==
  /\ \A l \in Copies \cup {lock} : l.settled => l.active
  /\ \A l \in Copies : l.settled => lock.settled

(* Once a close has cancelled, what still rests came in under the lock or  *)
(* survived the cancellation; so does what is open once it was verified.   *)
Excused == late \cup kept
CloseKnows ==
  close.by # Nobody =>
    /\ close.pc # "cancel" => resting \subseteq Excused
    /\ close.verified => close.pc # "cancel"
    /\ close.verified /\ close.left = {} => pos \subseteq Excused

SettledOnly == lock.settled => pos \cup resting \subseteq Excused

Safe == resets = 0 => Calling /\ CopiesFollow /\ CloseKnows /\ SettledOnly
IInv == TypeOK /\ Safe

-----------------------------------------------------------------------------
LEMMA LocksAreLocks == Unlocked \in Lock /\ Latched \in Lock
  BY DEF Unlocked, Latched, Lock

Close == [by: Closers \cup {Nobody},
          pc: {"cancel", "orders", "initial", "round", "verify", "cleared", "finish"},
          round: 0..MaxRounds, left: SUBSET Entries, verified: BOOLEAN, cleared: BOOLEAN]

LEMMA NoCloseType ==
  ASSUME NEW c \in Closers
  PROVE  LET begun == [NoClose EXCEPT !.by = c]
         IN  NoClose \in Close /\ begun \in Close /\ begun.by = c /\ begun.pc = "cancel" /\ ~begun.verified
<1>1. 0 \in 0..MaxRounds
  BY DrawdownAssumption
<1>2. NoClose \in Close /\ NoClose.pc = "cancel" /\ ~NoClose.verified
  BY <1>1 DEF NoClose, Close
<1> QED
  BY <1>2 DEF Close

LEMMA DrawdownInit == ASSUME Init PROVE IInv
<1>1. close \in Close
  BY NoCloseType DEF Init, Closers
<1>2. \A c \in Closers : close.by # c /\ (IF c = Watchdog THEN wd ELSE entry[c].pc) # "closing"
  BY NobodyAssumption DEF Init, NoClose, Closers, Entries
<1>3. /\ faults \in 0..MaxFaults /\ swings \in 0..MaxSwings
      /\ resets \in 0..MaxResets /\ exports \in 0..MaxExports /\ crashes \in 0..MaxCrashes
  BY DrawdownAssumption DEF Init
<1>4. /\ saving \in [{Watchdog, "owner"} -> Lock]
      /\ entry \in [Entries -> [pc: {"idle", "risk", "persist", "close", "closing", "placing", "done"},
                                locked: BOOLEAN]]
  BY LocksAreLocks DEF Init
<1>5. TypeOK
  BY <1>1, <1>2, <1>3, <1>4, LocksAreLocks DEF Init, TypeOK, Close
<1>6. Safe
  BY DEF Init, Safe, Calling, CopiesFollow, Copies, CloseKnows, SettledOnly, Unlocked, NoClose
<1> QED
  BY <1>5, <1>6 DEF IInv

(* A caller moves, and nobody else does.                                   *)
LEMMA CallerMoves ==
  ASSUME TypeOK, NEW c \in Closers, NEW pc, CloserAt(c, pc),
         pc \in {"persist", "close", "closing"} \cup (IF c = Watchdog THEN {"idle", "settling"} ELSE {"done"})
  PROVE  /\ wd' \in {"idle", "risk", "persist", "close", "closing", "settling"}
         /\ entry' \in [Entries -> [pc: {"idle", "risk", "persist", "close", "closing", "placing", "done"},
                                    locked: BOOLEAN]]
         /\ Caller(c)' = pc
         /\ \A d \in Closers \ {c} : Caller(d)' = Caller(d)
         /\ \A e \in Entries \ {c} : entry'[e] = entry[e]
         /\ c # Watchdog => c \in Entries /\ entry'[c].pc = pc /\ wd' = wd
         /\ c = Watchdog => wd' = pc /\ entry' = entry
  BY DrawdownAssumption DEF TypeOK, CloserAt, EntryAt, Caller, Closers, Entries

-----------------------------------------------------------------------------
(* Types                                                                   *)

(* Of the bounds only one ever moves, and only below its limit.            *)
LEMMA FaultTypes == ASSUME TypeOK, Fault \/ NoFault PROVE faults' \in 0..MaxFaults
  BY DrawdownAssumption DEF TypeOK, Fault, NoFault

LEMMA LatchMoves ==
  ASSUME TypeOK, NEW c \in Closers, Latch(c), Caller(c) # "closing"
  PROVE  /\ lock' \in Lock /\ lock'.active
         /\ lock.active => lock' = lock
         /\ ~lock.active => lock' = Latched
         /\ wd' \in {"idle", "risk", "persist", "close", "closing", "settling"}
         /\ entry' \in [Entries -> [pc: {"idle", "risk", "persist", "close", "closing", "placing", "done"},
                                    locked: BOOLEAN]]
         /\ \A d \in Closers : Caller(d)' = "closing" <=> Caller(d) = "closing"
<1>1. CASE lock.active
  BY <1>1, CallerMoves, LocksAreLocks DEF Latch, TypeOK
<1>2. CASE ~lock.active
  <2>1. CloserAt(c, "persist") /\ lock' = Latched
    BY <1>2 DEF Latch
  <2>2. lock' \in Lock /\ lock'.active
    BY <2>1, LocksAreLocks DEF Latched
  <2> QED
    BY <1>2, <2>1, <2>2, CallerMoves
<1> QED
  BY <1>1, <1>2

LEMMA LatchStoredKeeps == ASSUME IInv, NEW c \in Closers, LatchStored(c) PROVE IInv'
<1>1. Caller(c) = "persist" /\ c # Watchdog => entry[c].pc = "persist"
  BY DEF LatchStored, Caller
<1>2. PICK pc \in {"close", IF c = Watchdog THEN "idle" ELSE "done"} : CloserAt(c, pc)
  BY DEF LatchStored, GivesUp
<1>3. (Fault \/ NoFault) /\ file' \in {file, Latched}
  BY DEF LatchStored, Writes, WriteFails
<1>4. TypeOK'
  <2>1. faults' \in 0..MaxFaults /\ file' \in Lock
    BY <1>3, FaultTypes, LocksAreLocks DEF IInv, TypeOK
  <2> QED
    BY <1>1, <1>2, <2>1, CallerMoves DEF LatchStored, IInv, TypeOK, exchange, CountersKept, Caller
<1>5. ASSUME resets = 0 PROVE Calling' /\ CopiesFollow' /\ CloseKnows' /\ SettledOnly'
  <2>1. Calling /\ CopiesFollow /\ CloseKnows /\ SettledOnly
    BY <1>5 DEF IInv, Safe
  <2>2. lock.active
    BY <2>1, <1>1, DrawdownAssumption DEF Calling, Closers, Entries, LatchStored, Caller
  <2>3. Calling'
    BY <2>2 DEF LatchStored, Calling
  <2>4. CopiesFollow'
    BY <2>1, <1>3 DEF LatchStored, CopiesFollow, Copies, Latched
  <2> QED
    BY <2>1, <2>3, <2>4 DEF LatchStored, CloseKnows, SettledOnly, exchange, Excused
<1> QED
  BY <1>4, <1>5 DEF IInv, Safe, LatchStored, CountersKept

LEMMA WatchdogTickKeeps == ASSUME IInv, WatchdogTick PROVE IInv'
<1>1. TypeOK'
  BY DrawdownAssumption DEF WatchdogTick, IInv, TypeOK, storage, exchange, bounds
<1>2. Safe'
  BY DEF WatchdogTick, IInv, Safe, Calling, CopiesFollow, Copies, CloseKnows, SettledOnly, Excused, storage,
     exchange, bounds
<1> QED
  BY <1>1, <1>2 DEF IInv

LEMMA WatchdogRiskKeeps == ASSUME IInv, WatchdogRisk PROVE IInv'
<1>0. Caller(Watchdog) = "risk" /\ Watchdog \in Closers
  BY DEF WatchdogRisk, Caller, Closers
<1>1. faults' \in 0..MaxFaults
  BY FaultTypes DEF IInv, WatchdogRisk
<1>2. CASE Latch(Watchdog)
  <2>1. TypeOK'
    BY <1>0, <1>1, <1>2, LatchMoves DEF WatchdogRisk, IInv, TypeOK, storage, exchange, CountersKept, Caller
  <2>2. ASSUME resets = 0 PROVE Calling' /\ CopiesFollow' /\ CloseKnows' /\ SettledOnly'
    <3>1. Calling /\ CopiesFollow /\ CloseKnows /\ SettledOnly
      BY <2>2 DEF IInv, Safe
    <3>2. lock'.active /\ (lock' = lock \/ (~lock.active /\ lock' = Latched))
      BY <1>0, <1>2, LatchMoves DEF IInv
    <3>3. CopiesFollow'
      BY <3>1, <3>2 DEF CopiesFollow, Copies, WatchdogRisk, storage, Latched
    <3>4. CloseKnows' /\ SettledOnly'
      BY <3>1, <3>2 DEF WatchdogRisk, exchange, CloseKnows, SettledOnly, Excused, Latched
    <3> QED
      BY <3>2, <3>3, <3>4 DEF Calling
  <2> QED
    BY <2>1, <2>2 DEF WatchdogRisk, CountersKept, IInv, Safe
<1>3. CASE wd' = "idle" /\ UNCHANGED <<lock, entry>>
  <2>1. TypeOK'
    BY <1>1, <1>3, DrawdownAssumption DEF WatchdogRisk, IInv, TypeOK, storage, exchange, CountersKept
  <2>2. Safe'
    BY <1>3 DEF WatchdogRisk, IInv, Safe, Calling, CopiesFollow, Copies, CloseKnows, SettledOnly, Excused,
       storage, exchange, CountersKept
  <2> QED
    BY <2>1, <2>2 DEF IInv
<1> QED
  BY <1>2, <1>3 DEF WatchdogRisk

LEMMA SettledStoredKeeps == ASSUME IInv, SettledStored PROVE IInv'
<1>1. (Fault \/ NoFault) /\ file' \in {file, saving[Watchdog]}
  BY DEF SettledStored, Writes, WriteFails
<1>2. TypeOK'
  <2>1. faults' \in 0..MaxFaults /\ file' \in Lock
    BY <1>1, FaultTypes DEF IInv, TypeOK
  <2> QED
    BY <2>1, DrawdownAssumption, LocksAreLocks DEF SettledStored, IInv, TypeOK, exchange, CountersKept
<1>3. saving' \in [{Watchdog, "owner"} -> Lock] /\ \A p \in {Watchdog, "owner"} : saving'[p] \in {saving[p], Unlocked}
  BY DEF SettledStored, IInv, TypeOK, Unlocked, Lock
<1>4. Safe'
  BY <1>1, <1>3 DEF SettledStored, IInv, Safe, Calling, CopiesFollow, Copies, CloseKnows, SettledOnly, Excused,
     exchange, CountersKept, Unlocked
<1> QED
  BY <1>2, <1>4 DEF IInv

-----------------------------------------------------------------------------
(* Entries                                                                 *)

LEMMA EntryStartKeeps == ASSUME IInv, NEW e \in Entries, EntryStart(e) PROVE IInv'
<1>1. entry'[e].pc \in {"risk", "placing", "done"} /\ entry'[e].locked \in BOOLEAN /\ entry[e].pc = "idle"
      /\ entry'[e] = [pc |-> entry'[e].pc, locked |-> entry'[e].locked]
      /\ \A f \in Entries \ {e} : entry'[f] = entry[f]
      /\ entry' = [entry EXCEPT ![e] = entry'[e]]
  <2>1. lock.active \in BOOLEAN
    BY DEF IInv, TypeOK, Lock
  <2> QED
    BY <2>1 DEF EntryStart, IInv, TypeOK
<1>2. TypeOK'
  BY <1>1, DrawdownAssumption DEF EntryStart, IInv, TypeOK, storage, exchange, bounds, Closers
<1>3. Safe'
  BY <1>1 DEF EntryStart, IInv, Safe, Calling, CopiesFollow, Copies, CloseKnows, SettledOnly, Excused,
     storage, exchange, bounds
<1> QED
  BY <1>2, <1>3 DEF IInv

(* A handler of an entry goes on, to a place where it does not call.       *)
LEMMA EntryMoves ==
  ASSUME TypeOK, NEW e \in Entries, NEW pc \in {"done", "placing"}, EntryAt(e, pc), entry[e].pc # "closing"
  PROVE  /\ entry' \in [Entries -> [pc: {"idle", "risk", "persist", "close", "closing", "placing", "done"},
                                    locked: BOOLEAN]]
         /\ entry'[e].pc = pc /\ \A f \in Entries \ {e} : entry'[f] = entry[f]
         /\ \A c \in Closers \ {Watchdog} : entry'[c].pc = "closing" <=> entry[c].pc = "closing"
  BY DrawdownAssumption DEF TypeOK, EntryAt, Closers, Entries

LEMMA EntryRiskKeeps == ASSUME IInv, NEW e \in Entries, EntryRisk(e) PROVE IInv'
<1>1. faults' \in 0..MaxFaults
  BY FaultTypes DEF IInv, EntryRisk
<1>2. CASE e \in Orders /\ Latch(e)
  <2>0. Caller(e) = "risk" /\ e \in Closers
    BY <1>2, DrawdownAssumption DEF EntryRisk, Caller, Closers, Entries
  <2>1. TypeOK'
    BY <2>0, <1>1, <1>2, LatchMoves DEF EntryRisk, IInv, TypeOK, storage, exchange, CountersKept, Caller
  <2>2. ASSUME resets = 0 PROVE Calling' /\ CopiesFollow' /\ CloseKnows' /\ SettledOnly'
    <3>1. Calling /\ CopiesFollow /\ CloseKnows /\ SettledOnly
      BY <2>2 DEF IInv, Safe
    <3>2. lock'.active /\ (lock' = lock \/ (~lock.active /\ lock' = Latched))
      BY <2>0, <1>2, LatchMoves DEF IInv
    <3>3. CopiesFollow'
      BY <3>1, <3>2 DEF CopiesFollow, Copies, EntryRisk, storage, Latched
    <3>4. CloseKnows' /\ SettledOnly'
      BY <3>1, <3>2 DEF EntryRisk, exchange, CloseKnows, SettledOnly, Excused, Latched
    <3> QED
      BY <3>2, <3>3, <3>4 DEF Calling
  <2> QED
    BY <2>1, <2>2 DEF EntryRisk, CountersKept, IInv, Safe
<1>3. ASSUME NEW pc \in {"done", "placing"}, EntryAt(e, pc), UNCHANGED <<lock, wd>>
      PROVE  IInv'
  <2>1. TypeOK'
    BY <1>1, <1>3, EntryMoves DEF EntryRisk, IInv, TypeOK, storage, exchange, CountersKept
  <2>2. Safe'
    BY <1>3, EntryMoves DEF EntryRisk, IInv, Safe, Calling, CopiesFollow, Copies, CloseKnows, SettledOnly, Excused,
       storage, exchange, CountersKept
  <2> QED
    BY <2>1, <2>2 DEF IInv
<1> QED
  BY <1>2, <1>3 DEF EntryRisk

(* What is accepted under an active lock is late, and a close has the lock *)
(* active.                                                                 *)
LEMMA EntryPlacedKeeps == ASSUME IInv, NEW e \in Entries, EntryPlaced(e) PROVE IInv'
<1>1. EntryAt(e, "done") /\ entry[e].pc = "placing"
  BY DEF EntryPlaced
<1>2. TypeOK'
  BY <1>1, EntryMoves DEF EntryPlaced, IInv, TypeOK, storage, bounds
<1>3. ASSUME resets = 0 PROVE Calling' /\ CopiesFollow' /\ CloseKnows' /\ SettledOnly'
  <2>1. Calling /\ CopiesFollow /\ CloseKnows /\ SettledOnly
    BY <1>3 DEF IInv, Safe
  <2>2. Calling' /\ CopiesFollow'
    BY <2>1, <1>1, EntryMoves DEF EntryPlaced, IInv, Calling, CopiesFollow, Copies, storage
  <2>3. lock.active => /\ pos' \subseteq pos \cup late' /\ resting' \subseteq resting \cup late'
                       /\ late \subseteq late'
    BY DEF EntryPlaced, IInv, TypeOK
  <2>4. close.by # Nobody => lock.active
    BY <2>1, DrawdownAssumption DEF Calling, IInv, TypeOK, Closers, Entries
  <2>5. CloseKnows'
    BY <2>1, <2>3, <2>4 DEF EntryPlaced, CloseKnows, Excused
  <2>6. SettledOnly'
    BY <2>1, <2>3 DEF EntryPlaced, CopiesFollow, SettledOnly, Excused
  <2> QED
    BY <2>2, <2>5, <2>6
<1> QED
  BY <1>2, <1>3 DEF IInv, Safe, EntryPlaced, bounds

-----------------------------------------------------------------------------
(* emergencyCloseAll                                                       *)

(* One runs at a time, and it begins with nothing verified.                *)
LEMMA CloseStartKeeps == ASSUME IInv, NEW c \in Closers, CloseStart(c) PROVE IInv'
<1>1. Caller(c) = "close"
  BY DEF CloseStart, Caller
<1>2. CASE close.by # Nobody
  <2> DEFINE pc == IF c = Watchdog THEN "idle" ELSE "done"
  <2>1. CloserAt(c, pc) /\ UNCHANGED close
    BY <1>2 DEF CloseStart, GivesUp
  <2>2. TypeOK'
    BY <1>1, <2>1, CallerMoves DEF CloseStart, IInv, TypeOK, storage, exchange, bounds, Caller
  <2>3. \A e \in Entries : entry'[e].pc \in {"persist", "close", "closing"} => entry'[e] = entry[e]
    BY <2>1, CallerMoves DEF IInv
  <2>4. wd' \in {"persist", "close", "closing", "settling"} => wd' = wd
    BY <2>1, CallerMoves DEF IInv
  <2>5. Safe'
    BY <2>1, <2>3, <2>4 DEF CloseStart, IInv, Safe, Calling, CopiesFollow, Copies, CloseKnows, SettledOnly, Excused,
       storage, exchange, bounds
  <2> QED
    BY <2>2, <2>5 DEF IInv
<1>3. CASE close.by = Nobody
  <2>1. CloserAt(c, "closing") /\ close' = [NoClose EXCEPT !.by = c]
    BY <1>3 DEF CloseStart
  <2>2. close' \in Close /\ close'.by = c /\ close'.pc = "cancel" /\ ~close'.verified
    BY <2>1, NoCloseType
  <2>3. TypeOK'
    BY <1>3, <2>1, <2>2, CallerMoves, NobodyAssumption
       DEF CloseStart, IInv, TypeOK, storage, exchange, bounds, Caller, Close
  <2>4. ASSUME resets = 0 PROVE Calling' /\ CopiesFollow' /\ CloseKnows' /\ SettledOnly'
    <3>1. Calling /\ CopiesFollow /\ CloseKnows /\ SettledOnly
      BY <2>4 DEF IInv, Safe
    <3>2. lock.active
      BY <3>1, <1>1, DrawdownAssumption DEF Calling, Closers, Entries, Caller
    <3> QED
      BY <3>1, <3>2, <2>2 DEF CloseStart, Calling, CopiesFollow, Copies, CloseKnows, SettledOnly, Excused,
         storage, exchange
  <2> QED
    BY <2>3, <2>4 DEF IInv, Safe, CloseStart, bounds
<1> QED
  BY <1>2, <1>3

(* What the steps of a close share: they move nothing but the close, the   *)
(* books of the exchange and the bound of faults.                          *)
LEMMA CloseStepKeeps ==
  ASSUME IInv, CloseOnly, Fault \/ NoFault, close.by # Nobody,
         close' \in Close, close'.by = close.by,
         pos' \subseteq pos, resting' \subseteq resting, kept \subseteq kept', kept' \subseteq kept \cup resting',
         close'.pc # "cancel" /\ (close.pc = "cancel" => resting' \subseteq kept'),
         close'.verified /\ close'.left = {} => pos' = {} \/ (close.verified /\ close.left = {})
  PROVE  IInv'
<1>1. faults' \in 0..MaxFaults
  BY FaultTypes DEF IInv
<1>2. TypeOK'
  BY <1>1 DEF CloseOnly, CountersKept, storage, IInv, TypeOK, Close
<1>3. Safe'
  BY DEF CloseOnly, CountersKept, storage, IInv, Safe, Calling, CopiesFollow, Copies, CloseKnows, SettledOnly, Excused
<1> QED
  BY <1>2, <1>3 DEF IInv

LEMMA CloseIsClose == ASSUME TypeOK PROVE close \in Close
  BY DEF TypeOK, Close

LEMMA CloseCancelKeeps == ASSUME IInv, CloseCancel PROVE IInv'
<1>1. close' = [close EXCEPT !.pc = "orders"] /\ close \in Close
  BY CloseIsClose DEF CloseCancel, CloseAt, IInv
<1>2. close' \in Close /\ close'.by = close.by /\ close'.pc = "orders"
      /\ close'.verified = close.verified /\ close'.left = close.left
  BY <1>1 DEF Close
<1> QED
  BY <1>2, CloseStepKeeps DEF CloseCancel, IInv, TypeOK

LEMMA CloseOrdersKeeps == ASSUME IInv, CloseOrders PROVE IInv'
<1>1. /\ close' \in Close /\ close'.by = close.by /\ close'.pc = "initial"
      /\ close'.verified = close.verified /\ close'.left = close.left
  BY CloseIsClose DEF CloseOrders, CloseAt, IInv, Close
<1> QED
  BY <1>1, CloseStepKeeps DEF CloseOrders

LEMMA CloseInitialKeeps == ASSUME IInv, CloseInitial PROVE IInv'
<1>1. pos \subseteq Entries
  BY DEF IInv, TypeOK
<1>2. /\ close' \in Close /\ close'.by = close.by /\ close'.pc \in {"verify", "round"}
      /\ close'.verified /\ close'.left = {} => pos = {} \/ (close.verified /\ close.left = {})
  BY <1>1, CloseIsClose DEF CloseInitial, CloseAt, IInv, Close
<1> QED
  BY <1>2, CloseStepKeeps DEF CloseInitial

LEMMA CloseRoundKeeps == ASSUME IInv, CloseRound PROVE IInv'
<1>1. pos \subseteq Entries /\ close \in Close /\ close.round + 1 \in 0..MaxRounds
  BY CloseIsClose, DrawdownAssumption DEF IInv, TypeOK, CloseRound
<1>2. /\ close' \in Close /\ close'.by = close.by /\ close'.pc \in {"verify", "round"} /\ pos' \subseteq pos
      /\ close'.verified = close.verified /\ (close'.left = close.left \/ close'.left # {})
  BY <1>1 DEF CloseRound, Close
<1> QED
  BY <1>2, CloseStepKeeps DEF CloseRound

LEMMA CloseRoundsOverKeeps == ASSUME IInv, CloseRoundsOver PROVE IInv'
<1>1. /\ close' \in Close /\ close'.by = close.by /\ close'.pc = "verify"
      /\ close'.verified = close.verified /\ close'.left = close.left
  BY CloseIsClose DEF CloseRoundsOver, CloseAt, IInv, Close
<1> QED
  BY <1>1, CloseStepKeeps DEF CloseRoundsOver, NoFault

LEMMA CloseVerifyKeeps == ASSUME IInv, CloseVerify PROVE IInv'
<1>1. pos \subseteq Entries
  BY DEF IInv, TypeOK
<1>2. /\ close' \in Close /\ close'.by = close.by /\ close'.pc = "cleared"
      /\ close'.verified /\ close'.left = {} => pos = {} \/ (close.verified /\ close.left = {})
  BY <1>1, CloseIsClose DEF CloseVerify, CloseAt, IInv, Close
<1> QED
  BY <1>2, CloseStepKeeps DEF CloseVerify

LEMMA CloseClearedKeeps == ASSUME IInv, CloseCleared PROVE IInv'
<1>1. /\ close' \in Close /\ close'.by = close.by /\ close'.pc = "finish"
      /\ close'.verified = close.verified /\ close'.left = close.left
  BY CloseIsClose DEF CloseCleared, CloseAt, IInv, Close
<1> QED
  BY <1>1, CloseStepKeeps DEF CloseCleared

(* The watchdog settles the lock when nothing but what came later is left. *)
LEMMA CloseFinishKeeps == ASSUME IInv, CloseFinish PROVE IInv'
<1>1. close.by \in Closers /\ Caller(close.by) = "closing" /\ close.pc = "finish"
  BY DEF CloseFinish, IInv, TypeOK, Caller
<1>2. close' \in Close /\ close'.by = Nobody
  BY NoCloseType, <1>1 DEF CloseFinish, NoClose
<1>3. CASE close.by = Watchdog /\ close.left = {} /\ close.verified /\ close.cleared
  <2>1. /\ lock' = [lock EXCEPT !.settled = TRUE] /\ saving' = [saving EXCEPT ![Watchdog] = lock']
        /\ CloserAt(Watchdog, "settling")
    BY <1>3 DEF CloseFinish
  <2>2. wd = "closing" /\ wd' = "settling" /\ entry' = entry
    BY <1>1, <1>3, <2>1 DEF Caller, CloserAt
  <2>3. /\ lock' \in Lock /\ lock'.settled /\ lock'.active = lock.active
        /\ saving' \in [{Watchdog, "owner"} -> Lock] /\ saving'[Watchdog] = lock'
        /\ \A p \in {Watchdog, "owner"} \ {Watchdog} : saving'[p] = saving[p]
    BY <2>1 DEF IInv, TypeOK, Lock
  <2>4. TypeOK'
    BY <1>1, <1>2, <1>3, <2>2, <2>3, DrawdownAssumption, NobodyAssumption
       DEF CloseFinish, IInv, TypeOK, exchange, bounds, Close, Closers, Entries
  <2>5. ASSUME resets = 0 PROVE Calling' /\ CopiesFollow' /\ CloseKnows' /\ SettledOnly'
    <3>1. Calling /\ CopiesFollow /\ CloseKnows /\ SettledOnly
      BY <2>5 DEF IInv, Safe
    <3>2. lock.active
      BY <3>1, <2>2 DEF Calling
    <3>3. pos \subseteq Excused /\ resting \subseteq Excused
      BY <3>1, <1>1, <1>3, NobodyAssumption DEF CloseKnows
    <3>4. Calling'
      BY <3>1, <3>2, <2>2, <2>3 DEF Calling
    <3>5. CopiesFollow'
      <4>1. Copies' \subseteq Copies \cup {lock'}
        BY <2>3 DEF CloseFinish, Copies
      <4> QED
        BY <3>1, <3>2, <2>3, <4>1 DEF CopiesFollow
    <3> QED
      BY <3>3, <3>4, <3>5, <1>2 DEF CloseFinish, CloseKnows, SettledOnly, Excused, exchange
  <2> QED
    BY <2>4, <2>5 DEF IInv, Safe, CloseFinish, bounds
<1>4. CASE ~(close.by = Watchdog /\ close.left = {} /\ close.verified /\ close.cleared)
  <2> DEFINE pc == IF close.by = Watchdog THEN "idle" ELSE "done"
  <2>1. CloserAt(close.by, pc) /\ UNCHANGED <<lock, saving>>
    BY <1>4 DEF CloseFinish, GivesUp
  <2>2. TypeOK'
    BY <1>1, <1>2, <2>1, CallerMoves, NobodyAssumption
       DEF CloseFinish, IInv, TypeOK, exchange, bounds, Caller, Close
  <2>3. \A e \in Entries : entry'[e].pc \in {"persist", "close", "closing"} => entry'[e] = entry[e]
    BY <1>1, <2>1, CallerMoves DEF IInv
  <2>4. wd' \in {"persist", "close", "closing", "settling"} => wd' = wd
    BY <1>1, <2>1, CallerMoves DEF IInv
  <2>5. Safe'
    BY <1>2, <2>1, <2>3, <2>4 DEF CloseFinish, IInv, Safe, Calling, CopiesFollow, Copies, CloseKnows, SettledOnly,
       Excused, exchange, bounds
  <2> QED
    BY <2>2, <2>5 DEF IInv
<1> QED
  BY <1>3, <1>4

-----------------------------------------------------------------------------
(* The owner, other writers, the exchange and the process                  *)

(* After a reset nothing is claimed any more.                              *)
LEMMA ResetLockKeeps == ASSUME IInv, ResetLock PROVE IInv'
<1>1. resets' \in 0..MaxResets /\ resets' # 0
  BY DrawdownAssumption DEF ResetLock, IInv, TypeOK
<1>2. TypeOK'
  BY <1>1, LocksAreLocks DEF ResetLock, IInv, TypeOK, storage, exchange
<1> QED
  BY <1>1, <1>2 DEF IInv, Safe

LEMMA ResetClearedKeeps == ASSUME IInv, ResetCleared PROVE IInv'
<1>1. saving' \in [{Watchdog, "owner"} -> Lock] /\ \A p \in {Watchdog, "owner"} : saving'[p] \in {saving[p], lock}
  BY DEF ResetCleared, IInv, TypeOK
<1>2. TypeOK'
  <2>1. faults' \in 0..MaxFaults
    BY FaultTypes DEF IInv, ResetCleared
  <2> QED
    BY <1>1, <2>1 DEF ResetCleared, IInv, TypeOK, exchange, CountersKept
<1>3. Safe'
  BY <1>1 DEF ResetCleared, IInv, Safe, Calling, CopiesFollow, Copies, CloseKnows, SettledOnly, Excused, exchange,
     CountersKept
<1> QED
  BY <1>2, <1>3 DEF IInv

LEMMA ResetStoredKeeps == ASSUME IInv, ResetStored PROVE IInv'
<1>1. /\ saving' \in [{Watchdog, "owner"} -> Lock]
      /\ \A p \in {Watchdog, "owner"} : saving'[p] \in {saving[p], Unlocked}
      /\ saving["owner"] \in Lock
  BY LocksAreLocks DEF ResetStored, IInv, TypeOK
<1>2. (Fault \/ NoFault) /\ file' \in {file, saving["owner"]}
  BY DEF ResetStored, Writes, WriteFails
<1>3. TypeOK'
  <2>1. faults' \in 0..MaxFaults /\ file' \in Lock
    BY <1>1, <1>2, FaultTypes DEF IInv, TypeOK
  <2> QED
    BY <1>1, <2>1 DEF ResetStored, IInv, TypeOK, exchange, CountersKept
<1>4. Safe'
  BY <1>1, <1>2 DEF ResetStored, IInv, Safe, Calling, CopiesFollow, Copies, CloseKnows, SettledOnly, Excused, exchange,
     CountersKept, Unlocked
<1> QED
  BY <1>3, <1>4 DEF IInv

LEMMA ExportReadKeeps == ASSUME IInv, ExportRead PROVE IInv'
<1>1. exports' \in 0..MaxExports
  BY DrawdownAssumption DEF ExportRead, IInv, TypeOK
<1>2. TypeOK'
  BY <1>1 DEF ExportRead, IInv, TypeOK, exchange
<1>3. Safe'
  BY DEF ExportRead, IInv, Safe, Calling, CopiesFollow, Copies, CloseKnows, SettledOnly, Excused, exchange
<1> QED
  BY <1>2, <1>3 DEF IInv

LEMMA ExportWriteKeeps == ASSUME IInv, ExportWrite PROVE IInv'
<1>1. (Fault \/ NoFault) /\ file' \in export \cup {file}
  BY DEF ExportWrite, Writes, WriteFails
<1>2. TypeOK'
  <2>1. faults' \in 0..MaxFaults /\ file' \in Lock
    BY <1>1, FaultTypes DEF IInv, TypeOK
  <2> QED
    BY <2>1 DEF ExportWrite, IInv, TypeOK, exchange, CountersKept
<1>3. Safe'
  BY <1>1 DEF ExportWrite, IInv, Safe, Calling, CopiesFollow, Copies, CloseKnows, SettledOnly, Excused, exchange,
     CountersKept
<1> QED
  BY <1>2, <1>3 DEF IInv

(* An order that fills had come in late, or a close has not cancelled yet. *)
LEMMA OrderFillsKeeps == ASSUME IInv, NEW e \in Entries, OrderFills(e) PROVE IInv'
<1>1. TypeOK'
  BY DEF OrderFills, IInv, TypeOK, storage, bounds
<1>2. Safe'
  BY DEF OrderFills, IInv, Safe, Calling, CopiesFollow, Copies, CloseKnows, SettledOnly, Excused, storage, bounds
<1> QED
  BY <1>1, <1>2 DEF IInv

LEMMA EquityCrossesKeeps == ASSUME IInv, EquityCrosses PROVE IInv'
<1>1. swings' \in 0..MaxSwings
  BY DrawdownAssumption DEF EquityCrosses, IInv, TypeOK
<1>2. TypeOK'
  BY <1>1 DEF EquityCrosses, IInv, TypeOK, storage
<1>3. Safe'
  BY DEF EquityCrosses, IInv, Safe, Calling, CopiesFollow, Copies, CloseKnows, SettledOnly, Excused, storage
<1> QED
  BY <1>2, <1>3 DEF IInv

(* The stored lock is settled only if the lost one was.                    *)
LEMMA CrashKeeps == ASSUME IInv, Crash PROVE IInv'
<1>1. crashes' \in 0..MaxCrashes
  BY DrawdownAssumption DEF Crash, IInv, TypeOK
<1>2. /\ entry' \in [Entries -> [pc: {"idle", "risk", "persist", "close", "closing", "placing", "done"},
                                 locked: BOOLEAN]]
      /\ \A e \in Entries : entry'[e].pc \in {"idle", "done"}
  BY DEF Crash, IInv, TypeOK
<1>3. close' \in Close /\ close'.by = Nobody
  BY NoCloseType DEF Crash, NoClose, Closers
<1>4. saving' \in [{Watchdog, "owner"} -> Lock] /\ \A p \in {Watchdog, "owner"} : saving'[p] = Unlocked
  BY LocksAreLocks DEF Crash
<1>5. \A c \in Closers \ {Watchdog} : c \in Entries
  BY DEF Closers, Entries
<1>6. TypeOK'
  BY <1>1, <1>2, <1>3, <1>4, <1>5, NobodyAssumption DEF Crash, IInv, TypeOK, exchange, Close
<1>7. Safe'
  BY <1>2, <1>3, <1>4 DEF Crash, IInv, Safe, Calling, CopiesFollow, Copies, CloseKnows, SettledOnly, Excused,
     exchange, Unlocked
<1> QED
  BY <1>6, <1>7 DEF IInv

-----------------------------------------------------------------------------
LEMMA DrawdownNext == ASSUME IInv, [Next]_vars PROVE IInv'
<1>1. CASE UNCHANGED vars
  <2>1. TypeOK'
    BY <1>1 DEF vars, storage, exchange, bounds, IInv, TypeOK
  <2>2. Safe'
    BY <1>1 DEF vars, storage, exchange, bounds, IInv, Safe, Calling, CopiesFollow, Copies, CloseKnows, SettledOnly,
       Excused
  <2> QED
    BY <2>1, <2>2 DEF IInv
<1>2. CASE ServerStep
  <2>1. CASE CloseStep
    BY <2>1, CloseCancelKeeps, CloseOrdersKeeps, CloseInitialKeeps, CloseRoundKeeps, CloseRoundsOverKeeps,
       CloseVerifyKeeps, CloseClearedKeeps, CloseFinishKeeps DEF CloseStep
  <2> QED
    BY <1>2, <2>1, WatchdogTickKeeps, WatchdogRiskKeeps, SettledStoredKeeps, LatchStoredKeeps, CloseStartKeeps,
       ResetClearedKeeps, ResetStoredKeeps, ExportWriteKeeps, EntryRiskKeeps, EntryPlacedKeeps DEF ServerStep
<1> QED
  BY <1>1, <1>2, EntryStartKeeps, OrderFillsKeeps, ResetLockKeeps, ExportReadKeeps, EquityCrossesKeeps, CrashKeeps
     DEF Next

(* Types; in particular a close runs for exactly the caller that waits for *)
(* it, and two of them never run at once.                                  *)
THEOREM DrawdownTypeOK == Spec => []TypeOK
<1>1. Init => IInv
  BY DrawdownInit
<1>2. IInv /\ [Next]_vars => IInv'
  BY DrawdownNext
<1>3. IInv => TypeOK
  BY DEF IInv
<1> QED
  BY <1>1, <1>2, <1>3, PTL DEF Spec

(* Until the owner resets, a settled lock leaves nothing open that came in *)
(* before it, but for what a failed cancellation kept.                     *)
THEOREM DrawdownCorrect == Spec => []SettledHasClosedAll
<1>1. Init => IInv
  BY DrawdownInit
<1>2. IInv /\ [Next]_vars => IInv'
  BY DrawdownNext
<1>3. IInv => SettledHasClosedAll
  BY DEF IInv, Safe, SettledOnly, SettledHasClosedAll, Excused
<1> QED
  BY <1>1, <1>2, <1>3, PTL DEF Spec
=============================================================================
