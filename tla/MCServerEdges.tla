---------------------------- MODULE MCServerEdges ---------------------------
(***************************************************************************)
(* An instance of ServerEdges.                                             *)
(***************************************************************************)
EXTENDS ServerEdges

(* One name in two markets: the exchange's own and one of a builder dex.   *)
MCMarkets == {[dex |-> "", core |-> "GOLD"], [dex |-> "xyz", core |-> "GOLD"]}
(* An entry, a target that does not say what it is, and a stop; below and  *)
(* above the price of the position.                                        *)
MCOrderTypes == {[kind |-> None, reduceOnly |-> FALSE], [kind |-> None, reduceOnly |-> TRUE],
                 [kind |-> "sl", reduceOnly |-> TRUE]}
MCOffsets == {-1, 1}

(* Two kinds of signal of one coin                                         *)
MCCoinOf == <<"BTC", "BTC">>

(* The first two messages have one dedupeKey.                              *)
MCKey == <<1, 1, 3>>

(* An entry with a cooldown and retries, an exit that is asked at any time,*)
(* and a risk rule                                                         *)
MCTier == <<100, 200, 300>>
MCCooldown == <<2, 0, 2>>
MCAttempts == <<2, 1, 1>>
MCPauses == <<TRUE, FALSE, FALSE>>
=============================================================================
