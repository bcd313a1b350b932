------------------------- MODULE MCStrategyMonitors -------------------------
(* Both monitors on one timeframe each; the engulfing monitor exits on     *)
(* another.  Buying and selling are alike.                                 *)
EXTENDS StrategyMonitors, TLC

CONSTANTS buy, sell

MCSides    == {buy, sell}
MCEntryTfs == <<"15m">>
MCExitTfs  == <<"1h">>
Alike      == Permutations(MCSides)
=============================================================================
