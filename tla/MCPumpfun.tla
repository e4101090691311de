------------------------------ MODULE MCPumpfun ------------------------------
(* Small instances of Pumpfun.  Lamports and tokens come in units of a few; *)
(* a percentage of 50 leaves whole and halved amounts to tell apart.        *)
EXTENDS PumpfunTotals

CONSTANTS u, t,      \* a trader, the team (also the authority)
          m1, m2     \* two mints

Pair == {u, t}

Unbounded == [kind |-> "range", min |-> {}, max |-> {}]

(* Percentage on the curve, buy, sell and migration fees, limit.            *)
ConfigOf(percent, buyFee, sellFee, migrationFee, limit) ==
  [authority |-> t, pending_authority |-> NoKey, global_authority |-> t,
   team_wallet |-> t, init_bonding_curve |-> percent, platform_buy_fee |-> buyFee,
   platform_sell_fee |-> sellFee, platform_migration_fee |-> migrationFee,
   curve_limit |-> limit,
   lamport_amount_config |-> [kind |-> "range", min |-> {}, max |-> {9}],
   token_supply_config |-> [kind |-> "enum", options |-> {2, 4}],
   token_decimals_config |-> Unbounded, whitelist_enabled |-> TRUE, size |-> 3]

FeesOnBoth == ConfigOf(75, 50, 50, 25, 10)
TwoSizes   == {FeesOnBoth, [FeesOnBoth EXCEPT !.size = 5]}
NoFeesAll  == {ConfigOf(100, 0, 0, 25, 10)}
MostToTeam == {ConfigOf(25, 0, 0, 25, 10)}
HighLimit  == {ConfigOf(75, 0, 0, 10, 12)}
FeeOrNot   == {ConfigOf(75, 0, 0, 25, 10), ConfigOf(75, 0, 25, 25, 10)}
LimitMoves == {ConfigOf(75, 50, 50, 25, 10), ConfigOf(75, 0, 50, 25, 7)}

LowLaunch == {[decimals |-> 1, token_supply |-> 40, reserve_lamport |-> 2]}
OneLaunch == {[decimals |-> 1, token_supply |-> 40, reserve_lamport |-> 4]}
===============================================================================
