------------------------------- MODULE MCClient -------------------------------
(* Small instance of Client: one mint, the team's wallet moves between two   *)
(* wallets, two transactions of the client on their way at a time.           *)
EXTENDS Client

CONSTANTS u, t,   \* a trader, the authority
          m1      \* the mint

Pair == {u, t}

Any == [kind |-> "range", min |-> {}, max |-> {}]

ConfigOf(team, limit) ==
  [authority |-> t, pending_authority |-> NoKey, global_authority |-> t,
   team_wallet |-> team, init_bonding_curve |-> 100, platform_buy_fee |-> 0,
   platform_sell_fee |-> 0, platform_migration_fee |-> 25, curve_limit |-> limit,
   lamport_amount_config |-> Any, token_supply_config |-> Any,
   token_decimals_config |-> Any, whitelist_enabled |-> FALSE, size |-> 3]

TeamMoves == { ConfigOf(t, 11), ConfigOf(u, 10) }

OneLaunch == {[decimals |-> 0, token_supply |-> 17, reserve_lamport |-> 4]}

MCCommands ==
  { [op |-> "swap", wallet |-> u, mint |-> m1, amount |-> 3, style |-> Buy],
    [op |-> "swap", wallet |-> u, mint |-> m1, amount |-> 1, style |-> Sell] }
  \cup { [op |-> "withdraw", wallet |-> t, mint |-> m1] }
  \cup { [op |-> "launch", wallet |-> t, params |-> l] : l \in Launches }
  \cup { [op |-> "config", wallet |-> t, cfg |-> c] : c \in Configs }
  \cup { [op |-> "addWl", wallet |-> u] }
===============================================================================
