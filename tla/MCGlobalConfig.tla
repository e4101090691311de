---------------------------- MODULE MCGlobalConfig ----------------------------
(* Small instance of GlobalConfig: two wallets, configurations of three     *)
(* lengths, each written by and for either wallet.                          *)
EXTENDS GlobalConfig

CONSTANTS u, t   \* two wallets

MCWallets == {u, t}
MCNominees == {u, t, NoKey}

Unbounded == [kind |-> "range", min |-> {}, max |-> {}]

ConfigOf(authority, size) ==
  [authority |-> authority, pending_authority |-> NoKey, global_authority |-> t,
   team_wallet |-> t, init_bonding_curve |-> 80, platform_buy_fee |-> 0,
   platform_sell_fee |-> 0, platform_migration_fee |-> 0, curve_limit |-> 8,
   lamport_amount_config |-> Unbounded, token_supply_config |-> Unbounded,
   token_decimals_config |-> Unbounded, whitelist_enabled |-> FALSE, size |-> size]

MCConfigs == { ConfigOf(a, n) : a \in {u, t}, n \in {3, 5, 6} }
===============================================================================
