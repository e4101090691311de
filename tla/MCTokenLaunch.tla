----------------------------- MODULE MCTokenLaunch -----------------------------
(* Small instance of TokenLaunch: bytes in base 12, two of them to a u64;    *)
(* the limit of one config lies in reach, the other's fees differ.           *)
EXTENDS TokenLaunch

ConfigOf(limit, buyFee, sellFee) ==
  [curve_limit |-> limit, platform_buy_fee |-> buyFee, platform_sell_fee |-> sellFee,
   platform_migration_fee |-> 1]

TwoConfigs == { ConfigOf(10, 50, 25), ConfigOf(20, 0, 0) }

OneStart == { [init_lamport |-> 4, reserve_lamport |-> 4, reserve_token |-> 20,
               launch_phase |-> "Presale"] }
===============================================================================
