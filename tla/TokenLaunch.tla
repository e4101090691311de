------------------------------ MODULE TokenLaunch ------------------------------
(***************************************************************************)
(* The account of an earlier design that state.rs still defines, with the  *)
(* body of migrate (instructions/migrate.rs) that works on it.  Its        *)
(* functions are public and no instruction of lib.rs calls them: the model *)
(* calls them in any order, which is all they can rely on.                 *)
(***************************************************************************)
EXTENDS CurveMath, AmmInstruction

CONSTANTS Starts,         \* launches to begin with
          Configs,          \* global configs a call may come with
          Amounts,          \* amounts traded
          Funds,            \* lamports in the vault beyond its rent, of other launches
          UserSol,          \* lamports of the traders
          UserTokens,       \* tokens of the traders that were never on the curve
          FeeUnit,          \* 10_000, the divisor of the migration fee
          CallerShare,      \* 330_000_000 lamports for the caller of migrate
          MigrationCost,    \* 730_000_000 lamports kept out of the pool
          PoolFee,          \* (external) what the AMM takes for a new pool, its rents included
          Nonces,           \* nonces of the AMM's authority
          Numbers,          \* other numbers in an instruction's fields
          MaxSniped         \* bound: lamports recorded by snipe

LaunchPhase == {"Presale", "ProcessingPresale", "OpenSale", "Completed"}

LaunchType == [init_lamport : U64, reserve_lamport : U64, reserve_token : U64,
               launch_phase : LaunchPhase]

ASSUME StartAssumption ==
  Starts \subseteq { l \in LaunchType : l.init_lamport <= l.reserve_lamport }
ASSUME ConfigAssumption ==
  Configs \subseteq [curve_limit : Nat, platform_buy_fee : Nat, platform_sell_fee : Nat,
                     platform_migration_fee : Nat]
ASSUME AmountAssumption ==
  /\ Amounts \subseteq U64
  /\ {Funds, UserSol, UserTokens} \subseteq Nat
ASSUME FeeAssumption ==
  /\ FeeUnit \in Nat \ {0}
  /\ {CallerShare, MigrationCost, PoolFee} \subseteq Nat
ASSUME CallAssumption ==
  /\ HighPart(MaxU64, Width)[Width] = 0  \* MaxU64 < ByteBase ^ Width
  /\ Nonces \subseteq 0..(ByteBase - 1) /\ Numbers \subseteq U64

VARIABLES launch,      \* the TokenLaunch account
          vault,       \* lamports in the vault
          vaultToken,  \* tokens in the vault's token account
          user,        \* lamports and tokens of the traders
          call,        \* what the AMM was last sent, and what was meant
          sniped,      \* (auxiliary) lamports recorded by snipe
          migrations   \* (auxiliary) migrations so far

vars == <<launch, vault, vaultToken, user, call, sniped, migrations>>

NoCall == [meant |-> [op |-> "reserved", args |-> <<>>], data |-> <<>>]

Init == /\ launch \in Starts
        /\ vault = Funds + (launch.reserve_lamport - launch.init_lamport)
        /\ vaultToken = launch.reserve_token
        /\ user = [sol |-> UserSol, tokens |-> UserTokens]
        /\ call = NoCall
        /\ sniped = 0
        /\ migrations = 0

UpdateReserves(l, cfg, reserveToken, reserveLamport) ==
  [l EXCEPT !.reserve_token = reserveToken, !.reserve_lamport = reserveLamport,
            !.launch_phase = IF reserveLamport >= cfg.curve_limit THEN "Completed" ELSE @]

(* Mutant: the fee is not recorded.                                          *)
AdjustedOnCurve(amount, adjusted) == adjusted

(* The whole amount goes into the reserve and the vault, fee included.      *)
AmountOnCurve(amount, adjusted) == amount

(* A sale in either direction, priced as BondingCurve does: the decimals a  *)
(* buy mixes up cancel out.  No phase is asked for.                         *)
SellTokens(cfg, amount) ==
  /\ amount > 0
  /\ user.tokens >= amount
  /\ \E q \in CalAmountOut(launch, amount, Sell, cfg) :
       \E reserveToken \in CheckedAdd(launch.reserve_token, AmountOnCurve(amount, q.adjusted)),
          reserveLamport \in CheckedSub(launch.reserve_lamport, q.out) :
         /\ vault >= q.out
         /\ launch' = UpdateReserves(launch, cfg, reserveToken, reserveLamport)
         /\ vault' = vault - q.out
         /\ vaultToken' = vaultToken + amount
         /\ user' = [sol |-> user.sol + q.out, tokens |-> user.tokens - amount]
  /\ UNCHANGED <<call, sniped, migrations>>

(* What a buy and a snipe share: tokens leave the curve for the user.       *)
Issue(cfg, amount, paid) ==
  /\ amount > 0
  /\ user.sol >= paid
  /\ \E q \in CalAmountOut(launch, amount, Buy, cfg) :
       \E reserveToken \in CheckedSub(launch.reserve_token, q.out),
          reserveLamport \in CheckedAdd(launch.reserve_lamport, AmountOnCurve(amount, q.adjusted)) :
         /\ vaultToken >= q.out
         /\ launch' = UpdateReserves(launch, cfg, reserveToken, reserveLamport)
         /\ vaultToken' = vaultToken - q.out
         /\ user' = [sol |-> user.sol - paid, tokens |-> user.tokens + q.out]
  /\ vault' = vault + paid
  /\ UNCHANGED <<call, migrations>>

BuyTokens(cfg, amount) == Issue(cfg, amount, amount) /\ UNCHANGED sniped

(* A presale's purchase: the lamports are recorded, none is moved.          *)
Snipe(cfg, amount) == /\ sniped + amount <= MaxSniped
                      /\ Issue(cfg, amount, 0)
                      /\ sniped' = sniped + amount

(* Accounts Migrate names as mutable, by their names in initialize2.        *)
MigrateMutable ==
  {"create_fee_destination", "user_wallet", "amm_pool", "amm_open_orders", "amm_lp_mint",
   "amm_coin_mint", "amm_pc_mint", "amm_coin_vault", "amm_pc_vault", "amm_target_orders",
   "amm_config", "market", "user_token_coin", "user_token_pc", "user_token_lp"}

(* External: the runtime lets a program pass on the privileges it has.      *)
Privileged(accounts) ==
  accounts.writable \subseteq MigrateMutable /\ accounts.signer = {"user_wallet"}

InitPcAmount(l, fee) == l.reserve_lamport - fee - l.init_lamport - MigrationCost

(* Pays the caller, the admin and the pool.  Raydium takes the coin from    *)
(* the vault's token account and its fee from the vault; the pc comes from  *)
(* an account the caller names.                                             *)
Migrate(cfg, nonce, time) ==
  LET fee == (launch.reserve_lamport \div FeeUnit) * cfg.platform_migration_fee
      pc == InitPcAmount(launch, fee)
      coin == (pc * launch.reserve_token) \div launch.reserve_lamport
      feeToken == launch.reserve_token - coin
      ix == Initialize2(nonce, time, pc, coin)
      out == CallerShare + fee + PoolFee
  IN  /\ launch.launch_phase = "Completed"
      /\ launch.reserve_lamport > 0
      /\ pc >= 0
      /\ feeToken >= 0
      /\ vault >= out
      /\ vaultToken >= feeToken + coin
      /\ Privileged(ix.accounts)
      /\ call' = [meant |-> [op |-> "initialize2", args |-> <<nonce, time, pc, coin>>],
                  data |-> ix.data]
      /\ vault' = vault - out
      /\ vaultToken' = vaultToken - feeToken - coin
      /\ user' = [user EXCEPT !.sol = @ + CallerShare]
      /\ launch' = UpdateReserves(launch, cfg, 0, 0)
      /\ migrations' = migrations + 1
      /\ UNCHANGED sniped

(* The other builders pack what they are given and look at no account.      *)
Built(ix) == /\ call' = [meant |-> ix, data |-> Pack(ix)]
             /\ UNCHANGED <<launch, vault, vaultToken, user, sniped, migrations>>

Deposit(maxCoin, maxPc, baseSide) ==
  Built([op |-> "deposit", args |-> <<maxCoin, maxPc, baseSide>>])
Withdraw(amount)             == Built([op |-> "withdraw", args |-> <<amount>>])
SwapBaseIn(amount, minimum)  == Built([op |-> "swap_base_in", args |-> <<amount, minimum>>])
SwapBaseOut(maximum, amount) == Built([op |-> "swap_base_out", args |-> <<maximum, amount>>])

Next ==
  \/ \E cfg \in Configs :
       \/ \E a \in Amounts : SellTokens(cfg, a) \/ BuyTokens(cfg, a) \/ Snipe(cfg, a)
       \/ \E n \in Nonces, time \in Numbers : Migrate(cfg, n, time)
  \/ \E a \in Numbers :
       \/ Withdraw(a)
       \/ \E b \in Numbers : SwapBaseIn(a, b) \/ SwapBaseOut(a, b) \/ \E c \in Numbers : Deposit(a, b, c)

Spec == Init /\ [][Next]_vars

-------------------------------------------------------------------------------
(* The account's u64 fields stay in range and no balance falls below zero.  *)
LaunchTypeOK ==
  /\ launch \in LaunchType
  /\ user \in [sol : Nat, tokens : Nat]
  /\ {vault, vaultToken, sniped, migrations} \subseteq Nat

(* The vault's token account holds what the launch records, through trades, *)
(* snipes and migrations; BondingCurve gave this up for its fees.           *)
LaunchTokensMatch == vaultToken = launch.reserve_token

(* Until it is migrated, the launch's lamports are in the vault, all but    *)
(* those that snipe recorded and nobody paid.                               *)
LaunchBooks == migrations = 0 =>
  vault + sniped = Funds + launch.reserve_lamport - launch.init_lamport

(* A trade or a snipe lowers the product of the reserves by no more than    *)
(* three parts in FloatPrecision of what was paid times the reserve that    *)
(* paid out: one for the price, two for the priced amount, which nothing    *)
(* here caps at the amount paid (TokenLaunchAccount::swap, snipe).          *)
LaunchProductFallsByRounding == [][migrations' = migrations =>
  LET sold    == launch'.reserve_token - launch.reserve_token
      paid    == launch'.reserve_lamport - launch.reserve_lamport
      touched == IF sold > 0 THEN launch.reserve_lamport * sold ELSE launch.reserve_token * paid
  IN  (launch.reserve_lamport * launch.reserve_token) * FloatPrecision
        <= (launch'.reserve_lamport * launch'.reserve_token) * FloatPrecision + 3 * touched]_vars

(* The AMM reads from every buffer the instruction that was meant, and      *)
(* nothing from a buffer cut short (unpack, amm_instruction.rs).            *)
CallDecodes == call # NoCall =>
  /\ Unpack(call.data) = {call.meant}
  /\ Unpack(call.data \o <<0>>) = {call.meant}
  /\ \A n \in 0..(Len(call.data) - 1) : Unpack(SubSeq(call.data, 1, n)) = {}
===============================================================================
