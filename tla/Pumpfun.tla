-------------------------------- MODULE Pumpfun --------------------------------
(***************************************************************************)
(* The on-chain program: every instruction that changes an account is one  *)
(* action, with the checks that make its transaction fail as conjuncts.    *)
(* The SOL of all curves lies in ONE vault, the tokens of a mint in the    *)
(* vault's token account for that mint; a curve account only records the   *)
(* reserves it prices with.  The properties relate the two.                *)
(***************************************************************************)
EXTENDS GlobalConfig, CurveMath

CONSTANTS Mints,             \* mint keys a launch may use
          Launches,          \* [decimals, token_supply, reserve_lamport] of a launch
          Amounts,           \* amounts a trader asks for
          Minimums,          \* minimum_receive_amount of a trader
          Creators,          \* keys somebody may put on the whitelist
          MarketCreateFee,   \* 300_000_000 lamports handed to the payer of transfer_fee
          MigrationReserve   \* 1_400_000_000 lamports kept out of the pool

ASSUME LaunchAssumption ==
  Launches \subseteq [decimals : Nat, token_supply : U64, reserve_lamport : U64]
ASSUME AmountAssumption == Amounts \subseteq Nat /\ Minimums \subseteq Nat /\ Creators \subseteq Keys
ASSUME FeeAssumption ==
  MarketCreateFee \in Nat /\ MigrationReserve \in Nat \ {0} /\ MarketCreateFee <= MigrationReserve

VARIABLES launched,    \* mints that exist, each with its bonding curve account
          curve,       \* bonding curve account of a mint
          supply,      \* supply of the mint
          vaultToken,  \* tokens in the vault's token account
          tokens,      \* tokens in the wallets' associated accounts
          open,        \* wallets whose associated account exists
          wsol,        \* lamports in the vault's wrapped-SOL account
          whitelist,   \* keys with a whitelist account
          emitted,     \* events of the last transaction
          net,         \* (auxiliary) lamports the vault gained through the curve
          migrated,    \* (auxiliary) lamports transfer_fee took out for the curve
          drained,     \* (auxiliary) tokens reserve_token counts that are not in the vault
          given,       \* (auxiliary) tokens sent to the vault unasked
          settled      \* (auxiliary) mints whose curve was withdrawn

books == <<net, migrated, drained, given, settled>>
curveVars == <<launched, curve, supply, vaultToken, tokens, open, wsol, whitelist, emitted, books>>
vars == <<configVars, curveVars>>

CurveType == [creator : Keys, init_lamport : U64, reserve_lamport : U64, reserve_token : U64,
              is_completed : BOOLEAN]

NoCurve == [creator |-> NoKey, init_lamport |-> 0, reserve_lamport |-> 0, reserve_token |-> 0,
            is_completed |-> FALSE]

EventType ==
  [event : {"launch", "complete"}, mint : Mints]
  \cup [event : {"swap"}, mint : Mints, direction : {Buy, Sell}, amount_in : Nat, amount_out : Nat]
  \cup [event : {"withdraw"}, mint : Mints, sol_amount : Nat, token_amount : Nat]

Init == /\ ConfigInit
        /\ launched = {}
        /\ curve = [m \in Mints |-> NoCurve]
        /\ supply = [m \in Mints |-> 0]
        /\ vaultToken = [m \in Mints |-> 0]
        /\ tokens = [m \in Mints |-> [w \in Wallets |-> 0]]
        /\ open = [m \in Mints |-> {}]
        /\ wsol = 0
        /\ whitelist = {}
        /\ emitted = {}
        /\ net = [m \in Mints |-> 0]
        /\ migrated = [m \in Mints |-> 0]
        /\ drained = [m \in Mints |-> 0]
        /\ given = [m \in Mints |-> 0]
        /\ settled = {}

-------------------------------------------------------------------------------
(* configure, nominate_authority, accept_authority and a gift to the config *)
(* account touch no curve.                                                  *)
Administer == ConfigNext /\ emitted' = {}
              /\ UNCHANGED <<launched, curve, supply, vaultToken, tokens, open, wsol, whitelist, books>>

(* A transfer (utils.rs), seen from either end.                             *)
Credit(balances, w, amount) == [balances EXCEPT ![w] = @ + amount]
Debit(balances, w, amount)  == [balances EXCEPT ![w] = @ - amount]

(* AmountConfig::validate.                                                  *)
Allowed(limits, value) ==
  \/ /\ limits.kind = "range"
     /\ \A lo \in limits.min : lo <= value
     /\ \A hi \in limits.max : value <= hi
  \/ /\ limits.kind = "enum"
     /\ value \in limits.options

(* Tokens that go on the curve; the rest of the supply is the team's.  The  *)
(* f64 quotient is exact for a whole percentage.                            *)
OnCurve(tokenSupply, percent) == AsU64((tokenSupply * percent) \div 100)

NewCurve(init, lamports, creator) ==
  [creator |-> creator, init_lamport |-> lamports, reserve_lamport |-> lamports,
   reserve_token |-> init, is_completed |-> FALSE]

(* Parameters a launch accepts: whole tokens, within the config's limits.   *)
ValidParams(l) ==
  LET unit == 10 ^ l.decimals
  IN  /\ unit <= MaxU64
      /\ l.token_supply % unit = 0
      /\ Allowed(config.lamport_amount_config, l.reserve_lamport)
      /\ Allowed(config.token_supply_config, l.token_supply \div unit)
      /\ Allowed(config.token_decimals_config, l.decimals)

(* Mutant: any account may stand in for the team's.                          *)
TeamAny(team) == TRUE

(* The transaction names the team's account; the program compares it with   *)
(* the config as it is when the transaction runs.                           *)
TeamAccepted(team) == team = config.team_wallet

Launch(creator, team, m, l) ==
  LET init == OnCurve(l.token_supply, config.init_bonding_curve)
  IN  /\ config # NoConfig
      /\ TeamAccepted(team)
      /\ m \notin launched
      /\ ValidParams(l)
      /\ init <= l.token_supply
      /\ launched' = launched \cup {m}
      /\ curve' = [curve EXCEPT ![m] = NewCurve(init, l.reserve_lamport, creator)]
      /\ supply' = [supply EXCEPT ![m] = l.token_supply]
      /\ vaultToken' = [vaultToken EXCEPT ![m] = init]
      /\ tokens' = [tokens EXCEPT ![m][team] = l.token_supply - init]
      /\ open' = [open EXCEPT ![m] = {team}]
      /\ emitted' = {[event |-> "launch", mint |-> m]}
      /\ UNCHANGED <<configVars, wsol, whitelist, books>>

-------------------------------------------------------------------------------
(* Mutant: completion is decided by the reserve before the trade.           *)
CompletesLate(c, cfg, reserveToken, reserveLamport) ==
  [c EXCEPT !.reserve_token = reserveToken, !.reserve_lamport = reserveLamport,
            !.is_completed = c.is_completed \/ c.reserve_lamport >= cfg.curve_limit]

(* Mutant: completion is decided anew by every write.                       *)
CompletesAnew(c, cfg, reserveToken, reserveLamport) ==
  [c EXCEPT !.reserve_token = reserveToken, !.reserve_lamport = reserveLamport,
            !.is_completed = reserveLamport >= cfg.curve_limit]

(* Mutant: the reserve has to pass the limit.                               *)
CompletesPast(c, cfg, reserveToken, reserveLamport) ==
  [c EXCEPT !.reserve_token = reserveToken, !.reserve_lamport = reserveLamport,
            !.is_completed = c.is_completed \/ reserveLamport > cfg.curve_limit]

UpdateReserves(c, cfg, reserveToken, reserveLamport) ==
  [c EXCEPT !.reserve_token = reserveToken, !.reserve_lamport = reserveLamport,
            !.is_completed = c.is_completed \/ reserveLamport >= cfg.curve_limit]

(* A swap or a withdrawal creates the token accounts it lacks.              *)
Opened(m, holders) == [open EXCEPT ![m] = @ \cup holders]

SwapEvent(m, direction, amount, out) ==
  [event |-> "swap", mint |-> m, direction |-> direction, amount_in |-> amount, amount_out |-> out]

(* Guards of swap that do not depend on the price.                          *)
Tradable(m, amount) == /\ config # NoConfig
                       /\ m \in launched
                       /\ ~curve[m].is_completed
                       /\ amount > 0

(* A trade the curve agrees to: the priced part and what it is worth.       *)
Fills(c, amount, direction, minimum) ==
  { q \in CalAmountOut(c, amount, direction, config) : q.adjusted <= amount /\ q.out >= minimum }

(* What a sell adds to reserve_token: the fee included.                      *)
SoldToCurve(amount, adjusted) == amount

(* What a swap sends to the team: what was not priced.                       *)
FeeOf(amount, adjusted) == amount - adjusted

(* Mutant: the quote leaves the fee out.                                     *)
QuoteWithoutFee(m, amount, direction) ==
  IF amount = 0 THEN {}
  ELSE { q.out : q \in CalAmountOut(curve[m], amount, direction,
           [config EXCEPT !.platform_buy_fee = 0, !.platform_sell_fee = 0]) }

(* simulate_swap: what a trade would bring, clamp and phase left aside.     *)
SimulateSwap(m, amount, direction) ==
  IF amount = 0 THEN {}
  ELSE { q.out : q \in CalAmountOut(curve[m], amount, direction, config) }

SellTokens(user, team, m, amount, minimum) ==
  LET c == curve[m]
  IN  /\ Tradable(m, amount)
      /\ TeamAccepted(team)
      /\ tokens[m][user] >= amount
      /\ \E q \in Fills(c, amount, Sell, minimum) :
           \E reserveToken \in CheckedAdd(c.reserve_token, SoldToCurve(amount, q.adjusted)),
              reserveLamport \in CheckedSub(c.reserve_lamport, q.out) :
             LET fee == FeeOf(amount, q.adjusted)
             IN  /\ vault >= q.out /\ RentPaid(vault - q.out)
                 /\ RentPaid(sol[user] + q.out)
                 /\ curve' = [curve EXCEPT ![m] =
                                UpdateReserves(c, config, reserveToken, reserveLamport)]
                 /\ vaultToken' = [vaultToken EXCEPT ![m] = @ + q.adjusted]
                 /\ tokens' = [tokens EXCEPT ![m] = Credit(Debit(@, user, amount), team, fee)]
                 /\ vault' = vault - q.out
                 /\ sol' = Credit(sol, user, q.out)
                 /\ net' = [net EXCEPT ![m] = @ - q.out]
                 /\ drained' = [drained EXCEPT ![m] = @ + fee]
                 /\ emitted' = {SwapEvent(m, Sell, amount, q.out)}
      /\ open' = Opened(m, {user, team})
      /\ UNCHANGED <<config, cfgLen, cfgLamports, funded, launched, supply, wsol, whitelist,
                     migrated, given, settled>>

(* Completion is announced by the buy whose update_reserves reports it.       *)
BuyTokens(user, team, m, asked, minimum) ==
  LET c == curve[m]
      amount == ClampedAmount(c, asked, Buy, config)
  IN  /\ Tradable(m, asked)
      /\ TeamAccepted(team)
      /\ c.reserve_lamport <= config.curve_limit
      /\ \E q \in Fills(c, amount, Buy, minimum) :
           \E reserveToken \in CheckedSub(c.reserve_token, q.out),
              reserveLamport \in CheckedAdd(c.reserve_lamport, amount) :
             LET fee == FeeOf(amount, q.adjusted)
                 after == UpdateReserves(c, config, reserveToken, reserveLamport)
                 paid == Credit(Debit(sol, user, amount + fee), team, fee)
             IN  /\ vaultToken[m] >= q.out
                 /\ sol[user] >= amount + fee
                 /\ RentPaid(vault + amount) /\ RentPaid(paid[user]) /\ RentPaid(paid[team])
                 /\ curve' = [curve EXCEPT ![m] = after]
                 /\ vaultToken' = [vaultToken EXCEPT ![m] = @ - q.out]
                 /\ tokens' = [tokens EXCEPT ![m] = Credit(@, user, q.out)]
                 /\ vault' = vault + amount
                 /\ sol' = paid
                 /\ net' = [net EXCEPT ![m] = @ + amount]
                 /\ emitted' = {SwapEvent(m, Buy, asked, q.out)} \cup
                      (IF after.is_completed THEN {[event |-> "complete", mint |-> m]} ELSE {})
      /\ open' = Opened(m, {user, team})
      /\ UNCHANGED <<config, cfgLen, cfgLamports, funded, launched, supply, wsol, whitelist,
                     migrated, drained, given, settled>>

-------------------------------------------------------------------------------
(* Mutant: the virtual lamports are paid out too.                           *)
RaisedWithVirtual(c) == c.reserve_lamport

(* Lamports traded into a curve beyond the virtual ones.                    *)
Raised(c) == c.reserve_lamport - c.init_lamport

(* Mutant: the reserves are left as they are.                               *)
EmptiedNever(c, cfg) == c

Emptied(c, cfg) == UpdateReserves(c, cfg, 0, 0)

Withdraw(admin, m) ==
  LET c == curve[m]
      lamports == Raised(c)
  IN  /\ config # NoConfig
      /\ config.authority = admin
      /\ m \in launched
      /\ c.is_completed
      /\ lamports >= 0
      /\ vault >= lamports /\ RentPaid(vault - lamports)
      /\ RentPaid(sol[admin] + lamports)
      /\ vaultToken[m] >= c.reserve_token
      /\ curve' = [curve EXCEPT ![m] = Emptied(c, config)]
      /\ vaultToken' = [vaultToken EXCEPT ![m] = @ - c.reserve_token]
      /\ tokens' = [tokens EXCEPT ![m] = Credit(@, admin, c.reserve_token)]
      /\ open' = Opened(m, {admin})
      /\ vault' = vault - lamports
      /\ sol' = Credit(sol, admin, lamports)
      /\ net' = [net EXCEPT ![m] = @ - lamports]
      /\ settled' = settled \cup {m}
      /\ emitted' = {[event |-> "withdraw", mint |-> m, sol_amount |-> lamports,
                      token_amount |-> curve'[m].reserve_token]}
      /\ UNCHANGED <<config, cfgLen, cfgLamports, funded, launched, supply, wsol, whitelist,
                     migrated, drained, given>>

(* Lamports for the pool, after the fee and the migration reserve.          *)
PoolLamports(onCurve, fee) == onCurve - fee - MigrationReserve

(* Pays the market fee, the platform's share and the pool's lamports out of *)
(* the vault.  The curve account is only read.                              *)
TransferFee(payer, team, m) ==
  LET c == curve[m]
      onCurve == Raised(c)
  IN  /\ config # NoConfig
      /\ TeamAccepted(team)
      /\ m \in launched
      /\ c.is_completed
      /\ onCurve >= 0
      /\ \E fee \in FloatTrunc(onCurve * config.platform_migration_fee, 100) :
           LET pool == PoolLamports(onCurve, fee)
               coin == (pool * c.reserve_token) \div c.reserve_lamport
               feeTokens == c.reserve_token - coin
               total == MarketCreateFee + fee + pool
               paid == Credit(Credit(sol, payer, MarketCreateFee), team, fee)
           IN  /\ pool >= 0
               /\ feeTokens >= 0
               /\ vault >= total /\ RentPaid(vault - total)
               /\ RentPaid(paid[payer]) /\ RentPaid(paid[team])
               /\ team \in open[m]
               /\ vaultToken[m] >= feeTokens
               /\ vault' = vault - total
               /\ sol' = paid
               /\ wsol' = wsol + pool
               /\ vaultToken' = [vaultToken EXCEPT ![m] = @ - feeTokens]
               /\ tokens' = [tokens EXCEPT ![m] = Credit(@, team, feeTokens)]
               /\ net' = [net EXCEPT ![m] = @ - total]
               /\ migrated' = [migrated EXCEPT ![m] = @ + total]
               /\ drained' = [drained EXCEPT ![m] = @ + feeTokens]
      /\ emitted' = {}
      /\ UNCHANGED <<config, cfgLen, cfgLamports, funded, launched, curve, supply, open,
                     whitelist, given, settled>>
-------------------------------------------------------------------------------
(* add_wl: any signer; the account of the creator must not exist yet.       *)
AddWl(creator) ==
  /\ config # NoConfig
  /\ creator \notin whitelist
  /\ whitelist' = whitelist \cup {creator}
  /\ emitted' = {}
  /\ UNCHANGED <<configVars, launched, curve, supply, vaultToken, tokens, open, wsol, books>>

RemoveWl(admin, creator) ==
  /\ config # NoConfig
  /\ config.global_authority = admin
  /\ creator \in whitelist
  /\ whitelist' = whitelist \ {creator}
  /\ emitted' = {}
  /\ UNCHANGED <<configVars, launched, curve, supply, vaultToken, tokens, open, wsol, books>>

(* External: tokens or lamports sent to the vault outside the program.      *)
GiftTokens(w, m, amount) ==
  /\ m \in launched
  /\ tokens[m][w] >= amount
  /\ tokens' = [tokens EXCEPT ![m] = Debit(@, w, amount)]
  /\ vaultToken' = [vaultToken EXCEPT ![m] = @ + amount]
  /\ given' = [given EXCEPT ![m] = @ + amount]
  /\ emitted' = {}
  /\ UNCHANGED <<configVars, launched, curve, supply, open, wsol, whitelist,
                 net, migrated, drained, settled>>

GiftLamports(w, amount) ==
  /\ sol[w] >= amount
  /\ RentPaid(sol[w] - amount) /\ RentPaid(vault + amount)
  /\ sol' = Debit(sol, w, amount)
  /\ vault' = vault + amount
  /\ funded' = funded + amount
  /\ emitted' = {}
  /\ UNCHANGED <<config, cfgLen, cfgLamports, launched, curve, supply, vaultToken, tokens, open,
                 wsol, whitelist, books>>

Next ==
  \/ Administer
  \/ \E w \in Wallets, m \in Mints :
       \/ \E team \in Wallets :
            \/ \E l \in Launches : Launch(w, team, m, l)
            \/ \E a \in Amounts, min \in Minimums : BuyTokens(w, team, m, a, min)
            \/ \E a \in Amounts, min \in Minimums : SellTokens(w, team, m, a, min)
            \/ TransferFee(w, team, m)
       \/ Withdraw(w, m)
       \/ \E g \in Gifts : GiftTokens(w, m, g)
  \/ \E w \in Wallets, g \in Gifts : GiftLamports(w, g)
  \/ \E k \in Creators : AddWl(k)
  \/ \E w \in Wallets, k \in Creators : RemoveWl(w, k)

Spec == Init /\ [][Next]_vars

(* The backend withdraws a completed curve as long as it can.               *)
WithdrawFairness == \A m \in Mints : WF_vars(\E w \in Wallets : Withdraw(w, m))

FairSpec == Spec /\ WithdrawFairness
===============================================================================
