----------------------------- MODULE PumpfunProofs -----------------------------
(***************************************************************************)
(* Theorems about the program for all wallets, mints, configurations,      *)
(* amounts and precisions of the f64 arithmetic.                           *)
(***************************************************************************)
EXTENDS PumpfunProperties, GlobalConfigProofs, ArithmeticProofs

-------------------------------------------------------------------------------
(* What a trade the curve agrees to is made of.                             *)
LEMMA FillType ==
  ASSUME NEW c, NEW amount, NEW direction, NEW minimum,
         NEW q \in Fills(c, amount, direction, minimum)
  PROVE  /\ q \in CalAmountOut(c, amount, direction, config)
         /\ q.adjusted \in U64 /\ q.out \in U64
         /\ q.adjusted <= amount /\ q.out >= minimum
<1>1. q \in CalAmountOut(c, amount, direction, config) /\ q.adjusted <= amount /\ q.out >= minimum
  BY DEF Fills
<1> QED
  BY <1>1, Priced

(* A clamped buy is what was asked or what is left up to the limit.         *)
LEMMA ClampedBuy ==
  ASSUME NEW c, NEW cfg, NEW asked \in Nat,
         c.reserve_lamport \in Nat, cfg.curve_limit \in Nat, c.reserve_lamport <= cfg.curve_limit
  PROVE  /\ ClampedAmount(c, asked, Buy, cfg) \in Nat
         /\ c.reserve_lamport + ClampedAmount(c, asked, Buy, cfg) <= cfg.curve_limit
BY DEF ClampedAmount

(* update_reserves changes the two reserves and may complete the curve.     *)
LEMMA UpdateReservesFields ==
  ASSUME NEW c \in CurveType, NEW cfg, NEW rt \in U64, NEW rl \in U64
  PROVE  /\ UpdateReserves(c, cfg, rt, rl) \in CurveType
         /\ UpdateReserves(c, cfg, rt, rl).creator = c.creator
         /\ UpdateReserves(c, cfg, rt, rl).init_lamport = c.init_lamport
         /\ UpdateReserves(c, cfg, rt, rl).reserve_token = rt
         /\ UpdateReserves(c, cfg, rt, rl).reserve_lamport = rl
         /\ UpdateReserves(c, cfg, rt, rl).is_completed
              <=> (c.is_completed \/ rl >= cfg.curve_limit)
BY DEF UpdateReserves, CurveType

(* The fields of a curve have their types.                                  *)
LEMMA CurveFields ==
  ASSUME NEW c \in CurveType
  PROVE  /\ c.init_lamport \in U64 /\ c.reserve_lamport \in U64 /\ c.reserve_token \in U64
         /\ c.init_lamport \in Nat /\ c.reserve_lamport \in Nat /\ c.reserve_token \in Nat
         /\ c.is_completed \in BOOLEAN
BY U64Nat DEF CurveType

(* While the config exists, its fields have their types.                    *)
LEMMA ConfigFields ==
  ASSUME ConfigTypeOK, config # NoConfig
  PROVE  config.curve_limit \in Nat /\ config.team_wallet \in Wallets
BY DEF ConfigTypeOK, ConfigType

-------------------------------------------------------------------------------
(* Credits and debits that are covered leave natural balances.              *)
LEMMA CreditType ==
  ASSUME NEW b \in [Wallets -> Nat], NEW w \in Wallets, NEW n \in Nat
  PROVE  Credit(b, w, n) \in [Wallets -> Nat]
BY DEF Credit

LEMMA DebitType ==
  ASSUME NEW b \in [Wallets -> Nat], NEW w \in Wallets, NEW n \in Nat, n <= b[w]
  PROVE  Debit(b, w, n) \in [Wallets -> Nat]
BY DEF Debit

-------------------------------------------------------------------------------
(* The actions with their inner choices resolved: the step of a sell that   *)
(* priced `adjusted' of a tokens at `out' lamports, and so on.  The lemmas  *)
(* below show that every step of the action is one of these.                *)
Sold(w, m, a, adjusted, out) ==
  /\ [adjusted |-> adjusted, out |-> out] \in CalAmountOut(curve[m], a, Sell, config)
  /\ a \in Nat \ {0} /\ adjusted <= a /\ a <= tokens[m][w]
  /\ out <= vault
  /\ m \in launched /\ ~curve[m].is_completed
  /\ curve[m].reserve_token + a \in U64
  /\ curve[m].reserve_lamport - out \in U64
  /\ curve' = [curve EXCEPT ![m] =
        UpdateReserves(curve[m], config, curve[m].reserve_token + a,
                       curve[m].reserve_lamport - out)]
  /\ vaultToken' = [vaultToken EXCEPT ![m] = @ + adjusted]
  /\ tokens' = [tokens EXCEPT ![m] =
                   Credit(Debit(@, w, a), config.team_wallet, a - adjusted)]
  /\ vault' = vault - out
  /\ sol' = Credit(sol, w, out)
  /\ net' = [net EXCEPT ![m] = @ - out]
  /\ drained' = [drained EXCEPT ![m] = @ + (a - adjusted)]
  /\ emitted' = {SwapEvent(m, Sell, a, out)}
  /\ open' = Opened(m, {w, config.team_wallet})
  /\ config # NoConfig
  /\ UNCHANGED <<config, cfgLen, cfgLamports, funded, launched, supply, wsol, whitelist,
                 migrated, given, settled>>

Bought(w, m, a, amount, adjusted, out) ==
  /\ [adjusted |-> adjusted, out |-> out] \in CalAmountOut(curve[m], amount, Buy, config)
  /\ amount = ClampedAmount(curve[m], a, Buy, config)
  /\ a \in Nat \ {0} /\ adjusted <= amount /\ sol[w] >= amount + (amount - adjusted)
  /\ out <= vaultToken[m]
  /\ m \in launched /\ ~curve[m].is_completed
  /\ curve[m].reserve_lamport + amount <= config.curve_limit
  /\ curve[m].reserve_token - out \in U64
  /\ curve[m].reserve_lamport + amount \in U64
  /\ curve' = [curve EXCEPT ![m] =
        UpdateReserves(curve[m], config, curve[m].reserve_token - out,
                       curve[m].reserve_lamport + amount)]
  /\ vaultToken' = [vaultToken EXCEPT ![m] = @ - out]
  /\ tokens' = [tokens EXCEPT ![m] = Credit(@, w, out)]
  /\ vault' = vault + amount
  /\ sol' = Credit(Debit(sol, w, amount + (amount - adjusted)),
                   config.team_wallet, amount - adjusted)
  /\ net' = [net EXCEPT ![m] = @ + amount]
  /\ emitted' = {SwapEvent(m, Buy, a, out)} \cup
       (IF curve[m].reserve_lamport + amount >= config.curve_limit
        THEN {[event |-> "complete", mint |-> m]} ELSE {})
  /\ open' = Opened(m, {w, config.team_wallet})
  /\ config # NoConfig
  /\ UNCHANGED <<config, cfgLen, cfgLamports, funded, launched, supply, wsol, whitelist,
                 migrated, drained, given, settled>>

Withdrawn(w, m) ==
  /\ m \in launched /\ curve[m].is_completed
  /\ curve[m] \in CurveType /\ Raised(curve[m]) \in Nat /\ Raised(curve[m]) <= vault
  /\ curve[m].reserve_token <= vaultToken[m]
  /\ Emptied(curve[m], config) \in CurveType
  /\ Emptied(curve[m], config).init_lamport = curve[m].init_lamport
  /\ Emptied(curve[m], config).reserve_token = 0
  /\ Emptied(curve[m], config).reserve_lamport = 0
  /\ Emptied(curve[m], config).is_completed
  /\ curve' = [curve EXCEPT ![m] = Emptied(curve[m], config)]
  /\ vaultToken' = [vaultToken EXCEPT ![m] = @ - curve[m].reserve_token]
  /\ tokens' = [tokens EXCEPT ![m] = Credit(@, w, curve[m].reserve_token)]
  /\ open' = Opened(m, {w})
  /\ vault' = vault - Raised(curve[m])
  /\ sol' = Credit(sol, w, Raised(curve[m]))
  /\ net' = [net EXCEPT ![m] = @ - Raised(curve[m])]
  /\ settled' = settled \cup {m}
  /\ emitted' = {[event |-> "withdraw", mint |-> m, sol_amount |-> Raised(curve[m]),
                  token_amount |-> curve'[m].reserve_token]}
  /\ UNCHANGED <<config, cfgLen, cfgLamports, funded, launched, supply, wsol, whitelist,
                 migrated, drained, given>>

Migrated(w, m, fee, pool, feeTokens) ==
  /\ m \in launched /\ curve[m].is_completed
  /\ fee + pool + MigrationReserve = Raised(curve[m])
  /\ MarketCreateFee + fee + pool <= vault
  /\ feeTokens <= vaultToken[m]
  /\ vault' = vault - (MarketCreateFee + fee + pool)
  /\ sol' = Credit(Credit(sol, w, MarketCreateFee), config.team_wallet, fee)
  /\ wsol' = wsol + pool
  /\ vaultToken' = [vaultToken EXCEPT ![m] = @ - feeTokens]
  /\ tokens' = [tokens EXCEPT ![m] = Credit(@, config.team_wallet, feeTokens)]
  /\ net' = [net EXCEPT ![m] = @ - (MarketCreateFee + fee + pool)]
  /\ migrated' = [migrated EXCEPT ![m] = @ + (MarketCreateFee + fee + pool)]
  /\ drained' = [drained EXCEPT ![m] = @ + feeTokens]
  /\ emitted' = {} /\ config # NoConfig
  /\ UNCHANGED <<config, cfgLen, cfgLamports, funded, launched, curve, supply, open,
                 whitelist, given, settled>>

Launched(w, m, l, init) ==
  /\ config # NoConfig /\ m \notin launched
  /\ l.token_supply - init \in Nat /\ l.token_supply \in Nat /\ l.reserve_lamport \in U64
  /\ NewCurve(init, l.reserve_lamport, w) \in CurveType
  /\ launched' = launched \cup {m}
  /\ curve' = [curve EXCEPT ![m] = NewCurve(init, l.reserve_lamport, w)]
  /\ supply' = [supply EXCEPT ![m] = l.token_supply]
  /\ vaultToken' = [vaultToken EXCEPT ![m] = init]
  /\ tokens' = [tokens EXCEPT ![m][config.team_wallet] = l.token_supply - init]
  /\ open' = [open EXCEPT ![m] = {config.team_wallet}]
  /\ emitted' = {[event |-> "launch", mint |-> m]}
  /\ UNCHANGED <<configVars, wsol, whitelist, books>>

(* Every sell is such a step.                                               *)
LEMMA SellEffect ==
  ASSUME TypeOK, NEW w \in Wallets, NEW team \in Wallets, NEW m \in Mints, NEW a \in Nat,
         NEW min \in Nat, SellTokens(w, team, m, a, min)
  PROVE  \E adjusted \in U64, out \in U64 : Sold(w, m, a, adjusted, out)
<1>1. a \in Nat /\ curve[m] \in CurveType
  BY DEF TypeOK
<1>2. tokens[m][w] \in Nat /\ vault \in Nat
  BY DEF TypeOK, ConfigTypeOK
<1>3. PICK q \in Fills(curve[m], a, Sell, min) :
        \E rt \in CheckedAdd(curve[m].reserve_token, SoldToCurve(a, q.adjusted)),
           rl \in CheckedSub(curve[m].reserve_lamport, q.out) :
        /\ vault >= q.out
        /\ curve' = [curve EXCEPT ![m] = UpdateReserves(curve[m], config, rt, rl)]
        /\ vaultToken' = [vaultToken EXCEPT ![m] = @ + q.adjusted]
        /\ tokens' = [tokens EXCEPT ![m] =
                         Credit(Debit(@, w, a), config.team_wallet, FeeOf(a, q.adjusted))]
        /\ vault' = vault - q.out
        /\ sol' = Credit(sol, w, q.out)
        /\ net' = [net EXCEPT ![m] = @ - q.out]
        /\ drained' = [drained EXCEPT ![m] = @ + FeeOf(a, q.adjusted)]
        /\ emitted' = {SwapEvent(m, Sell, a, q.out)}
  BY DEF SellTokens, TeamAccepted
<1>4. /\ q.adjusted \in U64 /\ q.out \in U64 /\ q.adjusted <= a /\ q.out \in Nat
      /\ [adjusted |-> q.adjusted, out |-> q.out] \in CalAmountOut(curve[m], a, Sell, config)
  BY FillType, Priced, U64Nat
<1>5. PICK rt \in CheckedAdd(curve[m].reserve_token, SoldToCurve(a, q.adjusted)),
           rl \in CheckedSub(curve[m].reserve_lamport, q.out) :
        curve' = [curve EXCEPT ![m] = UpdateReserves(curve[m], config, rt, rl)]
  BY <1>3
<1>6. rt \in U64 /\ rt = curve[m].reserve_token + a
  BY <1>1, CurveFields, CheckedAddType DEF SoldToCurve
<1>7. rl \in U64 /\ rl = curve[m].reserve_lamport - q.out
  BY <1>1, <1>4, CurveFields, CheckedSubType
<1>8. /\ tokens[m][w] >= a /\ a > 0 /\ m \in launched /\ ~curve[m].is_completed /\ config # NoConfig
      /\ open' = Opened(m, {w, config.team_wallet})
      /\ UNCHANGED <<config, cfgLen, cfgLamports, funded, launched, supply, wsol, whitelist,
                     migrated, given, settled>>
  BY DEF SellTokens, Tradable, TeamAccepted
<1>9. a \in Nat \ {0}
  BY <1>1, <1>8
<1> USE <1>4
<1> WITNESS q.adjusted \in U64, q.out \in U64
<1> QED
  BY <1>1, <1>2, <1>3, <1>4, <1>5, <1>6, <1>7, <1>8, <1>9 DEF FeeOf, Sold

(* What a buy does: the reserve gains the clamped amount.                   *)
LEMMA BuyEffect ==
  ASSUME TypeOK, NEW w \in Wallets, NEW team \in Wallets, NEW m \in Mints, NEW a \in Nat,
         NEW min \in Nat, BuyTokens(w, team, m, a, min)
  PROVE  \E amount \in Nat, adjusted \in U64, out \in U64 : Bought(w, m, a, amount, adjusted, out)
<1>1. a \in Nat /\ curve[m] \in CurveType
  BY DEF TypeOK
<1>2. /\ m \in launched /\ ~curve[m].is_completed /\ config # NoConfig /\ a > 0
      /\ curve[m].reserve_lamport <= config.curve_limit
      /\ open' = Opened(m, {w, config.team_wallet})
      /\ UNCHANGED <<config, cfgLen, cfgLamports, funded, launched, supply, wsol, whitelist,
                     migrated, drained, given, settled>>
  BY DEF BuyTokens, Tradable, TeamAccepted
<1> DEFINE amount == ClampedAmount(curve[m], a, Buy, config)
<1>3. amount \in Nat /\ curve[m].reserve_lamport + amount <= config.curve_limit
  BY <1>1, <1>2, CurveFields, ConfigFields, ClampedBuy DEF TypeOK
<1>4. PICK q \in Fills(curve[m], amount, Buy, min) :
        \E rt \in CheckedSub(curve[m].reserve_token, q.out),
           rl \in CheckedAdd(curve[m].reserve_lamport, amount) :
        /\ vaultToken[m] >= q.out
        /\ sol[w] >= amount + FeeOf(amount, q.adjusted)
        /\ curve' = [curve EXCEPT ![m] = UpdateReserves(curve[m], config, rt, rl)]
        /\ vaultToken' = [vaultToken EXCEPT ![m] = @ - q.out]
        /\ tokens' = [tokens EXCEPT ![m] = Credit(@, w, q.out)]
        /\ vault' = vault + amount
        /\ sol' = Credit(Debit(sol, w, amount + FeeOf(amount, q.adjusted)),
                         config.team_wallet, FeeOf(amount, q.adjusted))
        /\ net' = [net EXCEPT ![m] = @ + amount]
        /\ emitted' = {SwapEvent(m, Buy, a, q.out)} \cup
             (IF UpdateReserves(curve[m], config, rt, rl).is_completed
              THEN {[event |-> "complete", mint |-> m]} ELSE {})
  BY DEF BuyTokens, TeamAccepted
<1> HIDE DEF amount
<1>5. /\ q.adjusted \in U64 /\ q.out \in U64 /\ q.adjusted <= amount /\ q.out \in Nat
      /\ [adjusted |-> q.adjusted, out |-> q.out] \in CalAmountOut(curve[m], amount, Buy, config)
  BY FillType, Priced, U64Nat
<1>6. PICK rt \in CheckedSub(curve[m].reserve_token, q.out),
           rl \in CheckedAdd(curve[m].reserve_lamport, amount) :
        /\ curve' = [curve EXCEPT ![m] = UpdateReserves(curve[m], config, rt, rl)]
        /\ emitted' = {SwapEvent(m, Buy, a, q.out)} \cup
             (IF UpdateReserves(curve[m], config, rt, rl).is_completed
              THEN {[event |-> "complete", mint |-> m]} ELSE {})
  BY <1>4
<1>7. rt \in U64 /\ rt = curve[m].reserve_token - q.out
  BY <1>1, <1>5, CurveFields, CheckedSubType
<1>8. rl \in U64 /\ rl = curve[m].reserve_lamport + amount
  BY <1>1, <1>3, CurveFields, CheckedAddType
<1>9. vaultToken[m] \in Nat /\ a \in Nat \ {0}
  BY <1>1, <1>2 DEF TypeOK
<1>10. emitted' = {SwapEvent(m, Buy, a, q.out)} \cup
         (IF rl >= config.curve_limit THEN {[event |-> "complete", mint |-> m]} ELSE {})
  <2>1. UpdateReserves(curve[m], config, rt, rl).is_completed <=> rl >= config.curve_limit
    BY <1>1, <1>2, <1>7, <1>8, UpdateReservesFields
  <2> QED
    BY <1>6, <2>1
<1> USE <1>3, <1>5
<1> WITNESS amount \in Nat, q.adjusted \in U64, q.out \in U64
<1> QED
  BY <1>1, <1>2, <1>3, <1>4, <1>5, <1>6, <1>7, <1>8, <1>9, <1>10 DEF amount, FeeOf, Bought

(* What a withdrawal does.                                                  *)
LEMMA WithdrawEffect ==
  ASSUME TypeOK, NEW w \in Wallets, NEW m \in Mints, Withdraw(w, m)
  PROVE  Withdrawn(w, m)
<1>1. curve[m] \in CurveType /\ vault \in Nat /\ vaultToken[m] \in Nat
  BY DEF TypeOK, ConfigTypeOK
<1>2. 0 \in U64
  BY MaxU64Assumption DEF U64
<1>3. Raised(curve[m]) \in Int
  BY <1>1, CurveFields DEF Raised
<1>4. /\ m \in launched /\ curve[m].is_completed
      /\ Raised(curve[m]) >= 0 /\ vault >= Raised(curve[m])
      /\ vaultToken[m] >= curve[m].reserve_token
  BY DEF Withdraw
<1>5. /\ Emptied(curve[m], config) \in CurveType
      /\ Emptied(curve[m], config).init_lamport = curve[m].init_lamport
      /\ Emptied(curve[m], config).reserve_token = 0
      /\ Emptied(curve[m], config).reserve_lamport = 0
      /\ Emptied(curve[m], config).is_completed <=> (curve[m].is_completed \/ 0 >= config.curve_limit)
  <2> DEFINE c == curve[m]
  <2>1. c \in CurveType /\ Emptied(c, config) = UpdateReserves(c, config, 0, 0)
    BY <1>1 DEF Emptied
  <2> HIDE DEF c
  <2>2. /\ UpdateReserves(c, config, 0, 0) \in CurveType
        /\ UpdateReserves(c, config, 0, 0).init_lamport = c.init_lamport
        /\ UpdateReserves(c, config, 0, 0).reserve_token = 0
        /\ UpdateReserves(c, config, 0, 0).reserve_lamport = 0
        /\ UpdateReserves(c, config, 0, 0).is_completed
             <=> (c.is_completed \/ 0 >= config.curve_limit)
    BY <1>2, <2>1 DEF UpdateReserves, CurveType
  <2> QED
    BY <2>1, <2>2 DEF c
<1>6. Emptied(curve[m], config).is_completed
  BY <1>4, <1>5, Zenon
<1>7. /\ curve' = [curve EXCEPT ![m] = Emptied(curve[m], config)]
      /\ vaultToken' = [vaultToken EXCEPT ![m] = @ - curve[m].reserve_token]
      /\ tokens' = [tokens EXCEPT ![m] = Credit(@, w, curve[m].reserve_token)]
      /\ open' = Opened(m, {w})
      /\ vault' = vault - Raised(curve[m])
      /\ sol' = Credit(sol, w, Raised(curve[m]))
      /\ net' = [net EXCEPT ![m] = @ - Raised(curve[m])]
      /\ settled' = settled \cup {m}
      /\ emitted' = {[event |-> "withdraw", mint |-> m, sol_amount |-> Raised(curve[m]),
                      token_amount |-> curve'[m].reserve_token]}
      /\ UNCHANGED <<config, cfgLen, cfgLamports, funded, launched, supply, wsol, whitelist,
                     migrated, drained, given>>
  BY DEF Withdraw
<1> QED
  BY <1>1, <1>3, <1>4, <1>5, <1>6, <1>7, CurveFields DEF Withdrawn

(* What transfer_fee does: it takes lamports of a completed curve, and      *)
(* tokens of it, out of the vault, and leaves the curve account alone.      *)
LEMMA TransferFeeEffect ==
  ASSUME TypeOK, NEW w \in Wallets, NEW team \in Wallets, NEW m \in Mints,
         TransferFee(w, team, m)
  PROVE  \E fee \in Nat, pool \in Nat, feeTokens \in Nat : Migrated(w, m, fee, pool, feeTokens)
<1>1. /\ curve[m] \in CurveType /\ Raised(curve[m]) \in Int /\ MarketCreateFee \in Nat
      /\ vault \in Nat /\ vaultToken[m] \in Nat /\ MigrationReserve \in Nat
      /\ curve[m].reserve_token \in Nat /\ curve[m].reserve_lamport \in Nat
  BY CurveFields, FeeAssumption DEF TypeOK, ConfigTypeOK, Raised
<1>2. PICK fee \in FloatTrunc(Raised(curve[m]) * config.platform_migration_fee, 100) :
        LET pool == PoolLamports(Raised(curve[m]), fee)
            coin == (pool * curve[m].reserve_token) \div curve[m].reserve_lamport
            feeTokens == curve[m].reserve_token - coin
            total == MarketCreateFee + fee + pool
        IN  /\ pool >= 0
            /\ feeTokens >= 0
            /\ vault >= total
            /\ vaultToken[m] >= feeTokens
            /\ vault' = vault - total
            /\ sol' = Credit(Credit(sol, w, MarketCreateFee), config.team_wallet, fee)
            /\ wsol' = wsol + pool
            /\ vaultToken' = [vaultToken EXCEPT ![m] = @ - feeTokens]
            /\ tokens' = [tokens EXCEPT ![m] = Credit(@, config.team_wallet, feeTokens)]
            /\ net' = [net EXCEPT ![m] = @ - total]
            /\ migrated' = [migrated EXCEPT ![m] = @ + total]
            /\ drained' = [drained EXCEPT ![m] = @ + feeTokens]
  BY DEF TransferFee, TeamAccepted
<1> DEFINE pool == PoolLamports(Raised(curve[m]), fee)
           coin == (pool * curve[m].reserve_token) \div curve[m].reserve_lamport
           feeTokens == curve[m].reserve_token - coin
<1>3. fee \in Nat
  BY FloatTruncType, U64Nat
<1>4. pool \in Nat /\ fee + pool + MigrationReserve = Raised(curve[m])
  BY <1>1, <1>2, <1>3 DEF PoolLamports
<1>5. PICK reserve \in Nat \ {0} : reserve = curve[m].reserve_lamport
  <2>1. curve[m].reserve_lamport >= MigrationReserve
    BY <1>1, <1>3, <1>4, CurveFields DEF Raised
  <2> QED
    BY <1>1, <2>1, FeeAssumption
<1>6. coin \in Int
  <2>1. pool * curve[m].reserve_token \in Int
    BY <1>1, <1>4
  <2> HIDE DEF pool
  <2> QED
    BY <2>1, <1>5
<1>7. feeTokens \in Nat
  <2>1. feeTokens >= 0
    BY <1>2
  <2> HIDE DEF coin
  <2> QED
    BY <1>1, <1>6, <2>1
<1>8. /\ m \in launched /\ curve[m].is_completed /\ emitted' = {} /\ config # NoConfig
      /\ UNCHANGED <<config, cfgLen, cfgLamports, funded, launched, curve, supply, open,
                     whitelist, given, settled>>
  BY DEF TransferFee
<1>9. /\ MarketCreateFee + fee + pool <= vault
      /\ feeTokens <= vaultToken[m]
      /\ vault' = vault - (MarketCreateFee + fee + pool)
      /\ sol' = Credit(Credit(sol, w, MarketCreateFee), config.team_wallet, fee)
      /\ wsol' = wsol + pool
      /\ vaultToken' = [vaultToken EXCEPT ![m] = @ - feeTokens]
      /\ tokens' = [tokens EXCEPT ![m] = Credit(@, config.team_wallet, feeTokens)]
      /\ net' = [net EXCEPT ![m] = @ - (MarketCreateFee + fee + pool)]
      /\ migrated' = [migrated EXCEPT ![m] = @ + (MarketCreateFee + fee + pool)]
      /\ drained' = [drained EXCEPT ![m] = @ + feeTokens]
  <2> HIDE DEF coin
  <2> QED
    BY <1>1, <1>2, <1>3, <1>4, <1>7 DEF coin
<1> HIDE DEF pool, coin, feeTokens
<1> USE <1>3, <1>4, <1>7
<1> WITNESS fee \in Nat, pool \in Nat, feeTokens \in Nat
<1> QED
  BY <1>4, <1>8, <1>9 DEF Migrated

-------------------------------------------------------------------------------
(* Type correctness, one action at a time.                                  *)
LEMMA TypeInit == Init => TypeOK
<1> SUFFICES ASSUME Init PROVE TypeOK
  OBVIOUS
<1>1. ConfigTypeOK
  BY ConfigTypeInit DEF Init
<1>2. NoCurve \in CurveType
  BY MaxU64Assumption DEF NoCurve, CurveType, Keys, U64
<1> QED
  BY <1>1, <1>2 DEF Init, TypeOK

LEMMA TypeAdminister == TypeOK /\ Administer => TypeOK'
<1> SUFFICES ASSUME TypeOK, Administer PROVE TypeOK'
  OBVIOUS
<1>1. ConfigTypeOK'
  BY ConfigTypeStep DEF TypeOK, Administer
<1> QED
  BY <1>1 DEF TypeOK, Administer, books

(* A launch divides the supply between the curve and the team.              *)
LEMMA LaunchEffect ==
  ASSUME TypeOK, NEW w \in Wallets, NEW team \in Wallets, NEW m \in Mints, NEW l \in Launches,
         Launch(w, team, m, l)
  PROVE  \E init \in U64 : Launched(w, m, l, init)
<1>1. l.token_supply \in U64 /\ l.reserve_lamport \in U64 /\ l.token_supply \in Nat
  BY LaunchAssumption, U64Nat
<1>2. config \in ConfigType
  BY DEF TypeOK, ConfigTypeOK, Launch
<1>3. config.init_bonding_curve \in Nat
  BY <1>2 DEF ConfigType
<1> DEFINE init == OnCurve(l.token_supply, config.init_bonding_curve)
<1>4. init \in U64 /\ init \in Nat
  <2>1. l.token_supply * config.init_bonding_curve \in Int
    BY <1>1, <1>3
  <2>2. (l.token_supply * config.init_bonding_curve) \div 100 \in Int
    BY <2>1
  <2> QED
    BY <2>2, AsU64Type, U64Nat DEF OnCurve
<1>5. /\ config # NoConfig /\ m \notin launched /\ init <= l.token_supply
      /\ launched' = launched \cup {m}
      /\ curve' = [curve EXCEPT ![m] = NewCurve(init, l.reserve_lamport, w)]
      /\ supply' = [supply EXCEPT ![m] = l.token_supply]
      /\ vaultToken' = [vaultToken EXCEPT ![m] = init]
      /\ tokens' = [tokens EXCEPT ![m][config.team_wallet] = l.token_supply - init]
      /\ open' = [open EXCEPT ![m] = {config.team_wallet}]
      /\ emitted' = {[event |-> "launch", mint |-> m]}
      /\ UNCHANGED <<configVars, wsol, whitelist, books>>
  BY DEF Launch, TeamAccepted
<1> HIDE DEF init
<1>6. NewCurve(init, l.reserve_lamport, w) \in CurveType
  BY <1>1, <1>4 DEF NewCurve, CurveType, Keys
<1>7. l.token_supply - init \in Nat
  BY <1>1, <1>4, <1>5
<1> USE <1>4
<1> WITNESS init \in U64
<1> QED
  BY <1>1, <1>5, <1>6, <1>7 DEF Launched

LEMMA TypeLaunch ==
  ASSUME TypeOK, NEW w \in Wallets, NEW team \in Wallets, NEW m \in Mints, NEW l \in Launches,
         Launch(w, team, m, l)
  PROVE  TypeOK'
<1>1. PICK init \in U64 : Launched(w, m, l, init)
  BY LaunchEffect
<1> USE DEF Launched
<1>2. init \in Nat /\ config.team_wallet \in Wallets
  BY <1>1, U64Nat, ConfigFields DEF TypeOK
<1>3. ConfigTypeOK'
  BY <1>1 DEF TypeOK, ConfigTypeOK, configVars
<1>4. emitted' \subseteq EventType
  BY <1>1 DEF EventType
<1>5. curve' \in [Mints -> CurveType] /\ supply' \in [Mints -> Nat] /\ vaultToken' \in [Mints -> Nat]
  BY <1>1, <1>2 DEF TypeOK
<1>6. tokens' \in [Mints -> [Wallets -> Nat]] /\ open' \in [Mints -> SUBSET Wallets]
  BY <1>1, <1>2 DEF TypeOK
<1> QED
  BY <1>1, <1>3, <1>4, <1>5, <1>6 DEF TypeOK, books

LEMMA TypeSell ==
  ASSUME TypeOK, NEW w \in Wallets, NEW team \in Wallets, NEW m \in Mints, NEW a \in Nat,
         NEW min \in Nat, SellTokens(w, team, m, a, min)
  PROVE  TypeOK'
<1>1. PICK adjusted \in U64, out \in U64 : Sold(w, m, a, adjusted, out)
  BY SellEffect
<1> USE DEF Sold
<1>2. /\ adjusted \in Nat /\ out \in Nat /\ a \in Nat /\ a - adjusted \in Nat
      /\ config.team_wallet \in Wallets
  BY <1>1, U64Nat, ConfigFields DEF TypeOK
<1>3. ConfigTypeOK'
  <2>1. sol' \in [Wallets -> Nat]
    BY <1>1, <1>2, CreditType DEF TypeOK, ConfigTypeOK
  <2>2. vault' \in Nat
    BY <1>1, <1>2 DEF TypeOK, ConfigTypeOK
  <2> QED
    BY <1>1, <2>1, <2>2 DEF TypeOK, ConfigTypeOK
<1>4. emitted' \subseteq EventType
  BY <1>1, <1>2 DEF EventType, SwapEvent, Buy, Sell
<1>5. UpdateReserves(curve[m], config, curve[m].reserve_token + a, curve[m].reserve_lamport - out)
        \in CurveType
  BY <1>1, UpdateReservesFields DEF TypeOK
<1>6. curve' \in [Mints -> CurveType]
  BY <1>1, <1>5 DEF TypeOK
<1>7. tokens' \in [Mints -> [Wallets -> Nat]]
  <2>1. tokens[m] \in [Wallets -> Nat]
    BY DEF TypeOK
  <2>2. Debit(tokens[m], w, a) \in [Wallets -> Nat]
    BY <1>1, <2>1, DebitType
  <2>3. Credit(Debit(tokens[m], w, a), config.team_wallet, a - adjusted) \in [Wallets -> Nat]
    BY <1>2, <2>2, CreditType
  <2> QED
    BY <1>1, <2>3 DEF TypeOK
<1>8. /\ vaultToken' \in [Mints -> Nat] /\ net' \in [Mints -> Int]
      /\ drained' \in [Mints -> Nat] /\ open' \in [Mints -> SUBSET Wallets]
  BY <1>1, <1>2 DEF TypeOK, Opened
<1> QED
  BY <1>1, <1>3, <1>4, <1>6, <1>7, <1>8 DEF TypeOK

LEMMA TypeBuy ==
  ASSUME TypeOK, NEW w \in Wallets, NEW team \in Wallets, NEW m \in Mints, NEW a \in Nat,
         NEW min \in Nat, BuyTokens(w, team, m, a, min)
  PROVE  TypeOK'
<1>1. PICK amount \in Nat, adjusted \in U64, out \in U64 : Bought(w, m, a, amount, adjusted, out)
  BY BuyEffect
<1> USE DEF Bought
<1>2. /\ adjusted \in Nat /\ out \in Nat /\ amount - adjusted \in Nat
      /\ config.team_wallet \in Wallets
  BY <1>1, U64Nat, ConfigFields DEF TypeOK
<1>3. ConfigTypeOK'
  <2>1. sol \in [Wallets -> Nat] /\ amount + (amount - adjusted) \in Nat
    BY <1>2 DEF TypeOK, ConfigTypeOK
  <2>2. Debit(sol, w, amount + (amount - adjusted)) \in [Wallets -> Nat]
    BY <1>1, <2>1, DebitType
  <2>3. sol' \in [Wallets -> Nat]
    BY <1>1, <1>2, <2>2, CreditType
  <2> QED
    BY <1>1, <1>2, <2>3 DEF TypeOK, ConfigTypeOK
<1>4. emitted' \subseteq EventType
  BY <1>1, <1>2 DEF EventType, SwapEvent, Buy, Sell
<1>5. UpdateReserves(curve[m], config, curve[m].reserve_token - out, curve[m].reserve_lamport + amount)
        \in CurveType
  BY <1>1, UpdateReservesFields DEF TypeOK
<1>6. curve' \in [Mints -> CurveType]
  BY <1>1, <1>5 DEF TypeOK
<1>7. tokens' \in [Mints -> [Wallets -> Nat]]
  BY <1>1, <1>2, CreditType DEF TypeOK
<1>8. /\ vaultToken' \in [Mints -> Nat] /\ net' \in [Mints -> Int]
      /\ open' \in [Mints -> SUBSET Wallets]
  BY <1>1, <1>2 DEF TypeOK, Opened
<1> QED
  BY <1>1, <1>3, <1>4, <1>6, <1>7, <1>8 DEF TypeOK

LEMMA TypeWithdraw ==
  ASSUME TypeOK, NEW w \in Wallets, NEW m \in Mints, Withdraw(w, m)
  PROVE  TypeOK'
<1>1. Withdrawn(w, m)
  BY WithdrawEffect
<1> USE DEF Withdrawn
<1>2. curve[m].reserve_token \in Nat /\ Raised(curve[m]) \in Nat
  BY <1>1, CurveFields
<1>3. ConfigTypeOK'
  <2>1. sol' \in [Wallets -> Nat]
    BY <1>1, <1>2, CreditType DEF TypeOK, ConfigTypeOK
  <2>2. vault' \in Nat
    BY <1>1, <1>2 DEF TypeOK, ConfigTypeOK
  <2> QED
    BY <1>1, <2>1, <2>2 DEF TypeOK, ConfigTypeOK
<1>4. curve' \in [Mints -> CurveType]
  BY <1>1 DEF TypeOK
<1>5. curve'[m].reserve_token \in Nat
  BY <1>1, <1>4, CurveFields DEF TypeOK
<1>6. emitted' \subseteq EventType
  BY <1>1, <1>2, <1>5 DEF EventType
<1>7. tokens' \in [Mints -> [Wallets -> Nat]]
  BY <1>1, <1>2, CreditType DEF TypeOK
<1>8. /\ vaultToken' \in [Mints -> Nat] /\ net' \in [Mints -> Int]
      /\ open' \in [Mints -> SUBSET Wallets]
  BY <1>1, <1>2 DEF TypeOK, Opened
<1> QED
  BY <1>1, <1>3, <1>4, <1>6, <1>7, <1>8 DEF TypeOK

LEMMA TypeTransferFee ==
  ASSUME TypeOK, NEW w \in Wallets, NEW team \in Wallets, NEW m \in Mints,
         TransferFee(w, team, m)
  PROVE  TypeOK'
<1>1. PICK fee \in Nat, pool \in Nat, feeTokens \in Nat : Migrated(w, m, fee, pool, feeTokens)
  BY TransferFeeEffect
<1> USE DEF Migrated
<1>2. config.team_wallet \in Wallets /\ MarketCreateFee \in Nat
  BY <1>1, ConfigFields, FeeAssumption DEF TypeOK
<1>3. ConfigTypeOK'
  <2>1. Credit(sol, w, MarketCreateFee) \in [Wallets -> Nat]
    BY <1>2, CreditType DEF TypeOK, ConfigTypeOK
  <2>2. sol' \in [Wallets -> Nat]
    BY <1>1, <1>2, <2>1, CreditType
  <2>3. vault' \in Nat
    BY <1>1, <1>2 DEF TypeOK, ConfigTypeOK
  <2> QED
    BY <1>1, <2>2, <2>3 DEF TypeOK, ConfigTypeOK
<1>4. tokens' \in [Mints -> [Wallets -> Nat]]
  BY <1>1, <1>2, CreditType DEF TypeOK
<1>5. /\ vaultToken' \in [Mints -> Nat] /\ net' \in [Mints -> Int] /\ wsol' \in Nat
      /\ migrated' \in [Mints -> Nat] /\ drained' \in [Mints -> Nat]
  BY <1>1, <1>2 DEF TypeOK
<1> QED
  BY <1>1, <1>3, <1>4, <1>5 DEF TypeOK

LEMMA TypeGiftTokens ==
  ASSUME TypeOK, NEW w \in Wallets, NEW m \in Mints, NEW g \in Gifts, GiftTokens(w, m, g)
  PROVE  TypeOK'
<1>1. g \in Nat
  BY SolAssumption
<1>2. ConfigTypeOK'
  BY DEF GiftTokens, TypeOK, ConfigTypeOK, configVars
<1>3. tokens' \in [Mints -> [Wallets -> Nat]]
  BY <1>1, DebitType DEF GiftTokens, TypeOK
<1> QED
  BY <1>1, <1>2, <1>3 DEF GiftTokens, TypeOK

LEMMA TypeGiftLamports ==
  ASSUME TypeOK, NEW w \in Wallets, NEW g \in Gifts, GiftLamports(w, g)
  PROVE  TypeOK'
<1>1. g \in Nat
  BY SolAssumption
<1>2. ConfigTypeOK'
  BY <1>1, DebitType DEF GiftLamports, TypeOK, ConfigTypeOK
<1> QED
  BY <1>2 DEF GiftLamports, TypeOK, books

LEMMA TypeWhitelist ==
  ASSUME TypeOK, NEW k \in Keys, AddWl(k) \/ \E w \in Wallets : RemoveWl(w, k)
  PROVE  TypeOK'
<1>1. ConfigTypeOK'
  BY DEF AddWl, RemoveWl, TypeOK, ConfigTypeOK, configVars
<1> QED
  BY <1>1 DEF AddWl, RemoveWl, TypeOK, books

(* Next, with no bound on what is asked for, on the minimum and on whom the *)
(* whitelist may name.  Everything below holds of every step of this kind,  *)
(* and so also of the transactions other modules build.                     *)
AnyNext ==
  \/ Administer
  \/ \E w \in Wallets, m \in Mints :
       \/ \E team \in Wallets :
            \/ \E l \in Launches : Launch(w, team, m, l)
            \/ \E a \in Nat, min \in Nat : BuyTokens(w, team, m, a, min)
            \/ \E a \in Nat, min \in Nat : SellTokens(w, team, m, a, min)
            \/ TransferFee(w, team, m)
       \/ Withdraw(w, m)
       \/ \E g \in Gifts : GiftTokens(w, m, g)
  \/ \E w \in Wallets, g \in Gifts : GiftLamports(w, g)
  \/ \E k \in Keys : AddWl(k)
  \/ \E w \in Wallets, k \in Keys : RemoveWl(w, k)

AnySpec == Init /\ [][AnyNext]_vars

LEMMA NextIsAny == [Next]_vars => [AnyNext]_vars
BY AmountAssumption DEF Next, AnyNext

LEMMA SpecIsAny == Spec => AnySpec
BY NextIsAny, PTL DEF Spec, AnySpec

LEMMA TypeStep == TypeOK /\ [AnyNext]_vars => TypeOK'
<1> SUFFICES ASSUME TypeOK, [AnyNext]_vars PROVE TypeOK'
  OBVIOUS
<1>1. CASE UNCHANGED vars
  <2>1. ConfigTypeOK'
    BY <1>1 DEF vars, configVars, TypeOK, ConfigTypeOK
  <2> QED
    BY <1>1, <2>1 DEF vars, curveVars, books, TypeOK
<1> QED
  BY <1>1, TypeAdminister, TypeLaunch, TypeBuy, TypeSell, TypeWithdraw, TypeTransferFee,
     TypeGiftTokens, TypeGiftLamports, TypeWhitelist DEF AnyNext

(* Whatever is traded, launched, withdrawn or configured, every account     *)
(* holds a value of its type: no balance falls below zero and the u64       *)
(* fields of every curve stay in range.                                     *)
THEOREM TypeCorrect == Spec => []TypeOK
BY TypeInit, TypeStep, SpecIsAny, PTL DEF AnySpec

-------------------------------------------------------------------------------
(* Nothing but configure, the handover and a gift to it touches the config  *)
(* account.                                                                 *)
ConfigRests == UNCHANGED <<config, cfgLen, cfgLamports>>

LEMMA ConfigSteps == [AnyNext]_vars => ConfigNext \/ ConfigRests
<1> SUFFICES ASSUME [AnyNext]_vars PROVE ConfigNext \/ ConfigRests
  OBVIOUS
<1>1. CASE UNCHANGED vars
  BY <1>1 DEF vars, configVars, ConfigRests
<1>2. CASE Administer
  BY <1>2 DEF Administer
<1>3. ASSUME NEW w, NEW team, NEW m, NEW l, Launch(w, team, m, l) PROVE ConfigRests
  BY <1>3 DEF Launch, configVars, ConfigRests
<1>4. ASSUME NEW w, NEW team, NEW m, NEW a, NEW min, BuyTokens(w, team, m, a, min)
      PROVE  ConfigRests
  BY <1>4 DEF BuyTokens, ConfigRests
<1>5. ASSUME NEW w, NEW team, NEW m, NEW a, NEW min, SellTokens(w, team, m, a, min)
      PROVE  ConfigRests
  BY <1>5 DEF SellTokens, ConfigRests
<1>6. ASSUME NEW w, NEW team, NEW m, TransferFee(w, team, m) PROVE ConfigRests
  BY <1>6 DEF TransferFee, ConfigRests
<1>7. ASSUME NEW w, NEW m, Withdraw(w, m) PROVE ConfigRests
  BY <1>7 DEF Withdraw, ConfigRests
<1>8. ASSUME NEW w, NEW m, NEW g, GiftTokens(w, m, g) \/ GiftLamports(w, g) PROVE ConfigRests
  BY <1>8 DEF GiftTokens, GiftLamports, configVars, ConfigRests
<1>9. ASSUME NEW k, AddWl(k) \/ \E w \in Wallets : RemoveWl(w, k) PROVE ConfigRests
  BY <1>9 DEF AddWl, RemoveWl, configVars, ConfigRests
<1> QED
  BY <1>1, <1>2, <1>3, <1>4, <1>5, <1>6, <1>7, <1>8, <1>9 DEF AnyNext

(* Whatever the rest of the program does in between, the encoded config     *)
(* lies within its account's data and the account owns the rent of it.      *)
THEOREM ConfigFitsCorrect == Spec => []ConfigFits
<1>1. Init => ConfigFits
  BY DEF Init, ConfigInit, ConfigFits
<1>2. ConfigFits /\ ConfigRests => ConfigFits'
  BY DEF ConfigRests, ConfigFits, RentExempt
<1>3. TypeOK /\ ConfigFits /\ [AnyNext]_vars => ConfigFits'
  BY <1>2, ConfigSteps, FitsStep DEF TypeOK
<1> QED
  BY <1>1, <1>3, TypeCorrect, SpecIsAny, PTL DEF AnySpec

(* And without gifts configure stays possible throughout.                   *)
THEOREM ReconfigureCorrect ==
  ASSUME Gifts = {}
  PROVE  Spec => []ReconfigurePossible
<1>1. Init => RentInStep
  BY DEF Init, ConfigInit, RentInStep
<1>2. RentInStep /\ ConfigRests => RentInStep'
  BY DEF ConfigRests, RentInStep, RentExempt
<1>3. TypeOK /\ RentInStep /\ [AnyNext]_vars => RentInStep'
  BY <1>2, ConfigSteps, RentInStepStep DEF TypeOK
<1>4. TypeOK /\ RentInStep => ReconfigurePossible
  BY RentInStepPossible DEF TypeOK
<1> QED
  BY <1>1, <1>3, <1>4, TypeCorrect, SpecIsAny, PTL DEF AnySpec
===============================================================================
