--------------------------- MODULE TokenLaunchProofs ---------------------------
(***************************************************************************)
(* Theorems about the TokenLaunch account, for every start, config and     *)
(* amount.                                                                 *)
(***************************************************************************)
EXTENDS TokenLaunch, ArithmeticProofs, SequenceTheorems

(* The parts of the state have their types.                                 *)
LEMMA LaunchFields ==
  ASSUME LaunchTypeOK
  PROVE  /\ launch.init_lamport \in Nat
         /\ launch.reserve_lamport \in U64 /\ launch.reserve_lamport \in Nat
         /\ launch.reserve_token \in U64 /\ launch.reserve_token \in Nat
         /\ vault \in Nat /\ vaultToken \in Nat /\ sniped \in Nat /\ migrations \in Nat
         /\ user.sol \in Nat /\ user.tokens \in Nat
BY U64Nat DEF LaunchTypeOK, LaunchType

(* update_reserves writes both reserves, and may complete a launch.         *)
LEMMA UpdateReservesFields ==
  ASSUME NEW l \in LaunchType, NEW cfg, NEW rt \in U64, NEW rl \in U64
  PROVE  /\ UpdateReserves(l, cfg, rt, rl) \in LaunchType
         /\ UpdateReserves(l, cfg, rt, rl).init_lamport = l.init_lamport
         /\ UpdateReserves(l, cfg, rt, rl).reserve_token = rt
         /\ UpdateReserves(l, cfg, rt, rl).reserve_lamport = rl
BY DEF UpdateReserves, LaunchType, LaunchPhase

-------------------------------------------------------------------------------
(* A sell: the amount goes onto the curve, its price leaves it.             *)
Sells(cfg, amount, adjusted, out) ==
  /\ amount > 0
  /\ adjusted \in AdjustedAmount(amount, cfg.platform_sell_fee)
  /\ out \in AmountOut(launch.reserve_token, launch.reserve_lamport, adjusted)
  /\ amount <= user.tokens /\ out <= vault
  /\ launch.reserve_token + amount \in U64 /\ launch.reserve_lamport - out \in U64
  /\ launch' = UpdateReserves(launch, cfg, launch.reserve_token + amount,
                              launch.reserve_lamport - out)
  /\ vault' = vault - out
  /\ vaultToken' = vaultToken + amount
  /\ user' = [sol |-> user.sol + out, tokens |-> user.tokens - amount]
  /\ UNCHANGED <<call, sniped, migrations>>

(* A buy or a snipe: the amount is recorded, the price leaves the curve.    *)
Issues(cfg, amount, paid, adjusted, out) ==
  /\ adjusted \in AdjustedAmount(amount, cfg.platform_buy_fee)
  /\ out \in AmountOut(launch.reserve_lamport, launch.reserve_token, adjusted)
  /\ paid <= user.sol /\ out <= vaultToken
  /\ launch.reserve_token - out \in U64 /\ launch.reserve_lamport + amount \in U64
  /\ launch' = UpdateReserves(launch, cfg, launch.reserve_token - out,
                              launch.reserve_lamport + amount)
  /\ vault' = vault + paid
  /\ vaultToken' = vaultToken - out
  /\ user' = [sol |-> user.sol - paid, tokens |-> user.tokens + out]
  /\ sniped' = sniped + (amount - paid)
  /\ UNCHANGED <<call, migrations>>

LEMMA SellEffect ==
  ASSUME LaunchTypeOK, NEW cfg \in Configs, NEW amount \in Nat, SellTokens(cfg, amount)
  PROVE  \E adjusted \in U64, out \in U64 : Sells(cfg, amount, adjusted, out)
<1>1. PICK q \in CalAmountOut(launch, amount, Sell, cfg) :
        \E rt \in CheckedAdd(launch.reserve_token, amount),
           rl \in CheckedSub(launch.reserve_lamport, q.out) :
          /\ vault >= q.out
          /\ launch' = UpdateReserves(launch, cfg, rt, rl)
          /\ vault' = vault - q.out
          /\ vaultToken' = vaultToken + amount
          /\ user' = [sol |-> user.sol + q.out, tokens |-> user.tokens - amount]
  BY DEF SellTokens, AmountOnCurve
<1>2. /\ q.adjusted \in AdjustedAmount(amount, cfg.platform_sell_fee)
      /\ q.out \in AmountOut(launch.reserve_token, launch.reserve_lamport, q.adjusted)
      /\ q.adjusted \in U64 /\ q.out \in U64
  BY <1>1, Priced DEF FeeFor, ReserveIn, ReserveOut
<1>3. q.out \in Nat
  BY <1>2, U64Nat
<1>4. PICK rt \in CheckedAdd(launch.reserve_token, amount) :
        \E rl \in CheckedSub(launch.reserve_lamport, q.out) :
          launch' = UpdateReserves(launch, cfg, rt, rl)
  BY <1>1
<1>5. PICK rl \in CheckedSub(launch.reserve_lamport, q.out) :
        launch' = UpdateReserves(launch, cfg, rt, rl)
  BY <1>4
<1>6. rt = launch.reserve_token + amount /\ rt \in U64
  BY LaunchFields, CheckedAddType
<1>7. rl = launch.reserve_lamport - q.out /\ rl \in U64
  BY <1>3, LaunchFields, CheckedSubType
<1>8. Sells(cfg, amount, q.adjusted, q.out)
  <2>1. amount > 0 /\ amount <= user.tokens /\ UNCHANGED <<call, sniped, migrations>>
    BY LaunchFields DEF SellTokens
  <2>2. q.out <= vault
    BY <1>1, <1>3, LaunchFields
  <2> QED
    BY <1>1, <1>2, <1>5, <1>6, <1>7, <2>1, <2>2 DEF Sells
<1> QED
  BY <1>2, <1>8

LEMMA IssueEffect ==
  ASSUME LaunchTypeOK, NEW cfg \in Configs, NEW amount \in Nat, NEW paid \in {0, amount},
         Issue(cfg, amount, paid), sniped' = sniped + (amount - paid)
  PROVE  \E adjusted \in U64, out \in U64 : Issues(cfg, amount, paid, adjusted, out)
<1>1. PICK q \in CalAmountOut(launch, amount, Buy, cfg) :
        \E rt \in CheckedSub(launch.reserve_token, q.out),
           rl \in CheckedAdd(launch.reserve_lamport, amount) :
          /\ vaultToken >= q.out
          /\ launch' = UpdateReserves(launch, cfg, rt, rl)
          /\ vaultToken' = vaultToken - q.out
          /\ user' = [sol |-> user.sol - paid, tokens |-> user.tokens + q.out]
  BY DEF Issue, AmountOnCurve
<1>2. /\ q.adjusted \in AdjustedAmount(amount, cfg.platform_buy_fee)
      /\ q.out \in AmountOut(launch.reserve_lamport, launch.reserve_token, q.adjusted)
      /\ q.adjusted \in U64 /\ q.out \in U64
  BY <1>1, Priced DEF FeeFor, ReserveIn, ReserveOut, Buy, Sell
<1>3. q.out \in Nat
  BY <1>2, U64Nat
<1>4. PICK rt \in CheckedSub(launch.reserve_token, q.out) :
        \E rl \in CheckedAdd(launch.reserve_lamport, amount) :
          launch' = UpdateReserves(launch, cfg, rt, rl)
  BY <1>1
<1>5. PICK rl \in CheckedAdd(launch.reserve_lamport, amount) :
        launch' = UpdateReserves(launch, cfg, rt, rl)
  BY <1>4
<1>6. rt = launch.reserve_token - q.out /\ rt \in U64
  BY <1>3, LaunchFields, CheckedSubType
<1>7. rl = launch.reserve_lamport + amount /\ rl \in U64
  BY LaunchFields, CheckedAddType
<1>8. Issues(cfg, amount, paid, q.adjusted, q.out)
  <2>1. paid <= user.sol /\ vault' = vault + paid /\ UNCHANGED <<call, migrations>>
    BY LaunchFields DEF Issue
  <2>2. q.out <= vaultToken
    BY <1>1, <1>3, LaunchFields
  <2> QED
    BY <1>1, <1>2, <1>5, <1>6, <1>7, <2>1, <2>2 DEF Issues
<1> QED
  BY <1>2, <1>8

-------------------------------------------------------------------------------
(* A migration pays three parties and empties the launch.                   *)
Migrates(cfg, fee, coin) ==
  /\ fee \in Nat /\ coin \in Int
  /\ launch.launch_phase = "Completed"
  /\ launch.reserve_lamport - fee - launch.init_lamport - MigrationCost >= 0
  /\ CallerShare + fee + PoolFee <= vault
  /\ (launch.reserve_token - coin) + coin <= vaultToken
  /\ vault' = vault - (CallerShare + fee + PoolFee)
  /\ vaultToken' = vaultToken - (launch.reserve_token - coin) - coin
  /\ user' = [user EXCEPT !.sol = @ + CallerShare]
  /\ launch' = UpdateReserves(launch, cfg, 0, 0)
  /\ migrations' = migrations + 1
  /\ sniped' = sniped

LEMMA MigrateEffect ==
  ASSUME LaunchTypeOK, NEW cfg \in Configs, NEW nonce, NEW time, Migrate(cfg, nonce, time)
  PROVE  \E fee \in Nat, coin \in Int : Migrates(cfg, fee, coin)
<1> DEFINE fee  == (launch.reserve_lamport \div FeeUnit) * cfg.platform_migration_fee
           pc   == InitPcAmount(launch, fee)
           coin == (pc * launch.reserve_token) \div launch.reserve_lamport
<1>1. fee \in Nat
  <2>1. launch.reserve_lamport \div FeeUnit \in Nat
    BY LaunchFields, FeeAssumption
  <2>2. cfg.platform_migration_fee \in Nat
    BY ConfigAssumption
  <2> QED
    BY <2>1, <2>2
<1> HIDE DEF fee
<1>2. pc \in Int /\ pc = launch.reserve_lamport - fee - launch.init_lamport - MigrationCost
  BY <1>1, LaunchFields, FeeAssumption DEF InitPcAmount
<1> HIDE DEF pc
<1>3. launch.reserve_lamport > 0 /\ pc >= 0
  BY DEF Migrate, fee, pc
<1>4. coin \in Int
  <2>1. pc * launch.reserve_token \in Int /\ launch.reserve_lamport \in Nat \ {0}
    BY <1>2, <1>3, LaunchFields
  <2> QED
    BY <2>1, DivBounds
<1> HIDE DEF coin
<1>5. Migrates(cfg, fee, coin)
  <2>1. /\ launch.launch_phase = "Completed"
        /\ vault >= CallerShare + fee + PoolFee
        /\ vaultToken >= (launch.reserve_token - coin) + coin
        /\ vault' = vault - (CallerShare + fee + PoolFee)
        /\ vaultToken' = vaultToken - (launch.reserve_token - coin) - coin
        /\ user' = [user EXCEPT !.sol = @ + CallerShare]
        /\ launch' = UpdateReserves(launch, cfg, 0, 0)
        /\ migrations' = migrations + 1
        /\ sniped' = sniped
    BY DEF Migrate, fee, pc, coin
  <2>2. CallerShare + fee + PoolFee <= vault /\ (launch.reserve_token - coin) + coin <= vaultToken
    BY <1>1, <1>4, <2>1, LaunchFields, FeeAssumption
  <2> QED
    BY <1>1, <1>2, <1>3, <1>4, <2>1, <2>2 DEF Migrates
<1> QED
  BY <1>1, <1>4, <1>5

-------------------------------------------------------------------------------
(* Every step is a sell, a purchase, a migration or leaves the money alone. *)
LEMMA LaunchSteps ==
  ASSUME LaunchTypeOK, [Next]_vars
  PROVE  \/ \E cfg \in Configs, amount \in Amounts, adjusted \in U64, out \in U64 :
              \/ Sells(cfg, amount, adjusted, out)
              \/ \E paid \in {0, amount} : Issues(cfg, amount, paid, adjusted, out)
         \/ \E cfg \in Configs, fee \in Nat, coin \in Int : Migrates(cfg, fee, coin)
         \/ UNCHANGED <<launch, vault, vaultToken, user, sniped, migrations>>
<1>1. Amounts \subseteq Nat
  BY AmountAssumption, U64Nat
<1>2. ASSUME NEW cfg \in Configs, NEW amount \in Amounts, SellTokens(cfg, amount)
      PROVE  \E adjusted \in U64, out \in U64 : Sells(cfg, amount, adjusted, out)
  BY <1>1, <1>2, SellEffect
<1>3. ASSUME NEW cfg \in Configs, NEW amount \in Amounts, BuyTokens(cfg, amount)
      PROVE  \E adjusted \in U64, out \in U64 : Issues(cfg, amount, amount, adjusted, out)
  <2>1. Issue(cfg, amount, amount) /\ sniped' = sniped + (amount - amount)
    BY <1>1, <1>3, LaunchFields DEF BuyTokens
  <2> QED
    BY <1>1, <2>1, IssueEffect
<1>4. ASSUME NEW cfg \in Configs, NEW amount \in Amounts, Snipe(cfg, amount)
      PROVE  \E adjusted \in U64, out \in U64 : Issues(cfg, amount, 0, adjusted, out)
  <2>1. Issue(cfg, amount, 0) /\ sniped' = sniped + (amount - 0)
    BY <1>1, <1>4, LaunchFields DEF Snipe
  <2> QED
    BY <1>1, <2>1, IssueEffect
<1>5. ASSUME NEW ix, Built(ix)
      PROVE  UNCHANGED <<launch, vault, vaultToken, user, sniped, migrations>>
  BY <1>5 DEF Built
<1> QED
  BY <1>2, <1>3, <1>4, <1>5, MigrateEffect
  DEF Next, vars, Deposit, Withdraw, SwapBaseIn, SwapBaseOut

-------------------------------------------------------------------------------
(* What the three kinds of step do to the launch.                           *)
LEMMA SoldLaunch ==
  ASSUME LaunchTypeOK, NEW cfg, NEW amount \in Nat, NEW adjusted \in U64, NEW out \in U64,
         Sells(cfg, amount, adjusted, out)
  PROVE  /\ launch' \in LaunchType
         /\ launch'.reserve_token = launch.reserve_token + amount
         /\ launch'.reserve_lamport = launch.reserve_lamport - out
         /\ launch'.init_lamport = launch.init_lamport
BY UpdateReservesFields DEF Sells, LaunchTypeOK

LEMMA IssuedLaunch ==
  ASSUME LaunchTypeOK, NEW cfg, NEW amount \in Nat, NEW paid, NEW adjusted \in U64, NEW out \in U64,
         Issues(cfg, amount, paid, adjusted, out)
  PROVE  /\ launch' \in LaunchType
         /\ launch'.reserve_token = launch.reserve_token - out
         /\ launch'.reserve_lamport = launch.reserve_lamport + amount
         /\ launch'.init_lamport = launch.init_lamport
BY UpdateReservesFields DEF Issues, LaunchTypeOK

LEMMA MigratedLaunch ==
  ASSUME LaunchTypeOK, NEW cfg, NEW fee, NEW coin, Migrates(cfg, fee, coin)
  PROVE  /\ launch' \in LaunchType
         /\ launch'.reserve_token = 0 /\ launch'.reserve_lamport = 0
         /\ launch'.init_lamport = launch.init_lamport
<1>1. 0 \in U64 /\ launch \in LaunchType /\ launch' = UpdateReserves(launch, cfg, 0, 0)
  BY MaxU64Assumption DEF U64, Migrates, LaunchTypeOK
<1> QED
  BY <1>1, UpdateReservesFields

(* The account's u64 fields stay in range and no balance falls below zero.  *)
THEOREM LaunchTypeCorrect == Spec => []LaunchTypeOK
<1>1. Init => LaunchTypeOK
  <2> SUFFICES ASSUME Init PROVE LaunchTypeOK
    OBVIOUS
  <2>1. launch \in LaunchType /\ launch.init_lamport <= launch.reserve_lamport
    BY StartAssumption DEF Init
  <2>2. /\ launch.init_lamport \in Nat /\ launch.reserve_lamport \in Nat
        /\ launch.reserve_token \in Nat
    BY <2>1, U64Nat DEF LaunchType
  <2>3. vault \in Nat
    BY <2>1, <2>2, AmountAssumption DEF Init
  <2>4. user \in [sol : Nat, tokens : Nat] /\ vaultToken \in Nat
        /\ sniped \in Nat /\ migrations \in Nat
    BY <2>2, AmountAssumption DEF Init
  <2> QED
    BY <2>1, <2>3, <2>4 DEF LaunchTypeOK
<1>2. LaunchTypeOK /\ [Next]_vars => LaunchTypeOK'
  <2> SUFFICES ASSUME LaunchTypeOK, [Next]_vars PROVE LaunchTypeOK'
    OBVIOUS
  <2>1. ASSUME NEW cfg, NEW amount \in Nat, NEW adjusted \in U64, NEW out \in U64,
               Sells(cfg, amount, adjusted, out)
        PROVE  LaunchTypeOK'
    <3>1. launch' \in LaunchType
      BY <2>1, SoldLaunch
    <3>2. out \in Nat
      BY U64Nat
    <3>3. user' \in [sol : Nat, tokens : Nat]
          /\ vault' \in Nat /\ vaultToken' \in Nat /\ sniped' \in Nat /\ migrations' \in Nat
      BY <2>1, <3>2, LaunchFields DEF Sells
    <3> QED
      BY <3>1, <3>3 DEF LaunchTypeOK
  <2>2. ASSUME NEW cfg, NEW amount \in Nat, NEW paid \in {0, amount},
               NEW adjusted \in U64, NEW out \in U64, Issues(cfg, amount, paid, adjusted, out)
        PROVE  LaunchTypeOK'
    <3>1. launch' \in LaunchType
      BY <2>2, IssuedLaunch
    <3>2. out \in Nat /\ paid \in Nat /\ amount - paid \in Nat
      BY U64Nat
    <3>3. user' \in [sol : Nat, tokens : Nat]
          /\ vault' \in Nat /\ vaultToken' \in Nat /\ sniped' \in Nat /\ migrations' \in Nat
      BY <2>2, <3>2, LaunchFields DEF Issues
    <3> QED
      BY <3>1, <3>3 DEF LaunchTypeOK
  <2>3. ASSUME NEW cfg, NEW fee \in Nat, NEW coin \in Int, Migrates(cfg, fee, coin)
        PROVE  LaunchTypeOK'
    <3>1. launch' \in LaunchType
      BY <2>3, MigratedLaunch
    <3>2. user' \in [sol : Nat, tokens : Nat]
      BY <2>3, FeeAssumption DEF Migrates, LaunchTypeOK
    <3>3. vault' \in Nat /\ vaultToken' \in Nat /\ sniped' \in Nat /\ migrations' \in Nat
      BY <2>3, LaunchFields, FeeAssumption DEF Migrates
    <3> QED
      BY <3>1, <3>2, <3>3 DEF LaunchTypeOK
  <2>4. CASE UNCHANGED <<launch, vault, vaultToken, user, sniped, migrations>>
    BY <2>4 DEF LaunchTypeOK
  <2>5. Amounts \subseteq Nat
    BY AmountAssumption, U64Nat
  <2> QED
    BY <2>1, <2>2, <2>3, <2>4, <2>5, LaunchSteps
<1> QED
  BY <1>1, <1>2, PTL DEF Spec

-------------------------------------------------------------------------------
(* The vault's token account holds what the launch records, through trades, *)
(* snipes and migrations: a migration hands out all of it, whatever part    *)
(* becomes the pool's coin.                                                 *)
THEOREM LaunchTokensMatchCorrect == Spec => []LaunchTokensMatch
<1>1. Init => LaunchTokensMatch
  BY DEF Init, LaunchTokensMatch
<1>2. LaunchTypeOK /\ LaunchTokensMatch /\ [Next]_vars => LaunchTokensMatch'
  <2> SUFFICES ASSUME LaunchTypeOK, LaunchTokensMatch, [Next]_vars PROVE LaunchTokensMatch'
    OBVIOUS
  <2>1. ASSUME NEW cfg, NEW amount \in Nat, NEW adjusted \in U64, NEW out \in U64,
               Sells(cfg, amount, adjusted, out)
        PROVE  LaunchTokensMatch'
    <3>1. launch'.reserve_token = launch.reserve_token + amount
      BY <2>1, SoldLaunch
    <3>2. vaultToken' = vaultToken + amount
      BY <2>1 DEF Sells
    <3> QED
      BY <3>1, <3>2 DEF LaunchTokensMatch
  <2>2. ASSUME NEW cfg, NEW amount \in Nat, NEW paid, NEW adjusted \in U64, NEW out \in U64,
               Issues(cfg, amount, paid, adjusted, out)
        PROVE  LaunchTokensMatch'
    <3>1. launch'.reserve_token = launch.reserve_token - out
      BY <2>2, IssuedLaunch
    <3>2. vaultToken' = vaultToken - out
      BY <2>2 DEF Issues
    <3> QED
      BY <3>1, <3>2 DEF LaunchTokensMatch
  <2>3. ASSUME NEW cfg, NEW fee \in Nat, NEW coin \in Int, Migrates(cfg, fee, coin)
        PROVE  LaunchTokensMatch'
    <3>1. launch'.reserve_token = 0
      BY <2>3, MigratedLaunch
    <3>2. vaultToken' = vaultToken - (launch.reserve_token - coin) - coin
      BY <2>3 DEF Migrates
    <3> QED
      BY <3>1, <3>2, LaunchFields DEF LaunchTokensMatch
  <2>4. CASE UNCHANGED <<launch, vault, vaultToken, user, sniped, migrations>>
    BY <2>4 DEF LaunchTokensMatch
  <2>5. Amounts \subseteq Nat
    BY AmountAssumption, U64Nat
  <2> QED
    BY <2>1, <2>2, <2>3, <2>4, <2>5, LaunchSteps
<1> QED
  BY <1>1, <1>2, LaunchTypeCorrect, PTL DEF Spec

(* Until it is migrated, the launch's lamports are in the vault, all but    *)
(* those that snipe recorded and nobody paid.                               *)
THEOREM LaunchBooksCorrect == Spec => []LaunchBooks
<1>1. Init => LaunchBooks
  <2> SUFFICES ASSUME Init PROVE LaunchBooks
    OBVIOUS
  <2>1. launch \in LaunchType
    BY StartAssumption DEF Init
  <2>2. launch.init_lamport \in Nat /\ launch.reserve_lamport \in Nat /\ Funds \in Nat
    BY <2>1, U64Nat, AmountAssumption DEF LaunchType
  <2> QED
    BY <2>2 DEF Init, LaunchBooks
<1>2. LaunchTypeOK /\ LaunchBooks /\ [Next]_vars => LaunchBooks'
  <2> SUFFICES ASSUME LaunchTypeOK, LaunchBooks, [Next]_vars, migrations' = 0
               PROVE  vault' + sniped'
                        = Funds + launch'.reserve_lamport - launch'.init_lamport
    BY DEF LaunchBooks
  <2>1. Funds \in Nat
    BY AmountAssumption
  <2>2. ASSUME NEW cfg, NEW amount \in Nat, NEW adjusted \in U64, NEW out \in U64,
               Sells(cfg, amount, adjusted, out)
        PROVE  vault' + sniped' = Funds + launch'.reserve_lamport - launch'.init_lamport
    <3>1. /\ launch'.reserve_lamport = launch.reserve_lamport - out
          /\ launch'.init_lamport = launch.init_lamport
      BY <2>2, SoldLaunch
    <3>2. vault' = vault - out /\ sniped' = sniped /\ migrations' = migrations
      BY <2>2 DEF Sells
    <3>3. vault + sniped = Funds + launch.reserve_lamport - launch.init_lamport
      BY <3>2 DEF LaunchBooks
    <3> QED
      BY <2>1, <3>1, <3>2, <3>3, LaunchFields, U64Nat
  <2>3. ASSUME NEW cfg, NEW amount \in Nat, NEW paid \in {0, amount},
               NEW adjusted \in U64, NEW out \in U64, Issues(cfg, amount, paid, adjusted, out)
        PROVE  vault' + sniped' = Funds + launch'.reserve_lamport - launch'.init_lamport
    <3>1. /\ launch'.reserve_lamport = launch.reserve_lamport + amount
          /\ launch'.init_lamport = launch.init_lamport
      BY <2>3, IssuedLaunch
    <3>2. /\ vault' = vault + paid /\ sniped' = sniped + (amount - paid)
          /\ migrations' = migrations
      BY <2>3 DEF Issues
    <3>3. vault + sniped = Funds + launch.reserve_lamport - launch.init_lamport
      BY <3>2 DEF LaunchBooks
    <3> QED
      BY <2>1, <3>1, <3>2, <3>3, LaunchFields
  <2>4. ASSUME NEW cfg, NEW fee \in Nat, NEW coin \in Int, Migrates(cfg, fee, coin)
        PROVE  FALSE
    BY <2>4, LaunchFields DEF Migrates
  <2>5. CASE UNCHANGED <<launch, vault, vaultToken, user, sniped, migrations>>
    BY <2>5 DEF LaunchBooks
  <2>6. Amounts \subseteq Nat
    BY AmountAssumption, U64Nat
  <2> QED
    BY <2>2, <2>3, <2>4, <2>5, <2>6, LaunchSteps
<1> QED
  BY <1>1, <1>2, LaunchTypeCorrect, PTL DEF Spec

-------------------------------------------------------------------------------
(* Whatever the quotients round to, no trade lowers the product of the      *)
(* reserves by more: not even a snipe, which is not paid for.               *)
THEOREM LaunchProductFallsByRoundingCorrect == Spec => LaunchProductFallsByRounding
<1> DEFINE Sold == launch'.reserve_token - launch.reserve_token
           Paid == launch'.reserve_lamport - launch.reserve_lamport
           Touched == IF Sold > 0 THEN launch.reserve_lamport * Sold
                                  ELSE launch.reserve_token * Paid
           Kept == (launch.reserve_lamport * launch.reserve_token) * FloatPrecision
                     <= (launch'.reserve_lamport * launch'.reserve_token) * FloatPrecision
                        + 3 * Touched
<1>1. ASSUME LaunchTypeOK, NEW cfg \in Configs, NEW amount \in U64, NEW adjusted \in U64,
             NEW out \in U64, Sells(cfg, amount, adjusted, out)
      PROVE  Kept
  <2>1. PICK S \in U64, T \in U64 : S = launch.reserve_lamport /\ T = launch.reserve_token
    BY <1>1, LaunchFields
  <2>2. S \in Nat /\ T \in Nat /\ amount \in Nat /\ out \in Nat /\ adjusted \in Nat
    BY <2>1, U64Nat
  <2>3. /\ launch'.reserve_token = T + amount
        /\ launch'.reserve_lamport = S - out
    BY <1>1, <2>1, <2>2, SoldLaunch
  <2>4. out \in AmountOut(T, S, adjusted) /\ S - out \in U64
    BY <1>1, <2>1 DEF Sells
  <2>5. adjusted * FloatPrecision <= amount * FloatPrecision + amount
    <3>1. adjusted \in AdjustedAmount(amount, cfg.platform_sell_fee)
      BY <1>1 DEF Sells
    <3> QED
      BY <2>2, <3>1, ConfigAssumption, AdjustedRounds
  <2>6. (T * S) * FloatPrecision
          <= ((T + amount) * (S - out)) * FloatPrecision + 3 * (S * amount)
    <3>1. out <= S
      BY <2>2, <2>4, U64Nat
    <3> QED
      BY <2>2, <2>4, <2>5, <3>1, UncappedRounding
  <2>7. T * S = S * T /\ (T + amount) * (S - out) = (S - out) * (T + amount)
    BY <2>2
  <2>8. Sold = amount /\ amount > 0
    BY <1>1, <2>1, <2>2, <2>3 DEF Sells
  <2>9. Touched = S * amount
    BY <2>1, <2>8
  <2>10. /\ launch.reserve_lamport * launch.reserve_token = S * T
         /\ launch'.reserve_lamport * launch'.reserve_token = (S - out) * (T + amount)
    BY <2>1, <2>3, Zenon
  <2> HIDE DEF Touched
  <2> QED
    BY <2>6, <2>7, <2>9, <2>10, Zenon
<1>2. ASSUME LaunchTypeOK, NEW cfg \in Configs, NEW amount \in U64, NEW paid, NEW adjusted \in U64,
             NEW out \in U64, Issues(cfg, amount, paid, adjusted, out)
      PROVE  Kept
  <2>1. PICK S \in U64, T \in U64 : S = launch.reserve_lamport /\ T = launch.reserve_token
    BY <1>2, LaunchFields
  <2>2. S \in Nat /\ T \in Nat /\ amount \in Nat /\ out \in Nat /\ adjusted \in Nat
    BY <2>1, U64Nat
  <2>3. /\ launch'.reserve_token = T - out
        /\ launch'.reserve_lamport = S + amount
    BY <1>2, <2>1, <2>2, IssuedLaunch
  <2>4. out \in AmountOut(S, T, adjusted) /\ T - out \in U64
    BY <1>2, <2>1 DEF Issues
  <2>5. adjusted * FloatPrecision <= amount * FloatPrecision + amount
    <3>1. adjusted \in AdjustedAmount(amount, cfg.platform_buy_fee)
      BY <1>2 DEF Issues
    <3> QED
      BY <2>2, <3>1, ConfigAssumption, AdjustedRounds
  <2>6. (S * T) * FloatPrecision
          <= ((S + amount) * (T - out)) * FloatPrecision + 3 * (T * amount)
    <3>1. out <= T
      BY <2>2, <2>4, U64Nat
    <3> QED
      BY <2>2, <2>4, <2>5, <3>1, UncappedRounding
  <2>7. ~(Sold > 0) /\ Paid = amount
    BY <2>1, <2>2, <2>3
  <2>8. Touched = T * amount
    BY <2>1, <2>7
  <2>9. /\ launch.reserve_lamport * launch.reserve_token = S * T
        /\ launch'.reserve_lamport * launch'.reserve_token = (S + amount) * (T - out)
    BY <2>1, <2>3, Zenon
  <2> HIDE DEF Touched
  <2> QED
    BY <2>6, <2>8, <2>9, Zenon
<1>3. ASSUME LaunchTypeOK, Next, migrations' = migrations
      PROVE  Kept
  <2>1. CASE UNCHANGED <<launch, vault, vaultToken, user, sniped, migrations>>
    <3>1. PICK S \in Nat, T \in Nat : S = launch.reserve_lamport /\ T = launch.reserve_token
      BY <1>3, LaunchFields
    <3>2. launch'.reserve_lamport = S /\ launch'.reserve_token = T
      BY <2>1, <3>1
    <3>3. Touched = 0
      BY <3>1, <3>2
    <3>4. (S * T) * FloatPrecision <= (S * T) * FloatPrecision + 3 * 0
      <4>1. (S * T) * FloatPrecision \in Int
        BY FloatPrecisionAssumption
      <4> QED
        BY <4>1
    <3> HIDE DEF Touched
    <3> QED
      BY <3>1, <3>2, <3>3, <3>4, Zenon
  <2>2. ASSUME NEW cfg \in Configs, NEW fee \in Nat, NEW coin \in Int, Migrates(cfg, fee, coin)
        PROVE  FALSE
    BY <1>3, <2>2, LaunchFields DEF Migrates
  <2> HIDE DEF Kept
  <2> QED
    BY <1>1, <1>2, <1>3, <2>1, <2>2, LaunchSteps, AmountAssumption
<1>4. LaunchTypeOK /\ [Next]_vars => [migrations' = migrations => Kept]_vars
  <2> HIDE DEF Kept
  <2> QED
    BY <1>3
<1>5. [migrations' = migrations => Kept]_vars =>
        [migrations' = migrations =>
           LET sold    == launch'.reserve_token - launch.reserve_token
               paid    == launch'.reserve_lamport - launch.reserve_lamport
               touched == IF sold > 0 THEN launch.reserve_lamport * sold
                                      ELSE launch.reserve_token * paid
           IN  (launch.reserve_lamport * launch.reserve_token) * FloatPrecision
                 <= (launch'.reserve_lamport * launch'.reserve_token) * FloatPrecision
                    + 3 * touched]_vars
  OBVIOUS
<1> HIDE DEF Kept
<1> QED
  BY <1>4, <1>5, LaunchTypeCorrect, PTL DEF Spec, LaunchProductFallsByRounding

-------------------------------------------------------------------------------
(* A field of w bytes behind the first a lies in a buffer of b bytes.       *)
LEMMA InField ==
  ASSUME NEW a \in Nat, NEW w \in Nat, NEW b \in Nat, NEW more \in Nat, a + w <= b,
         NEW i \in 1..w
  PROVE  i \in Nat /\ a + i \in 1..(b + more) /\ a + i <= b
OBVIOUS

LEMMA BehindField ==
  ASSUME NEW a \in Nat, NEW w \in Nat, NEW i \in 1..w
  PROVE  a + i \in 1..(a + w) /\ ~(a + i <= a) /\ (a + i) - a = i
OBVIOUS

LEMMA ByteBasePositive == ByteBase \in Nat \ {0}
BY EncodingAssumption

IsHighPart(n, width, f) ==
  f = [k \in 0..width |-> IF k = 0 THEN n ELSE f[k - 1] \div ByteBase]

(* The recursive functions of the encoding exist, and have their types.     *)
LEMMA HighPartIs ==
  ASSUME NEW n \in Nat, NEW width \in Nat
  PROVE  /\ HighPart(n, width) \in [0..width -> Nat]
         /\ HighPart(n, width)[0] = n
         /\ \A k \in 1..width : HighPart(n, width)[k] = HighPart(n, width)[k - 1] \div ByteBase
<1> DEFINE step == [k \in 1..width |-> [m \in Nat |-> m \div ByteBase]]
           V == Nat
<1>1. n \in V /\ step \in [1..width -> [V -> V]]
  BY ByteBasePositive, DivMod
<1>2. PICK f : Recurs(V, n, width, step, f)
  <2> HIDE DEF V, step
  <2> QED
    BY <1>1, RecursionOnInterval
<1>3. \A k \in 1..width : f[k] = f[k - 1] \div ByteBase
  <2> TAKE k \in 1..width
  <2>1. f[k - 1] \in Nat /\ f[k] = step[k][f[k - 1]]
    BY <1>2 DEF Recurs
  <2> QED
    BY <2>1
<1>4. IsHighPart(n, width, f)
  <2>1. ASSUME NEW k \in 0..width
        PROVE  f[k] = IF k = 0 THEN n ELSE f[k - 1] \div ByteBase
    BY <1>2, <1>3 DEF Recurs
  <2> QED
    BY <1>2, <2>1 DEF Recurs, IsHighPart
<1>5. HighPart(n, width) = CHOOSE g : IsHighPart(n, width, g)
  BY DEF HighPart, IsHighPart
<1> DEFINE high == HighPart(n, width)
<1>6. IsHighPart(n, width, high)
  BY <1>4, <1>5
<1> HIDE DEF high
<1>7. high[0] = n /\ \A k \in 1..width : high[k] = high[k - 1] \div ByteBase
  BY <1>6 DEF IsHighPart
<1>8. \A k \in 0..width : high[k] \in Nat
  <2> DEFINE S == { k \in 0..width : high[k] \in Nat }
  <2>1. 0 \in S
    BY <1>7
  <2>2. ASSUME NEW k \in 1..width, k - 1 \in S PROVE k \in S
    <3>1. high[k - 1] \in Nat /\ high[k] = high[k - 1] \div ByteBase
      BY <1>7, <2>2
    <3> QED
      BY <3>1, ByteBasePositive, DivMod
  <2> HIDE DEF S
  <2>3. \A k \in 0..width : k \in S
    BY <2>1, <2>2, IntervalInduction
  <2> QED
    BY <2>3 DEF S
<1>9. high \in [0..width -> Nat]
  <2>1. high = [k \in 0..width |-> high[k]]
    BY <1>6 DEF IsHighPart
  <2> QED
    BY <1>8, <2>1
<1> QED
  BY <1>7, <1>9 DEF high

(* No byte is left of a number below a power of the base.                   *)
LEMMA HighPartMonotone ==
  ASSUME NEW m \in Nat, NEW n \in Nat, NEW width \in Nat, m <= n
  PROVE  HighPart(m, width)[width] <= HighPart(n, width)[width]
<1> DEFINE low == HighPart(m, width)
           high == HighPart(n, width)
           S == { k \in 0..width : low[k] <= high[k] }
<1>1. /\ low \in [0..width -> Nat] /\ low[0] = m
      /\ \A k \in 1..width : low[k] = low[k - 1] \div ByteBase
      /\ high \in [0..width -> Nat] /\ high[0] = n
      /\ \A k \in 1..width : high[k] = high[k - 1] \div ByteBase
  BY HighPartIs
<1> HIDE DEF low, high
<1>2. 0 \in S
  BY <1>1
<1>3. ASSUME NEW k \in 1..width, k - 1 \in S PROVE k \in S
  <2>1. /\ low[k - 1] \in Nat /\ high[k - 1] \in Nat /\ low[k - 1] <= high[k - 1]
        /\ low[k] = low[k - 1] \div ByteBase /\ high[k] = high[k - 1] \div ByteBase
    BY <1>1, <1>3
  <2>2. low[k - 1] * ByteBase <= high[k - 1] * ByteBase
    BY <2>1, ByteBasePositive, TimesMonotone
  <2>3. low[k - 1] \div ByteBase <= high[k - 1] \div ByteBase
    BY <2>1, <2>2, ByteBasePositive, DivMonotone
  <2> QED
    BY <2>1, <2>3
<1>4. \A k \in 0..width : k \in S
  <2> HIDE DEF S
  <2> QED
    BY <1>2, <1>3, IntervalInduction
<1> QED
  BY <1>4 DEF low, high

(* Width bytes hold a u64, one byte holds a nonce.                          *)
LEMMA U64Fits == ASSUME NEW n \in U64 PROVE HighPart(n, Width)[Width] = 0
<1>1. n \in Nat /\ MaxU64 \in Nat /\ n <= MaxU64 /\ Width \in Nat
  BY MaxU64Assumption, EncodingAssumption DEF U64
<1>2. HighPart(n, Width)[Width] <= HighPart(MaxU64, Width)[Width]
  BY <1>1, HighPartMonotone
<1>3. HighPart(n, Width)[Width] \in Nat
  BY <1>1, HighPartIs
<1> QED
  BY <1>2, <1>3, CallAssumption

LEMMA NonceFits == ASSUME NEW n \in Nonces PROVE n \in Nat /\ HighPart(n, 1)[1] = 0
<1>1. n \in Nat /\ n < ByteBase
  BY CallAssumption, EncodingAssumption
<1> DEFINE width == 1
           high == HighPart(n, width)
<1>2. high[0] = n /\ \A k \in 1..width : high[k] = high[k - 1] \div ByteBase
  <2>1. width \in Nat
    OBVIOUS
  <2> HIDE DEF width
  <2> QED
    BY <1>1, <2>1, HighPartIs
<1> HIDE DEF high
<1>3. high[1] = n \div ByteBase
  BY <1>2
<1>4. n \div ByteBase = 0
  BY <1>1, EncodingAssumption
<1> QED
  BY <1>1, <1>3, <1>4 DEF high

-------------------------------------------------------------------------------
(* to_le_bytes gives as many bytes as were asked for.                       *)
LEMMA ToLeBytesIs ==
  ASSUME NEW n \in Nat, NEW width \in Nat
  PROVE  /\ ToLeBytes(n, width) \in Seq(Nat)
         /\ Len(ToLeBytes(n, width)) = width
         /\ \A k \in 1..width : ToLeBytes(n, width)[k] = HighPart(n, width)[k - 1] % ByteBase
<1>1. HighPart(n, width) \in [0..width -> Nat]
  BY HighPartIs
<1>2. \A k \in 1..width : HighPart(n, width)[k - 1] % ByteBase \in Nat
  <2> TAKE k \in 1..width
  <2>1. HighPart(n, width)[k - 1] \in Nat
    BY <1>1
  <2> QED
    BY <2>1, ByteBasePositive, DivMod
<1>3. ToLeBytes(n, width) \in [1..width -> Nat]
  BY <1>2 DEF ToLeBytes
<1> QED
  BY <1>3 DEF ToLeBytes

IsValue(bytes, f) ==
  f = [k \in 0..Len(bytes) |->
         IF k = 0 THEN 0 ELSE bytes[Len(bytes) + 1 - k] + ByteBase * f[k - 1]]

(* from_le_bytes adds up the bytes from the last to the first.              *)
LEMMA FromLeBytesIs ==
  ASSUME NEW bytes \in Seq(Nat)
  PROVE  \E value : IsValue(bytes, value) /\ FromLeBytes(bytes) = value[Len(bytes)]
<1> DEFINE len == Len(bytes)
           V == Nat
           v0 == 0
           step == [k \in 1..len |-> [m \in Nat |-> bytes[len + 1 - k] + ByteBase * m]]
<1>1. len \in Nat /\ \A k \in 1..len : bytes[k] \in Nat
  OBVIOUS
<1> HIDE DEF len
<1>2. v0 \in V /\ step \in [1..len -> [V -> V]]
  <2>1. ASSUME NEW k \in 1..len, NEW m \in Nat PROVE bytes[len + 1 - k] + ByteBase * m \in Nat
    <3>1. bytes[len + 1 - k] \in Nat
      <4>1. len + 1 - k \in 1..len
        BY <1>1
      <4> QED
        BY <1>1, <4>1, Zenon
    <3>2. ByteBase * m \in Nat
      <4>1. ByteBase \in Nat
        BY ByteBasePositive
      <4> QED
        BY <4>1
    <3>3. PICK b \in Nat, c \in Nat : b = bytes[len + 1 - k] /\ c = ByteBase * m
      BY <3>1, <3>2, Zenon
    <3> QED
      BY <3>3
  <2> QED
    BY <2>1
<1>3. PICK f : Recurs(V, v0, len, step, f)
  <2> HIDE DEF V, v0, step
  <2> QED
    BY <1>1, <1>2, RecursionOnInterval
<1>4. \A k \in 1..len : f[k] = bytes[len + 1 - k] + ByteBase * f[k - 1]
  <2> TAKE k \in 1..len
  <2>1. k - 1 \in 0..len
    BY <1>1
  <2>2. f[k - 1] \in V /\ f[k] = step[k][f[k - 1]]
    <3> HIDE DEF V, step
    <3> QED
      BY <1>3, <2>1 DEF Recurs
  <2> QED
    BY <2>2
<1>5. IsValue(bytes, f)
  <2>1. ASSUME NEW k \in 0..len
        PROVE  f[k] = IF k = 0 THEN 0 ELSE bytes[len + 1 - k] + ByteBase * f[k - 1]
    BY <1>3, <1>4 DEF Recurs
  <2> QED
    BY <1>3, <2>1 DEF Recurs, IsValue, len
<1>6. FromLeBytes(bytes) = (CHOOSE g : IsValue(bytes, g))[Len(bytes)]
  BY DEF FromLeBytes, IsValue
<1> QED
  BY <1>5, <1>6

(* Reading the bytes of a number that fits them gives the number.           *)
LEMMA BytesRoundTrip ==
  ASSUME NEW n \in Nat, NEW width \in Nat, HighPart(n, width)[width] = 0
  PROVE  FromLeBytes(ToLeBytes(n, width)) = n
<1> DEFINE high == HighPart(n, width)
           bytes == ToLeBytes(n, width)
<1>1. /\ high \in [0..width -> Nat] /\ high[0] = n /\ high[width] = 0
      /\ \A k \in 1..width : high[k] = high[k - 1] \div ByteBase
  BY HighPartIs
<1>2. /\ bytes \in Seq(Nat) /\ Len(bytes) = width
      /\ \A k \in 1..width : bytes[k] = high[k - 1] % ByteBase
  BY ToLeBytesIs
<1> HIDE DEF high, bytes
<1>3. PICK value : IsValue(bytes, value) /\ FromLeBytes(bytes) = value[Len(bytes)]
  BY <1>2, FromLeBytesIs
<1>4. /\ value[0] = 0
      /\ \A k \in 1..width : value[k] = bytes[width + 1 - k] + ByteBase * value[k - 1]
  BY <1>2, <1>3 DEF IsValue
<1> DEFINE S == { k \in 0..width : value[k] = high[width - k] }
<1>5. 0 \in S
  BY <1>1, <1>4
<1>6. ASSUME NEW k \in 1..width, k - 1 \in S PROVE k \in S
  <2> DEFINE j == width + 1 - k
  <2>1. j \in 1..width /\ j - 1 = width - k /\ j = width - (k - 1)
    OBVIOUS
  <2>2. value[k - 1] = high[j]
    BY <1>6, <2>1
  <2>3. value[k] = bytes[j] + ByteBase * value[k - 1]
    BY <1>4
  <2> HIDE DEF j
  <2>4. bytes[j] = high[j - 1] % ByteBase /\ high[j] = high[j - 1] \div ByteBase
    BY <1>1, <1>2, <2>1
  <2>5. high[j - 1] \in Nat
    BY <1>1, <2>1
  <2>6. (high[j - 1] % ByteBase) + ByteBase * (high[j - 1] \div ByteBase) = high[j - 1]
    BY <2>5, ByteBasePositive, DivMod
  <2>7. value[k] = high[j - 1]
    BY <2>2, <2>3, <2>4, <2>6
  <2> QED
    BY <2>1, <2>7
<1>7. \A k \in 0..width : k \in S
  <2> HIDE DEF S
  <2> QED
    BY <1>5, <1>6, IntervalInduction
<1>8. value[width] = high[width - width]
  BY <1>7
<1> QED
  BY <1>1, <1>2, <1>3, <1>8 DEF bytes
-------------------------------------------------------------------------------
IsEnds(widths, f) == f = [k \in 0..Len(widths) |-> IF k = 0 THEN 1 ELSE f[k - 1] + widths[k]]

(* The fields lie behind each other, the first behind the tag.              *)
LEMMA EndsAre ==
  ASSUME NEW widths \in Seq(Nat)
  PROVE  /\ Ends(widths) \in [0..Len(widths) -> Nat \ {0}]
         /\ Ends(widths)[0] = 1
         /\ \A k \in 1..Len(widths) : Ends(widths)[k] = Ends(widths)[k - 1] + widths[k]
<1> DEFINE len == Len(widths)
           V == Nat \ {0}
           v0 == 1
           step == [k \in 1..len |-> [m \in V |-> m + widths[k]]]
           end == Ends(widths)
<1>1. len \in Nat /\ \A k \in 1..len : widths[k] \in Nat
  OBVIOUS
<1> HIDE DEF len
<1>2. v0 \in V /\ step \in [1..len -> [V -> V]]
  <2>1. ASSUME NEW k \in 1..len, NEW m \in Nat \ {0} PROVE m + widths[k] \in Nat \ {0}
    <3>1. widths[k] \in Nat
      BY <1>1
    <3> QED
      BY <3>1
  <2>2. ASSUME NEW k \in 1..len PROVE [m \in V |-> m + widths[k]] \in [V -> V]
    BY <2>1
  <2>3. v0 \in V
    OBVIOUS
  <2> HIDE DEF V
  <2> QED
    BY <2>2, <2>3
<1>3. PICK f : Recurs(V, v0, len, step, f)
  <2> HIDE DEF V, v0, step
  <2> QED
    BY <1>1, <1>2, RecursionOnInterval
<1>4. \A k \in 1..len : f[k] = f[k - 1] + widths[k]
  <2> TAKE k \in 1..len
  <2>1. k - 1 \in 0..len
    BY <1>1
  <2>2. f[k - 1] \in V /\ f[k] = step[k][f[k - 1]]
    <3> HIDE DEF V, step
    <3> QED
      BY <1>3, <2>1 DEF Recurs
  <2> QED
    BY <2>2
<1>5. IsEnds(widths, f)
  <2>1. ASSUME NEW k \in 0..len PROVE f[k] = IF k = 0 THEN 1 ELSE f[k - 1] + widths[k]
    BY <1>3, <1>4 DEF Recurs
  <2> QED
    BY <1>3, <2>1 DEF Recurs, IsEnds, len
<1>6. end = CHOOSE g : IsEnds(widths, g)
  BY DEF Ends, IsEnds
<1> HIDE DEF end
<1>7. IsEnds(widths, end)
  BY <1>5, <1>6
<1>8. end[0] = 1 /\ \A k \in 1..len : end[k] = end[k - 1] + widths[k]
  BY <1>1, <1>7 DEF IsEnds, len
<1>9. \A k \in 0..len : end[k] \in Nat \ {0}
  <2> DEFINE S == { k \in 0..len : end[k] \in Nat \ {0} }
  <2>1. 0 \in S
    BY <1>1, <1>8
  <2>2. ASSUME NEW k \in 1..len, k - 1 \in S PROVE k \in S
    BY <1>1, <1>8, <2>2
  <2> HIDE DEF S
  <2>3. \A k \in 0..len : k \in S
    BY <1>1, <2>1, <2>2, IntervalInduction
  <2> QED
    BY <2>3 DEF S
<1>10. end \in [0..len -> Nat \ {0}]
  <2>1. end = [k \in 0..len |-> end[k]]
    BY <1>7 DEF IsEnds, len
  <2> QED
    BY <1>9, <2>1
<1> QED
  BY <1>8, <1>10 DEF end, len

LEMMA EndsRise ==
  ASSUME NEW widths \in Seq(Nat), NEW k \in 0..Len(widths)
  PROVE  \A j \in 0..k : Ends(widths)[j] <= Ends(widths)[k]
<1> DEFINE end == Ends(widths)
           S == { m \in 0..k : end[k - m] <= end[k] }
<1>1. /\ end \in [0..Len(widths) -> Nat \ {0}]
      /\ \A j \in 1..Len(widths) : end[j] = end[j - 1] + widths[j]
  BY EndsAre
<1> HIDE DEF end
<1>2. Len(widths) \in Nat /\ k \in Nat /\ \A j \in 1..Len(widths) : widths[j] \in Nat
  OBVIOUS
<1>3. 0 \in S
  <2>1. end[k] \in Nat /\ k - 0 = k
    BY <1>1, <1>2
  <2> QED
    BY <1>2, <2>1
<1>4. ASSUME NEW m \in 1..k, m - 1 \in S PROVE m \in S
  <2> DEFINE j == k - m
  <2>1. j \in 0..Len(widths) /\ j + 1 \in 1..Len(widths) /\ j + 1 = k - (m - 1)
    BY <1>2
  <2>2. end[j + 1] <= end[k]
    BY <1>4, <2>1
  <2> HIDE DEF j
  <2>3. end[j + 1] = end[j] + widths[j + 1] /\ widths[j + 1] \in Nat
    <3>1. (j + 1) - 1 = j
      BY <2>1
    <3> QED
      BY <1>1, <1>2, <2>1, <3>1
  <2>4. end[j] \in Nat /\ end[k] \in Nat
    BY <1>1, <1>2, <2>1
  <2>5. end[j] <= end[k]
    BY <2>2, <2>3, <2>4
  <2> QED
    BY <2>5 DEF j
<1>5. \A m \in 0..k : m \in S
  <2> HIDE DEF S
  <2> QED
    BY <1>2, <1>3, <1>4, IntervalInduction
<1> QED
  <2> TAKE j \in 0..k
  <2>1. k - j \in 0..k /\ k - (k - j) = j
    OBVIOUS
  <2>2. end[j] <= end[k]
    BY <1>5, <2>1
  <2> QED
    BY <2>2 DEF end
-------------------------------------------------------------------------------
IsBuffers(args, layout, f) ==
  f = [k \in 0..Len(layout.widths) |->
         IF k = 0 THEN <<layout.tag>> ELSE f[k - 1] \o ToLeBytes(args[k], layout.widths[k])]

(* The buffer grows field by field.                                         *)
LEMMA BuffersAre ==
  ASSUME NEW layout, layout.tag \in Nat, layout.widths \in Seq(Nat),
         NEW args \in [1..Len(layout.widths) -> Nat]
  PROVE  LET buf == Buffers(args, layout)
         IN  /\ buf[0] = <<layout.tag>>
             /\ \A k \in 1..Len(layout.widths) :
                  buf[k] = buf[k - 1] \o ToLeBytes(args[k], layout.widths[k])
<1> DEFINE len == Len(layout.widths)
           V == Seq(Nat)
           v0 == <<layout.tag>>
           field == [k \in 1..len |-> ToLeBytes(args[k], layout.widths[k])]
           step == [k \in 1..len |-> [b \in V |-> b \o field[k]]]
<1>1. len \in Nat /\ \A k \in 1..len : field[k] \in Seq(Nat)
  <2>1. len \in Nat /\ \A k \in 1..len : layout.widths[k] \in Nat /\ args[k] \in Nat
    OBVIOUS
  <2> QED
    BY <2>1, ToLeBytesIs
<1> HIDE DEF len, field
<1>2. v0 \in V /\ step \in [1..len -> [V -> V]]
  <2>1. ASSUME NEW k \in 1..len, NEW b \in Seq(Nat) PROVE b \o field[k] \in Seq(Nat)
    BY <1>1, ConcatProperties
  <2>2. v0 \in V
    OBVIOUS
  <2> HIDE DEF V, v0
  <2> QED
    BY <2>1, <2>2 DEF V
<1>3. PICK f : Recurs(V, v0, len, step, f)
  <2> HIDE DEF V, v0, step
  <2> QED
    BY <1>1, <1>2, RecursionOnInterval
<1>4. \A k \in 1..len : f[k] = f[k - 1] \o field[k]
  <2> TAKE k \in 1..len
  <2>1. k - 1 \in 0..len
    BY <1>1
  <2>2. f[k - 1] \in V /\ f[k] = step[k][f[k - 1]]
    <3> HIDE DEF V, step
    <3> QED
      BY <1>3, <2>1 DEF Recurs
  <2> HIDE DEF V
  <2> QED
    BY <2>2
<1>5. IsBuffers(args, layout, f)
  <2>1. ASSUME NEW k \in 0..len PROVE f[k] = IF k = 0 THEN v0 ELSE f[k - 1] \o field[k]
    <3> HIDE DEF v0
    <3>1. k = 0 \/ k \in 1..len
      BY <1>1
    <3>2. f[0] = v0
      BY <1>3 DEF Recurs
    <3>3. k \in 1..len => k # 0
      OBVIOUS
    <3> QED
      BY <1>4, <3>1, <3>2, <3>3
  <2>2. f = [k \in 0..len |-> IF k = 0 THEN v0 ELSE f[k - 1] \o field[k]]
    <3> HIDE DEF v0
    <3> QED
      BY <1>3, <2>1 DEF Recurs
  <2>3. \A k \in 1..len : field[k] = ToLeBytes(args[k], layout.widths[k])
    BY DEF field
  <2>4. f = [k \in 0..len |-> IF k = 0 THEN v0
                              ELSE f[k - 1] \o ToLeBytes(args[k], layout.widths[k])]
    <3> HIDE DEF v0
    <3>1. \A k \in 0..len : k # 0 => k \in 1..len
      BY <1>1
    <3> QED
      BY <2>2, <2>3, <3>1
  <2> QED
    BY <2>4 DEF IsBuffers, len
<1> DEFINE buf == Buffers(args, layout)
<1>6. buf = CHOOSE g : IsBuffers(args, layout, g)
  BY DEF Buffers, IsBuffers
<1> HIDE DEF buf
<1>7. IsBuffers(args, layout, buf)
  BY <1>5, <1>6
<1>8. /\ buf[0] = <<layout.tag>>
      /\ \A k \in 1..len : buf[k] = buf[k - 1] \o ToLeBytes(args[k], layout.widths[k])
  <2>1. buf = [k \in 0..len |-> IF k = 0 THEN <<layout.tag>>
                                ELSE buf[k - 1] \o ToLeBytes(args[k], layout.widths[k])]
    BY <1>7 DEF IsBuffers, len
  <2>2. 0 \in 0..len /\ \A k \in 1..len : k \in 0..len /\ k # 0
    BY <1>1
  <2> QED
    BY <2>1, <2>2
<1> QED
  BY <1>8 DEF buf, len

(* After k fields the buffer starts with the tag, has the bytes of the      *)
(* first k fields where Ends says, and nothing behind them.                 *)
Encodes(buf, args, layout, k) ==
  /\ buf \in Seq(Nat) /\ Len(buf) = Ends(layout.widths)[k] /\ buf[1] = layout.tag
  /\ \A j \in 1..k : \A i \in 1..layout.widths[j] :
       buf[Ends(layout.widths)[j - 1] + i] = ToLeBytes(args[j], layout.widths[j])[i]

(* So does the finished buffer.                                             *)
LEMMA BuffersEncode ==
  ASSUME NEW layout, layout.tag \in Nat, layout.widths \in Seq(Nat),
         NEW args \in [1..Len(layout.widths) -> Nat]
  PROVE  Encodes(Buffers(args, layout)[Len(layout.widths)], args, layout, Len(layout.widths))
<1> DEFINE widths == layout.widths
           len == Len(widths)
           end == Ends(widths)
           buf == Buffers(args, layout)
           S == { k \in 0..len : Encodes(buf[k], args, layout, k) }
<1>1. len \in Nat /\ \A k \in 1..len : widths[k] \in Nat /\ args[k] \in Nat
  OBVIOUS
<1>2. /\ buf[0] = <<layout.tag>>
      /\ \A k \in 1..len : buf[k] = buf[k - 1] \o ToLeBytes(args[k], widths[k])
  BY BuffersAre
<1>3. /\ end \in [0..len -> Nat \ {0}] /\ end[0] = 1
      /\ \A k \in 1..len : end[k] = end[k - 1] + widths[k]
  BY EndsAre
<1>4. \A k \in 0..len : \A j \in 0..k : end[j] <= end[k]
  BY EndsRise
<1> HIDE DEF buf, end, widths, len
<1>5. 0 \in S
  <2>1. buf[0] \in Seq(Nat) /\ Len(buf[0]) = 1 /\ buf[0][1] = layout.tag
    BY <1>2
  <2>2. 0 \in 0..len /\ 1..0 = {}
    BY <1>1
  <2>3. Encodes(buf[0], args, layout, 0)
    BY <1>3, <2>1, <2>2 DEF Encodes, end, widths
  <2> QED
    BY <2>2, <2>3
<1>6. ASSUME NEW k \in 1..len, k - 1 \in S PROVE k \in S
  <2> DEFINE old == buf[k - 1]
             field == ToLeBytes(args[k], widths[k])
             new == old \o field
  <2>1. /\ old \in Seq(Nat) /\ Len(old) = end[k - 1] /\ old[1] = layout.tag
        /\ \A j \in 1..(k - 1) : \A i \in 1..widths[j] :
             old[end[j - 1] + i] = ToLeBytes(args[j], widths[j])[i]
    BY <1>6 DEF Encodes, end, widths
  <2>2. field \in Seq(Nat) /\ Len(field) = widths[k]
    BY <1>1, ToLeBytesIs
  <2>3. buf[k] = new
    BY <1>2
  <2> HIDE DEF old, field
  <2>4. /\ new \in Seq(Nat) /\ Len(new) = Len(old) + Len(field)
        /\ \A i \in 1..(Len(old) + Len(field)) :
             new[i] = IF i <= Len(old) THEN old[i] ELSE field[i - Len(old)]
    BY <2>1, <2>2, ConcatProperties
  <2> HIDE DEF new
  <2>5. /\ k - 1 \in 0..len /\ end[k - 1] \in Nat \ {0}
        /\ end[k] = end[k - 1] + widths[k] /\ widths[k] \in Nat
    BY <1>1, <1>3
  <2>6. Len(new) = end[k] /\ new[1] = layout.tag
    BY <2>1, <2>2, <2>4, <2>5
  <2>7. ASSUME NEW j \in 1..k, NEW i \in 1..widths[j]
        PROVE  new[end[j - 1] + i] = ToLeBytes(args[j], widths[j])[i]
    <3>1. CASE j = k
      <4>1. /\ end[j - 1] + i \in 1..(Len(old) + Len(field)) /\ ~(end[j - 1] + i <= Len(old))
            /\ (end[j - 1] + i) - Len(old) = i
        <5>1. end[j - 1] = Len(old) /\ Len(old) \in Nat /\ widths[j] = Len(field)
          BY <2>1, <2>2, <2>5, <3>1
        <5>2. i \in 1..Len(field) /\ Len(field) \in Nat
          BY <2>2, <5>1
        <5> QED
          BY <5>1, <5>2, BehindField
      <4> QED
        BY <2>4, <3>1, <4>1 DEF field
    <3>2. CASE j # k
      <4>1. j \in 1..(k - 1) /\ j \in 1..len /\ j - 1 \in 0..len /\ j \in 0..(k - 1)
        BY <1>1, <3>2
      <4>2. end[j] <= end[k - 1]
        BY <1>4, <2>5, <4>1
      <4>3. end[j] = end[j - 1] + widths[j] /\ end[j - 1] \in Nat /\ widths[j] \in Nat
        BY <1>1, <1>3, <4>1
      <4>4. end[j - 1] + i \in 1..(Len(old) + Len(field)) /\ end[j - 1] + i <= Len(old)
        <5>1. /\ end[j - 1] + widths[j] <= Len(old) /\ Len(old) \in Nat /\ Len(field) \in Nat
          BY <2>1, <2>2, <2>5, <4>2, <4>3
        <5> QED
          BY <4>3, <5>1, InField
      <4>5. new[end[j - 1] + i] = old[end[j - 1] + i]
        BY <2>4, <4>4
      <4>6. old[end[j - 1] + i] = ToLeBytes(args[j], widths[j])[i]
        BY <2>1, <4>1
      <4> QED
        BY <4>5, <4>6
    <3> QED
      BY <3>1, <3>2
  <2>8. Encodes(new, args, layout, k)
    BY <2>4, <2>6, <2>7 DEF Encodes, end, widths
  <2> QED
    BY <2>3, <2>8
<1>7. \A k \in 0..len : k \in S
  <2> HIDE DEF S
  <2> QED
    BY <1>1, <1>5, <1>6, IntervalInduction
<1> QED
  BY <1>1, <1>7 DEF buf, len, widths
-------------------------------------------------------------------------------
(* unpack expects the tags and widths that pack writes.                     *)
LEMMA LayoutsAgree == UnpackLayout = PackLayout
BY DEF PackLayout, UnpackLayout

(* No two instructions share a tag.                                         *)
LEMMA LayoutFacts ==
  ASSUME NEW op \in DOMAIN PackLayout
  PROVE  /\ PackLayout[op].tag \in Nat /\ PackLayout[op].widths \in Seq(Nat)
         /\ op \notin Unencoded
         /\ \A o \in DOMAIN PackLayout : PackLayout[o].tag = PackLayout[op].tag => o = op
<1>1. Width \in Nat
  BY EncodingAssumption
<1>2. DOMAIN PackLayout = {"initialize2", "deposit", "withdraw", "swap_base_in", "swap_base_out"}
  BY DEF PackLayout
<1>3. /\ PackLayout["initialize2"].widths = <<1, Width, Width, Width>> /\ PackLayout["initialize2"].tag = 1
      /\ PackLayout["deposit"].widths = <<Width, Width, Width>> /\ PackLayout["deposit"].tag = 3
      /\ PackLayout["withdraw"].widths = <<Width>> /\ PackLayout["withdraw"].tag = 4
      /\ PackLayout["swap_base_in"].widths = <<Width, Width>> /\ PackLayout["swap_base_in"].tag = 9
      /\ PackLayout["swap_base_out"].widths = <<Width, Width>> /\ PackLayout["swap_base_out"].tag = 11
  BY DEF PackLayout
<1>4. /\ <<1, Width, Width, Width>> \in Seq(Nat) /\ <<Width, Width, Width>> \in Seq(Nat)
      /\ <<Width>> \in Seq(Nat) /\ <<Width, Width>> \in Seq(Nat)
  BY <1>1
<1>5. PackLayout[op].widths \in Seq(Nat)
  BY <1>2, <1>3, <1>4
<1>6. PackLayout[op].tag \in Nat /\ \A o \in DOMAIN PackLayout : PackLayout[o].tag = PackLayout[op].tag => o = op
  BY <1>2, <1>3
<1>7. op \notin Unencoded
  BY <1>2 DEF Unencoded
<1> QED
  BY <1>5, <1>6, <1>7

(* An instruction whose fields fit the bytes they are given.                *)
IsInstruction(ix) ==
  \E op \in DOMAIN PackLayout : \E args \in [1..Len(PackLayout[op].widths) -> Nat] :
    /\ ix = [op |-> op, args |-> args]
    /\ \A k \in 1..Len(PackLayout[op].widths) :
         HighPart(args[k], PackLayout[op].widths[k])[PackLayout[op].widths[k]] = 0

LEMMA PartIs ==
  ASSUME NEW s, NEW m \in Int, NEW n \in Int, \A i \in m..n : s[i] \in Nat
  PROVE  /\ SubSeq(s, m, n) \in Seq(Nat)
         /\ Len(SubSeq(s, m, n)) = IF m <= n THEN n - m + 1 ELSE 0
         /\ \A i \in 1..(n - m + 1) : SubSeq(s, m, n)[i] = s[m + i - 1]
BY SubSeqProperties

(* A part of a buffer that agrees with a field is that field.               *)
LEMMA PartOf ==
  ASSUME NEW buf, NEW field \in Seq(Nat), NEW a \in Nat, NEW b,
         b = a + Len(field), \A i \in 1..Len(field) : buf[a + i] = field[i]
  PROVE  SubSeq(buf, a + 1, b) = field
<1> DEFINE len == Len(field)
           m == a + 1
           part == SubSeq(buf, m, b)
<1>1. len \in Nat /\ \A i \in 1..len : field[i] \in Nat /\ buf[a + i] = field[i]
  OBVIOUS
<1>2. m \in Int /\ b \in Int /\ b = a + len /\ m = a + 1
  BY <1>1
<1> HIDE DEF len, m
<1>3. \A i \in m..b : buf[i] \in Nat
  <2> TAKE i \in m..b
  <2>1. i - a \in 1..len /\ a + (i - a) = i
    BY <1>1, <1>2
  <2> QED
    BY <1>1, <2>1
<1>4. /\ part \in Seq(Nat) /\ Len(part) = IF m <= b THEN b - m + 1 ELSE 0
      /\ \A i \in 1..(b - m + 1) : part[i] = buf[m + i - 1]
  BY <1>2, <1>3, PartIs
<1> HIDE DEF part
<1>5. Len(part) = len /\ b - m + 1 = len
  BY <1>1, <1>2, <1>4
<1>6. ASSUME NEW i \in 1..len PROVE part[i] = field[i]
  <2>1. m + i - 1 = a + i
    BY <1>1, <1>2
  <2> QED
    BY <1>1, <1>4, <1>5, <2>1
<1>7. part = field
  BY <1>4, <1>5, <1>6, SeqEqual DEF len
<1> QED
  BY <1>7 DEF part, m

(* unpack finds every field where pack left it, whatever follows.           *)
LEMMA FieldsAre ==
  ASSUME NEW layout, layout.tag \in Nat, layout.widths \in Seq(Nat),
         NEW args \in [1..Len(layout.widths) -> Nat],
         \A k \in 1..Len(layout.widths) :
           HighPart(args[k], layout.widths[k])[layout.widths[k]] = 0,
         NEW data, Encodes(data, args, layout, Len(layout.widths)),
         NEW more \in Seq(Nat)
  PROVE  Fields(data \o more, layout.widths) = args
<1> DEFINE widths == layout.widths
           len == Len(widths)
           end == Ends(widths)
           buf == data \o more
<1>1. len \in Nat /\ \A k \in 1..len : widths[k] \in Nat /\ args[k] \in Nat
  OBVIOUS
<1>2. /\ end \in [0..len -> Nat \ {0}]
      /\ \A k \in 1..len : end[k] = end[k - 1] + widths[k]
  BY EndsAre
<1>3. \A j \in 0..len : end[j] <= end[len]
  <2>1. len \in 0..Len(widths)
    BY <1>1
  <2> HIDE DEF len, widths
  <2>2. widths \in Seq(Nat)
    BY DEF widths
  <2> QED
    BY <2>1, <2>2, EndsRise
<1>4. /\ data \in Seq(Nat) /\ Len(data) = end[len]
      /\ \A j \in 1..len : \A i \in 1..widths[j] :
           data[end[j - 1] + i] = ToLeBytes(args[j], widths[j])[i]
  BY DEF Encodes
<1>5. /\ buf \in Seq(Nat)
      /\ \A i \in 1..(Len(data) + Len(more)) :
           buf[i] = IF i <= Len(data) THEN data[i] ELSE more[i - Len(data)]
  BY <1>4, ConcatProperties
<1>6. Len(data) \in Nat /\ Len(more) \in Nat
  BY <1>4
<1>7. \A k \in 1..len : HighPart(args[k], widths[k])[widths[k]] = 0
  OBVIOUS
<1>8. Fields(buf, widths) = [k \in 1..len |-> FromLeBytes(SubSeq(buf, end[k - 1] + 1, end[k]))]
  BY DEF Fields
<1>9. args = [k \in 1..len |-> args[k]]
  OBVIOUS
<1> HIDE DEF widths, len, end, buf
<1>10. ASSUME NEW k \in 1..len
       PROVE  FromLeBytes(SubSeq(buf, end[k - 1] + 1, end[k])) = args[k]
  <2> DEFINE field == ToLeBytes(args[k], widths[k])
  <2>1. k \in 0..len /\ k - 1 \in 0..len /\ widths[k] \in Nat /\ args[k] \in Nat
    BY <1>1
  <2>2. /\ end[k - 1] \in Nat /\ end[k] = end[k - 1] + widths[k]
        /\ end[k - 1] + widths[k] <= Len(data)
    BY <1>2, <1>3, <1>4, <2>1
  <2>3. field \in Seq(Nat) /\ Len(field) = widths[k]
    BY <2>1, ToLeBytesIs
  <2>4. ASSUME NEW i \in 1..widths[k] PROVE buf[end[k - 1] + i] = field[i]
    <3>1. end[k - 1] + i \in 1..(Len(data) + Len(more)) /\ end[k - 1] + i <= Len(data)
      BY <1>6, <2>1, <2>2, InField
    <3>2. buf[end[k - 1] + i] = data[end[k - 1] + i]
      BY <1>5, <3>1
    <3>3. data[end[k - 1] + i] = field[i]
      BY <1>4
    <3> QED
      BY <3>2, <3>3
  <2> HIDE DEF field
  <2>5. SubSeq(buf, end[k - 1] + 1, end[k]) = field
    <3> DEFINE a == end[k - 1]
               b == end[k]
    <3>1. a \in Nat /\ b = a + Len(field) /\ \A i \in 1..Len(field) : buf[a + i] = field[i]
      BY <2>2, <2>3, <2>4
    <3> HIDE DEF a, b
    <3>2. SubSeq(buf, a + 1, b) = field
      BY <2>3, <3>1, PartOf
    <3> QED
      BY <3>2 DEF a, b
  <2>6. FromLeBytes(field) = args[k]
    BY <1>7, <2>1, BytesRoundTrip DEF field
  <2> QED
    BY <2>5, <2>6
<1> QED
  BY <1>8, <1>9, <1>10 DEF buf, widths

(* The AMM reads an instruction back from its encoding, whatever follows.   *)
THEOREM EncodingRoundTrip ==
  ASSUME NEW ix, IsInstruction(ix), NEW more \in Seq(Nat)
  PROVE  Unpack(Pack(ix) \o more) = {ix}
<1>1. PICK op \in DOMAIN PackLayout : \E args \in [1..Len(PackLayout[op].widths) -> Nat] :
        /\ ix = [op |-> op, args |-> args]
        /\ \A k \in 1..Len(PackLayout[op].widths) :
             HighPart(args[k], PackLayout[op].widths[k])[PackLayout[op].widths[k]] = 0
  BY DEF IsInstruction
<1>0. PICK args \in [1..Len(PackLayout[op].widths) -> Nat] :
        /\ ix = [op |-> op, args |-> args]
        /\ \A k \in 1..Len(PackLayout[op].widths) :
             HighPart(args[k], PackLayout[op].widths[k])[PackLayout[op].widths[k]] = 0
  BY <1>1
<1> DEFINE layout == PackLayout[op]
           len == Len(layout.widths)
           data == Buffers(args, layout)[len]
           buf == data \o more
<1>2. /\ layout.tag \in Nat /\ layout.widths \in Seq(Nat) /\ op \notin Unencoded
      /\ \A o \in DOMAIN PackLayout : PackLayout[o].tag = layout.tag => o = op
  BY LayoutFacts
<1>3. Pack(ix) = data
  BY <1>0, <1>2 DEF Pack
<1>4. Encodes(data, args, layout, len)
  <2> HIDE DEF layout
  <2> QED
    BY <1>0, <1>2, BuffersEncode DEF layout
<1>5. Fields(buf, layout.widths) = args
  BY <1>0, <1>2, <1>4, FieldsAre
<1>6. /\ data \in Seq(Nat) /\ data[1] = layout.tag /\ Len(data) = Ends(layout.widths)[len]
      /\ Len(data) \in Nat \ {0}
  <2>1. Ends(layout.widths)[len] \in Nat \ {0}
    <3>1. len \in 0..len
      BY <1>2
    <3>2. Ends(layout.widths) \in [0..len -> Nat \ {0}]
      BY <1>2, EndsAre
    <3> QED
      BY <3>1, <3>2
  <2> QED
    BY <1>4, <2>1 DEF Encodes
<1> HIDE DEF data
<1>7. /\ buf \in Seq(Nat) /\ Len(buf) >= Ends(layout.widths)[len] /\ buf # <<>>
      /\ Head(buf) = layout.tag
  <2>1. /\ buf \in Seq(Nat) /\ Len(buf) = Len(data) + Len(more) /\ buf[1] = data[1]
    BY <1>6, ConcatProperties
  <2>2. Len(more) \in Nat
    OBVIOUS
  <2> HIDE DEF buf
  <2>3. Head(buf) = buf[1]
    BY <1>6, <2>1, <2>2
  <2> QED
    BY <1>6, <2>1, <2>2, <2>3
<1> HIDE DEF buf, layout
<1>8. { o \in DOMAIN PackLayout :
          /\ buf # <<>> /\ Head(buf) = PackLayout[o].tag
          /\ Len(buf) >= Ends(PackLayout[o].widths)[Len(PackLayout[o].widths)] } = {op}
  BY <1>2, <1>7 DEF layout
<1>9. Unpack(buf) = { [op |-> o, args |-> Fields(buf, PackLayout[o].widths)] : o \in {op} }
  BY <1>8, LayoutsAgree DEF Unpack
<1>10. Unpack(buf) = {[op |-> op, args |-> args]}
  BY <1>5, <1>9 DEF layout
<1> QED
  BY <1>0, <1>3, <1>10 DEF buf

(* An encoding is a sequence of bytes.                                      *)
LEMMA PackIsSeq ==
  ASSUME NEW ix, IsInstruction(ix)
  PROVE  Pack(ix) \in Seq(Nat)
<1>1. PICK op \in DOMAIN PackLayout : \E args \in [1..Len(PackLayout[op].widths) -> Nat] :
        ix = [op |-> op, args |-> args]
  BY DEF IsInstruction
<1>2. PICK args \in [1..Len(PackLayout[op].widths) -> Nat] : ix = [op |-> op, args |-> args]
  BY <1>1
<1> DEFINE layout == PackLayout[op]
<1>3. /\ layout.tag \in Nat /\ layout.widths \in Seq(Nat) /\ op \notin Unencoded
  BY LayoutFacts
<1>4. Pack(ix) = Buffers(args, layout)[Len(layout.widths)]
  BY <1>2, <1>3 DEF Pack
<1> HIDE DEF layout
<1>5. args \in [1..Len(layout.widths) -> Nat]
  BY DEF layout
<1>6. Encodes(Pack(ix), args, layout, Len(layout.widths))
  BY <1>3, <1>4, <1>5, BuffersEncode
<1> QED
  BY <1>6 DEF Encodes

(* It reads nothing from an encoding cut short.                             *)
LEMMA CutEncoding ==
  ASSUME NEW ix, IsInstruction(ix), NEW n \in 0..(Len(Pack(ix)) - 1)
  PROVE  Unpack(SubSeq(Pack(ix), 1, n)) = {}
<1>1. PICK op \in DOMAIN PackLayout : \E args \in [1..Len(PackLayout[op].widths) -> Nat] :
        ix = [op |-> op, args |-> args]
  BY DEF IsInstruction
<1>0. PICK args \in [1..Len(PackLayout[op].widths) -> Nat] : ix = [op |-> op, args |-> args]
  BY <1>1
<1> DEFINE layout == PackLayout[op]
           len == Len(layout.widths)
           data == Pack(ix)
           buf == SubSeq(data, 1, n)
<1>2. /\ layout.tag \in Nat /\ layout.widths \in Seq(Nat) /\ op \notin Unencoded
      /\ \A o \in DOMAIN PackLayout : PackLayout[o].tag = layout.tag => o = op
  BY LayoutFacts
<1>3. data = Buffers(args, layout)[len]
  BY <1>0, <1>2 DEF Pack
<1>4. Encodes(data, args, layout, len)
  <2> HIDE DEF layout, data
  <2> QED
    BY <1>0, <1>2, <1>3, BuffersEncode DEF layout
<1>5. data \in Seq(Nat) /\ data[1] = layout.tag /\ Len(data) = Ends(layout.widths)[len]
  BY <1>4 DEF Encodes
<1>6. n \in Nat /\ n < Len(data)
  BY <1>5
<1> HIDE DEF data
<1>7. /\ buf \in Seq(Nat) /\ Len(buf) = n
      /\ n > 0 => buf[1] = data[1]
  <2>1. \A i \in 1..n : data[i] \in Nat
    BY <1>5, <1>6
  <2>2. /\ buf \in Seq(Nat) /\ Len(buf) = (IF 1 <= n THEN n - 1 + 1 ELSE 0)
        /\ \A i \in 1..(n - 1 + 1) : buf[i] = data[1 + i - 1]
    BY <1>6, <2>1, SubSeqProperties
  <2> HIDE DEF buf
  <2> QED
    BY <1>6, <2>2
<1> HIDE DEF buf, layout
<1>8. ASSUME NEW o \in DOMAIN PackLayout, buf # <<>>, Head(buf) = PackLayout[o].tag,
             Len(buf) >= Ends(PackLayout[o].widths)[Len(PackLayout[o].widths)]
      PROVE  FALSE
  <2>1. n > 0 /\ Head(buf) = buf[1]
    BY <1>6, <1>7, <1>8
  <2>2. o = op
    BY <1>2, <1>5, <1>7, <1>8, <2>1
  <2> QED
    BY <1>5, <1>6, <1>7, <1>8, <2>2 DEF layout
<1> QED
  BY <1>8, LayoutsAgree DEF Unpack, buf, data

-------------------------------------------------------------------------------
(* The AMM was sent nothing, or the encoding of what was meant.             *)
CallEncoded ==
  call # NoCall => IsInstruction(call.meant) /\ call.data = Pack(call.meant)

(* Instructions made of u64s and nonces are instructions whose fields fit.  *)
LEMMA FieldsFit ==
  ASSUME NEW op \in DOMAIN PackLayout, NEW args \in [1..Len(PackLayout[op].widths) -> Nat],
         \A k \in 1..Len(PackLayout[op].widths) :
           \/ PackLayout[op].widths[k] = Width /\ args[k] \in U64
           \/ PackLayout[op].widths[k] = 1 /\ args[k] \in Nonces
  PROVE  IsInstruction([op |-> op, args |-> args])
<1>1. \A k \in 1..Len(PackLayout[op].widths) :
        HighPart(args[k], PackLayout[op].widths[k])[PackLayout[op].widths[k]] = 0
  BY U64Fits, NonceFits
<1> QED
  BY <1>1 DEF IsInstruction

LEMMA Initialize2Fits ==
  ASSUME NEW nonce \in Nonces, NEW a \in U64, NEW b \in U64, NEW c \in U64
  PROVE  IsInstruction([op |-> "initialize2", args |-> <<nonce, a, b, c>>])
<1> DEFINE args == <<nonce, a, b, c>>
           widths == PackLayout["initialize2"].widths
<1>1. "initialize2" \in DOMAIN PackLayout /\ widths = <<1, Width, Width, Width>>
  BY DEF PackLayout
<1>2. nonce \in Nat /\ a \in Nat /\ b \in Nat /\ c \in Nat
  BY NonceFits, U64Nat
<1>3. Len(widths) = 4 /\ args \in [1..4 -> Nat]
  BY <1>1, <1>2
<1>4. ASSUME NEW k \in 1..4
      PROVE  \/ widths[k] = Width /\ args[k] \in U64
             \/ widths[k] = 1 /\ args[k] \in Nonces
  <2>1. k = 1 \/ k = 2 \/ k = 3 \/ k = 4
    OBVIOUS
  <2> QED
    BY <1>1, <2>1
<1> HIDE DEF args
<1>5. IsInstruction([op |-> "initialize2", args |-> args])
  BY <1>1, <1>3, <1>4, FieldsFit
<1> QED
  BY <1>5 DEF args

(* So are those of the other builders.                                      *)
LEMMA NumbersFit ==
  ASSUME NEW op \in DOMAIN PackLayout, NEW args \in [1..Len(PackLayout[op].widths) -> Numbers],
         \A k \in 1..Len(PackLayout[op].widths) : PackLayout[op].widths[k] = Width
  PROVE  IsInstruction([op |-> op, args |-> args])
<1>1. \A k \in 1..Len(PackLayout[op].widths) : args[k] \in U64
  BY CallAssumption
<1>2. args \in [1..Len(PackLayout[op].widths) -> Nat]
  BY <1>1, U64Nat
<1> QED
  BY <1>1, <1>2, FieldsFit

LEMMA BuildersFit ==
  ASSUME NEW a \in Numbers, NEW b \in Numbers, NEW c \in Numbers
  PROVE  /\ IsInstruction([op |-> "deposit", args |-> <<a, b, c>>])
         /\ IsInstruction([op |-> "withdraw", args |-> <<a>>])
         /\ IsInstruction([op |-> "swap_base_in", args |-> <<a, b>>])
         /\ IsInstruction([op |-> "swap_base_out", args |-> <<a, b>>])
<1>1. /\ {"deposit", "withdraw", "swap_base_in", "swap_base_out"} \subseteq DOMAIN PackLayout
      /\ PackLayout["deposit"].widths = <<Width, Width, Width>>
      /\ PackLayout["withdraw"].widths = <<Width>>
      /\ PackLayout["swap_base_in"].widths = <<Width, Width>>
      /\ PackLayout["swap_base_out"].widths = <<Width, Width>>
  BY DEF PackLayout
<1>2. /\ Len(<<Width, Width, Width>>) = 3 /\ <<a, b, c>> \in [1..3 -> Numbers]
      /\ \A k \in 1..3 : <<Width, Width, Width>>[k] = Width
  OBVIOUS
<1>3. /\ Len(<<Width>>) = 1 /\ <<a>> \in [1..1 -> Numbers]
      /\ \A k \in 1..1 : <<Width>>[k] = Width
  OBVIOUS
<1>4. /\ Len(<<Width, Width>>) = 2 /\ <<a, b>> \in [1..2 -> Numbers]
      /\ \A k \in 1..2 : <<Width, Width>>[k] = Width
  OBVIOUS
<1> DEFINE three == <<a, b, c>>
           one == <<a>>
           two == <<a, b>>
<1>5. /\ three \in [1..Len(PackLayout["deposit"].widths) -> Numbers]
      /\ \A k \in 1..Len(PackLayout["deposit"].widths) : PackLayout["deposit"].widths[k] = Width
  BY <1>1, <1>2
<1>6. /\ one \in [1..Len(PackLayout["withdraw"].widths) -> Numbers]
      /\ \A k \in 1..Len(PackLayout["withdraw"].widths) : PackLayout["withdraw"].widths[k] = Width
  BY <1>1, <1>3
<1>7. \A op \in {"swap_base_in", "swap_base_out"} :
        /\ two \in [1..Len(PackLayout[op].widths) -> Numbers]
        /\ \A k \in 1..Len(PackLayout[op].widths) : PackLayout[op].widths[k] = Width
  BY <1>1, <1>4
<1> HIDE DEF one, two, three
<1>8. IsInstruction([op |-> "deposit", args |-> three])
  BY <1>1, <1>5, NumbersFit
<1>9. IsInstruction([op |-> "withdraw", args |-> one])
  BY <1>1, <1>6, NumbersFit
<1>10. \A op \in {"swap_base_in", "swap_base_out"} : IsInstruction([op |-> op, args |-> two])
  BY <1>1, <1>7, NumbersFit
<1> QED
  BY <1>8, <1>9, <1>10 DEF one, two, three

(* What a migration asks of the AMM are u64s: the pc comes out of the       *)
(* reserve of lamports, the coin out of the reserve of tokens.              *)
LEMMA MigrateEncodes ==
  ASSUME LaunchTypeOK, NEW cfg \in Configs, NEW nonce \in Nonces, NEW time \in Numbers,
         Migrate(cfg, nonce, time)
  PROVE  CallEncoded'
<1> DEFINE fee  == (launch.reserve_lamport \div FeeUnit) * cfg.platform_migration_fee
           pc   == InitPcAmount(launch, fee)
           coin == (pc * launch.reserve_token) \div launch.reserve_lamport
           ix == [op |-> "initialize2", args |-> <<nonce, time, pc, coin>>]
<1>1. fee \in Nat
  <2>1. launch.reserve_lamport \div FeeUnit \in Nat
    BY LaunchFields, FeeAssumption
  <2>2. cfg.platform_migration_fee \in Nat
    BY ConfigAssumption
  <2> QED
    BY <2>1, <2>2
<1> HIDE DEF fee
<1>2. pc = launch.reserve_lamport - fee - launch.init_lamport - MigrationCost
  BY DEF InitPcAmount
<1>3. pc \in Int /\ pc <= launch.reserve_lamport
  BY <1>1, <1>2, LaunchFields, FeeAssumption
<1> HIDE DEF pc
<1>4. launch.reserve_lamport > 0 /\ pc >= 0 /\ launch.reserve_token - coin >= 0
  BY DEF Migrate, fee, pc
<1>5. pc \in U64
  BY <1>3, <1>4, LaunchFields, MaxU64Assumption DEF U64
<1>6. coin \in Nat
  <2>1. pc * launch.reserve_token \in Nat /\ launch.reserve_lamport \in Nat \ {0}
    BY <1>3, <1>4, LaunchFields
  <2> QED
    BY <2>1, DivMod
<1> HIDE DEF coin
<1>7. coin \in U64
  BY <1>4, <1>6, LaunchFields, MaxU64Assumption DEF U64
<1>8. IsInstruction(ix)
  BY <1>5, <1>7, Initialize2Fits, CallAssumption
<1>9. call' = [meant |-> ix, data |-> Pack(ix)]
  BY DEF Migrate, Initialize2, fee, pc, coin
<1> HIDE DEF ix
<1> QED
  BY <1>8, <1>9 DEF CallEncoded

(* No step sends the AMM anything but an encoding.                          *)
LEMMA CallEncodedStep ==
  ASSUME LaunchTypeOK, CallEncoded, [Next]_vars
  PROVE  CallEncoded'
<1>1. ASSUME NEW ix, IsInstruction(ix), Built(ix) PROVE CallEncoded'
  BY <1>1 DEF Built, CallEncoded
<1>2. ASSUME call' = call PROVE CallEncoded'
  BY <1>2 DEF CallEncoded
<1>3. CASE UNCHANGED vars
  BY <1>2, <1>3 DEF vars
<1>4. ASSUME NEW cfg \in Configs, NEW a \in Amounts,
             SellTokens(cfg, a) \/ BuyTokens(cfg, a) \/ Snipe(cfg, a)
      PROVE  CallEncoded'
  <2>1. call' = call
    BY <1>4 DEF SellTokens, BuyTokens, Snipe, Issue
  <2> QED
    BY <1>2, <2>1
<1>5. ASSUME NEW cfg \in Configs, NEW n \in Nonces, NEW time \in Numbers, Migrate(cfg, n, time)
      PROVE  CallEncoded'
  BY <1>5, MigrateEncodes
<1>6. ASSUME NEW a \in Numbers, NEW b \in Numbers, NEW c \in Numbers,
             Withdraw(a) \/ SwapBaseIn(a, b) \/ SwapBaseOut(a, b) \/ Deposit(a, b, c)
      PROVE  CallEncoded'
  BY <1>1, <1>6, BuildersFit DEF Withdraw, SwapBaseIn, SwapBaseOut, Deposit
<1>7. CASE Next
  BY <1>4, <1>5, <1>6, <1>7 DEF Next
<1> QED
  BY <1>3, <1>7

(* The AMM reads from every buffer the instruction that was meant, whatever *)
(* follows it, and nothing from a buffer cut short.                         *)
THEOREM CallDecodesCorrect == Spec => []CallDecodes
<1>1. Init => CallEncoded
  BY DEF Init, CallEncoded
<1>2. LaunchTypeOK /\ CallEncoded /\ [Next]_vars => CallEncoded'
  BY CallEncodedStep
<1>3. CallEncoded => CallDecodes
  <2> SUFFICES ASSUME CallEncoded, call # NoCall
               PROVE  /\ Unpack(call.data) = {call.meant}
                      /\ Unpack(call.data \o <<0>>) = {call.meant}
                      /\ \A n \in 0..(Len(call.data) - 1) : Unpack(SubSeq(call.data, 1, n)) = {}
    BY DEF CallDecodes
  <2> DEFINE ix == call.meant
             none == <<>>
             zero == <<0>>
  <2>1. IsInstruction(ix) /\ call.data = Pack(ix)
    BY DEF CallEncoded
  <2>2. none \in Seq(Nat) /\ zero \in Seq(Nat)
    OBVIOUS
  <2> HIDE DEF ix, none, zero
  <2>3. Pack(ix) \in Seq(Nat)
    BY <2>1, PackIsSeq
  <2>4. Unpack(Pack(ix) \o none) = {ix} /\ Unpack(Pack(ix) \o zero) = {ix}
    BY <2>1, <2>2, EncodingRoundTrip
  <2>5. Pack(ix) \o none = Pack(ix)
    BY <2>3, ConcatEmptySeq DEF none
  <2>6. \A n \in 0..(Len(Pack(ix)) - 1) : Unpack(SubSeq(Pack(ix), 1, n)) = {}
    BY <2>1, CutEncoding
  <2> QED
    BY <2>1, <2>4, <2>5, <2>6 DEF ix, zero
<1> QED
  BY <1>1, <1>2, <1>3, LaunchTypeCorrect, PTL DEF Spec
===============================================================================
