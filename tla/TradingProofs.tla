------------------------------ MODULE TradingProofs ------------------------------
(***************************************************************************)
(* What traders, listeners and the administrator may rely on, for all      *)
(* wallets, mints, configurations and amounts.  Where a theorem needs more *)
(* than the code guarantees, its hypothesis names what, and a run shows    *)
(* the property violated without it.                                       *)
(***************************************************************************)
EXTENDS LedgerProofs, PumpfunVolume

(* What a trade does to the curve it trades on.                             *)
LEMMA SoldCurve ==
  ASSUME TypeOK, NEW w \in Wallets, NEW m \in Mints, NEW a \in Nat, NEW adjusted \in U64, NEW out \in U64,
         Sold(w, m, a, adjusted, out)
  PROVE  /\ curve[m].reserve_token \in U64 /\ curve[m].reserve_lamport \in U64
         /\ adjusted <= a /\ out <= curve[m].reserve_lamport
         /\ adjusted \in Nat /\ out \in Nat
         /\ out \in AmountOut(curve[m].reserve_token, curve[m].reserve_lamport, adjusted)
         /\ curve'[m].init_lamport = curve[m].init_lamport
         /\ curve'[m].is_completed <=> curve'[m].reserve_lamport >= config.curve_limit
<1> DEFINE after == UpdateReserves(curve[m], config, curve[m].reserve_token + a,
                                   curve[m].reserve_lamport - out)
<1>1. curve[m] \in CurveType /\ curve'[m] = after
  BY DEF Sold, TypeOK
<1>2. /\ after.init_lamport = curve[m].init_lamport
      /\ after.reserve_token = curve[m].reserve_token + a
      /\ after.reserve_lamport = curve[m].reserve_lamport - out
      /\ after.is_completed
           <=> (curve[m].is_completed \/ curve[m].reserve_lamport - out >= config.curve_limit)
  BY <1>1 DEF Sold, UpdateReserves, CurveType
<1> HIDE DEF after
<1>3. curve'[m].is_completed <=> curve'[m].reserve_lamport >= config.curve_limit
  BY <1>1, <1>2, Zenon DEF Sold
<1>4. a \in Nat /\ adjusted <= a /\ curve[m].reserve_lamport - out \in Nat
  <2>1. a \in Nat \ {0} /\ adjusted <= a /\ curve[m].reserve_lamport - out \in U64
    BY DEF Sold
  <2> QED
    BY <2>1, U64Nat
<1>5. adjusted \in Nat /\ out \in Nat /\ curve[m].reserve_token \in U64
      /\ curve[m].reserve_lamport \in U64 /\ curve[m].reserve_lamport \in Nat
  BY <1>1, CurveFields, U64Nat
<1>6. out \in AmountOut(curve[m].reserve_token, curve[m].reserve_lamport, adjusted)
  <2> DEFINE q == [adjusted |-> adjusted, out |-> out]
  <2>1. q \in CalAmountOut(curve[m], a, Sell, config) /\ q.adjusted = adjusted /\ q.out = out
    BY DEF Sold
  <2> HIDE DEF q
  <2>2. out \in AmountOut(ReserveIn(curve[m], Sell), ReserveOut(curve[m], Sell), adjusted)
    BY <2>1, Priced
  <2> QED
    BY <2>2 DEF ReserveIn, ReserveOut
<1> QED
  BY <1>1, <1>2, <1>3, <1>4, <1>5, <1>6

LEMMA SoldReserves ==
  ASSUME TypeOK, NEW w \in Wallets, NEW m \in Mints, NEW a \in Nat, NEW adjusted \in U64,
         NEW out \in U64, Sold(w, m, a, adjusted, out)
  PROVE  /\ curve'[m].reserve_token = curve[m].reserve_token + a
         /\ curve'[m].reserve_lamport = curve[m].reserve_lamport - out
BY DEF Sold, TypeOK, UpdateReserves, CurveType

LEMMA BoughtReserves ==
  ASSUME TypeOK, NEW w \in Wallets, NEW m \in Mints, NEW a \in Nat, NEW amount \in Nat,
         NEW adjusted \in U64, NEW out \in U64, Bought(w, m, a, amount, adjusted, out)
  PROVE  /\ curve'[m].reserve_token = curve[m].reserve_token - out
         /\ curve'[m].reserve_lamport = curve[m].reserve_lamport + amount
BY DEF Bought, TypeOK, UpdateReserves, CurveType

LEMMA BoughtCurve ==
  ASSUME TypeOK, NEW w \in Wallets, NEW m \in Mints, NEW a \in Nat, NEW amount \in Nat,
         NEW adjusted \in U64, NEW out \in U64, Bought(w, m, a, amount, adjusted, out)
  PROVE  /\ curve[m].reserve_token \in U64 /\ curve[m].reserve_lamport \in U64
         /\ adjusted <= amount /\ out <= curve[m].reserve_token
         /\ adjusted \in Nat /\ out \in Nat
         /\ out \in AmountOut(curve[m].reserve_lamport, curve[m].reserve_token, adjusted)
         /\ curve'[m].init_lamport = curve[m].init_lamport
         /\ curve'[m].is_completed <=> curve'[m].reserve_lamport >= config.curve_limit
<1> DEFINE after == UpdateReserves(curve[m], config, curve[m].reserve_token - out,
                                   curve[m].reserve_lamport + amount)
<1>1. curve[m] \in CurveType /\ curve'[m] = after
  BY DEF Bought, TypeOK
<1>2. /\ after.init_lamport = curve[m].init_lamport
      /\ after.reserve_token = curve[m].reserve_token - out
      /\ after.reserve_lamport = curve[m].reserve_lamport + amount
      /\ after.is_completed
           <=> (curve[m].is_completed \/ curve[m].reserve_lamport + amount >= config.curve_limit)
  BY <1>1 DEF Bought, UpdateReserves, CurveType
<1> HIDE DEF after
<1>3. curve'[m].is_completed <=> curve'[m].reserve_lamport >= config.curve_limit
  BY <1>1, <1>2, Zenon DEF Bought
<1>4. a \in Nat /\ adjusted <= amount /\ curve[m].reserve_token - out \in Nat
  <2>1. a \in Nat \ {0} /\ adjusted <= amount /\ curve[m].reserve_token - out \in U64
    BY DEF Bought
  <2> QED
    BY <2>1, U64Nat
<1>5. adjusted \in Nat /\ out \in Nat /\ curve[m].reserve_token \in U64
      /\ curve[m].reserve_lamport \in U64 /\ curve[m].reserve_token \in Nat
  BY <1>1, CurveFields, U64Nat
<1>6. out \in AmountOut(curve[m].reserve_lamport, curve[m].reserve_token, adjusted)
  <2> DEFINE q == [adjusted |-> adjusted, out |-> out]
  <2>1. q \in CalAmountOut(curve[m], amount, Buy, config) /\ q.adjusted = adjusted /\ q.out = out
    BY DEF Bought
  <2> HIDE DEF q
  <2>2. out \in AmountOut(ReserveIn(curve[m], Buy), ReserveOut(curve[m], Buy), adjusted)
    BY <2>1, Priced
  <2> QED
    BY <2>2 DEF ReserveIn, ReserveOut, Buy, Sell
<1> QED
  BY <1>1, <1>2, <1>3, <1>4, <1>5, <1>6

-------------------------------------------------------------------------------
(* Who reads the events: a swap event is the report of one sell or one buy, *)
(* a complete event of a buy that reached the limit.                        *)
LEMMA SwapEvents ==
  ASSUME TypeOK, Next, NEW e \in emitted', e.event = "swap"
  PROVE  \E w \in Wallets, m \in Mints, a \in Amounts, adjusted \in U64, out \in U64 :
           \/ Sold(w, m, a, adjusted, out) /\ e = SwapEvent(m, Sell, a, out)
           \/ \E amount \in Nat :
                Bought(w, m, a, amount, adjusted, out) /\ e = SwapEvent(m, Buy, a, out)
<1>1. CASE Administer
  BY <1>1 DEF Administer
<1>2. ASSUME NEW w \in Wallets, NEW team \in Wallets, NEW m \in Mints, NEW l \in Launches,
             Launch(w, team, m, l)
      PROVE  FALSE
  BY <1>2 DEF Launch
<1>3. ASSUME NEW w \in Wallets, NEW team \in Wallets, NEW m \in Mints, NEW a \in Amounts,
             NEW min \in Minimums, SellTokens(w, team, m, a, min)
      PROVE  \E adjusted \in U64, out \in U64 :
               Sold(w, m, a, adjusted, out) /\ e = SwapEvent(m, Sell, a, out)
  <2>1. PICK adjusted \in U64, out \in U64 : Sold(w, m, a, adjusted, out)
    BY <1>3, SellEffect, AmountAssumption
  <2> QED
    BY <2>1 DEF Sold
<1>4. ASSUME NEW w \in Wallets, NEW team \in Wallets, NEW m \in Mints, NEW a \in Amounts,
             NEW min \in Minimums, BuyTokens(w, team, m, a, min)
      PROVE  \E adjusted \in U64, out \in U64 : \E amount \in Nat :
               Bought(w, m, a, amount, adjusted, out) /\ e = SwapEvent(m, Buy, a, out)
  <2>1. PICK amount \in Nat, adjusted \in U64, out \in U64 : Bought(w, m, a, amount, adjusted, out)
    BY <1>4, BuyEffect, AmountAssumption
  <2>2. e = SwapEvent(m, Buy, a, out)
    BY <2>1 DEF Bought
  <2> QED
    BY <2>1, <2>2
<1>5. ASSUME NEW w \in Wallets, NEW m \in Mints,
             \/ Withdraw(w, m) \/ \E team \in Wallets : TransferFee(w, team, m)
             \/ \E g \in Gifts : GiftTokens(w, m, g)
      PROVE  FALSE
  BY <1>5 DEF Withdraw, TransferFee, GiftTokens
<1>6. ASSUME NEW w \in Wallets,
             \/ \E g \in Gifts : GiftLamports(w, g)
             \/ \E k \in Creators : AddWl(k) \/ RemoveWl(w, k)
      PROVE  FALSE
  BY <1>6 DEF GiftLamports, AddWl, RemoveWl
<1>7. ASSUME NEW k \in Creators, AddWl(k) PROVE FALSE
  BY <1>7 DEF AddWl
<1> QED
  BY <1>1, <1>2, <1>3, <1>4, <1>5, <1>6, <1>7 DEF Next

(* The fields of a swap event.                                              *)
LEMMA EventFields ==
  ASSUME NEW m, NEW direction, NEW a, NEW out
  PROVE  /\ SwapEvent(m, direction, a, out).event = "swap"
         /\ SwapEvent(m, direction, a, out).mint = m
         /\ SwapEvent(m, direction, a, out).direction = direction
         /\ SwapEvent(m, direction, a, out).amount_in = a
         /\ SwapEvent(m, direction, a, out).amount_out = out
BY DEF SwapEvent

(* What one step does to one mint, with the trades' own numbers.            *)
Traded(n) == \E w \in Wallets, a \in Nat, adjusted \in U64, out \in U64 :
  \/ Sold(w, n, a, adjusted, out)
  \/ \E amount \in Nat : Bought(w, n, a, amount, adjusted, out)

LEMMA MintTrades ==
  ASSUME TypeOK, [AnyNext]_vars, NEW n \in Mints
  PROVE  Rests(n) \/ Opens(n) \/ PaysOut(n) \/ Migrates(n) \/ Receives(n) \/ Traded(n)
<1> DEFINE Goal == Rests(n) \/ Opens(n) \/ PaysOut(n) \/ Migrates(n) \/ Receives(n) \/ Traded(n)
<1>1. CASE UNCHANGED vars
  BY <1>1 DEF vars, curveVars, books, Rests
<1>2. CASE Administer
  BY <1>2 DEF Administer, books, Rests
<1>3. ASSUME NEW w \in Wallets, NEW g \in Gifts, GiftLamports(w, g) PROVE Goal
  BY <1>3 DEF GiftLamports, books, Rests
<1>4. ASSUME NEW k \in Keys, AddWl(k) \/ \E w \in Wallets : RemoveWl(w, k) PROVE Goal
  BY <1>4 DEF AddWl, RemoveWl, books, Rests
<1>5. ASSUME NEW w \in Wallets, NEW team \in Wallets, NEW m \in Mints, NEW a \in Nat, NEW min \in Nat,
             SellTokens(w, team, m, a, min)
      PROVE  Goal
  <2>1. CASE n = m
    <3>1. PICK adjusted \in U64, out \in U64 : Sold(w, m, a, adjusted, out)
      BY <1>5, SellEffect
    <3> QED
      BY <2>1, <3>1 DEF Traded
  <2> QED
    BY <1>5, <2>1, SellMoves DEF OthersRest
<1>6. ASSUME NEW w \in Wallets, NEW team \in Wallets, NEW m \in Mints, NEW a \in Nat, NEW min \in Nat,
             BuyTokens(w, team, m, a, min)
      PROVE  Goal
  <2>1. CASE n = m
    <3>1. PICK amount \in Nat, adjusted \in U64, out \in U64 : Bought(w, m, a, amount, adjusted, out)
      BY <1>6, BuyEffect
    <3> QED
      BY <2>1, <3>1 DEF Traded
  <2> QED
    BY <1>6, <2>1, BuyMoves DEF OthersRest
<1>7. ASSUME NEW w \in Wallets, NEW m \in Mints,
             \/ \E team \in Wallets, l \in Launches : Launch(w, team, m, l)
             \/ \E team \in Wallets : TransferFee(w, team, m)
             \/ Withdraw(w, m) \/ \E g \in Gifts : GiftTokens(w, m, g)
      PROVE  Goal
  <2>1. (Opens(m) \/ Migrates(m) \/ PaysOut(m) \/ Receives(m)) /\ OthersRest(m)
    BY <1>7, LaunchMoves, TransferFeeMoves, WithdrawMoves, GiftMoves
  <2> QED
    BY <2>1 DEF OthersRest
<1> QED
  BY <1>1, <1>2, <1>3, <1>4, <1>5, <1>6, <1>7 DEF AnyNext

(* A buy that reports more lamports than the curve took is the one that     *)
(* completes it, however often the limit is reconfigured (the clamp of swap *)
(* and the SwapEvent that repeats the amount asked for).                    *)
THEOREM OnlyLastBuyMisreportsCorrect == Spec => OnlyLastBuyMisreports
<1>1. ASSUME TypeOK, Next, NEW e \in emitted', e.event = "swap", e.direction = Buy
      PROVE  \/ curve'[e.mint].reserve_lamport = curve[e.mint].reserve_lamport + e.amount_in
             \/ curve'[e.mint].is_completed
  <2>1. PICK w \in Wallets, m \in Mints, a \in Amounts, adjusted \in U64, out \in U64 :
           \/ Sold(w, m, a, adjusted, out) /\ e = SwapEvent(m, Sell, a, out)
           \/ \E amount \in Nat :
                Bought(w, m, a, amount, adjusted, out) /\ e = SwapEvent(m, Buy, a, out)
    BY <1>1, SwapEvents
  <2>2. PICK amount \in Nat :
           Bought(w, m, a, amount, adjusted, out) /\ e = SwapEvent(m, Buy, a, out)
    BY <1>1, <2>1, EventFields DEF Buy, Sell
  <2>3. e.mint = m /\ e.amount_in = a
    BY <2>2, EventFields
  <2>4. /\ curve'[m].reserve_lamport = curve[m].reserve_lamport + amount
        /\ curve'[m].is_completed <=> curve'[m].reserve_lamport >= config.curve_limit
    <3>1. TypeOK /\ a \in Nat /\ adjusted \in U64 /\ out \in U64 /\ Bought(w, m, a, amount, adjusted, out)
      BY <1>1, <2>1, <2>2, AmountAssumption
    <3>2. curve'[m].reserve_lamport = curve[m].reserve_lamport + amount
      BY <3>1, BoughtReserves
    <3>3. curve'[m].is_completed <=> curve'[m].reserve_lamport >= config.curve_limit
      BY <3>1, BoughtCurve
    <3> QED
      BY <3>2, <3>3
  <2>5. amount = ClampedAmount(curve[m], a, Buy, config)
    BY <2>2 DEF Bought
  <2>6. curve[m].reserve_lamport \in Nat /\ config.curve_limit \in Nat
    BY <1>1, <2>2, BookTypes, ConfigFields DEF Bought, TypeOK
  <2>7. CASE amount = a
    BY <2>3, <2>4, <2>7
  <2>8. CASE amount = config.curve_limit - curve[m].reserve_lamport
    <3>1. curve'[m].reserve_lamport = config.curve_limit
      BY <2>4, <2>6, <2>8
    <3>2. curve'[m].reserve_lamport >= config.curve_limit
      BY <2>6, <3>1
    <3> QED
      BY <2>3, <2>4, <3>2
  <2> QED
    BY <2>5, <2>7, <2>8 DEF ClampedAmount
<1>2. TypeOK /\ [Next]_vars =>
        [\A e \in { x \in emitted' : x.event = "swap" /\ x.direction = Buy } :
           \/ curve'[e.mint].reserve_lamport = curve[e.mint].reserve_lamport + e.amount_in
           \/ curve'[e.mint].is_completed]_vars
  BY <1>1
<1> QED
  BY <1>2, TypeCorrect, PTL DEF Spec, OnlyLastBuyMisreports

(* No trade lowers the product of the reserves by more than the rounding of *)
(* its own price, for every precision of the arithmetic (cal_amount_out).   *)
THEOREM ProductFallsByRoundingCorrect == Spec => ProductFallsByRounding
<1> DEFINE Held(e) == IF e.direction = Sell THEN curve[e.mint].reserve_lamport
                                            ELSE curve[e.mint].reserve_token
           Paid(e) == IF e.direction = Sell
                      THEN curve'[e.mint].reserve_token - curve[e.mint].reserve_token
                      ELSE curve'[e.mint].reserve_lamport - curve[e.mint].reserve_lamport
           Bounded(e) ==
             (curve[e.mint].reserve_lamport * curve[e.mint].reserve_token) * FloatPrecision
               <= (curve'[e.mint].reserve_lamport * curve'[e.mint].reserve_token) * FloatPrecision
                  + Held(e) * Paid(e)
<1>1. ASSUME TypeOK, Next, NEW e \in emitted', e.event = "swap"
      PROVE  Bounded(e)
  <2>1. PICK w \in Wallets, m \in Mints, a \in Amounts, adjusted \in U64, out \in U64 :
           \/ Sold(w, m, a, adjusted, out) /\ e = SwapEvent(m, Sell, a, out)
           \/ \E amount \in Nat :
                Bought(w, m, a, amount, adjusted, out) /\ e = SwapEvent(m, Buy, a, out)
    BY <1>1, SwapEvents
  <2>2. CASE Sold(w, m, a, adjusted, out) /\ e = SwapEvent(m, Sell, a, out)
    <3>1. PICK S \in Nat, T \in Nat : S = curve[m].reserve_lamport /\ T = curve[m].reserve_token
      BY <1>1, BookTypes
    <3>2. PICK d \in Nat, x \in Nat, o \in Nat : d = a /\ x = adjusted /\ o = out
      BY AmountAssumption, U64Nat
    <3>3. /\ x <= d /\ o <= S /\ o \in AmountOut(T, S, x)
          /\ curve'[m].reserve_token = T + d /\ curve'[m].reserve_lamport = S - o
      <4>1. TypeOK /\ a \in Nat /\ adjusted \in U64 /\ out \in U64 /\ Sold(w, m, a, adjusted, out)
        BY <1>1, <2>1, <2>2, AmountAssumption
      <4>2. /\ curve'[m].reserve_token = curve[m].reserve_token + a
            /\ curve'[m].reserve_lamport = curve[m].reserve_lamport - out
        BY <4>1, SoldReserves
      <4>3. /\ adjusted <= a /\ out <= curve[m].reserve_lamport
            /\ out \in AmountOut(curve[m].reserve_token, curve[m].reserve_lamport, adjusted)
        BY <4>1, SoldCurve
      <4> QED
        BY <3>1, <3>2, <4>2, <4>3
    <3>4. (T * S) * FloatPrecision <= ((T + d) * (S - o)) * FloatPrecision + S * d
      BY <3>3, ProductRounding
    <3>5. T * S = S * T /\ (T + d) * (S - o) = (S - o) * (T + d) /\ (T + d) - T = d
      BY <3>3
    <3>6. e.mint = m /\ Held(e) = S /\ Paid(e) = d
      BY <2>2, <3>1, <3>2, <3>3, <3>5, EventFields
    <3> QED
      BY <3>1, <3>3, <3>4, <3>5, <3>6
  <2>3. ASSUME NEW amount \in Nat,
               Bought(w, m, a, amount, adjusted, out), e = SwapEvent(m, Buy, a, out)
        PROVE  Bounded(e)
    <3>1. PICK S \in Nat, T \in Nat : S = curve[m].reserve_lamport /\ T = curve[m].reserve_token
      BY <1>1, BookTypes
    <3>2. PICK x \in Nat, o \in Nat : x = adjusted /\ o = out
      BY U64Nat
    <3>3. /\ x <= amount /\ o <= T /\ o \in AmountOut(S, T, x)
          /\ curve'[m].reserve_token = T - o /\ curve'[m].reserve_lamport = S + amount
      <4>1. TypeOK /\ a \in Nat /\ adjusted \in U64 /\ out \in U64 /\ Bought(w, m, a, amount, adjusted, out)
        BY <1>1, <2>1, <2>3, AmountAssumption
      <4>2. /\ curve'[m].reserve_token = curve[m].reserve_token - out
            /\ curve'[m].reserve_lamport = curve[m].reserve_lamport + amount
        BY <4>1, BoughtReserves
      <4>3. /\ adjusted <= amount /\ out <= curve[m].reserve_token
            /\ out \in AmountOut(curve[m].reserve_lamport, curve[m].reserve_token, adjusted)
        BY <4>1, BoughtCurve
      <4> QED
        BY <3>1, <3>2, <4>2, <4>3
    <3>4. (S * T) * FloatPrecision <= ((S + amount) * (T - o)) * FloatPrecision + T * amount
      BY <3>3, ProductRounding
    <3>5. (S + amount) - S = amount
      BY <3>1
    <3>6. e.mint = m /\ Held(e) = T /\ Paid(e) = amount
      BY <2>3, <3>1, <3>3, <3>5, EventFields DEF Buy, Sell
    <3> QED
      BY <3>1, <3>3, <3>4, <3>6
  <2> HIDE DEF Bounded
  <2> QED
    BY <2>1, <2>2, <2>3
<1>2. TypeOK /\ [Next]_vars => [\A e \in { x \in emitted' : x.event = "swap" } : Bounded(e)]_vars
  <2> HIDE DEF Bounded
  <2> QED
    BY <1>1
<1>3. [\A e \in { x \in emitted' : x.event = "swap" } : Bounded(e)]_vars
        => [\A e \in { x \in emitted' : x.event = "swap" } :
             LET c == curve[e.mint]
                 d == curve'[e.mint]
                 held == IF e.direction = Sell THEN c.reserve_lamport ELSE c.reserve_token
                 paid == IF e.direction = Sell THEN d.reserve_token - c.reserve_token
                                               ELSE d.reserve_lamport - c.reserve_lamport
             IN  (c.reserve_lamport * c.reserve_token) * FloatPrecision
                   <= (d.reserve_lamport * d.reserve_token) * FloatPrecision + held * paid]_vars
  OBVIOUS
<1> HIDE DEF Bounded
<1> QED
  BY <1>2, <1>3, TypeCorrect, PTL DEF Spec, ProductFallsByRounding

-------------------------------------------------------------------------------
(* The limit.  A curve trades below it only as long as nobody moves it and  *)
(* no launch starts at or above it: LimitMoves and LowLaunch are instances  *)
(* without.                                                                 *)
OneLimit == \E limit \in Nat : \A c \in Configs :
  /\ c.curve_limit = limit
  /\ \A l \in Launches :
       Allowed(c.lamport_amount_config, l.reserve_lamport) => l.reserve_lamport < limit

(* Of what the config says, this is as somebody wrote it with configure.    *)
Written == \E c \in Configs :
  /\ config.curve_limit = c.curve_limit
  /\ config.lamport_amount_config = c.lamport_amount_config
  /\ config.init_bonding_curve = c.init_bonding_curve

ConfigKnown == /\ config # NoConfig => Written
               /\ launched # {} => config # NoConfig

LEMMA OnlyAdministerConfigures ==
  ASSUME TypeOK, [AnyNext]_vars, ~Administer
  PROVE  /\ config' = config
         /\ launched' # launched =>
              /\ config # NoConfig
              /\ \E w \in Wallets, team \in Wallets, m \in Mints, l \in Launches : Launch(w, team, m, l)
<1>1. CASE UNCHANGED vars
  BY <1>1 DEF vars, configVars, curveVars
<1>2. ASSUME NEW w \in Wallets, NEW team \in Wallets, NEW m \in Mints, NEW l \in Launches,
             Launch(w, team, m, l)
      PROVE  config' = config /\ config # NoConfig
  BY <1>2 DEF Launch, configVars
<1>3. ASSUME NEW w \in Wallets, NEW team \in Wallets, NEW m \in Mints, NEW a \in Nat, NEW min \in Nat,
             SellTokens(w, team, m, a, min) \/ BuyTokens(w, team, m, a, min)
      PROVE  config' = config /\ launched' = launched
  BY <1>3 DEF SellTokens, BuyTokens
<1>4. ASSUME NEW w \in Wallets, NEW m \in Mints,
             \/ \E team \in Wallets : TransferFee(w, team, m)
             \/ Withdraw(w, m) \/ \E g \in Gifts : GiftTokens(w, m, g)
      PROVE  config' = config /\ launched' = launched
  BY <1>4 DEF TransferFee, Withdraw, GiftTokens, configVars
<1>5. ASSUME NEW w \in Wallets, NEW g \in Gifts, GiftLamports(w, g)
      PROVE  config' = config /\ launched' = launched
  BY <1>5 DEF GiftLamports
<1>6. ASSUME NEW k \in Keys, AddWl(k) \/ \E w \in Wallets : RemoveWl(w, k)
      PROVE  config' = config /\ launched' = launched
  BY <1>6 DEF AddWl, RemoveWl, configVars
<1> QED
  BY <1>1, <1>2, <1>3, <1>4, <1>5, <1>6 DEF AnyNext

LEMMA ConfigKnownInit == Init => ConfigKnown
BY DEF Init, ConfigInit, ConfigKnown

LEMMA ConfigKnownStep == TypeOK /\ ConfigKnown /\ [AnyNext]_vars => ConfigKnown'
<1> SUFFICES ASSUME TypeOK, ConfigKnown, [AnyNext]_vars PROVE ConfigKnown'
  OBVIOUS
<1>1. CASE ~Administer
  BY <1>1, OnlyAdministerConfigures DEF ConfigKnown, Written
<1>2. CASE Administer
  <2>1. launched' = launched
    BY <1>2 DEF Administer
  <2>2. ASSUME NEW p \in Wallets, NEW c \in Configs, Configure(p, c)
        PROVE  ConfigKnown'
    <3>1. config' = c /\ c # NoConfig
      BY <2>2, ConfigAssumption DEF Configure
    <3> QED
      BY <2>1, <3>1 DEF ConfigKnown, Written
  <2>3. ASSUME NEW p \in Wallets, NEW k \in Nominees, NominateAuthority(p, k)
        PROVE  ConfigKnown'
    <3>1. config # NoConfig /\ config \in ConfigType
          /\ config' = [config EXCEPT !.pending_authority = k]
      BY <2>3 DEF NominateAuthority, TypeOK, ConfigTypeOK
    <3>2. config' # NoConfig
      BY <3>1, HandoverKeepsSize, KeyAssumption DEF TypeOK, Keys
    <3> QED
      BY <2>1, <3>1, <3>2 DEF ConfigKnown, Written, ConfigType
  <2>4. ASSUME NEW p \in Wallets, AcceptAuthority(p) PROVE ConfigKnown'
    <3>1. config # NoConfig /\ config \in ConfigType
          /\ config' = [config EXCEPT !.authority = p, !.pending_authority = NoKey]
      BY <2>4 DEF AcceptAuthority, TypeOK, ConfigTypeOK
    <3>2. config' # NoConfig
      BY <3>1, HandoverKeepsSize DEF TypeOK, Keys
    <3> QED
      BY <2>1, <3>1, <3>2 DEF ConfigKnown, Written, ConfigType
  <2>5. ASSUME NEW p \in Wallets, NEW g \in Gifts, FundConfig(p, g) PROVE ConfigKnown'
    BY <2>1, <2>5 DEF FundConfig, ConfigKnown, Written
  <2> QED
    BY <1>2, <2>2, <2>3, <2>4, <2>5 DEF Administer, ConfigNext
<1> QED
  BY <1>1, <1>2

LEMMA BelowLimitStep ==
  ASSUME OneLimit, TypeOK, ConfigKnown, TradingBelowLimit, [AnyNext]_vars
  PROVE  TradingBelowLimit'
<1> SUFFICES ASSUME NEW m \in launched', ~curve'[m].is_completed
             PROVE  curve'[m].reserve_lamport < config'.curve_limit
  BY DEF TradingBelowLimit
<1>1. m \in Mints
  BY TypeStep DEF TypeOK
<1>2. CASE Administer
  <2>1. launched' = launched /\ curve' = curve
    BY <1>2 DEF Administer
  <2>2. ConfigKnown'
    BY ConfigKnownStep
  <2>3. config # NoConfig /\ config' # NoConfig
    BY <2>1, <2>2 DEF ConfigKnown
  <2>4. config'.curve_limit = config.curve_limit
    BY <2>2, <2>3 DEF OneLimit, ConfigKnown, Written
  <2> QED
    BY <2>1, <2>4 DEF TradingBelowLimit
<1>3. CASE ~Administer
  <2>1. config' = config
    BY <1>3, OnlyAdministerConfigures
  <2>2. CASE m \notin launched
    <3>1. PICK w \in Wallets, team \in Wallets, n \in Mints, l \in Launches : Launch(w, team, n, l)
      BY <1>3, <2>2, OnlyAdministerConfigures
    <3>2. /\ config # NoConfig /\ Allowed(config.lamport_amount_config, l.reserve_lamport)
          /\ launched' = launched \cup {n}
          /\ \E init : curve' = [curve EXCEPT ![n] = NewCurve(init, l.reserve_lamport, w)]
      BY <3>1 DEF Launch, ValidParams
    <3>3. m = n /\ curve'[m].reserve_lamport = l.reserve_lamport
      BY <2>2, <3>2 DEF TypeOK, NewCurve
    <3>4. l.reserve_lamport < config.curve_limit
      BY <3>2 DEF OneLimit, ConfigKnown, Written
    <3> QED
      BY <2>1, <3>3, <3>4
  <2>3. CASE m \in launched
    <3>1. PICK k \in Nat : k = config.curve_limit
      <4>1. config # NoConfig
        BY <2>3 DEF ConfigKnown
      <4> QED
        BY <4>1, ConfigFields DEF TypeOK
    <3>2. ~curve[m].is_completed => curve[m].reserve_lamport < k
      BY <2>3, <3>1 DEF TradingBelowLimit
    <3>3. curve'[m].reserve_lamport < k
      <4> USE BookTypes
      <4>1. CASE Rests(m) \/ Migrates(m) \/ Receives(m)
        BY <1>1, <3>2, <4>1 DEF Rests, Migrates, Receives
      <4>2. CASE Sells(m)
        BY <1>1, <3>1, <3>2, <4>2 DEF Sells
      <4>3. CASE Buys(m)
        <5>1. /\ curve'[m].is_completed <=> curve'[m].reserve_lamport >= config.curve_limit
              /\ \E amount \in Nat : curve'[m].reserve_lamport = curve[m].reserve_lamport + amount
          BY <4>3 DEF Buys
        <5>2. ~(curve'[m].reserve_lamport >= config.curve_limit)
          BY <5>1
        <5> QED
          BY <1>1, <3>1, <5>1, <5>2
      <4> QED
        BY <1>1, <2>3, <4>1, <4>2, <4>3, MintSteps DEF Moves, OthersRest, Opens, PaysOut
    <3> QED
      BY <2>1, <3>1, <3>3
  <2> QED
    BY <2>2, <2>3
<1> QED
  BY <1>2, <1>3

LEMMA KnownAndBelow ==
  ASSUME OneLimit
  PROVE  AnySpec => [](ConfigKnown /\ TradingBelowLimit)
<1>1. Init => ConfigKnown /\ TradingBelowLimit
  BY ConfigKnownInit DEF Init, TradingBelowLimit
<1>2. TypeOK /\ (ConfigKnown /\ TradingBelowLimit) /\ [AnyNext]_vars
        => (ConfigKnown /\ TradingBelowLimit)'
  BY ConfigKnownStep, BelowLimitStep
<1>3. AnySpec => []TypeOK
  BY BooksHold, PTL
<1> QED
  BY <1>1, <1>2, <1>3, PTL DEF AnySpec

(* As long as the limit stays what it is, every trading curve is below it   *)
(* (swap, launch, configure).                                               *)
THEOREM TradingBelowLimitCorrect ==
  ASSUME OneLimit
  PROVE  Spec => []TradingBelowLimit
BY KnownAndBelow, SpecIsAny, PTL

(* A complete event reports a buy that reached the limit.                   *)
LEMMA CompleteEvents ==
  ASSUME TypeOK, Next, NEW m \in Mints, [event |-> "complete", mint |-> m] \in emitted'
  PROVE  \E w \in Wallets, a \in Nat, amount \in Nat, adjusted \in U64, out \in U64 :
           /\ Bought(w, m, a, amount, adjusted, out)
           /\ curve[m].reserve_lamport + amount >= config.curve_limit
<1> DEFINE e == [event |-> "complete", mint |-> m]
<1>1. e.event = "complete" /\ e.mint = m /\ e \in emitted'
  OBVIOUS
<1> HIDE DEF e
<1>2. CASE Administer
  BY <1>1, <1>2 DEF Administer
<1>3. ASSUME NEW w \in Wallets, NEW team \in Wallets, NEW n \in Mints, NEW l \in Launches,
             Launch(w, team, n, l)
      PROVE  FALSE
  BY <1>1, <1>3 DEF Launch
<1>4. ASSUME NEW w \in Wallets, NEW team \in Wallets, NEW n \in Mints, NEW a \in Amounts,
             NEW min \in Minimums, SellTokens(w, team, n, a, min)
      PROVE  FALSE
  <2>1. \E adjusted \in U64, out \in U64 : Sold(w, n, a, adjusted, out)
    BY <1>4, SellEffect, AmountAssumption
  <2> QED
    BY <1>1, <2>1, EventFields DEF Sold
<1>5. ASSUME NEW w \in Wallets, NEW team \in Wallets, NEW n \in Mints, NEW a \in Amounts,
             NEW min \in Minimums, BuyTokens(w, team, n, a, min)
      PROVE  \E amount \in Nat, adjusted \in U64, out \in U64 :
               /\ Bought(w, m, a, amount, adjusted, out)
               /\ curve[m].reserve_lamport + amount >= config.curve_limit
  <2>1. PICK amount \in Nat, adjusted \in U64, out \in U64 : Bought(w, n, a, amount, adjusted, out)
    BY <1>5, BuyEffect, AmountAssumption
  <2>2. emitted' = {SwapEvent(n, Buy, a, out)} \cup
          (IF curve[n].reserve_lamport + amount >= config.curve_limit
           THEN {[event |-> "complete", mint |-> n]} ELSE {})
    BY <2>1 DEF Bought
  <2>3. e # SwapEvent(n, Buy, a, out)
    BY <1>1, EventFields
  <2>4. curve[n].reserve_lamport + amount >= config.curve_limit /\ e = [event |-> "complete", mint |-> n]
    BY <1>1, <2>2, <2>3
  <2>5. n = m
    BY <1>1, <2>4
  <2> QED
    BY <2>1, <2>4, <2>5
<1>6. ASSUME NEW w \in Wallets, NEW n \in Mints,
             \/ Withdraw(w, n) \/ \E team \in Wallets : TransferFee(w, team, n)
             \/ \E g \in Gifts : GiftTokens(w, n, g)
      PROVE  FALSE
  BY <1>1, <1>6 DEF Withdraw, TransferFee, GiftTokens
<1>7. ASSUME NEW w \in Wallets,
             \/ \E g \in Gifts : GiftLamports(w, g)
             \/ \E k \in Creators : AddWl(k) \/ RemoveWl(w, k)
      PROVE  FALSE
  BY <1>1, <1>7 DEF GiftLamports, AddWl, RemoveWl
<1>8. ASSUME NEW k \in Creators, AddWl(k) PROVE FALSE
  BY <1>1, <1>8 DEF AddWl
<1> QED
  BY <1>2, <1>3, <1>4, <1>5, <1>6, <1>7, <1>8, AmountAssumption DEF Next

(* As long as the limit stays what it is, a listener learns of every        *)
(* completion from its CompleteEvent, and of nothing else (the event that   *)
(* only the buy branch of swap emits).                                      *)
THEOREM CompletionAnnouncedCorrect ==
  ASSUME OneLimit
  PROVE  Spec => CompletionAnnounced
<1>1. ASSUME TypeOK, TradingBelowLimit, Next, NEW m \in Mints,
             [event |-> "complete", mint |-> m] \in emitted'
      PROVE  ~curve[m].is_completed /\ curve'[m].is_completed
  <2>1. PICK w \in Wallets, a \in Nat, amount \in Nat, adjusted \in U64, out \in U64 :
           /\ Bought(w, m, a, amount, adjusted, out)
           /\ curve[m].reserve_lamport + amount >= config.curve_limit
    BY <1>1, CompleteEvents
  <2>2. TypeOK /\ adjusted \in U64 /\ out \in U64 /\ Bought(w, m, a, amount, adjusted, out)
    BY <1>1, <2>1
  <2>3. curve'[m].is_completed
    <3>1. curve'[m].reserve_lamport = curve[m].reserve_lamport + amount
      BY <2>2, BoughtReserves
    <3>2. curve'[m].is_completed <=> curve'[m].reserve_lamport >= config.curve_limit
      BY <2>2, BoughtCurve
    <3> QED
      BY <2>1, <3>1, <3>2
  <2> QED
    BY <2>1, <2>3 DEF Bought
<1>2. ASSUME TypeOK, TradingBelowLimit, Next, NEW m \in Mints,
             ~curve[m].is_completed, curve'[m].is_completed
      PROVE  [event |-> "complete", mint |-> m] \in emitted'
  <2>1. Traded(m)
    BY <1>2, MintTrades, NextIsAny DEF Rests, Opens, PaysOut, Migrates, Receives
  <2>2. PICK w \in Wallets, a \in Nat, adjusted \in U64, out \in U64 :
          \/ Sold(w, m, a, adjusted, out)
          \/ \E amount \in Nat : Bought(w, m, a, amount, adjusted, out)
    BY <2>1 DEF Traded
  <2>3. CASE Sold(w, m, a, adjusted, out)
    <3>1. m \in launched /\ config.curve_limit \in Nat
      BY <1>2, <2>3, ConfigFields DEF Sold, TypeOK
    <3>2. curve[m].reserve_lamport < config.curve_limit
      BY <1>2, <3>1 DEF TradingBelowLimit
    <3>3. TypeOK /\ adjusted \in U64 /\ out \in U64 /\ Sold(w, m, a, adjusted, out)
      BY <1>2, <2>2, <2>3
    <3>4. curve'[m].reserve_lamport = curve[m].reserve_lamport - out /\ out \in Nat
      <4>1. curve'[m].reserve_lamport = curve[m].reserve_lamport - out
        BY <3>3, SoldReserves
      <4> QED
        BY <3>3, <4>1, U64Nat
    <3>5. curve'[m].is_completed <=> curve'[m].reserve_lamport >= config.curve_limit
      BY <3>3, SoldCurve
    <3>6. curve'[m].reserve_lamport >= config.curve_limit
      BY <1>2, <3>5
    <3> QED
      BY <1>2, <3>1, <3>2, <3>4, <3>6, BookTypes
  <2>4. ASSUME NEW amount \in Nat, Bought(w, m, a, amount, adjusted, out)
        PROVE  [event |-> "complete", mint |-> m] \in emitted'
    <3>1. TypeOK /\ adjusted \in U64 /\ out \in U64 /\ Bought(w, m, a, amount, adjusted, out)
      BY <1>2, <2>2, <2>4
    <3>2. curve'[m].reserve_lamport = curve[m].reserve_lamport + amount
      BY <3>1, BoughtReserves
    <3>3. curve'[m].is_completed <=> curve'[m].reserve_lamport >= config.curve_limit
      BY <3>1, BoughtCurve
    <3>4. curve[m].reserve_lamport + amount >= config.curve_limit
      BY <1>2, <3>2, <3>3
    <3> QED
      BY <2>4, <3>4 DEF Bought
  <2> QED
    BY <2>2, <2>3, <2>4
<1>3. TypeOK /\ TradingBelowLimit /\ [Next]_vars =>
        [\A m \in Mints : (~curve[m].is_completed /\ curve'[m].is_completed)
                            <=> ([event |-> "complete", mint |-> m] \in emitted')]_vars
  BY <1>1, <1>2
<1> QED
  BY <1>3, TypeCorrect, TradingBelowLimitCorrect, PTL DEF Spec, CompletionAnnounced

-------------------------------------------------------------------------------
(* A quote is worth asking for where no sum overflows: simulate_swap adds   *)
(* the whole amount asked for, swap only the clamped one.                   *)
SumsFit == \A c \in Configs, a \in Amounts : c.curve_limit + a <= MaxU64

(* A trade pays no more than was quoted for it in the same state, and a     *)
(* sell exactly that: what the clamp takes off a buy is never gained by the *)
(* rounding (simulate_swap, swap, cal_amount_out).                          *)
THEOREM QuoteCoversTradeCorrect ==
  ASSUME SumsFit
  PROVE  Spec => QuoteCoversTrade
<1>1. ASSUME TypeOK, ConfigKnown, Next, NEW e \in emitted', e.event = "swap"
      PROVE  /\ \E q \in SimulateSwap(e.mint, e.amount_in, e.direction) : e.amount_out <= q
             /\ e.direction = Sell => e.amount_out \in SimulateSwap(e.mint, e.amount_in, e.direction)
  <2>1. PICK w \in Wallets, m \in Mints, a \in Amounts, adjusted \in U64, out \in U64 :
           \/ Sold(w, m, a, adjusted, out) /\ e = SwapEvent(m, Sell, a, out)
           \/ \E amount \in Nat :
                Bought(w, m, a, amount, adjusted, out) /\ e = SwapEvent(m, Buy, a, out)
    BY <1>1, SwapEvents
  <2> DEFINE q == [adjusted |-> adjusted, out |-> out]
  <2>2. q.out = out /\ out \in Nat
    BY <2>1, U64Nat
  <2>3. CASE Sold(w, m, a, adjusted, out) /\ e = SwapEvent(m, Sell, a, out)
    <3>1. e.mint = m /\ e.direction = Sell /\ e.amount_in = a /\ e.amount_out = out
      BY <2>3, EventFields
    <3>2. q \in CalAmountOut(curve[m], a, Sell, config) /\ a # 0
      BY <2>3 DEF Sold
    <3> HIDE DEF q
    <3>3. out \in SimulateSwap(m, a, Sell)
      BY <2>2, <3>2 DEF SimulateSwap
    <3> QED
      BY <2>2, <3>1, <3>3
  <2>4. ASSUME NEW amount \in Nat,
               Bought(w, m, a, amount, adjusted, out), e = SwapEvent(m, Buy, a, out)
        PROVE  /\ \E x \in SimulateSwap(e.mint, e.amount_in, e.direction) : e.amount_out <= x
               /\ e.direction # Sell
    <3>1. e.mint = m /\ e.direction = Buy /\ e.amount_in = a /\ e.amount_out = out
      BY <2>4, EventFields
    <3>2. /\ q \in CalAmountOut(curve[m], amount, Buy, config) /\ a # 0 /\ config # NoConfig
          /\ amount = ClampedAmount(curve[m], a, Buy, config)
          /\ curve[m].reserve_lamport + amount <= config.curve_limit
      BY <2>4 DEF Bought
    <3> HIDE DEF q
    <3>3. /\ curve[m].reserve_lamport \in Nat /\ curve[m].reserve_token \in Nat
          /\ config.curve_limit \in Nat /\ a \in Nat
      BY <1>1, <3>2, BookTypes, ConfigFields, AmountAssumption DEF TypeOK
    <3>4. config.platform_buy_fee \in Nat
      BY <1>1, <3>2 DEF TypeOK, ConfigTypeOK, ConfigType
    <3>5. config.curve_limit + a <= MaxU64
      BY <1>1, <3>2 DEF SumsFit, ConfigKnown, Written
    <3>6. amount <= a
      BY <3>2, <3>3 DEF ClampedAmount
    <3>7. ReserveIn(curve[m], Buy) + a <= MaxU64
      BY <3>2, <3>3, <3>5, MaxU64Assumption DEF ReserveIn, Buy, Sell
    <3>8. /\ ReserveIn(curve[m], Buy) \in Nat /\ ReserveOut(curve[m], Buy) \in Nat
          /\ FeeFor(config, Buy) \in Nat
      BY <3>3, <3>4 DEF ReserveIn, ReserveOut, FeeFor, Buy, Sell
    <3>9. \E r \in CalAmountOut(curve[m], a, Buy, config) : out <= r.out
      BY <2>2, <3>2, <3>3, <3>6, <3>7, <3>8, PriceMonotone
    <3>10. \E x \in SimulateSwap(m, a, Buy) : out <= x
      BY <3>2, <3>9 DEF SimulateSwap
    <3> QED
      BY <3>1, <3>10 DEF Buy, Sell
  <2> HIDE DEF q
  <2> QED
    BY <2>1, <2>3, <2>4
<1>2. TypeOK /\ ConfigKnown /\ [Next]_vars =>
        [\A e \in { x \in emitted' : x.event = "swap" } :
           /\ \E q \in SimulateSwap(e.mint, e.amount_in, e.direction) : e.amount_out <= q
           /\ e.direction = Sell
                => e.amount_out \in SimulateSwap(e.mint, e.amount_in, e.direction)]_vars
  BY <1>1
<1>3. Spec => []ConfigKnown
  BY ConfigKnownInit, ConfigKnownStep, NextIsAny, TypeCorrect, PTL DEF Spec
<1> QED
  BY <1>2, <1>3, TypeCorrect, PTL DEF Spec, QuoteCoversTrade

-------------------------------------------------------------------------------
(* What the curve counts and a wallet holds is within what was ever out.    *)
LEMMA HoldingsCounted ==
  ASSUME TypeOK, Books, Conserved, NEW m \in Mints, NEW w \in Wallets
  PROVE  curve[m].reserve_token + tokens[m][w] <= supply[m] + drained[m]
<1>1. PICK held \in Nat : held = SumFunction(tokens[m])
  BY TotalTypes
<1>2. tokens[m][w] <= held /\ tokens[m][w] \in Nat
  BY <1>1, TotalTypes, SumFunctionBounds, FiniteAssumption
<1>3. held + vaultToken[m] = supply[m]
  BY <1>1 DEF Conserved, TokensOf
<1>4. vaultToken[m] + drained[m] = curve[m].reserve_token + given[m]
  BY DEF Books, TokenLedger
<1>5. /\ vaultToken[m] \in Nat /\ supply[m] \in Nat
      /\ curve[m].reserve_token \in Nat /\ given[m] \in Nat /\ drained[m] \in Nat
  BY TotalTypes, BookTypes
<1> QED
  BY <1>2, <1>3, <1>4, <1>5

LEMMA SupplyFixed ==
  ASSUME TypeOK, [AnyNext]_vars, NEW m \in launched
  PROVE  supply'[m] = supply[m]
<1>1. CASE Keeps
  BY <1>1 DEF Keeps
<1>2. ASSUME NEW w \in Wallets, NEW team \in Wallets, NEW n \in Mints, NEW l \in Launches,
             Launch(w, team, n, l)
      PROVE  supply'[m] = supply[m]
  BY <1>2 DEF Launch, TypeOK
<1> QED
  BY <1>1, <1>2, AnyKeeps

-------------------------------------------------------------------------------
(* What a curve is worth: A are all tokens that can ever be sold to it, of  *)
(* which T are there.                                                       *)
LEMMA WorthSold ==
  ASSUME NEW S \in Nat, NEW T \in Nat, NEW A \in Nat, NEW x \in Nat, NEW f \in Nat, NEW r \in Nat,
         T + x <= A, (T * S) * FloatPrecision <= ((T + x) * r) * FloatPrecision + S * x
  PROVE  ((S * T) * FloatPrecision) * (A + f)
           <= ((r * (T + (x + f))) * FloatPrecision) * A + (S * A) * (A + f)
<1>1. FloatPrecision \in Nat
  BY FloatPrecisionAssumption
<1>2. PICK rP \in Nat : rP = r * FloatPrecision
  BY <1>1
<1>3. PICK k \in Nat : k = (S * T) * FloatPrecision
  BY <1>1
<1>4. PICK q \in Nat : q = T + x /\ q <= A
  OBVIOUS
<1>5. k <= q * rP + S * x
  <2>1. ((T + x) * r) * FloatPrecision = q * rP
    BY <1>1, <1>2, <1>4
  <2>2. (T * S) * FloatPrecision = k
    BY <1>1, <1>3
  <2> QED
    BY <2>1, <2>2
<1>6. k * (A + f) <= (q * rP + S * x) * (A + f)
  BY <1>5, TimesMonotone
<1>7. q * (rP * f) <= A * (rP * f)
  BY <1>4, TimesMonotone
<1>8. x * (S * (A + f)) <= A * (S * (A + f))
  <2>1. x <= A /\ S * (A + f) \in Nat
    OBVIOUS
  <2> QED
    BY <2>1, TimesMonotone
<1>9. (q * rP + S * x) * (A + f) = (q * rP) * A + q * (rP * f) + x * (S * (A + f))
  OBVIOUS
<1>10. (q * rP) * A + A * (rP * f) = ((q + f) * rP) * A
  OBVIOUS
<1>11. ((r * (T + (x + f))) * FloatPrecision) * A = ((q + f) * rP) * A
  BY <1>1, <1>2, <1>4
<1>12. (S * A) * (A + f) = A * (S * (A + f))
  OBVIOUS
<1>13. /\ k * (A + f) \in Nat /\ q * (rP * f) \in Nat /\ A * (rP * f) \in Nat
       /\ x * (S * (A + f)) \in Nat /\ A * (S * (A + f)) \in Nat /\ (q * rP) * A \in Nat
  OBVIOUS
<1>14. k * (A + f) <= (q * rP) * A + A * (rP * f) + A * (S * (A + f))
  BY <1>6, <1>7, <1>8, <1>9, <1>13
<1> QED
  BY <1>3, <1>10, <1>11, <1>12, <1>14

LEMMA WorthBought ==
  ASSUME NEW S \in Nat, NEW T \in Nat, NEW A \in Nat, NEW a \in Nat, NEW r \in Nat, T <= A,
         (S * T) * FloatPrecision <= ((S + a) * r) * FloatPrecision + T * a
  PROVE  ((S * T) * FloatPrecision) * A <= (((S + a) * r) * FloatPrecision) * A + (a * A) * A
<1>1. FloatPrecision \in Nat
  BY FloatPrecisionAssumption
<1>2. PICK k \in Nat, d \in Nat :
        k = (S * T) * FloatPrecision /\ d = ((S + a) * r) * FloatPrecision
  BY <1>1
<1>3. k <= d + T * a
  BY <1>2
<1>4. T * a <= A * a
  BY TimesMonotone
<1>5. k <= d + A * a
  BY <1>3, <1>4
<1>6. k * A <= (d + A * a) * A
  BY <1>5, TimesMonotone
<1>7. (d + A * a) * A = d * A + (a * A) * A
  OBVIOUS
<1> QED
  BY <1>2, <1>6, <1>7
(* What a sell and a buy do to the worth of their curve.                    *)
LEMMA SellWorth ==
  ASSUME TypeOK, Books, Conserved, NEW w \in Wallets, NEW m \in Mints, NEW a \in Nat,
         NEW adjusted \in U64, NEW out \in U64, Sold(w, m, a, adjusted, out)
  PROVE  ((curve[m].reserve_lamport * curve[m].reserve_token) * FloatPrecision)
             * (supply'[m] + drained'[m])
           <= ((curve'[m].reserve_lamport * curve'[m].reserve_token) * FloatPrecision)
                * (supply[m] + drained[m])
              + (curve[m].reserve_lamport * (supply[m] + drained[m])) * (supply'[m] + drained'[m])
<1>1. PICK R \in Nat, T \in Nat, S \in Nat, D \in Nat :
        /\ R = curve[m].reserve_lamport /\ T = curve[m].reserve_token
        /\ S = supply[m] /\ D = drained[m]
  BY BookTypes, TotalTypes
<1>2. /\ adjusted <= a /\ out <= R /\ adjusted \in Nat /\ out \in Nat
      /\ out \in AmountOut(T, R, adjusted)
  BY <1>1, SoldCurve
<1>3. PICK f \in Nat, r \in Nat, A \in Nat : f = a - adjusted /\ r = R - out /\ A = S + D
  <2>1. a - adjusted \in Nat /\ R - out \in Nat
    BY <1>2
  <2> QED
    BY <2>1
<1>4. (T * R) * FloatPrecision <= ((T + adjusted) * r) * FloatPrecision + R * adjusted
  <2>1. (T * R) * FloatPrecision <= ((T + adjusted) * (R - out)) * FloatPrecision + R * adjusted
    <3>1. T \in Nat /\ R \in Nat /\ adjusted \in Nat /\ adjusted <= adjusted
      BY <1>2
    <3> QED
      BY <1>2, <3>1, ProductRounding
  <2> QED
    BY <1>3, <2>1
<1>5. T + adjusted <= A
  <2>1. a <= tokens[m][w] /\ tokens[m][w] \in Nat
    BY TotalTypes DEF Sold
  <2>2. T + tokens[m][w] <= S + D
    BY <1>1, HoldingsCounted
  <2>3. adjusted <= tokens[m][w]
    BY <1>2, <2>1
  <2> QED
    BY <1>2, <1>3, <2>1, <2>2, <2>3
<1>6. ((R * T) * FloatPrecision) * (A + f)
        <= ((r * (T + (adjusted + f))) * FloatPrecision) * A + (R * A) * (A + f)
  BY <1>2, <1>4, <1>5, WorthSold
<1>7. supply'[m] = S /\ drained'[m] = D + f
  BY <1>1, <1>3 DEF Sold, TypeOK
<1>8. curve'[m].reserve_lamport = r /\ curve'[m].reserve_token = T + (adjusted + f)
  <2>1. curve'[m].reserve_token = T + a /\ curve'[m].reserve_lamport = R - out
    BY <1>1, SoldReserves
  <2>2. adjusted + f = a
    BY <1>2, <1>3
  <2> QED
    BY <1>3, <2>1, <2>2
<1>9. supply'[m] + drained'[m] = A + f /\ supply[m] + drained[m] = A
  BY <1>1, <1>3, <1>7
<1> QED
  BY <1>1, <1>6, <1>8, <1>9

LEMMA BuyWorth ==
  ASSUME TypeOK, Books, Conserved, NEW w \in Wallets, NEW m \in Mints, NEW a \in Nat,
         NEW amount \in Nat, NEW adjusted \in U64, NEW out \in U64,
         Bought(w, m, a, amount, adjusted, out)
  PROVE  ((curve[m].reserve_lamport * curve[m].reserve_token) * FloatPrecision)
             * (supply'[m] + drained'[m])
           <= ((curve'[m].reserve_lamport * curve'[m].reserve_token) * FloatPrecision)
                * (supply[m] + drained[m])
              + ((curve'[m].reserve_lamport - curve[m].reserve_lamport) * (supply[m] + drained[m]))
                * (supply'[m] + drained'[m])
<1>1. PICK R \in Nat, T \in Nat, S \in Nat, D \in Nat :
        /\ R = curve[m].reserve_lamport /\ T = curve[m].reserve_token
        /\ S = supply[m] /\ D = drained[m]
  BY BookTypes, TotalTypes
<1>2. /\ adjusted <= amount /\ out <= T /\ adjusted \in Nat /\ out \in Nat
      /\ out \in AmountOut(R, T, adjusted)
  BY <1>1, BoughtCurve
<1>3. PICK r \in Nat, A \in Nat : r = T - out /\ A = S + D
  <2>1. T - out \in Nat
    BY <1>2
  <2> QED
    BY <2>1
<1>4. (R * T) * FloatPrecision <= ((R + amount) * r) * FloatPrecision + T * amount
  <2>1. (R * T) * FloatPrecision <= ((R + amount) * (T - out)) * FloatPrecision + T * amount
    BY <1>2, ProductRounding
  <2> QED
    BY <1>3, <2>1
<1>5. T <= A
  <2>1. tokens[m][w] \in Nat
    BY TotalTypes
  <2>2. T + tokens[m][w] <= S + D
    BY <1>1, HoldingsCounted
  <2> QED
    BY <1>3, <2>1, <2>2
<1>6. ((R * T) * FloatPrecision) * A <= (((R + amount) * r) * FloatPrecision) * A + (amount * A) * A
  BY <1>4, <1>5, WorthBought
<1>7. supply'[m] = S /\ drained'[m] = D
  BY <1>1 DEF Bought, TypeOK
<1>8. curve'[m].reserve_lamport = R + amount /\ curve'[m].reserve_token = r
  <2>1. /\ curve'[m].reserve_token = curve[m].reserve_token - out
        /\ curve'[m].reserve_lamport = curve[m].reserve_lamport + amount
    BY BoughtReserves
  <2> QED
    BY <1>1, <1>3, <2>1
<1>9. (R + amount) - R = amount /\ supply'[m] + drained'[m] = A /\ supply[m] + drained[m] = A
  BY <1>1, <1>3, <1>7
<1> QED
  BY <1>1, <1>6, <1>8, <1>9
(* Whatever the quotients round to, a trade lowers what its curve would     *)
(* hold if every token were sold back by no more than one part in           *)
(* FloatPrecision of the lamports it touches, sell fees and all (swap,      *)
(* cal_amount_out).  This is what remains of the virtual lamports' safety   *)
(* in arithmetic that may round up.                                         *)
THEOREM WorthFallsByRoundingCorrect == Spec => WorthFallsByRounding
<1> DEFINE InTrade(e) == IF e.direction = Sell
                         THEN curve[e.mint].reserve_lamport
                         ELSE curve'[e.mint].reserve_lamport - curve[e.mint].reserve_lamport
           Bounded(e) ==
             ((curve[e.mint].reserve_lamport * curve[e.mint].reserve_token) * FloatPrecision)
                 * (supply'[e.mint] + drained'[e.mint])
               <= ((curve'[e.mint].reserve_lamport * curve'[e.mint].reserve_token) * FloatPrecision)
                    * (supply[e.mint] + drained[e.mint])
                  + (InTrade(e) * (supply[e.mint] + drained[e.mint]))
                    * (supply'[e.mint] + drained'[e.mint])
<1>1. ASSUME TypeOK, Books, Conserved, Next, NEW e \in emitted', e.event = "swap"
      PROVE  Bounded(e)
  <2>1. PICK w \in Wallets, m \in Mints, a \in Amounts, adjusted \in U64, out \in U64 :
           \/ Sold(w, m, a, adjusted, out) /\ e = SwapEvent(m, Sell, a, out)
           \/ \E amount \in Nat :
                Bought(w, m, a, amount, adjusted, out) /\ e = SwapEvent(m, Buy, a, out)
    BY <1>1, SwapEvents
  <2>2. TypeOK /\ Books /\ Conserved /\ a \in Nat /\ adjusted \in U64 /\ out \in U64
    BY <1>1, <2>1, AmountAssumption
  <2>3. CASE Sold(w, m, a, adjusted, out) /\ e = SwapEvent(m, Sell, a, out)
    <3>1. e.mint = m /\ InTrade(e) = curve[m].reserve_lamport
      BY <2>3, EventFields
    <3>2. ((curve[m].reserve_lamport * curve[m].reserve_token) * FloatPrecision)
               * (supply'[m] + drained'[m])
             <= ((curve'[m].reserve_lamport * curve'[m].reserve_token) * FloatPrecision)
                  * (supply[m] + drained[m])
                + (curve[m].reserve_lamport * (supply[m] + drained[m]))
                  * (supply'[m] + drained'[m])
      BY <2>2, <2>3, SellWorth
    <3> QED
      BY <3>1, <3>2, Zenon
  <2>4. ASSUME NEW amount \in Nat,
               Bought(w, m, a, amount, adjusted, out), e = SwapEvent(m, Buy, a, out)
        PROVE  Bounded(e)
    <3>1. /\ e.mint = m
          /\ InTrade(e) = curve'[m].reserve_lamport - curve[m].reserve_lamport
      BY <2>4, EventFields DEF Buy, Sell
    <3>2. ((curve[m].reserve_lamport * curve[m].reserve_token) * FloatPrecision)
               * (supply'[m] + drained'[m])
             <= ((curve'[m].reserve_lamport * curve'[m].reserve_token) * FloatPrecision)
                  * (supply[m] + drained[m])
                + ((curve'[m].reserve_lamport - curve[m].reserve_lamport)
                     * (supply[m] + drained[m]))
                  * (supply'[m] + drained'[m])
      BY <2>2, <2>4, BuyWorth
    <3> QED
      BY <3>1, <3>2, Zenon
  <2> HIDE DEF Bounded
  <2> QED
    BY <2>1, <2>3, <2>4
<1>2. TypeOK /\ Books /\ Conserved /\ [Next]_vars
        => [\A e \in { x \in emitted' : x.event = "swap" } : Bounded(e)]_vars
  <2> HIDE DEF Bounded
  <2> QED
    BY <1>1
<1>3. [\A e \in { x \in emitted' : x.event = "swap" } : Bounded(e)]_vars
        => [\A e \in { x \in emitted' : x.event = "swap" } :
             LET c == curve[e.mint]
                 d == curve'[e.mint]
                 all == supply[e.mint] + drained[e.mint]
                 after == supply'[e.mint] + drained'[e.mint]
                 touched == IF e.direction = Sell THEN c.reserve_lamport
                                                  ELSE d.reserve_lamport - c.reserve_lamport
             IN  ((c.reserve_lamport * c.reserve_token) * FloatPrecision) * after
                   <= ((d.reserve_lamport * d.reserve_token) * FloatPrecision) * all
                      + (touched * all) * after]_vars
  OBVIOUS
<1> HIDE DEF Bounded
<1>4. Spec => [](TypeOK /\ Books /\ Conserved)
  BY BooksHold, ConservedHolds, SpecIsAny, PTL
<1> QED
  BY <1>2, <1>3, <1>4, PTL DEF Spec, WorthFallsByRounding
-------------------------------------------------------------------------------
(* The losses of a curve add up.  The inductive form counts in lamports     *)
(* times supply: the curve holds no less than its virtual lamports are      *)
(* worth for the tokens offered, but for its volume, and while it trades    *)
(* it would still, were every token that was ever out sold back to it.      *)
LossOf(m) ==
  /\ (curve[m].reserve_lamport * supply[m]) * FloatPrecision + volume[m] * supply[m]
       >= (curve[m].init_lamport * offered[m]) * FloatPrecision
  /\ ~curve[m].is_completed =>
       ((curve[m].reserve_lamport * supply[m]) * curve[m].reserve_token) * FloatPrecision
           + (volume[m] * supply[m]) * (supply[m] + drained[m])
         >= ((curve[m].init_lamport * offered[m]) * FloatPrecision) * (supply[m] + drained[m])

LossKept == /\ volume \in [Mints -> Nat]
            /\ offered \in [Mints -> Nat]
            /\ \A m \in launched \ settled : LossOf(m)

(* The arithmetic of one trade that touches t lamports: R lamports and T of *)
(* A tokens are on the curve before it, r and q of B after it.              *)
OneTrade(R, T, A, r, q, B, t) ==
  /\ q <= B
  /\ A = 0 => r >= R /\ B = 0
  /\ A # 0 => B # 0
  /\ ((R * T) * FloatPrecision) * B <= ((r * q) * FloatPrecision) * A + (t * A) * B

(* Neither the reserve nor the worth is further below L than the volume v.  *)
Above(R, T, A, L, v) ==
  /\ R * FloatPrecision + v >= L
  /\ (R * T) * FloatPrecision + v * A >= L * A

LEMMA LossAdds ==
  ASSUME NEW R \in Nat, NEW T \in Nat, NEW A \in Nat, NEW r \in Nat, NEW q \in Nat, NEW B \in Nat,
         NEW L \in Nat, NEW v \in Nat, NEW t \in Nat,
         OneTrade(R, T, A, r, q, B, t), Above(R, T, A, L, v)
  PROVE  Above(r, q, B, L, v + t)
<1> USE DEF OneTrade, Above
<1>1. FloatPrecision \in Nat
  BY FloatPrecisionAssumption
<1>2. PICK k \in Nat, h \in Nat : k = (R * T) * FloatPrecision /\ h = (r * q) * FloatPrecision
  BY <1>1
<1>3. CASE A = 0
  <2>1. r >= R /\ B = 0
    BY <1>3
  <2>2. R * FloatPrecision <= r * FloatPrecision
    BY <1>1, <2>1, TimesMonotone
  <2>3. R * FloatPrecision \in Nat /\ r * FloatPrecision \in Nat
    BY <1>1
  <2>4. r * FloatPrecision + (v + t) >= L
    BY <2>2, <2>3
  <2>5. L * B = 0 /\ (v + t) * B = 0
    BY <2>1
  <2> QED
    BY <1>2, <2>4, <2>5
<1>4. CASE A # 0
  <2>1. h + (v + t) * B >= L * B
    <3>1. L * A <= k + v * A
      BY <1>2
    <3>2. (L * A) * B <= (k + v * A) * B
      BY <1>2, <3>1, TimesMonotone
    <3>3. k * B <= h * A + (t * A) * B
      BY <1>2
    <3>4. /\ (k + v * A) * B = k * B + (v * A) * B
          /\ (L * A) * B = (L * B) * A
          /\ h * A + (t * A) * B + (v * A) * B = (h + (v + t) * B) * A
      BY <1>2
    <3>5. k * B \in Nat /\ (v * A) * B \in Nat /\ h * A + (t * A) * B \in Nat
      BY <1>2
    <3>6. (L * B) * A <= (h + (v + t) * B) * A
      BY <3>2, <3>3, <3>4, <3>5
    <3>7. L * B \in Int /\ h + (v + t) * B \in Int /\ A \in Nat \ {0}
      BY <1>2, <1>4
    <3> QED
      BY <3>6, <3>7, Cancel
  <2>2. r * FloatPrecision + (v + t) >= L
    <3>1. PICK p \in Nat : p = r * FloatPrecision
      BY <1>1
    <3>2. h = q * p
      BY <1>1, <1>2, <3>1
    <3>3. q * p <= B * p
      BY <3>1, TimesMonotone
    <3>4. p * B + (v + t) * B = (p + (v + t)) * B /\ B * p = p * B
      BY <3>1
    <3>5. L * B <= (p + (v + t)) * B
      BY <1>2, <2>1, <3>2, <3>3, <3>4
    <3>6. L \in Int /\ p + (v + t) \in Int /\ B \in Nat \ {0}
      BY <1>4, <3>1
    <3>7. L <= p + (v + t)
      BY <3>5, <3>6, Cancel
    <3> QED
      BY <3>1, <3>7
  <2> QED
    BY <1>2, <2>1, <2>2
<1> QED
  BY <1>3, <1>4

(* The same trade, counted in lamports times S.                             *)
LEMMA TradeScaled ==
  ASSUME NEW R \in Nat, NEW T \in Nat, NEW A \in Nat, NEW r \in Nat, NEW q \in Nat, NEW B \in Nat,
         NEW t \in Nat, NEW S \in Nat, OneTrade(R, T, A, r, q, B, t)
  PROVE  OneTrade(R * S, T, A, r * S, q, B, t * S)
<1> USE DEF OneTrade
<1>1. A = 0 => r * S >= R * S
  <2>1. ASSUME A = 0 PROVE R * S <= r * S
    BY <2>1, TimesMonotone
  <2> QED
    BY <2>1
<1>2. PICK F \in Nat : F = FloatPrecision
  BY FloatPrecisionAssumption
<1>3. PICK k \in Nat, h \in Nat, g \in Nat :
        k = ((R * T) * F) * B /\ h = ((r * q) * F) * A /\ g = (t * A) * B
  OBVIOUS
<1>4. k * S <= (h + g) * S
  <2>1. k <= h + g
    BY <1>2, <1>3
  <2> QED
    BY <2>1, TimesMonotone
<1>5. k * S = (((R * S) * T) * F) * B
  BY <1>3
<1>6. (h + g) * S = (((r * S) * q) * F) * A + ((t * S) * A) * B
  <2>1. (h + g) * S = h * S + g * S
    OBVIOUS
  <2>2. h * S = (((r * S) * q) * F) * A
    BY <1>3
  <2>3. g * S = ((t * S) * A) * B
    BY <1>3
  <2> QED
    BY <2>1, <2>2, <2>3
<1>7. (((R * S) * T) * F) * B <= (((r * S) * q) * F) * A + ((t * S) * A) * B
  BY <1>4, <1>5, <1>6
<1> QED
  BY <1>1, <1>2, <1>7

(* One trade, and what it leaves of the curve's virtual lamports: S is the  *)
(* supply, o the tokens offered.                                            *)
LEMMA LossAfterTrade ==
  ASSUME NEW R \in Nat, NEW T \in Nat, NEW A \in Nat, NEW r \in Nat, NEW q \in Nat, NEW B \in Nat,
         NEW t \in Nat, NEW S \in Nat, NEW v \in Nat, NEW L \in Nat,
         OneTrade(R, T, A, r, q, B, t), Above(R * S, T, A, L, v * S)
  PROVE  Above(r * S, q, B, L, (v + t) * S)
<1>1. OneTrade(R * S, T, A, r * S, q, B, t * S)
  BY TradeScaled
<1>2. R * S \in Nat /\ r * S \in Nat /\ t * S \in Nat /\ v * S \in Nat
  OBVIOUS
<1>3. Above(r * S, q, B, L, v * S + t * S)
  <2>1. ASSUME NEW X \in Nat, NEW x \in Nat, NEW y \in Nat, NEW z \in Nat,
               OneTrade(X, T, A, x, q, B, y), Above(X, T, A, L, z)
        PROVE  Above(x, q, B, L, z + y)
    BY <2>1, LossAdds
  <2> QED
    BY <1>1, <1>2, <2>1, Zenon
<1>4. v * S + t * S = (v + t) * S
  OBVIOUS
<1> QED
  BY <1>3, <1>4

(* What a step touches of a mint.                                           *)
LEMMA TouchedBySell ==
  ASSUME NEW w, NEW m \in Mints, NEW a, NEW adjusted, NEW out, Sold(w, m, a, adjusted, out)
  PROVE  Touched(m) = curve[m].reserve_lamport
<1>1. SwapEvent(m, Sell, a, out) \in emitted'
  BY DEF Sold
<1>2. Trades(m, Sell)
  BY <1>1, EventFields DEF Trades
<1> QED
  BY <1>2 DEF Touched

LEMMA TouchedByBuy ==
  ASSUME NEW w, NEW m \in Mints, NEW a, NEW amount, NEW adjusted, NEW out,
         Bought(w, m, a, amount, adjusted, out)
  PROVE  Touched(m) = curve'[m].reserve_lamport - curve[m].reserve_lamport
<1>1. SwapEvent(m, Buy, a, out) \in emitted'
  BY DEF Bought
<1>2. Trades(m, Buy)
  BY <1>1, EventFields DEF Trades
<1>3. ASSUME NEW e \in emitted', e.event = "swap" PROVE e.direction = Buy
  <2>1. e = SwapEvent(m, Buy, a, out) \/ e = [event |-> "complete", mint |-> m]
    BY <1>3 DEF Bought
  <2>2. e # [event |-> "complete", mint |-> m]
    BY <1>3
  <2> QED
    BY <2>1, <2>2, EventFields
<1>4. ~Trades(m, Sell)
  BY <1>3 DEF Trades, Buy, Sell
<1> QED
  BY <1>2, <1>4 DEF Touched

LEMMA TouchedCounts ==
  ASSUME TypeOK, Next, NEW m \in Mints
  PROVE  Touched(m) \in Nat
<1>1. curve[m].reserve_lamport \in Nat
  BY BookTypes
<1>2. CASE Trades(m, Sell)
  BY <1>1, <1>2 DEF Touched
<1>3. CASE ~Trades(m, Sell) /\ Trades(m, Buy)
  <2>1. PICK e \in emitted' : e.event = "swap" /\ e.mint = m /\ e.direction = Buy
    BY <1>3 DEF Trades
  <2>2. PICK w \in Wallets, n \in Mints, a \in Amounts, adjusted \in U64, out \in U64 :
           \/ Sold(w, n, a, adjusted, out) /\ e = SwapEvent(n, Sell, a, out)
           \/ \E amount \in Nat :
                Bought(w, n, a, amount, adjusted, out) /\ e = SwapEvent(n, Buy, a, out)
    BY <2>1, SwapEvents
  <2>3. PICK amount \in Nat :
           Bought(w, n, a, amount, adjusted, out) /\ e = SwapEvent(n, Buy, a, out)
    BY <2>1, <2>2, EventFields DEF Buy, Sell
  <2>4. n = m
    BY <2>1, <2>3, EventFields
  <2>5. a \in Nat /\ Bought(w, m, a, amount, adjusted, out)
    BY <2>3, <2>4, AmountAssumption
  <2>6. curve'[m].reserve_lamport = curve[m].reserve_lamport + amount
    BY <2>2, <2>5, BoughtReserves
  <2>7. Touched(m) = curve'[m].reserve_lamport - curve[m].reserve_lamport
    BY <1>3 DEF Touched
  <2> QED
    BY <1>1, <2>6, <2>7
<1>4. CASE ~Trades(m, Sell) /\ ~Trades(m, Buy)
  BY <1>4 DEF Touched
<1> QED
  BY <1>2, <1>3, <1>4
LEMMA SellLoses ==
  ASSUME TypeOK, Books, Conserved, volume \in [Mints -> Nat], offered \in [Mints -> Nat],
         NEW w \in Wallets, NEW m \in Mints, NEW a \in Nat, NEW adjusted \in U64, NEW out \in U64,
         Sold(w, m, a, adjusted, out), LossOf(m), volume'[m] = volume[m] + Touched(m),
         offered'[m] = offered[m]
  PROVE  LossOf(m)'
<1>1. PICK R \in Nat, T \in Nat, S \in Nat, D \in Nat, L0 \in Nat, v \in Nat, o \in Nat :
        /\ R = curve[m].reserve_lamport /\ T = curve[m].reserve_token
        /\ S = supply[m] /\ D = drained[m]
        /\ L0 = curve[m].init_lamport /\ v = volume[m] /\ o = offered[m]
  BY BookTypes, TotalTypes
<1>2. /\ adjusted <= a /\ out <= R /\ adjusted \in Nat /\ out \in Nat
      /\ curve'[m].init_lamport = L0
  BY <1>1, SoldCurve
<1>3. PICK f \in Nat, r \in Nat, q \in Nat : f = a - adjusted /\ r = R - out /\ q = T + a
  <2>1. a - adjusted \in Nat /\ R - out \in Nat /\ T + a \in Nat
    BY <1>2
  <2> QED
    BY <2>1
<1>4. PICK A \in Nat, B \in Nat, L \in Nat :
        A = S + D /\ B = S + (D + f) /\ L = (L0 * o) * FloatPrecision
  BY FloatPrecisionAssumption
<1>5. supply'[m] = S /\ drained'[m] = D + f
  BY <1>1, <1>3 DEF Sold, TypeOK
<1>6. curve'[m].reserve_lamport = r /\ curve'[m].reserve_token = q
  <2>1. curve'[m].reserve_token = T + a /\ curve'[m].reserve_lamport = R - out
    BY <1>1, SoldReserves
  <2> QED
    BY <1>3, <2>1
<1>7. a <= tokens[m][w] /\ tokens[m][w] \in Nat /\ a # 0 /\ ~curve[m].is_completed
  BY TotalTypes DEF Sold
<1>8. q <= B /\ A # 0 /\ B # 0
  <2>1. T + tokens[m][w] <= S + D
    BY <1>1, HoldingsCounted
  <2> QED
    BY <1>3, <1>4, <1>7, <2>1
<1>9. Touched(m) = R
  BY <1>1, TouchedBySell
<1>10. ((R * T) * FloatPrecision) * B <= ((r * q) * FloatPrecision) * A + (R * A) * B
  <2>1. supply[m] + drained[m] = A /\ supply'[m] + drained'[m] = B
    BY <1>1, <1>4, <1>5
  <2>2. ((curve[m].reserve_lamport * curve[m].reserve_token) * FloatPrecision)
             * (supply'[m] + drained'[m])
           <= ((curve'[m].reserve_lamport * curve'[m].reserve_token) * FloatPrecision)
                * (supply[m] + drained[m])
              + (curve[m].reserve_lamport * (supply[m] + drained[m])) * (supply'[m] + drained'[m])
    BY SellWorth
  <2> QED
    BY <1>1, <1>6, <2>1, <2>2, Zenon
<1>11. /\ (R * S) * FloatPrecision + v * S >= L
       /\ ((R * S) * T) * FloatPrecision + (v * S) * A >= L * A
  BY <1>1, <1>4, <1>7 DEF LossOf
<1>12. Above(r * S, q, B, L, (v + R) * S)
  <2>1. OneTrade(R, T, A, r, q, B, R)
    BY <1>8, <1>10 DEF OneTrade
  <2>2. Above(R * S, T, A, L, v * S)
    BY <1>11 DEF Above
  <2> QED
    BY <2>1, <2>2, LossAfterTrade
<1>13. volume'[m] = v + R /\ offered'[m] = o /\ supply'[m] + drained'[m] = B
  BY <1>1, <1>4, <1>5, <1>9
<1> QED
  BY <1>2, <1>4, <1>5, <1>6, <1>12, <1>13 DEF LossOf, Above

LEMMA BuyLoses ==
  ASSUME TypeOK, Books, Conserved, volume \in [Mints -> Nat], offered \in [Mints -> Nat],
         NEW w \in Wallets, NEW m \in Mints, NEW a \in Nat, NEW amount \in Nat,
         NEW adjusted \in U64, NEW out \in U64, Bought(w, m, a, amount, adjusted, out),
         LossOf(m), volume'[m] = volume[m] + Touched(m),
         offered'[m] = offered[m]
  PROVE  LossOf(m)'
<1>1. PICK R \in Nat, T \in Nat, S \in Nat, D \in Nat, L0 \in Nat, v \in Nat, o \in Nat :
        /\ R = curve[m].reserve_lamport /\ T = curve[m].reserve_token
        /\ S = supply[m] /\ D = drained[m]
        /\ L0 = curve[m].init_lamport /\ v = volume[m] /\ o = offered[m]
  BY BookTypes, TotalTypes
<1>2. out <= T /\ out \in Nat /\ curve'[m].init_lamport = L0
  BY <1>1, BoughtCurve
<1>3. PICK r \in Nat, q \in Nat : r = R + amount /\ q = T - out
  <2>1. R + amount \in Nat /\ T - out \in Nat
    BY <1>2
  <2> QED
    BY <2>1
<1>4. PICK A \in Nat, L \in Nat : A = S + D /\ L = (L0 * o) * FloatPrecision
  BY FloatPrecisionAssumption
<1>5. supply'[m] = S /\ drained'[m] = D
  BY <1>1 DEF Bought, TypeOK
<1>6. curve'[m].reserve_lamport = r /\ curve'[m].reserve_token = q
  <2>1. /\ curve'[m].reserve_token = curve[m].reserve_token - out
        /\ curve'[m].reserve_lamport = curve[m].reserve_lamport + amount
    BY BoughtReserves
  <2> QED
    BY <1>1, <1>3, <2>1
<1>7. tokens[m][w] \in Nat /\ ~curve[m].is_completed
  BY TotalTypes DEF Bought
<1>8. q <= A /\ r >= R
  <2>1. T + tokens[m][w] <= S + D
    BY <1>1, HoldingsCounted
  <2> QED
    BY <1>2, <1>3, <1>4, <1>7, <2>1
<1>9. Touched(m) = amount /\ r - R = amount
  <2>1. Touched(m) = curve'[m].reserve_lamport - curve[m].reserve_lamport
    BY TouchedByBuy
  <2> QED
    BY <1>1, <1>3, <1>6, <2>1
<1>10. ((R * T) * FloatPrecision) * A <= ((r * q) * FloatPrecision) * A + (amount * A) * A
  <2>1. supply[m] + drained[m] = A /\ supply'[m] + drained'[m] = A
    BY <1>1, <1>4, <1>5
  <2>2. ((curve[m].reserve_lamport * curve[m].reserve_token) * FloatPrecision)
             * (supply'[m] + drained'[m])
           <= ((curve'[m].reserve_lamport * curve'[m].reserve_token) * FloatPrecision)
                * (supply[m] + drained[m])
              + ((curve'[m].reserve_lamport - curve[m].reserve_lamport) * (supply[m] + drained[m]))
                * (supply'[m] + drained'[m])
    BY BuyWorth
  <2> QED
    BY <1>1, <1>6, <1>9, <2>1, <2>2, Zenon
<1>11. /\ (R * S) * FloatPrecision + v * S >= L
       /\ ((R * S) * T) * FloatPrecision + (v * S) * A >= L * A
  BY <1>1, <1>4, <1>7 DEF LossOf
<1>12. Above(r * S, q, A, L, (v + amount) * S)
  <2>1. OneTrade(R, T, A, r, q, A, amount)
    BY <1>8, <1>10 DEF OneTrade
  <2>2. Above(R * S, T, A, L, v * S)
    BY <1>11 DEF Above
  <2> QED
    BY <2>1, <2>2, LossAfterTrade
<1>13. volume'[m] = v + amount /\ offered'[m] = o /\ supply'[m] + drained'[m] = A
  BY <1>1, <1>4, <1>5, <1>9
<1> QED
  BY <1>2, <1>4, <1>5, <1>6, <1>12, <1>13 DEF LossOf, Above

(* A launch offers at most the supply, and records what it offers.          *)
LEMMA LaunchOffers ==
  ASSUME TypeOK, Books, VolumeNext, NEW m \in Mints, m \notin launched, m \in launched'
  PROVE  \E k \in Nat, o \in Nat, S \in Nat :
           /\ o <= S
           /\ curve'[m].reserve_lamport = k /\ curve'[m].init_lamport = k
           /\ curve'[m].reserve_token = o /\ supply'[m] = S
           /\ offered'[m] = o /\ drained'[m] = 0
<1>1. PICK w \in Wallets, team \in Wallets, n \in Mints, l \in Launches : Launch(w, team, n, l)
  <2>1. CASE Administer
    BY <2>1 DEF Administer
  <2>2. [AnyNext]_vars
    BY NextIsAny DEF VolumeNext
  <2> QED
    BY <2>1, <2>2, OnlyAdministerConfigures
<1> DEFINE o == OnCurve(l.token_supply, config.init_bonding_curve)
<1>2. PICK S \in Nat, k \in Nat : S = l.token_supply /\ k = l.reserve_lamport
  BY LaunchAssumption, U64Nat
<1>3. /\ launched' = launched \cup {n}
      /\ curve' = [curve EXCEPT ![n] = NewCurve(o, k, w)]
      /\ supply' = [supply EXCEPT ![n] = S]
      /\ drained' = drained /\ o <= S
  BY <1>1, <1>2 DEF Launch, books
<1>4. m = n
  BY <1>3
<1>5. /\ curve'[m].reserve_lamport = k /\ curve'[m].init_lamport = k
      /\ curve'[m].reserve_token = o /\ supply'[m] = S
  BY <1>3, <1>4 DEF TypeOK, NewCurve
<1>6. drained'[m] = 0
  BY <1>3 DEF Books, UnlaunchedEmpty, Blank
<1>7. offered'[m] = o
  BY <1>5 DEF VolumeNext
<1>8. o \in Nat
  <2>1. TypeOK'
    BY TypeStep, NextIsAny DEF VolumeNext
  <2> QED
    BY <1>5, <2>1, CurveFields, U64Nat DEF TypeOK
<1> QED
  BY <1>2, <1>3, <1>5, <1>6, <1>7, <1>8

(* The arithmetic of a launch, and of volume that grows without a trade.    *)
LEMMA LaunchAbove ==
  ASSUME NEW k \in Nat, NEW o \in Nat, NEW S \in Nat, NEW u \in Nat, o <= S
  PROVE  Above(k * S, o, S, (k * o) * FloatPrecision, u * S)
<1>1. FloatPrecision \in Nat
  BY FloatPrecisionAssumption
<1>2. o * (k * FloatPrecision) <= S * (k * FloatPrecision)
  BY <1>1, TimesMonotone
<1>3. o * (k * FloatPrecision) = (k * o) * FloatPrecision
      /\ S * (k * FloatPrecision) = (k * S) * FloatPrecision
  BY <1>1
<1>4. /\ (k * o) * FloatPrecision \in Nat /\ (k * S) * FloatPrecision \in Nat
      /\ u * S \in Nat /\ (u * S) * S \in Nat /\ ((k * S) * o) * FloatPrecision \in Nat
  BY <1>1
<1>5. (k * S) * FloatPrecision + u * S >= (k * o) * FloatPrecision
  BY <1>2, <1>3, <1>4
<1>6. ((k * S) * o) * FloatPrecision = ((k * o) * FloatPrecision) * S
  BY <1>1
<1> QED
  BY <1>4, <1>5, <1>6 DEF Above

LEMMA VolumeGrows ==
  ASSUME NEW X \in Int, NEW L \in Int, NEW v \in Nat, NEW t \in Nat, NEW S \in Nat,
         NEW A \in Nat, X + (v * S) * A >= L
  PROVE  X + ((v + t) * S) * A >= L
<1>1. ((v + t) * S) * A = (v * S) * A + (t * S) * A
  OBVIOUS
<1>2. (t * S) * A \in Nat /\ (v * S) * A \in Nat
  OBVIOUS
<1> QED
  BY <1>1, <1>2

LEMMA LossRests ==
  ASSUME TypeOK, volume \in [Mints -> Nat], offered \in [Mints -> Nat], NEW m \in Mints, NEW t \in Nat,
         LossOf(m), volume'[m] = volume[m] + t, offered'[m] = offered[m],
         supply'[m] = supply[m], curve'[m] = curve[m],
         ~curve[m].is_completed => drained'[m] = drained[m]
  PROVE  LossOf(m)'
<1>1. PICK R \in Nat, T \in Nat, S \in Nat, D \in Nat, L0 \in Nat, v \in Nat, o \in Nat :
        /\ R = curve[m].reserve_lamport /\ T = curve[m].reserve_token
        /\ S = supply[m] /\ D = drained[m]
        /\ L0 = curve[m].init_lamport /\ v = volume[m] /\ o = offered[m]
  BY BookTypes, TotalTypes
<1>2. PICK L \in Nat, X \in Nat, Y \in Nat :
        /\ L = (L0 * o) * FloatPrecision /\ X = (R * S) * FloatPrecision
        /\ Y = ((R * S) * T) * FloatPrecision
  BY FloatPrecisionAssumption
<1>3. X + (v + t) * S >= L
  <2>1. X + v * S >= L
    BY <1>1, <1>2 DEF LossOf
  <2>2. (v + t) * S = v * S + t * S /\ t * S \in Nat /\ v * S \in Nat
    OBVIOUS
  <2> QED
    BY <2>1, <2>2
<1>4. ASSUME ~curve[m].is_completed PROVE Y + ((v + t) * S) * (S + D) >= L * (S + D)
  <2>1. Y + (v * S) * (S + D) >= L * (S + D)
    BY <1>1, <1>2, <1>4 DEF LossOf
  <2>2. L * (S + D) \in Int /\ Y \in Int /\ S + D \in Nat
    OBVIOUS
  <2> QED
    BY <2>1, <2>2, VolumeGrows
<1> QED
  BY <1>1, <1>2, <1>3, <1>4 DEF LossOf

LEMMA LossOpens ==
  ASSUME TypeOK, Books, VolumeNext, volume \in [Mints -> Nat],
         NEW m \in Mints, m \notin launched, m \in launched', NEW t \in Nat,
         volume'[m] = volume[m] + t
  PROVE  LossOf(m)'
<1>1. PICK k \in Nat, o \in Nat, S \in Nat :
        /\ o <= S
        /\ curve'[m].reserve_lamport = k /\ curve'[m].init_lamport = k
        /\ curve'[m].reserve_token = o /\ supply'[m] = S
        /\ offered'[m] = o /\ drained'[m] = 0
  BY LaunchOffers
<1>2. PICK u \in Nat : u = volume'[m]
  <2>1. volume[m] + t \in Nat
    OBVIOUS
  <2> QED
    BY <2>1
<1>3. Above(k * S, o, S, (k * o) * FloatPrecision, u * S)
  BY <1>1, LaunchAbove
<1>4. S + 0 = S
  OBVIOUS
<1> QED
  BY <1>1, <1>2, <1>3, <1>4 DEF LossOf, Above

LEMMA LossStep ==
  ASSUME TypeOK, Books, Conserved, LossKept, [VolumeNext]_<<vars, history>>
  PROVE  LossKept'
<1>1. CASE UNCHANGED <<vars, history>>
  BY <1>1 DEF LossKept, LossOf, vars, curveVars, books, history
<1>2. CASE VolumeNext
  <2>1. Next /\ [AnyNext]_vars /\ volume' = [m \in Mints |-> volume[m] + Touched(m)]
    BY <1>2, NextIsAny DEF VolumeNext
  <2>2. volume \in [Mints -> Nat] /\ offered \in [Mints -> Nat]
    BY DEF LossKept
  <2>3. ASSUME NEW m \in Mints
        PROVE  /\ volume[m] \in Nat /\ Touched(m) \in Nat
               /\ volume'[m] = volume[m] + Touched(m) /\ volume'[m] \in Nat
    <3>1. Touched(m) \in Nat
      BY <2>1, TouchedCounts
    <3> QED
      BY <2>1, <2>2, <3>1
  <2>4. volume' \in [Mints -> Nat]
    BY <2>1, <2>3
  <2>5. offered' \in [Mints -> Nat]
    <3>1. ASSUME NEW m \in Mints PROVE curve'[m].reserve_token \in Nat
      <4>1. TypeOK'
        BY <2>1, TypeStep
      <4> QED
        BY <4>1, CurveFields, U64Nat DEF TypeOK
    <3>2. offered' = [m \in Mints |-> IF m \in launched' \ launched THEN curve'[m].reserve_token
                                                                    ELSE offered[m]]
      BY <1>2 DEF VolumeNext
    <3> QED
      BY <2>2, <3>1, <3>2
  <2>6. ASSUME NEW m \in launched', m \notin settled' PROVE LossOf(m)'
    <3>1. m \in Mints
      BY <2>1, TypeStep DEF TypeOK
    <3>2. PICK t \in Nat : t = Touched(m) /\ volume'[m] = volume[m] + t
      BY <2>3, <3>1
    <3>3. CASE m \notin launched
      BY <1>2, <2>2, <2>6, <3>1, <3>2, <3>3, LossOpens
    <3>4. CASE m \in launched
      <4>1. supply'[m] = supply[m] /\ offered'[m] = offered[m]
        <5>1. supply'[m] = supply[m]
          BY <2>1, <3>4, SupplyFixed
        <5> QED
          BY <1>2, <3>1, <3>4, <5>1 DEF VolumeNext
      <4>2. ~PaysOut(m) /\ m \notin settled
        <5>1. ~PaysOut(m)
          BY <2>6 DEF PaysOut
        <5> QED
          BY <2>1, <2>6, <3>1, <5>1, MintSteps
             DEF Rests, Moves, Opens, Sells, Buys, PaysOut, Migrates, Receives
      <4>3. LossOf(m)
        BY <3>4, <4>2 DEF LossKept
      <4>4. CASE Rests(m) \/ Receives(m) \/ Migrates(m)
        <5>1. curve'[m] = curve[m] /\ (~curve[m].is_completed => drained'[m] = drained[m])
          BY <4>4 DEF Rests, Receives, Migrates
        <5> QED
          BY <2>2, <3>1, <3>2, <4>1, <4>3, <5>1, LossRests
      <4>5. CASE Traded(m)
        <5>1. PICK w \in Wallets, a \in Nat, adjusted \in U64, out \in U64 :
                 \/ Sold(w, m, a, adjusted, out)
                 \/ \E amount \in Nat : Bought(w, m, a, amount, adjusted, out)
          BY <4>5 DEF Traded
        <5>2. volume'[m] = volume[m] + Touched(m)
          BY <2>3, <3>1
        <5>3. CASE Sold(w, m, a, adjusted, out)
          BY <2>2, <3>1, <4>1, <4>3, <5>2, <5>3, SellLoses
        <5>4. ASSUME NEW amount \in Nat, Bought(w, m, a, amount, adjusted, out)
              PROVE  LossOf(m)'
          BY <2>2, <3>1, <4>1, <4>3, <5>2, <5>4, BuyLoses
        <5> QED
          BY <5>1, <5>3, <5>4
      <4>6. ~Opens(m)
        BY <3>4 DEF Opens
      <4> QED
        BY <2>1, <3>1, <4>2, <4>4, <4>5, <4>6, MintTrades
    <3> QED
      BY <3>3, <3>4
  <2> QED
    BY <2>4, <2>5, <2>6 DEF LossKept
<1> QED
  BY <1>1, <1>2

(* Whatever the precision of the arithmetic, and whatever part of the       *)
(* supply the team keeps and sells: of the virtual lamports its offered     *)
(* tokens are worth, a curve lacks at most one part in FloatPrecision of    *)
(* the lamports its trades touched, in any order, at any fees, by whomever  *)
(* (launch, swap, cal_amount_out).                                          *)
THEOREM VirtualLossBoundedCorrect == VolumeSpec => []VirtualLossBounded
<1>1. VolumeSpec => AnySpec
  <2>1. VolumeInit => Init
    BY DEF VolumeInit
  <2>2. [VolumeNext]_<<vars, history>> => [AnyNext]_vars
    BY NextIsAny DEF VolumeNext
  <2> QED
    BY <2>1, <2>2, PTL DEF VolumeSpec, AnySpec
<1>2. VolumeInit => LossKept
  <2> SUFFICES ASSUME VolumeInit PROVE LossKept
    OBVIOUS
  <2>1. volume \in [Mints -> Nat] /\ offered \in [Mints -> Nat] /\ launched = {}
    BY DEF VolumeInit, Init
  <2> QED
    BY <2>1 DEF LossKept
<1>3. TypeOK /\ Books /\ Conserved /\ LossKept /\ [VolumeNext]_<<vars, history>> => LossKept'
  BY LossStep
<1>4. VolumeSpec => [](TypeOK /\ LossKept)
  BY <1>1, <1>2, <1>3, BooksHold, ConservedHolds, PTL DEF VolumeSpec, AnySpec
<1>5. TypeOK /\ LossKept => VirtualLossBounded
  <2> SUFFICES ASSUME TypeOK, LossKept, NEW m \in launched, m \notin settled
               PROVE  (curve[m].init_lamport * offered[m] - curve[m].reserve_lamport * supply[m])
                        * FloatPrecision <= volume[m] * supply[m]
    BY DEF VirtualLossBounded
  <2>1. m \in Mints
    BY DEF TypeOK
  <2>2. PICK R \in Nat, L0 \in Nat, S \in Nat, o \in Nat, v \in Nat :
          /\ R = curve[m].reserve_lamport /\ L0 = curve[m].init_lamport
          /\ S = supply[m] /\ o = offered[m] /\ v = volume[m]
    BY <2>1, BookTypes, TotalTypes DEF LossKept
  <2>3. (R * S) * FloatPrecision + v * S >= (L0 * o) * FloatPrecision
    BY <2>2 DEF LossKept, LossOf
  <2>4. PICK X \in Nat, Y \in Nat, V \in Nat : X = R * S /\ Y = L0 * o /\ V = v * S
    OBVIOUS
  <2>5. /\ (Y - X) * FloatPrecision = Y * FloatPrecision - X * FloatPrecision
        /\ X * FloatPrecision \in Nat /\ Y * FloatPrecision \in Nat
    BY FloatPrecisionAssumption
  <2>6. (Y - X) * FloatPrecision <= V
    BY <2>3, <2>4, <2>5
  <2> QED
    BY <2>2, <2>4, <2>6
<1> QED
  BY <1>4, <1>5, PTL
===============================================================================
