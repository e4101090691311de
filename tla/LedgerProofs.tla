------------------------------ MODULE LedgerProofs ------------------------------
(***************************************************************************)
(* The books of the program, for all wallets, mints, configurations and    *)
(* amounts: what the vault holds of a mint and what its curve records.     *)
(*                                                                         *)
(* A transaction touches the accounts of at most one mint.  The first half *)
(* shows this and names the seven ways it can (MintSteps); every theorem   *)
(* of the second half is a case analysis over these.                       *)
(***************************************************************************)
EXTENDS PumpfunProofs, PumpfunTotals

(* Nothing recorded of n changes.                                           *)
Rests(n) ==
  /\ curve'[n] = curve[n] /\ vaultToken'[n] = vaultToken[n]
  /\ net'[n] = net[n] /\ migrated'[n] = migrated[n]
  /\ drained'[n] = drained[n] /\ given'[n] = given[n]
  /\ (n \in launched') <=> (n \in launched)
  /\ (n \in settled') <=> (n \in settled)

Opens(m) ==
  /\ m \notin launched /\ m \in launched' /\ settled' = settled
  /\ vaultToken'[m] = curve'[m].reserve_token
  /\ curve'[m].reserve_lamport = curve'[m].init_lamport
  /\ curve'[m].reserve_token \in Nat /\ curve'[m].init_lamport \in Nat
  /\ curve'[m].is_completed = FALSE
  /\ net'[m] = net[m] /\ migrated'[m] = migrated[m]
  /\ drained'[m] = drained[m] /\ given'[m] = given[m]

Sells(m) == \E amount \in Nat, fee \in Nat, out \in Nat :
  /\ m \in launched /\ ~curve[m].is_completed
  /\ curve'[m] \in CurveType
  /\ curve'[m].init_lamport = curve[m].init_lamport
  /\ curve'[m].reserve_token = curve[m].reserve_token + amount
  /\ curve'[m].reserve_lamport = curve[m].reserve_lamport - out
  /\ vaultToken'[m] = vaultToken[m] + (amount - fee)
  /\ net'[m] = net[m] - out /\ migrated'[m] = migrated[m]
  /\ drained'[m] = drained[m] + fee /\ given'[m] = given[m]
  /\ launched' = launched /\ settled' = settled

Buys(m) == \E amount \in Nat, out \in Nat :
  /\ m \in launched /\ ~curve[m].is_completed
  /\ curve'[m] \in CurveType
  /\ curve'[m].init_lamport = curve[m].init_lamport
  /\ curve'[m].reserve_token = curve[m].reserve_token - out
  /\ curve'[m].reserve_lamport = curve[m].reserve_lamport + amount
  /\ curve'[m].reserve_lamport <= config.curve_limit /\ config.curve_limit \in Nat
  /\ curve'[m].is_completed <=> curve'[m].reserve_lamport >= config.curve_limit
  /\ vaultToken'[m] = vaultToken[m] - out
  /\ net'[m] = net[m] + amount /\ migrated'[m] = migrated[m]
  /\ drained'[m] = drained[m] /\ given'[m] = given[m]
  /\ launched' = launched /\ settled' = settled

PaysOut(m) ==
  /\ m \in launched /\ curve[m].is_completed
  /\ curve[m].init_lamport <= curve[m].reserve_lamport
  /\ curve[m].reserve_token <= vaultToken[m]
  /\ curve'[m].init_lamport = curve[m].init_lamport
  /\ curve'[m].reserve_token = 0 /\ curve'[m].reserve_lamport = 0
  /\ curve'[m].is_completed
  /\ vaultToken'[m] = vaultToken[m] - curve[m].reserve_token
  /\ net'[m] = net[m] - (curve[m].reserve_lamport - curve[m].init_lamport)
  /\ migrated'[m] = migrated[m]
  /\ drained'[m] = drained[m] /\ given'[m] = given[m]
  /\ launched' = launched /\ settled' = settled \cup {m}

Migrates(m) == \E total \in Nat, feeTokens \in Nat :
  /\ m \in launched /\ curve[m].is_completed /\ curve'[m] = curve[m]
  /\ curve[m].init_lamport < curve[m].reserve_lamport
  /\ vaultToken'[m] = vaultToken[m] - feeTokens
  /\ net'[m] = net[m] - total /\ migrated'[m] = migrated[m] + total
  /\ drained'[m] = drained[m] + feeTokens /\ given'[m] = given[m]
  /\ launched' = launched /\ settled' = settled

Receives(m) == \E amount \in Nat :
  /\ m \in launched /\ curve'[m] = curve[m]
  /\ vaultToken'[m] = vaultToken[m] + amount /\ given'[m] = given[m] + amount
  /\ net'[m] = net[m] /\ migrated'[m] = migrated[m] /\ drained'[m] = drained[m]
  /\ launched' = launched /\ settled' = settled

Moves(m) == Opens(m) \/ Sells(m) \/ Buys(m) \/ PaysOut(m) \/ Migrates(m) \/ Receives(m)

OthersRest(m) == \A n \in Mints \ {m} : Rests(n)

-------------------------------------------------------------------------------
(* Each action is one of these moves of its mint.                           *)
LEMMA LaunchMoves ==
  ASSUME TypeOK, NEW w \in Wallets, NEW team \in Wallets, NEW m \in Mints, NEW l \in Launches,
         Launch(w, team, m, l)
  PROVE  Opens(m) /\ OthersRest(m)
<1>1. PICK init \in U64 : Launched(w, m, l, init)
  BY LaunchEffect
<1>2. curve'[m] = NewCurve(init, l.reserve_lamport, w) /\ vaultToken'[m] = init
  BY <1>1 DEF Launched, TypeOK
<1>3. init \in Nat /\ l.reserve_lamport \in Nat
  BY <1>1, U64Nat DEF Launched
<1>4. Opens(m)
  BY <1>1, <1>2, <1>3 DEF Launched, NewCurve, Opens, books
<1>5. OthersRest(m)
  BY <1>1 DEF Launched, OthersRest, Rests, TypeOK, books
<1> QED
  BY <1>4, <1>5

LEMMA SellMoves ==
  ASSUME TypeOK, NEW w \in Wallets, NEW team \in Wallets, NEW m \in Mints, NEW a \in Nat,
         NEW min \in Nat, SellTokens(w, team, m, a, min)
  PROVE  Sells(m) /\ OthersRest(m)
<1>1. PICK adjusted \in U64, out \in U64 : Sold(w, m, a, adjusted, out)
  BY SellEffect
<1>2. a \in Nat /\ adjusted \in Nat /\ out \in Nat /\ a - adjusted \in Nat
  BY <1>1, U64Nat DEF Sold
<1> DEFINE after == UpdateReserves(curve[m], config, curve[m].reserve_token + a,
                                   curve[m].reserve_lamport - out)
<1>3. /\ after \in CurveType
      /\ after.init_lamport = curve[m].init_lamport
      /\ after.reserve_token = curve[m].reserve_token + a
      /\ after.reserve_lamport = curve[m].reserve_lamport - out
  BY <1>1 DEF Sold, TypeOK, UpdateReserves, CurveType
<1>4. /\ curve'[m] = after
      /\ vaultToken'[m] = vaultToken[m] + (a - (a - adjusted))
      /\ net'[m] = net[m] - out
      /\ drained'[m] = drained[m] + (a - adjusted)
  BY <1>1, <1>2 DEF Sold, TypeOK
<1> HIDE DEF after
<1>5. Sells(m)
  BY <1>1, <1>2, <1>3, <1>4 DEF Sold, Sells
<1>6. OthersRest(m)
  BY <1>1 DEF Sold, OthersRest, Rests, TypeOK
<1> QED
  BY <1>5, <1>6

LEMMA BuyMoves ==
  ASSUME TypeOK, NEW w \in Wallets, NEW team \in Wallets, NEW m \in Mints, NEW a \in Nat,
         NEW min \in Nat, BuyTokens(w, team, m, a, min)
  PROVE  Buys(m) /\ OthersRest(m)
<1>1. PICK amount \in Nat, adjusted \in U64, out \in U64 : Bought(w, m, a, amount, adjusted, out)
  BY BuyEffect
<1>2. out \in Nat /\ ~curve[m].is_completed
  BY <1>1, U64Nat DEF Bought
<1> DEFINE after == UpdateReserves(curve[m], config, curve[m].reserve_token - out,
                                   curve[m].reserve_lamport + amount)
<1>3. /\ after \in CurveType
      /\ after.init_lamport = curve[m].init_lamport
      /\ after.reserve_token = curve[m].reserve_token - out
      /\ after.reserve_lamport = curve[m].reserve_lamport + amount
      /\ after.is_completed
           <=> (curve[m].is_completed \/ curve[m].reserve_lamport + amount >= config.curve_limit)
  BY <1>1 DEF Bought, TypeOK, UpdateReserves, CurveType
<1>4. /\ curve'[m] = after
      /\ vaultToken'[m] = vaultToken[m] - out
      /\ net'[m] = net[m] + amount
  BY <1>1 DEF Bought, TypeOK
<1> HIDE DEF after
<1>5. curve'[m].is_completed <=> curve'[m].reserve_lamport >= config.curve_limit
  BY <1>2, <1>3, <1>4, Zenon
<1>6. curve'[m].reserve_lamport <= config.curve_limit /\ config.curve_limit \in Nat
  BY <1>1, <1>3, <1>4, ConfigFields DEF Bought, TypeOK
<1>7. Buys(m)
  BY <1>1, <1>2, <1>3, <1>4, <1>5, <1>6 DEF Bought, Buys
<1>8. OthersRest(m)
  BY <1>1 DEF Bought, OthersRest, Rests, TypeOK
<1> QED
  BY <1>7, <1>8

LEMMA WithdrawMoves ==
  ASSUME TypeOK, NEW w \in Wallets, NEW m \in Mints, Withdraw(w, m)
  PROVE  PaysOut(m) /\ OthersRest(m)
<1>1. Withdrawn(w, m)
  BY WithdrawEffect
<1>2. /\ curve'[m] = Emptied(curve[m], config)
      /\ vaultToken'[m] = vaultToken[m] - curve[m].reserve_token
      /\ net'[m] = net[m] - Raised(curve[m])
  BY <1>1 DEF Withdrawn, TypeOK
<1>3. curve[m].init_lamport <= curve[m].reserve_lamport
  BY <1>1, CurveFields DEF Withdrawn, Raised
<1>4. PaysOut(m)
  BY <1>1, <1>2, <1>3 DEF Withdrawn, PaysOut, Raised
<1>5. OthersRest(m)
  BY <1>1 DEF Withdrawn, OthersRest, Rests, TypeOK
<1> QED
  BY <1>4, <1>5

LEMMA TransferFeeMoves ==
  ASSUME TypeOK, NEW w \in Wallets, NEW team \in Wallets, NEW m \in Mints,
         TransferFee(w, team, m)
  PROVE  Migrates(m) /\ OthersRest(m)
<1>1. PICK fee \in Nat, pool \in Nat, feeTokens \in Nat : Migrated(w, m, fee, pool, feeTokens)
  BY TransferFeeEffect
<1>2. PICK total \in Nat : total = MarketCreateFee + fee + pool
  BY FeeAssumption
<1>3. /\ vaultToken'[m] = vaultToken[m] - feeTokens
      /\ net'[m] = net[m] - total
      /\ migrated'[m] = migrated[m] + total
      /\ drained'[m] = drained[m] + feeTokens
      /\ curve'[m] = curve[m]
  BY <1>1, <1>2 DEF Migrated, TypeOK
<1>4. curve[m].init_lamport < curve[m].reserve_lamport
  BY <1>1, CurveFields, FeeAssumption DEF Migrated, Raised, TypeOK
<1>5. Migrates(m)
  BY <1>1, <1>2, <1>3, <1>4 DEF Migrated, Migrates
<1>6. OthersRest(m)
  BY <1>1 DEF Migrated, OthersRest, Rests, TypeOK
<1> QED
  BY <1>5, <1>6

LEMMA GiftMoves ==
  ASSUME TypeOK, NEW w \in Wallets, NEW m \in Mints, NEW g \in Gifts, GiftTokens(w, m, g)
  PROVE  Receives(m) /\ OthersRest(m)
<1>1. g \in Nat
  BY SolAssumption
<1>2. Receives(m)
  BY <1>1 DEF GiftTokens, Receives, TypeOK
<1>3. OthersRest(m)
  BY DEF GiftTokens, OthersRest, Rests, TypeOK
<1> QED
  BY <1>2, <1>3

LEMMA MintSteps ==
  TypeOK /\ [AnyNext]_vars =>
    \/ \A n \in Mints : Rests(n)
    \/ \E m \in Mints : Moves(m) /\ OthersRest(m)
<1> SUFFICES ASSUME TypeOK, [AnyNext]_vars
             PROVE  \/ \A n \in Mints : Rests(n)
                    \/ \E m \in Mints : Moves(m) /\ OthersRest(m)
  OBVIOUS
<1>1. CASE UNCHANGED vars
  BY <1>1 DEF vars, curveVars, books, Rests
<1>2. CASE Administer
  BY <1>2 DEF Administer, books, Rests
<1>3. ASSUME NEW w \in Wallets, NEW g \in Gifts, GiftLamports(w, g)
      PROVE  \A n \in Mints : Rests(n)
  BY <1>3 DEF GiftLamports, books, Rests
<1>4. ASSUME NEW k \in Keys, AddWl(k) \/ \E w \in Wallets : RemoveWl(w, k)
      PROVE  \A n \in Mints : Rests(n)
  BY <1>4 DEF AddWl, RemoveWl, books, Rests
<1> QED
  BY <1>1, <1>2, <1>3, <1>4, LaunchMoves, SellMoves, BuyMoves, WithdrawMoves,
     TransferFeeMoves, GiftMoves DEF AnyNext, Moves

-------------------------------------------------------------------------------
(* The inductive invariant: the ledgers, and the two facts that make them   *)
(* inductive.  A mint nobody launched has nothing in its books, and a       *)
(* settled curve stays completed with empty reserves.                       *)
Blank(m) ==
  /\ curve[m].reserve_token = 0 /\ curve[m].reserve_lamport = 0
  /\ curve[m].init_lamport = 0
  /\ vaultToken[m] = 0 /\ given[m] = 0 /\ drained[m] = 0
  /\ net[m] = 0 /\ migrated[m] = 0

UnlaunchedEmpty == \A m \in Mints : m \notin launched => Blank(m)

SettledEmpty == \A m \in Mints : m \in settled =>
  curve[m].is_completed /\ curve[m].reserve_token = 0 /\ curve[m].reserve_lamport = 0

Books == UnlaunchedEmpty /\ SettledEmpty /\ TokenLedger /\ LamportLedger

(* The books of one mint.                                                   *)
BooksOf(m) ==
  /\ m \notin launched => Blank(m)
  /\ m \in settled =>
       curve[m].is_completed /\ curve[m].reserve_token = 0 /\ curve[m].reserve_lamport = 0
  /\ vaultToken[m] + drained[m] = curve[m].reserve_token + given[m]
  /\ net[m] + migrated[m] =
       IF m \in settled THEN 0 ELSE curve[m].reserve_lamport - curve[m].init_lamport

LEMMA BooksByMint == Books <=> \A m \in Mints : BooksOf(m)
BY DEF Books, BooksOf, UnlaunchedEmpty, SettledEmpty, TokenLedger, LamportLedger

(* What is recorded of a mint are numbers.                                  *)
LEMMA BookTypes ==
  ASSUME TypeOK, NEW m \in Mints
  PROVE  /\ curve[m] \in CurveType
         /\ curve[m].init_lamport \in Nat /\ curve[m].reserve_lamport \in Nat
         /\ curve[m].reserve_token \in Nat /\ vaultToken[m] \in Nat
         /\ net[m] \in Int /\ migrated[m] \in Nat /\ drained[m] \in Nat /\ given[m] \in Nat
         /\ m \in settled => m \in launched
BY CurveFields DEF TypeOK

LEMMA BooksInit == Init => Books
BY DEF Init, NoCurve, Books, UnlaunchedEmpty, Blank, SettledEmpty, TokenLedger, LamportLedger

LEMMA BooksStep == TypeOK /\ Books /\ [AnyNext]_vars => Books'
<1> SUFFICES ASSUME TypeOK, Books, [AnyNext]_vars, NEW n \in Mints PROVE BooksOf(n)'
  BY BooksByMint DEF Books, BooksOf, UnlaunchedEmpty, Blank, SettledEmpty, TokenLedger, LamportLedger
<1> USE BookTypes
<1>1. BooksOf(n)
  BY BooksByMint
<1>2. CASE Rests(n)
  BY <1>1, <1>2 DEF Rests, BooksOf, Blank
<1>3. CASE Opens(n)
  BY <1>1, <1>3 DEF Opens, BooksOf, Blank
<1>4. CASE Sells(n)
  <2>1. PICK amount \in Nat, fee \in Nat, out \in Nat :
         /\ ~curve[n].is_completed /\ n \in launched
         /\ curve'[n].init_lamport = curve[n].init_lamport
         /\ curve'[n].reserve_token = curve[n].reserve_token + amount
         /\ curve'[n].reserve_lamport = curve[n].reserve_lamport - out
         /\ vaultToken'[n] = vaultToken[n] + (amount - fee)
         /\ net'[n] = net[n] - out /\ migrated'[n] = migrated[n]
         /\ drained'[n] = drained[n] + fee /\ given'[n] = given[n]
         /\ launched' = launched /\ settled' = settled
    BY <1>4 DEF Sells
  <2>2. n \notin settled
    BY <1>1, <2>1 DEF BooksOf
  <2> QED
    BY <1>1, <2>1, <2>2 DEF BooksOf
<1>5. CASE Buys(n)
  <2>1. PICK amount \in Nat, out \in Nat :
         /\ ~curve[n].is_completed /\ n \in launched
         /\ curve'[n].init_lamport = curve[n].init_lamport
         /\ curve'[n].reserve_token = curve[n].reserve_token - out
         /\ curve'[n].reserve_lamport = curve[n].reserve_lamport + amount
         /\ vaultToken'[n] = vaultToken[n] - out
         /\ net'[n] = net[n] + amount /\ migrated'[n] = migrated[n]
         /\ drained'[n] = drained[n] /\ given'[n] = given[n]
         /\ launched' = launched /\ settled' = settled
    BY <1>5 DEF Buys
  <2>2. n \notin settled
    BY <1>1, <2>1 DEF BooksOf
  <2> QED
    BY <1>1, <2>1, <2>2 DEF BooksOf
<1>6. CASE PaysOut(n)
  BY <1>1, <1>6 DEF PaysOut, BooksOf
<1>7. CASE Migrates(n)
  <2>1. n \notin settled
    BY <1>1, <1>7 DEF Migrates, BooksOf
  <2> QED
    BY <1>1, <1>7, <2>1 DEF Migrates, BooksOf
<1>8. CASE Receives(n)
  BY <1>1, <1>8 DEF Receives, BooksOf, Blank
<1> QED
  BY <1>2, <1>3, <1>4, <1>5, <1>6, <1>7, <1>8, MintSteps DEF Moves, OthersRest

LEMMA BooksHold == AnySpec => [](TypeOK /\ Books)
<1>1. Init => TypeOK /\ Books
  BY TypeInit, BooksInit
<1>2. TypeOK /\ Books /\ [AnyNext]_vars => (TypeOK /\ Books)'
  BY TypeStep, BooksStep
<1> QED
  BY <1>1, <1>2, PTL DEF AnySpec

(* The vault's tokens and the recorded reserve of every mint differ by      *)
(* exactly the sell fees and migration tokens (state.rs, BondingCurve::swap *)
(* and the token payouts of withdraw and transfer_fee).                     *)
THEOREM TokenLedgerCorrect == Spec => []TokenLedger
<1>1. Books => TokenLedger
  BY DEF Books
<1> QED
  BY <1>1, BooksHold, SpecIsAny, PTL

(* The vault gained, through every curve, what its traders paid in less     *)
(* what migration took, and nothing once it was withdrawn (swap, withdraw   *)
(* and transfer_fee, for any number of curves in one vault).                *)
THEOREM LamportLedgerCorrect == Spec => []LamportLedger
<1>1. Books => LamportLedger
  BY DEF Books
<1> QED
  BY <1>1, BooksHold, SpecIsAny, PTL

-------------------------------------------------------------------------------
(* A buy never carries the reserve past curve_limit, and it completes the   *)
(* curve exactly when it reaches the limit, whatever configure does to the  *)
(* limit in between (the clamp of swap, update_reserves).                   *)
THEOREM BuyStopsAtLimitCorrect == Spec => BuyStopsAtLimit
<1>1. ASSUME TypeOK, [AnyNext]_vars, NEW m \in launched,
             curve'[m].reserve_lamport > curve[m].reserve_lamport
      PROVE  /\ curve'[m].reserve_lamport <= config.curve_limit
             /\ curve'[m].is_completed <=> curve'[m].reserve_lamport = config.curve_limit
  <2> USE BookTypes
  <2>1. m \in Mints /\ curve[m].reserve_lamport \in Nat
    BY <1>1 DEF TypeOK
  <2>2. ~Rests(m) /\ ~Opens(m) /\ ~PaysOut(m) /\ ~Migrates(m) /\ ~Receives(m)
    BY <1>1, <2>1 DEF Rests, Opens, PaysOut, Migrates, Receives
  <2>3. ~Sells(m)
    BY <1>1, <2>1 DEF Sells
  <2>4. Buys(m)
    BY <1>1, <2>1, <2>2, <2>3, MintSteps DEF Moves, OthersRest
  <2>5. PICK amount \in Nat :
         /\ curve'[m].reserve_lamport = curve[m].reserve_lamport + amount
         /\ curve'[m].reserve_lamport <= config.curve_limit
         /\ curve'[m].is_completed <=> curve'[m].reserve_lamport >= config.curve_limit
    BY <2>4 DEF Buys
  <2>6. PICK k \in Nat : k = curve'[m].reserve_lamport
    BY <2>1, <2>5
  <2>7. config.curve_limit \in Nat
    BY <2>4 DEF Buys
  <2>8. k >= config.curve_limit <=> k = config.curve_limit
    BY <2>5, <2>6, <2>7
  <2> QED
    BY <2>5, <2>6, <2>8, Zenon
<1>2. TypeOK /\ [AnyNext]_vars =>
        [\A m \in launched : curve'[m].reserve_lamport > curve[m].reserve_lamport =>
           /\ curve'[m].reserve_lamport <= config.curve_limit
           /\ curve'[m].is_completed <=> curve'[m].reserve_lamport = config.curve_limit]_vars
  BY <1>1
<1> QED
  BY <1>2, TypeCorrect, SpecIsAny, PTL DEF AnySpec, BuyStopsAtLimit

(* Once withdrawn, a curve pays out nothing more: a second withdraw moves   *)
(* nothing and transfer_fee fails on the zeroed reserves (withdraw,         *)
(* transfer_fee).                                                           *)
THEOREM SettledPaysNothingCorrect == Spec => SettledPaysNothing
<1>1. ASSUME TypeOK, Books, [AnyNext]_vars, NEW m \in settled
      PROVE  /\ curve'[m].reserve_lamport = 0 /\ curve'[m].reserve_token = 0
             /\ net'[m] = net[m]
             /\ vaultToken'[m] >= vaultToken[m]
  <2> USE BookTypes
  <2>1. m \in Mints /\ m \in launched
    BY <1>1 DEF TypeOK
  <2>2. curve[m].is_completed /\ curve[m].reserve_token = 0 /\ curve[m].reserve_lamport = 0
    BY <1>1, <2>1 DEF Books, SettledEmpty
  <2>3. ~Opens(m) /\ ~Sells(m) /\ ~Buys(m)
    BY <2>1, <2>2 DEF Opens, Sells, Buys
  <2>4. ~Migrates(m)
    BY <1>1, <2>1, <2>2 DEF Migrates
  <2>5. CASE Rests(m)
    BY <1>1, <2>1, <2>2, <2>5 DEF Rests
  <2>6. CASE PaysOut(m)
    <3>1. curve[m].init_lamport = 0
      BY <1>1, <2>1, <2>2, <2>6 DEF PaysOut
    <3> QED
      BY <1>1, <2>1, <2>2, <2>6, <3>1 DEF PaysOut
  <2>7. CASE Receives(m)
    BY <1>1, <2>1, <2>2, <2>7 DEF Receives
  <2> QED
    BY <1>1, <2>1, <2>3, <2>4, <2>5, <2>6, <2>7, MintSteps DEF Moves, OthersRest
<1>2. TypeOK /\ Books /\ [AnyNext]_vars =>
        [\A m \in settled :
           /\ curve'[m].reserve_lamport = 0 /\ curve'[m].reserve_token = 0
           /\ net'[m] = net[m]
           /\ vaultToken'[m] >= vaultToken[m]]_vars
  BY <1>1
<1> QED
  BY <1>2, BooksHold, SpecIsAny, PTL DEF AnySpec, SettledPaysNothing

-------------------------------------------------------------------------------
(* The tokens of a mint are in the wallets or in the vault's token account, *)
(* and the vault's lamports are accounted for curve by curve.               *)
TokensOf(m) == SumFunction(tokens[m]) + vaultToken[m]

LEMMA SumCredit ==
  ASSUME NEW b \in [Wallets -> Nat], NEW w \in Wallets, NEW n \in Nat
  PROVE  SumFunction(Credit(b, w, n)) = SumFunction(b) + n
<1>1. b \in [Wallets -> Int] /\ Credit(b, w, n) \in [Wallets -> Int]
  BY DEF Credit
<1>2. Credit(b, w, n)[w] - b[w] = n /\ \A y \in Wallets \ {w} : Credit(b, w, n)[y] = b[y]
  BY DEF Credit
<1> QED
  BY <1>1, <1>2, SumFunctionChanges, FiniteAssumption

LEMMA SumDebit ==
  ASSUME NEW b \in [Wallets -> Nat], NEW w \in Wallets, NEW n \in Nat
  PROVE  SumFunction(Debit(b, w, n)) = SumFunction(b) - n
<1>1. SumFunction(b) \in Nat
  BY SumFunctionNat, FiniteAssumption
<1>2. b \in [Wallets -> Int] /\ Debit(b, w, n) \in [Wallets -> Int]
  BY DEF Debit
<1>3. Debit(b, w, n)[w] - b[w] = -n /\ \A y \in Wallets \ {w} : Debit(b, w, n)[y] = b[y]
  BY DEF Debit
<1>4. SumFunction(Debit(b, w, n)) = SumFunction(b) + (-n)
  BY <1>2, <1>3, SumFunctionChanges, FiniteAssumption
<1> QED
  BY <1>1, <1>4

(* The totals are numbers.                                                  *)
LEMMA TotalTypes ==
  ASSUME TypeOK
  PROVE  /\ SumFunction(sol) \in Nat /\ sol \in [Wallets -> Nat]
         /\ vault \in Nat /\ cfgLamports \in Nat /\ wsol \in Nat /\ funded \in Nat
         /\ \A m \in Mints : /\ tokens[m] \in [Wallets -> Nat] /\ SumFunction(tokens[m]) \in Nat
                             /\ vaultToken[m] \in Nat /\ supply[m] \in Nat
<1>1. /\ sol \in [Wallets -> Nat] /\ \A m \in Mints : tokens[m] \in [Wallets -> Nat]
      /\ vault \in Nat /\ cfgLamports \in Nat /\ wsol \in Nat /\ funded \in Nat
      /\ \A m \in Mints : vaultToken[m] \in Nat /\ supply[m] \in Nat
  BY DEF TypeOK, ConfigTypeOK
<1>2. \A f \in [Wallets -> Nat] : SumFunction(f) \in Nat
  BY SumFunctionNat, FiniteAssumption
<1> QED
  BY <1>1, <1>2

(* What was gained through the curves is what is in the vault unfunded.     *)
VaultNet == vault = funded + SumFunction(net)

LEMMA SumOneChanges ==
  ASSUME NEW D, IsFiniteSet(D), NEW x \in D, NEW n \in Int,
         NEW f \in [D -> Int], NEW g \in [D -> Int],
         g[x] = f[x] + n, \A y \in D \ {x} : g[y] = f[y]
  PROVE  SumFunction(g) = SumFunction(f) + n
<1>1. SumFunction(g) = SumFunction(f) + (g[x] - f[x]) /\ f[x] \in Int
  BY SumFunctionChanges
<1> QED
  BY <1>1

LEMMA NetMoves ==
  ASSUME TypeOK, NEW m \in Mints, NEW n \in Int, net' = [net EXCEPT ![m] = @ + n],
         vault' = vault + n, funded' = funded, VaultNet
  PROVE  VaultNet'
<1>1. net \in [Mints -> Int] /\ net' \in [Mints -> Int]
  BY DEF TypeOK
<1>2. net'[m] = net[m] + n /\ \A y \in Mints \ {m} : net'[y] = net[y]
  BY <1>1
<1>3. SumFunction(net)' = SumFunction(net) + n
  <2> DEFINE f == net
             g == net'
  <2>1. f \in [Mints -> Int] /\ g \in [Mints -> Int]
        /\ g[m] = f[m] + n /\ \A y \in Mints \ {m} : g[y] = f[y]
    BY <1>1, <1>2
  <2>2. SumFunction(net)' = SumFunction(g) /\ SumFunction(net) = SumFunction(f)
    OBVIOUS
  <2> HIDE DEF f, g
  <2> QED
    BY <2>1, <2>2, SumOneChanges, FiniteAssumption
<1>4. SumFunction(net) \in Int /\ funded \in Nat /\ vault \in Nat
  BY <1>1, SumFunctionInt, FiniteAssumption DEF TypeOK, ConfigTypeOK
<1> QED
  BY <1>3, <1>4 DEF VaultNet

(* What an action keeps: the tokens of every mint and the vault's account   *)
(* of itself; a mint that nobody launched has no tokens.                    *)
Keeps == /\ VaultNet => VaultNet'
         /\ \A n \in Mints : TokensOf(n)' = TokensOf(n)
         /\ supply' = supply
         /\ \A n \in Mints : n \notin launched' => n \notin launched /\ tokens'[n] = tokens[n]

(* For most actions the tokens of one mint change hands.                    *)
LEMMA OneMintMoves ==
  ASSUME TypeOK, NEW m \in Mints, NEW after, NEW k,
         tokens' = [tokens EXCEPT ![m] = after], vaultToken' = [vaultToken EXCEPT ![m] = k],
         SumFunction(after) + k = SumFunction(tokens[m]) + vaultToken[m]
  PROVE  \A n \in Mints : TokensOf(n)' = TokensOf(n)
<1>1. /\ tokens'[m] = after /\ vaultToken'[m] = k
      /\ \A n \in Mints \ {m} : tokens'[n] = tokens[n] /\ vaultToken'[n] = vaultToken[n]
  BY DEF TypeOK
<1>2. \A n \in Mints \ {m} : TokensOf(n)' = TokensOf(n)
  BY <1>1 DEF TokensOf
<1>3. TokensOf(m)' = TokensOf(m)
  BY <1>1 DEF TokensOf
<1> QED
  BY <1>2, <1>3

LEMMA SellKeeps ==
  ASSUME TypeOK, NEW w \in Wallets, NEW team \in Wallets, NEW m \in Mints, NEW a \in Nat,
         NEW min \in Nat, SellTokens(w, team, m, a, min)
  PROVE  Keeps
<1>1. PICK adjusted \in U64, out \in U64 : Sold(w, m, a, adjusted, out)
  BY SellEffect
<1>2. /\ a \in Nat /\ adjusted \in Nat /\ out \in Nat /\ a - adjusted \in Nat
      /\ config.team_wallet \in Wallets
  BY <1>1, U64Nat, ConfigFields DEF Sold, TypeOK
<1> USE TotalTypes
<1>5. VaultNet => VaultNet'
  <2>1. PICK n \in Int : n = -out
    BY <1>2
  <2>2. net' = [net EXCEPT ![m] = @ + n] /\ vault' = vault + n /\ funded' = funded
    BY <1>1, <1>2, <2>1 DEF Sold, TypeOK
  <2> QED
    BY <2>2, NetMoves
<1> DEFINE after == Credit(Debit(tokens[m], w, a), config.team_wallet, a - adjusted)
<1>6. SumFunction(after) + (vaultToken[m] + adjusted) = SumFunction(tokens[m]) + vaultToken[m]
  <2>1. Debit(tokens[m], w, a) \in [Wallets -> Nat]
    BY <1>1, <1>2, DebitType DEF Sold
  <2>2. SumFunction(after) = SumFunction(Debit(tokens[m], w, a)) + (a - adjusted)
    BY <1>2, <2>1, SumCredit
  <2>3. SumFunction(Debit(tokens[m], w, a)) = SumFunction(tokens[m]) - a
    BY <1>2, SumDebit
  <2> HIDE DEF after
  <2> QED
    BY <1>2, <2>2, <2>3
<1>7. \A n \in Mints : TokensOf(n)' = TokensOf(n)
  <2>1. tokens' = [tokens EXCEPT ![m] = after]
        /\ vaultToken' = [vaultToken EXCEPT ![m] = vaultToken[m] + adjusted]
    BY <1>1 DEF Sold, TypeOK
  <2> HIDE DEF after
  <2> QED
    BY <1>6, <2>1, OneMintMoves
<1>8. /\ supply' = supply
      /\ \A n \in Mints : n \notin launched' => n \notin launched /\ tokens'[n] = tokens[n]
  BY <1>1 DEF Sold, TypeOK
<1> HIDE DEF after
<1> QED
  BY <1>5, <1>7, <1>8 DEF Keeps

LEMMA BuyKeeps ==
  ASSUME TypeOK, NEW w \in Wallets, NEW team \in Wallets, NEW m \in Mints, NEW a \in Nat,
         NEW min \in Nat, BuyTokens(w, team, m, a, min)
  PROVE  Keeps
<1>1. PICK amount \in Nat, adjusted \in U64, out \in U64 : Bought(w, m, a, amount, adjusted, out)
  BY BuyEffect
<1>2. /\ amount \in Nat /\ adjusted \in Nat /\ out \in Nat /\ amount - adjusted \in Nat
      /\ config.team_wallet \in Wallets
  BY <1>1, U64Nat, ConfigFields DEF Bought, TypeOK
<1> USE TotalTypes
<1>5. VaultNet => VaultNet'
  <2>1. net' = [net EXCEPT ![m] = @ + amount] /\ vault' = vault + amount /\ funded' = funded
    BY <1>1 DEF Bought
  <2>2. amount \in Int
    BY <1>2
  <2> QED
    BY <2>1, <2>2, NetMoves
<1> DEFINE after == Credit(tokens[m], w, out)
<1>6. SumFunction(after) + (vaultToken[m] - out) = SumFunction(tokens[m]) + vaultToken[m]
  <2>1. SumFunction(after) = SumFunction(tokens[m]) + out
    BY <1>2, SumCredit
  <2> HIDE DEF after
  <2> QED
    BY <1>2, <2>1
<1>7. \A n \in Mints : TokensOf(n)' = TokensOf(n)
  <2>1. tokens' = [tokens EXCEPT ![m] = after]
        /\ vaultToken' = [vaultToken EXCEPT ![m] = vaultToken[m] - out]
    BY <1>1 DEF Bought, TypeOK
  <2> HIDE DEF after
  <2> QED
    BY <1>6, <2>1, OneMintMoves
<1>8. /\ supply' = supply
      /\ \A n \in Mints : n \notin launched' => n \notin launched /\ tokens'[n] = tokens[n]
  BY <1>1 DEF Bought, TypeOK
<1> HIDE DEF after
<1> QED
  BY <1>5, <1>7, <1>8 DEF Keeps

LEMMA WithdrawKeeps ==
  ASSUME TypeOK, NEW w \in Wallets, NEW m \in Mints, Withdraw(w, m)
  PROVE  Keeps
<1>1. Withdrawn(w, m)
  BY WithdrawEffect
<1>2. PICK lamports \in Nat : lamports = Raised(curve[m])
  BY <1>1 DEF Withdrawn
<1>3. PICK out \in Nat : out = curve[m].reserve_token
  BY <1>1, CurveFields DEF Withdrawn
<1>4. PICK n \in Int : n = -lamports
  OBVIOUS
<1> USE TotalTypes
<1>7. VaultNet => VaultNet'
  <2>1. net' = [net EXCEPT ![m] = @ + n] /\ vault' = vault + n /\ funded' = funded
    BY <1>1, <1>2, <1>4 DEF Withdrawn, TypeOK
  <2> QED
    BY <2>1, NetMoves
<1> DEFINE after == Credit(tokens[m], w, out)
<1>8. SumFunction(after) + (vaultToken[m] - out) = SumFunction(tokens[m]) + vaultToken[m]
  <2>1. SumFunction(after) = SumFunction(tokens[m]) + out
    BY SumCredit
  <2> HIDE DEF after
  <2> QED
    BY <2>1
<1>9. \A k \in Mints : TokensOf(k)' = TokensOf(k)
  <2>1. tokens' = [tokens EXCEPT ![m] = after]
        /\ vaultToken' = [vaultToken EXCEPT ![m] = vaultToken[m] - out]
    BY <1>1, <1>3 DEF Withdrawn, TypeOK
  <2> HIDE DEF after
  <2> QED
    BY <1>8, <2>1, OneMintMoves
<1>10. /\ supply' = supply
      /\ \A k \in Mints : k \notin launched' => k \notin launched /\ tokens'[k] = tokens[k]
  BY <1>1 DEF Withdrawn, TypeOK
<1> HIDE DEF after
<1> QED
  BY <1>7, <1>9, <1>10 DEF Keeps

LEMMA TransferFeeKeeps ==
  ASSUME TypeOK, NEW w \in Wallets, NEW team \in Wallets, NEW m \in Mints,
         TransferFee(w, team, m)
  PROVE  Keeps
<1>1. PICK fee \in Nat, pool \in Nat, feeTokens \in Nat : Migrated(w, m, fee, pool, feeTokens)
  BY TransferFeeEffect
<1>2. /\ config.team_wallet \in Wallets /\ MarketCreateFee \in Nat
  BY <1>1, ConfigFields, FeeAssumption DEF Migrated, TypeOK
<1>3. PICK total \in Nat, n \in Int : total = MarketCreateFee + fee + pool /\ n = -total
  BY <1>2
<1> USE TotalTypes
<1>6. VaultNet => VaultNet'
  <2>1. net' = [net EXCEPT ![m] = @ + n] /\ vault' = vault + n /\ funded' = funded
    BY <1>1, <1>3 DEF Migrated, TypeOK
  <2> QED
    BY <2>1, NetMoves
<1> DEFINE after == Credit(tokens[m], config.team_wallet, feeTokens)
<1>7. SumFunction(after) + (vaultToken[m] - feeTokens) = SumFunction(tokens[m]) + vaultToken[m]
  <2>1. SumFunction(after) = SumFunction(tokens[m]) + feeTokens
    BY <1>2, SumCredit
  <2> HIDE DEF after
  <2> QED
    BY <2>1
<1>8. \A k \in Mints : TokensOf(k)' = TokensOf(k)
  <2>1. tokens' = [tokens EXCEPT ![m] = after]
        /\ vaultToken' = [vaultToken EXCEPT ![m] = vaultToken[m] - feeTokens]
    BY <1>1 DEF Migrated, TypeOK
  <2> HIDE DEF after
  <2> QED
    BY <1>7, <2>1, OneMintMoves
<1>9. /\ supply' = supply
      /\ \A k \in Mints : k \notin launched' => k \notin launched /\ tokens'[k] = tokens[k]
  BY <1>1 DEF Migrated, TypeOK
<1> HIDE DEF after
<1> QED
  BY <1>6, <1>8, <1>9 DEF Keeps

LEMMA GiftTokensKeeps ==
  ASSUME TypeOK, NEW w \in Wallets, NEW m \in Mints, NEW g \in Gifts, GiftTokens(w, m, g)
  PROVE  Keeps
<1>1. g \in Nat
  BY SolAssumption
<1>2. VaultNet => VaultNet'
  BY DEF GiftTokens, configVars, VaultNet
<1> DEFINE after == Debit(tokens[m], w, g)
<1>3. SumFunction(after) + (vaultToken[m] + g) = SumFunction(tokens[m]) + vaultToken[m]
  <2>1. SumFunction(after) = SumFunction(tokens[m]) - g
    BY <1>1, SumDebit, TotalTypes
  <2> HIDE DEF after
  <2> QED
    BY <1>1, <2>1, TotalTypes
<1>4. \A k \in Mints : TokensOf(k)' = TokensOf(k)
  <2>1. tokens' = [tokens EXCEPT ![m] = after]
        /\ vaultToken' = [vaultToken EXCEPT ![m] = vaultToken[m] + g]
    BY DEF GiftTokens, TypeOK
  <2> HIDE DEF after
  <2> QED
    BY <1>3, <2>1, OneMintMoves
<1>5. /\ supply' = supply
      /\ \A k \in Mints : k \notin launched' => k \notin launched /\ tokens'[k] = tokens[k]
  BY DEF GiftTokens, TypeOK
<1> HIDE DEF after
<1> QED
  BY <1>2, <1>4, <1>5 DEF Keeps

(* Lamports that change hands outside the curves.                           *)
LEMMA TokensStay ==
  ASSUME UNCHANGED <<tokens, vaultToken, supply, launched>>,
         VaultNet => VaultNet'
  PROVE  Keeps
BY DEF Keeps, TokensOf

LEMMA GiftLamportsKeeps ==
  ASSUME TypeOK, NEW w \in Wallets, NEW g \in Gifts, GiftLamports(w, g)
  PROVE  Keeps
<1>1. g \in Nat
  BY SolAssumption
<1> USE TotalTypes
<1>4. SumFunction(net) \in Int
  BY SumFunctionInt, FiniteAssumption DEF TypeOK
<1>5. VaultNet => VaultNet'
  BY <1>1, <1>4 DEF GiftLamports, VaultNet, books
<1> QED
  BY <1>5, TokensStay DEF GiftLamports

LEMMA ConfigureKeeps ==
  ASSUME TypeOK, NEW p \in Wallets, NEW c \in Configs, Configure(p, c),
         UNCHANGED <<tokens, vaultToken, supply, launched, net>>
  PROVE  Keeps
<1>1. PICK toVault \in Nat : vault' = vault + toVault /\ funded' = funded + toVault
  <2> DEFINE toVault == IF vault = 0 THEN VaultRent ELSE 0
  <2>1. toVault \in Nat
    BY VaultRentType
  <2>2. vault' = vault + toVault /\ funded' = funded + toVault
    BY DEF Configure
  <2> HIDE DEF toVault
  <2> QED
    BY <2>1, <2>2
<1>2. SumFunction(net) \in Int
  BY SumFunctionInt, FiniteAssumption DEF TypeOK
<1>3. VaultNet => VaultNet'
  BY <1>1, <1>2, TotalTypes DEF VaultNet
<1> QED
  BY <1>3, TokensStay

LEMMA FundConfigKeeps ==
  ASSUME NEW p \in Wallets, NEW g \in Gifts, FundConfig(p, g),
         UNCHANGED <<tokens, vaultToken, supply, launched, net>>
  PROVE  Keeps
<1>1. VaultNet => VaultNet'
  BY DEF FundConfig, VaultNet
<1> QED
  BY <1>1, TokensStay

LEMMA AdministerKeeps == ASSUME TypeOK, Administer PROVE Keeps
<1>1. UNCHANGED <<tokens, vaultToken, supply, launched, net>>
  BY DEF Administer, books
<1>2. ASSUME NEW p \in Wallets, NEW k \in Nominees, NominateAuthority(p, k) PROVE Keeps
  BY <1>1, <1>2, TokensStay DEF NominateAuthority, VaultNet
<1>3. ASSUME NEW p \in Wallets, AcceptAuthority(p) PROVE Keeps
  BY <1>1, <1>3, TokensStay DEF AcceptAuthority, VaultNet
<1> QED
  BY <1>1, <1>2, <1>3, ConfigureKeeps, FundConfigKeeps DEF Administer, ConfigNext

LEMMA WhitelistKeeps ==
  ASSUME NEW k \in Keys, AddWl(k) \/ \E w \in Wallets : RemoveWl(w, k)
  PROVE  Keeps
<1>1. UNCHANGED <<configVars, launched, supply, vaultToken, tokens, wsol, books>>
  BY DEF AddWl, RemoveWl
<1> QED
  BY <1>1, TokensStay DEF configVars, books, VaultNet

(* Every action but a launch.                                               *)
LEMMA AnyKeeps ==
  ASSUME TypeOK, [AnyNext]_vars,
         ~\E w \in Wallets, team \in Wallets, m \in Mints, l \in Launches : Launch(w, team, m, l)
  PROVE  Keeps
<1>1. CASE UNCHANGED vars
  BY <1>1, TokensStay DEF vars, configVars, curveVars, books, VaultNet
<1> QED
  BY <1>1, AdministerKeeps, BuyKeeps, SellKeeps, WithdrawKeeps, TransferFeeKeeps,
     GiftTokensKeeps, GiftLamportsKeeps, WhitelistKeeps DEF AnyNext

-------------------------------------------------------------------------------
(* The inductive invariant of conservation.  A launch mints into a wallet   *)
(* and the vault, so it needs that nobody held tokens of the mint before.   *)
Conserved ==
  /\ VaultNet
  /\ \A m \in Mints : TokensOf(m) = supply[m]
  /\ \A m \in Mints : m \notin launched => tokens[m] = [w \in Wallets |-> 0]

LEMMA SumZero ==
  ASSUME NEW D, IsFiniteSet(D)
  PROVE  SumFunction([y \in D |-> 0]) = 0
<1> DEFINE z == [y \in D |-> 0]
<1>1. z \in [D -> Int] /\ \A y \in D : z[y] = z[y] + z[y]
  OBVIOUS
<1> HIDE DEF z
<1>2. PICK s \in Int : s = SumFunction(z)
  BY <1>1, SumFunctionInt
<1>3. s = s + s
  BY <1>1, <1>2, SumFunctionAdds
<1>4. \A k \in Int : k = k + k => k = 0
  OBVIOUS
<1> QED
  BY <1>2, <1>3, <1>4, Zenon DEF z

LEMMA ConservedInit == Init => Conserved
<1> SUFFICES ASSUME Init PROVE Conserved
  OBVIOUS
<1> USE DEF Init, ConfigInit
<1>1. VaultNet
  BY SumZero, FiniteAssumption DEF VaultNet
<1>2. \A m \in Mints : TokensOf(m) = supply[m]
  BY SumZero, FiniteAssumption DEF TokensOf
<1> QED
  BY <1>1, <1>2 DEF Conserved

LEMMA ConservedLaunch ==
  ASSUME TypeOK, Conserved, NEW w \in Wallets, NEW team \in Wallets, NEW m \in Mints,
         NEW l \in Launches, Launch(w, team, m, l)
  PROVE  Conserved'
<1>1. PICK init \in U64 : Launched(w, m, l, init)
  BY LaunchEffect
<1>2. init \in Nat /\ l.token_supply \in Nat /\ config.team_wallet \in Wallets
  BY <1>1, U64Nat, ConfigFields DEF Launched, TypeOK
<1>3. PICK rest \in Nat : rest = l.token_supply - init
  BY <1>1 DEF Launched
<1>4. VaultNet => VaultNet'
  BY <1>1 DEF Launched, configVars, books, VaultNet
<1>5. tokens[m] = [y \in Wallets |-> 0]
  BY <1>1 DEF Launched, Conserved
<1>6. tokens'[m] = Credit(tokens[m], config.team_wallet, rest)
  <2>1. tokens'[m] = [tokens[m] EXCEPT ![config.team_wallet] = rest]
    BY <1>1, <1>3 DEF Launched, TypeOK
  <2>2. tokens[m][config.team_wallet] + rest = rest
    BY <1>2, <1>5
  <2> QED
    BY <2>1, <2>2 DEF Credit
<1>7. TokensOf(m)' = supply'[m]
  <2>1. SumFunction(tokens'[m]) = SumFunction(tokens[m]) + rest
    BY <1>2, <1>6, SumCredit, TotalTypes
  <2>2. SumFunction(tokens[m]) = 0
    BY <1>5, SumZero, FiniteAssumption
  <2>3. supply'[m] = l.token_supply /\ vaultToken'[m] = init
    BY <1>1 DEF Launched, TypeOK
  <2> QED
    BY <1>2, <1>3, <2>1, <2>2, <2>3 DEF TokensOf
<1>8. \A n \in Mints \ {m} : /\ tokens'[n] = tokens[n] /\ vaultToken'[n] = vaultToken[n]
                             /\ supply'[n] = supply[n]
                             /\ n \notin launched' => n \notin launched
  BY <1>1 DEF Launched, TypeOK
<1>9. \A n \in Mints : TokensOf(n)' = supply'[n]
  <2>1. ASSUME NEW n \in Mints \ {m} PROVE TokensOf(n)' = supply'[n]
    <3>1. TokensOf(n) = supply[n]
      BY DEF Conserved
    <3>2. TokensOf(n)' = TokensOf(n)
      BY <1>8 DEF TokensOf
    <3> QED
      BY <1>8, <3>1, <3>2
  <2> QED
    BY <1>7, <2>1
<1>10. \A n \in Mints : n \notin launched' => tokens'[n] = [y \in Wallets |-> 0]
  BY <1>1, <1>8 DEF Conserved, Launched
<1> QED
  BY <1>4, <1>9, <1>10 DEF Conserved

LEMMA ConservedStep == TypeOK /\ Conserved /\ [AnyNext]_vars => Conserved'
<1> SUFFICES ASSUME TypeOK, Conserved, [AnyNext]_vars PROVE Conserved'
  OBVIOUS
<1>1. CASE \E w \in Wallets, team \in Wallets, m \in Mints, l \in Launches : Launch(w, team, m, l)
  BY <1>1, ConservedLaunch
<1>2. CASE Keeps
  BY <1>2 DEF Keeps, Conserved
<1> QED
  BY <1>1, <1>2, AnyKeeps

LEMMA ConservedHolds == AnySpec => []Conserved
<1>1. AnySpec => []TypeOK
  BY BooksHold, PTL
<1> QED
  BY <1>1, ConservedInit, ConservedStep, PTL DEF AnySpec

(* However many curves share the vault, it holds what it was funded with    *)
(* and what was bought into the curves that are still open, less what       *)
(* transfer_fee took (swap, withdraw and transfer_fee on one global vault). *)
THEOREM VaultMatchesCurvesCorrect == Spec => []VaultMatchesCurves
<1>1. ASSUME TypeOK, Books, Conserved PROVE VaultMatchesCurves
  <2> DEFINE openLamports == [m \in Mints |->
               IF m \in launched \ settled
               THEN curve[m].reserve_lamport - curve[m].init_lamport ELSE 0]
  <2>1. net \in [Mints -> Int] /\ migrated \in [Mints -> Int]
    BY <1>1 DEF TypeOK
  <2>2. openLamports \in [Mints -> Int]
    BY <1>1, BookTypes
  <2>3. ASSUME NEW m \in Mints PROVE openLamports[m] = net[m] + migrated[m]
    <3>1. BooksOf(m)
      BY <1>1, BooksByMint
    <3> QED
      BY <1>1, <3>1, BookTypes DEF BooksOf, Blank
  <2>4. VaultMatchesCurves <=> vault + SumFunction(migrated) = funded + SumFunction(openLamports)
    BY DEF VaultMatchesCurves
  <2> HIDE DEF openLamports
  <2>5. SumFunction(openLamports) = SumFunction(net) + SumFunction(migrated)
    BY <2>1, <2>2, <2>3, SumFunctionAdds, FiniteAssumption
  <2>6. SumFunction(net) \in Int /\ SumFunction(migrated) \in Int
    BY <2>1, SumFunctionInt, FiniteAssumption
  <2>7. vault = funded + SumFunction(net) /\ vault \in Nat /\ funded \in Nat
    BY <1>1, TotalTypes DEF Conserved, VaultNet
  <2> QED
    BY <2>4, <2>5, <2>6, <2>7
<1> QED
  BY <1>1, BooksHold, ConservedHolds, SpecIsAny, PTL

(* What a completed curve is owed is in the vault unless transfer_fee took  *)
(* from it or another open curve was sold below its virtual lamports: these *)
(* are the only ways in which curves on one vault hurt each other (withdraw *)
(* and the sells of swap; the run shared_vault does the second).            *)
THEOREM LamportsCoveredUnlessTaken ==
  Spec => []( /\ \A n \in Mints : migrated[n] = 0
              /\ \A n \in launched \ settled : curve[n].init_lamport <= curve[n].reserve_lamport
              => LamportsCovered )
<1>1. ASSUME TypeOK, Books, Conserved, \A n \in Mints : migrated[n] = 0,
             \A n \in launched \ settled : curve[n].init_lamport <= curve[n].reserve_lamport
      PROVE  LamportsCovered
  <2>1. ASSUME NEW n \in Mints
        PROVE  /\ net[n] \in Nat
               /\ n \in launched \ settled => net[n] = Raised(curve[n])
    <3>1. BooksOf(n)
      BY <1>1, BooksByMint
    <3> QED
      BY <1>1, <3>1, BookTypes DEF BooksOf, Blank, Raised
  <2>2. net \in [Mints -> Nat]
    BY <1>1, <2>1 DEF TypeOK
  <2>3. SumFunction(net) \in Nat /\ \A n \in Mints : net[n] <= SumFunction(net)
    BY <2>2, SumFunctionNat, SumFunctionBounds, FiniteAssumption
  <2>4. vault = funded + SumFunction(net) /\ funded \in Nat
    BY <1>1, TotalTypes DEF Conserved, VaultNet
  <2>5. \A n \in Mints : net[n] <= vault
    BY <2>1, <2>3, <2>4
  <2>6. launched \subseteq Mints
    BY <1>1 DEF TypeOK
  <2> QED
    BY <2>1, <2>5, <2>6 DEF LamportsCovered
<1> QED
  BY <1>1, BooksHold, ConservedHolds, SpecIsAny, PTL

-------------------------------------------------------------------------------
(* The program implements CurveLifecycle: each of the moves above is a step *)
(* of the abstract life of its mint, or none.                               *)

(* The abstract state, spelled out.                                         *)
LEMMA PhaseFields ==
  ASSUME NEW m \in Mints
  PROVE  /\ m \notin launched /\ m \notin settled => Phase(m) = "none"
         /\ m \in launched /\ m \in settled => Phase(m) = "settled"
         /\ m \in launched /\ m \notin settled /\ curve[m].is_completed => Phase(m) = "completed"
         /\ m \in launched /\ m \notin settled /\ ~curve[m].is_completed => Phase(m) = "trading"
BY DEF Phase

PhaseOf   == [m \in Mints |-> Phase(m)]
LamportOf == [m \in Mints |-> curve[m].reserve_lamport]
TokenOf   == [m \in Mints |-> curve[m].reserve_token]

(* A mint that rests keeps its abstract state; only m's can change when all *)
(* others rest.                                                             *)
LEMMA RestKeepsPhase == ASSUME NEW m \in Mints, Rests(m) PROVE Phase(m)' = Phase(m)
BY DEF Rests, Phase

LEMMA OnlyOneChanges ==
  ASSUME NEW m \in Mints, OthersRest(m)
  PROVE  /\ PhaseOf' = [PhaseOf EXCEPT ![m] = Phase(m)']
         /\ LamportOf' = [LamportOf EXCEPT ![m] = curve'[m].reserve_lamport]
         /\ TokenOf' = [TokenOf EXCEPT ![m] = curve'[m].reserve_token]
         /\ \A n \in Mints \ {m} : LamportOf'[n] = LamportOf[n] /\ TokenOf'[n] = TokenOf[n]
<1>1. \A n \in Mints \ {m} :
        /\ Phase(n)' = Phase(n)
        /\ curve'[n].reserve_lamport = curve[n].reserve_lamport
        /\ curve'[n].reserve_token = curve[n].reserve_token
  BY RestKeepsPhase DEF OthersRest, Rests
<1>2. PhaseOf' = [PhaseOf EXCEPT ![m] = Phase(m)']
  BY <1>1 DEF PhaseOf
<1>3. LamportOf' = [LamportOf EXCEPT ![m] = curve'[m].reserve_lamport]
  BY <1>1 DEF LamportOf
<1>4. TokenOf' = [TokenOf EXCEPT ![m] = curve'[m].reserve_token]
  BY <1>1 DEF TokenOf
<1> QED
  BY <1>1, <1>2, <1>3, <1>4 DEF LamportOf, TokenOf

LEMMA ReserveTypes ==
  TypeOK' => LamportOf' \in [Mints -> Nat] /\ TokenOf' \in [Mints -> Nat]
BY U64Nat DEF TypeOK, CurveType, LamportOf, TokenOf

(* Nothing abstract changes when the one mint that moves keeps its phase    *)
(* and its reserves.                                                        *)
LEMMA Stutters ==
  ASSUME NEW m \in Mints, OthersRest(m), Phase(m)' = Phase(m),
         curve'[m].reserve_lamport = curve[m].reserve_lamport,
         curve'[m].reserve_token = curve[m].reserve_token
  PROVE  UNCHANGED <<PhaseOf, LamportOf, TokenOf>>
<1>1. \A n \in Mints : /\ Phase(n)' = Phase(n)
                       /\ curve'[n].reserve_lamport = curve[n].reserve_lamport
                       /\ curve'[n].reserve_token = curve[n].reserve_token
  BY RestKeepsPhase DEF OthersRest, Rests
<1> QED
  BY <1>1 DEF PhaseOf, LamportOf, TokenOf

-------------------------------------------------------------------------------
(* The abstract view of a state is the one LifecycleSpec takes.             *)
LEMMA AbstractInit == Init => Lifecycle!Init
<1> SUFFICES ASSUME Init PROVE Lifecycle!Init
  OBVIOUS
<1>1. \A m \in Mints : Phase(m) = "none"
  BY PhaseFields DEF Init
<1> QED
  BY <1>1 DEF Init, NoCurve, Lifecycle!Init

(* Every step of the program is a step of the curve's life, or a stutter.   *)
LEMMA AbstractStep ==
  TypeOK /\ TypeOK' /\ Books /\ Books' /\ [AnyNext]_vars => [Lifecycle!Next]_(Lifecycle!vars)
<1> SUFFICES ASSUME TypeOK, TypeOK', Books, Books', [AnyNext]_vars
             PROVE  Lifecycle!Next \/ UNCHANGED <<PhaseOf, LamportOf, TokenOf>>
  BY DEF Lifecycle!vars, PhaseOf, LamportOf, TokenOf
<1>1. CASE \A n \in Mints : Rests(n)
  <2>1. \A n \in Mints : /\ Phase(n)' = Phase(n)
                         /\ curve'[n].reserve_lamport = curve[n].reserve_lamport
                         /\ curve'[n].reserve_token = curve[n].reserve_token
    BY <1>1, RestKeepsPhase DEF Rests
  <2> QED
    BY <2>1 DEF PhaseOf, LamportOf, TokenOf
<1>2. ASSUME NEW m \in Mints, Moves(m), OthersRest(m)
      PROVE  Lifecycle!Next \/ UNCHANGED <<PhaseOf, LamportOf, TokenOf>>
  <2>1. /\ PhaseOf' = [PhaseOf EXCEPT ![m] = Phase(m)']
        /\ LamportOf' = [LamportOf EXCEPT ![m] = curve'[m].reserve_lamport]
        /\ TokenOf' = [TokenOf EXCEPT ![m] = curve'[m].reserve_token]
        /\ \A n \in Mints \ {m} : LamportOf'[n] = LamportOf[n] /\ TokenOf'[n] = TokenOf[n]
    BY <1>2, OnlyOneChanges
  <2>2. /\ LamportOf' \in [Mints -> Nat] /\ TokenOf' \in [Mints -> Nat]
        /\ LamportOf'[m] = curve'[m].reserve_lamport /\ TokenOf'[m] = curve'[m].reserve_token
        /\ LamportOf[m] = curve[m].reserve_lamport /\ TokenOf[m] = curve[m].reserve_token
        /\ PhaseOf[m] = Phase(m)
    BY ReserveTypes DEF LamportOf, TokenOf, PhaseOf
  <2>3. Lifecycle!Moves(m)
    BY <2>1, <2>2 DEF Lifecycle!Moves, LamportOf, TokenOf
  <2>4. CASE Opens(m)
    <3>1. Phase(m) = "none" /\ Phase(m)' = "trading"
      BY <2>4, PhaseFields, BookTypes DEF Opens, Phase
    <3>2. Lifecycle!Launch(m)
      BY <2>1, <2>2, <2>3, <3>1 DEF Lifecycle!Launch, PhaseOf
    <3> QED
      BY <3>2 DEF Lifecycle!Next
  <2>5. CASE Sells(m) \/ Buys(m)
    <3>1. Phase(m) = "trading" /\ Phase(m)' \in {"trading", "completed"}
      BY <2>5, BookTypes DEF Sells, Buys, Phase, Books, SettledEmpty
    <3>2. \/ curve'[m].reserve_lamport >= curve[m].reserve_lamport
             /\ curve'[m].reserve_token <= curve[m].reserve_token
          \/ curve'[m].reserve_lamport <= curve[m].reserve_lamport
             /\ curve'[m].reserve_token >= curve[m].reserve_token
      BY <2>5, BookTypes DEF Sells, Buys
    <3>3. Lifecycle!Trade(m)
      BY <2>1, <2>2, <2>3, <3>1, <3>2 DEF Lifecycle!Trade, PhaseOf, LamportOf, TokenOf
    <3> QED
      BY <3>3 DEF Lifecycle!Next
  <2>6. CASE PaysOut(m) /\ m \notin settled
    <3>1. Phase(m) = "completed" /\ Phase(m)' = "settled"
      BY <2>6 DEF PaysOut, Phase
    <3>2. Lifecycle!Settle(m)
      BY <2>1, <2>2, <2>6, <3>1 DEF PaysOut, Lifecycle!Settle, PhaseOf, LamportOf, TokenOf
    <3> QED
      BY <3>2 DEF Lifecycle!Next
  <2>7. CASE PaysOut(m) /\ m \in settled
    <3>1. Phase(m)' = Phase(m)
      BY <2>7 DEF PaysOut, Phase
    <3>2. /\ curve[m].reserve_lamport = 0 /\ curve[m].reserve_token = 0
          /\ curve'[m].reserve_lamport = 0 /\ curve'[m].reserve_token = 0
      BY <2>7 DEF PaysOut, Books, SettledEmpty
    <3> QED
      BY <1>2, <3>1, <3>2, Stutters
  <2>8. CASE Migrates(m) \/ Receives(m)
    <3>1. Phase(m)' = Phase(m) /\ curve'[m] = curve[m]
      BY <2>8 DEF Migrates, Receives, Phase
    <3> QED
      BY <1>2, <3>1, Stutters
  <2> QED
    BY <1>2, <2>4, <2>5, <2>6, <2>7, <2>8 DEF Moves
<1> QED
  BY <1>1, <1>2, MintSteps

(* The life of every curve: it trades, completes once, is paid out once,    *)
(* and nothing moves its reserves afterwards.                               *)
THEOREM LifecycleImplemented == Spec => LifecycleSpec
BY AbstractInit, AbstractStep, BooksHold, SpecIsAny, PTL DEF AnySpec, LifecycleSpec, Lifecycle!Spec
===============================================================================
