------------------------------ MODULE ClientProofs ------------------------------
(***************************************************************************)
(* Theorems about the client and the program together, for all wallets,    *)
(* mints, commands and numbers of transactions on their way.               *)
(***************************************************************************)
EXTENDS Client, LedgerProofs

(* What a transaction of each kind consists of.                                 *)
LEMMA CommandFields ==
  ASSUME NEW c \in CommandType
  PROVE  /\ c.wallet \in Wallets
         /\ c.op = "swap" => c.mint \in Mints /\ c.amount \in Nat /\ c.style \in {Buy, Sell}
         /\ c.op = "withdraw" => c.mint \in Mints
         /\ c.op = "launch" => c.mint \in Mints /\ c.params \in Launches
         /\ c.op = "config" => c.cfg \in Configs
BY DEF CommandType, NamedType

(* A request becomes a transaction.                                          *)
LEMMA BuiltFields ==
  ASSUME NEW c \in RequestType, NEW b \in Built(c)
  PROVE  b \in CommandType
<1>1. CASE c.op = "launch"
  <2>1. c.wallet \in Wallets /\ c.params \in Launches
    BY <1>1 DEF RequestType, NamedType
  <2>2. PICK m \in Mints :
          b = [op |-> "launch", wallet |-> c.wallet, mint |-> m, params |-> c.params]
    BY <1>1 DEF Built, FreshMints
  <2> QED
    BY <2>1, <2>2 DEF CommandType
<1>2. CASE c.op # "launch"
  <2>1. b = c
    BY <1>2 DEF Built
  <2>2. c \in NamedType
    BY <1>2 DEF RequestType
  <2> QED
    BY <2>1, <2>2 DEF CommandType
<1> QED
  BY <1>1, <1>2

LEMMA SlotFields ==
  ASSUME ClientTypeOK, NEW s \in Slots, slot[s] # Idle
  PROVE  /\ slot[s].cmd \in CommandType /\ slot[s].team \in Wallets
         /\ slot[s].from \in Processes /\ slot[s].stage \in {"waiting", "abandoned"}
         /\ slot[s] \in SlotType
BY DEF ClientTypeOK, SlotType

-------------------------------------------------------------------------------
(* Whatever the client sends, the program sees one of its instructions.     *)
LEMMA ExecuteIsAny ==
  ASSUME NEW c \in CommandType, NEW team \in Wallets, Execute(c, team)
  PROVE  AnyNext
<1>1. CASE c.op = "swap" /\ BuyTokens(c.wallet, team, c.mint, c.amount, MinimumFor(c.amount))
  BY <1>1, CommandFields DEF AnyNext, MinimumFor
<1>2. CASE c.op = "swap" /\ SellTokens(c.wallet, team, c.mint, c.amount, MinimumFor(c.amount))
  BY <1>2, CommandFields DEF AnyNext, MinimumFor
<1>3. CASE c.op = "withdraw" /\ Withdraw(c.wallet, c.mint)
  BY <1>3, CommandFields DEF AnyNext
<1>4. CASE c.op = "launch" /\ Launch(c.wallet, team, c.mint, c.params)
  BY <1>4, CommandFields DEF AnyNext
<1>5. CASE c.op = "addWl" /\ AddWl(c.wallet)
  BY <1>5, CommandFields DEF AnyNext, Keys
<1>6. CASE /\ c.op = "config" /\ Configure(c.wallet, c.cfg)
           /\ emitted' = {}
           /\ UNCHANGED <<launched, curve, supply, vaultToken, tokens, open, wsol, whitelist, books>>
  <2>1. ConfigNext
    BY <1>6, CommandFields DEF ConfigNext
  <2>2. Administer
    BY <1>6, <2>1 DEF Administer
  <2> QED
    BY <2>2 DEF AnyNext
<1> QED
  BY <1>1, <1>2, <1>3, <1>4, <1>5, <1>6 DEF Execute

LEMMA ClientStepIsAny ==
  ASSUME ClientTypeOK, [ClientNext]_allVars
  PROVE  [AnyNext]_vars
<1>1. CASE Others
  BY <1>1, NextIsAny DEF Others
<1>2. ASSUME NEW s \in Slots, Land(s)
      PROVE  AnyNext
  BY <1>2, SlotFields, ExecuteIsAny DEF Land
<1>3. ASSUME NEW p, NEW s, NEW c, Submit(p, s, c)
      PROVE  UNCHANGED vars
  BY <1>3 DEF Submit
<1>4. ASSUME NEW s, Lose(s) \/ GiveUp(s)
      PROVE  UNCHANGED vars
  BY <1>4 DEF Lose, GiveUp
<1>5. CASE UNCHANGED allVars
  BY <1>5 DEF allVars
<1> QED
  BY <1>1, <1>2, <1>3, <1>4, <1>5 DEF ClientNext, Run, Respond

-------------------------------------------------------------------------------
(* A CompleteEvent is only emitted for a curve that exists.                 *)
LEMMA CompleteOfLaunched ==
  ASSUME TypeOK, AnyNext, NEW m \in Mints, [event |-> "complete", mint |-> m] \in emitted'
  PROVE  m \in launched'
<1> DEFINE e == [event |-> "complete", mint |-> m]
<1>1. e.event = "complete" /\ e.mint = m /\ e \in emitted'
  OBVIOUS
<1> HIDE DEF e
<1>2. CASE Administer
  BY <1>1, <1>2 DEF Administer
<1>3. ASSUME NEW w \in Wallets, NEW team \in Wallets, NEW n \in Mints, NEW l \in Launches,
             Launch(w, team, n, l)
      PROVE  FALSE
  BY <1>1, <1>3 DEF Launch
<1>4. ASSUME NEW w \in Wallets, NEW team \in Wallets, NEW n \in Mints, NEW a \in Nat,
             NEW min \in Nat, BuyTokens(w, team, n, a, min)
      PROVE  m \in launched'
  <2>1. PICK amount \in Nat, adjusted \in U64, out \in U64 : Bought(w, n, a, amount, adjusted, out)
    BY <1>4, BuyEffect
  <2>2. e = [event |-> "complete", mint |-> n] \/ e = SwapEvent(n, Buy, a, out)
    BY <1>1, <2>1 DEF Bought
  <2>3. e.mint = n
    BY <2>2 DEF SwapEvent
  <2> QED
    BY <1>1, <2>1, <2>3 DEF Bought
<1>5. ASSUME NEW w \in Wallets, NEW team \in Wallets, NEW n \in Mints, NEW a \in Nat,
             NEW min \in Nat, SellTokens(w, team, n, a, min)
      PROVE  FALSE
  <2>1. PICK adjusted \in U64, out \in U64 : Sold(w, n, a, adjusted, out)
    BY <1>5, SellEffect
  <2>2. e = SwapEvent(n, Sell, a, out)
    BY <1>1, <2>1 DEF Sold
  <2> QED
    BY <1>1, <2>2 DEF SwapEvent
<1>6. ASSUME NEW w \in Wallets, NEW n \in Mints, Withdraw(w, n)
      PROVE  FALSE
  BY <1>1, <1>6 DEF Withdraw
<1>7. ASSUME NEW w, NEW team, NEW n, TransferFee(w, team, n)
      PROVE  FALSE
  BY <1>1, <1>7 DEF TransferFee
<1>8. ASSUME NEW w, NEW n, NEW g, GiftTokens(w, n, g) \/ GiftLamports(w, g)
      PROVE  FALSE
  BY <1>1, <1>8 DEF GiftTokens, GiftLamports
<1>9. ASSUME NEW w, NEW k, AddWl(k) \/ RemoveWl(w, k)
      PROVE  FALSE
  BY <1>1, <1>9 DEF AddWl, RemoveWl
<1> QED
  BY <1>2, <1>3, <1>4, <1>5, <1>6, <1>7, <1>8, <1>9 DEF AnyNext

(* No mint is ever un-launched.                                             *)
LEMMA LaunchedGrows == ASSUME TypeOK, AnyNext PROVE launched \subseteq launched'
<1>1. CASE \A n \in Mints : Rests(n)
  BY <1>1 DEF Rests, TypeOK
<1>2. ASSUME NEW m \in Mints, Moves(m), OthersRest(m)
      PROVE  launched \subseteq launched'
  <2>1. m \in launched => m \in launched'
    BY <1>2 DEF Moves, Opens, Sells, Buys, PaysOut, Migrates, Receives
  <2> QED
    BY <1>2, <2>1 DEF OthersRest, Rests, TypeOK
<1> QED
  BY <1>1, <1>2, MintSteps

-------------------------------------------------------------------------------
(* Process p awaits the transaction in slot s.                              *)
Awaits(p, s) == From(s, p) /\ slot[s].stage # "abandoned"

OneAwaited == \A p \in Processes : \A r, s \in Slots : Awaits(p, r) /\ Awaits(p, s) => r = s

LEMMA ClientTypeParts ==
  ClientTypeOK => /\ slot \in [Slots -> SlotType \cup {Idle}]
                  /\ announced \subseteq launched
                  /\ OneAwaited
BY DEF ClientTypeOK, OneAwaited, Awaits

LEMMA ClientTypeAfter ==
  ASSUME slot' \in [Slots -> SlotType \cup {Idle}], announced' \subseteq launched', OneAwaited'
  PROVE  ClientTypeOK'
BY DEF ClientTypeOK, OneAwaited, Awaits

(* A transaction that leaves, or is no longer awaited, makes no process     *)
(* await more.                                                              *)
LEMMA AwaitsLess ==
  ASSUME OneAwaited, \A p \in Processes, s \in Slots : Awaits(p, s)' => Awaits(p, s)
  PROVE  OneAwaited'
BY DEF OneAwaited

(* The team account that a command names is a wallet.                       *)
LEMMA TeamForType ==
  ASSUME TypeOK, NEW c \in CommandType, Fetches(c) => config # NoConfig
  PROVE  TeamFor(c) \in Wallets
<1>1. CASE Fetches(c)
  BY <1>1, ConfigFields DEF TeamFor, TypeOK
<1>2. CASE ~Fetches(c)
  BY <1>2, CommandFields DEF TeamFor
<1> QED
  BY <1>1, <1>2

LEMMA SubmitKeepsType ==
  ASSUME TypeOK, ClientTypeOK, NEW p \in Processes, NEW s \in Slots, NEW c \in CommandType,
         Submit(p, s, c)
  PROVE  ClientTypeOK'
<1>1. PICK stage \in {"waiting", "abandoned"} :
        slot' = [slot EXCEPT ![s] = [stage |-> stage, from |-> p, cmd |-> c, team |-> TeamFor(c)]]
  BY DEF Submit
<1> DEFINE sent == [stage |-> stage, from |-> p, cmd |-> c, team |-> TeamFor(c)]
<1>2. sent \in SlotType /\ sent.from = p
  <2>1. TeamFor(c) \in Wallets
    BY TeamForType DEF Submit
  <2> QED
    BY <2>1 DEF SlotType
<1>3. slot \in [Slots -> SlotType \cup {Idle}] /\ announced \subseteq launched /\ OneAwaited
  BY ClientTypeParts
<1>4. slot' = [slot EXCEPT ![s] = sent] /\ announced' = announced /\ launched' = launched
  BY <1>1 DEF Submit, vars, curveVars
<1> HIDE DEF sent
<1>5. slot'[s] = sent /\ \A r \in Slots \ {s} : slot'[r] = slot[r]
  BY <1>3, <1>4
<1>6. \A r \in Slots : ~Awaits(p, r)
  <2>1. ~Busy(p)
    BY DEF Submit
  <2>2. ASSUME NEW r \in Slots, Awaits(p, r)
        PROVE  slot[r].stage = "waiting"
    BY <2>2, SlotFields DEF Awaits, From
  <2> QED
    BY <2>1, <2>2 DEF Busy, Awaits
<1>7. \A q \in Processes, r \in Slots : Awaits(q, r)' => Awaits(q, r) \/ (r = s /\ q = p)
  BY <1>2, <1>5 DEF Awaits, From
<1>8. OneAwaited'
  BY <1>3, <1>6, <1>7 DEF OneAwaited
<1>9. slot' \in [Slots -> SlotType \cup {Idle}]
  BY <1>2, <1>3, <1>4
<1> QED
  BY <1>3, <1>4, <1>8, <1>9, ClientTypeAfter

LEMMA ClientTypeStep ==
  ASSUME TypeOK, ClientTypeOK, [ClientNext]_allVars
  PROVE  ClientTypeOK'
<1>1. slot \in [Slots -> SlotType \cup {Idle}] /\ announced \subseteq launched /\ OneAwaited
  BY ClientTypeParts
<1>2. ASSUME AnyNext, Announce
      PROVE  announced' \subseteq launched'
  BY <1>1, <1>2, CompleteOfLaunched, LaunchedGrows DEF Announce
<1>3. CASE Others
  <2>1. AnyNext /\ Announce /\ slot' = slot
    BY <1>3, AmountAssumption DEF Others, Next, AnyNext
  <2>2. OneAwaited'
    BY <1>1, <2>1 DEF OneAwaited, Awaits, From
  <2> QED
    BY <1>1, <1>2, <2>1, <2>2, ClientTypeAfter
<1>4. ASSUME NEW s \in Slots, slot' = [slot EXCEPT ![s] = Idle], announced' \subseteq launched'
      PROVE  ClientTypeOK'
  <2>1. slot' \in [Slots -> SlotType \cup {Idle}]
    BY <1>1, <1>4
  <2>2. \A p \in Processes, r \in Slots : Awaits(p, r)' => Awaits(p, r)
    BY <1>1, <1>4 DEF Awaits, From
  <2> QED
    BY <1>1, <1>4, <2>1, <2>2, AwaitsLess, ClientTypeAfter
<1>5. ASSUME NEW s \in Slots, Land(s)
      PROVE  ClientTypeOK'
  <2>1. AnyNext
    BY <1>5, SlotFields, ExecuteIsAny DEF Land
  <2> QED
    BY <1>2, <1>4, <1>5, <2>1 DEF Land
<1>6. ASSUME NEW s \in Slots, Lose(s)
      PROVE  ClientTypeOK'
  BY <1>1, <1>4, <1>6 DEF Lose, vars, curveVars
<1>7. ASSUME NEW s \in Slots, GiveUp(s)
      PROVE  ClientTypeOK'
  <2>1. slot' = [slot EXCEPT ![s].stage = "abandoned"] /\ announced' \subseteq launched'
    BY <1>1, <1>7 DEF GiveUp, vars, curveVars
  <2>2. slot[s] \in SlotType
    BY <1>7, SlotFields DEF GiveUp
  <2>3. slot'[s] \in SlotType /\ slot'[s].stage = "abandoned"
        /\ \A r \in Slots \ {s} : slot'[r] = slot[r]
    BY <1>1, <2>1, <2>2 DEF SlotType
  <2>4. slot' \in [Slots -> SlotType \cup {Idle}]
    BY <1>1, <2>1, <2>3
  <2>5. \A p \in Processes, r \in Slots : Awaits(p, r)' => Awaits(p, r)
    BY <2>3 DEF Awaits, From
  <2> QED
    BY <1>1, <2>1, <2>4, <2>5, AwaitsLess, ClientTypeAfter
<1>8. ASSUME NEW s \in Slots, NEW c \in Commands, Run(s, c)
      PROVE  ClientTypeOK'
  <2>1. PICK b \in CommandType : Submit(Cli, s, b)
    BY <1>8, BuiltFields, ClientAssumption DEF Run
  <2> QED
    BY <1>1, <2>1, SubmitKeepsType DEF Processes
<1>9. ASSUME NEW s \in Slots, NEW m \in Mints, Respond(s, m)
      PROVE  ClientTypeOK'
  <2>1. [op |-> "withdraw", wallet |-> Operator, mint |-> m] \in CommandType
    BY ClientAssumption DEF CommandType, NamedType
  <2> QED
    BY <1>9, <2>1, SubmitKeepsType DEF Respond, Processes
<1>10. CASE UNCHANGED allVars
  <2>1. slot' = slot /\ announced' = announced /\ launched' = launched
    BY <1>10 DEF allVars, vars, curveVars, clientVars
  <2>2. OneAwaited'
    BY <1>1, <2>1 DEF OneAwaited, Awaits, From
  <2> QED
    BY <1>1, <2>1, <2>2, ClientTypeAfter
<1> QED
  BY <1>3, <1>5, <1>6, <1>7, <1>8, <1>9, <1>10 DEF ClientNext

LEMMA ClientInvariant == ClientSpec => [](TypeOK /\ ClientTypeOK)
<1>1. ClientInit => TypeOK /\ ClientTypeOK
  BY TypeInit DEF ClientInit, ClientTypeOK, From
<1>2. TypeOK /\ ClientTypeOK /\ [ClientNext]_allVars => (TypeOK /\ ClientTypeOK)'
  BY TypeStep, ClientStepIsAny, ClientTypeStep
<1> QED
  BY <1>1, <1>2, PTL DEF ClientSpec

(* Whatever lands late, is lost or is given up, slots hold what the client  *)
(* sends, a process awaits one transaction at a time, and only curves that  *)
(* exist are announced.                                                     *)
THEOREM ClientTypeCorrect == ClientSpec => []ClientTypeOK
BY ClientInvariant, PTL

(* The client and the backend add no behaviour to the program: whatever     *)
(* they send, late, twice or never, its accounts change as by some          *)
(* program instruction.                                                     *)
THEOREM ClientImplementsProgram == ClientSpec => AnySpec
<1>1. ClientInit => Init
  BY DEF ClientInit
<1>2. TypeOK /\ ClientTypeOK /\ [ClientNext]_allVars => [AnyNext]_vars
  BY ClientStepIsAny
<1> QED
  BY <1>1, <1>2, ClientInvariant, PTL DEF ClientSpec, AnySpec

(* Hence the books of every curve balance, and every curve lives the life   *)
(* CurveLifecycle allows, also among the transactions of the client.        *)
THEOREM ClientKeepsBooks ==
  ClientSpec => [](TokenLedger /\ LamportLedger) /\ LifecycleSpec
<1>1. Books => TokenLedger /\ LamportLedger
  BY DEF Books
<1> QED
  BY <1>1, BooksHold, AbstractInit, AbstractStep, ClientImplementsProgram, PTL
     DEF AnySpec, LifecycleSpec, Lifecycle!Spec

-------------------------------------------------------------------------------
(* Who gains by a swap that may pay no less than its minimum.               *)
LEMMA CreditAt ==
  ASSUME NEW b \in [Wallets -> Int], NEW w \in Wallets, NEW n \in Int
  PROVE  /\ Credit(b, w, n)[w] = b[w] + n
         /\ \A x \in Wallets \ {w} : Credit(b, w, n)[x] = b[x]
BY DEF Credit

LEMMA DebitAt ==
  ASSUME NEW b \in [Wallets -> Int], NEW w \in Wallets, NEW n \in Int
  PROVE  /\ Debit(b, w, n) \in [Wallets -> Int]
         /\ \A x \in Wallets \ {w} : Debit(b, w, n)[x] = b[x]
BY DEF Debit

LEMMA Balances ==
  ASSUME TypeOK, NEW m \in Mints
  PROVE  /\ sol \in [Wallets -> Int] /\ tokens[m] \in [Wallets -> Int]
         /\ \A w \in Wallets : sol[w] \in Nat /\ tokens[m][w] \in Nat
BY DEF TypeOK, ConfigTypeOK

LEMMA BuyServes ==
  ASSUME TypeOK, NEW w \in Wallets, NEW team \in Wallets, NEW m \in Mints, NEW a \in Nat,
         NEW min \in Nat, BuyTokens(w, team, m, a, min)
  PROVE  /\ tokens'[m][w] >= tokens[m][w] + min
         /\ \A x \in Wallets \ {w} : Gains(x, m) => x = team /\ x = config.team_wallet
<1> DEFINE amount == ClampedAmount(curve[m], a, Buy, config)
<1>1. amount \in Int /\ config.team_wallet = team /\ team \in Wallets
  <2>1. config.curve_limit \in Nat /\ curve[m].reserve_lamport \in Nat
    BY ConfigFields, CurveFields DEF BuyTokens, Tradable, TypeOK
  <2> QED
    BY <2>1 DEF BuyTokens, TeamAccepted, ClampedAmount
<1>2. PICK q \in Fills(curve[m], amount, Buy, min) :
        /\ tokens' = [tokens EXCEPT ![m] = Credit(@, w, q.out)]
        /\ sol' = Credit(Debit(sol, w, amount + FeeOf(amount, q.adjusted)), team,
                         FeeOf(amount, q.adjusted))
  BY DEF BuyTokens
<1> HIDE DEF amount
<1>3. q.out >= min /\ q.out \in Nat /\ q.adjusted \in Nat
  BY <1>2, FillType, U64Nat
<1>4. PICK f \in Int : f = FeeOf(amount, q.adjusted)
  BY <1>1, <1>3 DEF FeeOf
<1>5. tokens'[m] = Credit(tokens[m], w, q.out)
  BY <1>2 DEF TypeOK
<1>6. /\ tokens'[m][w] = tokens[m][w] + q.out
      /\ \A x \in Wallets \ {w} : tokens'[m][x] = tokens[m][x]
  <2>1. tokens[m] \in [Wallets -> Int] /\ q.out \in Int
    BY <1>3, Balances
  <2>2. /\ Credit(tokens[m], w, q.out)[w] = tokens[m][w] + q.out
        /\ \A x \in Wallets \ {w} : Credit(tokens[m], w, q.out)[x] = tokens[m][x]
    BY <2>1, CreditAt
  <2> QED
    BY <1>5, <2>2
<1>7. \A x \in Wallets \ {w, team} : sol'[x] = sol[x]
  <2> DEFINE left == Debit(sol, w, amount + f)
  <2>1. amount + f \in Int
    BY <1>1
  <2>2. left \in [Wallets -> Int] /\ \A x \in Wallets \ {w} : left[x] = sol[x]
    BY <2>1, Balances, DebitAt
  <2>3. sol' = Credit(left, team, f)
    BY <1>2, <1>4
  <2> HIDE DEF left
  <2> QED
    BY <2>2, <2>3, CreditAt
<1>8. tokens'[m][w] >= tokens[m][w] + min
  BY <1>3, <1>6, Balances
<1>9. ASSUME NEW x \in Wallets \ {w}, Gains(x, m)
      PROVE  x = team
  <2>1. tokens'[m][x] = tokens[m][x] /\ tokens[m][x] \in Nat /\ sol[x] \in Nat
    BY <1>6, Balances
  <2>2. sol'[x] > sol[x]
    BY <1>9, <2>1 DEF Gains
  <2>3. sol'[x] # sol[x]
    BY <2>1, <2>2
  <2> QED
    BY <1>7, <2>3, Zenon
<1> QED
  BY <1>1, <1>8, <1>9

LEMMA SellServes ==
  ASSUME TypeOK, NEW w \in Wallets, NEW team \in Wallets, NEW m \in Mints, NEW a \in Nat,
         NEW min \in Nat, SellTokens(w, team, m, a, min)
  PROVE  /\ sol'[w] >= sol[w] + min
         /\ \A x \in Wallets \ {w} : Gains(x, m) => x = team /\ x = config.team_wallet
<1>1. config.team_wallet = team
  BY DEF SellTokens, TeamAccepted
<1>2. PICK q \in Fills(curve[m], a, Sell, min) :
        /\ tokens' = [tokens EXCEPT ![m] = Credit(Debit(@, w, a), team, FeeOf(a, q.adjusted))]
        /\ sol' = Credit(sol, w, q.out)
  BY DEF SellTokens
<1>3. q.out >= min /\ q.out \in Nat /\ q.adjusted \in Nat
  BY <1>2, FillType, U64Nat
<1>4. PICK f \in Int : f = FeeOf(a, q.adjusted)
  BY <1>3 DEF FeeOf
<1>5. /\ sol'[w] = sol[w] + q.out
      /\ \A x \in Wallets \ {w} : sol'[x] = sol[x]
  <2>1. sol \in [Wallets -> Int] /\ q.out \in Int
    BY <1>3, Balances
  <2>2. /\ Credit(sol, w, q.out)[w] = sol[w] + q.out
        /\ \A x \in Wallets \ {w} : Credit(sol, w, q.out)[x] = sol[x]
    BY <2>1, CreditAt
  <2> QED
    BY <1>2, <2>2
<1>6. \A x \in Wallets \ {w, team} : tokens'[m][x] = tokens[m][x]
  <2> DEFINE left == Debit(tokens[m], w, a)
  <2>1. left \in [Wallets -> Int] /\ \A x \in Wallets \ {w} : left[x] = tokens[m][x]
    <3>1. tokens[m] \in [Wallets -> Int] /\ a \in Int
      BY Balances
    <3> QED
      BY <3>1, DebitAt
  <2>2. tokens'[m] = Credit(left, team, f)
    BY <1>2, <1>4 DEF TypeOK
  <2> HIDE DEF left
  <2> QED
    BY <2>1, <2>2, CreditAt
<1>7. sol'[w] >= sol[w] + min
  BY <1>3, <1>5, Balances
<1>8. ASSUME NEW x \in Wallets \ {w}, Gains(x, m)
      PROVE  x = team
  <2>1. sol'[x] = sol[x] /\ tokens[m][x] \in Nat /\ sol[x] \in Nat
    BY <1>5, Balances
  <2>2. tokens'[m][x] > tokens[m][x]
    BY <1>8, <2>1 DEF Gains
  <2>3. tokens'[m][x] # tokens[m][x]
    BY <2>1, <2>2
  <2> QED
    BY <1>6, <2>3, Zenon
<1> QED
  BY <1>1, <1>7, <1>8

(* A transaction built from an old read of the config does what its user    *)
(* signed or nothing, whenever it lands and whatever others did in between. *)
THEOREM SwapAsBuiltCorrect == ClientSpec => SwapAsBuilt
<1> DEFINE Served(s) ==
             LET c == slot[s].cmd
             IN  /\ IF c.style = Buy THEN tokens'[c.mint][c.wallet] >= tokens[c.mint][c.wallet] + c.amount
                                     ELSE sol'[c.wallet] >= sol[c.wallet] + c.amount
                 /\ \A w \in Wallets \ {c.wallet} :
                      Gains(w, c.mint) => w = slot[s].team /\ w = config.team_wallet
<1>1. ASSUME TypeOK, ClientTypeOK, NEW s \in Slots, Landed(s), slot[s].cmd.op = "swap"
      PROVE  Served(s)
  <2> DEFINE c    == slot[s].cmd
             team == slot[s].team
  <2>1. c \in CommandType /\ team \in Wallets
    BY <1>1, SlotFields DEF Landed
  <2>2. c.wallet \in Wallets /\ c.mint \in Mints /\ c.amount \in Nat
    BY <1>1, <2>1, CommandFields
  <2>3. \/ c.style = Buy /\ BuyTokens(c.wallet, team, c.mint, c.amount, c.amount)
        \/ c.style = Sell /\ SellTokens(c.wallet, team, c.mint, c.amount, c.amount)
    BY <1>1 DEF Landed, Land, Execute, MinimumFor
  <2> HIDE DEF c, team
  <2>4. \/ c.style = Buy /\ tokens'[c.mint][c.wallet] >= tokens[c.mint][c.wallet] + c.amount
        \/ c.style # Buy /\ sol'[c.wallet] >= sol[c.wallet] + c.amount
    BY <1>1, <2>1, <2>2, <2>3, BuyServes, SellServes DEF Buy, Sell
  <2>5. \A w \in Wallets \ {c.wallet} : Gains(w, c.mint) => w = team /\ w = config.team_wallet
    BY <1>1, <2>1, <2>2, <2>3, BuyServes, SellServes
  <2> QED
    BY <2>4, <2>5 DEF c, team
<1>2. TypeOK /\ ClientTypeOK /\ [ClientNext]_allVars =>
        [\A s \in Slots : Landed(s) /\ slot[s].cmd.op = "swap" => Served(s)]_allVars
  BY <1>1
<1> QED
  BY <1>2, ClientInvariant, PTL DEF ClientSpec, SwapAsBuilt
===============================================================================
