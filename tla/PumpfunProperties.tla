-------------------------- MODULE PumpfunProperties --------------------------
(***************************************************************************)
(* What is claimed of the program.  MCPumpfun checks it on small           *)
(* instances; PumpfunProofs, LedgerProofs and TradingProofs prove what can *)
(* be proved of it for every instance.                                     *)
(***************************************************************************)
EXTENDS Pumpfun

(* Every account holds values of its type: the u64 fields of a curve stay   *)
(* in range and no balance falls below zero.                                *)
TypeOK == /\ ConfigTypeOK
          /\ launched \subseteq Mints
          /\ curve \in [Mints -> CurveType]
          /\ supply \in [Mints -> Nat]
          /\ vaultToken \in [Mints -> Nat]
          /\ tokens \in [Mints -> [Wallets -> Nat]]
          /\ open \in [Mints -> SUBSET Wallets]
          /\ wsol \in Nat
          /\ whitelist \subseteq Keys
          /\ emitted \subseteq EventType
          /\ net \in [Mints -> Int]
          /\ migrated \in [Mints -> Nat]
          /\ drained \in [Mints -> Nat]
          /\ given \in [Mints -> Nat]
          /\ settled \subseteq launched

(* The vault's token account and the curve's reserve_token drift apart by   *)
(* exactly the sell fees and the tokens transfer_fee took, never by         *)
(* anything else (BondingCurve::swap, withdraw, transfer_fee).              *)
TokenLedger == \A m \in Mints :
  vaultToken[m] + drained[m] = curve[m].reserve_token + given[m]

(* Until a curve is withdrawn, what the vault gained through it and what    *)
(* migration took add up to the lamports bought into the curve; afterwards  *)
(* to nothing, however many curves share the vault.                         *)
LamportLedger == \A m \in Mints :
  net[m] + migrated[m] =
    IF m \in settled THEN 0 ELSE curve[m].reserve_lamport - curve[m].init_lamport

(* A buy never carries the reserve past curve_limit, and the buy that       *)
(* reaches it is the one that completes the curve (the clamp in swap, the   *)
(* comparison in update_reserves).                                          *)
BuyStopsAtLimit == [][\A m \in launched :
  curve'[m].reserve_lamport > curve[m].reserve_lamport =>
    /\ curve'[m].reserve_lamport <= config.curve_limit
    /\ curve'[m].is_completed <=> curve'[m].reserve_lamport = config.curve_limit]_vars

(* Once withdrawn, a curve moves no lamport and takes no token out of the   *)
(* vault again: withdraw and transfer_fee both subtract init_lamport from   *)
(* the zeroed reserve.                                                      *)
SettledPaysNothing == [][\A m \in settled :
  /\ curve'[m].reserve_lamport = 0 /\ curve'[m].reserve_token = 0
  /\ net'[m] = net[m]
  /\ vaultToken'[m] >= vaultToken[m]]_vars

(* Whatever the f64 quotients round to, a trade lowers the product of the   *)
(* reserves by no more than the rounding of its own price: one part in      *)
(* FloatPrecision of what was paid times the reserve that paid out          *)
(* (cal_amount_out).                                                        *)
ProductFallsByRounding == [][\A e \in { x \in emitted' : x.event = "swap" } :
  LET c == curve[e.mint]
      d == curve'[e.mint]
      held == IF e.direction = Sell THEN c.reserve_lamport ELSE c.reserve_token
      paid == IF e.direction = Sell THEN d.reserve_token - c.reserve_token
                                    ELSE d.reserve_lamport - c.reserve_lamport
  IN  (c.reserve_lamport * c.reserve_token) * FloatPrecision
        <= (d.reserve_lamport * d.reserve_token) * FloatPrecision + held * paid]_vars

(* What a curve would hold if every token were sold back falls with a trade *)
(* by no more than one part in FloatPrecision of the lamports the trade     *)
(* touches: those on the curve for a sell, those paid in for a buy.  Sell   *)
(* fees count: they add tokens that can be sold to the curve once more      *)
(* (swap, cal_amount_out).                                                  *)
WorthFallsByRounding == [][\A e \in { x \in emitted' : x.event = "swap" } :
  LET c == curve[e.mint]
      d == curve'[e.mint]
      all == supply[e.mint] + drained[e.mint]
      after == supply'[e.mint] + drained'[e.mint]
      touched == IF e.direction = Sell THEN c.reserve_lamport
                                       ELSE d.reserve_lamport - c.reserve_lamport
  IN  ((c.reserve_lamport * c.reserve_token) * FloatPrecision) * after
        <= ((d.reserve_lamport * d.reserve_token) * FloatPrecision) * all
           + (touched * all) * after]_vars

(* The vault holds the tokens withdraw will ask for once a curve is         *)
(* completed (lib.rs:81, "admin can withdraw sol/token after the curve is   *)
(* completed").                                                             *)
TokensCovered == \A m \in launched \ settled :
  curve[m].is_completed => vaultToken[m] >= curve[m].reserve_token

(* The vault holds the lamports withdraw will ask for (lib.rs:81).          *)
LamportsCovered == \A m \in launched \ settled :
  curve[m].is_completed => vault >= Raised(curve[m])

(* transfer_fee takes no more lamports out of the vault for a curve than    *)
(* the curve brought in (lib.rs:87, "transfer fee to team wallet and        *)
(* prepare migration").                                                     *)
MigrationWithinCurve == \A m \in launched \ settled :
  migrated[m] > 0 => migrated[m] <= Raised(curve[m])

(* A backend that listens for CompleteEvent learns of every completion,     *)
(* once, and of nothing else.                                               *)
CompletionAnnounced == [][\A m \in Mints :
  (~curve[m].is_completed /\ curve'[m].is_completed)
    <=> ([event |-> "complete", mint |-> m] \in emitted')]_vars

(* Every trading curve is below the limit in force.                         *)
TradingBelowLimit == \A m \in launched :
  ~curve[m].is_completed => curve[m].reserve_lamport < config.curve_limit

(* A trade executed where a quote was asked pays no more than the quote,    *)
(* and a sell exactly what was quoted (simulate_swap and swap share         *)
(* cal_amount_out; only swap clamps a buy).                                 *)
QuoteCoversTrade == [][\A e \in { x \in emitted' : x.event = "swap" } :
  LET quotes == SimulateSwap(e.mint, e.amount_in, e.direction)
  IN  /\ \E q \in quotes : e.amount_out <= q
      /\ e.direction = Sell => e.amount_out \in quotes]_vars

(* SwapEvent reports the amount asked for, also when swap cut it down: who  *)
(* sums up the buys of a curve is right about its reserve until the buy     *)
(* that completes it, even if the limit moves.                              *)
OnlyLastBuyMisreports == [][\A e \in { x \in emitted' : x.event = "swap" /\ x.direction = Buy } :
  \/ curve'[e.mint].reserve_lamport = curve[e.mint].reserve_lamport + e.amount_in
  \/ curve'[e.mint].is_completed]_vars

(* With a backend that keeps calling withdraw, and the whole supply on the  *)
(* curve, every completed curve without sell fees is withdrawn in the end,  *)
(* whatever happens to the other curves of the vault, unless transfer_fee   *)
(* takes from it.                                                           *)
CompletedIsSettled == \A m \in Mints :
  (m \in launched /\ curve[m].is_completed /\ drained[m] = 0)
    ~> (m \in settled \/ \E n \in Mints : migrated[n] > 0)

-------------------------------------------------------------------------------
(* The abstract view of a curve: its phase and its recorded reserves.       *)
Phase(m) == CASE m \notin launched -> "none"
              [] m \in settled -> "settled"
              [] m \in launched \ settled /\ curve[m].is_completed -> "completed"
              [] OTHER -> "trading"

Lifecycle == INSTANCE CurveLifecycle WITH
  phase   <- [m \in Mints |-> Phase(m)],
  lamport <- [m \in Mints |-> curve[m].reserve_lamport],
  token   <- [m \in Mints |-> curve[m].reserve_token]

(* Every curve lives the life CurveLifecycle allows.                        *)
LifecycleSpec == Lifecycle!Spec
===============================================================================
