# TLA+ verification of the pumpfun bonding-curve program

A TLA+ model of the Anchor program under `programs/pumpfun/` and of the TypeScript
client under `lib/` and `cli/`, model-checked with TLC on small instances and, in
its main parts, proved with TLAPS for all instances. Paths below are relative to the
repository.

## 1. The system

A Solana program sells new tokens along a *bonding curve*. A creator launches a
mint; part of the supply goes on the curve, the rest to the platform's team.
Traders buy from and sell to the curve at a price given by two recorded reserves
(constant product). The buy that lifts the lamport reserve to `curve_limit`
completes the curve; then the administrator withdraws its lamports and tokens, or
`transfer_fee` moves them towards a Raydium pool.

The one design decision everything else hangs on: **the lamports of all curves lie
in one vault account**, and the tokens of a mint in the vault's token account for
it, while each curve account only *records* its reserves. Nothing in the program
compares the record with the money. The properties relate the two.

### Components

| component | state it keeps | operations | what makes it correct |
|---|---|---|---|
| Global config (`state.rs` `Config`, `configure.rs`) | encoded config, account length and lamports | `configure` (create, rewrite, grow) | the encoding fits the account and its rent is owned; its authority can always rewrite it |
| Authority handover (`nominate_authority.rs`, `accept_authority.rs`) | `authority`, `pending_authority` in the config | nominate, accept | part of the configuration runs, every guard reads the current authority |
| Launch (`launch.rs`) | mint, curve account, vault and team token accounts, metadata | `launch` | supply is split exactly; books start balanced |
| Pricing (`state.rs` `cal_amount_out`) | none | – | a trade costs the curve, and all its trades together, no more than the rounding of prices |
| Swap (`swap.rs`, `state.rs` `swap`, `update_reserves`) | reserves, `is_completed`, vault, wallets | `swap` buy and sell | records and money move together; a buy stops at the limit; completion happens once and is announced |
| Withdraw (`withdraw.rs`) | zeroes the reserves, empties the vault's share | `withdraw` | pays each curve once, and is possible for every completed curve |
| Preparation of the migration (`transfer_fee.rs`) | vault, wSOL account, team, payer | `transfer_fee` | takes out of the vault only what the curve brought in |
| Whitelist (`add_wl.rs`, `remove_wl.rs`) | one account per creator | add, remove | consulted by nothing (section 7) |
| Quotes (`simulate_swap.rs`) | none, read-only | `simulate_swap` | a trade brings no more than its quote |
| Backend (not in the repository) | – | answers `CompleteEvent` with `withdraw` (`lib.rs:82`) | every completed curve is settled in the end, although transactions get lost |
| Client (`lib/scripts.ts`, `lib/util.ts`, `cli/scripts.ts`) | wallet, connection, program handle | reads the config, builds, sends and awaits one transaction per command | a swap built from an old read does what its user signed, or nothing |
| Market creation (`lib/create-market.ts`) | keypairs, a timer and two transactions of one call | `createMarket`, repeated by a 20 s timer | never repeats a call that sends, always returns, and the market follows its vaults |
| `TokenLaunch` (`state.rs`, `migrate.rs`) | reserves, phase, a vault shared with other launches | `swap`, `snipe`, `migrate` | record and money agree |
| AMM instructions (`amm_instruction.rs`) | none | `pack`, `unpack`, the five builders | what the AMM decodes is what was meant |

Interaction: the components of the program share accounts and nothing else. A
transaction holds write locks on its accounts and either succeeds as a whole or
changes nothing, so the interleavings are those of whole instructions, but of any
signers in any order; and the vault, the config and the team's accounts are
common to instructions of different mints. Events are the only channel to the
outside. The client talks to the program through a node: it reads accounts, and sends
transactions that land, fail, or are dropped, in time or long after the client has
stopped waiting. No instruction of `lib.rs` creates a `TokenLaunch` or calls its
functions (the `migrate` handler returns `Ok(())`), so `TokenLaunch` and the AMM
instructions stand beside the rest.

### Where it is hard

* Curves that never mention each other draw on the same vault.
* Rounding: prices are computed in `f64` and truncated.
* Two amounts in a sell: the recorded reserve takes the whole amount, the vault
  the amount less the fee.
* `configure` changes the limit and the fees under curves that are trading.
* Instructions stay callable out of order: `withdraw` after `withdraw`,
  `transfer_fee` after either, again and again.
* Anybody can send lamports or tokens to any account; two code paths decide by a
  balance (`configure`'s reallocation, the vault's first lamports).
* Completion reaches the backend through an event, and only one of two branches
  can complete a curve emits it.
* The client reads the config first and its transaction executes later, if at all;
  `execTx` (`lib/util.ts:57`) catches everything and returns nothing, so a command
  that failed, one that succeeded and one still on its way look alike.
* A slow `createMarket` is called a second time by its own timer.

`PROJECT.json` lists these as hazards, each with its line and the properties
aimed at it.

## 2. Modules

| module | models |
|---|---|
| `CurveMath` | `cal_amount_out`, the clamp of a buy, checked arithmetic, `convert_to_float`/`convert_from_float` |
| `GlobalConfig` | the config account, authority handover, rent, the vault's first lamports |
| `Pumpfun` | EXTENDS both; every instruction that changes an account, one action each, and the quote of `simulate_swap` |
| `CurveLifecycle` | abstract specification: none → trading → completed → settled, with the directions the reserves move in |
| `PumpfunProperties` | what is claimed; `Lifecycle == INSTANCE CurveLifecycle WITH phase <- ..., ...` is the refinement mapping |
| `PumpfunTotals` | the property that sums over mints |
| `PumpfunVolume` | EXTENDS `PumpfunTotals`: `Pumpfun` with a history no guard reads, what the trades of a mint touched and what its launch offered |
| `Client` | EXTENDS `PumpfunProperties`: the command line and the backend as processes whose transactions are on their way between reading the config and executing an instruction of `Pumpfun` |
| `CreateMarket` | `createMarket`, its timer, `execTx`, and the chain's part |
| `AmmInstruction` | `pack` and `unpack`, each with its own list of tags and fields, and `initialize2` of `amm_instruction.rs` |
| `TokenLaunch` | EXTENDS `CurveMath` and `AmmInstruction`: the second pricing, the body of `migrate`, and the calls of the other builders |
| `ArithmeticProofs` | lemmas: quotients and prices of `CurveMath`, sums over finite sets, induction and recursion over sets of naturals |
| `GlobalConfigProofs` | theorems about `GlobalConfig` |
| `PumpfunProofs` | what each action of `Pumpfun` does, and its type invariant |
| `LedgerProofs` | EXTENDS `PumpfunProofs`: the books, conservation, and the refinement of `CurveLifecycle` |
| `TradingProofs` | EXTENDS `LedgerProofs` and `PumpfunVolume`: prices, quotes, events, the limit, and what rounding can cost in the long run |
| `ClientProofs`, `TokenLaunchProofs`, `CreateMarketProofs` | theorems about the modules they are named after |
| `MCGlobalConfig`, `MCPumpfun`, `MCVolume`, `MCClient`, `MCCreateMarket`, `MCTokenLaunch` | small instances for TLC |

### State and code

* `config` is the decoded `Config` or `NoConfig`; `cfgLen` and `cfgLamports` are the
  account's data length and balance. Of the encoding only its length `size` is kept.
* `vault` is the balance of the global vault, `vaultToken[m]` of its token account
  for mint `m`, `wsol` of its wrapped-SOL account, `sol[w]`/`tokens[m][w]` of a wallet.
* `curve[m]` is the `BondingCurve` account: `init_lamport`, `reserve_lamport`,
  `reserve_token`, `creator`, `is_completed`. `launched` are the mints that exist,
  `open[m]` the wallets that have a token account.
* `emitted` are the events of the last transaction.
* Auxiliary variables, read by no guard: `funded` (lamports put in the vault by no
  trade), `net[m]` (what the vault gained through `m`), `migrated[m]` (what
  `transfer_fee` took for `m`), `drained[m]` (tokens `reserve_token` counts that are
  not in the vault: sell fees and migration tokens), `given[m]` (tokens sent
  unasked), `settled` (curves withdrawn).

Each action is a whole instruction: account constraints, `require!`s, checked
operations and insufficient balances are conjuncts (a failing transaction is no
step), the transfers, account creations and the event are its effect. `Administer`
lifts the config instructions; `GiftTokens`, `GiftLamports` and `FundConfig` are
transfers made outside the program. `TransferFee` never writes `curve`, `Launch`
never reads `whitelist`, the sell never emits `CompleteEvent`: so does the code.
`TeamAccepted` is the comparison of the team account a swap or launch names with the
one in the config; the wallets name the right one when they act for themselves, and
the client the one it read.

*Client.* `slot[s]` is a transaction on its way: the command it came from, who sent
it, the team account it names, and whether the command still waits for it or has
returned (`abandoned`). `Submit` is the read of the config, the building and the
sending (`lib/scripts.ts`); `Land` executes the instruction of `Pumpfun` with what
was read; `Lose` is a rejection or an expired blockhash; `GiveUp` is a confirmation
that times out, which `execTx` swallows like any other exception. One process awaits
one command at a time, so a second transaction can be sent while the first is still
on its way only after `GiveUp` or a throw in sending. A request to launch names no mint:
`launchTokenTx` generates a key pair with every call (`lib/scripts.ts:89`), so `Built`
adds one of the `FreshMints`, and a second launch never repeats the first. `announced` are the mints whose
`CompleteEvent` was emitted. `Others` is everything `Pumpfun` does by itself.

*CreateMarket.* `pc[c]` follows call `c` from request to request, with `await`s as
stages; each request may throw, whereupon the call returns `undefined`. `timer[c]` is
the `setTimeout` of `create-market.ts:139`, `tx[c][t]` what became of the two
transactions, `heard[c]` the confirmations that came before the wait ended. `Land` is
the chain. Sizes, lots, keys and rents are left out: they decide nothing here.

*TokenLaunch.* `launch` is the account, `vault` and `vaultToken` the accounts it pays
from, `user` all traders taken together, holding `UserTokens` tokens that were never on the
curve, `call` the last instruction sent to the AMM
and what it was meant to say. Actions are called in any order, since no handler
restricts it. The AMM's side of `migrate` (taking the coin and its pool fee) is
external, and so is the runtime's rule that a program passes on only privileges it
was given (`Privileged`, which compares the accounts of `initialize2` with those
`Migrate` declares mutable). `Deposit`, `Withdraw`, `SwapBaseIn` and `SwapBaseOut` are the
other four builders: they pack their arguments, and nothing orders them.

### Abstractions

* **f64.** `FloatTrunc(num, den)` is the *set* of truncations of the exact quotient
  disturbed by a relative error of 1/`FloatPrecision`. A double has about 2^-52 per
  operation and the chains have few, so real behaviour lies in the set for any
  `FloatPrecision` up to that order; the small values used make an error bite at
  small amounts exactly as it does on chain at exact quotients (an amount with a
  fee of zero may lose one unit: `x / 1e9 / 100 * 100 * 1e9` may fall below `x`).
  The `as u64` cast saturates (`AsU64`). The share of the supply that `launch` puts on the curve is modelled exactly
  (`OnCurve`), and for the whole percentages assumed here it is: `tokenSupply` is a
  u64 converted to `f64`, its product with the percentage is an integer that a double
  holds exactly up to 2^53, and the correctly rounded quotient by 100 truncates to the
  integer part of the exact one (a quotient that is not a whole number stays at least
  1/100 away from the next). For larger supplies the last digits may differ; no property
  depends on them, since the rest of the supply goes to the team.
* **Percentages** are whole numbers (they are `f64` in `Config`).
* **u64** is `0..MaxU64` with a small `MaxU64`; checked operations yield no result
  beyond it, and only curve fields and prices are bounded by it.
* **Bytes.** A `u64` field is `Width` bytes in base `ByteBase`, two in base 12 in the
  run, enough that order, offset and width matter; the theorems are for every width and
  every base above the largest tag, hence for 8 bytes in base 256. Tags are those of the
  code. `PackLayout` and `UnpackLayout` hold what the branches of `pack` and of `unpack`
  list, separately as in the code; that they agree is a lemma (`LayoutsAgree`) that the
  round trip rests on.
* **Rent.** The runtime's rule that no account may be left with a balance between
  zero and its rent exemption is `RentPaid`. The rent of curve and token accounts
  and transaction fees, paid by the signer, are not charged; they only reduce
  `sol` outside the ledger. The vault's wrapped-SOL account exists.
* **Wallets** do not pay each other; a transfer between them changes no account
  the properties mention. The team's wallet is one of `Wallets`.
* Names, symbols, URIs, metadata, seeds and addresses are left out; account
  substitution other than of the team's account is excluded by the seeds constraints.

## 3. Properties

Type invariants (`TypeOK`, `ClientTypeOK`, `MarketTypeOK`, `LaunchTypeOK`) aside, in
the order they matter.

| property | kind | says |
|---|---|---|
| `TokenLedger` | invariant | vault tokens and recorded reserve differ by exactly what sells and migration diverted, less gifts |
| `LamportLedger` | invariant | what the vault gained through a curve plus what migration took is what was bought into it; zero once settled |
| `VaultMatchesCurves` | invariant | the same, summed over the curves sharing the vault |
| `BuyStopsAtLimit` | action | no buy passes the limit in force, and it completes the curve exactly when it reaches it |
| `SettledPaysNothing` | action | nothing leaves the vault for a curve after its withdrawal |
| `LifecycleSpec` | refinement | the program implements `CurveLifecycle` |
| `ProductFallsByRounding` | action | whatever the precision, a trade lowers the product of the reserves by no more than the relative rounding error of its own price |
| `WorthFallsByRounding` | action | whatever the precision, a trade lowers what its curve would hold if every token were sold back by no more than the relative rounding error of the lamports it touches |
| `VirtualLossBounded` | invariant | of the virtual lamports its offered tokens are worth, `init_lamport * offered / supply`, a curve never lacks more than one part in `FloatPrecision` of the lamports its trades touched |
| `QuoteCoversTrade` | action | a trade pays at most what `simulate_swap` quotes in the same state, a sell exactly that |
| `OnlyLastBuyMisreports` | action | summing up `SwapEvent`s follows the reserve of a curve until the buy that completes it, even if the limit moves |
| `TradingBelowLimit` | invariant | a curve that trades is below the limit (limit fixed) |
| `CompletionAnnounced` | action | `CompleteEvent` is emitted by exactly the steps that complete a curve |
| `ConfigFits` | invariant | the config lies within its account, which owns its rent |
| `CompletedIsSettled` | liveness | a completed curve without sell fees is withdrawn in the end unless migration takes from the vault |
| `SwapAsBuilt` | action | a swap that lands late brings its user at least the minimum he signed, and pays nobody but the team account it names, which is then still the team's |
| `AnnouncedIsWithdrawn` | liveness | a backend that repeats lost withdrawals settles every announced curve (same excuses as `CompletedIsSettled`) |
| `NoRetryOnceSending` | action | a timer repeats only a call that has sent nothing |
| `MarketFailsOnlyUnconfirmed` | invariant | a market fails for want of its vaults only if the vaults' confirmation was an error or given up |
| `EveryCallReturns` | liveness | `createMarket` returns, whatever node and chain do |
| `LaunchTokensMatch`, `LaunchBooks` | invariants | a launch's token account and recorded reserve agree; its lamports are what was bought, less what migrations took, snipes aside |
| `LaunchProductFallsByRounding` | action | whatever the precision, a trade or snipe of the second pricing lowers the product of the reserves by no more than the rounding of its price and of its priced amount |
| `CallDecodes` | invariant | `unpack` of what was packed is what was meant, of an extended buffer too, and of a shortened one nothing |
| `ReconfigurePossible`, `TokensCovered`, `LamportsCovered`, `MigrationWithinCurve` | invariants | stated by the code's own comments; the code violates them (section 6), as it does `CompletionAnnounced` once the limit may be lowered |

## 4. Runs

Sizes are of the full state graph.

| run | instance | shows |
|---|---|---|
| `trade` | 1 mint, 2 wallets, both fees 50 %, configs of two lengths, limit 10 from 4 virtual lamports, gifts of 6 to vault and config (448 thousand) | `TypeOK`, `ConfigFits`, `TokenLedger`, `LifecycleSpec` |
| `two_mints` | 2 mints, 1 wallet that is trader, team and authority, no fees (246 thousand) | `LamportLedger`, `VaultMatchesCurves`, `SettledPaysNothing`, and `CompletedIsSettled` under fairness |
| `volume` | 1 mint, three quarters of the supply offered and the rest the team's, sell fee 0 or 25 %, amounts 3 and 10, precision 4 (233 thousand) | `VirtualLossBounded`, `TradingBelowLimit`, `CompletionAnnounced`, `QuoteCoversTrade` |
| `reconfigure` | limit moves between 10 and 7 and the buy fee between 50 and 0 under a trading curve, nominations, whitelist (417 thousand) | `BuyStopsAtLimit`, `OnlyLastBuyMisreports`, `ProductFallsByRounding`, `WorthFallsByRounding` |
| `client` | 1 mint, 2 wallets, the team's wallet and the limit move, 2 transactions on their way at a time (214 thousand) | `ClientTypeOK`, `SwapAsBuilt`, `AnnouncedIsWithdrawn` |
| `market` | a call and its timer's repetition (9 312) | `MarketTypeOK`, `MarketFailsOnlyUnconfirmed`, `NoRetryOnceSending`, `EveryCallReturns` |
| `token_launch` | 1 launch, 2 configs, amounts 2 and 5 (585 thousand) | `LaunchTypeOK`, `LaunchTokensMatch`, `LaunchBooks`, `CallDecodes`, `LaunchProductFallsByRounding` |
| `config_blocked`, `dust`, `shared_vault`, `repeat_fee`, `silent_completion` | see section 6 | one violated property each |

**Why the bounds are enough.** Lamports and tokens come in units of a few, so that
a percentage of 50 tells whole from halved amounts and truncation loses whole
units. Amounts are chosen so that a curve can be completed by one clamped buy and
by several, sold below a former reserve, and drained; the second amount of
`volume` exceeds the reserve the curve has left. `MaxU64` is at the size of the
supply, so checked additions do fail. Two mints are the least number at which the
shared vault matters. The lamports of wallets are finite and nothing mints SOL, so
the instances of `Pumpfun` and `Client` are finite without any state constraint. In
`volume` the history grows for ever, and `MaxVolume` cuts it off at 17 lamports: enough to
complete the curve after others have sold, and to lose lamports to rounding before that. Its one wallet acts as trader, team and authority, which loses nothing, as the
property is about the curve. In `client`, there is one mint for the key pairs to be drawn from, and two transactions
on their way are the least with which one overtakes another, and a swap can be built
before `configure` moves the team's wallet and land after it moved back. In `market`,
two calls suffice because calls share nothing but the order in which timers start
them; the proofs are for any number. In `token_launch` the limit can be reached by
trades and by snipes, the vault holds `Funds` of other launches, and a second
migration after trading has resumed is reachable; `MaxSniped` bounds the lamports a
snipe records without moving any, which nothing else bounds.

**Deadlock** is not checked in three runs. `trade` stops when the signers have spent
their lamports on gifts and the authority cannot pay for a longer config, `volume` when its
wallet gave away what the first `configure` would have cost. `market`
stops when both calls have returned and their transactions are final. In the other
passing runs `configure` by the authority, or building an instruction, is always possible,
and deadlock is checked.

`FloatPrecision` decides how far a price may be off. It is 64 in the runs whose properties
bound what an error costs (`reconfigure`, `token_launch`), so that quotients of the
sizes in them do get rounded up, 64 in `trade`, where the fee should vary, and 4 in
`volume`, where losses have to add up within 17 lamports. `two_mints` and `client` have 10000, where
only truncation is left: their properties are books, phases and liveness. Of the
violated properties only `TokensCovered` needs an imprecise price; those runs have 64.

**Fairness.** `FairSpec` adds weak fairness of `\E w : Withdraw(w, m)` for each mint.
The program has no scheduler; `lib.rs:82` says a backend receives an event when the
curve is completed and calls `withdraw`. That is the assumption, and only that:
no trade, launch or migration is fair. With it `CompletedIsSettled` says the
instruction itself never becomes permanently impossible, whatever other curves do.
It is stated for curves with `drained = 0`, since one with sell fees can in fact
not be withdrawn, and excuses runs in which `transfer_fee` took from the vault.

`FairClientSpec` replaces that by what a backend and a network can do: a transaction
does not stay on its way for ever, for its blockhash expires (weak fairness of
`Lose`); the backend is a process that keeps answering announced curves (strong
fairness of `Respond`, since the slots may be taken again and again); and a network
on which the backend has a landable transaction time and again lands one at last
(strong fairness of `Land`). Any single transaction may still be lost or
abandoned. `AnnouncedIsWithdrawn` is then about the retry: it fails for a backend
that takes a command's return for its success (its mutant, `RespondOnce`).

In `CreateMarket` each `await` of a call ends, with an answer or an exception, and so
does the wait for a confirmation (weak fairness of `Advance`): requests and
confirmations have timeouts of their own. Nothing is assumed of the chain or the timer.

Every property of a passing run has a mutant: a plausible slip in one definition
(for instance a quotient rounded up instead of down, completion decided before the
write, a buy that is not clamped) under which TLC finds that property violated.

## 5. Proofs

Checked by `tlapm`, for every value of the constants that satisfies the named
assumptions of the modules. These give types; beyond that they say that `transfer_fee`
keeps more out of the pool than its market fee, make
rent per byte positive, make wallets and mints finite, number the calls of `createMarket`
from 1, keep the client's two processes apart, let a `TokenLaunch` start at or above
its virtual lamports, and let a u64 fit the bytes it is encoded in. Every one is evaluated
by a run.

| theorem | property | for |
|---|---|---|
| `ConfigTypeCorrect`, `ConfigAlwaysFits` | `ConfigTypeOK`, `ConfigFits` | `ConfigSpec`, gifts included |
| `ReconfigureAlwaysPossible` | `ReconfigurePossible` | `Gifts = {}`: the counterexample of `config_blocked` needs the gift |
| `ConfigFitsCorrect`, `ReconfigureCorrect` | the same two of the whole program, whose other instructions move the vault and the wallets under `configure` | `Spec`; `Gifts = {}` for the second |
| `TypeCorrect` | `TypeOK`: no balance goes negative and the u64 fields stay in range, whatever the fees, amounts and rounding errors | `Spec` |
| `TokenLedgerCorrect`, `LamportLedgerCorrect` | `TokenLedger`, `LamportLedger` | `Spec` |
| `VaultMatchesCurvesCorrect` | `VaultMatchesCurves` | `Spec` |
| `LamportsCoveredUnlessTaken` | `LamportsCovered`, in states in which nothing was migrated and no open curve is below its virtual lamports | `Spec` |
| `BuyStopsAtLimitCorrect`, `SettledPaysNothingCorrect` | `BuyStopsAtLimit`, `SettledPaysNothing` | `Spec` |
| `LifecycleImplemented` | `LifecycleSpec` | `Spec` |
| `OnlyLastBuyMisreportsCorrect` | `OnlyLastBuyMisreports` | `Spec` |
| `ProductFallsByRoundingCorrect`, `WorthFallsByRoundingCorrect` | `ProductFallsByRounding`, `WorthFallsByRounding` | `Spec`, every `FloatPrecision` |
| `VirtualLossBoundedCorrect` | `VirtualLossBounded` | `VolumeSpec` (`Spec` with the history), every `FloatPrecision`, every split between curve and team |
| `QuoteCoversTradeCorrect` | `QuoteCoversTrade` | `SumsFit` |
| `TradingBelowLimitCorrect`, `CompletionAnnouncedCorrect` | `TradingBelowLimit`, `CompletionAnnounced` | `OneLimit` |
| `ClientTypeCorrect`, `SwapAsBuiltCorrect` | `ClientTypeOK`, `SwapAsBuilt` | `ClientSpec` |
| `ClientImplementsProgram`, `ClientKeepsBooks` | the refinement of the program by the client, and what follows: `TokenLedger`, `LamportLedger`, `LifecycleSpec` | `ClientSpec` |
| `LaunchTypeCorrect`, `LaunchTokensMatchCorrect`, `LaunchBooksCorrect` | `LaunchTypeOK`, `LaunchTokensMatch`, `LaunchBooks` | `TokenLaunch!Spec` |
| `LaunchProductFallsByRoundingCorrect` | `LaunchProductFallsByRounding` | `TokenLaunch!Spec`, every `FloatPrecision` |
| `EncodingRoundTrip` | `unpack` of what `pack` wrote, with anything behind it, is the instruction | every instruction whose numbers fit their fields |
| `CallDecodesCorrect` | `CallDecodes` | `TokenLaunch!Spec`, every `Width` and `ByteBase` |
| `MarketTypeCorrect`, `MarketFailsOnlyUnconfirmedCorrect`, `NoRetryOnceSendingCorrect` | `MarketTypeOK`, `MarketFailsOnlyUnconfirmed`, `NoRetryOnceSending` | any number of overlapping calls |

### Hypotheses

Some theorems need more than the code guarantees. Each hypothesis holds in the run that
checks the property, and says what to look at when it does not hold.

* `OneLimit`: all configurations have one limit, and what they allow a launch to start
  with is below it. `silent_completion` shows the need for the first half.
* `SumsFit`: the limit plus an amount asked for fits into u64. `simulate_swap` adds the
  whole amount before dividing, `swap` only the clamped one. On chain the limit is about
  10^11 lamports, so an amount that fails it is one nobody owns.

Nothing is assumed about the precision of the arithmetic. A claim that rounding never
works against the curve would need one: doubles have about 2^52, and the product of real
reserves (about 10^11 lamports by 10^15 token units) exceeds that, so a quotient can be
rounded up. The theorems bound what it costs instead: `ProductFallsByRoundingCorrect` and
`WorthFallsByRoundingCorrect` per trade, `VirtualLossBoundedCorrect` over any number of
trades. At a precision of 2^50, with the whole supply offered, a curve
lacks no virtual lamport until its trades have touched 2^50 lamports, and at most one
more each time they touch as many again. A sell touches the whole reserve, about 10^11,
so that is one lamport in ten thousand sells. Where the team keeps a share, the theorem
says what it can take out beyond that: selling its tokens back brings the reserve down to
`init_lamport * offered / supply`, and `shared_vault` shows who pays.

### Arguments

*Effects.* `PumpfunProofs` shows what each action does to the accounts (`SellEffect`,
`BuyEffect`, `WithdrawEffect`, `TransferFeeEffect`, `LaunchEffect`: the existential over
prices is opened once, and the result is a list of equations over natural numbers), and
`TypeOK` follows action by action. A buy cannot pass u64, for instance, because of the
checked addition; a sell cannot take more than the reserve because of the checked
subtraction. Everything is proved of `AnyNext`, which bounds neither the amounts and
minimums asked for nor the keys put on the whitelist, so that it also covers the
transactions `Client` builds; `Next` implies it (`NextIsAny`).

*Books.* `LedgerProofs` then forgets wallets: `MintSteps` says that a step leaves a mint
at rest (`Rests`) or is one of six moves of that mint, and that all other mints rest.
Most further proofs are a case analysis over these moves. `TokenLedger` and
`LamportLedger` are not inductive by themselves: a launch overwrites a curve and must
know that nothing was recorded of the mint before (`UnlaunchedEmpty`), and a second
`withdraw` is harmless only because a settled curve is completed with both reserves zero
(`SettledEmpty`). The inductive invariant is `TypeOK /\ Books`, with
`Books == UnlaunchedEmpty /\ SettledEmpty /\ TokenLedger /\ LamportLedger`.
`SettledPaysNothing` uses that `Raised` is `0 - init_lamport` on a settled curve, so
`withdraw` and `transfer_fee` either find it zero or fail on the subtraction; the
`MigrationReserve` is positive, so `transfer_fee` always fails.

*Sums.* `VaultMatchesCurves` adds up mints, and what can ever be sold to a curve is a sum
over wallets. That a sum
over a finite set changes by what one term changes cannot be had from the library, whose
induction theorems take an operator as a parameter. `ArithmeticProofs` proves it by a
least counterexample: a set of the smallest cardinality on which the claim fails. With
it each action `Keeps` the totals, wherever signer, administrator and team coincide, except
`Launch`. A launch mints into a wallet and the vault, so the inductive
invariant (`Conserved`) adds to the equality of supply, vault and wallets that nobody held
tokens of an unlaunched mint, and that
`vault` is `funded` plus all of `net` (`VaultNet`). `LamportsCoveredUnlessTaken` is read off
the same invariant: where no curve is below its virtual lamports every term of the sum is a
natural number, so each is at most the sum. It says that the two causes `shared_vault` and
`repeat_fee` show are the only ones.

*Refinement of `CurveLifecycle`.* Each move maps to one abstract step of its mint, or a
stutter: trades and launches to their namesakes, the first withdrawal to `Settle`,
everything else to a stutter (`AbstractStep`).

*Prices.* A quotient that the f64 arithmetic may return is at most the exact one times
1 + 1/`FloatPrecision`. Multiplied out, that is the bound of `ProductFallsByRounding`. `QuoteCoversTrade` needs that prices rise with the amount
(the clamp only ever shortens a buy) for the rounded prices as well, not just for the exact quotients.

*Losses.* `VirtualLossBounded` is far from inductive: that a reserve is high enough says
nothing about the next sell. What a curve would hold if every token were sold back does:
the product of its reserves over all tokens there can be, the supply and the fees the curve
counted twice (`drained`). Since wallets and vault together hold the supply (`Conserved`),
the tokens on the curve and in any wallet are never more than that (`HoldingsCounted`).
`SellWorth` and `BuyWorth` bound how far one trade lowers this quotient: a sell's fee adds as many
tokens below the line as above it, and that never costs more than the rounding.
No state of the program knows what was traded before, so `PumpfunVolume` adds
history variables which no guard reads: `VolumeSpec` is `Spec` with every
step also adding to `volume` what a trade touched, the lamports on the curve for a sell, those
paid in for a buy, and every launch recording what it `offered`. A launch starts with a worth
of `init_lamport * offered / supply`, whatever the split. The inductive `LossOf(m)` says, in
lamports times supply, that neither reserve nor, while the curve trades, worth is further
below that than the volume over `FloatPrecision`; `LossAdds` is the arithmetic of adding one more trade.

*Limit.* With `OneLimit`, `TradingBelowLimit` is inductive together with `ConfigKnown`
(the limit in force is one somebody wrote, and nothing is launched before). A sell then
cannot complete a curve, and only the buy that reaches the limit emits `CompleteEvent`.

*Client.* `ClientTypeOK` contains the one nontrivial part, that a process awaits one
transaction at a time; it is inductive. Every landing is then a step of `AnyNext`
(`ExecuteIsAny`) or fails, and everything else the client does leaves the program alone, so the books
and the lifecycle carry over. `SwapAsBuilt` follows from what the two effects do to each
balance: `swap` compares the team account with the config at execution, so nobody can be
paid by an old read.

*TokenLaunch.* `LaunchSteps` says every step is a sell, an issue of tokens (a buy or a
snipe, which differ in what is paid), a migration, or leaves the books alone. The three
invariants are inductive with the type invariant. `LaunchProductFallsByRounding` is the
bound of one price (`ProductRounding`) plus that of an uncapped priced amount
(`UncappedRounding`): unlike `BondingCurve`, nothing here compares the amount priced with
the amount paid, and with a fee of zero it may be rounded above it.

*Encoding.* `pack` and `unpack` are recursive functions: a buffer grows field by field, a
number is cut and put together byte by byte. Nothing about them can be had without
induction, and the library's induction takes a predicate as an operator.
`ArithmeticProofs` therefore states it for the *set* on which a claim holds
(`IntervalInduction`, from the well-foundedness of the naturals), and that a recursive
definition over an interval has a value, for a step given as a *function*
(`RecursionOnInterval`). On these rest what each definition computes: `HighPartIs`,
`FromLeBytesIs`, `EndsAre`, `BuffersAre`. That a number comes back (`BytesRoundTrip`) is
then division with remainder once per byte: the value of the `k` highest bytes is what is
left of the number without the others. `BuffersEncode` says that each field lies between
its two `Ends`, so that `Fields`, which looks nowhere else, finds it whatever follows
(`FieldsAre`). The invariant is `CallEncoded`: the last call is the encoding of an
instruction. What a step has to show for it is that its numbers fit their fields
(`MigrateEncodes`: the pool's lamports and tokens are within the reserves, which are `u64`);
`CallDecodes` follows by `EncodingRoundTrip` and, for the buffers cut short, `CutEncoding`.

*Configuration.* In `GlobalConfigProofs`, `ConfigFits` is inductive with the type
invariant because the account either has lamports for the new length (and then was long
enough or is grown) or is topped up and grown. `ReconfigureAlwaysPossible` needs the
stronger fact that length and lamports move in step (`RentInStep`). In `PumpfunProofs` a
step of the whole program is a step of the configuration part or leaves the config account
alone (`ConfigSteps`), so both invariants carry over, although the other instructions share
the vault and the wallets with `configure`.

*Market.* `CreateMarketProofs` is an induction per call. `CallInv(c)` says what the stage
of a call tells of its transactions (nothing is sent before the first `execTx`, nothing of
the market before the second), that a confirmation that came is final, that an armed timer
belongs to a call still reading rents or one that threw, and the claim itself.
`MarketFailsOnlyUnconfirmed` is not inductive without the second part: only because what
was heard is final can the vaults not land after the market failed. Every action but
`Fire` moves one call and leaves the others `Same`; `Fire` moves a call that is idle and
hence differs from the one whose timer it is.

### Only model-checked

* `CompletedIsSettled`, `AnnouncedIsWithdrawn` and `EveryCallReturns` are liveness under
  fairness, which is outside what the installed provers can do.
* The five violated properties, by their nature. For four of them a theorem says what
  holds instead: `ReconfigureAlwaysPossible`, `TokenLedgerCorrect` (of
  `TokensCovered`), `LamportsCoveredUnlessTaken`, `CompletionAnnouncedCorrect`. Of `MigrationWithinCurve` there is only
  `LamportLedgerCorrect`, which says where the lamports came from.

## 6. Findings

Each is a run that ends in a counterexample.

* `config_blocked` – `configure` reallocates only when the account lacks lamports
  (`configure.rs:92`). Lamports sent to the account let a longer config skip the
  reallocation, and the slice copy of `configure.rs:107` panics: that config
  cannot be written.
* `dust` – a sell records the whole amount but moves the adjusted amount
  (`state.rs:227`). Even with a fee of zero a truncation leaves the vault one token
  short, and `withdraw`, which transfers the recorded reserve, fails. With a fee it
  fails after every sell, unless somebody sends the vault the missing tokens:
  `TokenLedger` says how many they are.
* `shared_vault` – the team's share of the supply was never bought; sold back, it
  takes the reserve below `init_lamport`, and the vault pays with another curve's
  lamports, whose `withdraw` then lacks them.
* `repeat_fee` – `transfer_fee` leaves no mark on the curve and can be called again.
* `silent_completion` – after the limit is lowered a sell completes the curve, and
  the sell branch emits no `CompleteEvent`, so the backend of `Client` never hears of it.

## 7. Known deviations modelled as they are, without a run

In the program:

* `WithdrawEvent.token_amount` is read after the reserves were reset
  (`withdraw.rs:141`) and is always zero.
* `SwapEvent.amount_in` is the amount asked for; `swap` clamps a buy inside
  (`OnlyLastBuyMisreports` says this is confined to the last buy). For the same reason
  a completing buy fails if the quote of `simulate_swap` is passed as its minimum.
* A buy takes the amount from the buyer and the fee on top of it, not out of it.
* The whitelist check of `launch` is commented out (`launch.rs:148`), so
  `whitelist_enabled` has no effect; `add_wl` takes any signer.
* A curve whose reserve is above a lowered limit does not complete until somebody
  sells, and no buy of it succeeds (`curve_limit - reserve_lamport` underflows).
* `configure` overwrites the authority and a pending nomination with what it is given.
* After `migrate`, `TokenLaunch` trades on and can be migrated again; `snipe` records
  lamports that nobody pays. The vault is the `user_wallet` of `initialize2` and so pays for
  the pool, about 0.4 SOL and another 0.017 of rents (`transfer_fee.rs:117`); together with
  the caller's 0.33 that is more than the 0.73 `migrate` keeps out of the pool, so a launch
  may take lamports of others. Nothing in the model assumes otherwise.
* The doc comment of `initialize2` (`amm_instruction.rs:108`) lists the market as
  writable and the fee destination and the user's coin and pc accounts as read-only; the
  code below it (from line 400) does the opposite. The model follows the code.

In the client:

* A swap's minimum is its amount (`lib/scripts.ts:138`), tokens against lamports: most
  sells fail. `SwapAsBuilt` shows what the minimum nevertheless guarantees.
* The `migrate` command sends `transfer_fee` and `migrate` in one transaction; `migrate`
  names a `TokenLaunch` account that nothing creates, so the transaction always fails
  and is not among the client's commands.
* A slow first call of `createMarket` and its timer's repetition can both open a
  market. `NoRetryOnceSending` only says that the repeated call had sent nothing *when
  the timer fired*. What the repetition returns is lost, and the market's key is
  returned even if its transaction failed. The only caller in `cli/scripts.ts:162` is
  commented out.

## 8. Not modelled

* The account lists of the other four builders of `amm_instruction.rs` (deposit,
  withdraw and the two swaps), which nothing calls and no property tells apart; their
  encodings are modelled.
* Rent in `TokenLaunch`.
* Sizes, lots and key generation in `create-market.ts`.
* `errors.rs`: the messages of the errors; that an instruction fails is a guard.
* `cli/command.ts`: argument parsing. `spl-programs/*.so`: third-party binaries.
* The backend's part in the migration: nothing in the repository describes it.

## 9. What is left

All components with behaviour of their own are modelled, and every safety property of a
passing run is a theorem. What would add to this:

1. An interval for the rounding of each single operation of `cal_amount_out`, in the order
   of the code, instead of one relative error for the chain.
2. The account lists of the four AMM builders nothing calls, should something call them.
3. The backend's part in the migration, once it is described anywhere.
