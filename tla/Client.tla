-------------------------------- MODULE Client --------------------------------
(***************************************************************************)
(* The command line client and the backend around the program.  A command  *)
(* reads the config, builds a transaction from what it read, sends it and  *)
(* waits; execTx returns nothing, whether the transaction landed, failed   *)
(* or is still on its way when the wait times out.  Transactions of all    *)
(* other people (Pumpfun's own next-state relation) come in between.       *)
(***************************************************************************)
EXTENDS PumpfunProperties

CONSTANTS Slots,      \* transactions of the client that may be on their way at a time
          Cli,        \* the process that runs the commands, one at a time
          Backend,    \* the process that answers CompleteEvent
          Commands,   \* what the command line may be asked to do
          Operator,   \* the wallet the backend signs with
          Idle        \* a slot with no transaction

Processes == {Cli, Backend}

(* Commands that name all they act on ...                                   *)
NamedType ==
  [op : {"swap"}, wallet : Wallets, mint : Mints, amount : Nat, style : {Buy, Sell}]
  \cup [op : {"withdraw"}, wallet : Wallets, mint : Mints]
  \cup [op : {"config"}, wallet : Wallets, cfg : Configs]
  \cup [op : {"addWl"}, wallet : Wallets]

(* ... and launch, which is asked for without a mint and sent with one.     *)
RequestType == NamedType \cup [op : {"launch"}, wallet : Wallets, params : Launches]

CommandType ==
  NamedType \cup [op : {"launch"}, wallet : Wallets, mint : Mints, params : Launches]

ASSUME ClientAssumption == /\ Cli # Backend
                           /\ Commands \subseteq RequestType
                           /\ Operator \in Wallets
                           /\ Slots \subseteq Nat

VARIABLES slot,      \* [stage, from, cmd, team], or Idle
          announced  \* mints whose CompleteEvent was emitted

clientVars == <<slot, announced>>
allVars == <<vars, clientVars>>

(* waiting: the command awaits it; abandoned: the command has returned.      *)
SlotType == [stage : {"waiting", "abandoned"}, from : Processes, cmd : CommandType, team : Wallets]

ClientInit == /\ Init
              /\ slot = [s \in Slots |-> Idle]
              /\ announced = {}

(* Every CompleteEvent reaches the log.                                     *)
Announce == announced' =
  announced \cup { m \in Mints : [event |-> "complete", mint |-> m] \in emitted' }

From(s, p) == slot[s] # Idle /\ slot[s].from = p

(* Mutant: the next command starts while one is awaited.                     *)
NeverBusy(p) == FALSE

(* A process awaits one command at a time.                                  *)
Busy(p) == \E s \in Slots : From(s, p) /\ slot[s].stage = "waiting"

(* Commands that fetch the config first; without one the fetch throws.      *)
Fetches(c) == c.op \in {"swap", "withdraw"}

(* The team account a transaction names: the one just read, or the user.    *)
TeamFor(c) == IF Fetches(c) THEN config.team_wallet ELSE c.wallet

(* A command reads, builds and sends: from here on the transaction may land *)
(* at any time.  The sending throws, sometimes, although the node has the   *)
(* transaction; a command that fails before that leaves no trace.           *)
Submit(p, s, c) ==
  /\ ~Busy(p)
  /\ slot[s] = Idle
  /\ Fetches(c) => config # NoConfig
  /\ \E stage \in {"waiting", "abandoned"} :
       slot' = [slot EXCEPT ![s] = [stage |-> stage, from |-> p, cmd |-> c, team |-> TeamFor(c)]]
  /\ UNCHANGED <<vars, announced>>

(* Every call of launchTokenTx generates a key pair: a mint that neither    *)
(* exists nor is named by a launch on its way.                              *)
FreshMints == { m \in Mints \ launched :
  \A s \in Slots : slot[s] = Idle \/ slot[s].cmd.op # "launch" \/ slot[s].cmd.mint # m }

Built(c) ==
  IF c.op = "launch"
  THEN { [op |-> "launch", wallet |-> c.wallet, mint |-> m, params |-> c.params] : m \in FreshMints }
  ELSE {c}

(* The command line runs one of its commands.                               *)
Run(s, c) == \E b \in Built(c) : Submit(Cli, s, b)

(* The network refuses the transaction, or drops it until its blockhash     *)
(* expires.                                                                 *)
Lose(s) ==
  /\ slot[s] # Idle
  /\ slot' = [slot EXCEPT ![s] = Idle]
  /\ UNCHANGED <<vars, announced>>

(* confirmTransaction times out, execTx swallows that too.                  *)
GiveUp(s) ==
  /\ slot[s] # Idle /\ slot[s].stage = "waiting"
  /\ slot' = [slot EXCEPT ![s].stage = "abandoned"]
  /\ UNCHANGED <<vars, announced>>

(* Mutant: no minimum is sent along.                                        *)
NoMinimum(amount) == 0

(* The client passes the amount as the minimum it wants to receive, too.    *)
MinimumFor(amount) == amount

(* The migrate command is missing: its transaction holds transfer_fee and   *)
(* migrate, migrate names a TokenLaunch account that no instruction         *)
(* creates, and so neither takes effect.                                    *)
Execute(c, team) ==
  \/ c.op = "swap" /\ c.style = Buy
     /\ BuyTokens(c.wallet, team, c.mint, c.amount, MinimumFor(c.amount))
  \/ c.op = "swap" /\ c.style = Sell
     /\ SellTokens(c.wallet, team, c.mint, c.amount, MinimumFor(c.amount))
  \/ c.op = "withdraw" /\ Withdraw(c.wallet, c.mint)
  \/ c.op = "launch" /\ Launch(c.wallet, team, c.mint, c.params)
  \/ c.op = "addWl" /\ AddWl(c.wallet)
  \/ /\ c.op = "config" /\ Configure(c.wallet, c.cfg)
     /\ emitted' = {}
     /\ UNCHANGED <<launched, curve, supply, vaultToken, tokens, open, wsol, whitelist, books>>

(* The transaction is executed, late or in time; an awaited one is then     *)
(* confirmed and its command returns.                                       *)
Land(s) ==
  /\ slot[s] # Idle
  /\ Execute(slot[s].cmd, slot[s].team)
  /\ slot' = [slot EXCEPT ![s] = Idle]
  /\ Announce

(* External: transactions of people who use another client.                 *)
Others == Next /\ Announce /\ UNCHANGED slot

(* Mutant: the backend takes the return of its command for success.         *)
RespondOnce(s, m) ==
  /\ m \in announced \ settled
  /\ ~Busy(Backend) /\ slot[s] = Idle /\ config # NoConfig
  /\ announced' = announced \ {m}
  /\ slot' = [slot EXCEPT ![s] =
       [stage |-> "waiting", from |-> Backend, team |-> config.team_wallet,
        cmd |-> [op |-> "withdraw", wallet |-> Operator, mint |-> m]]]
  /\ UNCHANGED vars

(* External: the backend withdraws each announced curve until that worked.  *)
Respond(s, m) ==
  /\ m \in announced \ settled
  /\ Submit(Backend, s, [op |-> "withdraw", wallet |-> Operator, mint |-> m])

ClientNext ==
  \/ Others
  \/ \E s \in Slots :
       \/ \E c \in Commands : Run(s, c)
       \/ Lose(s)
       \/ GiveUp(s)
       \/ Land(s)
       \/ \E m \in Mints : Respond(s, m)

ClientSpec == ClientInit /\ [][ClientNext]_allVars

(* No transaction stays on its way for ever: its blockhash expires.  The    *)
(* backend is a process that keeps running, and the network is not down for *)
(* it for ever.                                                             *)
ClientFairness ==
  /\ \A s \in Slots : WF_allVars(Lose(s))
  /\ SF_allVars(\E s \in Slots, m \in Mints : Respond(s, m))
  /\ SF_allVars(\E s \in Slots : From(s, Backend) /\ Land(s))

FairClientSpec == ClientSpec /\ ClientFairness

-------------------------------------------------------------------------------
(* Slots hold what the client sends, and one process awaits at most one.    *)
ClientTypeOK ==
  /\ slot \in [Slots -> SlotType \cup {Idle}]
  /\ announced \subseteq launched
  /\ \A p \in Processes : \A r, s \in Slots :
       (From(r, p) /\ From(s, p) /\ slot[r].stage # "abandoned" /\ slot[s].stage # "abandoned")
         => r = s

Landed(s) == slot[s] # Idle /\ Land(s)

Gains(w, m) == tokens'[m][w] > tokens[m][w] \/ sol'[w] > sol[w]

(* A transaction built from an old read of the config does what its user    *)
(* signed or nothing: he receives at least the minimum, and no one else is  *)
(* paid but the team account it names, which must still be the team's,      *)
(* however the fees, the limit, the team and the price moved in between     *)
(* (lib/scripts.ts reads teamWallet, instructions/swap.rs compares it).     *)
SwapAsBuilt == [][\A s \in Slots : Landed(s) /\ slot[s].cmd.op = "swap" =>
  LET c == slot[s].cmd
  IN  /\ IF c.style = Buy THEN tokens'[c.mint][c.wallet] >= tokens[c.mint][c.wallet] + c.amount
                          ELSE sol'[c.wallet] >= sol[c.wallet] + c.amount
      /\ \A w \in Wallets \ {c.wallet} :
           Gains(w, c.mint) => w = slot[s].team /\ w = config.team_wallet]_allVars

(* A backend that listens for CompleteEvent and repeats a withdraw it lost  *)
(* sight of gets every announced curve withdrawn, although any single       *)
(* transaction may be dropped or time out; sell fees and transfer_fee are   *)
(* excused, as in CompletedIsSettled.                                       *)
AnnouncedIsWithdrawn == \A m \in Mints :
  (m \in announced /\ drained[m] = 0)
    ~> (m \in settled \/ \E n \in Mints : migrated[n] > 0)
===============================================================================
