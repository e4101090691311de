----------------------------- MODULE GlobalConfig -----------------------------
(***************************************************************************)
(* The config account of the pumpfun program: created and rewritten by     *)
(* `configure', handed over by `nominate_authority' and                    *)
(* `accept_authority'.  `configure' also gives the global vault its first  *)
(* lamports, so the vault and the wallets' lamports are state of this      *)
(* module too.  A transaction is atomic, and so is every action.           *)
(***************************************************************************)
EXTENDS Integers

CONSTANTS Wallets,       \* keys that sign transactions
          NoKey,         \* Pubkey::default()
          NoConfig,      \* the config account does not exist
          Configs,       \* configurations somebody may write
          Nominees,      \* keys an authority may nominate
          RentOverhead,  \* bytes charged for an account before its data
          RentPerByte,   \* lamports of rent exemption per byte
          InitialSol,    \* lamports of each wallet at the start
          Gifts          \* amounts an outsider may send to an account unasked

Keys == Wallets \cup {NoKey}

ASSUME KeyAssumption == NoKey \notin Wallets /\ Nominees \subseteq Keys
ASSUME RentAssumption == RentOverhead \in Nat /\ RentPerByte \in Nat \ {0}
ASSUME SolAssumption == InitialSol \in Nat /\ Gifts \subseteq Nat \ {0}

(* AmountConfig: optional bounds (sets of at most one value), or a list.     *)
AmountConfig == [kind : {"range"}, min : SUBSET Nat, max : SUBSET Nat]
                \cup [kind : {"enum"}, options : SUBSET Nat]

(* Percentages are whole numbers.  Of the account's encoding only the       *)
(* length is kept: it varies with the options the AmountConfigs list.       *)
ConfigType ==
  [authority : Keys, pending_authority : Keys, global_authority : Keys, team_wallet : Wallets,
   init_bonding_curve : Nat, platform_buy_fee : Nat, platform_sell_fee : Nat,
   platform_migration_fee : Nat, curve_limit : Nat,
   lamport_amount_config : AmountConfig, token_supply_config : AmountConfig,
   token_decimals_config : AmountConfig, whitelist_enabled : BOOLEAN, size : Nat]

ASSUME ConfigAssumption == Configs \subseteq ConfigType /\ NoConfig \notin ConfigType

VARIABLES config,       \* the decoded config, or NoConfig
          cfgLen,       \* bytes of data the config account holds
          cfgLamports,  \* lamports of the config account
          vault,        \* lamports of the global vault
          funded,       \* (auxiliary) lamports put into the vault by no trade
          sol           \* lamports of each wallet

configVars == <<config, cfgLen, cfgLamports, vault, funded, sol>>

RentExempt(len) == (RentOverhead + len) * RentPerByte
VaultRent == RentExempt(0)

(* External, the runtime: no transaction may leave a system account with   *)
(* lamports that do not cover its rent.                                     *)
RentPaid(balance) == balance = 0 \/ balance >= VaultRent

-------------------------------------------------------------------------------
ConfigInit == /\ config = NoConfig
              /\ cfgLen = 0
              /\ cfgLamports = 0
              /\ vault = 0
              /\ funded = 0
              /\ sol = [w \in Wallets |-> InitialSol]

(* The account grows when its rent does: realloc sits under lamport_delta. *)
GrownLength(len, lamports, size) == IF RentExempt(size) > lamports THEN size ELSE len

(* Mutant: the copy is cut to the data instead.                            *)
CutToFit(size, len) == TRUE

(* A slice copy into [..len] of the data panics when the data is shorter.  *)
Fits(size, len) == size <= len

Configure(payer, c) ==
  LET created  == config = NoConfig
      len      == IF created THEN c.size ELSE cfgLen
      lamports == IF created THEN RentExempt(c.size) ELSE cfgLamports
      toConfig == IF RentExempt(c.size) > cfgLamports THEN RentExempt(c.size) - cfgLamports ELSE 0
      toVault  == IF vault = 0 THEN VaultRent ELSE 0
  IN  /\ IF created THEN cfgLamports = 0 ELSE config.authority = payer
      /\ sol[payer] >= toConfig + toVault
      /\ RentPaid(sol[payer] - toConfig - toVault)
      /\ cfgLen' = GrownLength(len, lamports, c.size)
      /\ Fits(c.size, cfgLen')
      /\ config' = c
      /\ cfgLamports' = cfgLamports + toConfig
      /\ vault' = vault + toVault
      /\ funded' = funded + toVault
      /\ sol' = [sol EXCEPT ![payer] = @ - toConfig - toVault]

NominateAuthority(admin, newAdmin) ==
  /\ config # NoConfig
  /\ config.authority = admin
  /\ config' = [config EXCEPT !.pending_authority = newAdmin]
  /\ UNCHANGED <<cfgLen, cfgLamports, vault, funded, sol>>

AcceptAuthority(newAdmin) ==
  /\ config # NoConfig
  /\ config.pending_authority = newAdmin
  /\ config' = [config EXCEPT !.authority = newAdmin, !.pending_authority = NoKey]
  /\ UNCHANGED <<cfgLen, cfgLamports, vault, funded, sol>>

(* External: anybody may transfer lamports to any address.                 *)
FundConfig(w, amount) ==
  /\ sol[w] >= amount
  /\ RentPaid(sol[w] - amount)
  /\ cfgLamports > 0 \/ RentPaid(amount)
  /\ cfgLamports' = cfgLamports + amount
  /\ sol' = [sol EXCEPT ![w] = @ - amount]
  /\ UNCHANGED <<config, cfgLen, vault, funded>>

ConfigNext ==
  \/ \E p \in Wallets, c \in Configs : Configure(p, c)
  \/ \E p \in Wallets, k \in Nominees : NominateAuthority(p, k)
  \/ \E p \in Wallets : AcceptAuthority(p)
  \/ \E p \in Wallets, g \in Gifts : FundConfig(p, g)

ConfigSpec == ConfigInit /\ [][ConfigNext]_configVars

-------------------------------------------------------------------------------
(* The variables range over what the accounts can hold.                    *)
ConfigTypeOK == /\ config \in ConfigType \cup {NoConfig}
                /\ cfgLen \in Nat
                /\ cfgLamports \in Nat
                /\ vault \in Nat
                /\ funded \in Nat
                /\ sol \in [Wallets -> Nat]

(* The encoded config lies within the account's data, and the account owns *)
(* the rent of all the data it holds, however often configs of different   *)
(* lengths replace each other (configure, the realloc under lamport_delta).*)
ConfigFits == config # NoConfig =>
                /\ config.size <= cfgLen
                /\ RentExempt(cfgLen) <= cfgLamports

(* Lengthening the config is possible whenever its authority can pay: no   *)
(* configuration is rejected by the slice copy of configure.               *)
ReconfigurePossible == config # NoConfig =>
  \A c \in Configs : Fits(c.size, GrownLength(cfgLen, cfgLamports, c.size))
===============================================================================
