-------------------------- MODULE GlobalConfigProofs --------------------------
(***************************************************************************)
(* What holds of the config account for all wallets, configurations, rents *)
(* and gifts.                                                              *)
(***************************************************************************)
EXTENDS GlobalConfig, TLAPS

-------------------------------------------------------------------------------
(* Rent exemption grows with the length, strictly.                          *)
LEMMA RentMonotone ==
  ASSUME NEW a \in Nat, NEW b \in Nat
  PROVE  /\ RentExempt(a) \in Nat
         /\ (RentExempt(a) <= RentExempt(b)) <=> (a <= b)
<1>1. RentOverhead \in Nat /\ RentPerByte \in Nat /\ RentPerByte >= 1
  BY RentAssumption
<1>2. \A x \in Nat : RentExempt(x) \in Nat
  BY <1>1 DEF RentExempt
<1>3. RentExempt(b) - RentExempt(a) = (b - a) * RentPerByte
  BY <1>1, Z3 DEF RentExempt
<1>4. a <= b => (b - a) * RentPerByte >= 0
  BY <1>1, Z3
<1>5. a > b => (b - a) * RentPerByte < 0
  BY <1>1, Z3
<1> QED
  BY <1>2, <1>3, <1>4, <1>5

(* The amounts configure hands out are natural numbers.                     *)
LEMMA VaultRentType == VaultRent \in Nat
BY RentMonotone DEF VaultRent

-------------------------------------------------------------------------------
(* Type correctness of the config account, the vault and the wallets.       *)
LEMMA ConfigTypeInit == ConfigInit => ConfigTypeOK
BY SolAssumption DEF ConfigInit, ConfigTypeOK

LEMMA ConfigTypeStep == ConfigTypeOK /\ [ConfigNext]_configVars => ConfigTypeOK'
<1> SUFFICES ASSUME ConfigTypeOK, [ConfigNext]_configVars PROVE ConfigTypeOK'
  OBVIOUS
<1> USE DEF ConfigTypeOK
<1>1. ASSUME NEW p \in Wallets, NEW c \in Configs, Configure(p, c) PROVE ConfigTypeOK'
  <2>1. c \in ConfigType /\ c.size \in Nat
    BY ConfigAssumption DEF ConfigType
  <2>2. RentExempt(c.size) \in Nat /\ VaultRent \in Nat
    BY <2>1, RentMonotone, VaultRentType
  <2> DEFINE toConfig == IF RentExempt(c.size) > cfgLamports
                         THEN RentExempt(c.size) - cfgLamports ELSE 0
             toVault  == IF vault = 0 THEN VaultRent ELSE 0
  <2>3. toConfig \in Nat /\ toVault \in Nat
    BY <2>2
  <2>4. /\ sol[p] >= toConfig + toVault
        /\ config' = c
        /\ cfgLamports' = cfgLamports + toConfig
        /\ vault' = vault + toVault
        /\ funded' = funded + toVault
        /\ sol' = [sol EXCEPT ![p] = @ - toConfig - toVault]
    BY <1>1 DEF Configure
  <2>5. cfgLen' \in {c.size, cfgLen}
    BY <1>1 DEF Configure, GrownLength
  <2>6. sol[p] - toConfig - toVault \in Nat
    BY <2>3, <2>4
  <2> HIDE DEF toConfig, toVault
  <2> QED
    BY <2>1, <2>3, <2>4, <2>5, <2>6
<1>2. ASSUME NEW p \in Wallets, NEW k \in Nominees, NominateAuthority(p, k) PROVE ConfigTypeOK'
  BY <1>2, KeyAssumption DEF NominateAuthority, ConfigType
<1>3. ASSUME NEW p \in Wallets, AcceptAuthority(p) PROVE ConfigTypeOK'
  BY <1>3 DEF AcceptAuthority, ConfigType, Keys
<1>4. ASSUME NEW p \in Wallets, NEW g \in Gifts, FundConfig(p, g) PROVE ConfigTypeOK'
  BY <1>4, SolAssumption DEF FundConfig
<1>5. CASE UNCHANGED configVars
  BY <1>5 DEF configVars
<1> QED
  BY <1>1, <1>2, <1>3, <1>4, <1>5 DEF ConfigNext

(* Every reachable config account is well typed.                            *)
THEOREM ConfigTypeCorrect == ConfigSpec => []ConfigTypeOK
BY ConfigTypeInit, ConfigTypeStep, PTL DEF ConfigSpec

-------------------------------------------------------------------------------
(* What configure does to the length and the lamports of the account, its   *)
(* two branches told apart.                                                 *)
LEMMA ConfigureEffect ==
  ASSUME ConfigTypeOK, NEW p \in Wallets, NEW c \in Configs, Configure(p, c)
  PROVE  /\ config' = c /\ config' # NoConfig
         /\ c.size \in Nat /\ c.size <= cfgLen'
         /\ \/ cfgLen' = c.size /\ cfgLamports' = RentExempt(c.size)
            \/ /\ config # NoConfig
               /\ RentExempt(c.size) <= cfgLamports
               /\ UNCHANGED <<cfgLen, cfgLamports>>
<1>1. c \in ConfigType /\ c # NoConfig /\ c.size \in Nat
  BY ConfigAssumption DEF ConfigType
<1>2. RentExempt(c.size) \in Nat /\ cfgLamports \in Nat
  BY <1>1, RentMonotone DEF ConfigTypeOK
<1>3. config' = c /\ c.size <= cfgLen'
  BY DEF Configure, Fits
<1>4. CASE config = NoConfig
  <2>1. cfgLamports = 0
    BY <1>4 DEF Configure
  <2>2. cfgLen' = c.size /\ cfgLamports' = RentExempt(c.size)
    BY <1>2, <1>4, <2>1 DEF Configure, GrownLength
  <2> QED
    BY <1>1, <1>3, <2>2
<1>5. CASE config # NoConfig /\ RentExempt(c.size) > cfgLamports
  <2>1. cfgLen' = c.size /\ cfgLamports' = RentExempt(c.size)
    BY <1>2, <1>5 DEF Configure, GrownLength
  <2> QED
    BY <1>1, <1>3, <2>1
<1>6. CASE config # NoConfig /\ RentExempt(c.size) <= cfgLamports
  <2>1. cfgLen' = cfgLen /\ cfgLamports' = cfgLamports
    BY <1>2, <1>6 DEF Configure, GrownLength, ConfigTypeOK
  <2> QED
    BY <1>1, <1>3, <1>6, <2>1
<1> QED
  BY <1>2, <1>4, <1>5, <1>6

(* The handover keeps the size of the config.                               *)
LEMMA HandoverKeepsSize ==
  ASSUME ConfigTypeOK, config # NoConfig, NEW a \in Keys, NEW b \in Keys
  PROVE  /\ [config EXCEPT !.pending_authority = b] # NoConfig
         /\ [config EXCEPT !.pending_authority = b].size = config.size
         /\ [config EXCEPT !.authority = a, !.pending_authority = b] # NoConfig
         /\ [config EXCEPT !.authority = a, !.pending_authority = b].size = config.size
<1>1. config \in ConfigType
  BY DEF ConfigTypeOK
<1>2. /\ [config EXCEPT !.pending_authority = b] \in ConfigType
      /\ [config EXCEPT !.authority = a, !.pending_authority = b] \in ConfigType
  BY <1>1 DEF ConfigType
<1> QED
  BY <1>1, <1>2, ConfigAssumption DEF ConfigType

LEMMA FitsStep == ConfigTypeOK /\ ConfigFits /\ [ConfigNext]_configVars => ConfigFits'
<1> SUFFICES ASSUME ConfigTypeOK, ConfigFits, [ConfigNext]_configVars PROVE ConfigFits'
  OBVIOUS
<1>1. ASSUME NEW p \in Wallets, NEW c \in Configs, Configure(p, c) PROVE ConfigFits'
  <2>1. CASE cfgLen' = c.size /\ cfgLamports' = RentExempt(c.size)
    <3>1. RentExempt(c.size) \in Nat
      BY <1>1, ConfigureEffect, RentMonotone
    <3> QED
      BY <1>1, <2>1, <3>1, ConfigureEffect DEF ConfigFits, RentExempt
  <2>2. CASE config # NoConfig /\ UNCHANGED <<cfgLen, cfgLamports>>
    BY <1>1, <2>2, ConfigureEffect DEF ConfigFits, RentExempt
  <2> QED
    BY <1>1, <2>1, <2>2, ConfigureEffect
<1>2. ASSUME NEW p \in Wallets, NEW k \in Nominees, NominateAuthority(p, k) PROVE ConfigFits'
  <2>1. config # NoConfig /\ config' = [config EXCEPT !.pending_authority = k] /\ k \in Keys
    BY <1>2, KeyAssumption DEF NominateAuthority
  <2>2. config'.size = config.size
    BY <2>1, HandoverKeepsSize
  <2> QED
    BY <1>2, <2>1, <2>2 DEF NominateAuthority, ConfigFits, RentExempt
<1>3. ASSUME NEW p \in Wallets, AcceptAuthority(p) PROVE ConfigFits'
  <2>1. /\ config # NoConfig /\ p \in Keys /\ NoKey \in Keys
        /\ config' = [config EXCEPT !.authority = p, !.pending_authority = NoKey]
    BY <1>3 DEF AcceptAuthority, Keys
  <2>2. config'.size = config.size
    BY <2>1, HandoverKeepsSize
  <2> QED
    BY <1>3, <2>1, <2>2 DEF AcceptAuthority, ConfigFits, RentExempt
<1>4. ASSUME NEW p \in Wallets, NEW g \in Gifts, FundConfig(p, g) PROVE ConfigFits'
  <2>1. /\ config' = config /\ cfgLen' = cfgLen
        /\ cfgLamports' = cfgLamports + g /\ g \in Nat /\ cfgLamports \in Nat
    BY <1>4, SolAssumption DEF FundConfig, ConfigTypeOK
  <2>2. RentExempt(cfgLen) \in Nat
    BY RentMonotone DEF ConfigTypeOK
  <2> QED
    BY <2>1, <2>2 DEF ConfigFits, RentExempt
<1>5. CASE UNCHANGED configVars
  BY <1>5 DEF configVars, ConfigFits, RentExempt
<1> QED
  BY <1>1, <1>2, <1>3, <1>4, <1>5 DEF ConfigNext

(* The encoded config always lies within the account's data, and the        *)
(* account owns the rent of that data, gifts or not.                        *)
THEOREM ConfigAlwaysFits == ConfigSpec => []ConfigFits
<1>1. ConfigInit => ConfigFits
  BY DEF ConfigInit, ConfigFits
<1> QED
  BY <1>1, FitsStep, ConfigTypeCorrect, PTL DEF ConfigSpec

-------------------------------------------------------------------------------
(* Without gifts the account owns exactly the rent of its data.             *)
RentInStep == config # NoConfig => cfgLamports = RentExempt(cfgLen)

LEMMA RentInStepStep ==
  ConfigTypeOK /\ RentInStep /\ Gifts = {} /\ [ConfigNext]_configVars => RentInStep'
<1> SUFFICES ASSUME ConfigTypeOK, RentInStep, Gifts = {}, [ConfigNext]_configVars
             PROVE  RentInStep'
  OBVIOUS
<1>1. ASSUME NEW p \in Wallets, NEW c \in Configs, Configure(p, c) PROVE RentInStep'
  <2>1. CASE cfgLen' = c.size /\ cfgLamports' = RentExempt(c.size)
    BY <2>1 DEF RentInStep, RentExempt
  <2>2. CASE config # NoConfig /\ UNCHANGED <<cfgLen, cfgLamports>>
    BY <2>2 DEF RentInStep, RentExempt
  <2> QED
    BY <1>1, <2>1, <2>2, ConfigureEffect
<1>2. ASSUME NEW p \in Wallets, NEW k \in Nominees, NominateAuthority(p, k) PROVE RentInStep'
  BY <1>2 DEF NominateAuthority, RentInStep, RentExempt
<1>3. ASSUME NEW p \in Wallets, AcceptAuthority(p) PROVE RentInStep'
  BY <1>3 DEF AcceptAuthority, RentInStep, RentExempt
<1>4. CASE UNCHANGED configVars
  BY <1>4 DEF configVars, RentInStep, RentExempt
<1> QED
  BY <1>1, <1>2, <1>3, <1>4 DEF ConfigNext

LEMMA RentInStepPossible == ConfigTypeOK /\ RentInStep => ReconfigurePossible
<1> SUFFICES ASSUME ConfigTypeOK, RentInStep, config # NoConfig, NEW c \in Configs
             PROVE  Fits(c.size, GrownLength(cfgLen, cfgLamports, c.size))
  BY DEF ReconfigurePossible
<1>1. c.size \in Nat /\ cfgLen \in Nat
  BY ConfigAssumption DEF ConfigType, ConfigTypeOK
<1>2. RentExempt(c.size) <= RentExempt(cfgLen) => c.size <= cfgLen
  BY <1>1, RentMonotone
<1>3. RentExempt(c.size) \in Nat /\ RentExempt(cfgLen) \in Nat
  BY <1>1, RentMonotone
<1> QED
  BY <1>1, <1>2, <1>3 DEF Fits, GrownLength, RentInStep

(* As long as nobody sends lamports to the config account, no configuration *)
(* is too long for configure to write.                                      *)
THEOREM ReconfigureAlwaysPossible ==
  ASSUME Gifts = {}
  PROVE  ConfigSpec => []ReconfigurePossible
<1>1. ConfigInit => RentInStep
  BY DEF ConfigInit, RentInStep
<1>2. ConfigTypeOK /\ RentInStep /\ [ConfigNext]_configVars => RentInStep'
  BY RentInStepStep
<1> QED
  BY <1>1, <1>2, RentInStepPossible, ConfigTypeCorrect, PTL DEF ConfigSpec
===============================================================================
