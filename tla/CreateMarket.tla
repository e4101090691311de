----------------------------- MODULE CreateMarket -----------------------------
(***************************************************************************)
(* The client's creation of an order book market (lib/create-market.ts): a *)
(* call prepares two transactions, one that creates the vaults and one for *)
(* the market, and sends them one after the other through execTx           *)
(* (lib/util.ts), which swallows every error.  A timer starts the whole    *)
(* call again when the first requests are slow.                            *)
(***************************************************************************)
EXTENDS Naturals

CONSTANTS Calls    \* calls of createMarket, the timers' ones included

ASSUME CallsAssumption == Calls \subseteq Nat /\ 1 \in Calls

VARIABLES pc,      \* where a call is
          timer,   \* its timer
          tx,      \* what became of its two transactions
          heard,   \* its transactions whose confirmation was awaited and came
          result   \* what a finished call returns

vars == <<pc, timer, tx, heard, result>>

(* The vault accounts' transaction comes first, then the market's.          *)
Txs == {"vaults", "market"}
Sending == {"send vaults", "send market"}
Awaiting == {"await vaults", "await market"}
Stages == {"idle", "mints", "rents", "sizes", "done"} \cup Sending \cup Awaiting

SendOf(t) == IF t = "vaults" THEN "send vaults" ELSE "send market"
AwaitOf(t) == IF t = "vaults" THEN "await vaults" ELSE "await market"

Init == /\ pc = [c \in Calls |-> IF c = 1 THEN "mints" ELSE "idle"]
        /\ timer = [c \in Calls |-> "off"]
        /\ tx = [c \in Calls |-> [t \in Txs |-> "unsent"]]
        /\ heard = [c \in Calls |-> {}]
        /\ result = [c \in Calls |-> "none"]

Finish(c, r) == /\ pc' = [pc EXCEPT ![c] = "done"]
                /\ result' = [result EXCEPT ![c] = r]

Goto(c, stage) == pc' = [pc EXCEPT ![c] = stage] /\ UNCHANGED result

(* A request to the node throws: the call returns undefined, and a timer    *)
(* that was armed stays armed.                                              *)
Throw(c) == Finish(c, "undefined") /\ UNCHANGED <<timer, tx, heard>>

(* Both mints are read, then the timer is set.                              *)
FetchMints(c) ==
  /\ pc[c] = "mints"
  /\ \/ Throw(c)
     \/ /\ Goto(c, "rents")
        /\ timer' = [timer EXCEPT ![c] = "armed"]
        /\ UNCHANGED <<tx, heard>>

(* Mutant: the timer is not cleared.                                         *)
KeepTimer(c) == UNCHANGED timer

(* A timer that has fired already is past clearing.                         *)
ClearTimeout(c) == timer' = [timer EXCEPT ![c] = IF @ = "armed" THEN "off" ELSE @]

(* The vault accounts' rents are read, then the timer is cleared.           *)
FetchRents(c) ==
  /\ pc[c] = "rents"
  /\ \/ Throw(c)
     \/ Goto(c, "sizes") /\ ClearTimeout(c) /\ UNCHANGED <<tx, heard>>

(* Twenty seconds later the timer calls createMarket again; what that call  *)
(* returns goes nowhere.                                                    *)
Fire(c) ==
  /\ timer[c] = "armed"
  /\ \E d \in Calls :
       /\ pc[d] = "idle" /\ \A e \in Calls : pc[e] = "idle" => d <= e
       /\ pc' = [pc EXCEPT ![d] = "mints"]
  /\ timer' = [timer EXCEPT ![c] = "fired"]
  /\ UNCHANGED <<tx, heard, result>>

(* The other accounts' rents and the blockhash of both transactions.        *)
FetchSizes(c) ==
  /\ pc[c] = "sizes"
  /\ \/ Throw(c)
     \/ Goto(c, "send vaults") /\ UNCHANGED <<timer, tx, heard>>

(* Mutant: the market's key is forgotten.                                    *)
ProceedToEnd(c, t) == Goto(c, IF t = "vaults" THEN "send market" ELSE "done")

(* execTx is over, however it went: on to the next transaction, and after   *)
(* the second one the market's key is returned.                             *)
Proceed(c, t) == IF t = "vaults" THEN Goto(c, "send market") ELSE Finish(c, "market")

(* Simulating or sending may throw before the node has the transaction or   *)
(* after it.                                                                *)
SendTx(c, t) ==
  /\ pc[c] = SendOf(t)
  /\ \/ Goto(c, AwaitOf(t)) /\ tx' = [tx EXCEPT ![c][t] = "flying"]
     \/ Proceed(c, t) /\ tx' = [tx EXCEPT ![c][t] = "flying"]
     \/ Proceed(c, t) /\ UNCHANGED tx
  /\ UNCHANGED <<timer, heard>>

(* Mutant: any answer of the node is taken for the confirmation.             *)
Sent(c, t) == tx[c][t] # "unsent"

(* The commitment waited for is "finalized".                                *)
Final(c, t) == tx[c][t] \in {"landed", "failed", "vaultless"}

(* The transaction is final, with an error in it or not: that is logged.    *)
Confirm(c, t) ==
  /\ pc[c] = AwaitOf(t)
  /\ Final(c, t)
  /\ Proceed(c, t)
  /\ heard' = [heard EXCEPT ![c] = @ \cup {t}]
  /\ UNCHANGED <<timer, tx>>

(* Mutant: a confirmation is awaited for ever.                               *)
NeverGiveUp(c, t) == FALSE

(* confirmTransaction gives up, the transaction may still be on its way.    *)
GiveUp(c, t) ==
  /\ pc[c] = AwaitOf(t)
  /\ Proceed(c, t)
  /\ UNCHANGED <<timer, tx, heard>>

(* External: the chain executes a transaction, which fails when the payer's *)
(* lamports are short, or drops it when its blockhash is too old.  A market *)
(* cannot be initialized on vaults that do not exist.                       *)
Land(c, t) ==
  /\ tx[c][t] = "flying"
  /\ \E fate \in {"landed", "failed", "expired", "vaultless"} :
       /\ fate = "landed" /\ t = "market" => tx[c]["vaults"] = "landed"
       /\ fate = "vaultless" => t = "market" /\ tx[c]["vaults"] # "landed"
       /\ tx' = [tx EXCEPT ![c][t] = fate]
  /\ UNCHANGED <<pc, timer, heard, result>>

Advance(c) == \/ FetchMints(c) \/ FetchRents(c) \/ FetchSizes(c)
              \/ \E t \in Txs : SendTx(c, t) \/ Confirm(c, t) \/ GiveUp(c, t)

Next == \E c \in Calls : \/ Advance(c) \/ Fire(c)
                         \/ \E t \in Txs : Land(c, t)

(* Each request to the node is answered or throws, and so does the wait     *)
(* for a confirmation; nothing is assumed of the chain.                     *)
Spec == Init /\ [][Next]_vars /\ \A c \in Calls : WF_vars(Advance(c))

Transactions == [Txs -> {"unsent", "flying", "landed", "failed", "expired", "vaultless"}]

(* A call has a result exactly when it is done.                             *)
MarketTypeOK ==
  /\ pc \in [Calls -> Stages]
  /\ timer \in [Calls -> {"off", "armed", "fired"}]
  /\ tx \in [Calls -> Transactions]
  /\ heard \in [Calls -> SUBSET Txs]
  /\ result \in [Calls -> {"none", "undefined", "market"}]
  /\ \A c \in Calls : (pc[c] = "done") <=> (result[c] # "none")

(* The timer repeats a call that is slow or that failed early, never one    *)
(* that has read its rents and may have sent something                      *)
(* (clearTimeout, lib/create-market.ts:191).                                *)
NoRetryOnceSending == [][\A c \in Calls :
  timer[c] = "armed" /\ timer'[c] = "fired" =>
    /\ pc[c] \in {"rents", "done"} /\ result[c] # "market"
    /\ tx[c] = [t \in Txs |-> "unsent"]]_vars

(* The market's transaction fails for want of vaults only if the vaults'    *)
(* own confirmation failed or was given up.                                 *)
MarketFailsOnlyUnconfirmed == \A c \in Calls :
  ("vaults" \in heard[c] /\ tx[c]["vaults"] = "landed") => tx[c]["market"] # "vaultless"

(* createMarket returns, whatever the node and the chain do: its caller is  *)
(* not left waiting on a transaction that nobody will ever execute.         *)
EveryCallReturns == \A c \in Calls : pc[c] # "idle" ~> pc[c] = "done"
===============================================================================
