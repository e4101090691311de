-------------------------- MODULE CreateMarketProofs --------------------------
(* Theorems about CreateMarket, for any number of overlapping calls.         *)
EXTENDS CreateMarket, TLAPS

Early == {"idle", "mints", "rents", "sizes", "send vaults"}

Fates == {"unsent", "flying", "landed", "failed", "expired", "vaultless"}

(* How far a call has got tells what it has sent: nothing before the first  *)
(* execTx and nothing of the market before the second.                      *)
SentInOrder(c) ==
  /\ pc[c] \in Early => tx[c]["vaults"] = "unsent" /\ heard[c] = {}
  /\ pc[c] \in Early \cup {"await vaults", "send market"} => tx[c]["market"] = "unsent"
  /\ pc[c] = "await vaults" => heard[c] = {}

(* What was heard is final.                                                 *)
HeardIsFinal(c) == "vaults" \in heard[c] => Final(c, "vaults")

(* An armed timer belongs to a call that has sent nothing.                  *)
ArmedSentNothing(c) == timer[c] = "armed" =>
  /\ pc[c] \in {"rents", "done"} /\ result[c] # "market"
  /\ tx[c]["vaults"] = "unsent" /\ tx[c]["market"] = "unsent"

FailsOnlyUnconfirmed(c) ==
  ("vaults" \in heard[c] /\ tx[c]["vaults"] = "landed") => tx[c]["market"] # "vaultless"

CallInv(c) == /\ SentInOrder(c)
              /\ HeardIsFinal(c)
              /\ ArmedSentNothing(c)
              /\ FailsOnlyUnconfirmed(c)

IInv == MarketTypeOK /\ \A c \in Calls : CallInv(c)

-------------------------------------------------------------------------------
LEMMA InitEstablishes == Init => IInv
  BY CallsAssumption
  DEF Init, IInv, CallInv, MarketTypeOK, SentInOrder, HeardIsFinal, ArmedSentNothing,
      FailsOnlyUnconfirmed, Final, Transactions, Stages, Sending, Awaiting, Early, Txs

(* What becomes of one transaction concerns no other.                       *)
LEMMA TxUpdate ==
  ASSUME tx \in [Calls -> Transactions], NEW c \in Calls, NEW t \in Txs, NEW fate \in Fates,
         tx' = [tx EXCEPT ![c][t] = fate]
  PROVE  /\ tx' \in [Calls -> Transactions]
         /\ tx'[c][t] = fate
         /\ \A u \in Txs \ {t} : tx'[c][u] = tx[c][u]
         /\ \A d \in Calls \ {c} : tx'[d] = tx[d]
  <1>1. tx' = [tx EXCEPT ![c] = [tx[c] EXCEPT ![t] = fate]]
    OBVIOUS
  <1>2. tx[c] \in [Txs -> Fates]
    BY DEF Transactions, Fates
  <1>3. [tx[c] EXCEPT ![t] = fate] \in Transactions
    BY <1>2 DEF Transactions, Fates
  <1>4. tx'[c] = [tx[c] EXCEPT ![t] = fate]
    BY <1>1
  <1>5. tx'[c][t] = fate /\ \A u \in Txs \ {t} : tx'[c][u] = tx[c][u]
    BY <1>2, <1>4
  <1> QED
    BY <1>1, <1>3, <1>5

(* The node has the transaction or it has not.                              *)
LEMMA SendEffect ==
  ASSUME tx \in [Calls -> Transactions], NEW c \in Calls, NEW t \in Txs, SendTx(c, t)
  PROVE  /\ tx' \in [Calls -> Transactions]
         /\ tx'[c][t] \in {"flying", tx[c][t]}
         /\ \A u \in Txs \ {t} : tx'[c][u] = tx[c][u]
         /\ \A d \in Calls \ {c} : tx'[d] = tx[d]
  <1>1. CASE tx' = [tx EXCEPT ![c][t] = "flying"]
    BY <1>1, TxUpdate, "flying" \in Fates DEF Fates
  <1>2. CASE UNCHANGED tx
    BY <1>2
  <1> QED
    BY <1>1, <1>2 DEF SendTx

LEMMA LandEffect ==
  ASSUME tx \in [Calls -> Transactions], NEW c \in Calls, NEW t \in Txs, Land(c, t)
  PROVE  /\ tx' \in [Calls -> Transactions]
         /\ tx'[c][t] \in Fates \ {"unsent", "flying"}
         /\ tx'[c][t] = "vaultless" => t = "market" /\ tx[c]["vaults"] # "landed"
         /\ \A u \in Txs \ {t} : tx'[c][u] = tx[c][u]
         /\ \A d \in Calls \ {c} : tx'[d] = tx[d]
  <1>1. PICK fate \in Fates \ {"unsent", "flying"} :
          /\ fate = "vaultless" => t = "market" /\ tx[c]["vaults"] # "landed"
          /\ tx' = [tx EXCEPT ![c][t] = fate]
    BY DEF Land, Fates
  <1> QED
    BY <1>1, TxUpdate

(* The part of the type that tells where calls are.                         *)
ControlOK == /\ pc \in [Calls -> Stages]
             /\ result \in [Calls -> {"none", "undefined", "market"}]
             /\ \A c \in Calls : (pc[c] = "done") <=> (result[c] # "none")

LEMMA GotoType ==
  ASSUME ControlOK, NEW c \in Calls, NEW stage \in Stages, stage # "done", pc[c] # "done",
         Goto(c, stage)
  PROVE  ControlOK'
  BY DEF ControlOK, Goto

LEMMA FinishType ==
  ASSUME ControlOK, NEW c \in Calls, NEW r \in {"undefined", "market"}, Finish(c, r)
  PROVE  ControlOK'
  <1>1. "done" \in Stages
    BY DEF Stages
  <1> QED
    BY <1>1 DEF ControlOK, Finish

LEMMA ProceedType ==
  ASSUME ControlOK, NEW c \in Calls, NEW t \in Txs, pc[c] # "done", Proceed(c, t)
  PROVE  ControlOK'
  <1>1. "send market" \in Stages
    BY DEF Stages, Sending
  <1>2. CASE t = "vaults"
    BY <1>1, <1>2, GotoType DEF Proceed
  <1>3. CASE t # "vaults"
    BY <1>3, FinishType DEF Proceed
  <1> QED
    BY <1>2, <1>3

LEMMA TypeStep == MarketTypeOK /\ [Next]_vars => MarketTypeOK'
  <1> SUFFICES ASSUME MarketTypeOK, [Next]_vars PROVE MarketTypeOK'
    OBVIOUS
  <1> DEFINE Rest == /\ timer \in [Calls -> {"off", "armed", "fired"}]
                     /\ tx \in [Calls -> Transactions]
                     /\ heard \in [Calls -> SUBSET Txs]
  <1>0. ControlOK /\ Rest
    BY DEF MarketTypeOK, ControlOK
  <1>1. CASE UNCHANGED vars
    BY <1>1 DEF vars, MarketTypeOK
  <1>2. ASSUME NEW c \in Calls, FetchMints(c) \/ FetchRents(c) \/ FetchSizes(c)
        PROVE  ControlOK' /\ Rest'
    <2>1. pc[c] # "done" /\ {"rents", "sizes", "send vaults"} \subseteq Stages
      BY <1>2 DEF FetchMints, FetchRents, FetchSizes, Stages, Sending
    <2>2. Finish(c, "undefined") => ControlOK'
      BY <1>0, FinishType
    <2>3. Goto(c, "rents") \/ Goto(c, "sizes") \/ Goto(c, "send vaults") => ControlOK'
      BY <1>0, <2>1, GotoType
    <2>4. ControlOK'
      BY <1>2, <2>2, <2>3 DEF FetchMints, FetchRents, FetchSizes, Throw
    <2>5. /\ UNCHANGED <<tx, heard>>
          /\ \/ UNCHANGED timer
             \/ timer' = [timer EXCEPT ![c] = "armed"]
             \/ timer' = [timer EXCEPT ![c] = IF @ = "armed" THEN "off" ELSE @]
      BY <1>2 DEF FetchMints, FetchRents, FetchSizes, Throw, ClearTimeout
    <2> QED
      BY <1>0, <2>4, <2>5
  <1>3. ASSUME NEW c \in Calls, Fire(c) PROVE ControlOK' /\ Rest'
    <2>1. PICK d \in Calls : pc[d] = "idle" /\ pc' = [pc EXCEPT ![d] = "mints"]
      BY <1>3 DEF Fire
    <2>2. Goto(d, "mints") /\ "mints" \in Stages
      BY <1>3, <2>1 DEF Fire, Goto, Stages
    <2>3. ControlOK'
      BY <1>0, <2>1, <2>2, GotoType
    <2> QED
      BY <1>0, <1>3, <2>3 DEF Fire
  <1>4. ASSUME NEW c \in Calls, NEW t \in Txs, SendTx(c, t) PROVE ControlOK' /\ Rest'
    <2>1. tx' \in [Calls -> Transactions]
      BY <1>0, <1>4, SendEffect
    <2>2. UNCHANGED <<timer, heard>> /\ pc[c] # "done"
      BY <1>4 DEF SendTx, SendOf
    <2>3. AwaitOf(t) \in Stages \ {"done"}
      BY DEF AwaitOf, Stages, Awaiting
    <2>4. Goto(c, AwaitOf(t)) \/ Proceed(c, t)
      BY <1>4 DEF SendTx
    <2>5. ControlOK'
      BY <1>0, <2>2, <2>3, <2>4, GotoType, ProceedType
    <2> QED
      BY <1>0, <2>1, <2>2, <2>5
  <1>5. ASSUME NEW c \in Calls, NEW t \in Txs, Confirm(c, t) \/ GiveUp(c, t)
        PROVE  ControlOK' /\ Rest'
    <2>1. /\ UNCHANGED <<timer, tx>> /\ pc[c] # "done" /\ Proceed(c, t)
          /\ UNCHANGED heard \/ heard' = [heard EXCEPT ![c] = @ \cup {t}]
      BY <1>5 DEF Confirm, GiveUp, AwaitOf
    <2>2. ControlOK'
      BY <1>0, <2>1, ProceedType
    <2>3. heard[c] \cup {t} \in SUBSET Txs
      BY <1>0
    <2> QED
      BY <1>0, <2>1, <2>2, <2>3
  <1>6. ASSUME NEW c \in Calls, NEW t \in Txs, Land(c, t) PROVE ControlOK' /\ Rest'
    BY <1>0, <1>6, LandEffect DEF Land, ControlOK
  <1>7. ControlOK' /\ Rest' => MarketTypeOK'
    BY DEF MarketTypeOK, ControlOK
  <1> QED
    BY <1>1, <1>2, <1>3, <1>4, <1>5, <1>6, <1>7 DEF Next, Advance

(* Nothing is said of a call by what happens to others.                     *)
LEMMA Untouched ==
  ASSUME NEW d \in Calls, CallInv(d), pc'[d] = pc[d], timer'[d] = timer[d], tx'[d] = tx[d],
         heard'[d] = heard[d], result'[d] = result[d]
  PROVE  CallInv(d)'
  BY DEF CallInv, SentInOrder, HeardIsFinal, ArmedSentNothing, FailsOnlyUnconfirmed, Final

(* A step of one call, seen from every other.                               *)
LEMMA OthersSame ==
  ASSUME MarketTypeOK, NEW c \in Calls,
         \/ \E stage \in Stages : Goto(c, stage)
         \/ \E r \in {"undefined", "market"} : Finish(c, r)
  PROVE  \A d \in Calls \ {c} : pc'[d] = pc[d] /\ result'[d] = result[d]
  BY DEF MarketTypeOK, Goto, Finish

LEMMA GotoEffect ==
  ASSUME MarketTypeOK, NEW c \in Calls, NEW stage, Goto(c, stage)
  PROVE  pc'[c] = stage /\ result'[c] = result[c]
  BY DEF MarketTypeOK, Goto

LEMMA FinishEffect ==
  ASSUME MarketTypeOK, NEW c \in Calls, NEW r, Finish(c, r)
  PROVE  pc'[c] = "done" /\ result'[c] = r
  BY DEF MarketTypeOK, Finish

LEMMA ProceedEffect ==
  ASSUME MarketTypeOK, NEW c \in Calls, NEW t \in Txs, Proceed(c, t)
  PROVE  /\ pc'[c] = IF t = "vaults" THEN "send market" ELSE "done"
         /\ result'[c] = IF t = "vaults" THEN result[c] ELSE "market"
         /\ \A d \in Calls \ {c} : pc'[d] = pc[d] /\ result'[d] = result[d]
  <1>1. CASE t = "vaults"
    BY <1>1, GotoEffect, OthersSame DEF Proceed, Stages, Sending
  <1>2. CASE t # "vaults"
    BY <1>2, FinishEffect, OthersSame DEF Proceed
  <1> QED
    BY <1>1, <1>2

(* The first requests and their failures.                                   *)
LEMMA FetchEffect ==
  ASSUME MarketTypeOK, NEW c \in Calls, FetchMints(c) \/ FetchRents(c) \/ FetchSizes(c)
  PROVE  /\ UNCHANGED <<tx, heard>>
         /\ pc[c] \in {"mints", "rents", "sizes"}
         /\ \/ pc'[c] = "done" /\ result'[c] = "undefined" /\ timer'[c] = timer[c]
            \/ pc'[c] = "rents" /\ result'[c] = result[c] /\ timer'[c] = "armed"
            \/ pc[c] = "rents" /\ pc'[c] = "sizes" /\ timer'[c] # "armed"
            \/ pc[c] = "sizes" /\ pc'[c] = "send vaults" /\ timer'[c] = timer[c]
         /\ \A d \in Calls \ {c} :
              pc'[d] = pc[d] /\ result'[d] = result[d] /\ timer'[d] = timer[d]
  <1>1. CASE Throw(c) /\ pc[c] \in {"mints", "rents", "sizes"}
    BY <1>1, FinishEffect, OthersSame DEF Throw
  <1>2. CASE /\ pc[c] = "mints" /\ Goto(c, "rents")
             /\ timer' = [timer EXCEPT ![c] = "armed"] /\ UNCHANGED <<tx, heard>>
    BY <1>2, GotoEffect, OthersSame DEF MarketTypeOK, Stages
  <1>3. CASE pc[c] = "rents" /\ Goto(c, "sizes") /\ ClearTimeout(c) /\ UNCHANGED <<tx, heard>>
    BY <1>3, GotoEffect, OthersSame DEF MarketTypeOK, Stages, ClearTimeout
  <1>4. CASE pc[c] = "sizes" /\ Goto(c, "send vaults") /\ UNCHANGED <<timer, tx, heard>>
    BY <1>4, GotoEffect, OthersSame DEF Stages, Sending
  <1> QED
    BY <1>1, <1>2, <1>3, <1>4 DEF FetchMints, FetchRents, FetchSizes

LEMMA InvariantStep == IInv /\ [Next]_vars => IInv'
  <1> SUFFICES ASSUME IInv, [Next]_vars PROVE IInv'
    OBVIOUS
  <1>0. MarketTypeOK /\ MarketTypeOK'
    BY TypeStep DEF IInv
  <1> DEFINE Same(d) == /\ pc'[d] = pc[d] /\ timer'[d] = timer[d] /\ tx'[d] = tx[d]
                        /\ heard'[d] = heard[d] /\ result'[d] = result[d]
             Moves(c) == CallInv(c)' /\ \A d \in Calls \ {c} : Same(d)
  <1> USE DEF CallInv, SentInOrder, HeardIsFinal, ArmedSentNothing, FailsOnlyUnconfirmed, Final,
              Early, Txs, Finish, Goto, Throw
  <1>1. CASE UNCHANGED vars
    BY <1>0, <1>1 DEF vars, IInv
  <1>2. ASSUME NEW c \in Calls, FetchMints(c) \/ FetchRents(c) \/ FetchSizes(c) PROVE Moves(c)
    <2>1. /\ UNCHANGED <<tx, heard>>
          /\ pc[c] \in {"mints", "rents", "sizes"}
          /\ \/ pc'[c] = "done" /\ result'[c] = "undefined" /\ timer'[c] = timer[c]
             \/ pc'[c] = "rents" /\ result'[c] = result[c] /\ timer'[c] = "armed"
             \/ pc[c] = "rents" /\ pc'[c] = "sizes" /\ timer'[c] # "armed"
             \/ pc[c] = "sizes" /\ pc'[c] = "send vaults" /\ timer'[c] = timer[c]
          /\ \A d \in Calls \ {c} :
               pc'[d] = pc[d] /\ result'[d] = result[d] /\ timer'[d] = timer[d]
      BY <1>0, <1>2, FetchEffect
    <2>2. CallInv(c) /\ (pc[c] # "done" => result[c] = "none")
      BY <1>0 DEF IInv, MarketTypeOK
    <2>3. /\ tx'[c]["vaults"] = "unsent" /\ tx'[c]["market"] = "unsent" /\ heard'[c] = {}
          /\ timer[c] = "armed" => pc[c] = "rents"
      BY <2>1, <2>2
    <2>4. timer'[c] = "armed" => pc'[c] \in {"rents", "done"} /\ result'[c] # "market"
      BY <2>1, <2>2, <2>3
    <2>5. pc'[c] \in {"rents", "done", "sizes", "send vaults"}
      BY <2>1
    <2>6. CallInv(c)'
      BY <2>3, <2>4, <2>5
    <2>7. \A d \in Calls \ {c} : Same(d)
      BY <2>1
    <2> QED
      BY <2>6, <2>7
  <1>3. ASSUME NEW c \in Calls, Fire(c) PROVE \A d \in Calls : CallInv(d)'
    <2>1. PICK d \in Calls : pc[d] = "idle" /\ pc' = [pc EXCEPT ![d] = "mints"]
      BY <1>3 DEF Fire
    <2>2. c # d /\ timer[d] # "armed"
      BY <1>3, <2>1 DEF Fire, IInv
    <2>3. /\ pc'[d] = "mints" /\ timer'[d] = timer[d]
          /\ \A e \in Calls \ {d} : pc'[e] = pc[e]
          /\ timer'[c] = "fired" /\ \A e \in Calls \ {c} : timer'[e] = timer[e]
          /\ \A e \in Calls :
               tx'[e] = tx[e] /\ heard'[e] = heard[e] /\ result'[e] = result[e]
      BY <1>0, <1>3, <2>1, <2>2 DEF Fire, MarketTypeOK
    <2>4. CallInv(c) /\ CallInv(d)
      BY DEF IInv
    <2>5. CallInv(c)'
      BY <2>2, <2>3, <2>4
    <2>6. CallInv(d)'
      BY <2>1, <2>2, <2>3, <2>4
    <2>7. \A e \in Calls \ {c, d} : Same(e)
      BY <2>3
    <2> HIDE DEF CallInv
    <2> QED
      BY <2>5, <2>6, <2>7, Untouched DEF IInv
  <1>4. ASSUME NEW c \in Calls, NEW t \in Txs, SendTx(c, t) PROVE Moves(c)
    <2>1. /\ tx'[c][t] \in {"flying", tx[c][t]}
          /\ \A u \in Txs \ {t} : tx'[c][u] = tx[c][u]
          /\ \A d \in Calls \ {c} : tx'[d] = tx[d]
      BY <1>0, <1>4, SendEffect DEF MarketTypeOK
    <2>2. /\ pc[c] = SendOf(t)
          /\ Goto(c, AwaitOf(t)) \/ Proceed(c, t)
          /\ UNCHANGED <<timer, heard>>
      BY <1>4 DEF SendTx
    <2>3. AwaitOf(t) \in Stages
      BY DEF AwaitOf, Stages, Awaiting
    <2>4. \A d \in Calls \ {c} : pc'[d] = pc[d] /\ result'[d] = result[d]
      BY <1>0, <2>2, <2>3, OthersSame, ProceedEffect
    <2>5. pc'[c] \in {AwaitOf(t), IF t = "vaults" THEN "send market" ELSE "done"}
      BY <1>0, <2>2, GotoEffect, ProceedEffect
    <2>6. CallInv(c)
      BY DEF IInv
    <2>7. timer'[c] # "armed"
      BY <2>2, <2>6 DEF SendOf
    <2>8. \A d \in Calls \ {c} : Same(d)
      BY <2>1, <2>2, <2>4
    <2>9. CASE t = "vaults"
      <3>1. /\ pc[c] = "send vaults" /\ heard'[c] = {}
            /\ tx'[c]["market"] = "unsent"
            /\ pc'[c] \in {"await vaults", "send market"}
        BY <2>1, <2>2, <2>5, <2>6, <2>9 DEF SendOf, AwaitOf
      <3> QED
        BY <2>7, <2>8, <3>1
    <2>10. CASE t = "market"
      <3>1. /\ pc[c] = "send market" /\ heard'[c] = heard[c]
            /\ tx[c]["market"] = "unsent" /\ tx'[c]["vaults"] = tx[c]["vaults"]
            /\ tx'[c]["market"] \in {"flying", "unsent"}
            /\ pc'[c] \in {"await market", "done"}
        BY <2>1, <2>2, <2>5, <2>6, <2>10 DEF SendOf, AwaitOf
      <3> QED
        BY <2>6, <2>7, <2>8, <3>1
    <2> QED
      BY <2>9, <2>10
  <1>5. ASSUME NEW c \in Calls, NEW t \in Txs, Confirm(c, t) \/ GiveUp(c, t) PROVE Moves(c)
    <2>1. /\ pc[c] = AwaitOf(t) /\ Proceed(c, t)
          /\ UNCHANGED <<timer, tx>>
          /\ \/ Final(c, t) /\ heard' = [heard EXCEPT ![c] = @ \cup {t}]
             \/ UNCHANGED heard
      BY <1>5 DEF Confirm, GiveUp
    <2>2. /\ pc'[c] = IF t = "vaults" THEN "send market" ELSE "done"
          /\ \A d \in Calls \ {c} : pc'[d] = pc[d] /\ result'[d] = result[d]
      BY <1>0, <2>1, ProceedEffect
    <2>3. /\ heard'[c] = heard[c] \/ (Final(c, t) /\ heard'[c] = heard[c] \cup {t})
          /\ \A d \in Calls \ {c} : heard'[d] = heard[d]
      BY <1>0, <2>1 DEF MarketTypeOK
    <2>4. CallInv(c)
      BY DEF IInv
    <2>5. timer'[c] # "armed"
      BY <2>1, <2>4 DEF AwaitOf
    <2>6. CASE t = "vaults"
      <3>1. tx[c]["market"] = "unsent"
        BY <2>1, <2>4, <2>6 DEF AwaitOf
      <3> QED
        BY <2>1, <2>2, <2>3, <2>4, <2>5, <2>6, <3>1 DEF AwaitOf
    <2>7. CASE t = "market"
      BY <2>1, <2>2, <2>3, <2>4, <2>5, <2>7 DEF AwaitOf
    <2>8. \A d \in Calls \ {c} : Same(d)
      BY <2>1, <2>2, <2>3
    <2> QED
      BY <2>6, <2>7, <2>8
  <1>6. ASSUME NEW c \in Calls, NEW t \in Txs, Land(c, t) PROVE Moves(c)
    <2>1. /\ tx'[c][t] \in Fates \ {"unsent", "flying"}
          /\ tx'[c][t] = "vaultless" => t = "market" /\ tx[c]["vaults"] # "landed"
          /\ \A u \in Txs \ {t} : tx'[c][u] = tx[c][u]
          /\ \A d \in Calls \ {c} : tx'[d] = tx[d]
      BY <1>0, <1>6, LandEffect DEF MarketTypeOK
    <2>2. tx[c][t] = "flying" /\ UNCHANGED <<pc, timer, heard, result>>
      BY <1>6 DEF Land
    <2>3. CallInv(c)
      BY DEF IInv
    <2>4. timer'[c] # "armed"
      BY <2>2, <2>3
    <2>5. CASE t = "vaults"
      BY <2>1, <2>2, <2>3, <2>4, <2>5 DEF Fates
    <2>6. CASE t = "market"
      BY <2>1, <2>2, <2>3, <2>4, <2>6 DEF Fates
    <2>7. \A d \in Calls \ {c} : Same(d)
      BY <2>1, <2>2
    <2> QED
      BY <2>5, <2>6, <2>7
  <1>7. ASSUME NEW c \in Calls, Moves(c) PROVE \A d \in Calls : CallInv(d)'
    <2> HIDE DEF CallInv
    <2> QED
      BY <1>7, Untouched DEF IInv
  <1> QED
    <2> HIDE DEF CallInv
    <2> QED
      BY <1>0, <1>1, <1>2, <1>3, <1>4, <1>5, <1>6, <1>7 DEF Next, Advance, IInv

-------------------------------------------------------------------------------
(* Every reachable state satisfies the inductive invariant.                 *)
THEOREM InvariantHolds == Spec => []IInv
  <1>1. Init => IInv
    BY InitEstablishes
  <1>2. IInv /\ [Next]_vars => IInv'
    BY InvariantStep
  <1> QED
    BY <1>1, <1>2, PTL DEF Spec

(* A call has a result exactly when it is done (createMarket's returns).    *)
THEOREM MarketTypeCorrect == Spec => []MarketTypeOK
  <1>1. IInv => MarketTypeOK
    BY DEF IInv
  <1> QED
    BY <1>1, InvariantHolds, PTL

(* With a final confirmation of its vaults, a market does not fail for want *)
(* of them (the two awaits of lib/create-market.ts:323).                    *)
THEOREM MarketFailsOnlyUnconfirmedCorrect == Spec => []MarketFailsOnlyUnconfirmed
  <1>1. IInv => MarketFailsOnlyUnconfirmed
    BY DEF IInv, CallInv, FailsOnlyUnconfirmed, MarketFailsOnlyUnconfirmed
  <1> QED
    BY <1>1, InvariantHolds, PTL

(* A timer that fires belongs to a call that has sent nothing               *)
(* (clearTimeout, lib/create-market.ts:191).                                *)
THEOREM NoRetryOnceSendingCorrect == Spec => NoRetryOnceSending
  <1> DEFINE Fires(c) == timer[c] = "armed" /\ timer'[c] = "fired"
  <1>1. ASSUME IInv, NEW c \in Calls, Fires(c)
        PROVE  /\ pc[c] \in {"rents", "done"} /\ result[c] # "market"
               /\ tx[c] = [t \in Txs |-> "unsent"]
    <2>1. tx[c] \in [Txs -> Fates]
      BY <1>1 DEF IInv, MarketTypeOK, Transactions, Fates
    <2>2. \A t \in Txs : tx[c][t] = "unsent"
      BY <1>1 DEF IInv, CallInv, ArmedSentNothing, Txs
    <2> QED
      BY <1>1, <2>1, <2>2 DEF IInv, CallInv, ArmedSentNothing
  <1>2. IInv /\ [Next]_vars => [\A c \in Calls : Fires(c) =>
          /\ pc[c] \in {"rents", "done"} /\ result[c] # "market"
          /\ tx[c] = [t \in Txs |-> "unsent"]]_vars
    BY <1>1
  <1> QED
    BY <1>2, InvariantHolds, PTL DEF Spec, NoRetryOnceSending
===============================================================================
