----------------------------- MODULE PumpfunVolume -----------------------------
(***************************************************************************)
(* The program with a history that no guard reads: how much the trades of  *)
(* each mint have touched, and how many of its tokens were offered first.  *)
(* What trading can cost a curve is said in terms of the two.              *)
(***************************************************************************)
EXTENDS PumpfunTotals

VARIABLES volume,   \* (history) lamports touched by the trades of a mint
          offered   \* (history) tokens a launch put on the curve

history == <<volume, offered>>

Trades(m, direction) ==
  \E e \in emitted' : e.event = "swap" /\ e.mint = m /\ e.direction = direction

(* Lamports on the curve for a sell, lamports paid in for a buy.            *)
Touched(m) ==
  IF Trades(m, Sell) THEN curve[m].reserve_lamport
  ELSE IF Trades(m, Buy) THEN curve'[m].reserve_lamport - curve[m].reserve_lamport
  ELSE 0

VolumeInit == /\ Init
              /\ volume = [m \in Mints |-> 0]
              /\ offered = [m \in Mints |-> 0]

VolumeNext ==
  /\ Next
  /\ volume' = [m \in Mints |-> volume[m] + Touched(m)]
  /\ offered' = [m \in Mints |-> IF m \in launched' \ launched THEN curve'[m].reserve_token
                                                               ELSE offered[m]]

VolumeSpec == VolumeInit /\ [][VolumeNext]_<<vars, history>>

-------------------------------------------------------------------------------
(* A curve never lacks more of its virtual lamports than the team's share   *)
(* of the supply is to blame for, and one part in FloatPrecision of its     *)
(* volume: selling everything back in any order, team included, leaves      *)
(* init_lamport * offered / supply, but for the rounding of the prices      *)
(* (swap, cal_amount_out; sells are not stopped at init_lamport).           *)
VirtualLossBounded == \A m \in launched \ settled :
  (curve[m].init_lamport * offered[m] - curve[m].reserve_lamport * supply[m]) * FloatPrecision
    <= volume[m] * supply[m]
===============================================================================
