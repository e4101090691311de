---------------------------- MODULE CurveLifecycle ----------------------------
(***************************************************************************)
(* What the program promises of every bonding curve: it trades, it         *)
(* completes once, its reserves stand still until they are paid out once,  *)
(* and nothing happens to it afterwards.                                   *)
(***************************************************************************)
EXTENDS Integers

CONSTANTS Mints

VARIABLES phase,   \* "none", "trading", "completed" or "settled"
          lamport, \* recorded lamport reserve
          token    \* recorded token reserve

vars == <<phase, lamport, token>>

Init == /\ phase = [m \in Mints |-> "none"]
        /\ lamport = [m \in Mints |-> 0]
        /\ token = [m \in Mints |-> 0]

(* Only m's reserves may change.                                            *)
Moves(m) == /\ lamport' \in [Mints -> Nat]
            /\ token' \in [Mints -> Nat]
            /\ \A n \in Mints \ {m} : lamport'[n] = lamport[n] /\ token'[n] = token[n]

Launch(m) == /\ phase[m] = "none"
             /\ phase' = [phase EXCEPT ![m] = "trading"]
             /\ Moves(m)

(* One reserve rises, the other falls; only a trade completes a curve.      *)
Trade(m) == /\ phase[m] = "trading"
            /\ \E p \in {"trading", "completed"} : phase' = [phase EXCEPT ![m] = p]
            /\ Moves(m)
            /\ \/ lamport'[m] >= lamport[m] /\ token'[m] <= token[m]
               \/ lamport'[m] <= lamport[m] /\ token'[m] >= token[m]

Settle(m) == /\ phase[m] = "completed"
             /\ phase' = [phase EXCEPT ![m] = "settled"]
             /\ lamport' = [lamport EXCEPT ![m] = 0]
             /\ token' = [token EXCEPT ![m] = 0]

Next == \E m \in Mints : Launch(m) \/ Trade(m) \/ Settle(m)

Spec == Init /\ [][Next]_vars
===============================================================================
