---------------------------- MODULE PumpfunTotals ----------------------------
(* Properties that sum over wallets or curves.                               *)
EXTENDS PumpfunProperties, Functions, FiniteSets

ASSUME FiniteAssumption == IsFiniteSet(Wallets) /\ IsFiniteSet(Mints)

(* Across all curves: the vault holds what it was funded with and every     *)
(* open curve's lamports, less what migration took.                         *)
VaultMatchesCurves ==
  vault + SumFunction(migrated)
    = funded + SumFunction([m \in Mints |->
                 IF m \in launched \ settled THEN curve[m].reserve_lamport - curve[m].init_lamport
                                             ELSE 0])
===============================================================================
