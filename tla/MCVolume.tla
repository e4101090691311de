------------------------------- MODULE MCVolume -------------------------------
(* The instances of MCPumpfun with their history, cut off at a volume: the   *)
(* history only grows, and everything else is finite.                        *)
EXTENDS MCPumpfun, PumpfunVolume

CONSTANT MaxVolume   \* bound: lamports the trades of a mint may touch

WithinVolume == \A m \in Mints : volume'[m] <= MaxVolume

MCVolumeSpec == VolumeInit /\ [][VolumeNext /\ WithinVolume]_<<vars, history>>
===============================================================================
