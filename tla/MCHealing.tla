------------------------------ MODULE MCHealing ------------------------------
(* Healing, for TLC: the constants are in the configuration.                    *)
EXTENDS Healing
==============================================================================
