------------------------------ MODULE MCOneForm ------------------------------
(* MCDiscovery restricted to the regime the theorems assume. *)
EXTENDS MCDiscovery

ASSUME InRegime == Regime
==============================================================================
