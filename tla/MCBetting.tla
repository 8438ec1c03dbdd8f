------------------------------ MODULE MCBetting ------------------------------
(* All lines of the three trees, and all strategies out of Weights. *)
EXTENDS BestResponse
=============================================================================
