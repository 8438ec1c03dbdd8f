------------------------------- MODULE MCHybrid -------------------------------
(* Two blinds and the button. *)
EXTENDS HybridExtractor

MCPositions == {"SB", "BB", "BTN"}
=============================================================================
