------------------------------ MODULE MCAssistant ------------------------------
(* Small instances of Assistant; the bounds are given in the configurations. *)
EXTENDS Assistant
=============================================================================
