----------------------------- MODULE MCJevAuditor -----------------------------
(* Small instances of JevAuditor; the bounds are given in the configuration.   *)
EXTENDS JevAuditor
=============================================================================
