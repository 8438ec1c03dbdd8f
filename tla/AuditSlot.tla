------------------------------ MODULE AuditSlot ------------------------------
(***************************************************************************)
(* What the Jev auditor promises its users, with no thread, clock or lock  *)
(* in sight: one slot that is free or taken, and a report that only a      *)
(* taken slot may replace, never by a report about an older table.         *)
(***************************************************************************)
EXTENDS Naturals

CONSTANT MaxVersions

VARIABLES taken, report

slot == <<taken, report>>

Init == taken = FALSE /\ report = 0

Take == ~taken /\ taken' = TRUE /\ UNCHANGED report

Replace == taken /\ report' \in report..MaxVersions /\ UNCHANGED taken

Free == taken /\ taken' = FALSE /\ UNCHANGED report

Next == Take \/ Replace \/ Free

Spec == Init /\ [][Next]_slot
=============================================================================
