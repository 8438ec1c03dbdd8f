---------------------------- MODULE AdvisedAction ----------------------------
(***************************************************************************)
(* The tick of Advice to its end: what the window says when the engine has *)
(* been asked.                                                             *)
(***************************************************************************)
EXTENDS Advice, EngineChoice

\* What may be said at j, and the dict it answers.
SaidAt(j) == IF AdvisedAt(j) THEN Spoken(Asked(log[j].out)) ELSE {}

\* Whatever the readings, whatever the charts, the strategy and the overrides make of
\* them: the action said is one that the table allows (no check facing a bet, no fold or
\* call without one), and unless the big blind is 1 there is an answer.
ActionAnswersTheTable ==
  \A j \in DOMAIN log : \A a \in SaidAt(j) :
    LET d == Asked(log[j].out)
    IN  \/ a.act = "b"
        \/ a.act \in (IF Facing(d) THEN {"c", "f"} ELSE {"k"})
        \/ a.act = "raises ZeroDivisionError" /\ d.bb = 1

\* A raise that is said is more than the call it answers, as long as the pot and both
\* stacks were read to be more, and it is not the opening raise that a fold of the chart
\* was promoted to.
RaiseBeatsTheCall ==
  \A j \in DOMAIN log : \A a \in SaidAt(j) :
    LET d == Asked(log[j].out)
    IN  (/\ a.act = "b"
         /\ Facing(d)
         /\ \A x \in {d.pot, d.stack, d.eff} : x > d.to_call
         /\ d.board = <<>> => a.size # (5 * d.bb) \div 2)
          => a.size > d.to_call

\* No bet is larger than the effective stack, unless it is one of the two smallest that
\* the engine knows: the opening raise, and the two big blinds that the cap allows.
BetFitsTheStack ==
  \A j \in DOMAIN log : \A a \in SaidAt(j) :
    LET d == Asked(log[j].out)
    IN  (a.act = "b" /\ d.stack > 0 /\ a.size > EffectiveStack(d))
          => a.size <= (IF d.board = <<>> THEN (5 * d.bb) \div 2 ELSE 2 * d.bb)
=============================================================================
