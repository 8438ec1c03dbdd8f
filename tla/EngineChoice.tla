----------------------------- MODULE EngineChoice -----------------------------
(***************************************************************************)
(* What the engine may answer (AssistantEngine.recommend) and what the     *)
(* controller then says, as sets of actions for a dict d of PokerState.    *)
(* What depends on the particular cards is left open: the chart's answer,  *)
(* the trained strategy, from which an action is drawn at random, and the  *)
(* texture of the board.  Equities are percents, amounts whole numbers.    *)
(***************************************************************************)
EXTENDS Integers, Sequences

CONSTANT Equities  \* what the Monte-Carlo estimate may say

Post == INSTANCE PostflopHoldem

Larger(a, b) == IF a > b THEN a ELSE b
Smaller(a, b) == IF a < b THEN a ELSE b

Say(act) == [act |-> act, size |-> 0]
Bet(size) == [act |-> "b", size |-> size]

\* _build_history: one bet of the amount to call, or nothing.
Facing(d) == d.to_call > 0

EffectiveStack(d) == IF d.eff > 0 THEN d.eff ELSE d.stack

-----------------------------------------------------------------------------
(* Before the flop. *)

\* preflop_charts.lookup, and the promotion of folds in late position: with the data set
\* of the repository no hand is promoted, without it every one is.
PreflopTokens(d) ==
  (IF Facing(d) THEN {"bMAX", "c", "f"} ELSE {"bMIN", "f"})
    \union (IF d.position \in {"CO", "BTN", "SB", "HJ"} THEN {"bMIN"} ELSE {})

\* Faulty variant: a re-raise is three times the bet, whatever is left.
PreflopUncapped(d, token) ==
  CASE token = "bMIN" -> Bet((5 * d.bb) \div 2)
    [] token = "bMAX" -> Bet(3 * d.to_call)
    [] OTHER -> Say(token)

\* _translate_preflop_action
PreflopAction(d, token) ==
  CASE token = "bMIN" -> Bet((5 * d.bb) \div 2)
    [] token = "bMAX" -> Bet(Smaller(3 * d.to_call, EffectiveStack(d)))
    [] OTHER -> Say(token)

-----------------------------------------------------------------------------
(* After it. *)

\* The actions of the abstract tree; a bet below two big blinds counts as a small one.
PostflopTokens(d) ==
  Post!Actions(<<"hand", "hand", "/", "cards">> \o
               (IF ~Facing(d) THEN <<>>
                ELSE IF d.to_call >= 2 * d.bb THEN <<"bMAX">> ELSE <<"bMIN">>))

\* _translate_postflop_action: sizes are multiples of half a big blind, and with a big
\* blind of 1 the half is 0, by which the pot is divided.
PostflopAction(d, token) ==
  LET unit == d.bb \div 2
  IN  CASE token = "bMIN" /\ unit = 0 -> Say("raises ZeroDivisionError")
        [] token = "bMIN" /\ unit > 0 -> Bet(Larger(d.bb, (d.pot \div (3 * unit)) * unit))
        [] token = "bMAX" -> Bet(Smaller(d.pot, d.stack))
        [] OTHER -> Say(token)

\* The value bet on turn and river.  The texture of the board sets the equity it needs.
ValueBet(d, equity, needed, r) ==
  IF Len(d.board) >= 4 /\ ~Facing(d) /\ equity >= needed /\ r.act \in {"k", "c", "f"}
  THEN Bet(Smaller(Larger(d.pot \div 2, 2 * d.bb), d.eff))
  ELSE r

\* Faulty variant: a cap without a floor.
CappedBelowCall(d, r) ==
  IF r.act = "b" /\ d.stack > 0 THEN Bet(Smaller(r.size, (3 * d.eff) \div 10)) ELSE r

\* The cap on bets: three tenths of the effective stack, but no less than two big blinds.
Capped(d, r) ==
  IF r.act = "b" /\ d.stack > 0
  THEN Bet(Smaller(r.size, Larger((3 * d.eff) \div 10, 2 * d.bb)))
  ELSE r

-----------------------------------------------------------------------------
\* The equity, plus a tenth for safety, does not pay for the call.
TooDear(d, equity) == equity * (d.pot + d.to_call) < 110 * d.to_call

PotOdds(d, equity, r) == IF r.act = "c" /\ Facing(d) /\ TooDear(d, equity) THEN Say("f") ELSE r

NoCheckFacing(d, equity, r) ==
  IF Facing(d) /\ r.act = "k" THEN Say(IF TooDear(d, equity) THEN "f" ELSE "c") ELSE r

Settled(d, equity, r) == NoCheckFacing(d, equity, PotOdds(d, equity, r))

\* recommend.  Before the flop the answer carries no equity, and a half stands in.
Recommended(d) ==
  IF d.board = <<>>
  THEN {Settled(d, 50, PreflopAction(d, t)) : t \in PreflopTokens(d)}
  ELSE {Settled(d, e, Capped(d, ValueBet(d, e, needed, PostflopAction(d, t)))) :
          t \in PostflopTokens(d), e \in Equities, needed \in {72, 78, 85}}

\* Faulty variant: the engine's answer as it is.
SpokenUnchecked(d) == Recommended(d)

\* _tick: a fold when nothing is to be called becomes a check.
Spoken(d) ==
  {IF ~Facing(d) /\ r.act = "f" THEN Say("k") ELSE r : r \in Recommended(d)}
=============================================================================
