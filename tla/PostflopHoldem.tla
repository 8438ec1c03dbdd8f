--------------------------- MODULE PostflopHoldem ---------------------------
(***************************************************************************)
(* PostflopHoldemHistory (poker-assistant/engine/postflop_holdem.py): the  *)
(* abstract betting tree of flop, turn and river that the engine's         *)
(* strategies were trained on.  A history is a list of tokens: two hands,  *)
(* then for each street "/", its cards, and the actions.  Only what the    *)
(* code looks at is kept of hands and cards: that they are no actions.     *)
(* Utilities are doubled, since the code halves the pot.                   *)
(***************************************************************************)
EXTENDS Integers, Sequences, SequencesExt

EndsWith(h, tail) == Len(h) >= Len(tail) /\ SubSeq(h, Len(h) - Len(tail) + 1, Len(h)) = tail

\* stage_i
Stage(h) == Len(SelectSeq(h, LAMBDA t : t = "/"))

\* Faulty variant: checking it through does not end the street.
EndedByBets(h) == Last(h) \in {"c", "f"}

\* _game_stage_ended
StageEnded(h) == Last(h) \in {"c", "f"} \/ EndsWith(h, <<"k", "k">>)

IsTerminal(h) == h # <<>> /\ (Last(h) = "f" \/ (Stage(h) = 3 /\ StageEnded(h)))

\* Where the last street starts: its "/" stands at this place.
StageStart(h) == CHOOSE i \in DOMAIN h : h[i] = "/" /\ \A j \in (i + 1)..Len(h) : h[j] # "/"

\* The number of tokens of the last street, its cards included.
StageLength(h) == Len(h) - StageStart(h)

\* player() = -1
IsChance(h) == Len(h) <= 3 \/ StageEnded(h) \/ Last(h) = "/"

Player(h) == (StageLength(h) + 1) % 2

Actions(h) ==
  CASE EndsWith(h, <<"k", "bMIN">>) \/ Last(h) = "bMAX" -> {"f", "c"}
    [] Last(h) = "bMIN" /\ ~EndsWith(h, <<"k", "bMIN">>) -> {"bMAX", "f", "c"}
    [] Last(h) \notin {"bMIN", "bMAX"} -> {"k", "bMIN", "bMAX"}

\* sample_chance_outcome
ChanceToken(h) == IF Len(h) < 2 THEN "hand" ELSE IF Last(h) = "/" THEN "cards" ELSE "/"

\* One step of _get_total_pot_size: total of the earlier streets, this street, last bet.
Count(pot, token) ==
  CASE token = "/" -> [total |-> pot.total + pot.stage, stage |-> 0, bet |-> 0]
    [] token = "bMIN" ->
         LET bet == IF pot.total \div 3 > 2 THEN pot.total \div 3 ELSE 2
         IN  [pot EXCEPT !.bet = bet, !.stage = @ + bet]
    [] token = "bMAX" -> [pot EXCEPT !.bet = pot.total, !.stage = @ + pot.total]
    [] token = "c" -> [pot EXCEPT !.stage = 2 * pot.bet]
    [] OTHER -> pot

\* _get_total_pot_size: the blinds are called before the first "/".
Pot(h) == FoldLeft(Count, [total |-> 0, stage |-> 4, bet |-> 0], h)

PotSize(h) == Pot(h).total + Pot(h).stage

\* Faulty variant: the bet that a fold answers is never looked for.
PotWithoutBet(h) == PotSize(SubSeq(h, 1, Len(h) - 2))

\* The pot that a fold gives away: without the bet it answers, with the one before that.
PotAtFold(h) ==
  LET before == SubSeq(h, 1, Len(h) - 2)
  IN  PotSize(before) + (IF Last(before) = "bMIN" THEN Pot(before).bet ELSE 0)

\* terminal_utility, doubled.  winner is 0, 1, or 2 for a tie.
TwiceUtility(h, winner, i) ==
  IF Last(h) = "f" THEN (IF StageLength(h) % 2 = i THEN -PotAtFold(h) ELSE PotAtFold(h))
  ELSE IF winner = 2 THEN 0
  ELSE IF winner = i THEN PotSize(h)
  ELSE -PotSize(h)
=============================================================================
