---------------------------- MODULE PreflopHoldem ----------------------------
(***************************************************************************)
(* PreflopHoldemHistory (poker-assistant/engine/preflop_holdem.py): the    *)
(* abstract betting tree before the flop.  A history is a list of tokens:  *)
(* two hands, the actions, "/", and the board, which ends it.  Player 1    *)
(* has posted the small blind and acts first.                              *)
(***************************************************************************)
EXTENDS Integers, Sequences, SequencesExt

\* ten characters: the board
IsTerminal(h) == h # <<>> /\ Last(h) = "cards"

\* Faulty variant: a limp closes the betting.
LimpEnds(h) == Last(h) \in {"c", "f"} \/ (Last(h) = "k" /\ h[Len(h) - 1] = "c")

\* _game_stage_ended: a call ends the street unless it is the small blind's first.
StageEnded(h) ==
  \/ Last(h) = "c" /\ Len(h) > 3
  \/ Last(h) = "f"
  \/ Last(h) = "k" /\ h[Len(h) - 1] = "c"

\* player() = -1
IsChance(h) == Len(h) < 2 \/ StageEnded(h) \/ Last(h) = "/"

Player(h) == (Len(h) + 1) % 2

Actions(h) ==
  CASE Last(h) = "hand" -> {"c", "bMIN", "bMID", "bMAX", "f"}
    [] Last(h) = "bMIN" -> {"bMID", "bMAX", "f", "c"}
    [] Last(h) = "bMID" -> {"bMAX", "f", "c"}
    [] Last(h) = "bMAX" -> {"f", "c"}
    [] OTHER -> {"k", "bMIN", "bMID", "bMAX"}

\* sample_chance_outcome
ChanceToken(h) == IF Len(h) < 2 THEN "hand" ELSE IF Last(h) = "/" THEN "cards" ELSE "/"

\* Faulty variant: what was bet before is counted with the raise.
CountTwice(pot, token) ==
  CASE token = "bMIN" -> [stage |-> pot.bet + pot.stage, bet |-> pot.bet + pot.stage]
    [] token = "bMID" -> [stage |-> pot.bet + 2 * pot.stage, bet |-> 2 * pot.stage]
    [] token = "bMAX" -> [stage |-> pot.bet + 100, bet |-> 100]
    [] token = "c" -> [pot EXCEPT !.stage = 2 * pot.bet]
    [] OTHER -> pot

\* One step of _get_total_pot_size.
Count(pot, token) ==
  CASE token = "bMIN" -> [stage |-> pot.bet + pot.stage, bet |-> pot.stage]
    [] token = "bMID" -> [stage |-> pot.bet + 2 * pot.stage, bet |-> 2 * pot.stage]
    [] token = "bMAX" -> [stage |-> pot.bet + 100, bet |-> 100]
    [] token = "c" -> [pot EXCEPT !.stage = 2 * pot.bet]
    [] OTHER -> pot

\* _get_total_pot_size, starting from the two blinds.
PotSize(h) == FoldLeft(Count, [stage |-> 3, bet |-> 2], h).stage

FoldPlace(h) == CHOOSE i \in DOMAIN h : h[i] = "f"

\* terminal_utility, doubled.  winner is 0, 1, or 2 for a tie.  After a fold two tokens
\* follow, so that the bet before the fold is never the third from last: the branch
\* that would add it to the profit is dead.
TwiceUtility(h, winner, i) ==
  LET pot == IF Contains(h, "f") THEN PotSize(SubSeq(h, 1, FoldPlace(h) - 2)) ELSE PotSize(h)
      won == IF Contains(h, "f") THEN (Len(h) + 1) % 2 ELSE winner
  IN  IF won = 2 THEN 0 ELSE IF won = i THEN pot ELSE -pot
=============================================================================
