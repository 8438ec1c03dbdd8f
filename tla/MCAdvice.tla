------------------------------ MODULE MCAdvice ------------------------------
(* Readings of one table, each with one thing wrong or unusual, and of the next *)
(* hand.                                                                         *)
EXTENDS AdvisedAction

CONSTANT none

Card(r, s) == <<r, s>>
MCDeck == {"A", "K", "Q"} \X {"s", "h", "d"}

AK == <<Card("A", "s"), Card("K", "h")>>
KQ == <<Card("K", "s"), Card("Q", "h")>>
Flop == <<Card("A", "d"), Card("K", "d"), Card("Q", "d")>>
Number(n) == [kind |-> "number", value |-> n]
PerField(n) == [kind |-> "fields", value |-> n]

Good == [hole |-> AK, board |-> <<>>, pot |-> 3, to_call |-> 2, stack |-> 9, eff |-> 8,
         bb |-> 2, position |-> "BTN", confidence |-> [kind |-> "absent", value |-> 0],
         uncertain |-> FALSE, estimated |-> FALSE]

CleanRaws ==
  {Good,
   [Good EXCEPT !.board = Flop, !.confidence = PerField(9)],
   [Good EXCEPT !.hole = KQ]}

\* Cards that do not parse, occur twice, or are in hand and on the board.
UnreadableRaws ==
  {[Good EXCEPT !.board = <<Card("A", "d"), Card("?", "d"), Card("Q", "d")>>],
   [Good EXCEPT !.hole = <<Card("A", "s"), Card("A", "s")>>],
   [Good EXCEPT !.board = <<Card("A", "s"), Card("K", "d"), Card("Q", "d")>>]}

\* Numbers that are missing, negative, zero or larger than the stacks.
OddRaws ==
  {[Good EXCEPT !.to_call = 12, !.stack = 5],
   [Good EXCEPT !.to_call = -1, !.stack = Missing, !.eff = Missing],
   [Good EXCEPT !.to_call = 12, !.eff = 0],
   [Good EXCEPT !.position = "SB", !.to_call = 0, !.pot = 4],
   [Good EXCEPT !.position = "SB", !.to_call = 0, !.bb = 0]}

DoubtfulRaws ==
  {[Good EXCEPT !.uncertain = TRUE],
   [Good EXCEPT !.estimated = TRUE],
   [Good EXCEPT !.confidence = Number(2)],
   [Good EXCEPT !.confidence = Number(6)]}

\* A small bet on the flop, a free card on the turn, a short stack, blinds of 0 and 1.
BetRaws ==
  {[Good EXCEPT !.board = Flop, !.to_call = 3, !.pot = 9],
   [Good EXCEPT !.board = Flop \o <<Card("Q", "s")>>, !.to_call = 0, !.pot = 9],
   [Good EXCEPT !.position = "UTG", !.to_call = 3, !.pot = 9],
   [Good EXCEPT !.board = Flop, !.to_call = 0, !.bb = 1]}

MCRaws == CleanRaws \cup UnreadableRaws \cup OddRaws \cup DoubtfulRaws \cup BetRaws
MCRawsUnreadable == CleanRaws \cup UnreadableRaws

MCReadings == {FrameOf(FromRaw(raw)) : raw \in Raws}
MCRanks == {f.ranks : f \in MCReadings} \ {{}}
MCCards == Deck
MCBoards == {f.board : f \in MCReadings}
MCViews == {f.view : f \in MCReadings}
MCMarks == {f.marks : f \in MCReadings}
=============================================================================
