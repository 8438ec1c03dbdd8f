-------------------------- MODULE MCSmoothedAdvice --------------------------
(* Two hands, a flop, and readings with one thing wrong: a hole card, a board   *)
(* card, the amounts, the whole hand.                                           *)
EXTENDS SmoothedAdvice

CONSTANT none

MCDeck == {"A", "K", "Q"} \X {"s", "h", "d"}

AK == <<<<"A", "s">>, <<"K", "h">>>>
QK == <<<<"Q", "s">>, <<"K", "s">>>>
Flop == <<<<"A", "d">>, <<"K", "d">>, <<"Q", "d">>>>
FlopMisread == <<<<"A", "h">>, <<"K", "d">>, <<"Q", "d">>>>

Plain == [hole |-> AK, board |-> <<>>, pot |-> 10, to_call |-> 0, stack |-> 90, eff |-> 90,
          bb |-> 2, position |-> "BTN", confidence |-> [kind |-> "fields", value |-> 9],
          uncertain |-> FALSE, estimated |-> FALSE]

MCRaws ==
  {Plain,
   [Plain EXCEPT !.board = Flop],
   [Plain EXCEPT !.board = FlopMisread, !.pot = NoNumber],
   [Plain EXCEPT !.hole[2] = <<"K", "s">>, !.position = "SB"],
   [Plain EXCEPT !.hole = QK, !.pot = 12, !.to_call = 4],
   [Plain EXCEPT !.hole = QK, !.board = Flop, !.to_call = 5, !.pot = 30],
   [Plain EXCEPT !.pot = 12],
   [Plain EXCEPT !.to_call = NoNumber]}

MCReadings == {FrameOf(FromRaw(raw)) : raw \in Raws}
Pairs == {h \in Deck \X Deck : h[1] # h[2]}
MCRanks == {{h[1][1], h[2][1]} : h \in Pairs}
MCCards == Deck
MCBoards == {<<>>} \cup {<<x>> : x \in Deck} \cup Pairs \cup (Deck \X Deck \X Deck)
MCViews == [hero : Pairs \cup {<<>>} \cup {<<x>> : x \in Deck}, pot : 0..30, to_call : 0..5,
            eff : {90}, position : {"BTN", "SB"}]
MCMarks == [stack : {90}, bb : {2}, confidence : {10},
            errors : SUBSET {"hero invalid", "board invalid", "duplicate"},
            raw_confidence : RawConfidences, uncertain : BOOLEAN, estimated : {FALSE}]
=============================================================================
