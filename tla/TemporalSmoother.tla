-------------------------- MODULE TemporalSmoother --------------------------
(***************************************************************************)
(* TemporalSmoother (poker-assistant/vision/temporal_smoother.py): a ring  *)
(* buffer of the last raw dicts and a consensus dict made of it, one vote  *)
(* per card slot, one median per amount.                                   *)
(*                                                                         *)
(* A raw dict is a record with the fields of PokerState's raw dicts.  Its  *)
(* uncertainty_reasons are one Boolean, "uncertain": only whether there is *)
(* any matters.  The buffer holds references, and the extractor hands out  *)
(* one object again and again, emptying it in place when the hole cards    *)
(* leave the screen: an entry is "shared" while it is that object.         *)
(*                                                                         *)
(* Every extractor gives the keys stack and position, and a confidence per *)
(* field or none, so the branches of update for an absent stack, an absent *)
(* position and a confidence that is a number are left out.                *)
(***************************************************************************)
EXTENDS Integers, Sequences, FiniteSets, FiniteSetsExt

CONSTANTS
  WindowSize,  \* window_size
  Required,    \* least number of frames that is at least agreement_threshold * window_size
  MinSamples,  \* min_samples
  NoNumber,    \* an amount that is no number
  NoPosition   \* a position that is None or empty

ASSUME SmootherAssumption ==
  /\ WindowSize \in Nat \ {0}
  /\ Required \in 0..WindowSize
  /\ MinSamples \in Nat \ {0}
  /\ NoNumber \notin Nat

VARIABLE buffer  \* _buffer, oldest first: [dict, shared]

HoleSlots == 2
BoardSlots == 5

-----------------------------------------------------------------------------
Frames == DOMAIN buffer

Latest == buffer[Len(buffer)].dict

\* Faulty variant: the winner needs no support.
Plurality(n) == n > 0

\* Enough of WindowSize frames, whether or not the window is full.
Enough(n) == n >= Required /\ n >= MinSamples

\* A slot's candidates are read off the frames that have the slot at all.
Filled(field, i) == {k \in Frames : i <= Len(buffer[k].dict[field])}

Card(field, i, k) == buffer[k].dict[field][i]

\* The frames that voted for the card that frame k shows in a slot.
Backers(field, i, k) == {j \in Filled(field, i) : Card(field, i, j) = Card(field, i, k)}

\* The first frame among those whose card has the most votes: max() over a dict that
\* keeps insertion order.
Leading(field, i) ==
  CHOOSE k \in Filled(field, i) : \A j \in Filled(field, i) :
    /\ Cardinality(Backers(field, i, j)) <= Cardinality(Backers(field, i, k))
    /\ j < k => Cardinality(Backers(field, i, j)) < Cardinality(Backers(field, i, k))

\* The most votes are enough.
Agreed(field, i) ==
  \E k \in Filled(field, i) : Enough(Cardinality(Backers(field, i, k)))

\* What a slot adds to the cards: one without agreement is left out.
Slot(field, i) == IF Agreed(field, i) THEN <<Card(field, i, Leading(field, i))>> ELSE <<>>

SmoothHole == Slot("hole", 1) \o Slot("hole", 2)

SmoothBoard ==
  Slot("board", 1) \o Slot("board", 2) \o Slot("board", 3) \o Slot("board", 4) \o Slot("board", 5)

CardsStable(field, slots) ==
  \A i \in 1..slots : Filled(field, i) = {} \/ Agreed(field, i)

-----------------------------------------------------------------------------
Numbers(field) == {k \in Frames : buffer[k].dict[field] # NoNumber}

Amount(field, k) == buffer[k].dict[field]

\* Where a frame stands among those with a number, by amount.
Rank(field, k) ==
  Cardinality({j \in Numbers(field) : \/ Amount(field, j) < Amount(field, k)
                                      \/ Amount(field, j) = Amount(field, k) /\ j <= k})

AtRank(field, r) == Amount(field, CHOOSE k \in Numbers(field) : Rank(field, k) = r)

\* median; the half of an odd sum is cut off, as int() does to it in from_raw_dict.
Median(field) ==
  LET n == Cardinality(Numbers(field))
  IN  (AtRank(field, (n + 1) \div 2) + AtRank(field, n \div 2 + 1)) \div 2

SmoothAmount(field) == IF Numbers(field) = {} THEN NoNumber ELSE Median(field)

\* Faulty variant: nothing is added to the mean before dividing, and 0 / 0 is not steady.
SteadyAboveZero(field) ==
  LET n == Cardinality(Numbers(field))
      sum == MapThenSumSet(LAMBDA k : Amount(field, k), Numbers(field))
      squares == MapThenSumSet(LAMBDA k : Amount(field, k) * Amount(field, k), Numbers(field))
  IN  n = 1 \/ 100 * (n * squares - sum * sum) < 9 * sum * sum

\* A coefficient of variation of at most 0.3, without its root and its quotients.
Steady(field) ==
  LET n == Cardinality(Numbers(field))
      sum == MapThenSumSet(LAMBDA k : Amount(field, k), Numbers(field))
      squares == MapThenSumSet(LAMBDA k : Amount(field, k) * Amount(field, k), Numbers(field))
  IN  n = 1 \/ 100 * (n * squares - sum * sum) <= 9 * sum * sum

AmountStable(field) ==
  Numbers(field) # {} /\ Cardinality(Numbers(field)) >= MinSamples /\ Steady(field)

-----------------------------------------------------------------------------
Seated == {k \in Frames : buffer[k].dict.position # NoPosition}

SeatBackers(k) == {j \in Seated : buffer[j].dict.position = buffer[k].dict.position}

SeatsAgreed == {k \in Seated :
  /\ \A j \in Seated : Cardinality(SeatBackers(j)) <= Cardinality(SeatBackers(k))
  /\ Enough(Cardinality(SeatBackers(k)))}

\* The agreed position, first come first served among equals, or the latest one.
SmoothPosition ==
  IF SeatsAgreed = {} THEN Latest.position
  ELSE buffer[CHOOSE k \in SeatsAgreed : \A j \in SeatsAgreed : k <= j].dict.position

-----------------------------------------------------------------------------
Amounts == {"pot", "to_call", "stack"}

\* The reasons update adds of its own to a dict with these smoothed cards.
Doubts(hole, board) ==
  {f \in Amounts : ~AmountStable(f)}
    \cup {d \in {"hole", "board", "position", "stage"} :
            \/ d = "hole" /\ ~(Len(hole) = 2 /\ CardsStable("hole", HoleSlots))
            \/ d = "board" /\ ~CardsStable("board", BoardSlots)
            \/ d = "position" /\ SeatsAgreed = {}
            \/ d = "stage" /\ Len(board) \notin {0, 3, 4, 5}}

\* What update returns: the latest dict, smoothed and marked.  The confidence per
\* field is kept as its lowest.
Smoothed ==
  LET hole == SmoothHole
      board == SmoothBoard
      certain == Doubts(hole, board) = {}
  IN  [Latest EXCEPT !.hole = hole,
                     !.board = board,
                     !.pot = SmoothAmount("pot"),
                     !.to_call = SmoothAmount("to_call"),
                     !.stack = SmoothAmount("stack"),
                     !.position = SmoothPosition,
                     !.confidence = [kind |-> "fields", value |-> IF certain THEN 10 ELSE 0],
                     !.uncertain = @ \/ ~certain]

-----------------------------------------------------------------------------
\* deque(maxlen = window_size)
Push(b, entry) == Append(IF Len(b) = WindowSize THEN Tail(b) ELSE b, entry)

\* The extractor returns a new dict, and keeps it.
UpdateFresh(raw) ==
  buffer' = Push([k \in Frames |-> [buffer[k] EXCEPT !.shared = FALSE]],
                 [dict |-> raw, shared |-> TRUE])

\* The extractor returns the dict it returned last (the frame has not changed within
\* the cooldown).
UpdateRepeated ==
  /\ buffer # <<>>
  /\ buffer' = Push(buffer, buffer[Len(buffer)])

Emptied(entry) ==
  IF entry.shared THEN [entry EXCEPT !.dict.hole = <<>>, !.dict.board = <<>>] ELSE entry

\* The hole cards left the screen: the extractor empties its dict, wherever it is, and
\* returns it again.
UpdateEmptied ==
  /\ buffer # <<>>
  /\ buffer' = Push([k \in Frames |-> Emptied(buffer[k])], Emptied(buffer[Len(buffer)]))
=============================================================================
