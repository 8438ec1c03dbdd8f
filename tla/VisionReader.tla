----------------------------- MODULE VisionReader -----------------------------
(***************************************************************************)
(* What LLMVisionExtractor remembers from one frame to the next: the last  *)
(* answer, the suits voted for in this hand, the seat of the button, and   *)
(* how many frames in a row were answered without asking the model.        *)
(*                                                                         *)
(* The model and the image work beside it (board and suit detection, the   *)
(* local button detector) are external: a call answers a reading with the  *)
(* ranks of the table, at most one suit misread in the hole and one in the *)
(* board, and any seat or none for the button.  An answer repeated         *)
(* within the cooldown (_should_skip) returns _cached_state as it is and   *)
(* changes nothing; it is a stuttering step here.                          *)
(***************************************************************************)
EXTENDS Tally, FiniteSets, Functions

CONSTANTS
  Deals,      \* the hands dealt, in order: [hole, board]
  Streets,    \* lengths of the board that the table shows
  Ranks, Suits,
  Doubtful,   \* the cards whose suit the model may misread
  Unreadable, \* the suit "?" of a card whose suit was not made out
  Seats,
  NoSeat,     \* None
  NoAnswer,   \* None, before the first answer
  SkipLimit,  \* the 20 of extract
  MaxReads    \* bound on the votes cast for one pair of ranks

ASSUME ReaderAssumption ==
  /\ Unreadable \notin Suits
  /\ NoSeat \notin Seats
  /\ SkipLimit \in Nat
  /\ MaxReads \in Nat

VARIABLES
  deal, street,     \* the table: which hand, how much of its board
  cached,           \* _cached_state, which is also the answer given last
  skips,            \* _consecutive_skips
  ranks,            \* _frozen_ranks
  hand_votes,       \* _hand_votes
  board_votes,      \* _board_suit_votes
  hole_key,         \* _last_hole_key
  button_seat,      \* _cached_button_seat; _cached_position is its position
  \* History, for the properties only.
  reading,          \* the reading behind cached, NoAnswer if none
  reads,            \* votes cast for the ranks in memory
  deal_votes,       \* votes for the hole since this hand was dealt
  deal_board_votes, \* votes for the board since then
  inherited,        \* ranks that the votes were for when this hand was dealt
  sighting          \* the hole last answered, and the seat read when it first was

table == <<deal, street>>
memory == <<ranks, hand_votes, board_votes>>
place == <<hole_key, button_seat>>
history == <<reads, deal_votes, deal_board_votes, inherited>>
vars == <<table, cached, skips, memory, place, reading, history, sighting>>

----------------------------------------------------------------------------
(* Cards and readings. *)

RankOf(card) == card[1]
SuitOf(card) == card[2]
RanksOf(hole) == {RankOf(c) : c \in hole}
Legible(hole) == \A c \in hole : SuitOf(c) # Unreadable

\* No card twice among hole and board.
Distinct(hole, board) ==
  Cardinality(hole) = 2 /\ IsInjective(board) /\ Range(board) \cap hole = {}

ASSUME DealsAssumption ==
  /\ Deals \in Seq([hole : SUBSET (Ranks \X Suits), board : Seq(Ranks \X Suits)])
  /\ \A d \in DOMAIN Deals : Distinct(Deals[d].hole, Deals[d].board)
  /\ Deals # <<>>
  /\ Streets \subseteq Nat /\ 0 \in Streets
  /\ \A d \in DOMAIN Deals, n \in Streets : n <= Len(Deals[d].board)

Hole == Deals[deal].hole
Board == SubSeq(Deals[deal].board, 1, street)

Misreadings(card) ==
  {<<RankOf(card), s>> : s \in IF card \in Doubtful
                                 THEN (Suits \cup {Unreadable}) \ {SuitOf(card)} ELSE {}}

\* External: what the model may see of the table.
HoleReadings ==
  {{}, Hole} \cup {h \in UNION {{(Hole \ {c}) \cup {m} : m \in Misreadings(c)} : c \in Hole} :
                     Cardinality(h) = 2}
BoardReadings ==
  {Board} \cup UNION {{[Board EXCEPT ![i] = m] : m \in Misreadings(Board[i])} :
                        i \in DOMAIN Board}

\* _normalize_state: the board loses the cards of the hole and repeated
\* cards, and is dropped whole when its length is then no street's.
Normalized(board, hole) ==
  LET kept  == SelectSeq(board, LAMBDA c : c \notin hole)
      first == {i \in DOMAIN kept : \A j \in 1..(i - 1) : kept[j] # kept[i]}
      unique == [i \in 1..Cardinality(first) |->
                   kept[CHOOSE k \in first : Cardinality({j \in first : j < k}) = i - 1]]
  IN  IF Len(unique) \in {0, 3, 4, 5} THEN unique ELSE <<>>

Readings ==
  {[hole |-> h, board |-> Normalized(b, h), seat |-> s] :
     h \in HoleReadings, b \in BoardReadings, s \in Seats \cup {NoSeat}}

----------------------------------------------------------------------------
(* _apply_hand_suit_memory *)

\* hole_ok: two cards whose suits were made out.
Votes(r) == Cardinality(r.hole) = 2 /\ Legible(r.hole)

\* Mutant: the votes of the hand before are not forgotten.
NeverNewHand(hole) == FALSE

IsNewHand(hole) == ranks # {} /\ RanksOf(hole) # ranks

Slot(board, i) == <<i, RankOf(board[i])>>
SlotVotes(votes, slot) == IF slot \in DOMAIN votes THEN votes[slot] ELSE NoVotes

\* Every card of the board votes in its slot, in order.
CastBoard(votes, board) ==
  [slot \in DOMAIN votes \cup {Slot(board, i) : i \in DOMAIN board} |->
     IF \E i \in DOMAIN board : Slot(board, i) = slot
       THEN Cast(SlotVotes(votes, slot), SuitOf(board[slot[1]]))
       ELSE votes[slot]]

\* A winner other than what was read needs two votes.
Wins(votes, read) == Leader(votes) # read /\ VotesFor(votes, Leader(votes)) >= 2

\* The cards of pair take the place of the read cards of the same rank.
Recoloured(hole, pair) ==
  {c \in pair : RankOf(c) \in RanksOf(hole)} \cup {c \in hole : RankOf(c) \notin RanksOf(pair)}

MergedHole(votes, hole) ==
  IF Wins(votes, hole) THEN Recoloured(hole, Leader(votes)) ELSE hole

MergedBoard(votes, board) ==
  [i \in DOMAIN board |->
     LET slot == votes[Slot(board, i)]
     IN  IF Wins(slot, SuitOf(board[i])) THEN <<RankOf(board[i]), Leader(slot)>>
                                         ELSE board[i]]

\* The votes once a reading has cast its own.
HandVotesAfter(r) == Cast(IF IsNewHand(r.hole) THEN NoVotes ELSE hand_votes, r.hole)
\* Mutant: the votes of the board outlive the hand.
BoardVotesKept(r) == CastBoard(board_votes, r.board)

BoardVotesAfter(r) == CastBoard(IF IsNewHand(r.hole) THEN <<>> ELSE board_votes, r.board)

\* The winners replace the cards read, unless a card would appear twice.
Merges(r) ==
  /\ Votes(r)
  /\ Distinct(MergedHole(HandVotesAfter(r), r.hole), MergedBoard(BoardVotesAfter(r), r.board))
HoleAfter(r) == IF Merges(r) THEN MergedHole(HandVotesAfter(r), r.hole) ELSE r.hole
BoardAfter(r) == IF Merges(r) THEN MergedBoard(BoardVotesAfter(r), r.board) ELSE r.board

Remember(r) ==
  IF Votes(r)
    THEN /\ ranks' = RanksOf(r.hole)
         /\ hand_votes' = HandVotesAfter(r)
         /\ board_votes' = BoardVotesAfter(r)
         /\ reads' = IF IsNewHand(r.hole) THEN 1 ELSE reads + 1
         /\ deal_votes' = Cast(deal_votes, r.hole)
         /\ deal_board_votes' = CastBoard(deal_board_votes, r.board)
    ELSE UNCHANGED <<memory, reads, deal_votes, deal_board_votes>>

----------------------------------------------------------------------------
(* The seat of the button, and the position that it gives the hero.  The    *)
(* layout of the table maps seats to positions one to one, so a position is *)
(* named by the seat of the button; NoSeat stands for the default "BTN".    *)

\* The seat handed to _position_from_button.
SeatFor(r) == IF r.seat # NoSeat THEN r.seat ELSE button_seat

\* Mutant: hands are told apart by their ranks.
KeepsSeatOfRanks(hole) == RanksOf(hole) = RanksOf(hole_key) /\ button_seat # NoSeat

\* Within a hand the first seat stands.
KeepsSeat(hole) == hole = hole_key /\ button_seat # NoSeat

PositionFromButton(seat, hole) ==
  IF seat = NoSeat \/ KeepsSeat(hole) THEN button_seat ELSE seat

----------------------------------------------------------------------------
(* extract *)

\* The hole cards are gone: answer at once, at most SkipLimit times running.
SkipsCall(visible) == ~visible /\ cached # NoAnswer /\ skips < SkipLimit

Skip ==
  /\ SkipsCall(FALSE)
  /\ skips' = skips + 1
  /\ cached' = [cached EXCEPT !.hole = {}, !.board = <<>>]
  /\ reading' = NoAnswer
  /\ UNCHANGED <<table, memory, place, history, sighting>>

\* The call ends in an exception, after its three attempts or at once.
CallFails(visible) ==
  /\ ~SkipsCall(visible)
  /\ skips' = IF visible THEN 0 ELSE skips
  /\ UNCHANGED <<table, cached, memory, place, reading, history, sighting>>

CallAnswers(visible, r) ==
  /\ ~SkipsCall(visible)
  /\ skips' = IF visible THEN 0 ELSE skips
  /\ Remember(r)
  /\ button_seat' = PositionFromButton(SeatFor(r), HoleAfter(r))
  /\ hole_key' = IF SeatFor(r) = NoSeat THEN hole_key ELSE HoleAfter(r)
  /\ cached' = [hole |-> HoleAfter(r), board |-> BoardAfter(r),
                seat |-> SeatFor(r), position |-> button_seat']
  /\ reading' = r
  /\ sighting' = IF HoleAfter(r) = sighting.hole THEN sighting
                 ELSE [hole |-> HoleAfter(r), seat |-> r.seat]
  /\ UNCHANGED <<table, inherited>>

----------------------------------------------------------------------------
(* The table *)

NextStreet ==
  /\ \E n \in Streets : n > street /\ street' = n /\ \A m \in Streets : m > street => n <= m
  /\ reading' = NoAnswer
  /\ UNCHANGED <<deal, cached, skips, memory, place, history, sighting>>

NextDeal ==
  /\ deal < Len(Deals)
  /\ deal' = deal + 1
  /\ street' = 0
  /\ reading' = NoAnswer
  /\ deal_votes' = NoVotes
  /\ deal_board_votes' = <<>>
  /\ inherited' = ranks
  /\ UNCHANGED <<cached, skips, memory, place, reads, sighting>>

----------------------------------------------------------------------------
Init ==
  /\ deal = 1 /\ street = 0
  /\ cached = NoAnswer
  /\ skips = 0
  /\ ranks = {} /\ hand_votes = NoVotes /\ board_votes = <<>>
  /\ hole_key = {} /\ button_seat = NoSeat
  /\ reading = NoAnswer
  /\ reads = 0 /\ deal_votes = NoVotes /\ deal_board_votes = <<>>
  /\ inherited = {}
  /\ sighting = [hole |-> {}, seat |-> NoSeat]

\* Bound: MaxReads readings vote for one pair of ranks.
Bounded(r) == Votes(r) /\ ~IsNewHand(r.hole) => reads < MaxReads

Next ==
  \/ Skip
  \/ \E visible \in BOOLEAN : CallFails(visible)
  \/ \E visible \in BOOLEAN, r \in Readings : Bounded(r) /\ CallAnswers(visible, r)
  \/ NextStreet
  \/ NextDeal

Spec == Init /\ [][Next]_vars

----------------------------------------------------------------------------
(* Properties *)

\* The votes that decide the suits of the hole all name pairs of the same ranks
\* (_frozen_ranks): a pair of another hand never wins them, and never changes
\* the ranks that were read (the reset in _apply_hand_suit_memory).
VotesAreOfOneHand ==
  /\ \A pair \in Keys(hand_votes) : RanksOf(pair) = ranks
  /\ reading # NoAnswer => RanksOf(cached.hole) = RanksOf(reading.hole)

\* True cards lead the votes cast since the hand was dealt, with two or more.
Settled(votes, truth) ==
  /\ VotesFor(votes, truth) >= 2
  /\ \A k \in Keys(votes) : k # truth => VotesFor(votes, k) < VotesFor(votes, truth)

\* No card of the board was dropped or moved.
InPlace(board) ==
  /\ DOMAIN board = 1..street
  /\ \A i \in 1..street : board[i] \in {RankOf(Board[i])} \X (Suits \cup {Unreadable})

\* The docstring's purpose of the suit memory: once the true suits of the hole
\* and of every card of the board lead the readings of this hand, single
\* misreadings no longer reach the answer.  The votes are counted apart from the
\* memory, from the deal on, so the reset between hands is part of the claim;
\* `inherited` leaves out a hand that follows votes for the very same ranks.
MajorityIsReported ==
  ( /\ reading # NoAnswer /\ Votes(reading) /\ InPlace(reading.board)
    /\ inherited # RanksOf(Hole)
    /\ Settled(deal_votes, Hole)
    /\ \A i \in 1..street :
         Settled(SlotVotes(deal_board_votes, Slot(Board, i)), SuitOf(Board[i])) )
  => cached.hole = Hole /\ cached.board = Board

\* "Position is kept stable within the same hand (same hole cards)": while the
\* answers show one hole, the position is the one of the button's seat read
\* with the first of them, whatever seats are read after it, through frames
\* skipped and calls that fail.
PositionOfFirstSighting ==
  reading # NoAnswer /\ sighting.seat # NoSeat => cached.position = sighting.seat
=============================================================================
