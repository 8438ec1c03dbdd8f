-------------------------- MODULE ExtractorProofs --------------------------
(***************************************************************************)
(* The memories of the two extractors that ask a remote model.             *)
(*                                                                         *)
(* The properties of VisionReader hold for every list of deals, whatever   *)
(* is misread and however many readings vote.  The memory's votes are of   *)
(* one pair of ranks (Memory); they are exactly the votes cast since the   *)
(* deal, or none was cast yet (ThisDeal), unless the hand follows votes    *)
(* for the very same ranks; and the key that the position hangs on is the  *)
(* hole answered last (Place).                                             *)
(*                                                                         *)
(* The answers to HybridExtractor are spaced, and a seat past its time to  *)
(* live has an excuse, for every set of seats, time to live and run of     *)
(* answers.  An answer is recorded with the time of its frame in asked,    *)
(* and a question is only put when asked is more than the time to live in  *)
(* the past: so asked is at least the last answer's time, and one frame    *)
(* never records two answers, because the first moves asked to now.        *)
(***************************************************************************)
EXTENDS VisionReader, HybridExtractor, FoldProofs, FiniteSetTheorems, SequenceTheorems, TLAPS

----------------------------------------------------------------------------
(* A dict of votes: what a vote changes, and that the leader of a tally has the *)
(* most votes.                                                                  *)

\* No votes are a tally.
LEMMA NoVotesTally == IsTally(NoVotes)
  <1>1. NoVotes \in Seq([key : {}, n : Nat])
    BY DEF NoVotes
  <1> QED BY <1>1 DEF IsTally, NoVotes

\* The entries of a tally and their places.
LEMMA TallyShape ==
  ASSUME NEW votes, IsTally(votes)
  PROVE  /\ Len(votes) \in Nat /\ DOMAIN votes = 1..Len(votes)
         /\ \A i \in DOMAIN votes : /\ votes[i].n \in Nat
                                    /\ votes[i] = [key |-> votes[i].key, n |-> votes[i].n]
  <1>1. PICK K : votes \in Seq([key : K, n : Nat])
    BY DEF IsTally
  <1> DEFINE E == [key : K, n : Nat]
  <1>2. \A e \in E : e.n \in Nat /\ e = [key |-> e.key, n |-> e.n]
    OBVIOUS
  <1>3. /\ Len(votes) \in Nat /\ DOMAIN votes = 1..Len(votes)
        /\ \A i \in 1..Len(votes) : votes[i] \in E
    <2> HIDE DEF E
    <2>1. votes \in Seq(E)
      BY <1>1 DEF E
    <2> QED BY <2>1, LenProperties
  <1> QED BY <1>2, <1>3

\* Casting a vote keeps a tally one, adds at most the key voted for, and raises
\* no count by more than one.
LEMMA CastTally ==
  ASSUME NEW votes, IsTally(votes), NEW key, NEW N \in Nat,
         \A i \in DOMAIN votes : votes[i].n <= N
  PROVE  /\ IsTally(Cast(votes, key))
         /\ Keys(Cast(votes, key)) = Keys(votes) \cup {key}
         /\ \A i \in DOMAIN Cast(votes, key) : Cast(votes, key)[i].n <= N + 1
  <1>1. PICK K : votes \in Seq([key : K, n : Nat])
    BY DEF IsTally
  <1> DEFINE L == K \cup {key}
             Entries == [key : L, n : Nat]
  <1>2. votes \in Seq(Entries)
    <2>1. [key : K, n : Nat] \subseteq Entries
      OBVIOUS
    <2> QED BY <1>1, <2>1, SeqMonotonic
  <1>3. /\ Len(votes) \in Nat /\ DOMAIN votes = 1..Len(votes)
        /\ \A i \in DOMAIN votes : votes[i].n \in Nat
    BY TallyShape
  <1>k. \A i \in DOMAIN votes : votes[i].key \in L /\ votes[i] = [key |-> votes[i].key, n |-> votes[i].n]
    <2>1. \A e \in Entries : e.key \in L
      OBVIOUS
    <2>2. \A i \in 1..Len(votes) : votes[i] \in Entries
      <3> HIDE DEF Entries
      <3> QED BY <1>2, LenProperties
    <2> QED BY <1>3, <2>1, <2>2, TallyShape
  <1>4. CASE key \in Keys(votes)
    <2> DEFINE c == [i \in DOMAIN votes |->
                       IF votes[i].key = key THEN [votes[i] EXCEPT !.n = @ + 1] ELSE votes[i]]
    <2>1. Cast(votes, key) = c
      BY <1>4 DEF Cast
    <2>2. \A i \in DOMAIN votes :
            /\ c[i].key = votes[i].key /\ c[i].n \in {votes[i].n, votes[i].n + 1}
            /\ c[i] = [key |-> c[i].key, n |-> c[i].n]
      <3> TAKE i \in DOMAIN votes
      <3>1. votes[i] = [key |-> votes[i].key, n |-> votes[i].n]
        BY <1>k
      <3>2. CASE votes[i].key = key
        <4>1. c[i] = [votes[i] EXCEPT !.n = votes[i].n + 1]
          BY <3>2
        <4>2. c[i] = [key |-> votes[i].key, n |-> votes[i].n + 1]
          BY <3>1, <4>1
        <4> QED BY <4>2
      <3>3. CASE votes[i].key # key
        BY <3>1, <3>3
      <3> QED BY <3>2, <3>3
    <2>6. DOMAIN c = DOMAIN votes
      OBVIOUS
    <2>5. \A i \in DOMAIN votes : c[i].n <= N + 1
      BY <1>3, <2>2
    <2>9. \A i \in DOMAIN votes : c[i] \in Entries
      <3> TAKE i \in DOMAIN votes
      <3>1. c[i].key \in L /\ c[i].n \in Nat
        <4>1. votes[i].key \in L /\ votes[i].n \in Nat /\ votes[i].n + 1 \in Nat
          BY <1>3, <1>k
        <4>2. c[i].key = votes[i].key /\ c[i].n \in {votes[i].n, votes[i].n + 1}
          BY <2>2
        <4> HIDE DEF c, L
        <4> QED BY <4>1, <4>2
      <3>2. c[i] = [key |-> c[i].key, n |-> c[i].n]
        BY <2>2
      <3> HIDE DEF c, L
      <3> QED BY <3>1, <3>2
    <2>3. c \in Seq(Entries)
      <3> HIDE DEF c, Entries
      <3>1. c \in [1..Len(votes) -> Entries]
        <4>1. c = [i \in DOMAIN votes |-> c[i]]
          BY DEF c
        <4> QED BY <4>1, <1>3, <2>9
      <3> QED BY <1>3, <3>1, SeqDef
    <2>4. \A i \in DOMAIN votes : c[i].key = votes[i].key
      BY <2>2
    <2>7. IsTally(c)
      <3> HIDE DEF c
      <3>1. \A i, j \in DOMAIN c : c[i].key = c[j].key => i = j
        BY <2>4, <2>6 DEF IsTally
      <3> QED BY <2>3, <3>1 DEF IsTally
    <2>8. Keys(c) = Keys(votes)
      BY <2>4, <2>6 DEF Keys
    <2> HIDE DEF c
    <2> QED BY <1>4, <2>1, <2>5, <2>6, <2>7, <2>8
  <1>5. CASE key \notin Keys(votes)
    <2> DEFINE e == [key |-> key, n |-> 1]
               c == Append(votes, e)
    <2>1. Cast(votes, key) = c
      BY <1>5 DEF Cast
    <2>2. e \in Entries
      OBVIOUS
    <2>3. c \in Seq(Entries)
      <3> HIDE DEF Entries, e
      <3> QED BY <1>2, <2>2
    <2>4. DOMAIN c = DOMAIN votes \cup {Len(votes) + 1} /\ Len(votes) + 1 \notin DOMAIN votes
      BY <1>2
    <2>5. c[Len(votes) + 1] = e /\ \A i \in DOMAIN votes : c[i] = votes[i]
      BY <1>2
    <2> HIDE DEF c
    <2>6. \A i \in DOMAIN votes : votes[i].key # key
      BY <1>5 DEF Keys
    <2>7. \A i, j \in DOMAIN c : c[i].key = c[j].key => i = j
      BY <2>4, <2>5, <2>6 DEF IsTally
    <2>8. IsTally(c)
      BY <2>3, <2>7 DEF IsTally
    <2>9. Keys(c) = Keys(votes) \cup {key}
      BY <2>4, <2>5 DEF Keys
    <2>10. \A i \in DOMAIN c : c[i].n <= N + 1
      BY <1>3, <2>4, <2>5
    <2> QED BY <2>1, <2>8, <2>9, <2>10
  <1> QED BY <1>4, <1>5

\* The key that max answers was voted for, and no key has more votes.
THEOREM LeaderLeads ==
  ASSUME NEW votes, IsTally(votes), votes # NoVotes, NEW N \in Nat,
         \A i \in DOMAIN votes : votes[i].n <= N
  PROVE  /\ Leader(votes) \in Keys(votes)
         /\ \A k \in Keys(votes) : VotesFor(votes, k) <= VotesFor(votes, Leader(votes))
  <1>1. /\ \A i \in DOMAIN votes : votes[i].n \in Nat
        /\ DOMAIN votes \in SUBSET Nat /\ DOMAIN votes # {}
    <2>1. Len(votes) \in Nat /\ DOMAIN votes = 1..Len(votes)
      BY TallyShape
    <2>2. Len(votes) # 0
      BY EmptySeq DEF IsTally, NoVotes
    <2> QED BY <2>1, <2>2, TallyShape
  <1> DEFINE short == {N - votes[i].n : i \in DOMAIN votes}
  <1>2. short \in SUBSET Nat /\ short # {}
    BY <1>1
  <1>3. PICK d \in short : \A e \in short : d <= e
    BY <1>2, LeastNatural
  <1>4. PICK m \in DOMAIN votes : d = N - votes[m].n
    BY <1>3
  <1>5. \A i \in DOMAIN votes : votes[i].n <= votes[m].n
    BY SMTT(20), <1>1, <1>3, <1>4
  <1> DEFINE tops == {i \in DOMAIN votes : votes[i].n = votes[m].n}
  <1>6. PICK t \in tops : \A u \in tops : t <= u
    BY <1>1, <1>4, LeastNatural
  <1>7. \A j \in DOMAIN votes :
          /\ votes[j].n <= votes[t].n
          /\ j < t => votes[j].n < votes[t].n
    BY <1>1, <1>5, <1>6
  <1> DEFINE First(i) == \A j \in DOMAIN votes :
                           /\ votes[j].n <= votes[i].n
                           /\ j < i => votes[j].n < votes[i].n
             f == CHOOSE i \in DOMAIN votes : First(i)
  <1>8. f \in DOMAIN votes /\ First(f)
    BY <1>6, <1>7
  <1>9. Leader(votes) = votes[f].key
    BY Zenon DEF Leader
  <1> HIDE DEF f
  <1>10. \A i \in DOMAIN votes : VotesFor(votes, votes[i].key) = votes[i].n
    BY DEF VotesFor, Keys, IsTally
  <1>11. Leader(votes) \in Keys(votes)
    BY <1>8, <1>9 DEF Keys
  <1>12. ASSUME NEW k \in Keys(votes)
         PROVE  VotesFor(votes, k) <= VotesFor(votes, Leader(votes))
    <2>1. PICK i \in DOMAIN votes : k = votes[i].key
      BY DEF Keys
    <2>2. votes[i].n <= votes[f].n
      BY <1>8
    <2> QED BY <1>8, <1>9, <1>10, <2>1, <2>2
  <1> QED BY <1>11, <1>12

\* A key with more votes than any other is the leader.
LEMMA StrictLeader ==
  ASSUME NEW votes, IsTally(votes), NEW N \in Nat,
         \A i \in DOMAIN votes : votes[i].n <= N,
         NEW key, VotesFor(votes, key) >= 2,
         \A k \in Keys(votes) : k # key => VotesFor(votes, k) < VotesFor(votes, key)
  PROVE  Leader(votes) = key
  <1>1. key \in Keys(votes)
    BY DEF VotesFor
  <1>2. votes # NoVotes
    BY <1>1 DEF Keys, NoVotes
  <1>3. \A k \in Keys(votes) : VotesFor(votes, k) \in Nat
    BY TallyShape DEF Keys, VotesFor, IsTally
  <1> QED BY <1>1, <1>2, <1>3, LeaderLeads

----------------------------------------------------------------------------
(* The invariant. *)

Counted(votes, n) == IsTally(votes) /\ \A i \in DOMAIN votes : votes[i].n <= n

BoardCounted(votes, n) == \A slot \in DOMAIN votes : Counted(votes[slot], n)

\* The table stands on a deal and a street.
Table == deal \in DOMAIN Deals /\ street \in Streets

\* The votes are tallies, none larger than the readings that cast them, all for
\* pairs of the ranks in memory.
Memory ==
  /\ reads \in Nat
  /\ Counted(hand_votes, reads)
  /\ BoardCounted(board_votes, reads)
  /\ \A pair \in Keys(hand_votes) : RanksOf(pair) = ranks
  /\ ranks = {} => hand_votes = NoVotes /\ board_votes = <<>>

\* The votes in memory are the ones of this deal, or still of an earlier one.
ThisDeal ==
  inherited # RanksOf(Hole) =>
    \/ /\ deal_votes = NoVotes /\ deal_board_votes = <<>>
       /\ ranks = inherited
    \/ /\ deal_votes = hand_votes /\ deal_board_votes = board_votes
       /\ ranks = RanksOf(Hole)

\* Once a seat is known the key is the hole answered last, and the seat read
\* with its first answer stands.
Place ==
  /\ button_seat # NoSeat => hole_key = sighting.hole
  /\ sighting.seat # NoSeat => button_seat = sighting.seat
  /\ reading # NoAnswer => cached.position = button_seat

----------------------------------------------------------------------------
(* What a reading that votes leaves behind. *)

\* A vote for each card keeps the votes of the board tallies.
LEMMA CastBoardCounted ==
  ASSUME NEW votes, NEW n \in Nat, BoardCounted(votes, n), NEW board
  PROVE  BoardCounted(CastBoard(votes, board), n + 1)
  <1> DEFINE C == CastBoard(votes, board)
             Voted(slot) == \E i \in DOMAIN board : Slot(board, i) = slot
  <1>1. ASSUME NEW slot \in DOMAIN C
        PROVE  Counted(C[slot], n + 1)
    <2>1. C[slot] = IF Voted(slot) THEN Cast(SlotVotes(votes, slot), SuitOf(board[slot[1]]))
                                   ELSE votes[slot]
      BY DEF CastBoard
    <2>2. ~Voted(slot) => slot \in DOMAIN votes
      BY DEF CastBoard
    <2>3. CASE Voted(slot)
      <3>1. Counted(SlotVotes(votes, slot), n)
        <4>1. CASE slot \in DOMAIN votes
          BY <4>1 DEF SlotVotes, BoardCounted
        <4>2. CASE slot \notin DOMAIN votes
          BY <4>2, NoVotesTally DEF SlotVotes, Counted, NoVotes
        <4> QED BY <4>1, <4>2
      <3> QED BY <2>1, <2>3, <3>1, CastTally DEF Counted
    <2>4. CASE ~Voted(slot)
      <3>1. Counted(votes[slot], n)
        BY <2>2, <2>4 DEF BoardCounted
      <3>2. \A i \in DOMAIN votes[slot] : votes[slot][i].n \in Nat
        BY <3>1, TallyShape DEF Counted
      <3> QED BY <2>1, <2>4, <3>1, <3>2 DEF Counted
    <2> QED BY <2>3, <2>4
  <1> QED BY <1>1 DEF BoardCounted

\* No votes for the board are counted.
LEMMA NoBoardVotes == \A n \in Nat : BoardCounted(<<>>, n)
  BY DEF BoardCounted

\* A hole that votes has ranks.
LEMMA VotingHole ==
  ASSUME NEW r, Votes(r)
  PROVE  RanksOf(r.hole) # {}
  <1>1. r.hole # {}
    BY FS_EmptySet DEF Votes
  <1> QED BY <1>1 DEF RanksOf

\* The ranks of a voting reading are the table's: only suits are misread.
LEMMA RanksAreRead ==
  ASSUME NEW r \in Readings, Votes(r)
  PROVE  RanksOf(r.hole) = RanksOf(Hole)
  <1>1. r.hole \in HoleReadings /\ r.hole # {}
    BY FS_EmptySet DEF Readings, Votes
  <1>2. CASE r.hole = Hole
    BY <1>2
  <1>3. CASE r.hole # Hole
    <2>1. PICK c \in Hole : \E m \in Misreadings(c) : r.hole = (Hole \ {c}) \cup {m}
      BY <1>1, <1>3 DEF HoleReadings
    <2>k. PICK m \in Misreadings(c) : r.hole = (Hole \ {c}) \cup {m}
      BY <2>1
    <2>2. RankOf(m) = RankOf(c)
      BY DEF Misreadings, RankOf
    <2> QED BY <2>k, <2>2 DEF RanksOf
  <1> QED BY <1>2, <1>3

\* The number of readings that vote, this one included.
Cast1(r) == IF IsNewHand(r.hole) THEN 1 ELSE reads + 1

\* The votes after a reading are counted and of its ranks.
LEMMA VotesAfter ==
  ASSUME Memory, NEW r, Votes(r)
  PROVE  /\ Cast1(r) \in Nat
         /\ Counted(HandVotesAfter(r), Cast1(r))
         /\ r.hole \in Keys(HandVotesAfter(r))
         /\ \A pair \in Keys(HandVotesAfter(r)) : RanksOf(pair) = RanksOf(r.hole)
         /\ BoardCounted(BoardVotesAfter(r), Cast1(r))
  <1>1. Cast1(r) \in Nat
    BY DEF Cast1, Memory
  <1>2. CASE IsNewHand(r.hole)
    <2>k. DOMAIN NoVotes = {}
      BY DEF NoVotes
    <2>1. Counted(NoVotes, 0) /\ Keys(NoVotes) = {}
      BY <2>k, NoVotesTally DEF Counted, Keys
    <2>2. /\ Counted(Cast(NoVotes, r.hole), 0 + 1)
          /\ Keys(Cast(NoVotes, r.hole)) = {r.hole}
      <3>1. IsTally(NoVotes) /\ 0 \in Nat /\ \A i \in DOMAIN NoVotes : NoVotes[i].n <= 0
        BY <2>1 DEF Counted
      <3>2. /\ IsTally(Cast(NoVotes, r.hole))
            /\ Keys(Cast(NoVotes, r.hole)) = Keys(NoVotes) \cup {r.hole}
            /\ \A i \in DOMAIN Cast(NoVotes, r.hole) : Cast(NoVotes, r.hole)[i].n <= 0 + 1
        BY <3>1, CastTally, Zenon
      <3> QED BY <2>1, <3>2 DEF Counted
    <2>3. BoardCounted(CastBoard(<<>>, r.board), 0 + 1)
      BY NoBoardVotes, CastBoardCounted
    <2> QED BY <1>1, <1>2, <2>2, <2>3 DEF Cast1, HandVotesAfter, BoardVotesAfter
  <1>3. CASE ~IsNewHand(r.hole)
    <2>1. /\ Counted(Cast(hand_votes, r.hole), reads + 1)
          /\ Keys(Cast(hand_votes, r.hole)) = Keys(hand_votes) \cup {r.hole}
      BY CastTally DEF Memory, Counted
    <2>2. BoardCounted(CastBoard(board_votes, r.board), reads + 1)
      BY CastBoardCounted DEF Memory
    <2>3. \A pair \in Keys(hand_votes) : RanksOf(pair) = RanksOf(r.hole)
      <3>1. CASE ranks = {}
        BY <3>1 DEF Memory, Keys, NoVotes
      <3>2. CASE ranks # {}
        BY <1>3, <3>2 DEF Memory, IsNewHand
      <3> QED BY <3>1, <3>2
    <2> QED BY <1>1, <1>3, <2>1, <2>2, <2>3 DEF Cast1, HandVotesAfter, BoardVotesAfter
  <1> QED BY <1>2, <1>3

\* The suit memory does not change the ranks that were read.
LEMMA RanksAreKept ==
  ASSUME Memory, NEW r
  PROVE  RanksOf(HoleAfter(r)) = RanksOf(r.hole)
  <1>1. CASE ~Merges(r)
    BY <1>1 DEF HoleAfter
  <1>2. CASE Merges(r)
    <2> DEFINE votes == HandVotesAfter(r)
               pair == Leader(votes)
    <2>1. Votes(r)
      BY <1>2 DEF Merges
    <2>2. Counted(votes, Cast1(r)) /\ Cast1(r) \in Nat /\ r.hole \in Keys(votes)
      BY <2>1, VotesAfter
    <2>3. votes # NoVotes
      BY <2>2 DEF Keys, NoVotes
    <2>4. pair \in Keys(votes)
      BY <2>2, <2>3, LeaderLeads DEF Counted
    <2>5. RanksOf(pair) = RanksOf(r.hole)
      BY <2>1, <2>4, VotesAfter
    <2>6. Recoloured(r.hole, pair) = pair
      BY <2>5 DEF Recoloured, RanksOf
    <2>7. MergedHole(votes, r.hole) \in {pair, r.hole}
      BY <2>6 DEF MergedHole
    <2> QED BY <1>2, <2>5, <2>7 DEF HoleAfter
  <1> QED BY <1>1, <1>2

----------------------------------------------------------------------------
(* The majority of the deal decides. *)

\* The cards of the table are distinct, each with a rank and a suit.
LEMMA Truth ==
  ASSUME Table
  PROVE  /\ Distinct(Hole, Board)
         /\ DOMAIN Board = 1..street
         /\ \A i \in 1..street : Board[i] = <<RankOf(Board[i]), SuitOf(Board[i])>>
         /\ Board = [i \in 1..street |-> Board[i]]
  <1> DEFINE full == Deals[deal].board
             Cards == Ranks \X Suits
  <1>1. full \in Seq(Cards) /\ street \in Nat /\ street <= Len(full)
    <2> DEFINE Pairs == [hole : SUBSET Cards, board : Seq(Cards)]
    <2>1. \A d \in Pairs : d.board \in Seq(Cards)
      OBVIOUS
    <2>2. Deals \in Seq(Pairs)
      BY DealsAssumption
    <2>3. Deals[deal] \in Pairs
      <3> HIDE DEF Pairs
      <3> QED BY <2>2 DEF Table
    <2> QED BY <2>1, <2>3, DealsAssumption DEF Table
  <1>2. Distinct(Hole, full)
    BY DealsAssumption DEF Table, Hole
  <1> HIDE DEF Cards, full
  <1>3. Len(full) \in Nat /\ DOMAIN full = 1..Len(full) /\ \A i \in 1..Len(full) : full[i] \in Cards
    BY <1>1, LenProperties
  <1>4. /\ Board \in Seq(Cards)
        /\ Len(Board) = street
        /\ \A i \in 1..street : Board[i] = full[i]
    <2>1. Board = SubSeq(full, 1, street)
      BY DEF Board, full
    <2>2. \A i \in 1..street : full[i] \in Cards
      BY <1>1, <1>3
    <2>3. /\ SubSeq(full, 1, street) \in Seq(Cards)
          /\ Len(SubSeq(full, 1, street)) = IF 1 <= street THEN street - 1 + 1 ELSE 0
          /\ \A i \in 1..(street - 1 + 1) : SubSeq(full, 1, street)[i] = full[1 + i - 1]
      BY <1>1, <2>2, SubSeqProperties
    <2> QED BY <1>1, <2>1, <2>3
  <1>5. DOMAIN Board = 1..street /\ Board = [i \in 1..street |-> Board[i]]
    BY <1>4, LenProperties
  <1>6. IsInjective(Board) /\ Range(Board) \subseteq Range(full)
    BY <1>1, <1>2, <1>3, <1>4, <1>5 DEF Distinct, IsInjective, Range
  <1>7. Distinct(Hole, Board)
    BY <1>2, <1>6 DEF Distinct
  <1>8. \A i \in 1..street : Board[i] = <<RankOf(Board[i]), SuitOf(Board[i])>>
    BY <1>1, <1>3, <1>4 DEF Cards, RankOf, SuitOf
  <1> QED BY <1>5, <1>7, <1>8

\* With other ranks before it, the votes of a deal are the ones in memory.
LEMMA SameVotes ==
  ASSUME Memory, ThisDeal, NEW r \in Readings, Votes(r), inherited # RanksOf(Hole)
  PROVE  /\ HandVotesAfter(r) = Cast(deal_votes, r.hole)
         /\ BoardVotesAfter(r) = CastBoard(deal_board_votes, r.board)
  <1>1. RanksOf(r.hole) = RanksOf(Hole)
    BY RanksAreRead
  <1>2. CASE deal_votes = NoVotes /\ deal_board_votes = <<>> /\ ranks = inherited
    <2>1. CASE ranks = {}
      BY <1>2, <2>1 DEF Memory, IsNewHand, HandVotesAfter, BoardVotesAfter
    <2>2. CASE ranks # {}
      BY <1>1, <1>2, <2>2 DEF IsNewHand, HandVotesAfter, BoardVotesAfter
    <2> QED BY <2>1, <2>2
  <1>3. CASE deal_votes = hand_votes /\ deal_board_votes = board_votes /\ ranks = RanksOf(Hole)
    BY <1>1, <1>3 DEF IsNewHand, HandVotesAfter, BoardVotesAfter
  <1> QED BY <1>2, <1>3 DEF ThisDeal

\* A leading pair replaces a misread one of the same ranks.
LEMMA HoleSettles ==
  ASSUME NEW votes, NEW n \in Nat, Counted(votes, n), NEW hole, NEW truth,
         Settled(votes, truth), RanksOf(hole) = RanksOf(truth)
  PROVE  MergedHole(votes, hole) = truth
  <1>1. Leader(votes) = truth
    BY StrictLeader DEF Counted, Settled
  <1>2. Recoloured(hole, truth) = truth
    BY DEF Recoloured, RanksOf
  <1> QED BY <1>1, <1>2 DEF MergedHole, Wins, Settled

\* When the true suits lead, the answer is the table's cards.
LEMMA CardsSettle ==
  ASSUME Table, Memory, ThisDeal, NEW r \in Readings, Votes(r), InPlace(r.board),
         inherited # RanksOf(Hole),
         Settled(Cast(deal_votes, r.hole), Hole),
         \A i \in 1..street :
           Settled(SlotVotes(CastBoard(deal_board_votes, r.board), Slot(Board, i)),
                   SuitOf(Board[i]))
  PROVE  HoleAfter(r) = Hole /\ BoardAfter(r) = Board
  <1> DEFINE hand == HandVotesAfter(r)
             slots == BoardVotesAfter(r)
  <1>1. hand = Cast(deal_votes, r.hole) /\ slots = CastBoard(deal_board_votes, r.board)
    BY SameVotes
  <1>2. Cast1(r) \in Nat /\ Counted(hand, Cast1(r)) /\ BoardCounted(slots, Cast1(r))
    BY VotesAfter
  <1>3. MergedHole(hand, r.hole) = Hole
    BY <1>1, <1>2, RanksAreRead, HoleSettles
  <1>4. ASSUME NEW i \in 1..street
        PROVE  MergedBoard(slots, r.board)[i] = Board[i]
    <2> DEFINE votes == slots[Slot(r.board, i)]
               suit == SuitOf(Board[i])
    <2>1. i \in DOMAIN r.board /\ RankOf(r.board[i]) = RankOf(Board[i])
          /\ r.board[i] = <<RankOf(Board[i]), SuitOf(r.board[i])>>
      BY DEF InPlace, RankOf, SuitOf
    <2>2. Slot(r.board, i) = Slot(Board, i) /\ Slot(r.board, i) \in DOMAIN slots
      BY <1>1, <2>1 DEF Slot, CastBoard
    <2>3. Settled(votes, suit)
      BY <1>1, <2>2 DEF SlotVotes
    <2>4. Counted(votes, Cast1(r))
      BY <1>2, <2>2 DEF BoardCounted
    <2>5. Leader(votes) = suit
      BY <1>2, <2>3, <2>4, StrictLeader DEF Counted, Settled
    <2>6. VotesFor(votes, suit) >= 2
      BY <2>3 DEF Settled
    <2>7. MergedBoard(slots, r.board)[i] =
            IF Wins(votes, SuitOf(r.board[i])) THEN <<RankOf(r.board[i]), suit>> ELSE r.board[i]
      BY <2>1, <2>5 DEF MergedBoard
    <2>8. Board[i] = <<RankOf(Board[i]), suit>>
      BY Truth
    <2>9. CASE suit = SuitOf(r.board[i])
      BY <2>1, <2>7, <2>8, <2>9
    <2>10. CASE suit # SuitOf(r.board[i])
      BY <2>1, <2>5, <2>6, <2>7, <2>8, <2>10 DEF Wins
    <2> QED BY <2>9, <2>10
  <1>5. MergedBoard(slots, r.board) = Board
    <2>1. DOMAIN MergedBoard(slots, r.board) = 1..street
      BY DEF MergedBoard, InPlace
    <2>2. MergedBoard(slots, r.board) = [i \in 1..street |-> MergedBoard(slots, r.board)[i]]
      BY <2>1 DEF MergedBoard
    <2> QED BY <1>4, <2>2, Truth
  <1>6. Merges(r)
    BY <1>3, <1>5, Truth DEF Merges
  <1> QED BY <1>3, <1>5, <1>6 DEF HoleAfter, BoardAfter

----------------------------------------------------------------------------
(* The invariant. *)

Inv ==
  /\ Table
  /\ Memory
  /\ ThisDeal
  /\ VotesAreOfOneHand
  /\ MajorityIsReported
  /\ Place

LEMMA InvInit == Init => Inv
  <1> SUFFICES ASSUME Init PROVE Inv
    OBVIOUS
  <1>1. Table
    <2>1. Len(Deals) \in Nat /\ Len(Deals) # 0 /\ DOMAIN Deals = 1..Len(Deals)
      BY DealsAssumption, EmptySeq, LenProperties
    <2> QED BY <2>1, DealsAssumption DEF Init, Table
  <1>2. Memory
    <2>1. Counted(hand_votes, 0) /\ Keys(hand_votes) = {}
      <3>1. DOMAIN NoVotes = {}
        BY DEF NoVotes
      <3> QED BY <3>1, NoVotesTally DEF Init, Counted, Keys
    <2>2. BoardCounted(board_votes, 0)
      BY NoBoardVotes DEF Init
    <2> QED BY <2>1, <2>2 DEF Init, Memory
  <1>3. ThisDeal
    BY DEF Init, ThisDeal
  <1>4. VotesAreOfOneHand
    BY <1>2 DEF Init, VotesAreOfOneHand, Memory
  <1>5. MajorityIsReported /\ Place
    BY DEF Init, MajorityIsReported, Place
  <1> QED BY <1>1, <1>2, <1>3, <1>4, <1>5 DEF Inv

\* Steps that leave the memory and its history alone.
LEMMA MemoryStays ==
  ASSUME Memory, UNCHANGED <<memory, reads>>
  PROVE  Memory'
  BY DEF memory, Memory

\* A step that forgets the reading, on the same deal.
LEMMA Forgotten ==
  ASSUME Inv, reading' = NoAnswer, Table', deal' = deal, UNCHANGED <<memory, place, history, sighting>>
  PROVE  Inv'
  <1>1. Memory'
    BY MemoryStays DEF Inv, history
  <1>2. ThisDeal'
    BY DEF Inv, ThisDeal, Hole, memory, history
  <1>3. VotesAreOfOneHand' /\ MajorityIsReported'
    BY DEF Inv, VotesAreOfOneHand, MajorityIsReported, memory
  <1>4. Place'
    BY DEF Inv, Place, place
  <1> QED BY <1>1, <1>2, <1>3, <1>4 DEF Inv

\* A step that changes at most the count of skips.
LEMMA Untouched ==
  ASSUME Inv, UNCHANGED <<table, cached, memory, place, reading, history, sighting>>
  PROVE  Inv'
  <1>1. Table' /\ Memory'
    BY MemoryStays DEF Inv, Table, table, history
  <1>2. ThisDeal'
    BY DEF Inv, ThisDeal, Hole, memory, history, table
  <1>3. VotesAreOfOneHand' /\ Place'
    BY DEF Inv, VotesAreOfOneHand, Place, memory, place
  <1>4. MajorityIsReported'
    BY DEF Inv, MajorityIsReported, InPlace, Hole, Board, table, history
  <1> QED BY <1>1, <1>2, <1>3, <1>4 DEF Inv

LEMMA DealStep == Inv /\ NextDeal => Inv'
  <1> SUFFICES ASSUME Inv, NextDeal PROVE Inv'
    OBVIOUS
  <1>1. Table'
    <2>1. Len(Deals) \in Nat /\ DOMAIN Deals = 1..Len(Deals)
      BY DealsAssumption, LenProperties
    <2> QED BY <2>1, DealsAssumption DEF Inv, Table, NextDeal
  <1>2. Memory'
    BY MemoryStays DEF Inv, NextDeal
  <1>3. ThisDeal'
    BY DEF NextDeal, ThisDeal, memory
  <1>4. VotesAreOfOneHand' /\ MajorityIsReported'
    BY DEF Inv, NextDeal, VotesAreOfOneHand, MajorityIsReported, memory
  <1>5. Place'
    BY DEF Inv, NextDeal, Place, place
  <1> QED BY <1>1, <1>2, <1>3, <1>4, <1>5 DEF Inv

\* The seat read with the first answer of a hole stands.
LEMMA PlaceStep ==
  ASSUME Inv, NEW visible, NEW r \in Readings, CallAnswers(visible, r)
  PROVE  Place'
  <1> DEFINE hole == HoleAfter(r)
             seat == SeatFor(r)
  <1> HIDE DEF hole, seat
  <1>1. /\ button_seat' = IF seat = NoSeat \/ KeepsSeat(hole) THEN button_seat ELSE seat
        /\ hole_key' = IF seat = NoSeat THEN hole_key ELSE hole
        /\ sighting' = IF hole = sighting.hole THEN sighting
                       ELSE [hole |-> hole, seat |-> r.seat]
        /\ cached'.position = button_seat'
    BY DEF CallAnswers, PositionFromButton, hole, seat
  <1>2. sighting'.hole = hole
    BY <1>1
  <1>3. seat = NoSeat => button_seat = NoSeat
    BY DEF SeatFor, seat
  <1>4. button_seat' # NoSeat => hole_key' = sighting'.hole
    BY <1>1, <1>2, <1>3
  <1>5. sighting'.seat # NoSeat => button_seat' = sighting'.seat
    <2>1. CASE hole = sighting.hole
      BY <1>1, <2>1 DEF Inv, Place, KeepsSeat
    <2>2. CASE hole # sighting.hole
      <3>1. sighting'.seat = r.seat
        BY <1>1, <2>2
      <3>2. r.seat # NoSeat => seat = r.seat
        BY DEF SeatFor, seat
      <3>3. ~KeepsSeat(hole)
        BY <2>2 DEF Inv, Place, KeepsSeat
      <3> QED BY <1>1, <3>1, <3>2, <3>3
    <2> QED BY <2>1, <2>2
  <1> QED BY <1>1, <1>4, <1>5 DEF Place

LEMMA AnswerStep ==
  ASSUME Inv, NEW visible, NEW r \in Readings, CallAnswers(visible, r)
  PROVE  Inv'
  <1>1. Table' /\ Hole' = Hole /\ Board' = Board /\ street' = street /\ inherited' = inherited
    BY DEF Inv, CallAnswers, Table, table, Hole, Board
  <1>2. reading' = r /\ cached'.hole = HoleAfter(r) /\ cached'.board = BoardAfter(r)
    BY DEF CallAnswers
  <1>3. RanksOf(HoleAfter(r)) = RanksOf(r.hole)
    BY RanksAreKept DEF Inv
  <1>4. Place'
    BY PlaceStep
  <1>5. CASE Votes(r)
    <2>1. /\ ranks' = RanksOf(r.hole) /\ reads' = Cast1(r)
          /\ hand_votes' = HandVotesAfter(r) /\ board_votes' = BoardVotesAfter(r)
          /\ deal_votes' = Cast(deal_votes, r.hole)
          /\ deal_board_votes' = CastBoard(deal_board_votes, r.board)
      BY <1>5 DEF CallAnswers, Remember, Cast1
    <2>2. Memory'
      BY <1>5, <2>1, VotesAfter, VotingHole DEF Inv, Memory
    <2>3. ThisDeal'
      BY <1>1, <1>5, <2>1, SameVotes, RanksAreRead DEF Inv, ThisDeal
    <2>4. VotesAreOfOneHand'
      BY <1>2, <1>3, <2>2 DEF VotesAreOfOneHand, Memory
    <2>5. MajorityIsReported'
      <3>1. InPlace(r.board)' = InPlace(r.board)
        BY <1>1 DEF InPlace
      <3> QED BY <1>1, <1>2, <1>5, <2>1, <3>1, CardsSettle DEF Inv, MajorityIsReported
    <2> QED BY <1>1, <1>4, <2>2, <2>3, <2>4, <2>5 DEF Inv
  <1>6. CASE ~Votes(r)
    <2>1. UNCHANGED <<memory, reads, deal_votes, deal_board_votes>>
      BY <1>6 DEF CallAnswers, Remember
    <2>2. Memory'
      BY <2>1, MemoryStays DEF Inv
    <2>3. ThisDeal'
      BY <1>1, <2>1 DEF Inv, ThisDeal, memory
    <2>4. VotesAreOfOneHand'
      BY <1>2, <1>3, <2>2 DEF VotesAreOfOneHand, Memory
    <2>5. MajorityIsReported'
      BY <1>2, <1>6 DEF MajorityIsReported, Votes
    <2> QED BY <1>1, <1>4, <2>2, <2>3, <2>4, <2>5 DEF Inv
  <1> QED BY <1>5, <1>6

LEMMA InvNext == Inv /\ [Next]_vars => Inv'
  <1> SUFFICES ASSUME Inv, [Next]_vars PROVE Inv'
    OBVIOUS
  <1>1. CASE Skip
    <2>1. Table'
      BY <1>1 DEF Inv, Skip, Table, table
    <2> QED BY <1>1, <2>1, Forgotten DEF Skip, table
  <1>2. ASSUME NEW visible \in BOOLEAN, CallFails(visible)
        PROVE  Inv'
    BY <1>2, Untouched DEF CallFails
  <1>3. ASSUME NEW visible \in BOOLEAN, NEW r \in Readings, CallAnswers(visible, r)
        PROVE  Inv'
    BY <1>3, AnswerStep
  <1>4. CASE NextStreet
    <2>1. Table'
      BY <1>4 DEF Inv, NextStreet, Table
    <2> QED BY <1>4, <2>1, Forgotten DEF NextStreet
  <1>5. CASE NextDeal
    BY <1>5, DealStep
  <1>6. CASE UNCHANGED vars
    BY <1>6, Untouched DEF vars
  <1> QED BY <1>1, <1>2, <1>3, <1>4, <1>5, <1>6 DEF Next

LEMMA InvHolds == Spec => []Inv
  BY InvInit, InvNext, PTL DEF Spec

\* The suits of the hole are decided by votes for pairs of the ranks read, in
\* every reachable state.
THEOREM VotesOfOneHand == Spec => []VotesAreOfOneHand
  <1>1. Inv => VotesAreOfOneHand
    BY DEF Inv
  <1> QED BY <1>1, InvHolds, PTL

\* Once the true suits lead the readings of a hand, misread ones do not reach
\* the answer.
THEOREM TrueMajority == Spec => []MajorityIsReported
  <1>1. Inv => MajorityIsReported
    BY DEF Inv
  <1> QED BY <1>1, InvHolds, PTL

\* The position does not move while the answers show one hole.
THEOREM PositionStands == Spec => []PositionOfFirstSighting
  <1>1. Inv => PositionOfFirstSighting
    BY DEF Inv, Place, PositionOfFirstSighting
  <1> QED BY <1>1, InvHolds, PTL

-----------------------------------------------------------------------------
(* The hybrid extractor. *)

\* No answer is later than the time of the last one.
AnsweredByThen == \A i \in DOMAIN answers : answers[i] <= asked

\* The seat in the cache was learned by the last answer or set at its time.
Clocks ==
  /\ now \in Nat /\ asked \in Nat /\ cached_at \in Nat
  /\ answers \in Seq(Nat)
  /\ asked <= now /\ cached_at <= asked

HInv == Clocks /\ AnsweredByThen /\ AnswersAreSpaced

-----------------------------------------------------------------------------
(* What a frame does to the clocks *)

\* A seat is only taken from a question that was due.
LEMMA SeatWasDue ==
  ASSUME NEW r \in LocalReadings, NEW seat \in SeatAnswers(r), seat \in Positions
  PROVE  Due(asked)
BY HybridAssumption DEF SeatAnswers

\* So is a full answer, and the seat learned in the frame counts as the last answer.
LEMMA TableWasDue ==
  ASSUME NEW r, NEW position, NEW last, NEW whole \in TableAnswers(r, position, last),
         whole.kind = "answered"
  PROVE  Due(last)
<1> SUFFICES ASSUME ~Due(last) PROVE FALSE
  OBVIOUS
<1>1. whole = Silent("unasked")
  BY DEF TableAnswers
<1> QED BY <1>1 DEF Silent

\* A frame records nothing, or one answer, now, and then the last one was long ago.
LEMMA AtMostOneAnswer ==
  ASSUME Clocks, NEW r \in LocalReadings, NEW seat \in SeatAnswers(r), NEW whole,
         Merge(r, seat, whole)
  PROVE  /\ cached_at' \in {cached_at, now}
         /\ \/ answers' = answers /\ asked' = asked /\ cached_at' = cached_at
            \/ answers' = Append(answers, now) /\ asked' = now /\ Due(asked)
<1> DEFINE last == IF seat \in Positions THEN now ELSE asked
           position == IF r.position \in Positions THEN r.position
                       ELSE IF seat \in Positions THEN seat ELSE cache
           first == IF seat \in Positions THEN <<now>> ELSE << >>
           second == IF whole.kind = "answered" THEN <<now>> ELSE << >>
<1>1. /\ whole \in TableAnswers(r, position, last)
      /\ asked' = IF whole.kind = "answered" THEN now ELSE last
      /\ cached_at' = IF seat \in Positions \/ GivesSeat(r, whole) THEN now ELSE cached_at
      /\ answers' = answers \o first \o second
  BY DEF Merge
<1>2. GivesSeat(r, whole) => whole.kind = "answered"
  BY <1>1 DEF GivesSeat, TableAnswers, Silent, RemoteReadings
<1> HIDE DEF position
<1>3. ~Due(now)
  BY HybridAssumption DEF Due, Clocks
<1>4. CASE seat \in Positions
  <2>1. Due(asked)
    BY <1>4, SeatWasDue
  <2>2. whole.kind # "answered"
    BY <1>1, <1>3, <1>4, TableWasDue
  <2>3. answers' = Append(answers, now)
    BY <1>1, <1>4, <2>2 DEF Clocks
  <2> QED BY <1>1, <1>4, <2>1, <2>2, <2>3
<1>5. CASE seat \notin Positions /\ whole.kind = "answered"
  <2>1. Due(asked)
    BY <1>1, <1>5, TableWasDue
  <2>2. answers' = Append(answers, now)
    BY SMTT(20), <1>1, <1>5 DEF Clocks
  <2> QED BY <1>1, <1>5, <2>1, <2>2
<1>6. CASE seat \notin Positions /\ whole.kind # "answered"
  <2>1. answers' = answers
    BY <1>1, <1>6 DEF Clocks
  <2> QED BY <1>1, <1>2, <1>6, <2>1
<1> QED BY <1>4, <1>5, <1>6

-----------------------------------------------------------------------------
(* The invariant *)

LEMMA AppendSpaced ==
  ASSUME HInv, answers' = Append(answers, now), asked' = now, now' = now, Due(asked),
         cached_at' \in {cached_at, now}
  PROVE  HInv'
<1> USE DEF HInv, Clocks
<1>1. Clocks'
  OBVIOUS
<1>2. /\ Len(answers') = Len(answers) + 1
      /\ DOMAIN answers' = 1..Len(answers) + 1
      /\ DOMAIN answers = 1..Len(answers)
      /\ \A i \in 1..Len(answers) : answers'[i] = answers[i]
      /\ answers'[Len(answers) + 1] = now
  OBVIOUS
<1>3. \A i \in 1..Len(answers) : answers[i] \in Nat /\ answers[i] <= asked
  BY <1>2 DEF AnsweredByThen
<1>4. AnsweredByThen'
  BY <1>2, <1>3 DEF AnsweredByThen
<1>5. AnswersAreSpaced'
  <2> SUFFICES ASSUME NEW i \in DOMAIN answers', NEW j \in DOMAIN answers', i < j
               PROVE  answers'[j] - answers'[i] > Ttl
    BY DEF AnswersAreSpaced
  <2>1. CASE j \in 1..Len(answers)
    BY <1>2, <2>1 DEF AnswersAreSpaced
  <2>2. CASE j = Len(answers) + 1
    <3>1. i \in 1..Len(answers) /\ answers[i] <= asked /\ answers'[i] = answers[i]
      BY <1>2, <1>3, <2>2
    <3>2. now - asked > Ttl /\ Ttl \in Nat
      BY HybridAssumption DEF Due
    <3> QED BY <1>2, <1>3, <2>2, <3>1, <3>2
  <2> QED BY <1>2, <2>1, <2>2
<1> QED BY <1>1, <1>4, <1>5

LEMMA HInvInit == HInit => HInv
BY HybridAssumption DEF HInit, HInv, Clocks, AnsweredByThen, AnswersAreSpaced

LEMMA HInvStep == HInv /\ [HNext]_hvars => HInv'
<1> SUFFICES ASSUME HInv, [HNext]_hvars PROVE HInv'
  OBVIOUS
<1>1. CASE Extract
  <2>1. PICK r \in LocalReadings : \E seat \in SeatAnswers(r) : \E whole : Merge(r, seat, whole)
    BY <1>1 DEF Extract
  <2>2. PICK seat \in SeatAnswers(r) : \E whole : Merge(r, seat, whole)
    BY <2>1
  <2>3. PICK whole : Merge(r, seat, whole)
    BY <2>2
  <2>4. now' = now
    BY <1>1 DEF Extract
  <2>5. /\ cached_at' \in {cached_at, now}
        /\ \/ answers' = answers /\ asked' = asked /\ cached_at' = cached_at
           \/ answers' = Append(answers, now) /\ asked' = now /\ Due(asked)
    BY <2>3, AtMostOneAnswer DEF HInv
  <2>6. CASE answers' = answers /\ asked' = asked /\ cached_at' = cached_at
    BY <2>4, <2>6 DEF HInv, Clocks, AnsweredByThen, AnswersAreSpaced
  <2>7. CASE answers' = Append(answers, now) /\ asked' = now /\ Due(asked)
    BY <2>4, <2>5, <2>7, AppendSpaced
  <2> QED BY <2>5, <2>6, <2>7
<1>2. CASE SetPosition
  <2>1. \A i \in DOMAIN answers : answers[i] \in Nat
    BY DEF HInv, Clocks
  <2> QED BY <1>2, <2>1 DEF SetPosition, HInv, Clocks, AnsweredByThen, AnswersAreSpaced
<1>3. CASE Wait
  BY <1>3 DEF Wait, HInv, Clocks, AnsweredByThen, AnswersAreSpaced
<1>4. CASE ExtractRaises
  <2> DEFINE Learnt(seat) ==
        IF seat \in Positions
        THEN asked' = now /\ cached_at' = now /\ answers' = Append(answers, now)
        ELSE UNCHANGED <<asked, cached_at, answers>>
  <2>1. now' = now
    BY <1>4 DEF ExtractRaises
  <2>2. PICK r \in LocalReadings : \E seat \in SeatAnswers(r) : Learnt(seat)
    BY <1>4 DEF ExtractRaises
  <2>3. PICK seat \in SeatAnswers(r) : Learnt(seat)
    BY <2>2
  <2>4. CASE seat \in Positions
    BY <2>1, <2>3, <2>4, SeatWasDue, AppendSpaced
  <2>5. CASE seat \notin Positions
    BY <2>1, <2>3, <2>5 DEF HInv, Clocks, AnsweredByThen, AnswersAreSpaced
  <2> QED BY <2>4, <2>5
<1>5. CASE UNCHANGED hvars
  BY <1>5 DEF hvars, HInv, Clocks, AnsweredByThen, AnswersAreSpaced
<1> QED BY <1>1, <1>2, <1>3, <1>4, <1>5 DEF HNext

LEMMA HInvHolds == HSpec => []HInv
BY HInvInit, HInvStep, PTL DEF HSpec

\* For every time to live and every pattern of failures: two answers of the remote model
\* that the extractor used are more than position_ttl apart.
THEOREM Spaced == HSpec => []AnswersAreSpaced
<1>1. HInv => AnswersAreSpaced
  BY DEF HInv
<1> QED BY <1>1, HInvHolds, PTL

-----------------------------------------------------------------------------
(* Seats past their time to live *)

\* The seat of a reading without one of its own was asked for in this frame, or the last
\* answer is still good.
LEMMA SeatIsAskedFor ==
  ASSUME NEW r \in LocalReadings, NEW seat \in SeatAnswers(r), r.position \notin Positions
  PROVE  IF Due(asked) THEN seat \in Positions \union {"failed"} ELSE seat \notin Positions
BY HybridAssumption DEF SeatAnswers, SeatMissing

LEMMA FrameExcused ==
  ASSUME Clocks, NEW r \in LocalReadings, NEW seat \in SeatAnswers(r), NEW whole,
         Merge(r, seat, whole), now' = now
  PROVE  OldSeatsHaveAnExcuse'
<1>1. out'.at = now /\ out'.local = r.position /\ out'.seat = seat
  BY DEF Merge
<1>2. cached_at' = IF seat \in Positions \/ GivesSeat(r, whole) THEN now ELSE cached_at
  BY DEF Merge
<1>3. /\ cached_at' \in {cached_at, now}
      /\ \/ answers' = answers /\ asked' = asked /\ cached_at' = cached_at
         \/ answers' = Append(answers, now) /\ asked' = now /\ Due(asked)
  BY AtMostOneAnswer
<1> SUFFICES ASSUME r.position \notin Positions, now - cached_at' > Ttl
             PROVE  seat = "failed" \/ (asked' > cached_at' /\ now - asked' <= Ttl)
  BY <1>1 DEF OldSeatsHaveAnExcuse
<1>4. now \in Nat /\ asked \in Nat /\ cached_at \in Nat /\ Ttl \in Nat
  BY HybridAssumption DEF Clocks
<1>5. cached_at' = cached_at
  <2>1. cached_at' \in {cached_at, now}
    BY <1>3
  <2>2. CASE cached_at' = now
    BY <1>4, <2>2
  <2> QED BY <2>1, <2>2
<1>6. seat \notin Positions
  BY <1>2, <1>4
<1>7. CASE Due(asked)
  BY <1>6, <1>7, SeatIsAskedFor
<1>8. CASE ~Due(asked)
  BY <1>3, <1>4, <1>5, <1>8 DEF Due
<1> QED BY <1>7, <1>8

\* A seat that is reported past its time to live was asked for in that very frame without
\* success, or a later answer that taught no seat has put the question off.
THEOREM Excused == HSpec => []OldSeatsHaveAnExcuse
<1>1. HInit => OldSeatsHaveAnExcuse
  BY DEF HInit, OldSeatsHaveAnExcuse
<1>2. HInv /\ OldSeatsHaveAnExcuse /\ [HNext]_hvars => OldSeatsHaveAnExcuse'
  <2> SUFFICES ASSUME HInv, OldSeatsHaveAnExcuse, [HNext]_hvars PROVE OldSeatsHaveAnExcuse'
    OBVIOUS
  <2>1. CASE Extract
    <3>1. PICK r \in LocalReadings :
            \E seat \in SeatAnswers(r) : \E whole : Merge(r, seat, whole)
      BY <2>1 DEF Extract
    <3>2. PICK seat \in SeatAnswers(r) : \E whole : Merge(r, seat, whole)
      BY <3>1
    <3>3. PICK whole : Merge(r, seat, whole)
      BY <3>2
    <3>4. now' = now
      BY <2>1 DEF Extract
    <3> QED BY <3>3, <3>4, FrameExcused DEF HInv
  <2>2. CASE SetPosition \/ ExtractRaises
    BY <2>2 DEF SetPosition, ExtractRaises, OldSeatsHaveAnExcuse
  <2>3. CASE Wait
    BY <2>3 DEF Wait, OldSeatsHaveAnExcuse
  <2>4. CASE UNCHANGED hvars
    BY <2>4 DEF hvars, OldSeatsHaveAnExcuse
  <2> QED BY <2>1, <2>2, <2>3, <2>4 DEF HNext
<1> QED BY <1>1, <1>2, HInvHolds, PTL DEF HSpec

-----------------------------------------------------------------------------
(* The seat does not flap *)

\* The seat that is reported without one of its own is the seat in the cache.
ReportsCache == (out # << >> /\ ~out.button /\ out.local \notin Positions) => out.position = cache

LEMMA FrameReports ==
  ASSUME NEW r \in LocalReadings, NEW seat \in SeatAnswers(r), NEW whole,
         Merge(r, seat, whole)
  PROVE  /\ ReportsCache'
         /\ (~r.button /\ r.position \notin Positions /\ ~out'.answered) => cache' = cache
<1> DEFINE learned == IF seat \in Positions THEN seat ELSE cache
           last == IF seat \in Positions THEN now ELSE asked
           position == IF r.position \in Positions THEN r.position ELSE learned
<1>1. /\ whole \in TableAnswers(r, position, last)
      /\ cache' = Learn(r, whole, learned)
      /\ out'.button = r.button /\ out'.local = r.position
      /\ out'.position = (IF GivesSeat(r, whole) THEN whole.position ELSE position)
      /\ out'.answered = (seat \in Positions \/ whole.kind = "answered")
  BY DEF Merge
<1>2. GivesSeat(r, whole) => whole.kind = "answered"
  BY <1>1 DEF GivesSeat, TableAnswers, Silent, RemoteReadings
<1>3. ReportsCache'
  BY <1>1 DEF ReportsCache, Learn
<1>4. ASSUME ~out'.answered PROVE cache' = cache
  BY <1>1, <1>2, <1>4 DEF Learn
<1> QED BY <1>3, <1>4

\* For all seats and every run of frames, failures and seats set by hand: between two
\* frames without a seat of their own the seat only changes with an answer.
THEOREM Steady == HSpec => SeatDoesNotFlap
<1>1. HInit => ReportsCache
  BY DEF HInit, ReportsCache
<1> DEFINE Flapless == (/\ out # << >> /\ out' # << >>
                        /\ ~out.button /\ ~out'.button
                        /\ out.local \notin Positions /\ out'.local \notin Positions
                        /\ ~out'.answered) => out'.position = out.position
<1>2. ReportsCache /\ [HNext]_hvars => ReportsCache' /\ [Flapless]_out
  <2> SUFFICES ASSUME ReportsCache, [HNext]_hvars PROVE ReportsCache' /\ [Flapless]_out
    OBVIOUS
  <2>1. CASE Extract
    <3>1. PICK r \in LocalReadings :
            \E seat \in SeatAnswers(r) : \E whole : Merge(r, seat, whole)
      BY <2>1 DEF Extract
    <3>2. PICK seat \in SeatAnswers(r) : \E whole : Merge(r, seat, whole)
      BY <3>1
    <3>3. PICK whole : Merge(r, seat, whole)
      BY <3>2
    <3>4. /\ ReportsCache'
          /\ (~r.button /\ r.position \notin Positions /\ ~out'.answered) => cache' = cache
      BY <3>3, FrameReports
    <3>5. out'.button = r.button /\ out'.local = r.position
      BY <3>3 DEF Merge
    <3>6. Flapless
      BY <3>4, <3>5 DEF ReportsCache
    <3> QED BY <3>4, <3>6
  <2>2. CASE SetPosition \/ ExtractRaises
    BY <2>2 DEF SetPosition, ExtractRaises, ReportsCache
  <2>3. CASE Wait
    BY <2>3 DEF Wait, ReportsCache
  <2>4. CASE UNCHANGED hvars
    BY <2>4 DEF hvars, ReportsCache
  <2> QED BY <2>1, <2>2, <2>3, <2>4 DEF HNext
<1>3. SeatDoesNotFlap <=> [][Flapless]_out
  BY DEF SeatDoesNotFlap
<1> HIDE DEF Flapless
<1> QED BY <1>1, <1>2, <1>3, PTL DEF HSpec
=============================================================================
