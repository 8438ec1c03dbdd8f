------------------------------- MODULE HandFsm -------------------------------
(***************************************************************************)
(* HandStateMachine (poker-assistant/state/machine.py): the filter between *)
(* the vision readings and the decision engine.  One call of ingest takes  *)
(* one reading of the table and answers with a StateUpdate.                *)
(*                                                                         *)
(* A reading is the PokerState built from the raw dict: the sorted ranks   *)
(* of the two hero cards (NoCards when there are not two valid cards), the *)
(* board, whether its confidence reaches min_confidence ("sure"), one      *)
(* value, "view", for everything else that the fingerprint compares (suits,*)
(* position, button, players, pot, to_call, effective stack), and one,     *)
(* "marks", for what it leaves out (stack, blind, errors, uncertainty).    *)
(*                                                                         *)
(* log is a history variable: it records every reading with its answer.    *)
(***************************************************************************)
EXTENDS Naturals, Sequences, FiniteSets

CONSTANTS
  Ranks,         \* rank pairs the hero can hold
  NoCards,       \* the empty _hero_ranks, and a reading without a hand
  Cards,         \* community cards
  Boards,        \* the boards that can be read, sequences of cards
  Views,         \* the other fields of the fingerprint
  Marks,         \* the fields outside it
  Readings,      \* the readings that may arrive
  None,          \* Python's None
  StableFrames,  \* stable_frames
  MaxFrames      \* bound on the number of readings

ASSUME ConstantsAssumption ==
  /\ NoCards \notin Ranks
  /\ Boards \subseteq Seq(Cards)
  /\ StableFrames \in Nat \ {0}
  /\ MaxFrames \in Nat

Frame == [ranks : Ranks \cup {NoCards}, board : Boards, view : Views,
          sure : BOOLEAN, marks : Marks]

ASSUME ReadingsAssumption == Readings \subseteq Frame /\ None \notin Frame

Streets == {"preflop", "flop", "turn", "river"}

\* Faulty variant: no default for a length without a street of its own.
StreetWithoutDefault(board) ==
  CASE Len(board) = 3 -> "flop"
    [] Len(board) = 4 -> "turn"
    [] Len(board) = 5 -> "river"
    [] OTHER -> "none"

StreetOf(board) ==
  CASE Len(board) = 3 -> "flop"
    [] Len(board) = 4 -> "turn"
    [] Len(board) = 5 -> "river"
    [] OTHER -> "preflop"

\* Faulty variant: the cards only.
FingerprintOfCards(f) == <<f.ranks, f.board, StreetOf(f.board)>>

Fingerprint(f) == <<f.ranks, f.board, StreetOf(f.board), f.view>>

Reasons == {"no hero cards", "low confidence", "board shrink", "stability", "stable"}

StateUpdate ==
  [state : Frame \cup {None}, changed : BOOLEAN, reason : Reasons, hand_id : Nat]

VARIABLES
  candidate,   \* _candidate_state, whose fingerprint is _candidate_fingerprint
  count,       \* _candidate_count
  confirmed,   \* _confirmed_state
  hand_id,     \* _hand_id; 0 stands for None
  hero_ranks,  \* _hero_ranks
  street,      \* _street
  board_len,   \* _board_len
  log          \* every reading so far with the StateUpdate it got

vars == <<candidate, count, confirmed, hand_id, hero_ranks, street, board_len, log>>

LogEntry == [frame : Frame, out : StateUpdate]

TypeOK ==
  /\ candidate \in Frame \cup {None}
  /\ count \in Nat
  /\ confirmed \in Frame \cup {None}
  /\ hand_id \in Nat
  /\ hero_ranks \in Ranks \cup {NoCards}
  /\ street \in Streets
  /\ board_len \in Nat
  /\ log \in Seq(LogEntry)

Init ==
  /\ candidate = None
  /\ count = 0
  /\ confirmed = None
  /\ hand_id = 0
  /\ hero_ranks = NoCards
  /\ street = "preflop"
  /\ board_len = 0
  /\ log = <<>>

-----------------------------------------------------------------------------
Return(f, update) == log' = Append(log, [frame |-> f, out |-> update])

Answer(state, changed, reason, id) ==
  [state |-> state, changed |-> changed, reason |-> reason, hand_id |-> id]

ResetCandidate == candidate' = None /\ count' = 0

\* Faulty variant: losing sight of the cards also forgets the hand.
NoHandForgetsRanks(f) ==
  /\ f.ranks = NoCards
  /\ ResetCandidate
  /\ hero_ranks' = NoCards
  /\ Return(f, Answer(None, FALSE, "no hero cards", hand_id))
  /\ UNCHANGED <<confirmed, hand_id, street, board_len>>

\* ingest leaves early: the hero has no two valid cards.
IngestNoHand(f) ==
  /\ f.ranks = NoCards
  /\ ResetCandidate
  /\ Return(f, Answer(None, FALSE, "no hero cards", hand_id))
  /\ UNCHANGED <<confirmed, hand_id, hero_ranks, street, board_len>>

\* Faulty variant: an unsure reading leaves the candidate standing.
LowConfidenceKeepsCandidate(f) ==
  /\ f.ranks # NoCards
  /\ ~f.sure
  /\ Return(f, Answer(confirmed, FALSE, "low confidence", hand_id))
  /\ UNCHANGED <<candidate, count, confirmed, hand_id, hero_ranks, street, board_len>>

\* ingest leaves early: the reading is below min_confidence.
IngestLowConfidence(f) ==
  /\ f.ranks # NoCards
  /\ ~f.sure
  /\ ResetCandidate
  /\ Return(f, Answer(confirmed, FALSE, "low confidence", hand_id))
  /\ UNCHANGED <<confirmed, hand_id, hero_ranks, street, board_len>>

Usable(f) == f.ranks # NoCards /\ f.sure

\* Other ranks than the hand being tracked (or none tracked yet).
IsNewHand(f) == f.ranks # hero_ranks

\* Faulty variant: the guard tolerates every shrink.
NoBoardFloor(f) == 0

\* Faulty variant: a new hand keeps the length of the old board.
FloorSurvivesHand(f) == board_len

\* The length the board may not fall below: a new hand starts from 0.
BoardFloor(f) == IF IsNewHand(f) THEN 0 ELSE board_len

HandIdOf(f) == IF IsNewHand(f) THEN hand_id + 1 ELSE hand_id

\* ingest leaves early: fewer board cards than already seen in this hand.
\* Only the answer is produced; the candidate survives.
IngestShrink(f) ==
  /\ Usable(f)
  /\ Len(f.board) < BoardFloor(f)
  /\ Return(f, Answer(confirmed, FALSE, "board shrink", hand_id))
  /\ UNCHANGED <<candidate, count, confirmed, hand_id, hero_ranks, street, board_len>>

\* A new hand has dropped the candidate before it is compared.
SameAsCandidate(f) ==
  /\ ~IsNewHand(f)
  /\ candidate # None
  /\ Fingerprint(candidate) = Fingerprint(f)

Accept(f) ==
  /\ Usable(f)
  /\ Len(f.board) >= BoardFloor(f)
  /\ hero_ranks' = f.ranks
  /\ hand_id' = HandIdOf(f)
  /\ board_len' = Len(f.board)
  /\ street' = StreetOf(f.board)
  /\ count' = IF SameAsCandidate(f) THEN count + 1 ELSE 1
  /\ candidate' = IF SameAsCandidate(f) THEN candidate ELSE f

\* The reading counts, the quorum is not reached.
IngestPending(f) ==
  /\ Accept(f)
  /\ count' < StableFrames
  /\ Return(f, Answer(confirmed, FALSE, "stability", hand_id'))
  /\ UNCHANGED confirmed

\* Faulty variant: only the cards are compared with the previous state.
DiffersInCards(old, f) == old = None \/ old.ranks # f.ranks

Differs(old, f) == old = None \/ Fingerprint(old) # Fingerprint(f)

\* The reading completes (or prolongs) the quorum: the candidate is confirmed.
IngestStable(f) ==
  /\ Accept(f)
  /\ count' >= StableFrames
  /\ confirmed' = candidate'
  /\ Return(f, Answer(candidate', Differs(confirmed, f), "stable", hand_id'))

Ingest(f) ==
  /\ Len(log) < MaxFrames
  /\ \/ IngestNoHand(f)
     \/ IngestLowConfidence(f)
     \/ IngestShrink(f)
     \/ IngestPending(f)
     \/ IngestStable(f)

Next == \E f \in Readings : Ingest(f)

Spec == Init /\ [][Next]_vars

-----------------------------------------------------------------------------
StableAt(i) == log[i].out.reason = "stable"

\* The readings that take part in the quorum: a shrinking board is passed over.
CountedIn(i, j) == {k \in i..j : log[k].out.reason # "board shrink"}

\* A state is reported as stable only on a quorum: behind it stand at least
\* StableFrames readings of exactly this state with no lost, unsure or different
\* reading among them (only readings rejected for a shrinking board may be).
QuorumBehindStable ==
  \A j \in DOMAIN log : StableAt(j) =>
    \E i \in 1..j :
      /\ Cardinality(CountedIn(i, j)) >= StableFrames
      /\ \A k \in CountedIn(i, j) :
           /\ Usable(log[k].frame)
           /\ Fingerprint(log[k].frame) = Fingerprint(log[j].out.state)

\* Within one hand (one hand_id) the boards reported as stable never get shorter,
\* however the readings between them jump, vanish or lose confidence.
StableBoardsGrow ==
  \A i, j \in DOMAIN log :
    (i < j /\ StableAt(i) /\ StableAt(j) /\ log[i].out.hand_id = log[j].out.hand_id)
      => Len(log[i].out.state.board) <= Len(log[j].out.state.board)

\* The ranks differ from those of the last usable reading before j.
RanksChangeAt(j) ==
  /\ Usable(log[j].frame)
  /\ \A i \in 1..(j - 1) :
       (Usable(log[i].frame) /\ \A k \in (i + 1)..(j - 1) : ~Usable(log[k].frame))
         => log[i].frame.ranks # log[j].frame.ranks

\* hand_id advances exactly when the hero's ranks change between two usable
\* readings: losing the cards from view, or their confidence, starts no hand, and
\* a hand seen again after another one is a new hand.
HandIdCountsRankChanges ==
  hand_id = Cardinality({j \in DOMAIN log : RanksChangeAt(j)})

\* With a quorum of one reading (the controller's setting) the confirmed state is
\* always a reading of the hand being tracked, on its longest board; a state of an
\* earlier hand is never returned with the id of a later one.
ConfirmedIsCurrent ==
  (StableFrames = 1 /\ confirmed # None) =>
    confirmed.ranks = hero_ranks /\ Len(confirmed.board) = board_len

\* "changed" is set on exactly those stable answers that differ from the stable
\* answer before them, even when rejected readings or whole hands came between.
ChangedMarksNews ==
  \A j \in DOMAIN log : StableAt(j) =>
    (log[j].out.changed <=>
       \A i \in 1..(j - 1) :
         (StableAt(i) /\ \A k \in (i + 1)..(j - 1) : ~StableAt(k))
           => Fingerprint(log[i].out.state) # Fingerprint(log[j].out.state))

=============================================================================
