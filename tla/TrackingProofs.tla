---------------------------- MODULE TrackingProofs ----------------------------
(***************************************************************************)
(* The table in front of the machine, for every number of hands, frames,   *)
(* boards and ranks, and every choice of disturbances.                     *)
(*                                                                         *)
(* What makes TracksTheTable inductive: while no longer board was read in  *)
(* this hand, the machine that follows the hand on the table knows no more *)
(* cards of it than there are (Floor), so that no true reading is taken    *)
(* for a shrinking board; and the candidate has been this table for as     *)
(* many readings as agree (Streak).  For HandIdFollowsTable: the id counts *)
(* the hands, except that it lags while the new one was not read (Lag).    *)
(***************************************************************************)
EXTENDS TableTracking, HandFsmProofs

\* The dealer's side of the state.
TableOK ==
  /\ table \in [ranks : Ranks, board : Boards]
  /\ hands \in Nat \ {0}
  /\ agree \in Nat
  /\ seen \in [DisturbanceKinds -> Nat]
  /\ \A d \in DisturbanceKinds : seen[d] <= hands

\* Nothing is read truly without the hand being followed.
Followed == agree > 0 => hero_ranks = table.ranks

\* No longer board than the table's was read in this hand.
NotMisled == seen["long board"] < hands

\* Without a longer board in this hand, the board seen is no longer than the table's.
Floor ==
  (hero_ranks = table.ranks /\ NotMisled) => board_len <= Len(table.board)

\* The true readings in a row have all gone to the candidate, and the last one's answer
\* tells whether they are enough.
Streak ==
  (agree > 0 /\ NotMisled) =>
    /\ candidate # None
    /\ Fingerprint(candidate) = Fingerprint(TrueReading)
    /\ count >= agree
    /\ log # <<>>
    /\ count >= StableFrames => LastAnswer.reason = "stable" /\ LastAnswer.state = candidate

\* As long as the ranks are not misread, the id is the number of the hand followed,
\* which is the one on the table or the one before.
Lag ==
  seen["wrong ranks"] = 0 =>
    IF hero_ranks = table.ranks THEN hand_id = hands ELSE hand_id + 1 = hands

-----------------------------------------------------------------------------
(* The readings of a table. *)

\* What a reading of possible ranks and a possible board shows.
LEMMA ReadingShows ==
  ASSUME NEW ranks \in Ranks \cup {NoCards}, NEW board \in Boards, NEW sure \in BOOLEAN
  PROVE  /\ Reading(ranks, board, sure) \in Frame
         /\ Reading(ranks, board, sure).ranks = ranks
         /\ Reading(ranks, board, sure).board = board
         /\ Reading(ranks, board, sure).sure = sure
<1>1. View \in Views /\ Mark \in Marks
  BY TableAssumption DEF View, Mark
<1> QED BY <1>1 DEF Reading, Frame

\* A strict prefix is shorter.
LEMMA PrefixIsShorter ==
  ASSUME NEW s \in Seq(Cards), NEW t \in Seq(Cards), IsStrictPrefix(s, t)
  PROVE  Len(s) < Len(t)
<1>1. Len(s) <= Len(t) /\ SubSeq(s, 1, Len(s)) = SubSeq(t, 1, Len(s)) /\ s # t
  BY DEF IsStrictPrefix, IsPrefix
<1>2. SubSeq(s, 1, Len(s)) = s /\ SubSeq(t, 1, Len(t)) = t
  OBVIOUS
<1>3. Len(s) \in Nat /\ Len(t) \in Nat
  OBVIOUS
<1> QED BY <1>1, <1>2, <1>3

\* The hand on the table is a hand.
LEMMA TableShows ==
  ASSUME TableOK
  PROVE  /\ table.ranks \in Ranks /\ table.ranks # NoCards /\ table.board \in Boards
         /\ table.board \in Seq(Cards) /\ Len(table.board) \in Nat
         /\ TrueReading \in Frame /\ Usable(TrueReading)
         /\ TrueReading.ranks = table.ranks /\ TrueReading.board = table.board
<1>1. /\ table.ranks \in Ranks /\ table.ranks # NoCards /\ table.board \in Boards
      /\ table.board \in Seq(Cards)
  BY ConstantsAssumption DEF TableOK
<1>2. Len(table.board) \in Nat
  BY <1>1
<1> QED BY <1>1, <1>2, ReadingShows DEF TrueReading, Usable

\* What a disturbed reading tells the machine: nothing, or less of the table's hand, or
\* another hand, unless it is one of the two kinds that mislead it.
LEMMA DisturbedShows ==
  ASSUME TableOK, NEW d \in Disturbances,
         NEW ranks \in Ranks \cup {NoCards}, NEW board \in Boards, NEW sure \in BOOLEAN,
         Disturbed(d, ranks, board, sure)
  PROVE  /\ d \in DisturbanceKinds
         /\ \/ ~Usable(Reading(ranks, board, sure))
            \/ d # "wrong ranks" /\ ranks = table.ranks /\ Len(board) < Len(table.board)
            \/ d = "wrong ranks" /\ ranks # table.ranks
            \/ d = "long board" /\ ranks = table.ranks
<1>1. d \in DisturbanceKinds
  BY TableAssumption
<1>2. board \in Seq(Cards) /\ table.board \in Seq(Cards)
  BY TableShows, ConstantsAssumption
<1>3. IsStrictPrefix(board, table.board) => Len(board) < Len(table.board)
  BY <1>2, PrefixIsShorter
<1> QED BY <1>1, <1>3, ReadingShows DEF Disturbed, Usable, DisturbanceKinds

-----------------------------------------------------------------------------
(* The table, and the machine behind it. *)

LEMMA TableInit == TInit => TableOK
<1> SUFFICES ASSUME TInit PROVE TableOK
  OBVIOUS
<1>1. table \in [ranks : Ranks, board : Boards]
  BY TableAssumption DEF TInit
<1>2. seen \in [DisturbanceKinds -> Nat] /\ \A d \in DisturbanceKinds : seen[d] <= hands
  BY DEF TInit
<1> QED BY <1>1, <1>2 DEF TInit, TableOK

\* One step of the dealer or the camera leaves a table.
LEMMA TableNext == TableOK /\ [TNext]_tvars => TableOK'
<1> SUFFICES ASSUME TableOK, [TNext]_tvars PROVE TableOK'
  OBVIOUS
<1> USE DEF TableOK
<1>1. CASE UNCHANGED tvars
  BY <1>1 DEF tvars
<1>2. CASE ReadTruly
  BY <1>2 DEF ReadTruly
<1>3. CASE ReadDisturbed
  <2>1. PICK d \in Disturbances : seen' = [seen EXCEPT ![d] = hands]
    BY <1>3 DEF ReadDisturbed
  <2>2. seen' \in [DisturbanceKinds -> Nat]
    BY <2>1
  <2>3. \A e \in DisturbanceKinds : seen'[e] = hands \/ seen'[e] = seen[e]
    BY <2>1
  <2>4. \A e \in DisturbanceKinds : seen'[e] <= hands
    BY <2>3
  <2> QED BY <1>3, <2>2, <2>4 DEF ReadDisturbed
<1>4. CASE NextStreet
  <2>1. PICK b \in Boards : table' = [table EXCEPT !.board = b]
    BY <1>4 DEF NextStreet
  <2> QED BY <1>4, <2>1 DEF NextStreet
<1>5. CASE NextHand
  <2>1. PICK r \in Ranks : table' = [ranks |-> r, board |-> <<>>]
    BY <1>5 DEF NextHand
  <2>2. hands' = hands + 1 /\ seen' = seen /\ agree' = 0
    BY <1>5 DEF NextHand
  <2>3. table' \in [ranks : Ranks, board : Boards]
    BY <2>1, TableAssumption
  <2>4. \A e \in DisturbanceKinds : seen'[e] <= hands'
    BY <2>2
  <2> QED BY <2>2, <2>3, <2>4
<1> QED BY <1>1, <1>2, <1>3, <1>4, <1>5 DEF TNext

LEMMA TableHolds == TSpec => []TableOK
<1> QED BY TableInit, TableNext, PTL DEF TSpec

\* Every step of the table is a step of the machine on some reading, or none.
LEMMA TableStep ==
  ASSUME TableOK, [TNext]_tvars
  PROVE  [Next]_vars
<1>1. CASE UNCHANGED tvars
  BY <1>1 DEF tvars
<1>2. CASE ReadTruly
  BY <1>2, TableShows, TableAssumption DEF ReadTruly, Next
<1>3. CASE ReadDisturbed
  <2>1. PICK ranks \in Ranks \cup {NoCards}, board \in Boards, sure \in BOOLEAN :
               Ingest(Reading(ranks, board, sure))
    BY <1>3 DEF ReadDisturbed
  <2> QED BY <2>1, ReadingShows, TableAssumption DEF Next
<1>4. CASE NextStreet \/ NextHand
  BY <1>4 DEF NextStreet, NextHand
<1> QED BY <1>1, <1>2, <1>3, <1>4 DEF TNext

\* Behind every table the machine is the machine of HandFsm: what is proved of it for
\* any stream of readings holds for the readings of a table.
THEOREM TableDrivesMachine == TSpec => Spec
<1>1. TInit => Init
  BY DEF TInit
<1>2. TableOK /\ [TNext]_tvars => [Next]_vars
  BY TableStep
<1> QED BY <1>1, <1>2, TableHolds, PTL DEF TSpec, Spec

-----------------------------------------------------------------------------
(* The invariant. *)

\* The log ends with the answer given.
LEMMA AnswerIsLast ==
  ASSUME TypeOK, NEW f, NEW u, Return(f, u)
  PROVE  log' # <<>> /\ LastAnswer' = u
<1>1. /\ Len(log') = Len(log) + 1 /\ Len(log) \in Nat
      /\ log'[Len(log) + 1] = [frame |-> f, out |-> u]
  BY LogGrows DEF TypeOK
<1>2. log' # <<>>
  <2> SUFFICES ASSUME log' = <<>> PROVE FALSE
    OBVIOUS
  <2>1. Len(log') = 0
    OBVIOUS
  <2> QED BY <1>1, <2>1
<1> QED BY <1>1, <1>2 DEF LastAnswer

\* An accepted reading that completes the quorum is answered with the candidate.
LEMMA AcceptAnswers ==
  ASSUME TypeOK, NEW f \in Frame, IngestPending(f) \/ IngestStable(f)
  PROVE  /\ log' # <<>>
         /\ count' >= StableFrames =>
              LastAnswer'.reason = "stable" /\ LastAnswer'.state = candidate'
<1>1. CASE IngestStable(f)
  <2> DEFINE u == Answer(candidate', Differs(confirmed, f), "stable", hand_id')
  <2>1. Return(f, u)
    BY <1>1 DEF IngestStable
  <2>2. log' # <<>> /\ LastAnswer' = u
    BY <2>1, AnswerIsLast
  <2>3. u.reason = "stable" /\ u.state = candidate'
    BY DEF Answer
  <2> QED BY <2>2, <2>3
<1>2. CASE IngestPending(f)
  <2> DEFINE u == Answer(confirmed, FALSE, "stability", hand_id')
  <2>1. Return(f, u)
    BY <1>2 DEF IngestPending
  <2>2. log' # <<>>
    BY <2>1, AnswerIsLast
  <2>3. count' \in Nat /\ StableFrames \in Nat /\ count' < StableFrames
    BY <1>2, AcceptType, ConstantsAssumption DEF IngestPending
  <2> QED BY <2>2, <2>3
<1> QED BY <1>1, <1>2

\* What an accepted true reading leaves: the candidate is the table, and has been for
\* one reading more.
LEMMA TrueReadingCounts ==
  ASSUME TypeOK, TableOK, Followed, Floor, Streak, NotMisled, ReadTruly
  PROVE  Streak'
<1> DEFINE f == TrueReading
<1>0. agree \in Nat /\ count \in Nat
  BY DEF TableOK, TypeOK
<1>1. /\ Ingest(f) /\ agree' = agree + 1
      /\ table' = table /\ hands' = hands /\ seen' = seen /\ TrueReading' = f
  BY DEF ReadTruly, TrueReading
<1>2. f \in Frame /\ Usable(f) /\ f.ranks = table.ranks /\ f.board = table.board
  BY TableShows
<1> HIDE DEF f
<1>3. Len(f.board) >= BoardFloor(f)
  <2>1. board_len \in Nat /\ Len(table.board) \in Nat
    BY TableShows DEF TypeOK
  <2> QED BY <1>2, <2>1 DEF Floor, BoardFloor, IsNewHand
<1>4. IngestPending(f) \/ IngestStable(f)
  <2>1. BoardFloor(f) \in Nat /\ Len(f.board) \in Nat
    BY <1>2, TableShows DEF TypeOK, BoardFloor
  <2>2. ~(Len(f.board) < BoardFloor(f))
    BY <1>3, <2>1
  <2>3. ~IngestShrink(f)
    BY <2>2, Zenon DEF IngestShrink
  <2> QED BY <1>1, <1>2, <2>3 DEF Ingest, IngestNoHand, IngestLowConfidence, Usable
<1>5. Accept(f)
  BY <1>4 DEF IngestPending, IngestStable
<1>6. /\ candidate' \in Frame /\ candidate' # None
      /\ Fingerprint(candidate') = Fingerprint(f)
  BY <1>2, <1>5, ReadingsAssumption, AcceptType DEF Accept, SameAsCandidate
<1>7. count' >= agree'
  <2>1. count' \in Nat \ {0} /\ agree \in Nat /\ count \in Nat
    BY <1>2, <1>5, AcceptType DEF TableOK, TypeOK
  <2>0. agree' = agree + 1
    BY <1>1
  <2>2. CASE agree = 0
    BY <2>0, <2>1, <2>2
  <2>3. CASE agree > 0
    <3>1. candidate # None /\ Fingerprint(candidate) = Fingerprint(f) /\ count >= agree
      BY <2>3 DEF Streak, f
    <3>2. SameAsCandidate(f)
      BY <1>2, <2>3, <3>1 DEF Followed, SameAsCandidate, IsNewHand
    <3>3. count' = count + 1
      BY <1>5, <3>2 DEF Accept
    <3> QED BY <2>0, <2>1, <3>1, <3>3
  <2> QED BY <2>1, <2>2, <2>3
<1>8. /\ log' # <<>>
      /\ count' >= StableFrames =>
           LastAnswer'.reason = "stable" /\ LastAnswer'.state = candidate'
  BY <1>2, <1>4, AcceptAnswers
<1> QED BY <1>1, <1>6, <1>7, <1>8 DEF Streak

\* The board length follows the reading accepted last.
LEMMA BoardFollows ==
  ASSUME NEW f \in Frame, Ingest(f)
  PROVE  \/ hero_ranks' = hero_ranks /\ board_len' = board_len
         \/ Usable(f) /\ hero_ranks' = f.ranks /\ board_len' = Len(f.board)
BY DEF Ingest, IngestNoHand, IngestLowConfidence, IngestShrink, IngestPending, IngestStable,
       Accept

LEMMA FollowedStep ==
  ASSUME TypeOK, TableOK, Followed, [TNext]_tvars
  PROVE  Followed'
<1>1. CASE UNCHANGED tvars
  BY <1>1 DEF tvars, vars, Followed
<1>2. CASE ReadTruly
  <2>1. hero_ranks' = TrueReading.ranks
    BY <1>2, TableShows, BoardLength, TypeShapes, IngestTracks DEF ReadTruly
  <2> QED BY <1>2, <2>1, TableShows DEF ReadTruly, Followed
<1>3. CASE ReadDisturbed \/ NextStreet \/ NextHand
  <2>1. agree' = 0
    BY <1>3 DEF ReadDisturbed, NextStreet, NextHand
  <2> QED BY <2>1 DEF Followed
<1> QED BY <1>1, <1>2, <1>3 DEF TNext

\* A hand is dealt only after a true reading of the one before, so the machine does not
\* follow the new one yet.
LEMMA DealChangesRanks ==
  ASSUME ~RepeatRanks, TableOK, Followed, NextHand
  PROVE  hero_ranks' = table.ranks /\ hero_ranks' # table'.ranks
BY DEF NextHand, Followed, vars

\* A disturbance marks this hand, and only its own mark.
LEMMA Marking ==
  ASSUME TableOK, NEW d \in DisturbanceKinds, seen' = [seen EXCEPT ![d] = hands]
  PROVE  \A e \in DisturbanceKinds :
           IF e = d THEN seen'[e] = hands /\ ~(seen'[e] < hands) ELSE seen'[e] = seen[e]
<1>1. hands \in Nat \ {0} /\ seen \in [DisturbanceKinds -> Nat]
  BY DEF TableOK
<1>2. ~(hands < hands)
  BY <1>1
<1> QED BY <1>1, <1>2

LEMMA FloorStep ==
  ASSUME ~RepeatRanks, TypeOK, TableOK, Followed, Floor, [TNext]_tvars
  PROVE  Floor'
<1>0. Len(table.board) \in Nat /\ board_len \in Nat
  BY TableShows DEF TypeOK
<1>1. CASE UNCHANGED tvars
  BY <1>1 DEF tvars, vars, Floor, NotMisled
<1>2. CASE ReadTruly
  <2>1. table' = table /\ (NotMisled' <=> NotMisled)
    BY <1>2 DEF ReadTruly, NotMisled
  <2>2. TrueReading \in Frame /\ TrueReading.board = table.board /\ Ingest(TrueReading)
    BY <1>2, TableShows DEF ReadTruly
  <2>3. CASE hero_ranks' = hero_ranks /\ board_len' = board_len
    BY <2>1, <2>3 DEF Floor
  <2>4. CASE board_len' = Len(table.board)
    BY <1>0, <2>1, <2>4 DEF Floor
  <2> QED BY <2>2, <2>3, <2>4, BoardFollows
<1>3. CASE ReadDisturbed
  <2>1. PICK d \in Disturbances :
          /\ \E ranks \in Ranks \cup {NoCards}, board \in Boards, sure \in BOOLEAN :
               Disturbed(d, ranks, board, sure) /\ Ingest(Reading(ranks, board, sure))
          /\ seen' = [seen EXCEPT ![d] = hands]
    BY <1>3 DEF ReadDisturbed
  <2>2. PICK ranks \in Ranks \cup {NoCards}, board \in Boards, sure \in BOOLEAN :
          Disturbed(d, ranks, board, sure) /\ Ingest(Reading(ranks, board, sure))
    BY <2>1
  <2> DEFINE f == Reading(ranks, board, sure)
  <2>3. /\ f \in Frame /\ f.ranks = ranks /\ f.board = board /\ Ingest(f)
    BY <2>2, ReadingShows
  <2>4. table' = table /\ hands' = hands
    BY <1>3 DEF ReadDisturbed
  <2>5. NotMisled' => NotMisled /\ d # "long board"
    <3>1. /\ d \in DisturbanceKinds /\ "long board" \in DisturbanceKinds
          /\ seen' = [seen EXCEPT ![d] = hands]
      BY <2>1, TableAssumption DEF DisturbanceKinds
    <3>2. CASE d = "long board"
      <4>1. ~(seen'["long board"] < hands)
        BY <3>1, <3>2, Marking
      <4> QED BY <2>4, <4>1, Zenon DEF NotMisled
    <3>3. CASE d # "long board"
      <4>1. seen'["long board"] = seen["long board"]
        BY <3>1, <3>3, Marking
      <4> QED BY <2>4, <3>3, <4>1, Zenon DEF NotMisled
    <3> QED BY <3>2, <3>3
  <2>6. CASE hero_ranks' = hero_ranks /\ board_len' = board_len
    BY <2>4, <2>5, <2>6 DEF Floor
  <2>7. CASE Usable(f) /\ hero_ranks' = ranks /\ board_len' = Len(board)
    <3>1. \/ ranks = table.ranks /\ Len(board) < Len(table.board)
          \/ ranks # table.ranks
          \/ d = "long board"
      BY <2>2, <2>7, DisturbedShows
    <3>2. Len(board) \in Nat
      BY <2>3, BoardLength
    <3>3. Len(board) < Len(table.board) => Len(board) <= Len(table.board)
      BY <1>0, <3>2
    <3> QED BY <2>4, <2>5, <2>7, <3>1, <3>3, Zenon DEF Floor
  <2> HIDE DEF f
  <2> QED BY <2>3, <2>6, <2>7, BoardFollows
<1>4. CASE NextStreet
  <2>1. PICK b \in Boards : IsStrictPrefix(table.board, b) /\ table' = [table EXCEPT !.board = b]
    BY <1>4 DEF NextStreet
  <2>2. Len(table.board) < Len(b)
    BY <2>1, TableShows, PrefixIsShorter, ConstantsAssumption
  <2>3. table'.ranks = table.ranks /\ table'.board = b
    BY <2>1 DEF TableOK
  <2>4. hero_ranks' = hero_ranks /\ board_len' = board_len /\ (NotMisled' <=> NotMisled)
    BY <1>4 DEF NextStreet, vars, NotMisled
  <2>5. Len(b) \in Nat
    BY ConstantsAssumption
  <2>6. board_len <= Len(table.board) => board_len <= Len(b)
    BY <1>0, <2>2, <2>5
  <2> QED BY <2>3, <2>4, <2>6, Zenon DEF Floor
<1>5. CASE NextHand
  BY <1>5, DealChangesRanks DEF Floor
<1> QED BY <1>1, <1>2, <1>3, <1>4, <1>5 DEF TNext

LEMMA StreakStep ==
  ASSUME TypeOK, TableOK, Followed, Floor, Streak, [TNext]_tvars
  PROVE  Streak'
<1>1. CASE UNCHANGED tvars
  BY <1>1 DEF tvars, vars, Streak, NotMisled, TrueReading, LastAnswer
<1>2. CASE ReadTruly
  <2>1. NotMisled' => NotMisled
    BY <1>2 DEF ReadTruly, NotMisled
  <2>2. CASE NotMisled
    BY <1>2, <2>2, TrueReadingCounts
  <2> QED BY <2>1, <2>2 DEF Streak
<1>3. CASE ReadDisturbed \/ NextStreet \/ NextHand
  <2>1. agree' = 0
    BY <1>3 DEF ReadDisturbed, NextStreet, NextHand
  <2> QED BY <2>1 DEF Streak
<1> QED BY <1>1, <1>2, <1>3 DEF TNext

\* The id moves with the ranks.
LEMMA IdMoves ==
  ASSUME TypeOK, NEW f \in Frame, Ingest(f)
  PROVE  \/ hero_ranks' = hero_ranks /\ hand_id' = hand_id
         \/ Usable(f) /\ hero_ranks # f.ranks /\ hero_ranks' = f.ranks /\ hand_id' = hand_id + 1
BY BoardLength, TypeShapes, IngestTracks

LEMMA LagStep ==
  ASSUME ~RepeatRanks, TypeOK, TableOK, Followed, Lag, [TNext]_tvars
  PROVE  Lag'
<1>0. hand_id \in Nat /\ hands \in Nat \ {0}
  BY DEF TypeOK, TableOK
<1>1. CASE UNCHANGED tvars
  BY <1>1 DEF tvars, vars, Lag
<1>2. ASSUME NEW f \in Frame, Ingest(f), Usable(f) => f.ranks = table.ranks,
             table' = table, hands' = hands, seen["wrong ranks"] = 0
      PROVE  Lag'
  BY <1>0, <1>2, IdMoves DEF Lag
<1>3. CASE ReadTruly
  <2>1. /\ TrueReading \in Frame /\ TrueReading.ranks = table.ranks /\ Ingest(TrueReading)
        /\ table' = table /\ hands' = hands /\ seen' = seen
    BY <1>3, TableShows DEF ReadTruly
  <2>2. CASE seen["wrong ranks"] = 0
    BY <1>2, <2>1, <2>2
  <2> QED BY <2>1, <2>2 DEF Lag
<1>4. CASE ReadDisturbed
  <2>1. PICK d \in Disturbances :
          /\ \E ranks \in Ranks \cup {NoCards}, board \in Boards, sure \in BOOLEAN :
               Disturbed(d, ranks, board, sure) /\ Ingest(Reading(ranks, board, sure))
          /\ seen' = [seen EXCEPT ![d] = hands]
    BY <1>4 DEF ReadDisturbed
  <2>2. PICK ranks \in Ranks \cup {NoCards}, board \in Boards, sure \in BOOLEAN :
          Disturbed(d, ranks, board, sure) /\ Ingest(Reading(ranks, board, sure))
    BY <2>1
  <2> DEFINE f == Reading(ranks, board, sure)
  <2>3. f \in Frame /\ f.ranks = ranks /\ Ingest(f)
    BY <2>2, ReadingShows
  <2>4. table' = table /\ hands' = hands
    BY <1>4 DEF ReadDisturbed
  <2>5. CASE d = "wrong ranks"
    <3>1. seen'["wrong ranks"] # 0
      BY <1>0, <2>1, <2>5, TableAssumption, Marking
    <3> QED BY <3>1 DEF Lag
  <2>6. CASE d # "wrong ranks"
    <3>1. seen'["wrong ranks"] = seen["wrong ranks"]
      BY <2>1, <2>6, TableAssumption, Marking DEF DisturbanceKinds
    <3>2. Usable(f) => ranks = table.ranks
      BY <2>2, <2>6, DisturbedShows
    <3> HIDE DEF f
    <3>3. CASE seen["wrong ranks"] = 0
      BY <1>2, <2>3, <2>4, <3>2, <3>3
    <3> QED BY <3>1, <3>3 DEF Lag
  <2> QED BY <2>5, <2>6
<1>5. CASE NextStreet
  <2>1. table'.ranks = table.ranks
    BY <1>5 DEF NextStreet, TableOK
  <2>2. hero_ranks' = hero_ranks /\ hand_id' = hand_id /\ hands' = hands /\ seen' = seen
    BY <1>5 DEF NextStreet, vars
  <2> QED BY <2>1, <2>2 DEF Lag
<1>6. CASE NextHand
  <2>1. hero_ranks' = table.ranks /\ hero_ranks' # table'.ranks
    BY <1>6, DealChangesRanks
  <2>2. hero_ranks' = hero_ranks /\ hand_id' = hand_id /\ hands' = hands + 1 /\ seen' = seen
    BY <1>6 DEF NextHand, vars
  <2> QED BY <1>0, <2>1, <2>2 DEF Lag
<1> QED BY <1>1, <1>3, <1>4, <1>5, <1>6 DEF TNext

\* The invariant, when no two consecutive hands have the same ranks.
TrackInv == TypeOK /\ TableOK /\ Followed /\ Floor /\ Streak /\ Lag

LEMMA TrackInvHolds ==
  ASSUME ~RepeatRanks
  PROVE  TSpec => []TrackInv
<1>1. TInit => TrackInv
  <2> SUFFICES ASSUME TInit PROVE TrackInv
    OBVIOUS
  <2>1. TypeOK /\ TableOK
    BY TableInit DEF TInit, Init, TypeOK, Streets
  <2>2. table.ranks \in Ranks /\ hero_ranks = NoCards /\ hero_ranks # table.ranks
    BY ConstantsAssumption DEF TInit, Init
  <2>3. agree = 0 /\ hand_id = 0 /\ hands = 1
    BY DEF TInit, Init
  <2> QED BY <2>1, <2>2, <2>3 DEF TrackInv, Followed, Floor, Streak, Lag
<1>2. TrackInv /\ TypeOK' /\ [TNext]_tvars => TrackInv'
  BY TableNext, FollowedStep, FloorStep, StreakStep, LagStep DEF TrackInv
<1>3. TSpec => []TypeOK
  BY TableDrivesMachine, TypeCorrect, PTL
<1> QED BY <1>1, <1>2, <1>3, PTL DEF TSpec

\* Enough true readings in a row of an unchanged table are reported as that table, after
\* any number of hands and any disturbances but a longer board in this very hand, as
\* long as consecutive hands differ in their ranks (ingest of HandStateMachine).
THEOREM TableTracked ==
  ASSUME ~RepeatRanks
  PROVE  TSpec => []TracksTheTable
<1>1. TrackInv => TracksTheTable
  <2> DEFINE Enough == agree >= StableFrames
  <2> SUFFICES ASSUME TrackInv, Enough, NotMisled
               PROVE  /\ LastAnswer.reason = "stable"
                      /\ LastAnswer.state.ranks = table.ranks
                      /\ LastAnswer.state.board = table.board
    BY Zenon DEF TracksTheTable, NotMisled
  <2> HIDE DEF Enough
  <2>1. TableOK /\ Streak /\ count \in Nat /\ agree \in Nat
    BY DEF TrackInv, TypeOK, TableOK
  <2>2. agree >= StableFrames /\ agree > 0
    BY <2>1, ConstantsAssumption DEF Enough
  <2>3. /\ count >= agree
        /\ Fingerprint(candidate) = Fingerprint(TrueReading)
        /\ count >= StableFrames => LastAnswer.reason = "stable" /\ LastAnswer.state = candidate
    BY <2>1, <2>2 DEF Streak
  <2>4. count >= StableFrames
    BY <2>1, <2>2, <2>3, ConstantsAssumption
  <2>5. candidate.ranks = table.ranks /\ candidate.board = table.board
    BY <2>1, <2>3, TableShows DEF Fingerprint
  <2> QED BY <2>3, <2>4, <2>5
<1> QED BY <1>1, TrackInvHolds, PTL

\* Whatever else is misread, however many hands and streets are dealt, the id that the
\* machine gives is the number of the hand on the table, as soon as that hand was read
\* truly, as long as no ranks were misread and consecutive hands differ in theirs.
THEOREM HandsCounted ==
  ASSUME ~RepeatRanks
  PROVE  TSpec => []HandIdFollowsTable
<1>1. TrackInv => HandIdFollowsTable
  BY DEF TrackInv, Followed, Lag, HandIdFollowsTable
<1> QED BY <1>1, TrackInvHolds, PTL

\* Behind a table, too, a stable answer has its quorum of readings of exactly its state.
THEOREM TableQuorum == TSpec => []QuorumBehindStable
BY TableDrivesMachine, QuorumHolds, PTL

\* Behind a table, too, the answers marked as changed are exactly the news.
THEOREM TableNews == TSpec => []ChangedMarksNews
BY TableDrivesMachine, ChangedNews, PTL
=============================================================================
