---------------------------- MODULE HandFsmProofs ----------------------------
(* Proofs about HandFsm, for every set of ranks, boards and views, every quorum *)
(* and any number of readings.                                                  *)
EXTENDS HandFsm, FiniteSetTheorems, TLAPS

\* The length of a board is a number (a fact about Seq the provers need often).
LEMMA BoardLength ==
  ASSUME NEW f \in Frame
  PROVE  Len(f.board) \in Nat
<1>1. f.board \in Seq(Cards)
  BY ConstantsAssumption DEF Frame
<1> QED BY <1>1

\* Every street is one of the four.
LEMMA StreetType == ASSUME NEW f \in Frame PROVE StreetOf(f.board) \in Streets
BY BoardLength DEF StreetOf, Streets

\* What an accepted reading does to the typed variables, whatever the answer is.
LEMMA AcceptType ==
  ASSUME TypeOK, NEW f \in Frame, Accept(f)
  PROVE  /\ candidate' \in Frame
         /\ count' \in Nat \ {0}
         /\ hand_id' \in Nat
         /\ hero_ranks' \in Ranks \cup {NoCards}
         /\ street' \in Streets
         /\ board_len' \in Nat
         /\ Fingerprint(candidate') = Fingerprint(f)
<1>1. candidate' \in Frame /\ Fingerprint(candidate') = Fingerprint(f)
  BY ReadingsAssumption DEF TypeOK, Accept, SameAsCandidate
<1>2. count' \in Nat \ {0}
  BY DEF TypeOK, Accept
<1>3. hand_id' \in Nat
  BY DEF TypeOK, Accept, HandIdOf
<1>4. hero_ranks' \in Ranks \cup {NoCards}
  BY DEF Accept, Frame
<1>5. street' \in Streets
  BY StreetType DEF Accept
<1>6. board_len' \in Nat
  BY BoardLength DEF Accept
<1> QED BY <1>1, <1>2, <1>3, <1>4, <1>5, <1>6

\* Every answer is a StateUpdate, so the log stays a sequence of entries.
LEMMA ReturnType ==
  ASSUME log \in Seq(LogEntry), NEW f \in Frame, NEW s \in Frame \cup {None},
         NEW c \in BOOLEAN, NEW r \in Reasons, NEW id \in Nat,
         Return(f, Answer(s, c, r, id))
  PROVE  log' \in Seq(LogEntry)
<1>1. [frame |-> f, out |-> Answer(s, c, r, id)] \in LogEntry
  BY DEF LogEntry, StateUpdate, Answer
<1> QED BY <1>1 DEF Return

\* Type correctness of the machine.
THEOREM TypeCorrect == Spec => []TypeOK
<1>1. Init => TypeOK
  BY DEF Init, TypeOK, Streets
<1>2. TypeOK /\ [Next]_vars => TypeOK'
  <2> SUFFICES ASSUME TypeOK, [Next]_vars PROVE TypeOK'
    OBVIOUS
  <2>1. CASE UNCHANGED vars
    BY <2>1 DEF TypeOK, vars
  <2>2. ASSUME NEW f \in Readings, Ingest(f) PROVE TypeOK'
    <3>0. f \in Frame
      BY ReadingsAssumption
    <3>1. CASE IngestNoHand(f)
      <4>1. log' \in Seq(LogEntry)
        BY <3>0, <3>1, ReturnType DEF IngestNoHand, TypeOK, Reasons
      <4> QED BY <3>1, <4>1 DEF TypeOK, IngestNoHand, ResetCandidate
    <3>2. CASE IngestLowConfidence(f)
      <4>1. log' \in Seq(LogEntry)
        BY <3>0, <3>2, ReturnType DEF IngestLowConfidence, TypeOK, Reasons
      <4> QED BY <3>2, <4>1 DEF TypeOK, IngestLowConfidence, ResetCandidate
    <3>3. CASE IngestShrink(f)
      <4>1. log' \in Seq(LogEntry)
        BY <3>0, <3>3, ReturnType DEF IngestShrink, TypeOK, Reasons
      <4> QED BY <3>3, <4>1 DEF TypeOK, IngestShrink
    <3>4. CASE IngestPending(f)
      <4>1. Accept(f) /\ hand_id' \in Nat
        BY <3>0, <3>4, AcceptType DEF IngestPending
      <4>2. log' \in Seq(LogEntry)
        BY <3>0, <3>4, <4>1, ReturnType DEF IngestPending, TypeOK, Reasons
      <4> QED BY <3>0, <3>4, <4>1, <4>2, AcceptType DEF TypeOK, IngestPending
    <3>5. CASE IngestStable(f)
      <4>1. Accept(f)
        BY <3>5 DEF IngestStable
      <4>2. candidate' \in Frame /\ hand_id' \in Nat
        BY <3>0, <4>1, AcceptType
      <4>3. Differs(confirmed, f) \in BOOLEAN
        BY DEF Differs
      <4>4. log' \in Seq(LogEntry)
        BY <3>0, <3>5, <4>2, <4>3, ReturnType DEF IngestStable, TypeOK, Reasons
      <4> QED BY <3>0, <3>5, <4>1, <4>2, <4>4, AcceptType DEF TypeOK, IngestStable
    <3> QED BY <2>2, <3>1, <3>2, <3>3, <3>4, <3>5 DEF Ingest
  <2> QED BY <2>1, <2>2 DEF Next
<1> QED BY <1>1, <1>2, PTL DEF Spec

-----------------------------------------------------------------------------
(* What a call of ingest does, whatever the reading is and wherever it comes *)
(* from: all that is asked of it is that its board has a length.             *)

Shaped ==
  /\ hand_id \in Nat /\ board_len \in Nat /\ count \in Nat
  /\ \E S : log \in Seq(S)

LEMMA TypeShapes == TypeOK => Shaped
BY DEF TypeOK, Shaped

\* A call of ingest appends one entry and leaves the earlier ones alone.
LEMMA LogGrows ==
  ASSUME NEW S, log \in Seq(S), NEW f, NEW u, Return(f, u)
  PROVE  /\ DOMAIN log = 1..Len(log)
         /\ Len(log) \in Nat
         /\ DOMAIN log' = 1..(Len(log) + 1)
         /\ Len(log') = Len(log) + 1
         /\ \A i \in DOMAIN log : log'[i] = log[i]
         /\ log'[Len(log) + 1] = [frame |-> f, out |-> u]
         /\ \E T : log' \in Seq(T)
<1> DEFINE e == [frame |-> f, out |-> u]
<1>1. log' = Append(log, e)
  BY DEF Return
<1> HIDE DEF e
<1>2. log \in Seq(S \cup {e})
  OBVIOUS
<1>3. log' \in Seq(S \cup {e})
  BY <1>1, <1>2
<1> QED BY <1>1, <1>3 DEF e

\* Every call of ingest appends one entry; only IngestStable's is stable.
LEMMA OnlyStableIsStable ==
  ASSUME Shaped, NEW f,
         IngestNoHand(f) \/ IngestLowConfidence(f) \/ IngestShrink(f) \/ IngestPending(f)
  PROVE  /\ DOMAIN log = 1..Len(log)
         /\ Len(log) \in Nat
         /\ DOMAIN log' = 1..(Len(log) + 1)
         /\ Len(log') = Len(log) + 1
         /\ \A i \in DOMAIN log : log'[i] = log[i]
         /\ log'[Len(log) + 1].out.reason # "stable"
         /\ UNCHANGED confirmed
         /\ \E T : log' \in Seq(T)
<1>1. PICK u : Return(f, u) /\ u.reason # "stable"
  <2>1. \A state, id :
          /\ Answer(state, FALSE, "no hero cards", id).reason # "stable"
          /\ Answer(state, FALSE, "low confidence", id).reason # "stable"
          /\ Answer(state, FALSE, "board shrink", id).reason # "stable"
          /\ Answer(state, FALSE, "stability", id).reason # "stable"
    BY DEF Answer
  <2> QED BY <2>1 DEF IngestNoHand, IngestLowConfidence, IngestShrink, IngestPending
<1>2. PICK S : log \in Seq(S)
  BY DEF Shaped
<1>3. /\ DOMAIN log = 1..Len(log)
      /\ Len(log) \in Nat
      /\ DOMAIN log' = 1..(Len(log) + 1)
      /\ Len(log') = Len(log) + 1
      /\ \A i \in DOMAIN log : log'[i] = log[i]
      /\ log'[Len(log) + 1] = [frame |-> f, out |-> u]
      /\ \E T : log' \in Seq(T)
  BY <1>1, <1>2, LogGrows
<1>4. UNCHANGED confirmed
  BY DEF IngestNoHand, IngestLowConfidence, IngestShrink, IngestPending
<1> QED BY <1>1, <1>3, <1>4

\* How the machine moves on an accepted reading.
LEMMA AcceptMoves ==
  ASSUME Shaped, NEW f, Len(f.board) \in Nat, Accept(f)
  PROVE  /\ board_len' = Len(f.board)
         /\ \/ hand_id' = hand_id + 1
            \/ hand_id' = hand_id /\ board_len <= board_len'
         /\ hand_id' \in Nat
         /\ count' \in Nat \ {0}
         /\ Fingerprint(candidate') = Fingerprint(f)
<1>1. count' \in Nat \ {0}
  BY DEF Shaped, Accept
<1>2. Fingerprint(candidate') = Fingerprint(f)
  BY DEF Accept, SameAsCandidate
<1> QED BY <1>1, <1>2 DEF Shaped, Accept, HandIdOf, BoardFloor

\* What a stable call appends and confirms.
LEMMA StableAppends ==
  ASSUME Shaped, NEW f, Len(f.board) \in Nat, IngestStable(f)
  PROVE  /\ DOMAIN log = 1..Len(log)
         /\ Len(log) \in Nat
         /\ DOMAIN log' = 1..(Len(log) + 1)
         /\ Len(log') = Len(log) + 1
         /\ \A i \in DOMAIN log : log'[i] = log[i]
         /\ log'[Len(log) + 1].out = Answer(confirmed', Differs(confirmed, f), "stable", hand_id')
         /\ Fingerprint(confirmed') = Fingerprint(f)
         /\ \E T : log' \in Seq(T)
<1>1. Accept(f) /\ confirmed' = candidate'
  BY DEF IngestStable
<1>2. Fingerprint(confirmed') = Fingerprint(f)
  BY <1>1, AcceptMoves
<1>3. Return(f, Answer(confirmed', Differs(confirmed, f), "stable", hand_id'))
  BY <1>1 DEF IngestStable
<1>4. PICK S : log \in Seq(S)
  BY DEF Shaped
<1>5. /\ DOMAIN log = 1..Len(log)
      /\ Len(log) \in Nat
      /\ DOMAIN log' = 1..(Len(log) + 1)
      /\ Len(log') = Len(log) + 1
      /\ \A i \in DOMAIN log : log'[i] = log[i]
      /\ log'[Len(log) + 1] =
           [frame |-> f, out |-> Answer(confirmed', Differs(confirmed, f), "stable", hand_id')]
      /\ \E T : log' \in Seq(T)
  BY <1>3, <1>4, LogGrows
<1> QED BY <1>2, <1>5

LEMMA ShapeStep ==
  ASSUME Shaped, NEW f, Len(f.board) \in Nat, Ingest(f)
  PROVE  Shaped'
<1>1. \E T : log' \in Seq(T)
  BY OnlyStableIsStable, StableAppends DEF Ingest
<1>2. hand_id' \in Nat /\ board_len' \in Nat /\ count' \in Nat
  <2>1. CASE IngestNoHand(f)
    BY <2>1 DEF IngestNoHand, ResetCandidate, Shaped
  <2>2. CASE IngestLowConfidence(f)
    BY <2>2 DEF IngestLowConfidence, ResetCandidate, Shaped
  <2>3. CASE IngestShrink(f)
    BY <2>3 DEF IngestShrink, Shaped
  <2>4. CASE IngestPending(f) \/ IngestStable(f)
    <3>1. Accept(f)
      BY <2>4 DEF IngestPending, IngestStable
    <3> QED BY <3>1, AcceptMoves
  <2> QED BY <2>1, <2>2, <2>3, <2>4 DEF Ingest
<1> QED BY <1>1, <1>2 DEF Shaped

-----------------------------------------------------------------------------
(* The confirmed state. *)

LEMMA CurrentStep ==
  ASSUME Shaped, ConfirmedIsCurrent, NEW f, Len(f.board) \in Nat, Ingest(f)
  PROVE  ConfirmedIsCurrent'
<1> SUFFICES ASSUME StableFrames = 1 PROVE ConfirmedIsCurrent'
  BY DEF ConfirmedIsCurrent
<1>1. CASE IngestNoHand(f)
  BY <1>1 DEF ConfirmedIsCurrent, IngestNoHand
<1>2. CASE IngestLowConfidence(f)
  BY <1>2 DEF ConfirmedIsCurrent, IngestLowConfidence
<1>3. CASE IngestShrink(f)
  BY <1>3 DEF ConfirmedIsCurrent, IngestShrink
<1>4. CASE IngestPending(f)
  <2>1. count' \in Nat \ {0} /\ count' < 1
    BY <1>4, AcceptMoves DEF IngestPending
  <2> QED BY <2>1
<1>5. CASE IngestStable(f)
  <2>1. Accept(f) /\ confirmed' = candidate'
    BY <1>5 DEF IngestStable
  <2>2. Fingerprint(candidate') = Fingerprint(f)
    BY <2>1, AcceptMoves
  <2>3. candidate'.ranks = f.ranks /\ candidate'.board = f.board
    BY <2>2 DEF Fingerprint
  <2> QED BY <2>1, <2>3 DEF ConfirmedIsCurrent, Accept
<1> QED BY <1>1, <1>2, <1>3, <1>4, <1>5 DEF Ingest

\* With a quorum of one, the confirmed state is always the tracked hand's, on its
\* longest board: no answer pairs an old hand's state with a new hand's id.
THEOREM ConfirmedCurrent == Spec => []ConfirmedIsCurrent
<1>1. Init => ConfirmedIsCurrent
  BY DEF Init, ConfirmedIsCurrent
<1>2. TypeOK /\ ConfirmedIsCurrent /\ [Next]_vars => ConfirmedIsCurrent'
  <2>1. UNCHANGED vars /\ ConfirmedIsCurrent => ConfirmedIsCurrent'
    BY DEF ConfirmedIsCurrent, vars
  <2>2. ASSUME TypeOK, ConfirmedIsCurrent, NEW f \in Readings, Ingest(f)
        PROVE  ConfirmedIsCurrent'
    BY <2>2, ReadingsAssumption, BoardLength, TypeShapes, CurrentStep
  <2> QED BY <2>1, <2>2 DEF Next
<1> QED BY <1>1, <1>2, TypeCorrect, PTL DEF Spec

-----------------------------------------------------------------------------
\* The inductive invariant behind StableBoardsGrow: a stable answer never carries
\* a later id than the tracked hand's, and within that hand its board is not
\* longer than the longest board accepted.
StableBelowBoard ==
  \A i \in DOMAIN log : StableAt(i) =>
    /\ Len(log[i].out.state.board) \in Nat
    /\ log[i].out.hand_id \in Nat
    /\ log[i].out.hand_id <= hand_id
    /\ log[i].out.hand_id = hand_id => Len(log[i].out.state.board) <= board_len

\* StableBoardsGrow and its strengthening, together inductive.
LEMMA GrowStep ==
  ASSUME Shaped, StableBelowBoard, StableBoardsGrow, NEW f, Len(f.board) \in Nat, Ingest(f)
  PROVE  StableBelowBoard' /\ StableBoardsGrow'
<1>1. CASE IngestNoHand(f) \/ IngestLowConfidence(f) \/ IngestShrink(f)
  <2>1. UNCHANGED <<hand_id, board_len>>
    BY <1>1 DEF IngestNoHand, IngestLowConfidence, IngestShrink
  <2>2. \A i \in DOMAIN log' : StableAt(i)' =>
          i \in DOMAIN log /\ log'[i] = log[i] /\ StableAt(i)
    BY <1>1, OnlyStableIsStable DEF StableAt
  <2>3. StableBelowBoard'
    BY <2>1, <2>2 DEF StableBelowBoard
  <2>4. StableBoardsGrow'
    BY <2>2 DEF StableBoardsGrow
  <2> QED BY <2>3, <2>4
<1>2. CASE IngestPending(f)
  <2>1. Accept(f)
    BY <1>2 DEF IngestPending
  <2>2. \A i \in DOMAIN log' : StableAt(i)' =>
          i \in DOMAIN log /\ log'[i] = log[i] /\ StableAt(i)
    BY <1>2, OnlyStableIsStable DEF StableAt
  <2>3. StableBelowBoard'
    <3> SUFFICES ASSUME NEW i \in DOMAIN log', StableAt(i)'
                 PROVE  /\ Len(log'[i].out.state.board) \in Nat
                        /\ log'[i].out.hand_id \in Nat
                        /\ log'[i].out.hand_id <= hand_id'
                        /\ log'[i].out.hand_id = hand_id'
                             => Len(log'[i].out.state.board) <= board_len'
      BY DEF StableBelowBoard
    <3>1. i \in DOMAIN log /\ log'[i] = log[i] /\ StableAt(i)
      BY <2>2
    <3> QED BY <2>1, <3>1, AcceptMoves DEF StableBelowBoard, Shaped
  <2>4. StableBoardsGrow'
    BY <2>2 DEF StableBoardsGrow
  <2> QED BY <2>3, <2>4
<1>3. CASE IngestStable(f)
  <2>1. Accept(f)
    BY <1>3 DEF IngestStable
  <2>2. hand_id' \in Nat
    BY <2>1, AcceptMoves
  <2>3. /\ log'[Len(log) + 1].out.hand_id = hand_id'
        /\ log'[Len(log) + 1].out.state.board = f.board
    <3>1. /\ log'[Len(log) + 1].out
               = Answer(confirmed', Differs(confirmed, f), "stable", hand_id')
          /\ Fingerprint(confirmed') = Fingerprint(f)
      BY <1>3, StableAppends
    <3>2. confirmed'.board = f.board
      BY <3>1 DEF Fingerprint
    <3> QED BY <3>1, <3>2 DEF Answer
  <2>4. StableBelowBoard'
    <3> SUFFICES ASSUME NEW i \in DOMAIN log', StableAt(i)'
                 PROVE  /\ Len(log'[i].out.state.board) \in Nat
                        /\ log'[i].out.hand_id \in Nat
                        /\ log'[i].out.hand_id <= hand_id'
                        /\ log'[i].out.hand_id = hand_id'
                             => Len(log'[i].out.state.board) <= board_len'
      BY DEF StableBelowBoard
    <3>1. CASE i \in DOMAIN log
      <4>1. log'[i] = log[i] /\ StableAt(i)
        BY <1>3, <3>1, StableAppends DEF StableAt
      <4> QED BY <2>1, <2>2, <3>1, <4>1, AcceptMoves DEF StableBelowBoard, Shaped
    <3>2. CASE i = Len(log) + 1
      BY <2>1, <2>2, <2>3, <3>2, AcceptMoves
    <3> QED BY <1>3, <3>1, <3>2, StableAppends
  <2>5. StableBoardsGrow'
    <3> SUFFICES ASSUME NEW i \in DOMAIN log', NEW j \in DOMAIN log', i < j,
                        StableAt(i)', StableAt(j)',
                        log'[i].out.hand_id = log'[j].out.hand_id
                 PROVE  Len(log'[i].out.state.board) <= Len(log'[j].out.state.board)
      BY DEF StableBoardsGrow
    <3>1. i \in DOMAIN log /\ log'[i] = log[i] /\ StableAt(i)
      BY <1>3, StableAppends DEF StableAt
    <3>2. CASE j \in DOMAIN log
      BY <1>3, <3>1, <3>2, StableAppends DEF StableBoardsGrow, StableAt
    <3>3. CASE j = Len(log) + 1
      <4>1. log[i].out.hand_id = hand_id'
        BY <2>3, <3>1, <3>3
      <4>2. Len(log[i].out.state.board) <= board_len'
        BY <2>1, <2>2, <3>1, <4>1, AcceptMoves DEF StableBelowBoard, Shaped
      <4> QED BY <2>1, <2>3, <3>1, <3>3, <4>2, AcceptMoves
    <3> QED BY <1>3, <3>2, <3>3, StableAppends
  <2> QED BY <2>4, <2>5
<1> QED BY <1>1, <1>2, <1>3 DEF Ingest

\* For any number of readings, within one hand the boards reported as stable never get
\* shorter.
THEOREM BoardsGrow == Spec => []StableBoardsGrow
<1> DEFINE IInv == StableBelowBoard /\ StableBoardsGrow
<1>1. Init => IInv
  BY DEF Init, StableBelowBoard, StableBoardsGrow
<1>2. TypeOK /\ IInv /\ [Next]_vars => IInv'
  <2>1. UNCHANGED vars /\ IInv => IInv'
    BY DEF StableBelowBoard, StableBoardsGrow, StableAt, vars
  <2>2. ASSUME TypeOK, IInv, NEW f \in Readings, Ingest(f) PROVE IInv'
    BY <2>2, ReadingsAssumption, BoardLength, TypeShapes, GrowStep
  <2> QED BY <2>1, <2>2 DEF Next
<1> QED BY <1>1, <1>2, TypeCorrect, PTL DEF Spec

-----------------------------------------------------------------------------
\* i is the last of the first n entries of the log l with a stable answer.
LastStableIn(l, i, n) ==
  /\ i \in 1..n
  /\ l[i].out.reason = "stable"
  /\ \A k \in (i + 1)..n : l[k].out.reason # "stable"

\* The j-th answer of l is marked as changed exactly when it differs from the
\* stable answer before it.
News(l, j) ==
  l[j].out.changed <=>
    \A i \in 1..(j - 1) :
      LastStableIn(l, i, j - 1) => Fingerprint(l[i].out.state) # Fingerprint(l[j].out.state)

\* The inductive invariant behind ChangedMarksNews: the confirmed state is the one
\* of the last stable answer, and there is none before the first.
ConfirmedIsLastStable ==
  /\ confirmed # None => \E i \in DOMAIN log : LastStableIn(log, i, Len(log))
  /\ \A i \in DOMAIN log :
       LastStableIn(log, i, Len(log)) => confirmed # None /\ log[i].out.state = confirmed

\* Later entries do not matter to the first n.
LEMMA LastStableKept ==
  ASSUME NEW l, NEW m, NEW n \in Nat, \A k \in 1..n : m[k] = l[k], NEW i
  PROVE  LastStableIn(m, i, n) <=> LastStableIn(l, i, n)
BY DEF LastStableIn

\* An entry is news or not whatever comes after it.
LEMMA NewsKept ==
  ASSUME NEW l, NEW m, NEW n \in Nat, \A k \in 1..n : m[k] = l[k], NEW j \in 1..n
  PROVE  News(m, j) <=> News(l, j)
<1>1. m[j] = l[j] /\ j - 1 \in Nat /\ \A k \in 1..(j - 1) : m[k] = l[k]
  OBVIOUS
<1>2. \A i : LastStableIn(m, i, j - 1) <=> LastStableIn(l, i, j - 1)
  BY <1>1, LastStableKept
<1> QED BY <1>1, <1>2 DEF News

\* The comparison with the confirmed state is the comparison with the last
\* stable answer, so "changed" marks exactly the news.
THEOREM ChangedNews == Spec => []ChangedMarksNews
<1> DEFINE AllNews == \A j \in DOMAIN log : log[j].out.reason = "stable" => News(log, j)
<1> DEFINE IInv == ConfirmedIsLastStable /\ AllNews
<1>0. AllNews => ChangedMarksNews
  BY DEF ChangedMarksNews, LastStableIn, StableAt, News
<1>1. Init => IInv
  BY DEF Init, ConfirmedIsLastStable
<1>2. TypeOK /\ IInv /\ [Next]_vars => IInv'
  <2> SUFFICES ASSUME TypeOK, IInv, [Next]_vars PROVE IInv'
    OBVIOUS
  <2>1. CASE UNCHANGED vars
    BY <2>1 DEF ConfirmedIsLastStable, vars
  <2>2. ASSUME NEW f \in Readings, Ingest(f) PROVE IInv'
    <3>0. Len(f.board) \in Nat /\ Shaped
      BY ReadingsAssumption, BoardLength, TypeShapes
    <3>1. CASE IngestNoHand(f) \/ IngestLowConfidence(f) \/ IngestShrink(f) \/ IngestPending(f)
      <4>1. /\ DOMAIN log = 1..Len(log) /\ Len(log) \in Nat
            /\ DOMAIN log' = 1..(Len(log) + 1)
            /\ \A i \in DOMAIN log : log'[i] = log[i]
            /\ log'[Len(log) + 1].out.reason # "stable"
            /\ confirmed' = confirmed
        BY <3>0, <3>1, OnlyStableIsStable
      <4>2. Len(log') = Len(log) + 1
        BY <3>0, <3>1, OnlyStableIsStable
      <4>3. \A i : LastStableIn(log', i, Len(log)) <=> LastStableIn(log, i, Len(log))
        BY <4>1, LastStableKept
      <4>4. \A i : LastStableIn(log', i, Len(log')) <=> LastStableIn(log', i, Len(log))
        BY <4>1, <4>2 DEF LastStableIn
      <4>5. ConfirmedIsLastStable'
        BY <4>1, <4>2, <4>3, <4>4 DEF ConfirmedIsLastStable, LastStableIn
      <4>6. \A j \in DOMAIN log : log'[j].out.reason = "stable" => News(log', j)
        BY <4>1, NewsKept
      <4> QED BY <4>1, <4>5, <4>6
    <3>2. CASE IngestStable(f)
      <4>1. /\ DOMAIN log = 1..Len(log) /\ Len(log) \in Nat
            /\ DOMAIN log' = 1..(Len(log) + 1)
            /\ \A i \in DOMAIN log : log'[i] = log[i]
            /\ log'[Len(log) + 1].out
                 = Answer(confirmed', Differs(confirmed, f), "stable", hand_id')
            /\ confirmed' # None
            /\ Fingerprint(confirmed') = Fingerprint(f)
        <5>1. confirmed' # None
          <6>1. Accept(f) /\ confirmed' = candidate'
            BY <3>2 DEF IngestStable
          <6> QED BY <6>1, ReadingsAssumption, AcceptType
        <5> QED BY <3>0, <3>2, <5>1, StableAppends
      <4>2. Len(log') = Len(log) + 1
        BY <3>0, <3>2, StableAppends
      <4>3. /\ log'[Len(log) + 1].out.state = confirmed'
            /\ log'[Len(log) + 1].out.reason = "stable"
            /\ log'[Len(log) + 1].out.changed = Differs(confirmed, f)
        BY <4>1 DEF Answer
      <4>4. ConfirmedIsLastStable'
        <5>1. \A i : LastStableIn(log', i, Len(log) + 1) <=> i = Len(log) + 1
          BY <4>1, <4>3 DEF LastStableIn
        <5> QED BY <4>1, <4>2, <4>3, <5>1 DEF ConfirmedIsLastStable
      <4>5. \A i : LastStableIn(log', i, Len(log)) <=> LastStableIn(log, i, Len(log))
        BY <4>1, LastStableKept
      <4>6. Differs(confirmed, f) <=>
              \A i \in 1..Len(log) : LastStableIn(log, i, Len(log))
                => Fingerprint(log[i].out.state) # Fingerprint(f)
        BY <4>1 DEF Differs, ConfirmedIsLastStable
      <4>7. News(log', Len(log) + 1)
        BY <4>1, <4>3, <4>5, <4>6 DEF News
      <4>8. \A j \in DOMAIN log : log'[j].out.reason = "stable" => News(log', j)
        BY <4>1, NewsKept
      <4> QED BY <4>1, <4>4, <4>7, <4>8
    <3> QED BY <2>2, <3>1, <3>2 DEF Ingest
  <2> QED BY <2>1, <2>2 DEF Next
<1> QED BY <1>0, <1>1, <1>2, TypeCorrect, PTL DEF Spec

-----------------------------------------------------------------------------
(* The quorum behind a stable answer *)

Counts(entry) == entry.out.reason # "board shrink"

Serves(entry, p) == Usable(entry.frame) /\ Fingerprint(entry.frame) = p

Shows(entry, f) == entry.frame = f

Counted(l, i, j) == {k \in i..j : Counts(l[k])}

\* Entries i to j of the log l hold n readings with the fingerprint p, and between them
\* only readings that were rejected for a shrinking board.
Quorum(l, i, j, n, p) ==
  /\ i \in 1..j
  /\ Cardinality(Counted(l, i, j)) >= n
  /\ \A k \in Counted(l, i, j) : Serves(l[k], p)

\* Later entries do not matter to a quorum.
LEMMA QuorumKept ==
  ASSUME NEW l, NEW m, NEW i, NEW j \in Nat, NEW n, NEW p, Quorum(l, i, j, n, p),
         \A k \in 1..j : m[k] = l[k]
  PROVE  Quorum(m, i, j, n, p)
<1>1. i \in 1..j
  BY DEF Quorum
<1>2. \A k \in i..j : m[k] = l[k]
  BY <1>1
<1>3. Counted(m, i, j) = Counted(l, i, j)
  BY <1>2 DEF Counted
<1>4. \A k \in Counted(l, i, j) : m[k] = l[k]
  BY <1>2 DEF Counted
<1> QED BY <1>3, <1>4 DEF Quorum

\* A reading rejected for a shrinking board prolongs a quorum without counting.
LEMMA QuorumSkips ==
  ASSUME NEW l, NEW i, NEW j \in Nat, NEW n, NEW p, Quorum(l, i, j, n, p),
         ~Counts(l[j + 1])
  PROVE  Quorum(l, i, j + 1, n, p)
<1>1. i \in 1..j
  BY DEF Quorum
<1>2. i..(j + 1) = (i..j) \union {j + 1}
  BY <1>1
<1>3. Counted(l, i, j + 1) = Counted(l, i, j)
  BY <1>2 DEF Counted
<1> QED BY <1>1, <1>3 DEF Quorum

\* One more reading of the same fingerprint counts.
LEMMA QuorumGrows ==
  ASSUME NEW l, NEW i, NEW j \in Nat, NEW n \in Nat, NEW p, Quorum(l, i, j, n, p),
         Counts(l[j + 1]), Serves(l[j + 1], p)
  PROVE  Quorum(l, i, j + 1, n + 1, p)
<1>0. i \in 1..j
  BY DEF Quorum
<1>1. Counted(l, i, j + 1) = Counted(l, i, j) \union {j + 1}
  <2>1. i..(j + 1) = (i..j) \union {j + 1}
    BY <1>0
  <2> QED BY <2>1 DEF Counted
<1>2. j + 1 \notin Counted(l, i, j)
  BY <1>0 DEF Counted
<1>3. IsFiniteSet(Counted(l, i, j))
  <2>1. IsFiniteSet(i..j)
    BY <1>0, FS_Interval
  <2> QED BY <2>1, FS_Subset DEF Counted
<1>4. Cardinality(Counted(l, i, j)) \in Nat
  BY <1>3, FS_CardinalityType
<1>5. Cardinality(Counted(l, i, j + 1)) = Cardinality(Counted(l, i, j)) + 1
  BY <1>1, <1>2, <1>3, FS_AddElement
<1>6. Cardinality(Counted(l, i, j)) >= n
  BY DEF Quorum
<1>7. \A k \in Counted(l, i, j + 1) : Serves(l[k], p)
  BY <1>1 DEF Quorum
<1>8. i \in 1..(j + 1) /\ Cardinality(Counted(l, i, j + 1)) >= n + 1
  BY <1>0, <1>4, <1>5, <1>6
<1> QED BY <1>7, <1>8 DEF Quorum

\* One reading is a quorum of one.
LEMMA QuorumStarts ==
  ASSUME NEW l, NEW j \in Nat, NEW p, Counts(l[j + 1]), Serves(l[j + 1], p)
  PROVE  Quorum(l, j + 1, j + 1, 1, p)
<1>1. Counted(l, j + 1, j + 1) = {j + 1}
  BY DEF Counted
<1>2. Cardinality(Counted(l, j + 1, j + 1)) >= 1
  <2>1. Cardinality({j + 1}) = 1
    BY FS_Singleton, Zenon
  <2> QED BY <1>1, <2>1
<1>3. \A k \in Counted(l, j + 1, j + 1) : Serves(l[k], p)
  BY <1>1
<1>4. j + 1 \in 1..(j + 1)
  OBVIOUS
<1> QED BY <1>2, <1>3, <1>4 DEF Quorum

\* What an entry shows of itself.
LEMMA EntryCounts ==
  ASSUME NEW f, NEW u
  PROVE  /\ Counts([frame |-> f, out |-> u]) <=> u.reason # "board shrink"
         /\ \A p : Serves([frame |-> f, out |-> u], p) <=> Usable(f) /\ Fingerprint(f) = p
         /\ Shows([frame |-> f, out |-> u], f)
BY DEF Counts, Serves, Shows

\* The candidate stands on the quorum that has been counted for it, and is the reading
\* that began it.
Standing ==
  candidate # None =>
    \E i : Quorum(log, i, Len(log), count, Fingerprint(candidate)) /\ Shows(log[i], candidate)

QuorumsBehind ==
  \A j \in DOMAIN log : StableAt(j) =>
    \E i : /\ Quorum(log, i, j, StableFrames, Fingerprint(log[j].out.state))
           /\ Shows(log[i], log[j].out.state)

\* A call that accepts its reading leaves the candidate standing.
LEMMA AcceptStands ==
  ASSUME TypeOK, Standing, NEW f \in Frame, Accept(f), NEW u, Return(f, u),
         u.reason # "board shrink"
  PROVE  \E i : /\ Quorum(log', i, Len(log) + 1, count', Fingerprint(f))
               /\ Shows(log'[i], candidate')
<1>1. /\ Len(log) \in Nat
      /\ \A k \in 1..Len(log) : log'[k] = log[k]
      /\ log'[Len(log) + 1] = [frame |-> f, out |-> u]
  BY LogGrows DEF TypeOK
<1>2. Counts(log'[Len(log) + 1])
  BY <1>1, EntryCounts
<1>3. Serves(log'[Len(log) + 1], Fingerprint(f))
  BY <1>1, EntryCounts DEF Accept
<1>4. CASE SameAsCandidate(f)
  <2>1. PICK i : Quorum(log, i, Len(log), count, Fingerprint(f)) /\ Shows(log[i], candidate)
    BY <1>4 DEF Standing, SameAsCandidate
  <2>2. Quorum(log', i, Len(log), count, Fingerprint(f))
    BY <2>1, <1>1, QuorumKept
  <2>3. count \in Nat /\ count' = count + 1
    BY <1>4 DEF Accept, TypeOK
  <2>4. Quorum(log', i, Len(log) + 1, count + 1, Fingerprint(f))
    BY <2>2, <2>3, <1>1, <1>2, <1>3, QuorumGrows
  <2>5. Shows(log'[i], candidate')
    <3>1. i \in 1..Len(log) /\ candidate' = candidate
      BY <1>4, <2>1 DEF Quorum, Accept
    <3> QED BY <1>1, <2>1, <3>1
  <2> QED BY <2>3, <2>4, <2>5
<1>5. CASE ~SameAsCandidate(f)
  <2>1. count' = 1 /\ candidate' = f
    BY <1>5 DEF Accept
  <2>2. Quorum(log', Len(log) + 1, Len(log) + 1, 1, Fingerprint(f))
    BY <1>1, <1>2, <1>3, QuorumStarts
  <2>3. Shows(log'[Len(log) + 1], f)
    BY <1>1, EntryCounts
  <2> QED BY <2>1, <2>2, <2>3
<1> QED BY <1>4, <1>5

LEMMA StandingStep ==
  ASSUME TypeOK, Standing, NEW f \in Frame, Ingest(f)
  PROVE  Standing' /\ (IngestStable(f) =>
           \E i : /\ Quorum(log', i, Len(log) + 1, StableFrames, Fingerprint(f))
                  /\ Shows(log'[i], confirmed'))
<1>1. CASE IngestNoHand(f) \/ IngestLowConfidence(f)
  <2>1. candidate' = None /\ ~Accept(f)
    BY <1>1 DEF IngestNoHand, IngestLowConfidence, ResetCandidate, Accept, Usable
  <2> QED BY <2>1 DEF Standing, IngestStable
<1>2. CASE IngestShrink(f)
  <2>1. UNCHANGED <<candidate, count>>
    BY <1>2 DEF IngestShrink
  <2>2. ~IngestStable(f)
    <3>1. Len(f.board) \in Nat /\ BoardFloor(f) \in Nat
      BY BoardLength DEF BoardFloor, TypeOK
    <3>2. Len(f.board) < BoardFloor(f)
      BY <1>2 DEF IngestShrink
    <3>3. IngestStable(f) => Len(f.board) >= BoardFloor(f)
      BY DEF IngestStable, Accept
    <3> QED BY <3>1, <3>2, <3>3
  <2>3. Return(f, Answer(confirmed, FALSE, "board shrink", hand_id))
    BY <1>2 DEF IngestShrink
  <2>4. /\ Len(log) \in Nat /\ Len(log') = Len(log) + 1
        /\ \A k \in 1..Len(log) : log'[k] = log[k]
        /\ log'[Len(log) + 1] =
             [frame |-> f, out |-> Answer(confirmed, FALSE, "board shrink", hand_id)]
    BY <2>3, LogGrows DEF TypeOK
  <2>5. ~Counts(log'[Len(log) + 1])
    <3>1. Answer(confirmed, FALSE, "board shrink", hand_id).reason = "board shrink"
      BY DEF Answer
    <3> QED BY <2>4, <3>1, EntryCounts
  <2>6. ASSUME candidate # None
        PROVE  \E i : /\ Quorum(log', i, Len(log) + 1, count, Fingerprint(candidate))
                      /\ Shows(log'[i], candidate)
    <3>1. PICK i : /\ Quorum(log, i, Len(log), count, Fingerprint(candidate))
                   /\ Shows(log[i], candidate)
      BY <2>6 DEF Standing
    <3>2. Quorum(log', i, Len(log), count, Fingerprint(candidate))
      BY <3>1, <2>4, QuorumKept
    <3>3. Quorum(log', i, Len(log) + 1, count, Fingerprint(candidate))
      BY <3>2, <2>4, <2>5, QuorumSkips
    <3>4. i \in 1..Len(log)
      BY <3>1 DEF Quorum
    <3> QED BY <2>4, <3>1, <3>3, <3>4
  <2>7. Standing'
    BY <2>1, <2>4, <2>6 DEF Standing
  <2> QED BY <2>2, <2>7
<1>3. CASE IngestPending(f) \/ IngestStable(f)
  <2>1. Accept(f)
    BY <1>3 DEF IngestPending, IngestStable
  <2>2. \E u : Return(f, u) /\ u.reason # "board shrink"
    <3>1. CASE IngestPending(f)
      <4> DEFINE u == Answer(confirmed, FALSE, "stability", hand_id')
      <4>1. Return(f, u) /\ u.reason # "board shrink"
        BY <3>1 DEF IngestPending, Answer
      <4> QED BY <4>1
    <3>2. CASE IngestStable(f)
      <4> DEFINE u == Answer(candidate', Differs(confirmed, f), "stable", hand_id')
      <4>1. Return(f, u) /\ u.reason # "board shrink"
        BY <3>2 DEF IngestStable, Answer
      <4> QED BY <4>1
    <3> QED BY <1>3, <3>1, <3>2
  <2>3. PICK u : Return(f, u) /\ u.reason # "board shrink"
    BY <2>2
  <2>4. \E i : Quorum(log', i, Len(log) + 1, count', Fingerprint(f)) /\ Shows(log'[i], candidate')
    BY <2>1, <2>3, AcceptStands
  <2>5. Len(log') = Len(log) + 1
    BY <2>3, LogGrows DEF TypeOK
  <2>6. Fingerprint(candidate') = Fingerprint(f)
    BY <2>1, AcceptType
  <2>7. Standing'
    BY <2>4, <2>5, <2>6 DEF Standing
  <2>8. ASSUME IngestStable(f)
        PROVE  \E i : /\ Quorum(log', i, Len(log) + 1, StableFrames, Fingerprint(f))
                      /\ Shows(log'[i], confirmed')
    <3>1. count' >= StableFrames /\ count' \in Nat /\ StableFrames \in Nat
      BY <2>1, <2>8, AcceptType, ConstantsAssumption DEF IngestStable
    <3>2. PICK i : Quorum(log', i, Len(log) + 1, count', Fingerprint(f)) /\ Shows(log'[i], candidate')
      BY <2>4
    <3>0. confirmed' = candidate'
      BY <2>8 DEF IngestStable
    <3>3. Len(log) \in Nat
      BY DEF TypeOK
    <3>4. IsFiniteSet(Counted(log', i, Len(log) + 1))
      <4>1. IsFiniteSet(i..(Len(log) + 1))
        BY <3>2, <3>3, FS_Interval DEF Quorum
      <4> QED BY <4>1, FS_Subset DEF Counted
    <3>5. Cardinality(Counted(log', i, Len(log) + 1)) \in Nat
      BY <3>4, FS_CardinalityType
    <3>6. Quorum(log', i, Len(log) + 1, StableFrames, Fingerprint(f))
      BY <3>1, <3>2, <3>5 DEF Quorum
    <3> QED BY <3>0, <3>2, <3>6
  <2> QED BY <2>7, <2>8
<1> QED BY <1>1, <1>2, <1>3 DEF Ingest

LEMMA QuorumsBehindHolds == Spec => []QuorumsBehind
<1> DEFINE IInv == Standing /\ QuorumsBehind
<1>1. Init => IInv
  BY DEF Init, Standing, QuorumsBehind
<1>2. TypeOK /\ IInv /\ [Next]_vars => IInv'
  <2> SUFFICES ASSUME TypeOK, Standing, QuorumsBehind, [Next]_vars PROVE IInv'
    OBVIOUS
  <2>1. CASE UNCHANGED vars
    BY <2>1 DEF Standing, QuorumsBehind, StableAt, vars
  <2>2. ASSUME NEW f \in Readings, Ingest(f) PROVE IInv'
    <3>0. f \in Frame /\ Len(f.board) \in Nat /\ Shaped
      BY ReadingsAssumption, BoardLength, TypeShapes
    <3>1. /\ Standing'
          /\ IngestStable(f) =>
               \E i : /\ Quorum(log', i, Len(log) + 1, StableFrames, Fingerprint(f))
                      /\ Shows(log'[i], confirmed')
      BY <2>2, <3>0, StandingStep
    <3>2. /\ DOMAIN log = 1..Len(log) /\ Len(log) \in Nat
          /\ DOMAIN log' = 1..(Len(log) + 1)
          /\ \A k \in DOMAIN log : log'[k] = log[k]
          /\ log'[Len(log) + 1].out.reason = "stable" =>
               /\ IngestStable(f) /\ log'[Len(log) + 1].out.state = confirmed'
               /\ Fingerprint(confirmed') = Fingerprint(f)
      <4>1. CASE IngestStable(f)
        <5>1. log'[Len(log) + 1].out.state = confirmed'
          <6>1. log'[Len(log) + 1].out
                  = Answer(confirmed', Differs(confirmed, f), "stable", hand_id')
            BY <3>0, <4>1, StableAppends
          <6> QED BY <6>1 DEF Answer
        <5> QED BY <3>0, <4>1, <5>1, StableAppends
      <4>2. CASE ~IngestStable(f)
        BY <2>2, <3>0, <4>2, OnlyStableIsStable DEF Ingest
      <4> QED BY <4>1, <4>2
    <3>3. ASSUME NEW j \in 1..Len(log), log'[j].out.reason = "stable"
          PROVE  \E i : /\ Quorum(log', i, j, StableFrames, Fingerprint(log'[j].out.state))
                        /\ Shows(log'[i], log'[j].out.state)
      <4>1. j \in Nat /\ log'[j] = log[j] /\ \A k \in 1..j : log'[k] = log[k]
        BY <3>2, <3>3
      <4>2. PICK i : /\ Quorum(log, i, j, StableFrames, Fingerprint(log[j].out.state))
                     /\ Shows(log[i], log[j].out.state)
        BY <3>2, <3>3, <4>1 DEF QuorumsBehind, StableAt
      <4>3. Quorum(log', i, j, StableFrames, Fingerprint(log[j].out.state))
        BY <4>1, <4>2, QuorumKept
      <4>4. i \in 1..j
        BY <4>2 DEF Quorum
      <4> QED BY <4>1, <4>2, <4>3, <4>4
    <3>4. QuorumsBehind'
      BY <3>1, <3>2, <3>3 DEF QuorumsBehind, StableAt
    <3> QED BY <3>1, <3>4
  <2> QED BY <2>1, <2>2 DEF Next
<1> HIDE DEF IInv
<1>3. IInv => QuorumsBehind
  BY DEF IInv
<1> QED BY <1>1, <1>2, <1>3, TypeCorrect, PTL DEF Spec

\* For every quorum and any interleaving of lost, unsure, shrinking and foreign readings,
\* a stable answer has its quorum of readings of exactly that state behind it.
THEOREM QuorumHolds == Spec => []QuorumBehindStable
<1>1. QuorumsBehind => QuorumBehindStable
  <2> SUFFICES ASSUME QuorumsBehind, NEW j \in DOMAIN log, StableAt(j)
               PROVE  \E i \in 1..j :
                        /\ Cardinality(CountedIn(i, j)) >= StableFrames
                        /\ \A k \in CountedIn(i, j) :
                             /\ Usable(log[k].frame)
                             /\ Fingerprint(log[k].frame) = Fingerprint(log[j].out.state)
    BY DEF QuorumBehindStable
  <2>1. PICK i : Quorum(log, i, j, StableFrames, Fingerprint(log[j].out.state))
    BY DEF QuorumsBehind
  <2>2. CountedIn(i, j) = Counted(log, i, j)
    BY DEF CountedIn, Counted, Counts
  <2> QED BY <2>1, <2>2 DEF Quorum, Serves
<1> QED BY <1>1, QuorumsBehindHolds, PTL

-----------------------------------------------------------------------------
(* The hand id counts the changes of rank *)

Used(entry) == Usable(entry.frame)

RanksIn(entry) == entry.frame.ranks

\* i is the last usable one of the first n entries of l.
LastUsed(l, i, n) ==
  /\ i \in 1..n
  /\ Used(l[i])
  /\ \A k \in (i + 1)..n : ~Used(l[k])

\* The ranks of entry j are not those of the usable entry before it.
ChangeAt(l, j) ==
  /\ Used(l[j])
  /\ \A i \in 1..(j - 1) : LastUsed(l, i, j - 1) => RanksIn(l[i]) # RanksIn(l[j])

ChangesIn(l, n) == {j \in 1..n : ChangeAt(l, j)}

\* Later entries do not matter.
LEMMA LastUsedKept ==
  ASSUME NEW l, NEW m, NEW n \in Nat, \A k \in 1..n : m[k] = l[k], NEW i
  PROVE  LastUsed(m, i, n) <=> LastUsed(l, i, n)
BY DEF LastUsed

LEMMA ChangesKept ==
  ASSUME NEW l, NEW m, NEW n \in Nat, \A k \in 1..n : m[k] = l[k]
  PROVE  ChangesIn(m, n) = ChangesIn(l, n)
<1> SUFFICES ASSUME NEW j \in 1..n PROVE ChangeAt(m, j) <=> ChangeAt(l, j)
  BY DEF ChangesIn
<1>1. m[j] = l[j] /\ j - 1 \in Nat /\ \A k \in 1..(j - 1) : m[k] = l[k]
  OBVIOUS
<1>2. \A i : LastUsed(m, i, j - 1) <=> LastUsed(l, i, j - 1)
  BY <1>1, LastUsedKept
<1> QED BY <1>1, <1>2 DEF ChangeAt

\* One more entry is one more change, or none.
LEMMA ChangesGrow ==
  ASSUME NEW l, NEW n \in Nat
  PROVE  /\ Cardinality(ChangesIn(l, n)) \in Nat
         /\ Cardinality(ChangesIn(l, n + 1)) =
              IF ChangeAt(l, n + 1) THEN Cardinality(ChangesIn(l, n)) + 1
              ELSE Cardinality(ChangesIn(l, n))
<1>1. IsFiniteSet(ChangesIn(l, n))
  <2>1. IsFiniteSet(1..n)
    BY FS_Interval
  <2> QED BY <2>1, FS_Subset DEF ChangesIn
<1>2. n + 1 \notin ChangesIn(l, n)
  BY DEF ChangesIn
<1>3. CASE ChangeAt(l, n + 1)
  <2>1. ChangesIn(l, n + 1) = ChangesIn(l, n) \union {n + 1}
    BY <1>3 DEF ChangesIn
  <2> QED BY <1>1, <1>2, <1>3, <2>1, FS_AddElement, FS_CardinalityType
<1>4. CASE ~ChangeAt(l, n + 1)
  <2>1. ChangesIn(l, n + 1) = ChangesIn(l, n)
    BY <1>4 DEF ChangesIn
  <2> QED BY <1>1, <1>4, <2>1, FS_CardinalityType
<1> QED BY <1>3, <1>4

\* The ranks tracked are those of the last usable reading.
TracksLastUsed ==
  /\ \A i : LastUsed(log, i, Len(log)) => RanksIn(log[i]) = hero_ranks
  /\ hero_ranks # NoCards => \E i : LastUsed(log, i, Len(log))

\* A usable reading is tracked, also when its board is rejected; no other one is.
LEMMA IngestTracks ==
  ASSUME Shaped, NEW f, Len(f.board) \in Nat, Ingest(f)
  PROVE  /\ \E u : Return(f, u)
         /\ IF Usable(f)
            THEN /\ hero_ranks' = f.ranks
                 /\ hand_id' = IF f.ranks # hero_ranks THEN hand_id + 1 ELSE hand_id
            ELSE hero_ranks' = hero_ranks /\ hand_id' = hand_id
<1>1. CASE IngestNoHand(f)
  BY <1>1 DEF IngestNoHand, Usable
<1>2. CASE IngestLowConfidence(f)
  BY <1>2 DEF IngestLowConfidence, Usable
<1>3. CASE IngestShrink(f)
  <2>0. Len(f.board) < BoardFloor(f)
    BY <1>3 DEF IngestShrink
  <2>1. /\ Return(f, Answer(confirmed, FALSE, "board shrink", hand_id))
        /\ UNCHANGED <<hero_ranks, hand_id>>
    BY <1>3 DEF IngestShrink
  <2>2. ~IsNewHand(f)
    <3>1. IsNewHand(f) => BoardFloor(f) = 0
      BY DEF BoardFloor
    <3> QED BY <2>0, <3>1
  <2> QED BY <2>1, <2>2 DEF IsNewHand
<1>4. CASE IngestPending(f)
  BY <1>4 DEF IngestPending, Accept, HandIdOf, IsNewHand
<1>5. CASE IngestStable(f)
  BY <1>5 DEF IngestStable, Accept, HandIdOf, IsNewHand
<1> QED BY <1>1, <1>2, <1>3, <1>4, <1>5 DEF Ingest

LEMMA EntryShows ==
  ASSUME NEW f, NEW u
  PROVE  /\ Used([frame |-> f, out |-> u]) <=> Usable(f)
         /\ RanksIn([frame |-> f, out |-> u]) = f.ranks
BY DEF Used, RanksIn

LEMMA CountStep ==
  ASSUME Shaped, TracksLastUsed, hand_id = Cardinality(ChangesIn(log, Len(log))),
         NEW f, Len(f.board) \in Nat, Ingest(f)
  PROVE  TracksLastUsed' /\ hand_id' = Cardinality(ChangesIn(log', Len(log')))
<1> DEFINE n == Len(log)
<1>1. PICK u : Return(f, u)
  BY IngestTracks
<1>2. /\ n \in Nat
      /\ \A k \in 1..n : log'[k] = log[k]
      /\ Len(log') = n + 1
      /\ log'[n + 1] = [frame |-> f, out |-> u]
  BY <1>1, LogGrows DEF Shaped
<1>3. /\ Used(log'[n + 1]) <=> Usable(f)
      /\ RanksIn(log'[n + 1]) = f.ranks
  BY <1>2, EntryShows
<1> HIDE DEF n
<1>4. \A i : LastUsed(log', i, n) <=> LastUsed(log, i, n)
  BY <1>2, LastUsedKept
<1>5. /\ Cardinality(ChangesIn(log', n)) = hand_id /\ hand_id \in Nat
      /\ Cardinality(ChangesIn(log', n + 1)) =
           IF ChangeAt(log', n + 1) THEN hand_id + 1 ELSE hand_id
  <2>1. ChangesIn(log', n) = ChangesIn(log, n)
    BY <1>2, ChangesKept
  <2> QED BY <1>2, <2>1, ChangesGrow DEF n
<1>6. TracksLastUsed' <=>
        /\ \A i : LastUsed(log', i, n + 1) => RanksIn(log'[i]) = hero_ranks'
        /\ hero_ranks' # NoCards => \E i : LastUsed(log', i, n + 1)
  BY <1>2 DEF TracksLastUsed
<1>7. CASE ~Usable(f)
  <2>1. \A i : LastUsed(log', i, n + 1) <=> LastUsed(log, i, n)
    <3>1. \A i : LastUsed(log', i, n + 1) <=> LastUsed(log', i, n)
      BY <1>2, <1>3, <1>7 DEF LastUsed
    <3> QED BY <1>4, <3>1
  <2>2. hero_ranks' = hero_ranks /\ hand_id' = hand_id
    BY <1>7, IngestTracks
  <2>3. \A i : LastUsed(log, i, n) => i \in 1..n /\ log'[i] = log[i]
    BY <1>2 DEF LastUsed
  <2>4. ~ChangeAt(log', n + 1)
    BY <1>3, <1>7 DEF ChangeAt
  <2>5. TracksLastUsed'
    BY <1>6, <2>1, <2>2, <2>3 DEF TracksLastUsed, n
  <2> QED BY <1>2, <1>5, <2>2, <2>4, <2>5
<1>8. CASE Usable(f)
  <2>1. \A i : LastUsed(log', i, n + 1) <=> i = n + 1
    BY <1>2, <1>3, <1>8 DEF LastUsed
  <2>2. /\ hero_ranks' = f.ranks
        /\ hand_id' = IF f.ranks # hero_ranks THEN hand_id + 1 ELSE hand_id
    BY <1>8, IngestTracks
  <2>3. TracksLastUsed'
    BY <1>3, <1>6, <2>1, <2>2
  <2>4. ChangeAt(log', n + 1) <=> \A i : LastUsed(log, i, n) => RanksIn(log[i]) # f.ranks
    <3>1. \A i : LastUsed(log, i, n) => i \in 1..n /\ log'[i] = log[i]
      BY <1>2 DEF LastUsed
    <3>2. (n + 1) - 1 = n
      BY <1>2
    <3> QED BY <1>3, <1>4, <1>8, <3>1, <3>2 DEF ChangeAt
  <2>5. f.ranks # NoCards
    BY <1>8 DEF Usable
  <2>6. ChangeAt(log', n + 1) <=> f.ranks # hero_ranks
    BY <2>4, <2>5 DEF TracksLastUsed, n
  <2> QED BY <1>2, <1>5, <2>2, <2>3, <2>6
<1> QED BY <1>7, <1>8

\* The changes found in the log are the changes of rank.
LEMMA ChangesCounted ==
  Shaped /\ hand_id = Cardinality(ChangesIn(log, Len(log))) => HandIdCountsRankChanges
<1> SUFFICES ASSUME Shaped, hand_id = Cardinality(ChangesIn(log, Len(log)))
             PROVE  HandIdCountsRankChanges
  OBVIOUS
<1>1. DOMAIN log = 1..Len(log)
  BY DEF Shaped
<1>2. \A j \in 1..Len(log) : RanksChangeAt(j) <=> ChangeAt(log, j)
  BY DEF RanksChangeAt, ChangeAt, LastUsed, Used, RanksIn
<1>3. {j \in DOMAIN log : RanksChangeAt(j)} = ChangesIn(log, Len(log))
  BY <1>1, <1>2 DEF ChangesIn
<1> QED BY <1>3 DEF HandIdCountsRankChanges

CountsChanges == TracksLastUsed /\ hand_id = Cardinality(ChangesIn(log, Len(log)))

LEMMA CountsAtFirst == Init => CountsChanges
<1> SUFFICES ASSUME Init PROVE CountsChanges
  OBVIOUS
<1>1. Len(log) = 0 /\ hero_ranks = NoCards /\ hand_id = 0
  BY DEF Init
<1>2. ChangesIn(log, Len(log)) = {} /\ \A i : ~LastUsed(log, i, Len(log))
  BY <1>1 DEF ChangesIn, LastUsed
<1> QED BY <1>1, <1>2, FS_EmptySet DEF TracksLastUsed, CountsChanges

\* For any number of readings: hand_id is the number of usable readings whose ranks
\* are not those of the usable reading before.
THEOREM HandIdCounts == Spec => []HandIdCountsRankChanges
<1>1. TypeOK /\ CountsChanges /\ [Next]_vars => CountsChanges'
  <2>1. UNCHANGED vars /\ CountsChanges => CountsChanges'
    BY DEF TracksLastUsed, CountsChanges, vars
  <2>2. ASSUME TypeOK, CountsChanges, NEW f \in Readings, Ingest(f) PROVE CountsChanges'
    BY <2>2, ReadingsAssumption, BoardLength, TypeShapes, CountStep DEF CountsChanges
  <2> QED BY <2>1, <2>2 DEF Next
<1>2. TypeOK /\ CountsChanges => HandIdCountsRankChanges
  BY TypeShapes, ChangesCounted DEF CountsChanges
<1> QED BY <1>1, <1>2, CountsAtFirst, TypeCorrect, PTL DEF Spec
=============================================================================
