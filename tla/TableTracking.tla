---------------------------- MODULE TableTracking ----------------------------
(***************************************************************************)
(* The hand machine in front of a real table.  The dealer deals hands and  *)
(* streets; the camera reads the table, truly or with a disturbance; every *)
(* reading goes through HandFsm!Ingest.  The question is which             *)
(* disturbances the machine recovers from: after StableFrames true         *)
(* readings in a row of an unchanged table, does it report that table?     *)
(***************************************************************************)
EXTENDS HandFsm, SequencesExt

CONSTANTS
  Disturbances,  \* the disturbances that may occur, out of DisturbanceKinds
  RepeatRanks,   \* may two consecutive hands have the same ranks?
  MaxHands       \* bound on the number of hands dealt

DisturbanceKinds == {"lost", "unsure", "short board", "wrong ranks", "long board"}

ASSUME TableAssumption ==
  /\ Disturbances \subseteq DisturbanceKinds
  /\ RepeatRanks \in BOOLEAN
  /\ MaxHands \in Nat \ {0}
  /\ <<>> \in Boards /\ Views # {} /\ Marks # {}
  /\ Readings = Frame

VARIABLES
  table,  \* the hand on the table: the hero's ranks and the board
  hands,  \* hands dealt so far
  agree,  \* true readings in a row since the last change or disturbance
  seen    \* for each disturbance, the last hand it occurred in, or 0

tvars == <<vars, table, hands, agree, seen>>

View == CHOOSE v \in Views : TRUE

Mark == CHOOSE m \in Marks : TRUE

Reading(ranks, board, sure) ==
  [ranks |-> ranks, board |-> board, view |-> View, sure |-> sure, marks |-> Mark]

TrueReading == Reading(table.ranks, table.board, TRUE)

\* What a reading of the table with disturbance d shows.
Disturbed(d, ranks, board, sure) ==
  \/ d = "lost" /\ ranks = NoCards /\ board = table.board /\ sure
  \/ d = "unsure" /\ ranks = table.ranks /\ board = table.board /\ ~sure
  \/ d = "short board" /\ ranks = table.ranks /\ IsStrictPrefix(board, table.board) /\ sure
  \/ d = "wrong ranks" /\ ranks \notin {table.ranks, NoCards} /\ board = table.board /\ sure
  \/ d = "long board" /\ ranks = table.ranks /\ IsStrictPrefix(table.board, board) /\ sure

TInit ==
  /\ Init
  /\ table \in [ranks : Ranks, board : {<<>>}]
  /\ hands = 1
  /\ agree = 0
  /\ seen = [d \in DisturbanceKinds |-> 0]

ReadTruly ==
  /\ Ingest(TrueReading)
  /\ agree' = agree + 1
  /\ UNCHANGED <<table, hands, seen>>

ReadDisturbed ==
  /\ \E d \in Disturbances :
       /\ \E ranks \in Ranks \cup {NoCards}, board \in Boards, sure \in BOOLEAN :
            Disturbed(d, ranks, board, sure) /\ Ingest(Reading(ranks, board, sure))
       /\ seen' = [seen EXCEPT ![d] = hands]
  /\ agree' = 0
  /\ UNCHANGED <<table, hands>>

\* The next street: 0 -> 3 -> 4 -> 5 cards.
NextStreet ==
  /\ \E b \in Boards :
       /\ IsStrictPrefix(table.board, b)
       /\ Len(b) = IF table.board = <<>> THEN 3 ELSE Len(table.board) + 1
       /\ table' = [table EXCEPT !.board = b]
  /\ agree' = 0
  /\ UNCHANGED <<vars, hands, seen>>

\* The next hand.  The last reading of the old one was a true one.
NextHand ==
  /\ agree > 0
  /\ hands < MaxHands
  /\ \E r \in Ranks :
       /\ r # table.ranks \/ RepeatRanks
       /\ table' = [ranks |-> r, board |-> <<>>]
  /\ hands' = hands + 1
  /\ agree' = 0
  /\ UNCHANGED <<vars, seen>>

TNext == ReadTruly \/ ReadDisturbed \/ NextStreet \/ NextHand

TSpec == TInit /\ [][TNext]_tvars

-----------------------------------------------------------------------------
LastAnswer == log[Len(log)].out

\* Enough true readings in a row of an unchanged table are reported as that table,
\* whatever lost, unsure, shortened or wrong-ranked readings came before them, and
\* whatever at all happened to the hands before this one.
TracksTheTable ==
  (agree >= StableFrames /\ seen["long board"] < hands) =>
    /\ LastAnswer.reason = "stable"
    /\ LastAnswer.state.ranks = table.ranks
    /\ LastAnswer.state.board = table.board

\* As long as the ranks are never misread, the hand id is the number of the hand
\* on the table: neither disturbances nor new streets start a hand, every deal does.
HandIdFollowsTable ==
  (agree > 0 /\ seen["wrong ranks"] = 0) => hand_id = hands
=============================================================================
