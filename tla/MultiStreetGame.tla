--------------------------- MODULE MultiStreetGame ---------------------------
(***************************************************************************)
(* The betting rules of poker-cfr-python (multi_street_game.py): a hand of *)
(* Streets betting rounds with an ante of 1 and one bet of 1 per round.  A *)
(* history is one list of actions per street; every street is there from   *)
(* the start.                                                              *)
(***************************************************************************)
EXTENDS Integers, Sequences, SequencesExt, FiniteSets, FiniteSetsExt

CONSTANT Streets  \* 4 in the code

Players == {0, 1}

NoActions == [s \in 1..Streets |-> <<>>]

\* available_actions, in the order of the code.
Actions(h) == IF Contains(h, "b") THEN <<"f", "c">> ELSE <<"k", "b">>

CurrentPlayer(h) == Len(h) % 2

\* Faulty variant: a check after a check, or any call, but the bet may come second.
OverAtSecond(h) == Contains(h, "f") \/ Len(h) = 2

\* is_street_terminal
StreetOver(h) ==
  Contains(h, "f") \/ h \in {<<"k", "k">>, <<"b", "c">>, <<"k", "b", "c">>}

\* is_terminal
IsTerminal(hist) ==
  (\E s \in 1..Streets : Contains(hist[s], "f")) \/ StreetOver(hist[Streets])

\* _player_investment_in_street
InvestedIn(h, player) ==
  Cardinality({i \in DOMAIN h : (i - 1) % 2 = player /\ h[i] \in {"b", "c"}})

\* investment: the ante and all the streets
Investment(hist, player) ==
  1 + MapThenSumSet(LAMBDA s : InvestedIn(hist[s], player), 1..Streets)

FoldedIn(hist) == {s \in 1..Streets : Contains(hist[s], "f")}

\* who_folded, for a hand that somebody folded
WhoFolded(hist) ==
  LET h == hist[Min(FoldedIn(hist))] IN (Min({i \in DOMAIN h : h[i] = "f"}) - 1) % 2

\* payoff.  winner is 0, 1, or 2 for a tie.
Payoff(winner, hist, player) ==
  LET won == IF FoldedIn(hist) # {} THEN 1 - WhoFolded(hist) ELSE winner
  IN  IF won = 2 THEN 0
      ELSE IF won = player THEN Investment(hist, 1 - player)
      ELSE -Investment(hist, player)
=============================================================================
