----------------------------- MODULE BettingGame -----------------------------
(***************************************************************************)
(* The three betting trees of the repository, walked from the first token  *)
(* to the end of the hand the way their trainers walk them (vanilla_cfr in *)
(* poker-assistant/engine/base.py, cfr in poker-cfr-python/                *)
(* multi_street_trainer.py): terminal, else chance or a new street, else   *)
(* one action of the player to act.                                        *)
(*                                                                         *)
(* Beside the history, which is all that the code keeps, this module keeps *)
(* the chips as a dealer would: what each player has in the pot, and who   *)
(* folded.  The code reads both off the history at the end.                *)
(***************************************************************************)
EXTENDS Integers, Sequences, SequencesExt

CONSTANTS
  Games,    \* the trees to walk, out of the three
  Streets,  \* streets of the multi-street game
  MaxLength \* bound on the length of a line

ASSUME GamesAssumption ==
  /\ Games \subseteq {"multi", "preflop", "postflop"}
  /\ Streets \in Nat \ {0}
  /\ MaxLength \in Nat

VARIABLES
  game,    \* the tree
  line,    \* its history
  street,  \* the street being played, for "multi"
  winner,  \* who has the better hand: 0, 1, or 2 for a tie
  chips,   \* chips[p]: what player p has put into the pot
  matched, \* chips each player had in the pot when the street began
  folded,  \* who folded, or 2
  acted    \* who has acted since cards came

bvars == <<game, line, street, winner, chips, matched, folded, acted>>

Pre == INSTANCE PreflopHoldem
Post == INSTANCE PostflopHoldem
Multi == INSTANCE MultiStreetGame

BInit ==
  /\ game \in Games
  /\ line = IF game = "multi" THEN Multi!NoActions ELSE <<>>
  /\ street = 1
  /\ winner \in 0..2
  \* the antes; the big blind of player 0 and the small blind of player 1; a limped pot
  /\ chips = CASE game = "multi" -> [p \in {0, 1} |-> 1]
               [] game = "preflop" -> [p \in {0, 1} |-> IF p = 0 THEN 2 ELSE 1]
               [] game = "postflop" -> [p \in {0, 1} |-> 2]
  /\ matched = IF game = "postflop" THEN 2 ELSE 0
  /\ folded = 2
  /\ acted = {}

-----------------------------------------------------------------------------
Terminal ==
  CASE game = "multi" -> Multi!IsTerminal(line)
    [] game = "preflop" -> Pre!IsTerminal(line)
    [] game = "postflop" -> Post!IsTerminal(line)

\* No player is to act: cards are dealt, or the next street begins.
Chance ==
  CASE game = "multi" -> Multi!StreetOver(line[street])
    [] game = "preflop" -> Pre!IsChance(line)
    [] game = "postflop" -> Post!IsChance(line)

Deciding == ~Terminal /\ ~Chance

Player ==
  CASE game = "multi" -> Multi!CurrentPlayer(line[street])
    [] game = "preflop" -> Pre!Player(line)
    [] game = "postflop" -> Post!Player(line)

Actions ==
  CASE game = "multi" -> ToSet(Multi!Actions(line[street]))
    [] game = "preflop" -> Pre!Actions(line)
    [] game = "postflop" -> Post!Actions(line)

\* What player p gets, doubled.
TwiceUtility(p) ==
  CASE game = "multi" -> 2 * Multi!Payoff(winner, line, p)
    [] game = "preflop" -> Pre!TwiceUtility(line, winner, p)
    [] game = "postflop" -> Post!TwiceUtility(line, winner, p)

-----------------------------------------------------------------------------
\* What the actions mean, in chips that player p has in the pot afterwards.
Wager(p, a) ==
  LET pot == chips[0] + chips[1]
      other == chips[1 - p]
  IN  CASE a \in {"k", "f"} -> chips[p]
        [] a = "c" -> other
        [] a = "b" -> chips[p] + 1
        \* before the flop a raise is to the pot, twice the pot, or all there is
        [] game = "preflop" /\ a = "bMIN" -> pot
        [] game = "preflop" /\ a = "bMID" -> 2 * pot
        [] game = "preflop" /\ a = "bMAX" -> 100
        \* after it a bet is a third of the pot the street began with, or all of it
        [] game = "postflop" /\ a = "bMIN" ->
             matched + (IF (2 * matched) \div 3 > 2 THEN (2 * matched) \div 3 ELSE 2)
        [] game = "postflop" /\ a = "bMAX" -> matched + 2 * matched

Size == IF game = "multi" THEN Len(line[street]) ELSE Len(line)

\* The first action after cards came.
Opens == IF game = "multi" THEN line[street] = <<>> ELSE Last(line) \in {"hand", "cards"}

Act(a) ==
  /\ Deciding
  /\ Size < MaxLength
  /\ a \in Actions
  /\ line' = IF game = "multi" THEN [line EXCEPT ![street] = Append(@, a)] ELSE Append(line, a)
  /\ chips' = [chips EXCEPT ![Player] = Wager(Player, a)]
  /\ folded' = IF a = "f" THEN Player ELSE folded
  /\ acted' = IF Opens THEN {Player} ELSE acted \union {Player}
  /\ UNCHANGED <<game, street, winner, matched>>

\* Chance, or the step to the next street.
Deal ==
  /\ ~(Terminal \/ Deciding)
  /\ Size < MaxLength
  /\ IF game = "multi" THEN street' = street + 1 /\ UNCHANGED line
     ELSE /\ line' = Append(line, IF game = "preflop" THEN Pre!ChanceToken(line)
                                  ELSE Post!ChanceToken(line))
          /\ UNCHANGED street
  /\ matched' = IF game = "postflop" THEN chips[0] ELSE matched
  /\ UNCHANGED <<game, winner, chips, folded, acted>>

BNext == Deal \/ \E a \in {"k", "b", "f", "c", "bMIN", "bMID", "bMAX"} : Act(a)

\* A trainer walks on until the line ends.
BSpec == BInit /\ [][BNext]_bvars /\ WF_bvars(BNext)

-----------------------------------------------------------------------------
Loser == IF folded # 2 THEN folded ELSE 1 - winner

\* The utility that the code reads off a finished history is what the players won and
\* lost in chips: the loser, who is the one that folded if anybody did, loses exactly
\* what he put in, the other wins it, and nobody wins a tie.  The preflop tree is held to
\* this at showdowns: its folds are settled by an approximation.
SettlesInChips ==
  (Terminal /\ (game = "preflop" => folded = 2)) =>
    IF folded = 2 /\ winner = 2 THEN \A p \in {0, 1} : TwiceUtility(p) = 0
    ELSE /\ TwiceUtility(Loser) = -2 * chips[Loser]
         /\ TwiceUtility(1 - Loser) = 2 * chips[Loser]

\* No street closes on an open bet: unless somebody folded, both players have the same
\* chips in the pot whenever cards come and when the hand is over.
BetsAreMatched ==
  (folded = 2 /\ Len(line) >= 2 /\ (Terminal \/ Chance)) => chips[0] = chips[1]

\* No street closes over a player's head: unless somebody folded, both have acted on it,
\* the big blind after a limp included.
EverybodyActs ==
  (folded = 2 /\ acted # {} /\ (Terminal \/ Chance)) => acted = {0, 1}

\* Every line of every tree ends.
EveryLineEnds == <>Terminal
=============================================================================
