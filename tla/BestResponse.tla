----------------------------- MODULE BestResponse -----------------------------
(***************************************************************************)
(* How poker-cfr-python measures a trained strategy (exploitability.py):   *)
(* the value of a hand when both players follow the strategy, and when one *)
(* of them answers it with the best action at every turn.                  *)
(*                                                                         *)
(* One hand is looked at, as the code does: the cards, and with them the   *)
(* winner, are fixed, so that of a node's key (street, bucket, actions of  *)
(* the street) only street and actions tell two nodes apart.  A strategy   *)
(* is the weight of the first action, a number of parts of One: half of    *)
(* them is the uniform strategy that stands in for a node the training     *)
(* never reached.  Values are scaled by Scale, which keeps them whole.     *)
(***************************************************************************)
EXTENDS BettingGame, FiniteSets, FiniteSetsExt

CONSTANTS
  One,     \* parts that the weights of a node's two actions add up to
  Weights, \* weights of the first action
  Scale    \* what a chip is worth, in the unit of the values

\* A street has three decisions at most, and each divides by One.
ASSUME ValuesAssumption ==
  /\ One \in Nat \ {0}
  /\ Weights \subseteq 0..One
  /\ Scale \in Nat \ {0}
  /\ Scale % (One ^ (3 * Streets)) = 0

\* The lines of a street that go on, and those that are over.
StreetLines == {<<>>, <<"k">>, <<"b">>, <<"k", "b">>}
StreetEnds == {<<"k", "k">>, <<"b", "f">>, <<"b", "c">>, <<"k", "b", "f">>, <<"k", "b", "c">>}

\* make_key, without the bucket
Keys == (1..Streets) \X StreetLines

\* A history and the street being played: what the recursions are called with.
Positions == [1..Streets -> StreetLines \cup StreetEnds] \X (1..Streets)

\* The values of both players' nodes are those of player 0: player_to_eval is always 0.
Leaf(won, hist) == Scale * Multi!Payoff(won, hist, 0)

\* The position after the first or the second action.
Played(at, a) ==
  <<[at[1] EXCEPT ![at[2]] = Append(@, Multi!Actions(at[1][at[2]])[a])], at[2]>>

NextStreet(at) == <<at[1], at[2] + 1>>

Key(at) == <<at[2], at[1][at[2]]>>

\* Two values in these proportions.
Mixed(first, x, y) == (first * x + (One - first) * y) \div One

\* _value_of_cfr_strategy.  play[<<street, actions>>] is the weight of the first action.
ValueOfStrategy(won, play) ==
  LET value[at \in Positions] ==
        IF Multi!IsTerminal(at[1]) THEN Leaf(won, at[1])
        ELSE IF Multi!StreetOver(at[1][at[2]]) THEN value[NextStreet(at)]
        ELSE Mixed(play[Key(at)], value[Played(at, 1)], value[Played(at, 2)])
  IN  value

\* Faulty variant: the search for the best action starts at a value of 0.
ResponseFromZero(won, play, responder) ==
  LET value[at \in Positions] ==
        IF Multi!IsTerminal(at[1]) THEN Leaf(won, at[1])
        ELSE IF Multi!StreetOver(at[1][at[2]]) THEN value[NextStreet(at)]
        ELSE IF Multi!CurrentPlayer(at[1][at[2]]) = responder
        THEN Max({0, value[Played(at, 1)], value[Played(at, 2)]})
        ELSE Mixed(play[Key(at)], value[Played(at, 1)], value[Played(at, 2)])
  IN  value

\* _value_of_best_response: whoever responds, it is the value of player 0 that is made
\* as large as possible.
ValueOfResponse(won, play, responder) ==
  LET value[at \in Positions] ==
        IF Multi!IsTerminal(at[1]) THEN Leaf(won, at[1])
        ELSE IF Multi!StreetOver(at[1][at[2]]) THEN value[NextStreet(at)]
        ELSE IF Multi!CurrentPlayer(at[1][at[2]]) = responder
        THEN Max({value[Played(at, 1)], value[Played(at, 2)]})
        ELSE Mixed(play[Key(at)], value[Played(at, 1)], value[Played(at, 2)])
  IN  value

Strategies == [Keys -> Weights]

-----------------------------------------------------------------------------
\* The keys at which player p decides, from street s on.
KeysOf(p, s) == {k \in Keys : k[1] >= s /\ Multi!CurrentPlayer(k[2]) = p}

\* What player p could do instead, from street s on.
Deviations(play, p, s) ==
  {[k \in Keys |-> IF k \in KeysOf(p, s) THEN d[k] ELSE play[k]] :
     d \in [KeysOf(p, s) -> {0, One}]}

InHand == game = "multi" /\ Deciding

Here == <<line, street>>

\* The response of player 0 is worth exactly as much as the best of all his plans, found
\* by trying them: on the last street, where a plan cannot depend on the streets before.
\* On earlier streets it is worth no less than any.
ResponseIsBest ==
  InHand => \A play \in Strategies :
    LET best == Max({ValueOfStrategy(winner, d)[Here] : d \in Deviations(play, 0, street)})
        response == ValueOfResponse(winner, play, 0)[Here]
    IN  response >= best /\ (street = Streets => response = best)

\* "exploitability_p1: how much p1 can gain by deviating" (exploitability.py:146), and a
\* best response gains no less than going on as before.  The response of player 1 is
\* chosen to suit player 0, so what is reported as a gain is never positive.
DeviatingNeverCosts ==
  (game = "multi" /\ line = Multi!NoActions) => \A play \in Strategies :
    ValueOfStrategy(winner, play)[Here] - ValueOfResponse(winner, play, 1)[Here] >= 0
=============================================================================
