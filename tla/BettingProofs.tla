---------------------------- MODULE BettingProofs ----------------------------
(***************************************************************************)
(* No street of any of the three betting trees closes on an open bet or    *)
(* over a player's head, and every line settles in the chips that went in, *)
(* however many streets the hand has and however long its lines become.    *)
(* The payoffs are read off the history by sums and folds; the second part *)
(* shows, action by action, that these run along with the chips.  The last *)
(* part is about the values of a strategy and of the best response to it.  *)
(***************************************************************************)
EXTENDS BestResponse, FoldProofs, SequenceTheorems, TLAPS

Tokens == {"hand", "cards", "/", "k", "b", "f", "c", "bMIN", "bMID", "bMAX"}
Raises == {"bMIN", "bMID", "bMAX"}
Bets == {"bMIN", "bMAX"}

Level == chips[0] = chips[1]

Shape ==
  /\ game \in {"multi", "preflop", "postflop"}
  /\ street \in 1..Streets
  /\ game = "multi" => line \in [1..Streets -> Seq(Tokens)]
  /\ game # "multi" => line \in Seq(Tokens)
  /\ chips = [p \in {0, 1} |-> chips[p]]
  /\ acted \subseteq {0, 1}
  /\ folded \in 0..2

\* The multi-street game: the seven lines a street can have without a fold, with the
\* chips and the players that each of them leaves.
MultiStreet ==
  /\ \A s \in (street + 1)..Streets : line[s] = <<>>
  /\ folded = 2 =>
       /\ \A s \in 1..(street - 1) : ~Multi!Contains(line[s], "f")
       /\ \/ line[street] = <<>> /\ Level
          \/ line[street] = <<"k">> /\ Level /\ acted = {0}
          \/ line[street] = <<"b">> /\ acted = {0}
          \/ line[street] = <<"k", "b">> /\ acted = {0, 1}
          \/ /\ line[street] \in {<<"k", "k">>, <<"b", "c">>, <<"k", "b", "c">>}
             /\ Level
             /\ acted = {0, 1}

\* Before the flop: chips are level unless a raise is the last word, and both have acted
\* from the second action on.
Preflop ==
  /\ Len(line) \in {1, 2} => Last(line) = "hand"
  /\ Len(line) <= 2 => acted = {}
  /\ Len(line) = 3 => acted = {1} /\ Last(line) \in Raises \union {"c", "f"}
  /\ (folded = 2 /\ Len(line) >= 3) =>
       /\ Last(line) \notin {"f", "hand"}
       /\ Last(line) \in Raises \/ Level
  /\ (folded = 2 /\ Len(line) >= 4) => acted = {0, 1}

\* The place where the street of a line starts.
StartsAt(h, i) == h[i] = "/" /\ \A j \in (i + 1)..Len(h) : h[j] # "/"

\* After the flop: chips are level unless a bet is the last word, whoever spoke last
\* has acted, and both have when the street is over.
Postflop ==
  /\ Len(line) <= 3 => acted = {}
  /\ Len(line) >= 3 => \E i \in DOMAIN line : StartsAt(line, i)
  /\ folded = 2 =>
       /\ Level \/ (line # <<>> /\ Last(line) \in Bets)
       /\ line # <<>> =>
            /\ Last(line) # "f"
            /\ Last(line) \in Bets \union {"k"} =>
                 Len(line) >= 4 /\ 1 - Post!Player(line) \in acted
            /\ Post!StageEnded(line) => acted = {0, 1}
            /\ Last(line) = "/" => acted \in {{}, {0, 1}}

BInv ==
  /\ Shape
  /\ game = "multi" => MultiStreet
  /\ game = "preflop" => Preflop
  /\ game = "postflop" => Postflop

-----------------------------------------------------------------------------
\* The invariant holds before the first card.
LEMMA InvHoldsAtFirst == BInit => BInv
<1> SUFFICES ASSUME BInit PROVE BInv
  OBVIOUS
<1>1. Shape
  BY GamesAssumption DEF BInit, Shape, Multi!NoActions, Tokens
<1>2. game = "multi" => MultiStreet
  BY GamesAssumption DEF BInit, MultiStreet, Multi!NoActions, Level
<1>3. game = "preflop" => Preflop
  BY DEF BInit, Preflop
<1>4. game = "postflop" => Postflop
  BY DEF BInit, Postflop, Level
<1> QED
  BY <1>1, <1>2, <1>3, <1>4 DEF BInv

-----------------------------------------------------------------------------
(* What the tree's name selects. *)

\* For the multi-street game: its own operators.
LEMMA OfMulti ==
  game = "multi" =>
    /\ Terminal <=> Multi!IsTerminal(line)
    /\ Chance <=> Multi!StreetOver(line[street])
    /\ Player = Multi!CurrentPlayer(line[street])
    /\ Actions = ToSet(Multi!Actions(line[street]))
  BY Zenon DEF Terminal, Chance, Player, Actions

\* For the tree before the flop.
LEMMA OfPreflop ==
  game = "preflop" =>
    /\ Terminal <=> Pre!IsTerminal(line)
    /\ Chance <=> Pre!IsChance(line)
    /\ Player = Pre!Player(line)
    /\ Actions = Pre!Actions(line)
  BY Zenon DEF Terminal, Chance, Player, Actions

\* For the tree after it.
LEMMA OfPostflop ==
  game = "postflop" =>
    /\ Terminal <=> Post!IsTerminal(line)
    /\ Chance <=> Post!IsChance(line)
    /\ Player = Post!Player(line)
    /\ Actions = Post!Actions(line)
  BY Zenon DEF Terminal, Chance, Player, Actions

\* A street starts with checks, and a bet is only called or folded to.
LEMMA MultiActions ==
  \A h : ToSet(Multi!Actions(h)) = IF Multi!Contains(h, "b") THEN {"f", "c"} ELSE {"k", "b"}
  BY DEF Multi!Actions, ToSet

\* A check is not open to the player who faces a raise, nor to the first to act.
LEMMA PreflopActions ==
  \A h : /\ Pre!Actions(h) \subseteq Raises \union {"k", "f", "c"}
         /\ "k" \in Pre!Actions(h) => Last(h) \notin Raises \union {"hand"}
<1> SUFFICES ASSUME NEW h
             PROVE  /\ Pre!Actions(h) \subseteq Raises \union {"k", "f", "c"}
                    /\ "k" \in Pre!Actions(h) => Last(h) \notin Raises \union {"hand"}
  OBVIOUS
<1>1. Pre!Last(h) = Last(h)
  BY DEF Pre!Last, Last
<1>2. /\ Last(h) = "hand" => Pre!Actions(h) = {"c", "bMIN", "bMID", "bMAX", "f"}
      /\ Last(h) = "bMIN" => Pre!Actions(h) = {"bMID", "bMAX", "f", "c"}
      /\ Last(h) = "bMID" => Pre!Actions(h) = {"bMAX", "f", "c"}
      /\ Last(h) = "bMAX" => Pre!Actions(h) = {"f", "c"}
      /\ Last(h) \notin {"hand", "bMIN", "bMID", "bMAX"} =>
           Pre!Actions(h) = {"k", "bMIN", "bMID", "bMAX"}
  BY <1>1, Zenon DEF Pre!Actions
<1> QED
  BY <1>2 DEF Raises

\* A sequence of two is the tuple of its elements.
LEMMA Two ==
  ASSUME NEW S, NEW q \in Seq(S), Len(q) = 2
  PROVE  q = <<q[1], q[2]>>
<1> DEFINE t == <<q[1], q[2]>>
<1>1. t \in Seq(S) /\ Len(t) = 2 /\ t[1] = q[1] /\ t[2] = q[2]
  <2>1. q[1] \in S /\ q[2] \in S
    BY ElementOfSeq
  <2> QED
    BY <2>1
<1> HIDE DEF t
<1>2. q = t
  BY <1>1, SeqEqual
<1> QED
  BY <1>2 DEF t

\* The same for three.
LEMMA Three ==
  ASSUME NEW S, NEW q \in Seq(S), Len(q) = 3
  PROVE  q = <<q[1], q[2], q[3]>>
<1> DEFINE t == <<q[1], q[2], q[3]>>
<1>1. t \in Seq(S) /\ Len(t) = 3 /\ t[1] = q[1] /\ t[2] = q[2] /\ t[3] = q[3]
  <2>1. \A i \in 1..3 : q[i] \in S
    BY ElementOfSeq
  <2> QED
    BY <2>1
<1> HIDE DEF t
<1>2. q = t
  <2>1. \A i \in 1..3 : q[i] = t[i]
    BY <1>1
  <2> QED
    BY <1>1, <2>1, SeqEqual
<1> QED
  BY <1>2 DEF t

\* Appending to a tuple gives the longer tuple.
LEMMA Longer ==
  ASSUME NEW x, NEW y, NEW z
  PROVE  Append(<<x>>, y) = <<x, y>> /\ Append(<<x, y>>, z) = <<x, y, z>>
<1>1. Append(<<x>>, y) = <<x, y>>
  <2> DEFINE q == Append(<<x>>, y)
  <2>1. q \in Seq({x, y, z}) /\ Len(q) = 2 /\ q[1] = x /\ q[2] = y
    OBVIOUS
  <2> HIDE DEF q
  <2>2. q = <<q[1], q[2]>>
    BY <2>1, Two
  <2> QED
    BY <2>1, <2>2 DEF q
<1>2. Append(<<x, y>>, z) = <<x, y, z>>
  <2> DEFINE q == Append(<<x, y>>, z)
  <2>1. q \in Seq({x, y, z}) /\ Len(q) = 3 /\ q[1] = x /\ q[2] = y /\ q[3] = z
    OBVIOUS
  <2> HIDE DEF q
  <2>2. q = <<q[1], q[2], q[3]>>
    BY <2>1, Three
  <2> QED
    BY <2>1, <2>2 DEF q
<1> QED
  BY <1>1, <1>2

\* The last two tokens.
LEMMA Endings ==
  ASSUME NEW h \in Seq(Tokens), NEW x, NEW y
  PROVE  Post!EndsWith(h, <<x, y>>) <=> (Len(h) >= 2 /\ h[Len(h) - 1] = x /\ h[Len(h)] = y)
<1>1. CASE Len(h) >= 2
  <2> DEFINE q == SubSeq(h, Len(h) - 1, Len(h))
  <2>1. /\ q \in Seq(Tokens) /\ Len(q) = 2
        /\ q[1] = h[Len(h) - 1] /\ q[2] = h[Len(h)]
    BY <1>1, SubSeqProperties
  <2> HIDE DEF q
  <2>2. q = <<q[1], q[2]>>
    BY <2>1, Two
  <2>3. q = <<x, y>> <=> (q[1] = x /\ q[2] = y)
    BY <2>2
  <2>4. Post!EndsWith(h, <<x, y>>) <=> q = <<x, y>>
    BY <1>1 DEF Post!EndsWith, q
  <2> QED
    BY <1>1, <2>1, <2>3, <2>4
<1> QED
  BY <1>1 DEF Post!EndsWith

\* A call or a fold answers a bet, a check never does, and only the great bet answers
\* the small one.
LEMMA PostflopActions ==
  \A h \in Seq(Tokens) :
    /\ Post!Actions(h) \subseteq Bets \union {"k", "f", "c"}
    /\ {"k", "bMIN"} \cap Post!Actions(h) # {} => Last(h) \notin Bets
    /\ {"f", "c"} \cap Post!Actions(h) # {} => Last(h) \in Bets
    /\ "bMAX" \in Post!Actions(h) => Last(h) # "bMAX"
<1> SUFFICES ASSUME NEW h \in Seq(Tokens)
             PROVE  /\ Post!Actions(h) \subseteq Bets \union {"k", "f", "c"}
                    /\ {"k", "bMIN"} \cap Post!Actions(h) # {} => Last(h) \notin Bets
                    /\ {"f", "c"} \cap Post!Actions(h) # {} => Last(h) \in Bets
                    /\ "bMAX" \in Post!Actions(h) => Last(h) # "bMAX"
  OBVIOUS
<1> DEFINE small == Post!EndsWith(h, <<"k", "bMIN">>)
<1>1. Post!Last(h) = Last(h)
  BY DEF Post!Last, Last
<1>2. small => Last(h) = "bMIN"
  BY Endings DEF Last
<1>3. /\ (small \/ Last(h) = "bMAX") => Post!Actions(h) = {"f", "c"}
      /\ (Last(h) = "bMIN" /\ ~small) => Post!Actions(h) = {"bMAX", "f", "c"}
      /\ Last(h) \notin {"bMIN", "bMAX"} => Post!Actions(h) = {"k", "bMIN", "bMAX"}
  BY <1>1, <1>2, Zenon DEF Post!Actions
<1> QED
  BY <1>2, <1>3 DEF Bets

-----------------------------------------------------------------------------
(* What an action does to the chips. *)

\* A call levels the chips, and a check leaves them alone.
LEMMA Wagers ==
  ASSUME Shape, NEW a, Act(a), Player \in {0, 1}
  PROVE  /\ chips' = [p \in {0, 1} |-> chips'[p]]
         /\ a = "c" => Level'
         /\ (a = "k" /\ Level) => Level'
<1>1. chips' = [chips EXCEPT ![Player] = Wager(Player, a)]
  BY Zenon DEF Act
<1>2. chips = [p \in {0, 1} |-> chips[p]]
  BY DEF Shape
<1>3. chips' = [p \in {0, 1} |-> chips'[p]]
  BY <1>1, <1>2
<1>4. ASSUME a = "c" PROVE Level'
  <2>1. Wager(Player, a) = chips[1 - Player]
    BY <1>4, Zenon DEF Wager
  <2> QED
    BY <1>1, <1>2, <2>1 DEF Level
<1>5. ASSUME a = "k", Level PROVE Level'
  <2>1. Wager(Player, a) = chips[Player]
    BY <1>5, Zenon DEF Wager
  <2> QED
    BY <1>1, <1>2, <1>5, <2>1 DEF Level
<1> QED
  BY <1>3, <1>4, <1>5

\* Even and odd alternate.
LEMMA Parity == \A n \in Nat : n % 2 \in {0, 1} /\ (n + 1) % 2 = 1 - (n % 2)
  OBVIOUS

\* The street of a line has a length.
LEMMA StreetHasLength ==
  ASSUME NEW h \in Seq(Tokens), \E i \in DOMAIN h : StartsAt(h, i)
  PROVE  Post!StageStart(h) \in DOMAIN h /\ Post!StageLength(h) \in Nat
<1>1. Post!StageStart(h) \in DOMAIN h
  BY DEF StartsAt, Post!StageStart
<1> QED
  BY <1>1 DEF Post!StageLength

\* Whoever is to act is one of the two players.
LEMMA PlayerIsOne ==
  ASSUME BInv, Deciding
  PROVE  Player \in {0, 1}
<1>1. CASE game = "multi"
  <2>1. Len(line[street]) \in Nat
    BY <1>1 DEF BInv, Shape
  <2> QED
    BY <1>1, <2>1, OfMulti, Parity DEF Multi!CurrentPlayer
<1>2. CASE game = "preflop"
  <2>1. Len(line) + 1 \in Nat
    BY <1>2 DEF BInv, Shape
  <2> QED
    BY <1>2, <2>1, OfPreflop, Parity DEF Pre!Player
<1>3. CASE game = "postflop"
  <2>1. line \in Seq(Tokens) /\ ~(Len(line) <= 3)
    BY <1>3, OfPostflop DEF BInv, Shape, Deciding, Post!IsChance
  <2>2. Post!StageLength(line) + 1 \in Nat
    BY <1>3, <2>1, StreetHasLength DEF BInv, Postflop
  <2> QED
    BY <1>3, <2>2, OfPostflop, Parity DEF Post!Player
<1> QED
  BY <1>1, <1>2, <1>3 DEF BInv, Shape

-----------------------------------------------------------------------------
(* The steps. *)

\* An action is a token, and leaves everything of its kind.
LEMMA ActKeepsShape ==
  ASSUME BInv, NEW a, Act(a)
  PROVE  Shape' /\ a \in Tokens
<1>1. Player \in {0, 1}
  BY PlayerIsOne DEF Act
<1>2. a \in Tokens
  <2>1. CASE game = "multi"
    BY <2>1, OfMulti, MultiActions DEF Act, Tokens
  <2>2. CASE game = "preflop"
    BY <2>2, OfPreflop, PreflopActions DEF Act, Tokens, Raises
  <2>3. CASE game = "postflop"
    BY <2>3, OfPostflop, PostflopActions DEF BInv, Shape, Act, Tokens, Bets
  <2> QED
    BY <2>1, <2>2, <2>3 DEF BInv, Shape
<1>3. chips' = [p \in {0, 1} |-> chips'[p]]
  BY <1>1, Wagers DEF BInv
<1>4. acted' \subseteq {0, 1} /\ folded' \in 0..2
  BY <1>1 DEF BInv, Shape, Act
<1>5. game' = game /\ street' = street /\ street \in 1..Streets
  BY DEF BInv, Shape, Act
<1>6. game = "multi" => line' \in [1..Streets -> Seq(Tokens)]
  BY <1>2, <1>5 DEF BInv, Shape, Act
<1>7. game # "multi" => line' \in Seq(Tokens)
  BY <1>2 DEF BInv, Shape, Act
<1> QED
  BY <1>2, <1>3, <1>4, <1>5, <1>6, <1>7 DEF BInv, Shape

\* One action of the multi-street game: the seven lines of a street lead to one another.
LEMMA MultiAct ==
  ASSUME BInv, game = "multi", NEW a, Act(a)
  PROVE  MultiStreet'
<1> DEFINE h == line[street]
<1>1. /\ line \in [1..Streets -> Seq(Tokens)] /\ street \in 1..Streets /\ Streets \in Nat
      /\ h \in Seq(Tokens)
  BY GamesAssumption DEF BInv, Shape
<1>2. line' = [line EXCEPT ![street] = Append(h, a)] /\ street' = street
  BY DEF Act
<1>3. \A s \in (street + 1)..Streets : line'[s] = <<>>
  BY <1>1, <1>2 DEF BInv, MultiStreet
<1>4. ASSUME folded' = 2
      PROVE  /\ \A s \in 1..(street - 1) : ~Multi!Contains(line'[s], "f")
             /\ \/ line'[street] = <<>> /\ Level'
                \/ line'[street] = <<"k">> /\ Level' /\ acted' = {0}
                \/ line'[street] = <<"b">> /\ acted' = {0}
                \/ line'[street] = <<"k", "b">> /\ acted' = {0, 1}
                \/ /\ line'[street] \in {<<"k", "k">>, <<"b", "c">>, <<"k", "b", "c">>}
                   /\ Level'
                   /\ acted' = {0, 1}
  <2>1. Player \in {0, 1} /\ Player = Len(h) % 2
    BY PlayerIsOne, OfMulti DEF Act, Multi!CurrentPlayer
  <2>2. folded = 2 /\ a # "f"
    <3>1. folded' = IF a = "f" THEN Player ELSE folded
      BY Zenon DEF Act
    <3>2. Player \in {0, 1}
      BY PlayerIsOne DEF Act
    <3> QED
      BY <1>4, <3>1, <3>2
  <2>3. a \in (IF Multi!Contains(h, "b") THEN {"f", "c"} ELSE {"k", "b"})
    BY OfMulti, MultiActions DEF Act
  <2>4. h \notin {<<"k", "k">>, <<"b", "c">>, <<"k", "b", "c">>}
    BY OfMulti DEF Act, Deciding, Multi!StreetOver
  <2>5. /\ h = <<>> => acted' = {Player}
        /\ h # <<>> => acted' = acted \union {Player}
    <3>1. Opens <=> h = <<>>
      BY DEF Opens
    <3>2. acted' = IF Opens THEN {Player} ELSE acted \union {Player}
      BY Zenon DEF Act
    <3> QED
      BY <3>1, <3>2
  <2>6. (a = "c" => Level') /\ ((a = "k" /\ Level) => Level')
    BY <2>1, Wagers DEF BInv
  <2>7. line'[street] = Append(h, a)
    BY <1>1, <1>2
  <2>8. \A s \in 1..(street - 1) : line'[s] = line[s]
    BY <1>1, <1>2
  <2>9. \A s \in 1..(street - 1) : ~Multi!Contains(line'[s], "f")
    BY <2>2, <2>8 DEF BInv, MultiStreet
  <2> HIDE DEF h
  <2>10. CASE h = <<>> /\ Level
    <3>1. a \in {"k", "b"} /\ Player = 0
      BY <2>1, <2>3, <2>10 DEF Multi!Contains
    <3>2. Append(h, a) = <<a>> /\ acted' = {0}
      BY <2>5, <2>10, <3>1
    <3> QED
      BY <2>6, <2>7, <2>9, <2>10, <3>1, <3>2
  <2>11. CASE h = <<"k">> /\ Level /\ acted = {0}
    <3>1. a \in {"k", "b"} /\ Player = 1
      BY <2>1, <2>3, <2>11 DEF Multi!Contains
    <3>2. Append(h, a) = <<"k", a>> /\ h # <<>>
      BY <2>11, <3>1, Longer
    <3>3. acted' = {0, 1}
      BY <2>5, <2>11, <3>1, <3>2
    <3> QED
      BY <2>6, <2>7, <2>9, <2>11, <3>1, <3>2, <3>3
  <2>12. CASE h = <<"b">> /\ acted = {0}
    <3>1. a = "c" /\ Player = 1
      BY <2>1, <2>2, <2>3, <2>12 DEF Multi!Contains
    <3>2. Append(h, a) = <<"b", "c">> /\ h # <<>>
      BY <2>12, <3>1, Longer
    <3>3. acted' = {0, 1}
      BY <2>5, <2>12, <3>1, <3>2
    <3> QED
      BY <2>6, <2>7, <2>9, <3>1, <3>2, <3>3
  <2>13. CASE h = <<"k", "b">> /\ acted = {0, 1}
    <3>1. a = "c" /\ Player = 0
      BY <2>1, <2>2, <2>3, <2>13 DEF Multi!Contains
    <3>2. Append(h, a) = <<"k", "b", "c">> /\ h # <<>>
      BY <2>13, <3>1, Longer
    <3>3. acted' = {0, 1}
      BY <2>5, <2>13, <3>1, <3>2
    <3> QED
      BY <2>6, <2>7, <2>9, <3>1, <3>2, <3>3
  <2> QED
    BY <2>2, <2>4, <2>10, <2>11, <2>12, <2>13 DEF BInv, MultiStreet, h
<1> QED
  BY <1>2, <1>3, <1>4 DEF MultiStreet

\* The next street of the multi-street game begins empty.
LEMMA MultiDeal ==
  ASSUME BInv, game = "multi", Deal
  PROVE  BInv'
<1>1. /\ line \in [1..Streets -> Seq(Tokens)] /\ street \in 1..Streets /\ Streets \in Nat
  BY GamesAssumption DEF BInv, Shape
<1>2. /\ ~Multi!IsTerminal(line) /\ Multi!StreetOver(line[street])
      /\ street' = street + 1
      /\ UNCHANGED <<game, line, chips, folded, acted>>
  BY OfMulti DEF Deal, Deciding
<1>3. street' \in 1..Streets
  BY <1>1, <1>2 DEF Multi!IsTerminal
<1>4. Shape'
  BY <1>2, <1>3 DEF BInv, Shape
<1>5. MultiStreet'
  <2>1. \A s \in (street' + 1)..Streets : line'[s] = <<>>
    BY <1>1, <1>2 DEF BInv, MultiStreet
  <2>2. \A s \in 1..(street' - 1) : ~Multi!Contains(line'[s], "f")
    BY <1>1, <1>2 DEF Multi!IsTerminal
  <2>3. line'[street'] = <<>>
    BY <1>1, <1>2, <1>3 DEF BInv, MultiStreet
  <2>4. folded = 2 => Level
    <3> SUFFICES ASSUME folded = 2 PROVE Level
      OBVIOUS
    <3>1. ~Multi!Contains(line[street], "f")
      BY <1>1, <1>2 DEF Multi!IsTerminal
    <3>2. line[street] \in {<<"k", "k">>, <<"b", "c">>, <<"k", "b", "c">>}
      BY <1>2, <3>1 DEF Multi!StreetOver
    <3>3. line[street] \notin {<<"b">>, <<"k", "b">>}
      BY <3>2
    <3> QED
      BY <3>3 DEF BInv, MultiStreet
  <2> QED
    BY <1>2, <2>1, <2>2, <2>3, <2>4 DEF MultiStreet, Level
<1> QED
  BY <1>2, <1>4, <1>5 DEF BInv

\* A line and the line with one more token.
LEMMA Appended ==
  ASSUME NEW h \in Seq(Tokens), NEW a \in Tokens
  PROVE  /\ Append(h, a) \in Seq(Tokens) /\ Append(h, a) # <<>>
         /\ Len(Append(h, a)) = Len(h) + 1
         /\ \A i \in 1..Len(h) : Append(h, a)[i] = h[i]
         /\ Append(h, a)[Len(h) + 1] = a
         /\ Last(Append(h, a)) = a
  BY AppendProperties DEF Last

\* What an action does beside the chips.
LEMMA Acting ==
  ASSUME BInv, game # "multi", NEW a, Act(a)
  PROVE  /\ game' = game
         /\ line \in Seq(Tokens) /\ a \in Tokens /\ line' = Append(line, a)
         /\ Player \in {0, 1}
         /\ a = "f" => folded' # 2
         /\ folded' = 2 => folded = 2
         /\ Last(line) \in {"hand", "cards"} => acted' = {Player}
         /\ Last(line) \notin {"hand", "cards"} => acted' = acted \union {Player}
<1>1. Player \in {0, 1}
  BY PlayerIsOne DEF Act
<1>2. folded' = IF a = "f" THEN Player ELSE folded
  BY Zenon DEF Act
<1>3. acted' = IF Opens THEN {Player} ELSE acted \union {Player}
  BY Zenon DEF Act
<1>4. Opens <=> Last(line) \in {"hand", "cards"}
  BY DEF Opens
<1>5. game' = game /\ line' = Append(line, a)
  BY Zenon DEF Act
<1>6. line \in Seq(Tokens) /\ a \in Tokens
  BY ActKeepsShape DEF BInv, Shape
<1>7. (a = "f" => folded' # 2) /\ (folded' = 2 => folded = 2)
  BY <1>1, <1>2
<1> QED
  BY <1>1, <1>3, <1>4, <1>5, <1>6, <1>7

\* One action before the flop.
LEMMA PreflopAct ==
  ASSUME BInv, game = "preflop", NEW a, Act(a)
  PROVE  Preflop'
<1>1. /\ line \in Seq(Tokens) /\ a \in Tokens /\ line' = Append(line, a)
      /\ a = "f" => folded' # 2
      /\ folded' = 2 => folded = 2
      /\ Last(line) \in {"hand", "cards"} => acted' = {Player}
      /\ Last(line) \notin {"hand", "cards"} => acted' = acted \union {Player}
  BY Acting
<1>0. PICK n \in Nat : n = Len(line)
  BY <1>1
<1>2. Last(line) # "cards" /\ Len(line) >= 2 /\ Last(line) # "/" /\ ~Pre!StageEnded(line)
  BY <1>0, <1>1, OfPreflop DEF Act, Deciding, Pre!IsTerminal, Pre!IsChance, Pre!Last, Last
<1>3. a \in Raises \union {"k", "f", "c"} /\ (a = "k" => Last(line) \notin Raises \union {"hand"})
  BY OfPreflop, PreflopActions DEF Act
<1>4. Len(line') = Len(line) + 1 /\ Last(line') = a
  BY <1>0, <1>1, Appended
<1>5. Player = (Len(line) + 1) % 2
  BY OfPreflop DEF Pre!Player
<1>6. (a = "c" => Level') /\ ((a = "k" /\ Level) => Level')
  BY PlayerIsOne, Wagers DEF BInv, Act
<1>7. Preflop
  BY DEF BInv
<1>8. Len(line') = 3 => acted' = {1} /\ Last(line') \in Raises \union {"c", "f"}
  <2> SUFFICES ASSUME Len(line') = 3
               PROVE  acted' = {1} /\ Last(line') \in Raises \union {"c", "f"}
    OBVIOUS
  <2>0. n + 1 = 3
    BY Zenon, <1>0, <1>4
  <2>2. n = 2
    BY <2>0
  <2>1. Last(line) = "hand" /\ Player = 1
    BY <1>0, <1>5, <1>7, <2>2 DEF Preflop
  <2>3. a \in Raises \union {"c", "f"}
    BY <1>3, <2>1
  <2> QED
    BY <1>1, <1>4, <2>1, <2>3
<1>9. ASSUME folded' = 2
      PROVE  a \notin {"f", "hand"} /\ (a \in Raises \/ Level')
  <2>1. a \in Raises \union {"k", "c"}
    BY <1>0, <1>1, <1>3, <1>9
  <2>2. a = "k" => Level
    <3> SUFFICES ASSUME a = "k" PROVE Level
      OBVIOUS
    <3>1. Len(line) >= 3
      <4>1. Last(line) # "hand"
        BY <1>0, <1>3
      <4> QED
        BY <1>0, <1>2, <1>4, <1>7, <4>1 DEF Preflop
    <3>2. Last(line) \notin Raises /\ folded = 2
      BY <1>0, <1>1, <1>3, <1>9
    <3> QED
      BY <1>0, <1>7, <3>1, <3>2 DEF Preflop
  <2> QED
    BY <1>0, <1>6, <2>1, <2>2 DEF Raises
<1>10. ASSUME folded' = 2, Len(line') >= 4
       PROVE  acted' = {0, 1}
  <2>1. Last(line) \notin {"hand", "cards"} /\ Len(line) >= 3
    BY <1>0, <1>1, <1>2, <1>4, <1>7, <1>10 DEF Preflop
  <2>2. acted' = acted \union {Player}
    BY <1>0, <1>1, <2>1
  <2>3. CASE Len(line) = 3
    <3>1. Player = 0 /\ acted = {1}
      BY <1>0, <1>5, <1>7, <2>3 DEF Preflop
    <3> QED
      BY <1>0, <2>2, <3>1
  <2>4. CASE Len(line) >= 4
    <3>1. acted = {0, 1} /\ Player \in {0, 1}
      BY <1>0, <1>1, <1>7, <1>10, <2>4, Acting DEF Preflop
    <3> QED
      BY <1>0, <2>2, <3>1
  <2> QED
    BY <1>0, <1>4, <2>1, <2>3, <2>4
<1> QED
  BY <1>0, <1>1, <1>2, <1>4, <1>8, <1>9, <1>10 DEF Preflop

\* The token that chance appends, and what it leaves alone.
LEMMA Dealing ==
  ASSUME BInv, game # "multi", Deal
  PROVE  /\ ~Terminal /\ Chance
         /\ line' = Append(line, IF game = "preflop" THEN Pre!ChanceToken(line)
                                 ELSE Post!ChanceToken(line))
         /\ UNCHANGED <<game, street, chips, folded, acted>>
  BY DEF Deal, Deciding

\* Cards before the flop: the two hands, and the board when the betting is over.
LEMMA PreflopDeal ==
  ASSUME BInv, game = "preflop", Deal
  PROVE  Shape' /\ Preflop'
<1> DEFINE t == Pre!ChanceToken(line)
<1>1. /\ line' = Append(line, t) /\ UNCHANGED <<game, street, chips, folded, acted>>
      /\ ~Pre!IsTerminal(line) /\ Pre!IsChance(line)
  BY Dealing, OfPreflop
<1>2. line \in Seq(Tokens) /\ Preflop
  BY DEF BInv, Shape
<1>0. PICK n \in Nat : n = Len(line)
  BY <1>2
<1>3. t = IF Len(line) < 2 THEN "hand" ELSE IF Last(line) = "/" THEN "cards" ELSE "/"
  BY DEF Pre!ChanceToken, Pre!Last, Last
<1> HIDE DEF t
<1>4. t \in Tokens
  BY <1>0, <1>3 DEF Tokens
<1>5. line' \in Seq(Tokens) /\ Len(line') = Len(line) + 1 /\ Last(line') = t
  BY <1>0, <1>1, <1>2, <1>4, Appended
<1>6. Shape'
  BY <1>0, <1>1, <1>5 DEF BInv, Shape
<1>7. ASSUME Len(line) < 2 PROVE Preflop'
  <2>1. t = "hand" /\ acted = {}
    BY <1>0, <1>2, <1>3, <1>7 DEF Preflop
  <2>2. Len(line') \in 1..2 /\ Last(line') = "hand" /\ acted' = {}
    BY <1>0, <1>1, <1>2, <1>5, <1>7, <2>1
  <2> QED
    BY <1>0, <1>5, <1>7, <2>2 DEF Preflop
<1>8. ASSUME Len(line) >= 2 PROVE Preflop'
  <2>1. Last(line) \in {"c", "f", "k", "/"} /\ (Last(line) = "c" => Len(line) > 3)
    BY <1>0, <1>1, <1>8 DEF Pre!IsChance, Pre!StageEnded, Pre!Last, Last
  <2>2. Len(line) >= 3
    <3>1. Last(line) # "hand"
      BY <1>0, <2>1
    <3> QED
      BY <1>0, <1>2, <1>8, <3>1 DEF Preflop
  <2>5. Len(line) = 3 => Last(line) = "f"
    <3> SUFFICES ASSUME Len(line) = 3 PROVE Last(line) = "f"
      OBVIOUS
    <3>1. Last(line) \in Raises \union {"c", "f"} /\ Last(line) # "c"
      BY <1>0, <1>2, <2>1 DEF Preflop
    <3> QED
      BY <1>0, <2>1, <3>1 DEF Raises
  <2>3. t \in {"/", "cards"}
    BY <1>0, <1>3, <1>8
  <2>4. folded = 2 => Len(line) >= 4 /\ Level
    <3> SUFFICES ASSUME folded = 2 PROVE Len(line) >= 4 /\ Level
      OBVIOUS
    <3>1. Last(line) # "f" /\ (Last(line) \in Raises \/ Level)
      BY <1>0, <1>2, <2>2 DEF Preflop
    <3>2. Last(line) \notin Raises
      BY <1>0, <2>1 DEF Raises
    <3> QED
      BY <1>0, <1>2, <2>2, <2>5, <3>1, <3>2
  <2>6. folded = 2 => acted = {0, 1}
    BY <1>0, <1>2, <2>4 DEF Preflop
  <2>7. Len(line') >= 4 /\ Last(line') \notin {"f", "hand"}
    BY <1>0, <1>2, <1>5, <2>2, <2>3
  <2>8. Level => Level'
    BY <1>0, <1>1 DEF Level
  <2> QED
    BY <1>0, <1>1, <1>5, <2>2, <2>4, <2>6, <2>7, <2>8 DEF Preflop
<1> QED
  BY <1>0, <1>2, <1>6, <1>7, <1>8

\* A line has one place where its street starts.
LEMMA OneStart ==
  ASSUME NEW h \in Seq(Tokens), NEW i \in DOMAIN h, NEW j \in DOMAIN h, StartsAt(h, i), StartsAt(h, j)
  PROVE  i = j
<1>0. PICK n \in Nat : n = Len(h) /\ DOMAIN h = 1..n
  OBVIOUS
<1>1. ~(i < j)
  BY <1>0 DEF StartsAt
<1>2. ~(j < i)
  BY <1>0 DEF StartsAt
<1> QED
  BY <1>0, <1>1, <1>2

\* Whoever speaks, the other one is next.
LEMMA TurnsPass ==
  ASSUME NEW h \in Seq(Tokens), \E i \in DOMAIN h : StartsAt(h, i), NEW a \in Tokens, a # "/"
  PROVE  /\ \E i \in DOMAIN Append(h, a) : StartsAt(Append(h, a), i)
         /\ Post!Player(h) \in {0, 1}
         /\ Post!Player(Append(h, a)) = 1 - Post!Player(h)
<1> DEFINE g == Append(h, a)
<1>0. PICK n \in Nat : n = Len(h) /\ DOMAIN h = 1..n
  OBVIOUS
<1>1. /\ g \in Seq(Tokens) /\ Len(g) = n + 1 /\ DOMAIN g = 1..(n + 1)
      /\ \A i \in 1..n : g[i] = h[i]
      /\ g[n + 1] = a
  BY <1>0, Appended
<1>2. PICK i \in DOMAIN h : StartsAt(h, i)
  OBVIOUS
<1> HIDE DEF g
<1>3. i \in DOMAIN g /\ StartsAt(g, i)
  BY <1>0, <1>1, <1>2 DEF StartsAt
<1>4. Post!StageStart(h) = i
  <2>1. Post!StageStart(h) \in DOMAIN h /\ StartsAt(h, Post!StageStart(h))
    BY <1>2 DEF StartsAt, Post!StageStart
  <2> QED
    BY <1>2, <2>1, OneStart
<1>5. Post!StageStart(g) = i
  <2>1. Post!StageStart(g) \in DOMAIN g /\ StartsAt(g, Post!StageStart(g))
    BY <1>3 DEF StartsAt, Post!StageStart
  <2> QED
    BY <1>1, <1>3, <2>1, OneStart
<1>6. i \in 1..n /\ Post!StageLength(h) = n - i /\ Post!StageLength(g) = n + 1 - i
  BY <1>0, <1>1, <1>4, <1>5 DEF Post!StageLength
<1>7. (n - i + 1) % 2 \in {0, 1} /\ (n + 1 - i + 1) % 2 = 1 - ((n - i + 1) % 2)
  <2>1. n - i + 1 \in Nat /\ n + 1 - i + 1 = (n - i + 1) + 1
    BY <1>6
  <2> QED
    BY <2>1, Parity
<1>8. Post!Player(h) \in {0, 1} /\ Post!Player(g) = 1 - Post!Player(h)
  <2>1. Post!Player(h) = (n - i + 1) % 2
    BY <1>6 DEF Post!Player
  <2>2. Post!Player(g) = (n + 1 - i + 1) % 2
    BY <1>6 DEF Post!Player
  <2> QED
    BY <1>7, <2>1, <2>2
<1> QED
  BY <1>3, <1>8 DEF g

\* One action after the flop.
LEMMA PostflopAct ==
  ASSUME BInv, game = "postflop", NEW a, Act(a)
  PROVE  Postflop'
<1>1. /\ line \in Seq(Tokens) /\ a \in Tokens /\ line' = Append(line, a)
      /\ Player \in {0, 1}
      /\ a = "f" => folded' # 2
      /\ folded' = 2 => folded = 2
      /\ Last(line) \in {"hand", "cards"} => acted' = {Player}
      /\ Last(line) \notin {"hand", "cards"} => acted' = acted \union {Player}
  BY Acting
<1>0. PICK n \in Nat : n = Len(line)
  BY <1>1
<1>2. n > 3 /\ Last(line) # "/" /\ ~Post!StageEnded(line)
  BY <1>0, OfPostflop DEF Act, Deciding, Post!IsChance, Post!Last, Last
<1>3. /\ a \in Bets \union {"k", "f", "c"}
      /\ a = "k" => Last(line) \notin Bets
      /\ a = "c" => Last(line) \in Bets
  BY <1>1, OfPostflop, PostflopActions DEF Act
<1>4. Len(line') = n + 1 /\ Last(line') = a /\ line' # <<>> /\ line'[n + 1] = a /\ line'[n] = line[n]
  BY <1>0, <1>1, <1>2, Appended
<1>5. (a = "c" => Level') /\ ((a = "k" /\ Level) => Level')
  BY <1>1, Wagers DEF BInv
<1>6. Postflop
  BY DEF BInv
<1>7. /\ \E i \in DOMAIN line' : StartsAt(line', i)
      /\ Post!Player(line) \in {0, 1}
      /\ Post!Player(line') = 1 - Post!Player(line)
  <2>1. \E i \in DOMAIN line : StartsAt(line, i)
    BY <1>0, <1>2, <1>6 DEF Postflop
  <2>2. a # "/"
    BY <1>3 DEF Bets
  <2> QED
    BY <1>1, <2>1, <2>2, TurnsPass
<1>8. Player = Post!Player(line)
  BY OfPostflop
<1>9. ASSUME folded' = 2
      PROVE  /\ Level' \/ a \in Bets
             /\ a # "f"
             /\ 1 - Post!Player(line') \in acted'
             /\ Post!StageEnded(line') => acted' = {0, 1}
  <2>1. folded = 2 /\ a # "f"
    BY <1>1, <1>9
  <2>2. Last(line) \notin Bets => Level
    BY <1>0, <1>2, <1>6, <2>1 DEF Postflop
  <2>3. Level' \/ a \in Bets
    BY <1>3, <1>5, <2>1, <2>2
  <2>4. 1 - Post!Player(line') = Player /\ Player \in acted'
    BY <1>1, <1>7, <1>8
  <2>5. ASSUME Post!StageEnded(line') PROVE acted' = {0, 1}
    <3>1. a = "c" \/ (a = "k" /\ Last(line) = "k")
      <4>1. a = "c" \/ Post!EndsWith(line', <<"k", "k">>)
        BY <1>4, <2>1, <2>5 DEF Post!StageEnded, Post!Last, Last
      <4>2. line' \in Seq(Tokens)
        BY <1>1, Appended
      <4>3. Post!EndsWith(line', <<"k", "k">>) => line'[n] = "k" /\ line'[n + 1] = "k"
        BY <1>4, <4>2, Endings
      <4> QED
        BY <1>0, <1>4, <4>1, <4>3 DEF Last
    <3>2. Last(line) \in Bets \union {"k"}
      BY <1>3, <3>1
    <3>3. 1 - Post!Player(line) \in acted
      BY <1>0, <1>2, <1>6, <2>1, <3>2 DEF Postflop
    <3>4. acted' = acted \union {Player}
      BY <1>1, <3>2 DEF Bets
    <3>5. acted \subseteq {0, 1}
      BY DEF BInv, Shape
    <3>6. PICK p \in {0, 1} : p = Player
      BY <1>1
    <3>7. 1 - p \in acted
      BY <1>8, <3>3, <3>6
    <3>8. CASE p = 0
      <4>1. 1 \in acted
        BY <3>7, <3>8
      <4> QED
        BY <3>4, <3>5, <3>6, <3>8, <4>1
    <3>9. CASE p = 1
      <4>1. 0 \in acted
        BY <3>7, <3>9
      <4> QED
        BY <3>4, <3>5, <3>6, <3>9, <4>1
    <3> QED
      BY <3>6, <3>8, <3>9
  <2> QED
    BY <2>1, <2>3, <2>4, <2>5
<1>10. a # "/"
  BY <1>3 DEF Bets
<1>11. ~(Len(line') <= 3) /\ Len(line') >= 4
  BY <1>2, <1>4
<1> QED
  BY <1>4, <1>7, <1>9, <1>10, <1>11 DEF Postflop

\* Cards after the flop: a new street starts where the last one ended.
LEMMA PostflopDeal ==
  ASSUME BInv, game = "postflop", Deal
  PROVE  Shape' /\ Postflop'
<1> DEFINE t == Post!ChanceToken(line)
<1>1. /\ line' = Append(line, t) /\ UNCHANGED <<game, street, chips, folded, acted>>
      /\ ~Post!IsTerminal(line) /\ Post!IsChance(line)
  BY Dealing, OfPostflop
<1>2. line \in Seq(Tokens) /\ Postflop
  BY DEF BInv, Shape
<1>0. PICK n \in Nat : n = Len(line)
  BY <1>2
<1>3. t = IF n < 2 THEN "hand" ELSE IF Last(line) = "/" THEN "cards" ELSE "/"
  BY <1>0 DEF Post!ChanceToken, Post!Last, Last
<1> HIDE DEF t
<1>4. t \in {"hand", "cards", "/"}
  BY <1>3
<1>5. /\ line' \in Seq(Tokens) /\ Len(line') = n + 1 /\ Last(line') = t /\ line' # <<>>
      /\ line'[n + 1] = t
  <2>1. t \in Tokens
    BY <1>4 DEF Tokens
  <2> QED
    BY <1>0, <1>1, <1>2, <2>1, Appended
<1>6. Shape'
  BY <1>1, <1>5 DEF BInv, Shape
<1>7. Len(line') >= 3 => \E i \in DOMAIN line' : StartsAt(line', i)
  <2>1. CASE n < 2
    BY <1>5, <2>1
  <2>2. CASE n >= 2 /\ t = "/"
    <3>1. n + 1 \in DOMAIN line' /\ StartsAt(line', n + 1)
      BY <1>5, <2>2 DEF StartsAt
    <3> QED
      BY <3>1
  <2>3. CASE n >= 2 /\ t # "/"
    <3>1. Last(line) = "/" /\ t = "cards"
      BY <1>3, <2>3
    <3>2. n \in DOMAIN line /\ StartsAt(line, n)
      BY <1>0, <1>2, <2>3, <3>1 DEF StartsAt, Last
    <3>3. t \in Tokens /\ t # "/"
      BY <3>1 DEF Tokens
    <3> QED
      BY <1>1, <1>2, <3>2, <3>3, TurnsPass
  <2> QED
    BY <2>1, <2>2, <2>3
<1>8. ~Post!StageEnded(line')
  <2>1. t \notin {"k", "c", "f"}
    BY <1>4
  <2>2. Post!Last(line') = t
    BY <1>5 DEF Post!Last, Last
  <2>3. ~Post!EndsWith(line', <<"k", "k">>)
    BY <1>5, <2>1, Endings
  <2> QED
    BY <2>1, <2>2, <2>3 DEF Post!StageEnded
<1>9. Len(line') <= 3 => acted' = {}
  BY <1>0, <1>1, <1>2, <1>5 DEF Postflop
<1>10. ASSUME folded = 2
       PROVE  Level /\ (t = "/" => acted \in {{}, {0, 1}})
  <2>1. n <= 3 \/ Post!StageEnded(line) \/ Last(line) = "/"
    BY <1>0, <1>1 DEF Post!IsChance, Post!Last, Last
  <2>2. CASE n <= 3
    <3>1. acted = {}
      BY <1>0, <1>2, <2>2 DEF Postflop
    <3>2. line # <<>> => Last(line) \notin Bets
      BY <1>0, <1>2, <1>10, <2>2 DEF Postflop
    <3> QED
      BY <1>2, <1>10, <3>1, <3>2 DEF Postflop
  <2>3. CASE n > 3 /\ (Post!StageEnded(line) \/ Last(line) = "/")
    <3>0. line # <<>>
      BY <1>0, <2>3
    <3>1. Last(line) \notin Bets
      <4>1. CASE Post!StageEnded(line)
        <5>1. Last(line) \in {"c", "f", "k"}
          <6>1. Post!EndsWith(line, <<"k", "k">>) => line[n] = "k"
            BY <1>0, <1>2, Endings
          <6> QED
            BY <1>0, <4>1, <6>1 DEF Post!StageEnded, Post!Last, Last
        <5> QED
          BY <5>1 DEF Bets
      <4> QED
        BY <2>3, <4>1 DEF Bets
    <3>2. acted \in {{}, {0, 1}}
      BY <1>2, <1>10, <2>3, <3>0 DEF Postflop
    <3> QED
      BY <1>2, <1>10, <3>0, <3>1, <3>2 DEF Postflop
  <2> QED
    BY <2>1, <2>2, <2>3
<1>11. t \notin Bets \union {"f", "k"}
  BY <1>4 DEF Bets
<1>12. Level => Level'
  BY <1>1 DEF Level
<1> QED
  BY <1>1, <1>5, <1>6, <1>7, <1>8, <1>9, <1>10, <1>11, <1>12 DEF Postflop

-----------------------------------------------------------------------------
(* The invariant and what it shows. *)

\* Every step keeps the invariant.
LEMMA InvIsKept == BInv /\ [BNext]_bvars => BInv'
<1> SUFFICES ASSUME BInv, [BNext]_bvars PROVE BInv'
  OBVIOUS
<1>1. CASE UNCHANGED bvars
  BY <1>1 DEF bvars, BInv, Shape, MultiStreet, Preflop, Postflop, Level
<1>2. ASSUME NEW a, Act(a) PROVE BInv'
  <2>1. Shape' /\ game' = game
    BY <1>2, ActKeepsShape, Zenon DEF Act
  <2>2. game = "multi" => MultiStreet'
    BY <1>2, MultiAct
  <2>3. game = "preflop" => Preflop'
    BY <1>2, PreflopAct
  <2>4. game = "postflop" => Postflop'
    BY <1>2, PostflopAct
  <2> QED
    BY <2>1, <2>2, <2>3, <2>4 DEF BInv
<1>3. CASE Deal
  <2>1. CASE game = "multi"
    BY <1>3, <2>1, MultiDeal
  <2>2. CASE game = "preflop"
    BY <1>3, <2>2, PreflopDeal, Dealing DEF BInv
  <2>3. CASE game = "postflop"
    BY <1>3, <2>3, PostflopDeal, Dealing DEF BInv
  <2> QED
    BY <2>1, <2>2, <2>3 DEF BInv, Shape
<1> QED
  BY <1>1, <1>2, <1>3 DEF BNext

\* Where no player is to act and nobody folded, chips are level and both have acted.
LEMMA InvSettles ==
  ASSUME BInv, folded = 2, Terminal \/ Chance
  PROVE  /\ Len(line) >= 2 => Level
         /\ acted # {} => acted = {0, 1}
<1>1. CASE game = "multi"
  <2>1. /\ line \in [1..Streets -> Seq(Tokens)] /\ street \in 1..Streets /\ Streets \in Nat
        /\ MultiStreet
    BY <1>1, GamesAssumption DEF BInv, Shape
  <2> SUFFICES line[street] \in {<<"k", "k">>, <<"b", "c">>, <<"k", "b", "c">>}
    <3>1. ASSUME line[street] \in {<<"k", "k">>, <<"b", "c">>, <<"k", "b", "c">>}
          PROVE  Level /\ acted = {0, 1}
      <4>1. line[street] \notin {<<>>, <<"k">>, <<"b">>, <<"k", "b">>}
        BY <3>1
      <4> QED
        BY <2>1, <4>1 DEF MultiStreet
    <3> QED
      BY <3>1
  <2>2. ~Multi!Contains(line[street], "f")
    BY SMTT(20), <2>1 DEF MultiStreet, Multi!Contains
  <2>3. \A s \in 1..Streets : ~Multi!Contains(line[s], "f")
    <3>1. \A s \in 1..(street - 1) : ~Multi!Contains(line[s], "f")
      BY <2>1 DEF MultiStreet
    <3>2. \A s \in (street + 1)..Streets : ~Multi!Contains(line[s], "f")
      BY <2>1 DEF MultiStreet, Multi!Contains
    <3>3. \A s \in 1..Streets : s \in 1..(street - 1) \/ s = street \/ s \in (street + 1)..Streets
      BY <2>1
    <3> QED
      BY <2>2, <3>1, <3>2, <3>3
  <2>4. CASE Chance
    BY <1>1, <2>2, <2>4, OfMulti DEF Multi!StreetOver
  <2>5. CASE Terminal
    <3>1. Multi!StreetOver(line[Streets])
      BY <1>1, <2>3, <2>5, OfMulti DEF Multi!IsTerminal
    <3>2. line[Streets] \in {<<"k", "k">>, <<"b", "c">>, <<"k", "b", "c">>}
      BY <2>1, <2>3, <3>1 DEF Multi!StreetOver
    <3>3. line[Streets] # <<>>
      BY <3>2
    <3>4. street = Streets
      BY <2>1, <3>3 DEF MultiStreet
    <3> QED
      BY <3>2, <3>4
  <2> QED
    BY <2>4, <2>5
<1>2. CASE game = "preflop"
  <2>1. line \in Seq(Tokens) /\ Preflop
    BY <1>2 DEF BInv, Shape
  <2>0. PICK n \in Nat : n = Len(line)
    BY <2>1
  <2>2. n < 2 \/ (Last(line) \in {"cards", "c", "f", "k", "/"} /\ (Last(line) = "c" => n > 3))
    BY <1>2, <2>0, OfPreflop
       DEF Pre!IsTerminal, Pre!IsChance, Pre!StageEnded, Pre!Last, Last
  <2>3. CASE n < 2
    <3>1. acted = {} /\ ~(Len(line) >= 2)
      BY <2>0, <2>1, <2>3 DEF Preflop
    <3> QED
      BY <3>1
  <2>4. CASE n >= 2
    <3>1. Last(line) \notin Raises \union {"hand"} /\ (Last(line) = "c" => n > 3)
      BY <2>0, <2>2, <2>4 DEF Raises
    <3>2. n >= 3
      BY <2>0, <2>1, <2>4, <3>1 DEF Preflop
    <3>3. Last(line) # "f" /\ Level
      BY <2>0, <2>1, <3>1, <3>2 DEF Preflop
    <3>4. n # 3
      BY <2>0, <2>1, <3>1, <3>3 DEF Preflop
    <3>5. acted = {0, 1}
      BY <2>0, <2>1, <3>2, <3>4 DEF Preflop
    <3> QED
      BY <3>3, <3>5
  <2> QED
    BY <2>0, <2>3, <2>4
<1>3. CASE game = "postflop"
  <2>1. line \in Seq(Tokens) /\ Postflop
    BY <1>3 DEF BInv, Shape
  <2>0. PICK n \in Nat : n = Len(line)
    BY <2>1
  <2>2. n <= 3 \/ Last(line) \in {"f", "/"} \/ Post!StageEnded(line)
    BY <1>3, <2>0, OfPostflop DEF Post!IsTerminal, Post!IsChance, Post!Last, Last
  <2>3. CASE n <= 3
    <3>1. acted = {} /\ Level
      BY <2>0, <2>1, <2>3 DEF Postflop
    <3> QED
      BY <3>1
  <2>4. CASE n > 3
    <3>1. line # <<>> /\ Last(line) # "f"
      BY <2>0, <2>1, <2>4 DEF Postflop
    <3>2. Last(line) \notin Bets
      <4>1. Post!EndsWith(line, <<"k", "k">>) => line[n] = "k"
        BY <2>0, <2>1, Endings
      <4>2. Last(line) \in {"c", "f", "k", "/"}
        BY <2>0, <2>2, <2>4, <4>1 DEF Post!StageEnded, Post!Last, Last
      <4> QED
        BY <4>2 DEF Bets
    <3>3. Level
      BY <2>1, <3>2 DEF Postflop
    <3>4. acted \in {{}, {0, 1}}
      BY <2>0, <2>1, <2>2, <2>4, <3>1 DEF Postflop
    <3> QED
      BY <3>3, <3>4
  <2> QED
    BY <2>0, <2>3, <2>4
<1> QED
  BY <1>1, <1>2, <1>3 DEF BInv, Shape

\* No street of any tree closes on an open bet.
THEOREM Matched == BSpec => []BetsAreMatched
<1>1. BInv => BetsAreMatched
  BY InvSettles DEF BetsAreMatched, Level
<1> QED
  BY <1>1, InvHoldsAtFirst, InvIsKept, PTL DEF BSpec

\* No street of any tree closes over a player's head.
THEOREM BothAct == BSpec => []EverybodyActs
<1>1. BInv => EverybodyActs
  BY InvSettles DEF EverybodyActs
<1> QED
  BY <1>1, InvHoldsAtFirst, InvIsKept, PTL DEF BSpec

-----------------------------------------------------------------------------
(* The code's count of the pot: what one more token does to it. *)

\* The investments of a player in the streets of the multi-street game.
Invested(hist, p) == [s \in 1..Streets |-> Multi!InvestedIn(hist[s], p)]

\* The trees count with the library's operators.
LEMMA Library ==
  /\ \A S : Multi!Cardinality(S) = Cardinality(S)
  /\ \A S : Pre!Max(S) = Max(S) /\ Post!Max(S) = Max(S)
<1>1. \A S : Multi!Cardinality(S) = Cardinality(S)
  BY DEF Multi!Cardinality, Cardinality
<1>2. \A S : Pre!Max(S) = Max(S) /\ Post!Max(S) = Max(S)
  BY DEF Pre!Max, Post!Max, Max
<1> QED BY <1>1, <1>2

\* A bet or a call of a player is one chip.
LEMMA OneMoreChip ==
  ASSUME NEW h \in Seq(Tokens), NEW a \in Tokens, NEW p \in {0, 1}
  PROVE  /\ Multi!InvestedIn(h, p) \in Nat
         /\ Multi!InvestedIn(Append(h, a), p) =
              Multi!InvestedIn(h, p) + (IF Len(h) % 2 = p /\ a \in {"b", "c"} THEN 1 ELSE 0)
<1> DEFINE paid(g) == {i \in DOMAIN g : (i - 1) % 2 = p /\ g[i] \in {"b", "c"}}
           g == Append(h, a)
<1>1. PICK n \in Nat : n = Len(h) /\ DOMAIN h = 1..n
  OBVIOUS
<1>2. /\ DOMAIN g = 1..(n + 1) /\ g[n + 1] = a
      /\ \A i \in 1..n : g[i] = h[i]
  BY <1>1, Appended
<1> HIDE DEF g
<1>3. IsFiniteSet(paid(h)) /\ Cardinality(paid(h)) \in Nat
  <2>1. IsFiniteSet(1..n)
    <3>1. 1 \in Int /\ n \in Int
      OBVIOUS
    <3> QED BY <3>1, FS_Interval
  <2>2. paid(h) \in SUBSET (1..n)
    BY <1>1
  <2> HIDE DEF paid
  <2> QED BY <2>1, <2>2, FS_Subset, FS_CardinalityType
<1>4. n + 1 \notin paid(h)
  BY <1>1
<1>5. (n + 1) - 1 = n
  OBVIOUS
<1>8. Multi!InvestedIn(h, p) = Cardinality(paid(h)) /\ Multi!InvestedIn(g, p) = Cardinality(paid(g))
  BY Library DEF Multi!InvestedIn
<1>6. CASE n % 2 = p /\ a \in {"b", "c"}
  <2>1. paid(g) = paid(h) \cup {n + 1}
    BY <1>1, <1>2, <1>5, <1>6
  <2> HIDE DEF paid
  <2>2. Cardinality(paid(g)) = Cardinality(paid(h)) + 1
    BY <1>3, <1>4, <2>1, FS_AddElement
  <2> QED BY <1>1, <1>3, <1>6, <1>8, <2>2 DEF g
<1>7. CASE ~(n % 2 = p /\ a \in {"b", "c"})
  <2>1. paid(g) = paid(h)
    BY <1>1, <1>2, <1>5, <1>7
  <2> HIDE DEF paid
  <2> QED BY <1>1, <1>3, <1>7, <1>8, <2>1 DEF g
<1> QED BY <1>6, <1>7

\* The investment is the ante and a sum over the streets.
LEMMA InvestmentSums ==
  ASSUME NEW hist \in [1..Streets -> Seq(Tokens)], NEW p \in {0, 1}
  PROVE  /\ IsFiniteSet(1..Streets) /\ Invested(hist, p) \in [1..Streets -> Int]
         /\ \E g : /\ Sums(g, 1..Streets, Invested(hist, p))
                   /\ Multi!Investment(hist, p) = 1 + g[1..Streets]
<1> DEFINE S == 1..Streets
           f == Invested(hist, p)
           Solves(g) == g = [s \in SUBSET S |->
                               IF s = {} THEN 0
                               ELSE Multi!InvestedIn(hist[AnyOf(s)], p) + g[s \ {AnyOf(s)}]]
           iter == CHOOSE g : Solves(g)
<1>1. IsFiniteSet(S)
  <2>1. 1 \in Int /\ Streets \in Int
    BY GamesAssumption
  <2> QED BY <2>1, FS_Interval
<1>2. f \in [S -> Int] /\ \A x \in S : f[x] = Multi!InvestedIn(hist[x], p)
  <2>1. \A s \in S : Multi!InvestedIn(hist[s], p) \in Int
    <3> TAKE s \in S
    <3>1. hist[s] \in Seq(Tokens) /\ "k" \in Tokens
      BY DEF Tokens
    <3>2. Multi!InvestedIn(hist[s], p) \in Nat
      BY <3>1, OneMoreChip
    <3> QED BY <3>2
  <2> QED BY <2>1 DEF Invested
<1>3. \A s \in SUBSET S : s # {} => AnyOf(s) \in S
  BY DEF AnyOf
<1> HIDE DEF S, f
<1>4. PICK g \in [SUBSET S -> Int] : Sums(g, S, f)
  BY <1>1, <1>2, SumExists
<1>5. Solves(g)
  BY <1>2, <1>3, <1>4 DEF Sums
<1>6. Solves(iter)
  BY <1>5
<1>7. Multi!Investment(hist, p) = 1 + iter[S]
  BY Zenon DEF Multi!Investment, Multi!MapThenSumSet, Multi!MapThenFoldSet, AnyOf, S
<1> HIDE DEF iter
<1>8. Sums(iter, S, f)
  BY <1>2, <1>3, <1>6 DEF Sums
<1> QED BY <1>1, <1>2, <1>7, <1>8 DEF S, f

\* What player p pays for an action that follows these.
Paid(h, a, p) == IF Len(h) % 2 = p /\ a \in {"b", "c"} THEN 1 ELSE 0

\* An action of the multi-street game adds its chips to the investment.
LEMMA InvestmentGrows ==
  ASSUME NEW hist \in [1..Streets -> Seq(Tokens)], NEW s \in 1..Streets, NEW a \in Tokens,
         NEW p \in {0, 1}, NEW next, next = [hist EXCEPT ![s] = Append(@, a)]
  PROVE  /\ Multi!Investment(hist, p) \in Int
         /\ Multi!Investment(next, p) =
              Multi!Investment(hist, p) + Paid(hist[s], a, p)
<1> DEFINE S == 1..Streets
           f == Invested(hist, p)
           e == Invested(next, p)
           more == Paid(hist[s], a, p)
<1>1. next \in [S -> Seq(Tokens)] /\ hist[s] \in Seq(Tokens) /\ next[s] = Append(hist[s], a)
      /\ \A x \in S \ {s} : next[x] = hist[x]
  BY Appended
<1>2. /\ IsFiniteSet(S) /\ f \in [S -> Int]
      /\ \E g : Sums(g, S, f) /\ Multi!Investment(hist, p) = 1 + g[S]
  BY InvestmentSums
<1>3. /\ e \in [S -> Int]
      /\ \E h : Sums(h, S, e) /\ Multi!Investment(next, p) = 1 + h[S]
  BY <1>1, InvestmentSums
<1>4. SameBut(s, S, f, e)
  BY <1>1 DEF Invested, SameBut
<1>5. e[s] = f[s] + more /\ f[s] \in Int
  BY <1>1, <1>2, OneMoreChip DEF Invested, Paid
<1>6. more \in Int
  BY DEF Paid
<1>7. PICK g : Sums(g, S, f) /\ Multi!Investment(hist, p) = 1 + g[S]
  BY <1>2
<1>8. PICK h : Sums(h, S, e) /\ Multi!Investment(next, p) = 1 + h[S]
  BY <1>3
<1> HIDE DEF S, f, e, more
<1>9. s \in S
  BY DEF S
<1>10. g[S] \in Int /\ h[S] = g[S] + more
  <2>1. /\ IsFiniteSet(S) /\ f \in [S -> Int] /\ e \in [S -> Int]
        /\ Sums(g, S, f) /\ Sums(h, S, e)
    BY <1>2, <1>3, <1>7, <1>8
  <2>2. Shifted(g, h, S, e[s] - f[s])
    BY <1>4, <1>9, <2>1, SumShifts
  <2>3. e[s] - f[s] = more
    BY <1>5, <1>6
  <2> QED BY <2>2, <2>3 DEF Shifted
<1> QED BY <1>6, <1>7, <1>8, <1>10 DEF more

-----------------------------------------------------------------------------
(* The pots of the two Hold'em trees, which are folds of the history. *)

PrePots == [stage : Int, bet : Int]
PreStart == [stage |-> 3, bet |-> 2]
PrePot(h) == Pre!FoldLeft(Pre!Count, PreStart, h)

\* What a token does to the pot before the flop.
LEMMA PreCounts ==
  ASSUME NEW v \in PrePots, NEW t \in Tokens
  PROVE  /\ Pre!Count(v, t) \in PrePots
         /\ t = "bMIN" => Pre!Count(v, t) = [stage |-> v.bet + v.stage, bet |-> v.stage]
         /\ t = "bMID" => Pre!Count(v, t) = [stage |-> v.bet + 2 * v.stage, bet |-> 2 * v.stage]
         /\ t = "bMAX" => Pre!Count(v, t) = [stage |-> v.bet + 100, bet |-> 100]
         /\ t = "c" => Pre!Count(v, t) = [stage |-> 2 * v.bet, bet |-> v.bet]
         /\ t \notin Raises \union {"c"} => Pre!Count(v, t) = v
<1>1. t = "bMIN" => Pre!Count(v, t) = [stage |-> v.bet + v.stage, bet |-> v.stage]
  BY Zenon DEF Pre!Count
<1>2. t = "bMID" => Pre!Count(v, t) = [stage |-> v.bet + 2 * v.stage, bet |-> 2 * v.stage]
  BY Zenon DEF Pre!Count
<1>3. t = "bMAX" => Pre!Count(v, t) = [stage |-> v.bet + 100, bet |-> 100]
  BY Zenon DEF Pre!Count
<1>4. t = "c" => Pre!Count(v, t) = [stage |-> 2 * v.bet, bet |-> v.bet]
  <2>1. t = "c" => Pre!Count(v, t) = [v EXCEPT !.stage = 2 * v.bet]
    BY Zenon DEF Pre!Count
  <2>2. [v EXCEPT !.stage = 2 * v.bet] = [stage |-> 2 * v.bet, bet |-> v.bet]
    BY DEF PrePots
  <2> QED BY <2>1, <2>2
<1>5. t \notin Raises \union {"c"} => Pre!Count(v, t) = v
  BY Zenon DEF Pre!Count, Raises
<1>6. Pre!Count(v, t) \in PrePots
  BY <1>1, <1>2, <1>3, <1>4, <1>5 DEF PrePots, Raises
<1> QED BY <1>1, <1>2, <1>3, <1>4, <1>5, <1>6

PreOp == [v \in PrePots |-> [t \in Tokens |-> Pre!Count(v, t)]]

\* The pot is what the fold of the history runs to.
LEMMA PreRuns ==
  ASSUME NEW h \in Seq(Tokens)
  PROVE  \E g : Runs(g, h, PrePots, PreStart, PreOp) /\ PrePot(h) = g[1..Len(h)]
<1>1. PICK n \in Nat : n = Len(h) /\ DOMAIN h = 1..n
  OBVIOUS
<1> DEFINE Solves(g) == g = [s \in SUBSET (DOMAIN h) |->
                               IF s = {} THEN PreStart
                               ELSE Pre!Count(g[s \ {Max(s)}], h[Max(s)])]
           iter == CHOOSE g : Solves(g)
<1>2. PreStart \in PrePots /\ PreOp \in [PrePots -> [Tokens -> PrePots]]
  BY PreCounts DEF PreStart, PrePots, PreOp
<1>3. PICK g : Runs(g, h, PrePots, PreStart, PreOp)
  BY <1>2, RunExists
<1>4. ASSUME NEW s \in SUBSET (1..n), s # {}
      PROVE  /\ g[s \ {Max(s)}] \in PrePots /\ h[Max(s)] \in Tokens
             /\ g[s] = Pre!Count(g[s \ {Max(s)}], h[Max(s)])
  <2>1. Max(s) \in 1..n
    BY <1>4, MaxOfPlaces
  <2>2. g[s \ {Max(s)}] \in PrePots /\ g[s] = PreOp[g[s \ {Max(s)}]][h[Max(s)]]
    BY <1>1, <1>3, <1>4 DEF Runs
  <2>3. h[Max(s)] \in Tokens
    BY <1>1, <2>1
  <2> QED BY <2>2, <2>3 DEF PreOp
<1>5. Solves(g)
  BY <1>1, <1>3, <1>4 DEF Runs
<1>6. Solves(iter)
  BY <1>5
<1>7. PrePot(h) = iter[DOMAIN h]
  BY Library, Zenon DEF PrePot, Pre!FoldLeft, Pre!MapThenFoldSet
<1> HIDE DEF iter
<1>8. ASSUME NEW s \in SUBSET (1..n), s # {}, iter[s \ {Max(s)}] = g[s \ {Max(s)}]
      PROVE  iter[s] = g[s]
  BY <1>1, <1>4, <1>6, <1>8
<1>9. StepAlike(iter, g, n)
  <2>1. iter[{}] = g[{}]
    BY <1>1, <1>3, <1>6 DEF Runs
  <2> QED BY <1>8, <2>1 DEF StepAlike
<1>10. \A s \in SUBSET (1..n) : iter[s] = g[s]
  BY <1>9, SameFold
<1> QED BY <1>1, <1>3, <1>7, <1>10

\* A token more counts once, before the flop.
LEMMA PreGrows ==
  ASSUME NEW h \in Seq(Tokens), NEW t \in Tokens
  PROVE  PrePot(h) \in PrePots /\ PrePot(Append(h, t)) = Pre!Count(PrePot(h), t)
<1>1. PICK f : Runs(f, h, PrePots, PreStart, PreOp) /\ PrePot(h) = f[1..Len(h)]
  BY PreRuns
<1>2. Append(h, t) \in Seq(Tokens)
  OBVIOUS
<1>3. PICK g : /\ Runs(g, Append(h, t), PrePots, PreStart, PreOp)
               /\ PrePot(Append(h, t)) = g[1..Len(Append(h, t))]
  BY <1>2, PreRuns
<1>4. f[1..Len(h)] \in PrePots /\ g[1..Len(Append(h, t))] = PreOp[f[1..Len(h)]][t]
  BY <1>1, <1>3, RunGrows
<1> QED BY <1>1, <1>3, <1>4 DEF PreOp

\* With no token the pot is the blinds.
LEMMA PreStarts == PrePot(<<>>) = PreStart
<1>1. <<>> \in Seq(Tokens) /\ Len(<<>>) = 0 /\ 1..0 = {}
  OBVIOUS
<1>2. PICK g : Runs(g, <<>>, PrePots, PreStart, PreOp) /\ PrePot(<<>>) = g[1..Len(<<>>)]
  BY <1>1, PreRuns
<1> QED BY <1>1, <1>2 DEF Runs

PostPots == [total : Int, stage : Int, bet : Int]
PostStart == [total |-> 0, stage |-> 4, bet |-> 0]

SmallBet(total) == IF total \div 3 > 2 THEN total \div 3 ELSE 2

\* What a token does to the pot after the flop.
LEMMA PostCounts ==
  ASSUME NEW v \in PostPots, NEW t \in Tokens
  PROVE  /\ Post!Count(v, t) \in PostPots
         /\ t = "/" =>
              Post!Count(v, t) = [total |-> v.total + v.stage, stage |-> 0, bet |-> 0]
         /\ t = "bMIN" =>
              Post!Count(v, t) = [total |-> v.total, stage |-> v.stage + SmallBet(v.total),
                                  bet |-> SmallBet(v.total)]
         /\ t = "bMAX" =>
              Post!Count(v, t) = [total |-> v.total, stage |-> v.stage + v.total,
                                  bet |-> v.total]
         /\ t = "c" =>
              Post!Count(v, t) = [total |-> v.total, stage |-> 2 * v.bet, bet |-> v.bet]
         /\ t \notin Bets \union {"c", "/"} => Post!Count(v, t) = v
<1>1. t = "/" => Post!Count(v, t) = [total |-> v.total + v.stage, stage |-> 0, bet |-> 0]
  BY Zenon DEF Post!Count
<1>2. ASSUME t = "bMIN"
      PROVE  Post!Count(v, t) = [total |-> v.total, stage |-> v.stage + SmallBet(v.total),
                                 bet |-> SmallBet(v.total)]
  <2> DEFINE bet == SmallBet(v.total)
  <2>1. Post!Count(v, t) = [v EXCEPT !.bet = bet, !.stage = @ + bet]
    BY <1>2, Zenon DEF Post!Count, SmallBet
  <2> HIDE DEF bet
  <2>2. v = [total |-> v.total, stage |-> v.stage, bet |-> v.bet]
    BY DEF PostPots
  <2>3. [v EXCEPT !.bet = bet, !.stage = @ + bet] =
          [total |-> v.total, stage |-> v.stage + bet, bet |-> bet]
    <3> DEFINE more == v.stage + bet
               w == [v EXCEPT !.bet = bet]
    <3> HIDE DEF more
    <3>1. w = [total |-> v.total, stage |-> v.stage, bet |-> bet]
      BY <2>2
    <3> HIDE DEF w
    <3>2. [w EXCEPT !.stage = more] = [total |-> v.total, stage |-> more, bet |-> bet]
      BY <3>1
    <3> QED BY <3>2 DEF more, w
  <2> QED BY <2>1, <2>3 DEF bet
<1>3. ASSUME t = "bMAX"
      PROVE  Post!Count(v, t) = [total |-> v.total, stage |-> v.stage + v.total,
                                 bet |-> v.total]
  <2>1. Post!Count(v, t) = [v EXCEPT !.bet = v.total, !.stage = @ + v.total]
    BY <1>3, Zenon DEF Post!Count
  <2> QED BY <2>1 DEF PostPots
<1>4. ASSUME t = "c"
      PROVE  Post!Count(v, t) = [total |-> v.total, stage |-> 2 * v.bet, bet |-> v.bet]
  <2>1. Post!Count(v, t) = [v EXCEPT !.stage = 2 * v.bet]
    BY <1>4, Zenon DEF Post!Count
  <2> QED BY <2>1 DEF PostPots
<1>5. t \notin Bets \union {"c", "/"} => Post!Count(v, t) = v
  BY Zenon DEF Post!Count, Bets
<1>6. SmallBet(v.total) \in Int
  BY DEF PostPots, SmallBet
<1>7. Post!Count(v, t) \in PostPots
  BY <1>1, <1>2, <1>3, <1>4, <1>5, <1>6 DEF PostPots, Bets
<1> QED BY <1>1, <1>2, <1>3, <1>4, <1>5, <1>7

PostOp == [v \in PostPots |-> [t \in Tokens |-> Post!Count(v, t)]]

\* The pot is what the fold of the history runs to.
LEMMA PostRuns ==
  ASSUME NEW h \in Seq(Tokens)
  PROVE  \E g : Runs(g, h, PostPots, PostStart, PostOp) /\ Post!Pot(h) = g[1..Len(h)]
<1>1. PICK n \in Nat : n = Len(h) /\ DOMAIN h = 1..n
  OBVIOUS
<1> DEFINE Solves(g) == g = [s \in SUBSET (DOMAIN h) |->
                               IF s = {} THEN PostStart
                               ELSE Post!Count(g[s \ {Max(s)}], h[Max(s)])]
           iter == CHOOSE g : Solves(g)
<1>2. PostStart \in PostPots /\ PostOp \in [PostPots -> [Tokens -> PostPots]]
  <2>1. \A v \in PostPots, t \in Tokens : Post!Count(v, t) \in PostPots
    BY PostCounts
  <2> QED BY <2>1 DEF PostStart, PostPots, PostOp
<1>3. PICK g : Runs(g, h, PostPots, PostStart, PostOp)
  BY <1>2, RunExists
<1>4. ASSUME NEW s \in SUBSET (1..n), s # {}
      PROVE  /\ g[s \ {Max(s)}] \in PostPots /\ h[Max(s)] \in Tokens
             /\ g[s] = Post!Count(g[s \ {Max(s)}], h[Max(s)])
  <2>1. Max(s) \in 1..n
    BY <1>4, MaxOfPlaces
  <2>2. g[s \ {Max(s)}] \in PostPots /\ g[s] = PostOp[g[s \ {Max(s)}]][h[Max(s)]]
    BY <1>1, <1>3, <1>4 DEF Runs
  <2>3. h[Max(s)] \in Tokens
    BY <1>1, <2>1
  <2> QED BY <2>2, <2>3 DEF PostOp
<1>5. Solves(g)
  BY <1>1, <1>3, <1>4 DEF Runs
<1>6. Solves(iter)
  BY <1>5
<1>7. Post!Pot(h) = iter[DOMAIN h]
  BY Library, Zenon DEF Post!Pot, PostStart, Post!FoldLeft, Post!MapThenFoldSet
<1> HIDE DEF iter
<1>8. ASSUME NEW s \in SUBSET (1..n), s # {}, iter[s \ {Max(s)}] = g[s \ {Max(s)}]
      PROVE  iter[s] = g[s]
  BY <1>1, <1>4, <1>6, <1>8
<1>9. StepAlike(iter, g, n)
  <2>1. iter[{}] = g[{}]
    BY <1>1, <1>3, <1>6 DEF Runs
  <2> QED BY <1>8, <2>1 DEF StepAlike
<1>10. \A s \in SUBSET (1..n) : iter[s] = g[s]
  BY <1>9, SameFold
<1> QED BY <1>1, <1>3, <1>7, <1>10

\* A token more counts once, after the flop.
LEMMA PostGrows ==
  ASSUME NEW h \in Seq(Tokens), NEW t \in Tokens
  PROVE  Post!Pot(h) \in PostPots /\ Post!Pot(Append(h, t)) = Post!Count(Post!Pot(h), t)
<1>1. PICK f : Runs(f, h, PostPots, PostStart, PostOp) /\ Post!Pot(h) = f[1..Len(h)]
  BY PostRuns
<1>2. Append(h, t) \in Seq(Tokens)
  OBVIOUS
<1>3. PICK g : /\ Runs(g, Append(h, t), PostPots, PostStart, PostOp)
               /\ Post!Pot(Append(h, t)) = g[1..Len(Append(h, t))]
  BY <1>2, PostRuns
<1>4. f[1..Len(h)] \in PostPots /\ g[1..Len(Append(h, t))] = PostOp[f[1..Len(h)]][t]
  BY <1>1, <1>3, RunGrows
<1> QED BY <1>1, <1>3, <1>4 DEF PostOp

\* With no token the pot is two called blinds.
LEMMA PostStarts == Post!Pot(<<>>) = PostStart
<1>1. <<>> \in Seq(Tokens) /\ Len(<<>>) = 0 /\ 1..0 = {}
  OBVIOUS
<1>2. PICK g : Runs(g, <<>>, PostPots, PostStart, PostOp) /\ Post!Pot(<<>>) = g[1..Len(<<>>)]
  BY <1>1, PostRuns
<1> QED BY <1>1, <1>2 DEF Runs

-----------------------------------------------------------------------------
(* The chips that the code reads off the history are the chips in the pot. *)

\* The multi-street game: the investments, which a bet puts one apart; and who folded.
CountedMulti ==
  /\ \A p \in {0, 1} : chips[p] = Multi!Investment(line, p)
  /\ folded = 2 =>
       /\ line[street] = <<"b">> => chips[0] = chips[1] + 1
       /\ line[street] = <<"k", "b">> => chips[1] = chips[0] + 1
  /\ folded # 2 =>
       /\ Multi!FoldedIn(line) = {street}
       /\ {i \in DOMAIN line[street] : line[street][i] = "f"} = {Len(line[street])}
       /\ (Len(line[street]) - 1) % 2 = folded

\* Before the flop: the pot, and the bet of the player who is not to act.
CountedPreflop ==
  folded = 2 =>
    /\ ~Pre!Contains(line, "f")
    /\ Len(line) <= 2 => chips[0] = 2 /\ chips[1] = 1 /\ PrePot(line) = PreStart
    /\ Len(line) >= 2 =>
         /\ PrePot(line).stage = chips[0] + chips[1]
         /\ PrePot(line).bet = chips[1 - Pre!Player(line)]

\* What a fold would give away, with this history before the bet that it answers.
GivenAway(h) ==
  Post!PotSize(h) + (IF Last(h) = "bMIN" THEN Post!Pot(h).bet ELSE 0)

\* After the flop: the pot and the bet, of a street that began with what was matched; and
\* what a fold gives away.
CountedPostflop ==
  LET pot == Post!Pot(line)
      last == Last(line)
      player == Post!Player(line)
  IN  /\ Len(line) <= 2 =>
           /\ pot = PostStart /\ chips[0] = 2 /\ chips[1] = 2 /\ matched = 2 /\ folded = 2
           /\ line # <<>> => last = "hand"
      /\ (Len(line) >= 3 /\ folded = 2) =>
           /\ last \in {"/", "cards", "k", "c"} \union Bets
           /\ pot.total = 2 * matched /\ pot.total + pot.stage = chips[0] + chips[1]
           /\ last \in {"/", "cards", "k"} => chips[0] = matched /\ chips[1] = matched
           /\ last = "bMIN" => chips[player] = matched
           /\ last \in Bets =>
                /\ Len(line) >= 4
                /\ chips[1 - player] = matched + pot.bet
                /\ GivenAway(SubSeq(line, 1, Len(line) - 1)) = 2 * chips[player]
      /\ folded # 2 =>
           /\ last = "f" /\ Post!StageLength(line) % 2 = folded
           /\ Post!PotAtFold(line) = 2 * chips[folded]

Counted ==
  /\ \A p \in {0, 1} : chips[p] \in Int
  /\ matched \in Int
  /\ winner \in 0..2
  /\ game = "multi" => CountedMulti
  /\ game = "preflop" => CountedPreflop
  /\ game = "postflop" => CountedPostflop

\* The pots are counted right before the first card.
LEMMA CountedAtFirst == BInit => Counted
<1> SUFFICES ASSUME BInit PROVE Counted
  OBVIOUS
<1>1. /\ game = "multi" => chips = [p \in {0, 1} |-> 1]
      /\ game = "preflop" => chips = [p \in {0, 1} |-> IF p = 0 THEN 2 ELSE 1]
      /\ game = "postflop" => chips = [p \in {0, 1} |-> 2]
      /\ game \in {"multi", "preflop", "postflop"}
      /\ line = (IF game = "multi" THEN Multi!NoActions ELSE <<>>)
      /\ street = 1 /\ winner \in 0..2 /\ folded = 2
      /\ matched = (IF game = "postflop" THEN 2 ELSE 0)
  <2>1. /\ chips = CASE game = "multi" -> [p \in {0, 1} |-> 1]
                     [] game = "preflop" -> [p \in {0, 1} |-> IF p = 0 THEN 2 ELSE 1]
                     [] game = "postflop" -> [p \in {0, 1} |-> 2]
        /\ game \in Games
        /\ line = (IF game = "multi" THEN Multi!NoActions ELSE <<>>)
        /\ street = 1 /\ winner \in 0..2 /\ folded = 2
        /\ matched = (IF game = "postflop" THEN 2 ELSE 0)
    BY DEF BInit
  <2>2. game \in {"multi", "preflop", "postflop"}
    BY <2>1, GamesAssumption
  <2>3. /\ game = "multi" => chips = [p \in {0, 1} |-> 1]
        /\ game = "preflop" => chips = [p \in {0, 1} |-> IF p = 0 THEN 2 ELSE 1]
        /\ game = "postflop" => chips = [p \in {0, 1} |-> 2]
    BY <2>1, Zenon
  <2> QED BY <2>1, <2>2, <2>3
<1>2. ASSUME game = "multi" PROVE CountedMulti
  <2>1. ASSUME NEW p \in {0, 1} PROVE Multi!Investment(line, p) = 1
    <3>1. /\ line \in [1..Streets -> Seq(Tokens)]
          /\ \A s \in 1..Streets : line[s] = <<>>
      BY <1>1, <1>2 DEF Multi!NoActions
    <3>2. IsFiniteSet(1..Streets) /\ Invested(line, p) \in [1..Streets -> Int]
      BY <3>1, InvestmentSums
    <3>3. PICK g : Sums(g, 1..Streets, Invested(line, p))
                   /\ Multi!Investment(line, p) = 1 + g[1..Streets]
      BY <3>1, InvestmentSums
    <3>4. \A s \in 1..Streets : Invested(line, p)[s] = 0
      <4> SUFFICES ASSUME NEW s \in 1..Streets PROVE Multi!InvestedIn(line[s], p) = 0
        BY DEF Invested
      <4>1. {i \in DOMAIN line[s] : (i - 1) % 2 = p /\ line[s][i] \in {"b", "c"}} = {}
        BY <3>1
      <4> QED BY <4>1, Library, FS_EmptySet DEF Multi!InvestedIn
    <3>5. g[1..Streets] = 0
      <4> DEFINE S == 1..Streets
                 f == Invested(line, p)
      <4>1. IsFiniteSet(S) /\ Sums(g, S, f) /\ (\A s \in S : f[s] = 0) /\ 0 \in Int
        BY <3>2, <3>3, <3>4
      <4> HIDE DEF S, f
      <4>2. g[S] = Cardinality(S) * 0 /\ Cardinality(S) \in Nat
        BY <4>1, SumOfEquals, FS_CardinalityType
      <4>3. g[S] = 0
        BY <4>2
      <4> QED BY <4>3 DEF S
    <3> QED BY <3>3, <3>5
  <2>2. line[street] = <<>>
    BY <1>1, <1>2, GamesAssumption DEF Multi!NoActions
  <2> QED BY <1>1, <1>2, <2>1, <2>2 DEF CountedMulti
<1>3. ASSUME game = "preflop" PROVE CountedPreflop
  BY <1>1, <1>3, PreStarts DEF CountedPreflop, Pre!Contains
<1>4. ASSUME game = "postflop" PROVE CountedPostflop
  BY <1>1, <1>4, PostStarts DEF CountedPostflop
<1> QED BY <1>1, <1>2, <1>3, <1>4 DEF Counted

\* What an action costs the player who takes it, and that it costs the other nothing.
LEMMA Costs ==
  ASSUME BInv, Counted, NEW a, Act(a)
  PROVE  /\ Player \in {0, 1}
         /\ chips'[1 - Player] = chips[1 - Player]
         /\ a \in {"k", "f"} => chips'[Player] = chips[Player]
         /\ a = "c" => chips'[Player] = chips[1 - Player]
         /\ a = "b" => chips'[Player] = chips[Player] + 1
         /\ game = "preflop" =>
              /\ a = "bMIN" => chips'[Player] = chips[0] + chips[1]
              /\ a = "bMID" => chips'[Player] = 2 * (chips[0] + chips[1])
              /\ a = "bMAX" => chips'[Player] = 100
         /\ game = "postflop" =>
              /\ a = "bMIN" => chips'[Player] = matched + SmallBet(2 * matched)
              /\ a = "bMAX" => chips'[Player] = matched + 2 * matched
<1>1. PICK p \in {0, 1} : p = Player
  BY PlayerIsOne DEF Act
<1>2. chips' = [chips EXCEPT ![p] = Wager(p, a)]
  BY <1>1, Zenon DEF Act
<1>3. chips = [q \in {0, 1} |-> chips[q]]
  BY DEF BInv, Shape
<1>4. chips'[p] = Wager(p, a) /\ chips'[1 - p] = chips[1 - p]
  BY <1>2, <1>3
<1>5. a \in {"k", "f"} => Wager(p, a) = chips[p]
  BY Zenon DEF Wager
<1>6. a = "c" => Wager(p, a) = chips[1 - p]
  BY Zenon DEF Wager
<1>7. a = "b" => Wager(p, a) = chips[p] + 1
  BY Zenon DEF Wager
<1>8. game = "preflop" =>
        /\ a = "bMIN" => Wager(p, a) = chips[0] + chips[1]
        /\ a = "bMID" => Wager(p, a) = 2 * (chips[0] + chips[1])
        /\ a = "bMAX" => Wager(p, a) = 100
  BY Zenon DEF Wager
<1>9. game = "postflop" =>
        /\ a = "bMIN" => Wager(p, a) = matched + SmallBet(2 * matched)
        /\ a = "bMAX" => Wager(p, a) = matched + 2 * matched
  BY Zenon DEF Wager, SmallBet
<1> QED BY <1>1, <1>4, <1>5, <1>6, <1>7, <1>8, <1>9

\* What else an action changes, and what it leaves alone.
LEMMA Acts ==
  ASSUME NEW a, Act(a)
  PROVE  /\ folded' = IF a = "f" THEN Player ELSE folded
         /\ UNCHANGED <<game, street, winner, matched>>
         /\ ~Terminal /\ ~Chance
  BY Zenon DEF Act, Deciding

\* Chips stay integers.
LEMMA ChipsStay ==
  ASSUME BInv, Counted, NEW a, Act(a)
  PROVE  \A p \in {0, 1} : chips'[p] \in Int
<1>1. PICK p \in {0, 1} : p = Player
  BY Costs
<1>2. chips[0] \in Int /\ chips[1] \in Int /\ chips[p] \in Int /\ chips[1 - p] \in Int
      /\ matched \in Int /\ chips'[1 - p] \in Int
  <2>1. chips[0] \in Int /\ chips[1] \in Int /\ matched \in Int
    BY DEF Counted
  <2> QED BY <1>1, <2>1, Costs
<1>3. chips'[p] \in Int
  <2>1. ASSUME game = "multi" PROVE chips'[p] \in Int
    <3>1. a \in {"k", "b", "f", "c"}
      BY <2>1, OfMulti, MultiActions DEF Act
    <3> QED BY <1>1, <1>2, <3>1, Costs
  <2>2. ASSUME game = "preflop" PROVE chips'[p] \in Int
    <3>1. a \in Raises \union {"k", "f", "c"}
      BY <2>2, OfPreflop, PreflopActions DEF Act
    <3> QED BY <1>1, <1>2, <2>2, <3>1, Costs DEF Raises
  <2>3. ASSUME game = "postflop" PROVE chips'[p] \in Int
    <3>1. a \in Bets \union {"k", "f", "c"}
      BY <2>3, OfPostflop, PostflopActions DEF Act, BInv, Shape
    <3>2. SmallBet(2 * matched) \in Int
      BY <1>2 DEF SmallBet
    <3> QED BY <1>1, <1>2, <2>3, <3>1, <3>2, Costs DEF Bets
  <2> QED BY <2>1, <2>2, <2>3 DEF BInv, Shape
<1> QED BY <1>1, <1>2, <1>3

\* Who folds in the multi-street game ends it.
LEMMA MultiFoldEnds ==
  ASSUME BInv, Counted, game = "multi", folded # 2
  PROVE  Terminal
<1>1. Multi!FoldedIn(line) = {street}
  BY DEF Counted, CountedMulti
<1>2. \E s \in 1..Streets : Multi!Contains(line[s], "f")
  BY <1>1 DEF Multi!FoldedIn
<1> QED BY <1>2, OfMulti DEF Multi!IsTerminal

\* One action of the multi-street game.
LEMMA CountedMultiAct ==
  ASSUME BInv, Counted, game = "multi", NEW a, Act(a)
  PROVE  CountedMulti'
<1> DEFINE h == line[street]
<1>1. /\ line \in [1..Streets -> Seq(Tokens)] /\ street \in 1..Streets /\ Streets \in Nat
      /\ h \in Seq(Tokens) /\ a \in Tokens
  BY ActKeepsShape, GamesAssumption DEF BInv, Shape
<1>2. /\ line' = [line EXCEPT ![street] = Append(@, a)] /\ street' = street
      /\ line'[street] = Append(h, a)
  BY <1>1 DEF Act
<1>3. folded = 2 /\ ~Terminal /\ folded' = (IF a = "f" THEN Player ELSE folded)
  BY Acts, MultiFoldEnds
<1>4. Player = Len(h) % 2 /\ Player \in {0, 1}
  BY OfMulti, Costs DEF Multi!CurrentPlayer
<1>5. a \in (IF Multi!Contains(h, "b") THEN {"f", "c"} ELSE {"k", "b"})
  BY OfMulti, MultiActions DEF Act
<1>6. h \notin {<<"k", "k">>, <<"b", "c">>, <<"k", "b", "c">>}
  BY OfMulti DEF Act, Deciding, Multi!StreetOver
<1>7. \A p \in {0, 1} : chips[p] = Multi!Investment(line, p) /\ chips[p] \in Int
  BY DEF Counted, CountedMulti
<1>8. \A p \in {0, 1} :
        Multi!Investment(line', p) =
          chips[p] + (IF Player = p /\ a \in {"b", "c"} THEN 1 ELSE 0)
  <2> TAKE p \in {0, 1}
  <2>1. Multi!Investment(line', p) =
          Multi!Investment(line, p) + Paid(line[street], a, p)
    BY <1>1, <1>2, InvestmentGrows
  <2> QED BY <1>2, <1>4, <1>7, <2>1 DEF Paid
<1>9. /\ chips'[1 - Player] = chips[1 - Player]
      /\ a \in {"k", "f"} => chips'[Player] = chips[Player]
      /\ a = "c" => chips'[Player] = chips[1 - Player]
      /\ a = "b" => chips'[Player] = chips[Player] + 1
  BY Costs
<1>10. /\ h = <<"b">> => chips[0] = chips[1] + 1
       /\ h = <<"k", "b">> => chips[1] = chips[0] + 1
  BY <1>3 DEF Counted, CountedMulti
<1>11. \/ h = <<>> /\ Level
       \/ h = <<"k">> /\ Level
       \/ h = <<"b">>
       \/ h = <<"k", "b">>
  BY <1>3, <1>6 DEF BInv, MultiStreet
<1> HIDE DEF h
<1>12. a = "c" => chips[1 - Player] = chips[Player] + 1
  <2> SUFFICES ASSUME a = "c" PROVE chips[1 - Player] = chips[Player] + 1
    OBVIOUS
  <2>1. Multi!Contains(h, "b")
    BY <1>5
  <2>2. h = <<"b">> \/ h = <<"k", "b">>
    <3>1. h # <<>> /\ h # <<"k">>
      BY <2>1 DEF Multi!Contains
    <3> QED BY <1>11, <3>1
  <2>3. CASE h = <<"b">>
    <3>1. Player = 1
      BY <1>4, <2>3
    <3> QED BY <1>10, <2>3, <3>1
  <2>4. CASE h = <<"k", "b">>
    <3>1. Player = 0
      BY <1>4, <2>4
    <3> QED BY <1>10, <2>4, <3>1
  <2> QED BY <2>2, <2>3, <2>4
<1>13. ASSUME NEW p \in {0, 1} PROVE chips'[p] = Multi!Investment(line', p)
  <2>0. a \in {"k", "b", "f", "c"}
    BY <1>5
  <2>1. CASE p = Player
    BY <1>7, <1>8, <1>9, <1>12, <2>0, <2>1
  <2>2. CASE p # Player
    <3>1. p = 1 - Player
      BY <1>4, <2>2
    <3>2. chips'[p] = chips[p] /\ Multi!Investment(line', p) = chips[p] + 0
      BY <1>8, <1>9, <2>2, <3>1
    <3> QED BY <1>7, <3>2
  <2> QED BY <2>1, <2>2
<1>14. PICK n \in Nat : n = Len(h) /\ DOMAIN h = 1..n
  BY <1>1
<1>15. /\ Len(Append(h, a)) = n + 1 /\ DOMAIN Append(h, a) = 1..(n + 1)
       /\ Append(h, a)[n + 1] = a
       /\ \A i \in 1..n : Append(h, a)[i] = h[i]
  BY <1>1, <1>14, Appended
<1>16. ASSUME folded' = 2
       PROVE  /\ Append(h, a) = <<"b">> => chips'[0] = chips'[1] + 1
              /\ Append(h, a) = <<"k", "b">> => chips'[1] = chips'[0] + 1
  <2>1. ASSUME Append(h, a) = <<"b">> PROVE chips'[0] = chips'[1] + 1
    <3>1. n = 0 /\ a = "b"
      <4>1. Len(<<"b">>) = 1 /\ <<"b">>[1] = "b"
        OBVIOUS
      <4>2. n = 0
        BY <1>15, <2>1, <4>1
      <4> QED BY <1>15, <2>1, <4>1, <4>2
    <3>2. Player = 0 /\ Level
      BY <1>4, <1>11, <1>14, <3>1
    <3> QED BY <1>9, <3>1, <3>2 DEF Level
  <2>2. ASSUME Append(h, a) = <<"k", "b">> PROVE chips'[1] = chips'[0] + 1
    <3>1. n = 1 /\ a = "b"
      <4>1. Len(<<"k", "b">>) = 2 /\ <<"k", "b">>[2] = "b"
        OBVIOUS
      <4>2. n = 1
        BY <1>15, <2>2, <4>1
      <4> QED BY <1>15, <2>2, <4>1, <4>2
    <3>2. h[1] = "k"
      <4>1. <<"k", "b">>[1] = "k"
        OBVIOUS
      <4> QED BY <1>15, <2>2, <3>1, <4>1
    <3>3. h # <<"b">> /\ h # <<>> /\ h # <<"k", "b">>
      BY <1>14, <3>1, <3>2
    <3>4. Player = 1 /\ Level
      BY <1>4, <1>11, <1>14, <3>1, <3>3
    <3> QED BY <1>9, <3>1, <3>4 DEF Level
  <2> QED BY <2>1, <2>2
<1>17. ASSUME folded' # 2
       PROVE  /\ Multi!FoldedIn(line') = {street}
              /\ {i \in DOMAIN Append(h, a) : Append(h, a)[i] = "f"} = {Len(Append(h, a))}
              /\ (Len(Append(h, a)) - 1) % 2 = folded'
  <2>1. a = "f" /\ folded' = Player
    BY <1>3, <1>17
  <2>2. \A i \in 1..n : h[i] # "f"
    BY <1>11, <1>14
  <2>3. {i \in DOMAIN Append(h, a) : Append(h, a)[i] = "f"} = {n + 1}
    <3>1. n + 1 \in 1..(n + 1) /\ \A i \in 1..(n + 1) : i \in 1..n \/ i = n + 1
      OBVIOUS
    <3> QED BY <1>15, <2>1, <2>2, <3>1
  <2>4. (n + 1) - 1 = n
    OBVIOUS
  <2>5. \A s \in 1..Streets : Multi!Contains(line'[s], "f") <=> s = street
    <3> TAKE s \in 1..Streets
    <3>1. CASE s = street
      <4>1. n + 1 \in 1..Len(Append(h, a)) /\ Append(h, a)[n + 1] = "f"
        BY <1>15, <2>1
      <4> QED BY <1>2, <3>1, <4>1 DEF Multi!Contains
    <3>2. CASE s # street
      <4>1. line'[s] = line[s] /\ (s \in 1..(street - 1) \/ s \in (street + 1)..Streets)
        BY <1>1, <1>2, <3>2
      <4>2. ~Multi!Contains(line[s], "f")
        BY <1>3, <4>1 DEF BInv, MultiStreet, Multi!Contains
      <4> QED BY <3>2, <4>1, <4>2
    <3> QED BY <3>1, <3>2
  <2>6. Multi!FoldedIn(line') = {street}
    BY <1>1, <2>5 DEF Multi!FoldedIn
  <2> QED BY <1>4, <1>14, <1>15, <2>1, <2>3, <2>4, <2>6
<1> QED BY <1>2, <1>13, <1>16, <1>17 DEF CountedMulti

\* The next street of the multi-street game costs nothing.
LEMMA CountedMultiDeal ==
  ASSUME BInv, Counted, game = "multi", Deal
  PROVE  CountedMulti'
<1>1. ~Terminal /\ street' = street + 1 /\ UNCHANGED <<line, chips, folded>>
  BY DEF Deal, Deciding
<1>2. folded = 2
  BY <1>1, MultiFoldEnds
<1>3. line \in [1..Streets -> Seq(Tokens)] /\ street \in 1..Streets /\ Streets \in Nat
  BY GamesAssumption DEF BInv, Shape
<1>4. street + 1 \in 1..Streets
  BY <1>1, <1>3, MultiDeal DEF BInv, Shape
<1>5. line'[street'] = <<>>
  BY <1>1, <1>3, <1>4 DEF BInv, MultiStreet
<1> QED BY <1>1, <1>2, <1>5 DEF Counted, CountedMulti

\* A check before the flop finds the chips level.
LEMMA PreflopChecks ==
  ASSUME BInv, game = "preflop", Act("k"), folded = 2
  PROVE  Level
<1>1. PICK n \in Nat : n = Len(line)
  BY DEF BInv, Shape
<1>2. n >= 2 /\ Last(line) \notin Raises \union {"hand"}
  BY <1>1, OfPreflop, PreflopActions DEF Act, Deciding, Pre!IsChance
<1>3. n >= 3
  BY <1>1, <1>2 DEF BInv, Preflop
<1> QED BY <1>1, <1>2, <1>3 DEF BInv, Preflop

\* Before the flop it is the other player's turn after each action.
LEMMA PreflopTurns ==
  ASSUME NEW h \in Seq(Tokens), NEW t \in Tokens
  PROVE  Pre!Player(h) \in {0, 1} /\ Pre!Player(Append(h, t)) = 1 - Pre!Player(h)
<1>1. PICK n \in Nat : n = Len(h) /\ Len(Append(h, t)) = n + 1
  BY Appended
<1>2. n + 1 \in Nat
  OBVIOUS
<1>3. (n + 1) % 2 \in {0, 1} /\ ((n + 1) + 1) % 2 = 1 - ((n + 1) % 2)
  BY <1>2, Parity
<1> QED BY <1>1, <1>3 DEF Pre!Player

\* A line has a fold once one is appended.
LEMMA FoldsAppend ==
  ASSUME NEW h \in Seq(Tokens), NEW t \in Tokens, t # "f", ~Pre!Contains(h, "f")
  PROVE  ~Pre!Contains(Append(h, t), "f")
<1>1. PICK n \in Nat : n = Len(h) /\ Len(Append(h, t)) = n + 1
  BY Appended
<1>2. Append(h, t)[n + 1] = t /\ \A i \in 1..n : Append(h, t)[i] = h[i] /\ h[i] # "f"
  BY <1>1, Appended DEF Pre!Contains
<1>3. \A i \in 1..(n + 1) : i \in 1..n \/ i = n + 1
  OBVIOUS
<1> QED BY <1>1, <1>2, <1>3 DEF Pre!Contains

\* One action before the flop.
LEMMA CountedPreflopAct ==
  ASSUME BInv, Counted, game = "preflop", NEW a, Act(a)
  PROVE  CountedPreflop'
<1> SUFFICES ASSUME folded' = 2 PROVE CountedPreflop'
  BY DEF CountedPreflop
<1>1. /\ line \in Seq(Tokens) /\ a \in Tokens /\ line' = Append(line, a)
      /\ a # "f" /\ folded = 2
  BY Acting
<1>2. PICK n \in Nat : n = Len(line) /\ Len(line') = n + 1
  BY <1>1, Appended
<1>3. n >= 2
  BY <1>2, OfPreflop DEF Act, Deciding, Pre!IsChance
<1>4. a \in Raises \union {"k", "c"}
  BY <1>1, OfPreflop, PreflopActions DEF Act
<1>5. PICK p \in {0, 1} : p = Player /\ p = Pre!Player(line) /\ Pre!Player(line') = 1 - p
  BY <1>1, OfPreflop, PreflopTurns
<1>6. /\ ~Pre!Contains(line, "f")
      /\ PrePot(line).stage = chips[0] + chips[1] /\ PrePot(line).bet = chips[1 - p]
  BY <1>1, <1>2, <1>3, <1>5 DEF Counted, CountedPreflop
<1> DEFINE pot == PrePot(line)
           next == PrePot(line')
<1>7. pot \in PrePots /\ next = Pre!Count(pot, a)
  BY <1>1, PreGrows
<1>8. /\ chips[0] \in Int /\ chips[1] \in Int /\ chips'[1 - p] = chips[1 - p]
      /\ pot.stage = chips[p] + chips[1 - p] /\ pot.bet = chips[1 - p]
      /\ chips'[0] + chips'[1] = chips'[p] + chips'[1 - p]
      /\ chips[p] \in Int /\ chips[1 - p] \in Int
      /\ chips[0] + chips[1] = chips[p] + chips[1 - p]
  <2>1. chips[0] \in Int /\ chips[1] \in Int /\ chips'[1 - p] = chips[1 - p]
    BY <1>5, Costs DEF Counted
  <2>2. chips'[0] \in Int /\ chips'[1] \in Int
    BY <1>1, <1>4, <2>1, ChipsStay
  <2>3. CASE p = 0
    BY <1>6, <2>1, <2>2, <2>3
  <2>4. CASE p = 1
    BY <1>6, <2>1, <2>2, <2>4
  <2> QED BY <2>3, <2>4
<1> HIDE DEF pot, next
<1>9. next.stage = chips'[p] + chips'[1 - p] /\ next.bet = chips'[p]
  <2>1. CASE a = "k"
    <3>1. next = pot /\ chips'[p] = chips[p]
      BY <1>1, <1>5, <1>7, <2>1, Costs, PreCounts DEF Raises
    <3>2. chips[p] = chips[1 - p]
      <4>1. Level
        BY <1>1, <2>1, PreflopChecks
      <4> QED BY <4>1 DEF Level
    <3> QED BY <1>8, <3>1, <3>2
  <2>2. CASE a = "c"
    <3>1. next = [stage |-> 2 * pot.bet, bet |-> pot.bet] /\ chips'[p] = chips[1 - p]
      BY <1>1, <1>5, <1>7, <2>2, Costs, PreCounts
    <3> QED BY <1>8, <3>1
  <2>3. CASE a = "bMIN"
    <3>1. /\ next = [stage |-> pot.bet + pot.stage, bet |-> pot.stage]
          /\ chips'[p] = chips[0] + chips[1]
      BY <1>1, <1>5, <1>7, <2>3, Costs, PreCounts
    <3> QED BY <1>8, <3>1
  <2>4. CASE a = "bMID"
    <3>1. /\ next = [stage |-> pot.bet + 2 * pot.stage, bet |-> 2 * pot.stage]
          /\ chips'[p] = 2 * (chips[0] + chips[1])
      BY <1>1, <1>5, <1>7, <2>4, Costs, PreCounts
    <3> QED BY <1>8, <3>1
  <2>5. CASE a = "bMAX"
    <3>1. next = [stage |-> pot.bet + 100, bet |-> 100] /\ chips'[p] = 100
      BY <1>1, <1>5, <1>7, <2>5, Costs, PreCounts
    <3> QED BY <1>8, <3>1
  <2> QED BY <1>4, <2>1, <2>2, <2>3, <2>4, <2>5 DEF Raises
<1>10. ~Pre!Contains(line', "f")
  BY <1>1, <1>6, FoldsAppend
<1>11. 1 - Pre!Player(line') = p
  BY <1>5
<1> QED BY <1>2, <1>3, <1>8, <1>9, <1>10, <1>11 DEF CountedPreflop, next

\* Chance puts no chips in before the flop.
LEMMA CountedPreflopDeal ==
  ASSUME BInv, Counted, game = "preflop", Deal
  PROVE  CountedPreflop'
<1> DEFINE t == Pre!ChanceToken(line)
<1>1. /\ line' = Append(line, t) /\ UNCHANGED <<game, chips, folded>>
      /\ Pre!IsChance(line) /\ Chance
  BY Dealing, OfPreflop
<1>2. line \in Seq(Tokens)
  BY DEF BInv, Shape
<1>3. t \in {"hand", "cards", "/"} /\ t \in Tokens
  BY DEF Pre!ChanceToken, Tokens
<1> HIDE DEF t
<1>4. PICK n \in Nat : n = Len(line) /\ Len(line') = n + 1
  BY <1>1, <1>2, <1>3, Appended
<1>5. PrePot(line) \in PrePots /\ PrePot(line') = PrePot(line)
  <2>1. t \notin Raises \union {"c"}
    BY <1>3 DEF Raises
  <2> QED BY <1>1, <1>2, <1>3, <2>1, PreGrows, PreCounts
<1>6. Pre!Player(line) \in {0, 1} /\ Pre!Player(line') = 1 - Pre!Player(line)
  BY <1>1, <1>2, <1>3, PreflopTurns
<1> SUFFICES ASSUME folded = 2 PROVE CountedPreflop'
  BY <1>1 DEF CountedPreflop
<1>7. ~Pre!Contains(line', "f")
  BY <1>1, <1>2, <1>3, FoldsAppend DEF Counted, CountedPreflop
<1>8. CASE n < 2
  <2>1. chips[0] = 2 /\ chips[1] = 1 /\ PrePot(line) = PreStart
    BY <1>4, <1>8 DEF Counted, CountedPreflop
  <2>2. n = 1 => Pre!Player(line') = 1
    BY <1>4 DEF Pre!Player
  <2> QED BY <1>1, <1>4, <1>5, <1>7, <1>8, <2>1, <2>2 DEF CountedPreflop, PreStart
<1>9. CASE n >= 2
  <2>1. chips[0] = chips[1]
    BY <1>1, <1>4, <1>9, InvSettles DEF Level
  <2>2. PrePot(line).stage = chips[0] + chips[1] /\ PrePot(line).bet = chips[1 - Pre!Player(line)]
    BY <1>4, <1>9 DEF Counted, CountedPreflop
  <2>3. /\ chips[1 - Pre!Player(line)] = chips[0]
        /\ chips[1 - Pre!Player(line')] = chips[0]
    BY <1>6, <2>1
  <2> QED BY <1>1, <1>4, <1>5, <1>7, <1>9, <2>2, <2>3 DEF CountedPreflop
<1> QED BY <1>4, <1>8, <1>9

\* The first tokens of a line that was appended to.
LEMMA Shortened ==
  ASSUME NEW h \in Seq(Tokens), NEW t \in Tokens
  PROVE  /\ SubSeq(Append(h, t), 1, Len(Append(h, t)) - 1) = h
         /\ Len(h) >= 1 =>
              SubSeq(Append(h, t), 1, Len(Append(h, t)) - 2) = SubSeq(h, 1, Len(h) - 1)
<1> DEFINE g == Append(h, t)
<1>1. PICK n \in Nat : n = Len(h)
  OBVIOUS
<1>2. g \in Seq(Tokens) /\ Len(g) = n + 1 /\ \A i \in 1..n : g[i] = h[i]
  BY <1>1, Appended
<1> HIDE DEF g
<1>3. SubSeq(g, 1, n) = h
  <2>1. /\ SubSeq(g, 1, n) \in Seq(Tokens) /\ Len(SubSeq(g, 1, n)) = n
        /\ \A i \in 1..n : SubSeq(g, 1, n)[i] = g[i]
    BY <1>2, SubSeqProperties
  <2> QED BY <1>1, <1>2, <2>1, SeqEqual
<1>4. n >= 1 => SubSeq(g, 1, n - 1) = SubSeq(h, 1, n - 1)
  <2> SUFFICES ASSUME n >= 1 PROVE SubSeq(g, 1, n - 1) = SubSeq(h, 1, n - 1)
    OBVIOUS
  <2>1. PICK m \in Nat : m = n - 1 /\ m <= n
    OBVIOUS
  <2>2. /\ SubSeq(g, 1, m) \in Seq(Tokens) /\ Len(SubSeq(g, 1, m)) = m
        /\ \A i \in 1..m : SubSeq(g, 1, m)[i] = g[i]
    BY <1>2, <2>1, SubSeqProperties
  <2>3. /\ SubSeq(h, 1, m) \in Seq(Tokens) /\ Len(SubSeq(h, 1, m)) = m
        /\ \A i \in 1..m : SubSeq(h, 1, m)[i] = h[i]
    BY <1>1, <2>1, SubSeqProperties
  <2>4. \A i \in 1..m : SubSeq(g, 1, m)[i] = SubSeq(h, 1, m)[i]
    BY <1>2, <2>1, <2>2, <2>3
  <2> QED BY <2>1, <2>2, <2>3, <2>4, SeqEqual
<1>5. (n + 1) - 1 = n /\ (n + 1) - 2 = n - 1
  OBVIOUS
<1> QED BY <1>1, <1>2, <1>3, <1>4, <1>5 DEF g

\* Who folds after the flop ends the hand.
LEMMA PostflopFoldEnds ==
  ASSUME BInv, Counted, game = "postflop", folded # 2
  PROVE  Terminal
<1>1. line \in Seq(Tokens) /\ CountedPostflop
  BY DEF BInv, Shape, Counted
<1>2. Last(line) = "f" /\ line # <<>>
  <2>1. line = <<>> => Len(line) <= 2
    OBVIOUS
  <2> QED BY <1>1, <2>1 DEF CountedPostflop
<1> QED BY <1>2, OfPostflop DEF Post!IsTerminal, Post!Last, Last

\* What an action after the flop makes of the street, with the chips of the player to
\* act first and those of the other second.
StreetAfter(pot, own, other, last, a, next, ownAfter) ==
  /\ next.total = 2 * matched /\ next.total + next.stage = ownAfter + other
  /\ a = "k" => ownAfter = matched /\ other = matched
  /\ a = "bMIN" => other = matched
  /\ a \in Bets => /\ ownAfter = matched + next.bet
                   /\ pot.total + pot.stage + (IF last = "bMIN" THEN pot.bet ELSE 0) = 2 * other

\* It keeps the count.
LEMMA StreetCounts ==
  ASSUME NEW pot \in PostPots, NEW own \in Int, NEW other \in Int, NEW last, NEW a \in Tokens,
         a \in Bets \union {"k", "c"}, matched \in Int,
         pot.total = 2 * matched, pot.total + pot.stage = own + other,
         last \in {"cards", "k"} => own = matched /\ other = matched,
         last = "bMIN" => own = matched,
         last \in Bets => other = matched + pot.bet,
         last \in {"cards", "k"} \union Bets,
         a \in {"k", "bMIN"} => last \notin Bets, a = "c" => last \in Bets,
         a = "bMAX" => last # "bMAX",
         NEW ownAfter,
         a = "k" => ownAfter = own, a = "c" => ownAfter = other,
         a = "bMIN" => ownAfter = matched + SmallBet(2 * matched),
         a = "bMAX" => ownAfter = matched + 2 * matched
  PROVE  StreetAfter(pot, own, other, last, a, Post!Count(pot, a), ownAfter)
<1> DEFINE next == Post!Count(pot, a)
<1>1. pot.total \in Int /\ pot.stage \in Int /\ pot.bet \in Int /\ SmallBet(2 * matched) \in Int
  BY DEF PostPots, SmallBet
<1>2. CASE a = "k"
  <2>1. next = pot
    BY <1>2, PostCounts DEF Bets
  <2>2. last \in {"cards", "k"}
    BY <1>2
  <2> HIDE DEF next
  <2>3. StreetAfter(pot, own, other, last, a, next, ownAfter)
    BY <1>1, <1>2, <2>1, <2>2 DEF StreetAfter, Bets
  <2> QED BY <2>3 DEF next
<1>3. CASE a = "c"
  <2>1. next = [total |-> pot.total, stage |-> 2 * pot.bet, bet |-> pot.bet]
    BY <1>3, PostCounts
  <2> HIDE DEF next
  <2>2. StreetAfter(pot, own, other, last, a, next, ownAfter)
    BY <1>1, <1>3, <2>1 DEF StreetAfter, Bets
  <2> QED BY <2>2 DEF next
<1>4. CASE a = "bMIN"
  <2>1. PICK bet \in Int : bet = SmallBet(2 * matched)
    BY <1>1
  <2>2. next = [total |-> pot.total, stage |-> pot.stage + bet, bet |-> bet]
    BY <1>4, <2>1, PostCounts
  <2>3. last \in {"cards", "k"} /\ own = matched /\ other = matched /\ ownAfter = matched + bet
        /\ last # "bMIN"
    BY <1>4, <2>1 DEF Bets
  <2> HIDE DEF next
  <2>4. StreetAfter(pot, own, other, last, a, next, ownAfter)
    BY <1>1, <1>4, <2>2, <2>3 DEF StreetAfter, Bets
  <2> QED BY <2>4 DEF next
<1>5. CASE a = "bMAX"
  <2>1. next = [total |-> pot.total, stage |-> pot.stage + pot.total, bet |-> pot.total]
    BY <1>5, PostCounts
  <2>2. /\ ownAfter = matched + 2 * matched /\ own = matched
        /\ last = "bMIN" => other = matched + pot.bet
        /\ last # "bMIN" => other = matched
    BY <1>5 DEF Bets
  <2> HIDE DEF next
  <2>3. CASE last = "bMIN"
    <3>1. StreetAfter(pot, own, other, last, a, next, ownAfter)
      BY <1>1, <1>5, <2>1, <2>2, <2>3 DEF StreetAfter, Bets
    <3> QED BY <3>1 DEF next
  <2>4. CASE last # "bMIN"
    <3>1. StreetAfter(pot, own, other, last, a, next, ownAfter)
      BY <1>1, <1>5, <2>1, <2>2, <2>4 DEF StreetAfter, Bets
    <3> QED BY <3>1 DEF next
  <2> QED BY <2>3, <2>4
<1> QED BY <1>2, <1>3, <1>4, <1>5 DEF Bets

\* One action after the flop.
LEMMA CountedPostflopAct ==
  ASSUME BInv, Counted, game = "postflop", NEW a, Act(a)
  PROVE  CountedPostflop'
<1>1. /\ line \in Seq(Tokens) /\ a \in Tokens /\ line' = Append(line, a) /\ game' = game
  BY Acting
<1>2. folded = 2 /\ folded' = (IF a = "f" THEN Player ELSE folded) /\ matched' = matched
  BY Acts, PostflopFoldEnds
<1>3. PICK n \in Nat : n = Len(line)
  BY <1>1
<1>4. n > 3 /\ Last(line) # "/" /\ ~Post!StageEnded(line)
  BY <1>3, OfPostflop DEF Act, Deciding, Post!IsChance, Post!Last, Last
<1>5. /\ a \in Bets \union {"k", "f", "c"}
      /\ a \in {"k", "bMIN"} => Last(line) \notin Bets
      /\ a \in {"f", "c"} => Last(line) \in Bets
      /\ a = "bMAX" => Last(line) # "bMAX"
  BY <1>1, OfPostflop, PostflopActions DEF Act
<1>6. Len(line') = n + 1 /\ Last(line') = a
  BY <1>1, <1>3, Appended
<1>7. /\ \E i \in DOMAIN line : StartsAt(line, i)
      /\ \E i \in DOMAIN line' : StartsAt(line', i)
      /\ Post!Player(line') = 1 - Post!Player(line)
  <2>1. \E i \in DOMAIN line : StartsAt(line, i)
    BY <1>3, <1>4 DEF BInv, Postflop
  <2>2. a # "/"
    BY <1>5 DEF Bets
  <2> QED BY <1>1, <2>1, <2>2, TurnsPass
<1>8. PICK p \in {0, 1} : p = Player /\ p = Post!Player(line) /\ Post!Player(line') = 1 - p
  BY <1>7, OfPostflop, Costs
<1> DEFINE pot == Post!Pot(line)
           next == Post!Pot(line')
           last == Last(line)
<1>9. pot \in PostPots /\ next = Post!Count(pot, a)
  BY <1>1, PostGrows
<1>10. /\ last \in {"/", "cards", "k", "c"} \union Bets
       /\ pot.total = 2 * matched /\ pot.total + pot.stage = chips[0] + chips[1]
       /\ last \in {"/", "cards", "k"} => chips[0] = matched /\ chips[1] = matched
       /\ last = "bMIN" => chips[p] = matched
       /\ last \in Bets =>
            /\ chips[1 - p] = matched + pot.bet
            /\ GivenAway(SubSeq(line, 1, Len(line) - 1)) = 2 * chips[p]
  BY <1>2, <1>3, <1>4, <1>8 DEF Counted, CountedPostflop
<1>11. last \in {"cards", "k"} \union Bets
  <2>1. Post!Last(line) = last
    BY DEF Post!Last, Last
  <2> QED BY <1>4, <1>10, <2>1 DEF Post!StageEnded
<1>12. /\ chips[p] \in Int /\ chips[1 - p] \in Int /\ matched \in Int
       /\ chips[0] + chips[1] = chips[p] + chips[1 - p]
       /\ chips'[0] + chips'[1] = chips'[p] + chips'[1 - p]
       /\ chips'[1 - p] = chips[1 - p]
       /\ chips'[p] \in Int
       /\ last \in {"cards", "k"} => chips[p] = matched /\ chips[1 - p] = matched
  <2>1. /\ chips[0] \in Int /\ chips[1] \in Int /\ matched \in Int
        /\ chips'[0] \in Int /\ chips'[1] \in Int
    BY ChipsStay DEF Counted
  <2>2. chips'[1 - p] = chips[1 - p]
    BY <1>8, Costs
  <2>3. CASE p = 0
    BY <1>10, <2>1, <2>2, <2>3
  <2>4. CASE p = 1
    BY <1>10, <2>1, <2>2, <2>4
  <2> QED BY <2>3, <2>4
<1>13. /\ a \in {"k", "f"} => chips'[p] = chips[p]
       /\ a = "c" => chips'[p] = chips[1 - p]
       /\ a = "bMIN" => chips'[p] = matched + SmallBet(2 * matched)
       /\ a = "bMAX" => chips'[p] = matched + 2 * matched
  BY <1>8, Costs
<1>14. GivenAway(line) = pot.total + pot.stage + (IF last = "bMIN" THEN pot.bet ELSE 0)
  <2>1. Post!PotSize(line) = pot.total + pot.stage
    BY DEF Post!PotSize
  <2> QED BY <2>1 DEF GivenAway
<1>15. SubSeq(line', 1, Len(line') - 1) = line
       /\ SubSeq(line', 1, Len(line') - 2) = SubSeq(line, 1, Len(line) - 1)
  BY <1>1, <1>3, <1>4, Shortened
<1>16. ASSUME a = "f" PROVE CountedPostflop'
  <2>1. folded' = p /\ folded' # 2
    BY <1>2, <1>8, <1>16
  <2>2. Post!StageLength(line') % 2 = folded'
    <3>1. PICK m \in Nat : m = Post!StageLength(line')
      <4>1. line' \in Seq(Tokens)
        BY <1>1, Appended
      <4> QED BY <1>7, <4>1, StreetHasLength
    <3>2. (m + 1) % 2 = 1 - p
      BY <1>8, <3>1 DEF Post!Player
    <3>3. m % 2 = p
      BY <3>2
    <3> QED BY <2>1, <3>1, <3>3
  <2>3. Post!PotAtFold(line') = 2 * chips'[p]
    <3> DEFINE before == SubSeq(line, 1, Len(line) - 1)
    <3>1. GivenAway(before) = 2 * chips[p]
      BY <1>5, <1>10, <1>16
    <3>2. Post!PotAtFold(line') = GivenAway(before)
      BY <1>15, Zenon DEF Post!PotAtFold, GivenAway, Last, Post!Last
    <3> QED BY <1>13, <1>16, <3>1, <3>2
  <2>4. ~(Len(line') <= 2)
    BY <1>4, <1>6
  <2> QED BY <1>6, <1>16, <2>1, <2>2, <2>3, <2>4 DEF CountedPostflop
<1>17. ASSUME a # "f" PROVE CountedPostflop'
  <2>1. a \in Bets \union {"k", "c"}
    BY <1>5, <1>17
  <2> HIDE DEF pot, next, last
  <2>2. StreetAfter(pot, chips[p], chips[1 - p], last, a, next, chips'[p])
    <3>0. /\ a \in {"k", "bMIN"} => last \notin Bets
          /\ a = "c" => last \in Bets
          /\ a = "bMAX" => last # "bMAX"
          /\ pot.total + pot.stage = chips[p] + chips[1 - p]
          /\ a = "k" => chips'[p] = chips[p]
      BY <1>5, <1>10, <1>12, <1>13 DEF last
    <3>1. PICK own \in Int, other \in Int, ownAfter \in Int :
            own = chips[p] /\ other = chips[1 - p] /\ ownAfter = chips'[p]
      BY <1>12
    <3>2. StreetAfter(pot, own, other, last, a, Post!Count(pot, a), ownAfter)
      BY <1>1, <1>9, <1>10, <1>11, <1>12, <1>13, <2>1, <3>0, <3>1, StreetCounts
    <3> QED BY <1>9, <3>1, <3>2
  <2>3. /\ next.total = 2 * matched /\ next.total + next.stage = chips'[0] + chips'[1]
        /\ a = "k" => chips'[p] = matched /\ chips'[1 - p] = matched
        /\ a = "bMIN" => chips'[1 - p] = matched
        /\ a \in Bets => /\ chips'[p] = matched + next.bet
                         /\ GivenAway(line) = 2 * chips'[1 - p]
    BY <1>12, <1>14, <2>2 DEF StreetAfter
  <2>4. a = "k" => chips'[0] = matched /\ chips'[1] = matched
    BY <2>3
  <2>5. folded' = 2 /\ ~(Len(line') <= 2) /\ Len(line') >= 4 /\ 1 - (1 - p) = p
    BY <1>2, <1>4, <1>6, <1>17
  <2>6. a \in {"/", "cards", "k", "c"} \union Bets /\ (a \in {"/", "cards", "k"} => a = "k")
    BY <2>1 DEF Bets
  <2> QED BY <1>2, <1>6, <1>8, <1>15, <2>3, <2>4, <2>5, <2>6 DEF CountedPostflop, next
<1> QED BY <1>16, <1>17

\* Chance puts no chips in after the flop: a new street begins with what is matched.
LEMMA CountedPostflopDeal ==
  ASSUME BInv, Counted, game = "postflop", Deal
  PROVE  CountedPostflop'
<1> DEFINE t == Post!ChanceToken(line)
<1>1. /\ line' = Append(line, t) /\ UNCHANGED <<game, chips, folded>>
      /\ Chance /\ ~Terminal /\ matched' = chips[0]
  BY Dealing DEF Deal
<1>2. line \in Seq(Tokens)
  BY DEF BInv, Shape
<1>3. PICK n \in Nat : n = Len(line)
  BY <1>2
<1>4. t = IF n < 2 THEN "hand" ELSE IF Last(line) = "/" THEN "cards" ELSE "/"
  BY <1>3 DEF Post!ChanceToken, Post!Last, Last
<1>5. t \in {"hand", "cards", "/"} /\ t \in Tokens
  BY <1>4 DEF Tokens
<1> HIDE DEF t
<1>6. Len(line') = n + 1 /\ Last(line') = t /\ line' # <<>>
  BY <1>1, <1>2, <1>3, <1>5, Appended
<1> DEFINE pot == Post!Pot(line)
           next == Post!Pot(line')
<1>7. pot \in PostPots /\ next = Post!Count(pot, t)
  BY <1>1, <1>2, <1>5, PostGrows
<1>8. /\ t # "/" => next = pot
      /\ t = "/" => next = [total |-> pot.total + pot.stage, stage |-> 0, bet |-> 0]
  BY <1>5, <1>7, PostCounts DEF Bets
<1>9. folded = 2
  BY <1>1, PostflopFoldEnds
<1>10. chips[0] \in Int /\ chips[1] \in Int /\ matched \in Int
  BY DEF Counted
<1>11. n <= 2 => pot = PostStart /\ chips[0] = 2 /\ chips[1] = 2 /\ matched = 2
  BY <1>3 DEF Counted, CountedPostflop
<1>12. CASE n < 2
  <2>1. t = "hand" /\ Len(line') <= 2 /\ ~(Len(line') >= 3)
    BY <1>4, <1>6, <1>12
  <2> HIDE DEF pot, next
  <2>2. next = PostStart /\ chips'[0] = 2 /\ chips'[1] = 2 /\ matched' = 2 /\ folded' = 2
    BY <1>1, <1>8, <1>9, <1>11, <1>12, <2>1
  <2> QED BY <1>6, <2>1, <2>2 DEF CountedPostflop, next
<1>13. CASE n >= 2
  <2>1. t \in {"/", "cards"} /\ ~(Len(line') <= 2) /\ (t = "cards" => Last(line) = "/")
        /\ (t = "cards" => n >= 3)
    <3>1. n = 2 => Last(line) = "hand"
      <4>1. n = 2 => line # <<>>
        <5>1. line = <<>> => Len(line) = 0
          OBVIOUS
        <5> QED BY <1>3, <5>1
      <4> QED BY <1>3, <4>1 DEF Counted, CountedPostflop
    <3> QED BY <1>4, <1>6, <1>13, <3>1
  <2>2. chips[0] = chips[1]
    BY <1>1, <1>3, <1>9, <1>13, InvSettles DEF Level
  <2>3. pot.total + pot.stage = chips[0] + chips[1]
    <3>1. n = 2 => pot.total + pot.stage = chips[0] + chips[1]
      BY <1>11 DEF PostStart
    <3>2. n >= 3 => pot.total + pot.stage = chips[0] + chips[1]
      BY <1>3, <1>9 DEF Counted, CountedPostflop
    <3> QED BY <1>13, <3>1, <3>2
  <2>4. t = "cards" => pot.total = 2 * matched /\ chips[0] = matched
    BY <1>3, <1>9, <2>1 DEF Counted, CountedPostflop
  <2>5. pot.total \in Int /\ pot.stage \in Int
    BY <1>7 DEF PostPots
  <2> HIDE DEF pot, next
  <2>6. next.total = 2 * chips[0] /\ next.total + next.stage = chips[0] + chips[1]
    <3>1. CASE t = "/"
      BY <1>8, <1>10, <2>2, <2>3, <2>5, <3>1
    <3>2. CASE t = "cards"
      BY <1>8, <1>10, <2>3, <2>4, <3>2
    <3> QED BY <2>1, <3>1, <3>2
  <2>7. t \notin Bets /\ t # "f"
    BY <2>1 DEF Bets
  <2>8. chips'[0] = chips[0] /\ chips'[1] = chips[0] /\ folded' = 2 /\ t # "bMIN"
    BY <1>1, <1>9, <2>2, <2>7 DEF Bets
  <2>9. t \in {"/", "cards", "k", "c"} \union Bets
    BY <2>1
  <2>10. next.total + next.stage = chips'[0] + chips'[1]
    BY <2>2, <2>6, <2>8
  <2> QED BY <1>1, <1>6, <2>1, <2>6, <2>7, <2>8, <2>9, <2>10 DEF CountedPostflop, next
<1> QED BY <1>12, <1>13

\* Every step keeps the count.
LEMMA CountIsKept == BInv /\ Counted /\ [BNext]_bvars => Counted'
<1> SUFFICES ASSUME BInv, Counted, [BNext]_bvars PROVE Counted'
  OBVIOUS
<1>1. CASE UNCHANGED bvars
  <2>1. Counted = Counted'
    BY <1>1 DEF bvars, Counted, CountedMulti, CountedPreflop, CountedPostflop
  <2> QED BY <2>1
<1>2. ASSUME NEW a, Act(a) PROVE Counted'
  <2>1. UNCHANGED <<game, winner, matched>> /\ \A p \in {0, 1} : chips'[p] \in Int
    BY <1>2, Acts, ChipsStay
  <2>2. game = "multi" => CountedMulti'
    BY <1>2, CountedMultiAct
  <2>3. game = "preflop" => CountedPreflop'
    BY <1>2, CountedPreflopAct
  <2>4. game = "postflop" => CountedPostflop'
    BY <1>2, CountedPostflopAct
  <2> QED BY <2>1, <2>2, <2>3, <2>4 DEF Counted
<1>3. CASE Deal
  <2>1. /\ UNCHANGED <<game, winner, chips>>
        /\ matched' = IF game = "postflop" THEN chips[0] ELSE matched
    BY <1>3 DEF Deal
  <2>2. matched' \in Int /\ winner' \in 0..2 /\ \A p \in {0, 1} : chips'[p] \in Int
    BY <2>1 DEF Counted
  <2>3. game = "multi" => CountedMulti'
    BY <1>3, CountedMultiDeal
  <2>4. game = "preflop" => CountedPreflop'
    BY <1>3, CountedPreflopDeal
  <2>5. game = "postflop" => CountedPostflop'
    BY <1>3, CountedPostflopDeal
  <2> QED BY <2>1, <2>2, <2>3, <2>4, <2>5 DEF Counted
<1> QED BY <1>1, <1>2, <1>3 DEF BNext

\* What is left to show of a hand that one of two players won, or nobody.
LEMMA Settling ==
  ASSUME winner \in 0..2, folded \in 0..2, chips[0] \in Int, chips[1] \in Int,
         \A p \in {0, 1} :
           LET won == IF folded = 2 THEN winner ELSE 1 - folded
           IN  TwiceUtility(p) = 2 * (IF won = 2 THEN 0 ELSE IF won = p THEN chips[1 - p]
                                      ELSE -chips[p])
  PROVE  SettlesInChips
<1> DEFINE won == IF folded = 2 THEN winner ELSE 1 - folded
<1>1. ASSUME won = 2 PROVE SettlesInChips
  <2>1. folded = 2 /\ winner = 2
    BY <1>1
  <2>2. \A p \in {0, 1} : TwiceUtility(p) = 2 * 0
    BY <1>1
  <2> QED BY <2>1, <2>2 DEF SettlesInChips
<1>2. ASSUME won # 2 PROVE SettlesInChips
  <2>1. PICK q \in {0, 1} : q = Loser
    BY <1>2 DEF Loser
  <2>2. won = 1 - q /\ ~(folded = 2 /\ winner = 2)
    BY <1>2, <2>1 DEF Loser
  <2>3. 1 - q \in {0, 1} /\ 1 - (1 - q) = q /\ 1 - q # q /\ chips[q] \in Int
    OBVIOUS
  <2>4. TwiceUtility(q) = 2 * (-chips[q])
    BY <1>2, <2>2, <2>3
  <2>5. TwiceUtility(1 - q) = 2 * chips[q]
    BY <1>2, <2>2, <2>3
  <2>6. TwiceUtility(q) = -2 * chips[q]
    BY <2>3, <2>4
  <2> QED BY <2>1, <2>2, <2>5, <2>6 DEF SettlesInChips
<1> QED BY <1>1, <1>2

\* The code settles a finished hand of the multi-street game by the investments.
LEMMA MultiSettles ==
  ASSUME BInv, Counted, game = "multi", Terminal
  PROVE  SettlesInChips
<1>1. /\ line \in [1..Streets -> Seq(Tokens)] /\ street \in 1..Streets /\ Streets \in Nat
      /\ winner \in 0..2 /\ folded \in 0..2
  BY GamesAssumption DEF BInv, Shape, Counted
<1>2. \A p \in {0, 1} : Multi!Investment(line, p) = chips[p] /\ chips[p] \in Int
  BY DEF Counted, CountedMulti
<1>3. \A p \in {0, 1} : TwiceUtility(p) = 2 * Multi!Payoff(winner, line, p)
  BY Zenon DEF TwiceUtility
<1> DEFINE won == IF folded = 2 THEN winner ELSE 1 - folded
<1>4. (IF Multi!FoldedIn(line) # {} THEN 1 - Multi!WhoFolded(line) ELSE winner) = won
  <2>1. CASE folded = 2
    <3>1. ~Multi!Contains(line[street], "f")
      <4>1. \/ line[street] \in {<<>>, <<"k">>, <<"b">>, <<"k", "b">>}
            \/ line[street] \in {<<"k", "k">>, <<"b", "c">>, <<"k", "b", "c">>}
        BY <2>1 DEF BInv, MultiStreet
      <4> QED BY <4>1 DEF Multi!Contains
    <3>2. \A s \in 1..(street - 1) : ~Multi!Contains(line[s], "f")
      BY <2>1 DEF BInv, MultiStreet
    <3>3. \A s \in (street + 1)..Streets : ~Multi!Contains(line[s], "f")
      BY DEF BInv, MultiStreet, Multi!Contains
    <3>4. \A s \in 1..Streets : s \in 1..(street - 1) \/ s = street \/ s \in (street + 1)..Streets
      BY <1>1
    <3>5. Multi!FoldedIn(line) = {}
      BY <3>1, <3>2, <3>3, <3>4 DEF Multi!FoldedIn
    <3> QED BY <2>1, <3>5
  <2>2. CASE folded # 2
    <3> DEFINE h == line[street]
               places == {i \in DOMAIN h : h[i] = "f"}
    <3>1. /\ Multi!FoldedIn(line) = {street} /\ places = {Len(h)} /\ (Len(h) - 1) % 2 = folded
      BY <2>2 DEF Counted, CountedMulti
    <3>2. Len(h) \in Nat
      BY <1>1
    <3>3. Multi!Min({street}) = street /\ Multi!Min({Len(h)}) = Len(h)
      BY <1>1, <3>2 DEF Multi!Min
    <3>4. Multi!WhoFolded(line) = (Multi!Min(places) - 1) % 2
      BY <3>1, <3>3 DEF Multi!WhoFolded
    <3>5. Multi!WhoFolded(line) = folded
      BY <3>1, <3>3, <3>4
    <3> QED BY <2>2, <3>1, <3>5
  <2> QED BY <2>1, <2>2
<1>5. ASSUME NEW p \in {0, 1}
      PROVE  TwiceUtility(p) = 2 * (IF won = 2 THEN 0 ELSE IF won = p THEN chips[1 - p]
                                    ELSE -chips[p])
  <2>1. Multi!Payoff(winner, line, p) =
          IF won = 2 THEN 0 ELSE IF won = p THEN Multi!Investment(line, 1 - p)
          ELSE -Multi!Investment(line, p)
    BY <1>4 DEF Multi!Payoff
  <2>2. 1 - p \in {0, 1}
    OBVIOUS
  <2> QED BY <1>2, <1>3, <2>1, <2>2
<1> QED BY <1>1, <1>2, <1>5, Settling

\* Before the flop it settles a showdown by the pot.
LEMMA PreflopSettles ==
  ASSUME BInv, Counted, game = "preflop", Terminal, folded = 2
  PROVE  SettlesInChips
<1>1. line \in Seq(Tokens) /\ winner \in 0..2 /\ chips[0] \in Int /\ chips[1] \in Int
  BY DEF BInv, Shape, Counted
<1>2. PICK n \in Nat : n = Len(line)
  BY <1>1
<1>3. n >= 3
  <2>1. line # <<>> /\ Last(line) = "cards"
    BY OfPreflop DEF Pre!IsTerminal, Pre!Last, Last
  <2> QED BY <1>1, <1>2, <2>1 DEF BInv, Preflop
<1>4. chips[0] = chips[1]
  BY <1>2, <1>3, InvSettles DEF Level
<1>5. ~Pre!Contains(line, "f") /\ Pre!PotSize(line) = chips[0] + chips[1]
  BY <1>2, <1>3 DEF Counted, CountedPreflop, PrePot, PreStart, Pre!PotSize
<1>6. ASSUME NEW p \in {0, 1}
      PROVE  TwiceUtility(p) = 2 * (IF winner = 2 THEN 0 ELSE IF winner = p THEN chips[1 - p]
                                    ELSE -chips[p])
  <2>1. TwiceUtility(p) = Pre!TwiceUtility(line, winner, p)
    BY Zenon DEF TwiceUtility
  <2>2. Pre!TwiceUtility(line, winner, p) =
          IF winner = 2 THEN 0 ELSE IF winner = p THEN Pre!PotSize(line) ELSE -Pre!PotSize(line)
    BY <1>5, Zenon DEF Pre!TwiceUtility
  <2>3. chips[p] = chips[0] /\ chips[1 - p] = chips[0]
    BY <1>4
  <2> QED BY <1>1, <1>4, <1>5, <2>1, <2>2, <2>3
<1> QED BY <1>1, <1>6, Settling

\* After the flop it settles a showdown by the pot, and a fold by the pot without the bet
\* that was not called.
LEMMA PostflopSettles ==
  ASSUME BInv, Counted, game = "postflop", Terminal
  PROVE  SettlesInChips
<1>1. /\ line \in Seq(Tokens) /\ winner \in 0..2 /\ folded \in 0..2
      /\ chips[0] \in Int /\ chips[1] \in Int
  BY DEF BInv, Shape, Counted
<1>2. PICK n \in Nat : n = Len(line)
  BY <1>1
<1>3. \A p : TwiceUtility(p) = Post!TwiceUtility(line, winner, p)
  BY Zenon DEF TwiceUtility
<1>4. CASE folded # 2
  <2>1. /\ Last(line) = "f" /\ Post!StageLength(line) % 2 = folded
        /\ Post!PotAtFold(line) = 2 * chips[folded]
    BY <1>4 DEF Counted, CountedPostflop
  <2>2. \A p : Post!TwiceUtility(line, winner, p) =
                 IF folded = p THEN -Post!PotAtFold(line) ELSE Post!PotAtFold(line)
    BY <2>1 DEF Post!TwiceUtility, Post!Last, Last
  <2>3. PICK q \in {0, 1} : q = folded
    BY <1>1, <1>4
  <2>4. chips[q] \in Int /\ 1 - q # q
    BY <1>1, <2>3
  <2>5. TwiceUtility(q) = -2 * chips[q] /\ TwiceUtility(1 - q) = 2 * chips[q]
    BY <1>3, <2>1, <2>2, <2>3, <2>4
  <2> QED BY <1>4, <2>3, <2>5 DEF SettlesInChips, Loser
<1>5. CASE folded = 2
  <2>1. line # <<>> /\ (Last(line) = "f" \/ Post!StageEnded(line))
    BY OfPostflop DEF Post!IsTerminal, Post!Last, Last
  <2>2. n >= 3
    <3> SUFFICES ASSUME n <= 2 PROVE FALSE
      BY <1>2
    <3>1. Last(line) = "hand"
      BY <1>2, <2>1 DEF Counted, CountedPostflop
    <3>2. Post!EndsWith(line, <<"k", "k">>) => Last(line) = "k"
      BY <1>1, Endings DEF Last
    <3> QED BY <2>1, <3>1, <3>2 DEF Post!StageEnded, Post!Last, Last
  <2>3. chips[0] = chips[1]
    BY <1>2, <1>5, <2>2, InvSettles DEF Level
  <2>4. Last(line) # "f" /\ Post!PotSize(line) = chips[0] + chips[1]
    <3>1. /\ Last(line) \in {"/", "cards", "k", "c"} \union Bets
          /\ Post!Pot(line).total + Post!Pot(line).stage = chips[0] + chips[1]
      BY <1>2, <1>5, <2>2 DEF Counted, CountedPostflop
    <3> QED BY <3>1 DEF Bets, Post!PotSize
  <2>5. ASSUME NEW p \in {0, 1}
        PROVE  TwiceUtility(p) = 2 * (IF winner = 2 THEN 0 ELSE IF winner = p THEN chips[1 - p]
                                      ELSE -chips[p])
    <3>1. Post!TwiceUtility(line, winner, p) =
            IF winner = 2 THEN 0
            ELSE IF winner = p THEN Post!PotSize(line) ELSE -Post!PotSize(line)
      BY <2>4, Zenon DEF Post!TwiceUtility, Post!Last, Last
    <3>2. chips[p] = chips[0] /\ chips[1 - p] = chips[0]
      BY <2>3
    <3> QED BY <1>1, <1>3, <2>3, <2>4, <3>1, <3>2
  <2> QED BY <1>1, <1>5, <2>5, Settling
<1> QED BY <1>4, <1>5

\* The utility that the code reads off the history is what was won and lost in chips.
THEOREM Settles == BSpec => []SettlesInChips
<1>1. BInv /\ Counted => SettlesInChips
  <2> SUFFICES ASSUME BInv, Counted, Terminal, game = "preflop" => folded = 2
               PROVE  SettlesInChips
    BY DEF SettlesInChips
  <2> QED BY MultiSettles, PreflopSettles, PostflopSettles DEF BInv, Shape
<1>2. BInit => BInv /\ Counted
  BY InvHoldsAtFirst, CountedAtFirst
<1>3. BInv /\ Counted /\ [BNext]_bvars => BInv' /\ Counted'
  BY InvIsKept, CountIsKept
<1> QED
  BY <1>1, <1>2, <1>3, PTL DEF BSpec

-----------------------------------------------------------------------------
(* The value of a strategy, and of the best answer to it. *)

Lines == StreetLines \cup StreetEnds

\* What a short line contains, and how long it is.
LEMMA ShortLines ==
  /\ Len(<<>>) = 0 /\ \A e : ~Multi!Contains(<<>>, e)
  /\ \A x : Len(<<x>>) = 1 /\ \A e : Multi!Contains(<<x>>, e) => e = x
  /\ \A x, y : /\ Len(<<x, y>>) = 2
               /\ \A e : Multi!Contains(<<x, y>>, e) <=> e \in {x, y}
  /\ \A x, y, z : /\ Len(<<x, y, z>>) = 3
                  /\ \A e : Multi!Contains(<<x, y, z>>, e) <=> e \in {x, y, z}
<1>1. \A e : ~Multi!Contains(<<>>, e)
  BY DEF Multi!Contains
<1>2. \A x, e : Multi!Contains(<<x>>, e) => e = x
  <2>1. \A i \in 1..1 : i = 1
    OBVIOUS
  <2> QED BY <2>1 DEF Multi!Contains
<1>3. \A x, y, e : Multi!Contains(<<x, y>>, e) <=> e \in {x, y}
  <2>1. \A i \in 1..2 : i = 1 \/ i = 2
    OBVIOUS
  <2> QED BY <2>1 DEF Multi!Contains
<1>4. \A x, y, z, e : Multi!Contains(<<x, y, z>>, e) <=> e \in {x, y, z}
  <2>1. \A i \in 1..3 : i = 1 \/ i = 2 \/ i = 3
    OBVIOUS
  <2> QED BY <2>1 DEF Multi!Contains
<1> QED BY <1>1, <1>2, <1>3, <1>4

\* A line that goes on, and what it goes on with.
GoesOn(h) ==
  /\ h \in Seq(Tokens) /\ Len(h) \in 0..2 /\ ~Multi!StreetOver(h)
  /\ \A a \in {1, 2} :
       LET next == Append(h, Multi!Actions(h)[a])
       IN  next \in Lines /\ Len(next) = Len(h) + 1

\* With these two actions.
LEMMA GoingOn ==
  ASSUME NEW h \in Seq(Tokens), Len(h) \in 0..2, ~Multi!Contains(h, "f"),
         h \notin {<<"k", "k">>, <<"b", "c">>},
         NEW x, NEW y, Multi!Actions(h) = <<x, y>>, Append(h, x) \in Lines, Append(h, y) \in Lines
  PROVE  GoesOn(h)
<1>1. \A x1, y1, z1 : Len(<<x1, y1, z1>>) = 3
  OBVIOUS
<1>2. h # <<"k", "b", "c">>
  BY <1>1
<1>3. ~Multi!StreetOver(h)
  BY <1>2 DEF Multi!StreetOver
<1>4. \A a \in {1, 2} : Multi!Actions(h)[a] \in {x, y}
  OBVIOUS
<1>5. \A z : Len(Append(h, z)) = Len(h) + 1
  OBVIOUS
<1> QED BY <1>3, <1>4, <1>5 DEF GoesOn

LEMMA LinesGoOn == \A h \in StreetLines : GoesOn(h)
<1>1. GoesOn(<<>>)
  <2>1. <<>> \in Seq(Tokens) /\ Len(<<>>) = 0 /\ \A e : ~Multi!Contains(<<>>, e)
    BY ShortLines
  <2>2. Multi!Actions(<<>>) = <<"k", "b">>
    BY <2>1 DEF Multi!Actions
  <2>3. Append(<<>>, "k") = <<"k">> /\ Append(<<>>, "b") = <<"b">>
    OBVIOUS
  <2>4. <<>> \notin {<<"k", "k">>, <<"b", "c">>}
    OBVIOUS
  <2>5. Append(<<>>, "k") \in Lines /\ Append(<<>>, "b") \in Lines
    BY <2>3 DEF Lines, StreetLines
  <2>6. Len(<<>>) \in 0..2
    BY <2>1
  <2> QED BY Zenon, <2>1, <2>2, <2>4, <2>5, <2>6, GoingOn
<1>2. GoesOn(<<"k">>)
  <2>1. <<"k">> \in Seq(Tokens) /\ Len(<<"k">>) = 1
    BY DEF Tokens
  <2>2. \A e : Multi!Contains(<<"k">>, e) => e = "k"
    BY ShortLines
  <2>3. Multi!Actions(<<"k">>) = <<"k", "b">>
    BY <2>2 DEF Multi!Actions
  <2>4. \A a : Append(<<"k">>, a) = <<"k", a>>
    BY Longer
  <2>5. <<"k">> \notin {<<"k", "k">>, <<"b", "c">>}
    <3>1. Len(<<"k", "k">>) = 2 /\ Len(<<"b", "c">>) = 2
      OBVIOUS
    <3> QED BY <2>1, <3>1
  <2>6. Append(<<"k">>, "k") \in Lines /\ Append(<<"k">>, "b") \in Lines
    BY Zenon, <2>4 DEF Lines, StreetLines, StreetEnds
  <2> QED BY <2>1, <2>2, <2>3, <2>5, <2>6, GoingOn
<1>3. GoesOn(<<"b">>)
  <2>1. <<"b">> \in Seq(Tokens) /\ Len(<<"b">>) = 1
    BY DEF Tokens
  <2>2. \A e : Multi!Contains(<<"b">>, e) => e = "b"
    BY ShortLines
  <2>3. Multi!Actions(<<"b">>) = <<"f", "c">>
    BY DEF Multi!Actions, Multi!Contains
  <2>4. \A a : Append(<<"b">>, a) = <<"b", a>>
    BY Longer
  <2>5. <<"b">> \notin {<<"k", "k">>, <<"b", "c">>}
    <3>1. Len(<<"k", "k">>) = 2 /\ Len(<<"b", "c">>) = 2
      OBVIOUS
    <3> QED BY <2>1, <3>1
  <2>6. Append(<<"b">>, "f") \in Lines /\ Append(<<"b">>, "c") \in Lines
    BY Zenon, <2>4 DEF Lines, StreetEnds
  <2> QED BY <2>1, <2>2, <2>3, <2>5, <2>6, GoingOn
<1>4. GoesOn(<<"k", "b">>)
  <2>1. <<"k", "b">> \in Seq(Tokens) /\ Len(<<"k", "b">>) = 2
    BY DEF Tokens
  <2>2. \A e : Multi!Contains(<<"k", "b">>, e) <=> e \in {"k", "b"}
    BY ShortLines
  <2>3. Multi!Actions(<<"k", "b">>) = <<"f", "c">>
    BY <2>2 DEF Multi!Actions
  <2>4. \A a : Append(<<"k", "b">>, a) = <<"k", "b", a>>
    BY Longer
  <2>5. <<"k", "b">> \notin {<<"k", "k">>, <<"b", "c">>}
    OBVIOUS
  <2>6. Append(<<"k", "b">>, "f") \in Lines /\ Append(<<"k", "b">>, "c") \in Lines
    BY Zenon, <2>4 DEF Lines, StreetEnds
  <2> QED BY <2>1, <2>2, <2>3, <2>5, <2>6, GoingOn
<1> QED BY <1>1, <1>2, <1>3, <1>4 DEF StreetLines

LEMMA LinesEnd ==
  \A h \in StreetEnds : h \in Seq(Tokens) /\ Len(h) \in 0..3 /\ Multi!StreetOver(h)
<1>1. \A x, y, z \in Tokens : /\ <<x, y>> \in Seq(Tokens) /\ Len(<<x, y>>) = 2
                              /\ <<x, y, z>> \in Seq(Tokens) /\ Len(<<x, y, z>>) = 3
  OBVIOUS
<1>2. \A h \in StreetEnds : h \in Seq(Tokens) /\ (Len(h) = 2 \/ Len(h) = 3)
  <2>1. "k" \in Tokens /\ "b" \in Tokens /\ "f" \in Tokens /\ "c" \in Tokens
    BY DEF Tokens
  <2> QED BY Zenon, <1>1, <2>1 DEF StreetEnds
<1>3. Multi!StreetOver(<<"b", "f">>) /\ Multi!StreetOver(<<"k", "b", "f">>)
  <2>1. Multi!Contains(<<"b", "f">>, "f") /\ Multi!Contains(<<"k", "b", "f">>, "f")
    BY Zenon, ShortLines
  <2> QED BY <2>1 DEF Multi!StreetOver
<1>4. /\ Multi!StreetOver(<<"k", "k">>) /\ Multi!StreetOver(<<"b", "c">>)
      /\ Multi!StreetOver(<<"k", "b", "c">>)
  BY Zenon DEF Multi!StreetOver
<1>5. \A h \in StreetEnds : Multi!StreetOver(h)
  BY Zenon, <1>3, <1>4 DEF StreetEnds
<1> QED BY <1>2, <1>5

\* How far a position is from the end of the hand.
Distance ==
  [at \in Positions |-> 4 * (Streets - at[2]) + (3 - Len(at[1][at[2]]))]

Nearer(at) == Lower(Positions, Distance, Distance[at])

\* It is a number below a bound, smaller on the next street and after an action.
LEMMA Measured ==
  /\ Distance \in [Positions -> Nat]
  /\ 4 * Streets + 4 \in Nat
  /\ \A at \in Positions : Distance[at] < 4 * Streets + 4
  /\ \A g \in [1..Streets -> Lines], r \in 1..Streets :
       /\ <<g, r>> \in Positions
       /\ Len(g[r]) \in 0..3
       /\ Distance[<<g, r>>] = 4 * (Streets - r) + (3 - Len(g[r]))
       /\ Distance[<<g, r>>] \in Nat
<1>1. \A h \in Lines : Len(h) \in 0..3
  BY LinesGoOn, LinesEnd DEF Lines, GoesOn
<1>2. \A g \in [1..Streets -> Lines], r \in 1..Streets :
        /\ <<g, r>> \in Positions
        /\ Len(g[r]) \in 0..3
        /\ Distance[<<g, r>>] = 4 * (Streets - r) + (3 - Len(g[r]))
        /\ Distance[<<g, r>>] \in Nat
        /\ Distance[<<g, r>>] < 4 * Streets + 4
  <2> TAKE g \in [1..Streets -> Lines], r \in 1..Streets
  <2>1. <<g, r>> \in Positions
    BY DEF Positions, Lines
  <2>2. Distance[<<g, r>>] = 4 * (Streets - r) + (3 - Len(g[r]))
    BY <2>1 DEF Distance
  <2>3. PICK n \in 0..3 : n = Len(g[r])
    BY <1>1
  <2>4. PICK m \in Nat : m = Streets - r /\ m <= Streets
    BY GamesAssumption
  <2>5. PICK d : d = Distance[<<g, r>>]
    OBVIOUS
  <2>6. d = 4 * m + (3 - n)
    BY <2>2, <2>3, <2>4, <2>5
  <2>7. d \in Nat /\ d < 4 * Streets + 4
    BY <2>4, <2>6, GamesAssumption
  <2> QED BY <2>1, <2>2, <2>3, <2>5, <2>7
<1>3. \A at \in Positions : Distance[at] \in Nat /\ Distance[at] < 4 * Streets + 4
  BY <1>2 DEF Positions, Lines
<1>4. Distance \in [Positions -> Nat]
  BY <1>3 DEF Distance
<1>5. 4 * Streets + 4 \in Nat
  BY GamesAssumption
<1> QED BY Zenon, <1>2, <1>3, <1>4, <1>5

\* The recursions go nearer to the end.
LEMMA Moves ==
  ASSUME NEW at \in Positions, ~Multi!IsTerminal(at[1])
  PROVE  /\ Multi!StreetOver(at[1][at[2]]) => NextStreet(at) \in Nearer(at)
         /\ ~Multi!StreetOver(at[1][at[2]]) =>
              /\ at[1][at[2]] \in StreetLines /\ Key(at) \in Keys
              /\ Played(at, 1) \in Nearer(at) /\ Played(at, 2) \in Nearer(at)
<1>1. PICK hist \in [1..Streets -> Lines], s \in 1..Streets : at = <<hist, s>>
  BY DEF Positions, Lines
<1>2. PICK n \in 0..3 : n = Len(hist[s])
  BY Measured
<1>3. PICK m \in Nat : m = Streets - s
  BY GamesAssumption
<1>4. <<hist, s>> \in Positions /\ Distance[<<hist, s>>] = 4 * m + (3 - n)
  BY <1>2, <1>3, Measured
<1>5. ASSUME Multi!StreetOver(hist[s]) PROVE NextStreet(at) \in Nearer(at)
  <2>1. s # Streets
    BY <1>1, <1>5 DEF Multi!IsTerminal
  <2>2. s + 1 \in 1..Streets /\ Streets - (s + 1) = m - 1
    BY <1>3, <2>1, GamesAssumption
  <2>3. NextStreet(at) = <<hist, s + 1>>
    BY <1>1 DEF NextStreet
  <2>4. PICK l \in 0..3 : l = Len(hist[s + 1])
    BY <2>2, Measured
  <2>5. <<hist, s + 1>> \in Positions /\ Distance[<<hist, s + 1>>] = 4 * (m - 1) + (3 - l)
    BY <2>2, <2>4, Measured
  <2>6. 4 * (m - 1) + (3 - l) < 4 * m + (3 - n)
    OBVIOUS
  <2> QED BY <1>1, <1>4, <2>3, <2>5, <2>6 DEF Nearer, Lower
<1>6. ASSUME ~Multi!StreetOver(hist[s])
      PROVE  /\ hist[s] \in StreetLines /\ Key(at) \in Keys
             /\ \A a \in {1, 2} : Played(at, a) \in Nearer(at)
  <2>1. hist[s] \in StreetLines
    BY <1>6, LinesEnd DEF Lines
  <2>2. Key(at) = <<s, hist[s]>> /\ Key(at) \in Keys
    BY <1>1, <2>1 DEF Key, Keys
  <2>3. ASSUME NEW a \in {1, 2} PROVE Played(at, a) \in Nearer(at)
    <3> DEFINE more == Append(hist[s], Multi!Actions(hist[s])[a])
               next == [hist EXCEPT ![s] = more]
    <3>1. more \in Lines /\ Len(more) = Len(hist[s]) + 1
      BY <2>1, LinesGoOn DEF GoesOn
    <3>2. Played(at, a) = <<next, s>>
      BY <1>1 DEF Played
    <3> HIDE DEF more
    <3>3. next \in [1..Streets -> Lines] /\ next[s] = more
      BY <3>1
    <3> HIDE DEF next
    <3>4. <<next, s>> \in Positions /\ Distance[<<next, s>>] = 4 * m + (3 - (n + 1))
      BY <1>2, <1>3, <3>1, <3>3, Measured
    <3>5. 4 * m + (3 - (n + 1)) < 4 * m + (3 - n)
      OBVIOUS
    <3> QED BY <1>1, <1>4, <3>2, <3>4, <3>5 DEF Nearer, Lower
  <2> QED BY <2>1, <2>2, <2>3
<1> QED BY <1>1, <1>5, <1>6

\* A mixture of two values moves with them, and is one of them at the ends.
LEMMA Mixing ==
  ASSUME NEW first \in 0..One, NEW x \in Int, NEW y \in Int
  PROVE  /\ Mixed(first, x, y) \in Int
         /\ \A u, w \in Int : x <= u /\ y <= w => Mixed(first, x, y) <= Mixed(first, u, w)
         /\ \A m \in Int : x <= m /\ y <= m => Mixed(first, x, y) <= m
         /\ first = One => Mixed(first, x, y) = x
         /\ first = 0 => Mixed(first, x, y) = y
<1>1. PICK n \in Nat \ {0} : n = One
  BY ValuesAssumption
<1>2. \A a, b \in Int : a <= b => a \div n <= b \div n
  OBVIOUS
<1>3. \A a \in Int : (n * a) \div n = a
  OBVIOUS
<1>4. PICK p \in Nat : p = first
  BY <1>1
<1>5. PICK q \in Nat : q = One - first /\ p + q = n
  BY <1>1, <1>4
<1>6. \A a, b \in Int : Mixed(first, a, b) = (p * a + q * b) \div n /\ p * a + q * b \in Int
  BY <1>1, <1>4, <1>5 DEF Mixed
<1>7. Mixed(first, x, y) \in Int
  BY <1>6
<1>8. ASSUME NEW u \in Int, NEW w \in Int, x <= u, y <= w
      PROVE  Mixed(first, x, y) <= Mixed(first, u, w)
  <2>1. p * x <= p * u /\ q * y <= q * w
    BY <1>8
  <2>2. p * x + q * y <= p * u + q * w
    BY <2>1
  <2>3. PICK i \in Int, j \in Int : i = p * x + q * y /\ j = p * u + q * w
    BY <1>6
  <2>4. i \div n <= j \div n
    BY <1>2, <2>2, <2>3
  <2>5. Mixed(first, x, y) = i \div n /\ Mixed(first, u, w) = j \div n
    BY <1>6, <2>3
  <2> QED BY <2>4, <2>5
<1>9. ASSUME NEW m \in Int, x <= m, y <= m PROVE Mixed(first, x, y) <= m
  <2>1. p * m + q * m = n * m
    <3>1. p * m + q * m = (p + q) * m
      OBVIOUS
    <3> QED BY <1>5, <3>1
  <2>2. Mixed(first, m, m) = m
    BY <1>3, <1>6, <2>1
  <2> QED BY <1>8, <1>9, <2>2
<1>10. ASSUME first = One PROVE Mixed(first, x, y) = x
  <2>1. p = n /\ q = 0
    BY <1>1, <1>4, <1>5, <1>10
  <2>2. p * x + q * y = n * x
    BY <2>1
  <2> QED BY <1>3, <1>6, <2>2
<1>11. ASSUME first = 0 PROVE Mixed(first, x, y) = y
  <2>1. p = 0 /\ q = n
    BY <1>1, <1>4, <1>5, <1>11
  <2>2. p * x + q * y = n * y
    BY <2>1
  <2> QED BY <1>3, <1>6, <2>2
<1> QED BY <1>7, <1>8, <1>9, <1>10, <1>11

\* What a finished hand is worth is a number.
LEMMA LeafTyped ==
  ASSUME NEW won, NEW hist \in [1..Streets -> Lines]
  PROVE  Leaf(won, hist) \in Int
<1>1. hist \in [1..Streets -> Seq(Tokens)] /\ 1 \in 1..Streets /\ "k" \in Tokens
  <2>1. \A h \in Lines : h \in Seq(Tokens)
    BY LinesGoOn, LinesEnd DEF Lines, GoesOn
  <2> QED BY <2>1, GamesAssumption DEF Tokens
<1>2. \A p \in {0, 1} : Multi!Investment(hist, p) \in Int
  BY <1>1, InvestmentGrows
<1>3. Multi!Payoff(won, hist, 0) \in Int
  BY <1>2 DEF Multi!Payoff
<1>4. Scale \in Int
  BY ValuesAssumption
<1> QED BY <1>3, <1>4 DEF Leaf

\* The greater of two.
LEMMA MaxOfTwo ==
  ASSUME NEW x \in Int, NEW y \in Int
  PROVE  /\ Max({x, y}) = IF x >= y THEN x ELSE y
         /\ Max({x, y}) \in Int /\ x <= Max({x, y}) /\ y <= Max({x, y})
<1>1. PICK m \in Int : x <= m /\ y <= m
  OBVIOUS
<1>2. Max({x, y}) \in {x, y} /\ \A z \in {x, y} : Max({x, y}) >= z
  BY <1>1, MaxExists
<1> QED BY <1>2

\* A way to combine the values of the two actions, position by position.
Worth(won, mix, f, at) ==
  IF Multi!IsTerminal(at[1]) THEN Leaf(won, at[1])
  ELSE IF Multi!StreetOver(at[1][at[2]]) THEN f[NextStreet(at)]
  ELSE mix[at][f[Played(at, 1)]][f[Played(at, 2)]]

\* Values that are so combined exist.
LEMMA ValuesExist ==
  ASSUME NEW won, NEW mix \in [Positions -> [Int -> [Int -> Int]]]
  PROVE  \E f \in [Positions -> Int] : \A at \in Positions : f[at] = Worth(won, mix, f, at)
<1> DEFINE step == [p \in Positions \X [Positions -> Int] |-> Worth(won, mix, p[2], p[1])]
<1>1. \A at \in Positions, f \in [Positions -> Int] : Worth(won, mix, f, at) \in Int
  <2> TAKE at \in Positions, f \in [Positions -> Int]
  <2>1. at[1] \in [1..Streets -> Lines]
    BY DEF Positions, Lines
  <2>2. CASE Multi!IsTerminal(at[1])
    BY <2>1, <2>2, LeafTyped DEF Worth
  <2>3. CASE ~Multi!IsTerminal(at[1]) /\ Multi!StreetOver(at[1][at[2]])
    <3>1. NextStreet(at) \in Positions
      BY <2>3, Moves DEF Nearer, Lower
    <3>2. Worth(won, mix, f, at) = f[NextStreet(at)]
      BY Zenon, <2>3 DEF Worth
    <3> QED BY <3>1, <3>2
  <2>4. CASE ~Multi!IsTerminal(at[1]) /\ ~Multi!StreetOver(at[1][at[2]])
    <3>1. Played(at, 1) \in Positions /\ Played(at, 2) \in Positions
      BY <2>4, Moves DEF Nearer, Lower
    <3>2. Worth(won, mix, f, at) = mix[at][f[Played(at, 1)]][f[Played(at, 2)]]
      BY Zenon, <2>4 DEF Worth
    <3>3. f[Played(at, 1)] \in Int /\ f[Played(at, 2)] \in Int
      BY <3>1
    <3>4. mix[at] \in [Int -> [Int -> Int]]
      OBVIOUS
    <3>5. mix[at][f[Played(at, 1)]] \in [Int -> Int]
      BY <3>3, <3>4
    <3> QED BY <3>2, <3>3, <3>5
  <2> QED BY <2>2, <2>3, <2>4
<1>2. /\ step \in [Positions \X [Positions -> Int] -> Int]
      /\ \A at \in Positions, f \in [Positions -> Int] : step[<<at, f>>] = Worth(won, mix, f, at)
  BY <1>1
<1> HIDE DEF step
<1>3. AsksLower(Positions, Int, Distance, step)
  <2> SUFFICES ASSUME NEW at \in Positions, NEW f \in [Positions -> Int], NEW g \in [Positions -> Int],
                      \A y \in Nearer(at) : f[y] = g[y]
               PROVE  step[<<at, f>>] = step[<<at, g>>]
    BY DEF AsksLower, Nearer
  <2>1. Worth(won, mix, f, at) = Worth(won, mix, g, at)
    BY Moves DEF Worth
  <2> QED BY <1>2, <2>1
<1>4. Distance \in [Positions -> Nat] /\ 4 * Streets + 4 \in Nat /\ \A at \in Positions : Distance[at] < 4 * Streets + 4
  BY Measured
<1>5. Recursion(Positions, Int, Distance, step, 4 * Streets + 4)
  BY <1>2, <1>3, <1>4 DEF Recursion
<1>6. PICK f : SolutionOf(f, Positions, Int, step)
  BY Zenon, <1>5, RecursionExists
<1> QED BY <1>2, <1>6 DEF SolutionOf

\* The values of a strategy.
Valued(v, won, play) ==
  /\ v \in [Positions -> Int]
  /\ \A at \in Positions :
       v[at] = IF Multi!IsTerminal(at[1]) THEN Leaf(won, at[1])
               ELSE IF Multi!StreetOver(at[1][at[2]]) THEN v[NextStreet(at)]
               ELSE Mixed(play[Key(at)], v[Played(at, 1)], v[Played(at, 2)])

\* The values of the first player's response to it.
Answered(w, won, play) ==
  /\ w \in [Positions -> Int]
  /\ \A at \in Positions :
       w[at] = IF Multi!IsTerminal(at[1]) THEN Leaf(won, at[1])
               ELSE IF Multi!StreetOver(at[1][at[2]]) THEN w[NextStreet(at)]
               ELSE IF Multi!CurrentPlayer(at[1][at[2]]) = 0
               THEN Max({w[Played(at, 1)], w[Played(at, 2)]})
               ELSE Mixed(play[Key(at)], w[Played(at, 1)], w[Played(at, 2)])

\* A value is a number at every position when it is one wherever the nearer ones are.
Numbers(f) == \A at \in Positions : (\A p \in Nearer(at) : f[p] \in Int) => f[at] \in Int

LEMMA NumbersAll ==
  ASSUME NEW f, Numbers(f)
  PROVE  \A at \in Positions : f[at] \in Int
<1> DEFINE good == {at \in Positions : f[at] \in Int}
<1>1. Distance \in [Positions -> Nat] /\ good \in SUBSET Positions
  BY Measured
<1>2. \A at \in Positions : Lower(Positions, Distance, Distance[at]) \subseteq good => at \in good
  BY DEF Nearer, Numbers
<1> HIDE DEF good
<1>3. good = Positions
  BY <1>1, <1>2, RankInduction
<1> QED BY <1>3 DEF good

\* The recursion over a strategy is defined: its values are those of the strategy.
LEMMA StrategyValued ==
  ASSUME NEW won, NEW play \in [Keys -> 0..One]
  PROVE  Valued(ValueOfStrategy(won, play), won, play)
<1> DEFINE mix == [at \in Positions |-> [x \in Int |-> [y \in Int |->
                     IF Key(at) \in Keys THEN Mixed(play[Key(at)], x, y) ELSE 0]]]
           next(v) == [at \in Positions |->
                         IF Multi!IsTerminal(at[1]) THEN Leaf(won, at[1])
                         ELSE IF Multi!StreetOver(at[1][at[2]]) THEN v[NextStreet(at)]
                         ELSE Mixed(play[Key(at)], v[Played(at, 1)], v[Played(at, 2)])]
<1>1. \A at \in Positions, x, y \in Int : Key(at) \in Keys => Mixed(play[Key(at)], x, y) \in Int
  BY Mixing
<1>2. mix \in [Positions -> [Int -> [Int -> Int]]]
  BY <1>1
<1>3. \A at \in Positions, x, y \in Int :
        Key(at) \in Keys => mix[at][x][y] = Mixed(play[Key(at)], x, y)
  OBVIOUS
<1> HIDE DEF mix
<1>4. PICK f \in [Positions -> Int] : \A at \in Positions : f[at] = Worth(won, mix, f, at)
  BY <1>2, ValuesExist
<1>5. f = next(f)
  <2>1. \A at \in Positions : f[at] = next(f)[at]
    <3> TAKE at \in Positions
    <3>1. CASE Multi!IsTerminal(at[1])
      BY <1>4, <3>1 DEF Worth
    <3>2. CASE ~Multi!IsTerminal(at[1]) /\ Multi!StreetOver(at[1][at[2]])
      BY <1>4, <3>2 DEF Worth
    <3>3. CASE ~Multi!IsTerminal(at[1]) /\ ~Multi!StreetOver(at[1][at[2]])
      <4>1. Key(at) \in Keys /\ Played(at, 1) \in Positions /\ Played(at, 2) \in Positions
        BY <3>3, Moves DEF Nearer, Lower
      <4>2. f[at] = mix[at][f[Played(at, 1)]][f[Played(at, 2)]]
        BY Zenon, <1>4, <3>3 DEF Worth
      <4>3. f[at] = Mixed(play[Key(at)], f[Played(at, 1)], f[Played(at, 2)])
        BY <1>3, <4>1, <4>2
      <4> QED BY <3>3, <4>3
    <3> QED BY <3>1, <3>2, <3>3
  <2> QED BY <2>1
<1>6. PICK g : g = ValueOfStrategy(won, play)
  OBVIOUS
<1>7. g = next(g)
  BY Zenon, <1>5, <1>6 DEF ValueOfStrategy
<1>8. \A at \in Positions :
        g[at] = IF Multi!IsTerminal(at[1]) THEN Leaf(won, at[1])
                ELSE IF Multi!StreetOver(at[1][at[2]]) THEN g[NextStreet(at)]
                ELSE Mixed(play[Key(at)], g[Played(at, 1)], g[Played(at, 2)])
  BY <1>7
<1>9. \A at \in Positions : g[at] \in Int
  <2>1. ASSUME NEW at \in Positions, \A p \in Nearer(at) : g[p] \in Int PROVE g[at] \in Int
    <3>1. CASE Multi!IsTerminal(at[1])
      <4>1. at[1] \in [1..Streets -> Lines]
        BY DEF Positions, Lines
      <4> QED BY <1>8, <3>1, <4>1, LeafTyped
    <3>2. CASE ~Multi!IsTerminal(at[1]) /\ Multi!StreetOver(at[1][at[2]])
      BY <1>8, <2>1, <3>2, Moves
    <3>3. CASE ~Multi!IsTerminal(at[1]) /\ ~Multi!StreetOver(at[1][at[2]])
      <4>1. /\ Key(at) \in Keys
            /\ Played(at, 1) \in Nearer(at) /\ Played(at, 2) \in Nearer(at)
        BY <3>3, Moves
      <4>2. g[at] = Mixed(play[Key(at)], g[Played(at, 1)], g[Played(at, 2)])
        BY Zenon, <1>8, <3>3
      <4> QED BY <1>1, <2>1, <4>1, <4>2
    <3> QED BY <3>1, <3>2, <3>3
  <2>2. Numbers(g)
    BY <2>1 DEF Numbers
  <2> QED BY Zenon, <2>2, NumbersAll
<1>10. g \in [Positions -> Int]
  BY <1>7, <1>9
<1> QED BY Zenon, <1>6, <1>8, <1>10 DEF Valued


\* And the recursion of the first player's response to it.
LEMMA ResponseAnswered ==
  ASSUME NEW won, NEW play \in [Keys -> 0..One]
  PROVE  Answered(ValueOfResponse(won, play, 0), won, play)
<1> DEFINE mix == [at \in Positions |-> [x \in Int |-> [y \in Int |->
                     IF Multi!CurrentPlayer(at[1][at[2]]) = 0 THEN Max({x, y})
                     ELSE IF Key(at) \in Keys THEN Mixed(play[Key(at)], x, y) ELSE 0]]]
           next(v) == [at \in Positions |->
                         IF Multi!IsTerminal(at[1]) THEN Leaf(won, at[1])
                         ELSE IF Multi!StreetOver(at[1][at[2]]) THEN v[NextStreet(at)]
                         ELSE IF Multi!CurrentPlayer(at[1][at[2]]) = 0
                         THEN Max({v[Played(at, 1)], v[Played(at, 2)]})
                         ELSE Mixed(play[Key(at)], v[Played(at, 1)], v[Played(at, 2)])]
<1>1. \A at \in Positions, x, y \in Int : Key(at) \in Keys => Mixed(play[Key(at)], x, y) \in Int
  BY Mixing
<1>2. \A x, y \in Int : Max({x, y}) \in Int
  BY MaxOfTwo
<1>3. mix \in [Positions -> [Int -> [Int -> Int]]]
  BY <1>1, <1>2
<1>4. \A at \in Positions, x, y \in Int :
        /\ Multi!CurrentPlayer(at[1][at[2]]) = 0 => mix[at][x][y] = Max({x, y})
        /\ (Multi!CurrentPlayer(at[1][at[2]]) # 0 /\ Key(at) \in Keys) =>
             mix[at][x][y] = Mixed(play[Key(at)], x, y)
  OBVIOUS
<1> HIDE DEF mix
<1>5. PICK f \in [Positions -> Int] : \A at \in Positions : f[at] = Worth(won, mix, f, at)
  BY <1>3, ValuesExist
<1>6. f = next(f)
  <2>1. \A at \in Positions : f[at] = next(f)[at]
    <3> TAKE at \in Positions
    <3>1. CASE Multi!IsTerminal(at[1])
      BY <1>5, <3>1 DEF Worth
    <3>2. CASE ~Multi!IsTerminal(at[1]) /\ Multi!StreetOver(at[1][at[2]])
      BY <1>5, <3>2 DEF Worth
    <3>3. CASE ~Multi!IsTerminal(at[1]) /\ ~Multi!StreetOver(at[1][at[2]])
      <4>1. Key(at) \in Keys /\ Played(at, 1) \in Positions /\ Played(at, 2) \in Positions
        BY <3>3, Moves DEF Nearer, Lower
      <4>2. f[at] = mix[at][f[Played(at, 1)]][f[Played(at, 2)]]
        BY Zenon, <1>5, <3>3 DEF Worth
      <4>3. f[at] = IF Multi!CurrentPlayer(at[1][at[2]]) = 0
                    THEN Max({f[Played(at, 1)], f[Played(at, 2)]})
                    ELSE Mixed(play[Key(at)], f[Played(at, 1)], f[Played(at, 2)])
        <5>1. PICK x \in Int, y \in Int : x = f[Played(at, 1)] /\ y = f[Played(at, 2)]
          BY <4>1
        <5>2. mix[at][x][y] = IF Multi!CurrentPlayer(at[1][at[2]]) = 0 THEN Max({x, y})
                              ELSE Mixed(play[Key(at)], x, y)
          BY Zenon, <1>4, <4>1
        <5> QED BY Zenon, <4>2, <5>1, <5>2
      <4> QED BY <3>3, <4>3
    <3> QED BY <3>1, <3>2, <3>3
  <2> QED BY <2>1
<1>7. PICK g : g = ValueOfResponse(won, play, 0)
  OBVIOUS
<1>8. g = next(g)
  BY Zenon, <1>6, <1>7 DEF ValueOfResponse
<1>9. \A at \in Positions :
        g[at] = IF Multi!IsTerminal(at[1]) THEN Leaf(won, at[1])
                ELSE IF Multi!StreetOver(at[1][at[2]]) THEN g[NextStreet(at)]
                ELSE IF Multi!CurrentPlayer(at[1][at[2]]) = 0
                THEN Max({g[Played(at, 1)], g[Played(at, 2)]})
                ELSE Mixed(play[Key(at)], g[Played(at, 1)], g[Played(at, 2)])
  BY <1>8
<1>10. \A at \in Positions : g[at] \in Int
  <2>1. ASSUME NEW at \in Positions, \A p \in Nearer(at) : g[p] \in Int PROVE g[at] \in Int
    <3>1. CASE Multi!IsTerminal(at[1])
      <4>1. at[1] \in [1..Streets -> Lines]
        BY DEF Positions, Lines
      <4> QED BY <1>9, <3>1, <4>1, LeafTyped
    <3>2. CASE ~Multi!IsTerminal(at[1]) /\ Multi!StreetOver(at[1][at[2]])
      BY <1>9, <2>1, <3>2, Moves
    <3>3. CASE ~Multi!IsTerminal(at[1]) /\ ~Multi!StreetOver(at[1][at[2]])
      <4>1. /\ Key(at) \in Keys
            /\ Played(at, 1) \in Nearer(at) /\ Played(at, 2) \in Nearer(at)
        BY <3>3, Moves
      <4>2. g[at] = IF Multi!CurrentPlayer(at[1][at[2]]) = 0
                    THEN Max({g[Played(at, 1)], g[Played(at, 2)]})
                    ELSE Mixed(play[Key(at)], g[Played(at, 1)], g[Played(at, 2)])
        BY Zenon, <1>9, <3>3
      <4>3. g[Played(at, 1)] \in Int /\ g[Played(at, 2)] \in Int
        BY <2>1, <4>1
      <4> QED BY <1>1, <1>2, <4>1, <4>2, <4>3
    <3> QED BY <3>1, <3>2, <3>3
  <2>2. Numbers(g)
    BY <2>1 DEF Numbers
  <2> QED BY Zenon, <2>2, NumbersAll
<1>11. g \in [Positions -> Int]
  BY <1>8, <1>10
<1> QED BY Zenon, <1>7, <1>9, <1>11 DEF Answered

\* What holds of every position that is so as soon as it is so of the nearer ones.
LEMMA PositionsAll ==
  ASSUME NEW good, \A at \in Positions : Nearer(at) \subseteq good => at \in good
  PROVE  \A at \in Positions : at \in good
<1> DEFINE held == good \cap Positions
<1>1. Distance \in [Positions -> Nat] /\ held \in SUBSET Positions
  BY Measured
<1>2. \A at \in Positions : Lower(Positions, Distance, Distance[at]) \subseteq held => at \in held
  BY DEF Nearer
<1> HIDE DEF held
<1>3. held = Positions
  BY <1>1, <1>2, RankInduction
<1> QED BY <1>3 DEF held

\* The response is worth no less than what player 0 could do instead.
LEMMA ResponseBounds ==
  ASSUME NEW won, NEW play \in [Keys -> 0..One], NEW d \in [Keys -> 0..One],
         NEW v, Valued(v, won, d), NEW w, Answered(w, won, play),
         \A k \in Keys : Multi!CurrentPlayer(k[2]) # 0 => d[k] = play[k]
  PROVE  \A at \in Positions : v[at] <= w[at]
<1> DEFINE good == {at \in Positions : v[at] <= w[at]}
<1>1. ASSUME NEW at \in Positions, Nearer(at) \subseteq good PROVE at \in good
  <2>1. CASE Multi!IsTerminal(at[1])
    <3>1. v[at] = Leaf(won, at[1]) /\ w[at] = Leaf(won, at[1]) /\ v[at] \in Int
      BY <2>1 DEF Valued, Answered
    <3> QED BY <3>1
  <2>2. CASE ~Multi!IsTerminal(at[1]) /\ Multi!StreetOver(at[1][at[2]])
    <3>1. v[at] = v[NextStreet(at)] /\ w[at] = w[NextStreet(at)]
      BY <2>2 DEF Valued, Answered
    <3>2. NextStreet(at) \in good
      BY <1>1, <2>2, Moves
    <3> QED BY <3>1, <3>2
  <2>3. CASE ~Multi!IsTerminal(at[1]) /\ ~Multi!StreetOver(at[1][at[2]])
    <3>1. Key(at) \in Keys /\ Played(at, 1) \in good /\ Played(at, 2) \in good
      BY <1>1, <2>3, Moves
    <3>2. PICK x1 \in Int, y1 \in Int : x1 = v[Played(at, 1)] /\ y1 = v[Played(at, 2)]
      BY <3>1 DEF Valued
    <3>3. PICK x2 \in Int, y2 \in Int : x2 = w[Played(at, 1)] /\ y2 = w[Played(at, 2)]
      BY <3>1 DEF Answered
    <3>4. x1 <= x2 /\ y1 <= y2
      BY <3>1, <3>2, <3>3
    <3>5. PICK q \in 0..One : q = d[Key(at)]
      BY <3>1
    <3>6. v[at] = Mixed(q, x1, y1)
      BY Zenon, <2>3, <3>2, <3>5 DEF Valued
    <3>7. CASE Multi!CurrentPlayer(at[1][at[2]]) = 0
      <4>1. w[at] = Max({x2, y2})
        BY Zenon, <2>3, <3>3, <3>7 DEF Answered
      <4>2. PICK m \in Int : m = w[at] /\ x2 <= m /\ y2 <= m
        BY <4>1, MaxOfTwo
      <4>3. x1 <= m /\ y1 <= m
        BY <3>4, <4>2
      <4>4. Mixed(q, x1, y1) <= m
        BY <4>3, Mixing
      <4> QED BY <3>6, <4>2, <4>4
    <3>8. CASE Multi!CurrentPlayer(at[1][at[2]]) # 0
      <4>1. Key(at)[2] = at[1][at[2]]
        BY DEF Key
      <4>2. play[Key(at)] = q
        BY <3>1, <3>5, <3>8, <4>1
      <4>3. w[at] = Mixed(q, x2, y2)
        BY Zenon, <2>3, <3>3, <3>8, <4>2 DEF Answered
      <4>4. Mixed(q, x1, y1) <= Mixed(q, x2, y2)
        BY <3>4, Mixing
      <4> QED BY <3>6, <4>3, <4>4
    <3> QED BY <3>7, <3>8
  <2> QED BY <2>1, <2>2, <2>3
<1> HIDE DEF good
<1>2. \A at \in Positions : at \in good
  BY Zenon, <1>1, PositionsAll
<1> QED BY <1>2 DEF good


\* The plans compared follow the strategy at the other player's turns.
LEMMA DeviationsFollow ==
  ASSUME NEW play \in [Keys -> 0..One], NEW s, NEW d \in Deviations(play, 0, s)
  PROVE  /\ d \in [Keys -> 0..One]
         /\ \A k \in Keys : Multi!CurrentPlayer(k[2]) # 0 => d[k] = play[k]
<1>1. PICK e \in [KeysOf(0, s) -> {0, One}] :
        d = [k \in Keys |-> IF k \in KeysOf(0, s) THEN e[k] ELSE play[k]]
  BY DEF Deviations
<1>2. 0 \in 0..One /\ One \in 0..One
  BY ValuesAssumption
<1>3. \A k \in Keys : (IF k \in KeysOf(0, s) THEN e[k] ELSE play[k]) \in 0..One
  BY <1>2
<1>4. d \in [Keys -> 0..One]
  BY <1>1, <1>3
<1>5. \A k \in Keys : Multi!CurrentPlayer(k[2]) # 0 => k \notin KeysOf(0, s)
  BY DEF KeysOf
<1> QED BY <1>1, <1>4, <1>5

\* A position where the last street is played, the others being as they are at a.
LastAlike(a, p) ==
  p[2] = Streets /\ \A s \in 1..Streets : s # Streets => p[1][s] = a[1][s]

\* The position of the last street where its line is l.
Spot(a, l) == <<[a[1] EXCEPT ![Streets] = l], Streets>>

LEMMA LastSpots ==
  ASSUME NEW a \in Positions, NEW p \in Positions, LastAlike(a, p)
  PROVE  /\ p = Spot(a, p[1][Streets])
         /\ Key(p) = <<Streets, p[1][Streets]>>
         /\ Multi!StreetOver(p[1][Streets]) => Multi!IsTerminal(p[1])
         /\ \A n : Played(p, n) \in Positions => LastAlike(a, Played(p, n))
<1>1. PICK hist \in [1..Streets -> Lines] : p = <<hist, Streets>> /\ p[1] = hist
  BY DEF Positions, Lines, LastAlike
<1>2. PICK base \in [1..Streets -> Lines] : a[1] = base
  BY DEF Positions, Lines
<1>3. Streets \in 1..Streets
  BY GamesAssumption
<1>4. \A s \in 1..Streets : s # Streets => hist[s] = base[s]
  BY <1>1, <1>2 DEF LastAlike
<1>5. hist = [base EXCEPT ![Streets] = hist[Streets]]
  BY <1>3, <1>4
<1>6. p = Spot(a, p[1][Streets])
  BY <1>1, <1>2, <1>5 DEF Spot
<1>7. Key(p) = <<Streets, p[1][Streets]>>
  BY <1>1 DEF Key
<1>8. Multi!StreetOver(p[1][Streets]) => Multi!IsTerminal(p[1])
  BY DEF Multi!IsTerminal
<1>9. ASSUME NEW n, Played(p, n) \in Positions PROVE LastAlike(a, Played(p, n))
  <2> DEFINE more == Append(hist[Streets], Multi!Actions(hist[Streets])[n])
  <2>1. Played(p, n) = <<[hist EXCEPT ![Streets] = more], Streets>>
    BY <1>1 DEF Played
  <2> HIDE DEF more
  <2>2. \A s \in 1..Streets : s # Streets => [hist EXCEPT ![Streets] = more][s] = base[s]
    BY <1>4
  <2> QED BY <1>2, <2>1, <2>2 DEF LastAlike
<1> QED BY <1>6, <1>7, <1>8, <1>9

\* On the last street one of the plans is worth as much as the response: the one that does
\* at each turn what the response finds best there.
LEMMA LastAttained ==
  ASSUME NEW won, NEW play \in [Keys -> 0..One], NEW w, Answered(w, won, play),
         NEW a \in Positions, a[2] = Streets
  PROVE  \E d \in Deviations(play, 0, Streets) : \A v : Valued(v, won, d) => v[a] = w[a]
<1> DEFINE keys == KeysOf(0, Streets)
           best(k) == w[Played(Spot(a, k[2]), 1)] >= w[Played(Spot(a, k[2]), 2)]
           e == [k \in keys |-> IF best(k) THEN One ELSE 0]
           d == [k \in Keys |-> IF k \in keys THEN e[k] ELSE play[k]]
<1>1. e \in [keys -> {0, One}]
  OBVIOUS
<1>2. d \in Deviations(play, 0, Streets)
  BY <1>1 DEF Deviations
<1>3. \A k \in Keys : d[k] = IF k \in keys THEN IF best(k) THEN One ELSE 0 ELSE play[k]
  BY DEF KeysOf
<1>4. \A l : <<Streets, l>> \in Keys =>
        (<<Streets, l>> \in keys <=> Multi!CurrentPlayer(l) = 0)
  BY GamesAssumption DEF KeysOf
<1> HIDE DEF d, keys
<1>5. d \in [Keys -> 0..One]
  BY <1>2, DeviationsFollow
<1>6. ASSUME NEW v, Valued(v, won, d) PROVE v[a] = w[a]
  <2> DEFINE good == {p \in Positions : LastAlike(a, p) => v[p] = w[p]}
  <2>1. ASSUME NEW p \in Positions, Nearer(p) \subseteq good, LastAlike(a, p) PROVE v[p] = w[p]
    <3>1. CASE Multi!IsTerminal(p[1])
      BY <1>6, <3>1 DEF Valued, Answered
    <3>2. CASE ~Multi!IsTerminal(p[1])
      <4>1. p[2] = Streets /\ ~Multi!StreetOver(p[1][Streets])
        BY <2>1, <3>2, LastSpots DEF LastAlike
      <4>2. ~Multi!StreetOver(p[1][p[2]])
        BY <4>1
      <4>3. Key(p) \in Keys /\ Played(p, 1) \in Nearer(p) /\ Played(p, 2) \in Nearer(p)
        BY <3>2, <4>2, Moves
      <4>4. Played(p, 1) \in Positions /\ Played(p, 2) \in Positions
        BY <4>3 DEF Nearer, Lower
      <4>5. LastAlike(a, Played(p, 1)) /\ LastAlike(a, Played(p, 2))
        BY <2>1, <4>4, LastSpots
      <4>6. v[Played(p, 1)] = w[Played(p, 1)] /\ v[Played(p, 2)] = w[Played(p, 2)]
        BY <2>1, <4>3, <4>5
      <4>7. PICK x \in Int, y \in Int : x = w[Played(p, 1)] /\ y = w[Played(p, 2)]
        BY <4>4 DEF Answered
      <4>8. PICK q \in 0..One : q = d[Key(p)]
        BY <1>5, <4>3
      <4>9. v[p] = Mixed(q, x, y)
        BY Zenon, <1>6, <3>2, <4>2, <4>6, <4>7, <4>8 DEF Valued
      <4>10. PICK l : l = p[1][Streets]
        OBVIOUS
      <4>11. Key(p) = <<Streets, l>> /\ p = Spot(a, l)
        BY <2>1, <4>10, LastSpots
      <4>12. CASE Multi!CurrentPlayer(l) = 0
        <5>1. w[p] = Max({x, y})
          BY Zenon, <3>2, <4>1, <4>2, <4>7, <4>10, <4>12 DEF Answered
        <5>2. Key(p) \in keys
          BY <1>4, <4>3, <4>11, <4>12
        <5>3. best(Key(p)) <=> x >= y
          BY <4>7, <4>11
        <5>4. q = IF x >= y THEN One ELSE 0
          BY Zenon, <1>3, <4>3, <4>8, <5>2, <5>3
        <5>5. Mixed(q, x, y) = IF x >= y THEN x ELSE y
          BY <5>4, Mixing
        <5> QED BY <4>9, <5>1, <5>5, MaxOfTwo
      <4>13. CASE Multi!CurrentPlayer(l) # 0
        <5>1. Key(p) \notin keys
          BY <1>4, <4>3, <4>11, <4>13
        <5>2. q = play[Key(p)]
          BY Zenon, <1>3, <4>3, <4>8, <5>1
        <5>3. w[p] = Mixed(q, x, y)
          BY Zenon, <3>2, <4>1, <4>2, <4>7, <4>10, <4>13, <5>2 DEF Answered
        <5> QED BY <4>9, <5>3
      <4> QED BY <4>12, <4>13
    <3> QED BY <3>1, <3>2
  <2>2. \A p \in Positions : Nearer(p) \subseteq good => p \in good
    BY <2>1
  <2> HIDE DEF good
  <2>3. a \in good
    BY Zenon, <2>2, PositionsAll
  <2> QED BY <2>3 DEF good, LastAlike
<1> QED BY <1>2, <1>6

\* The response is worth as much as the best plan on the last street, and no less before.
AnswersBest(won, play, a) ==
  LET best == Max({ValueOfStrategy(won, d)[a] : d \in Deviations(play, 0, a[2])})
      response == ValueOfResponse(won, play, 0)[a]
  IN  response >= best /\ (a[2] = Streets => response = best)

LEMMA BestOfPlans ==
  ASSUME NEW won, NEW play \in [Keys -> 0..One], NEW a \in Positions
  PROVE  AnswersBest(won, play, a)
<1> DEFINE plans == Deviations(play, 0, a[2])
           values == {ValueOfStrategy(won, d)[a] : d \in plans}
<1>0. PICK w : w = ValueOfResponse(won, play, 0)
  OBVIOUS
<1>1. Answered(w, won, play)
  BY <1>0, ResponseAnswered
<1>2. \A d \in plans : /\ Valued(ValueOfStrategy(won, d), won, d)
                       /\ ValueOfStrategy(won, d)[a] \in Int
                       /\ ValueOfStrategy(won, d)[a] <= w[a]
  <2> TAKE d \in plans
  <2>1. /\ d \in [Keys -> 0..One]
        /\ \A k \in Keys : Multi!CurrentPlayer(k[2]) # 0 => d[k] = play[k]
    BY DeviationsFollow
  <2>2. Valued(ValueOfStrategy(won, d), won, d)
    BY <2>1, StrategyValued
  <2>3. ValueOfStrategy(won, d)[a] <= w[a]
    BY Zenon, <1>1, <2>1, <2>2, ResponseBounds
  <2>4. ValueOfStrategy(won, d)[a] \in Int
    BY <2>2 DEF Valued
  <2> QED BY <2>2, <2>3, <2>4
<1>3. plans # {}
  <2>1. PICK e : e \in [KeysOf(0, a[2]) -> {0, One}]
    <3>1. [k \in KeysOf(0, a[2]) |-> 0] \in [KeysOf(0, a[2]) -> {0, One}]
      OBVIOUS
    <3> QED BY <3>1
  <2>2. [k \in Keys |-> IF k \in KeysOf(0, a[2]) THEN e[k] ELSE play[k]] \in plans
    BY <2>1 DEF Deviations
  <2> QED BY <2>2
<1>4. w[a] \in Int
  BY <1>1 DEF Answered
<1>5. ASSUME a[2] = Streets PROVE w[a] \in values
  <2>1. \E d \in Deviations(play, 0, Streets) : \A v : Valued(v, won, d) => v[a] = w[a]
    BY <1>1, <1>5, LastAttained
  <2>2. plans = Deviations(play, 0, Streets)
    BY Zenon, <1>5
  <2>3. PICK d \in plans : \A v : Valued(v, won, d) => v[a] = w[a]
    BY Zenon, <2>1, <2>2
  <2>4. ValueOfStrategy(won, d)[a] = w[a]
    BY Zenon, <1>2, <2>3
  <2> QED BY <2>4
<1>6. values \in SUBSET Int /\ values # {} /\ \A x \in values : x <= w[a]
  BY <1>2, <1>3
<1> HIDE DEF values
<1>7. Max(values) \in values /\ \A y \in values : Max(values) >= y
  BY <1>4, <1>6, MaxExists
<1>8. w[a] >= Max(values) /\ (a[2] = Streets => w[a] = Max(values))
  <2>1. PICK m \in Int, r \in Int : m = Max(values) /\ r = w[a]
    BY <1>4, <1>6, <1>7
  <2>2. m <= r /\ (a[2] = Streets => m >= r)
    BY <1>5, <1>6, <1>7, <2>1
  <2> QED BY <2>1, <2>2
<1> QED BY <1>0, <1>8 DEF AnswersBest, values


\* The lines of a multi-street hand are those the recursions go through.
OnTree == game = "multi" => line \in [1..Streets -> Lines]

LEMMA OnTreeAtFirst == BInit => OnTree
  BY DEF BInit, OnTree, Multi!NoActions, Lines, StreetLines

LEMMA OnTreeIsKept == BInv /\ OnTree /\ [BNext]_bvars => OnTree'
<1> SUFFICES ASSUME BInv, OnTree, [BNext]_bvars, game' = "multi"
             PROVE  line' \in [1..Streets -> Lines]
  BY DEF OnTree
<1>1. game = "multi"
  BY DEF BNext, Act, Deal, bvars
<1>2. line \in [1..Streets -> Lines] /\ street \in 1..Streets
  BY <1>1 DEF OnTree, BInv, Shape
<1>3. CASE UNCHANGED bvars
  BY <1>2, <1>3 DEF bvars
<1>4. CASE Deal
  BY <1>1, <1>2, <1>4 DEF Deal
<1>5. ASSUME NEW a, Act(a) PROVE line' \in [1..Streets -> Lines]
  <2>1. line' = [line EXCEPT ![street] = Append(line[street], a)]
    BY <1>1, <1>5 DEF Act
  <2>2. ~Multi!StreetOver(line[street]) /\ a \in ToSet(Multi!Actions(line[street]))
    BY <1>1, <1>5, OfMulti DEF Act, Deciding
  <2>3. line[street] \in StreetLines
    BY <1>2, <2>2, LinesEnd DEF Lines
  <2>4. a = Multi!Actions(line[street])[1] \/ a = Multi!Actions(line[street])[2]
    BY <2>2 DEF Multi!Actions, ToSet
  <2>5. Append(line[street], a) \in Lines
    BY <2>3, <2>4, LinesGoOn DEF GoesOn
  <2> QED BY <1>2, <2>1, <2>5
<1> QED BY <1>3, <1>4, <1>5 DEF BNext

\* On the tree the response of player 0 is the best.
LEMMA BestOnTree == BInv /\ OnTree => ResponseIsBest
<1> SUFFICES ASSUME BInv, OnTree, InHand, NEW play \in Strategies
             PROVE  LET best == Max({ValueOfStrategy(winner, d)[Here] : d \in Deviations(play, 0, street)})
                        response == ValueOfResponse(winner, play, 0)[Here]
                    IN  response >= best /\ (street = Streets => response = best)
  BY Zenon DEF ResponseIsBest
<1>1. line \in [1..Streets -> Lines] /\ street \in 1..Streets
  BY DEF InHand, OnTree, BInv, Shape
<1>2. Here \in Positions /\ Here[2] = street
  BY <1>1, Measured DEF Here
<1>3. play \in [Keys -> 0..One]
  BY ValuesAssumption DEF Strategies
<1>4. AnswersBest(winner, play, Here)
  BY <1>2, <1>3, BestOfPlans
<1> QED BY Zenon, <1>2, <1>4 DEF AnswersBest

\* The best response that exploitability.py computes for player 0 is worth as much as the
\* best of all his plans on the last street, and no less than any of them before it,
\* whatever the strategy it answers, however many streets the hand has.
THEOREM BestAnswer == BSpec => []ResponseIsBest
<1>1. BSpec => [](BInv /\ OnTree)
  BY InvHoldsAtFirst, OnTreeAtFirst, InvIsKept, OnTreeIsKept, PTL DEF BSpec
<1> QED BY <1>1, BestOnTree, PTL

=============================================================================
