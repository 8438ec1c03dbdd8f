----------------------------- MODULE PokerState -----------------------------
(***************************************************************************)
(* The typed table state (poker-assistant/state/models.py): how the raw    *)
(* dict of an extractor becomes a PokerState, what that state says of      *)
(* itself, and the dict that the decision code gets.                       *)
(*                                                                         *)
(* Numbers are small; confidences are tenths.  A raw number is Missing when*)
(* it is absent or not a number.  A raw confidence is absent, a number, or *)
(* one number per field, of which the lowest is kept.  The position stands *)
(* for the seat fields (position, button, number of players).              *)
(***************************************************************************)
EXTENDS Integers, Sequences, SequencesExt, FiniteSets, Functions

CONSTANT Deck  \* the cards that parse, pairs <<rank, suit>>

Missing == -2

RawConfidences == [kind : {"absent", "number", "fields"}, value : 0..10]

GateFields == {"hole", "cards", "to_call", "position", "stage"}

-----------------------------------------------------------------------------
\* _valid_cards_or_none: every card parses and none occurs twice, else nothing.
ValidCards(cards) ==
  IF Range(cards) \subseteq Deck /\ IsInjective(cards) THEN cards ELSE <<>>

\* _int_field: a default for what is no number, 0 for a negative one.
IntField(v, default) == IF v = Missing THEN default ELSE IF v < 0 THEN 0 ELSE v

\* Faulty variant: only the effective stack limits a call.
WithinEffective(call, stack, eff) == IF eff > 0 /\ call > eff THEN eff ELSE call

\* The two clamps of to_call; a stack of 0 limits nothing.
Affordable(call, stack, eff) ==
  LET c == IF eff > 0 /\ call > eff THEN eff ELSE call
  IN  IF stack > 0 /\ c > stack THEN stack ELSE c

\* The validation errors that block (_blocking_errors).  Clamps, stage mismatches and
\* values that are no numbers are recorded too, but nothing depends on them.
BlockingErrors(raw, hero, read) ==
  {e \in {"hero invalid", "board invalid", "duplicate"} :
     \/ e = "hero invalid" /\ raw.hole # <<>> /\ hero = <<>>
     \/ e = "board invalid" /\ raw.board # <<>> /\ read = <<>>
     \/ e = "duplicate" /\ Range(hero) \cap Range(read) # {}}

OverallConfidence(c) == IF c.kind = "number" THEN c.value ELSE 10

\* The cards that are not among these, in their order.
Without(cards, out) ==
  LET kept == {i \in DOMAIN cards : cards[i] \notin out}
      nth(n) == CHOOSE i \in kept : Cardinality({j \in kept : j <= i}) = n
  IN  [n \in 1..Cardinality(kept) |-> cards[nth(n)]]

\* from_raw_dict.
FromRaw(raw) ==
  LET hero == ValidCards(raw.hole)
      read == ValidCards(raw.board)
      stack == IntField(raw.stack, 0)
      eff == IntField(raw.eff, IF stack > 0 THEN stack ELSE 1000)
      bb == IntField(raw.bb, 2)
  IN  [hero |-> hero,
       board |-> IF Range(hero) \cap Range(read) = {} THEN read
                 ELSE Without(read, Range(hero)),
       pot |-> IntField(raw.pot, 0),
       to_call |-> Affordable(IntField(raw.to_call, 0), stack, eff),
       stack |-> stack,
       eff |-> eff,
       bb |-> IF bb = 0 THEN 2 ELSE bb,
       position |-> raw.position,
       confidence |-> OverallConfidence(raw.confidence),
       errors |-> BlockingErrors(raw, hero, read),
       raw_confidence |-> raw.confidence,
       uncertain |-> raw.uncertain,
       estimated |-> raw.estimated]

HasHand(s) == Len(s.hero) = 2

IsValid(s) == HasHand(s) /\ s.errors = {}

LegalActions(s) ==
  IF ~HasHand(s) THEN {"wait"}
  ELSE IF s.to_call > 0
       THEN {"fold", "call"} \cup (IF s.eff > s.to_call THEN {"raise"} ELSE {})
       ELSE {"check"} \cup (IF s.eff > s.bb THEN {"bet"} ELSE {})

\* to_dict: the overall confidence takes the place of the confidence per field; the
\* marks of uncertainty are passed on from the raw dict.
ToDict(s) ==
  [hole |-> s.hero, board |-> s.board, pot |-> s.pot, to_call |-> s.to_call,
   stack |-> s.stack, eff |-> s.eff, bb |-> s.bb, position |-> s.position,
   confidence |-> [f \in GateFields |-> s.confidence],
   uncertain |-> s.uncertain, estimated |-> s.estimated,
   legal_actions |-> LegalActions(s)]
=============================================================================
