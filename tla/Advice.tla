------------------------------- MODULE Advice -------------------------------
(***************************************************************************)
(* One tick of the controller from a reading to the decision to speak: the *)
(* reading is typed (PokerState), goes through the hand machine (HandFsm), *)
(* and the state that comes back stable meets the checks of _tick and the  *)
(* confidence gate.  A tick is one step of the hand machine, and what it   *)
(* shows follows from the answer, so the log of HandFsm is also the log of *)
(* the decisions.                                                          *)
(*                                                                         *)
(* The fields of a state that the fingerprint compares are the frame's     *)
(* view, those that it leaves out are its marks.                           *)
(***************************************************************************)
EXTENDS HandFsm, PokerState

CONSTANT Raws  \* the dicts that the extractor may return

\* The ranks in hand, whatever their order.
RanksOf(s) == IF HasHand(s) THEN {s.hero[1][1], s.hero[2][1]} ELSE {}

\* What the hand machine compares of a state; sure is the test of min_confidence, 0.3
\* as the controller builds the machine.
FrameOf(s) ==
  [ranks |-> RanksOf(s),
   board |-> s.board,
   view |-> [hero |-> s.hero, pot |-> s.pot, to_call |-> s.to_call, eff |-> s.eff,
             position |-> s.position],
   sure |-> s.confidence >= 3,
   marks |-> [stack |-> s.stack, bb |-> s.bb, confidence |-> s.confidence,
              errors |-> s.errors, raw_confidence |-> s.raw_confidence,
              uncertain |-> s.uncertain, estimated |-> s.estimated]]

StateOf(f) ==
  [hero |-> f.view.hero, board |-> f.board, pot |-> f.view.pot, to_call |-> f.view.to_call,
   stack |-> f.marks.stack, eff |-> f.view.eff, bb |-> f.marks.bb,
   position |-> f.view.position, confidence |-> f.marks.confidence,
   errors |-> f.marks.errors, raw_confidence |-> f.marks.raw_confidence,
   uncertain |-> f.marks.uncertain, estimated |-> f.marks.estimated]

ASSUME AdviceAssumption ==
  /\ NoCards = {}
  /\ Readings = {FrameOf(FromRaw(raw)) : raw \in Raws}

\* What from_raw_dict takes from a dict: lists of cards, whole numbers, a seat, marks.
ASSUME RawsAssumption == \A raw \in Raws :
  raw \in [hole : Seq(Range(raw.hole)), board : Seq(Range(raw.board)),
           pot : Int, to_call : Int, stack : Int, eff : Int, bb : Int,
           position : {raw.position}, confidence : RawConfidences,
           uncertain : BOOLEAN, estimated : BOOLEAN]

-----------------------------------------------------------------------------
\* A pot that holds more than the blinds, and no call read for the small blind.
CallUnread(d) ==
  d.to_call = 0 /\ d.pot > 0 /\ d.board = <<>> /\ d.position = "SB" /\ d.pot >= 2 * d.bb

\* The fallback of _tick infers the call, and marks it as an estimate.
WithFallback(d) ==
  IF CallUnread(d)
  THEN [d EXCEPT !.to_call = d.bb - d.bb \div 2, !.uncertain = TRUE, !.estimated = TRUE,
                 !.confidence["to_call"] = 0]
  ELSE d

\* confidence_block_reasons returns any reason.
GateBlocks(d) ==
  d.uncertain \/ d.estimated \/ \E f \in GateFields : d.confidence[f] < 7

\* What the engine is asked with: the dict made of a stable state.
Asked(out) == WithFallback(ToDict(StateOf(out.state)))

\* _tick goes past all its early returns and asks the engine.
Advises(out) ==
  /\ out.reason = "stable"
  /\ IsValid(StateOf(out.state))
  /\ ~GateBlocks(Asked(out))

AdvisedAt(j) == Advises(log[j].out)

\* The reading taken at j, as a state.
ReadAt(j) == StateOf(log[j].frame)

-----------------------------------------------------------------------------
\* Whatever the extractor returned, the engine is asked about two cards and a board
\* without duplicates, a call that known stacks can pay, and no inferred amount.
AdviceIsSound ==
  \A j \in DOMAIN log : AdvisedAt(j) =>
    LET d == Asked(log[j].out)
    IN  /\ Len(d.hole) = 2
        /\ Range(d.hole \o d.board) \subseteq Deck
        /\ IsInjective(d.hole \o d.board)
        /\ d.eff > 0 => d.to_call <= d.eff
        /\ d.stack > 0 => d.to_call <= d.stack
        /\ ~CallUnread(ToDict(StateOf(log[j].out.state)))

\* The machine answers with the first reading of a streak; still the engine is asked
\* about the cards, pot, call, effective stack and seat of the reading just taken.
AdviceFitsTheReading ==
  \A j \in DOMAIN log : AdvisedAt(j) =>
    LET d == Asked(log[j].out)
        r == ReadAt(j)
    IN  <<d.hole, d.board, d.pot, d.to_call, d.eff, d.position>>
          = <<r.hero, r.board, r.pot, r.to_call, r.eff, r.position>>

Clean(s) == IsValid(s) /\ ~GateBlocks(ToDict(s))

\* No advice without a clean reading of the same table in the same unbroken streak:
\* what lets an advice through is never left over from another table or hand.
AdviceHasCleanWitness ==
  \A j \in DOMAIN log : AdvisedAt(j) =>
    \E i \in 1..j :
      /\ Clean(ReadAt(i))
      /\ \A k \in CountedIn(i, j) :
           /\ Usable(log[k].frame)
           /\ Fingerprint(log[k].frame) = Fingerprint(log[j].frame)

\* Documented: no advice when the cards of the reading are unreadable ("stato stabile
\* ma non valido (carte illeggibili): non consigliare", controller.py).
UnreadableIsNotAdvised ==
  \A j \in DOMAIN log : AdvisedAt(j) => ReadAt(j).errors = {}
=============================================================================
