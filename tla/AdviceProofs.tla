----------------------------- MODULE AdviceProofs -----------------------------
(***************************************************************************)
(* What is advised on, for all decks, dicts and quorums: it is the table   *)
(* just read, with a clean witness, and sound; the action said is one it   *)
(* allows; and with the smoother in front of the machine its cards share a *)
(* frame of the window, its amounts were read there, and a window of one   *)
(* reading is that reading.  The first facts come from the quorum behind a *)
(* stable answer: the reading that brings the answer is one of the quorum, *)
(* and the state answered is the reading that began it.                    *)
(***************************************************************************)
EXTENDS AdvisedAction, SmoothedAdvice, HandFsmProofs, FoldProofs, SequenceTheorems

\* An advised dict is the answered state, unchanged: an inferred call is marked as an
\* estimate, and the gate stops those.
LEMMA NothingInferred ==
  ASSUME NEW out, Advises(out)
  PROVE  /\ Asked(out) = ToDict(StateOf(out.state))
         /\ ~CallUnread(ToDict(StateOf(out.state)))
<1> DEFINE d == ToDict(StateOf(out.state))
<1> SUFFICES ASSUME CallUnread(d) PROVE FALSE
  BY DEF Asked, WithFallback
<1>1. Asked(out) = [d EXCEPT !.to_call = d.bb - d.bb \div 2, !.uncertain = TRUE,
                             !.estimated = TRUE, !.confidence["to_call"] = 0]
  BY DEF Asked, WithFallback
<1>2. Asked(out).uncertain
  BY <1>1 DEF ToDict
<1> QED BY <1>2 DEF Advises, GateBlocks

\* The fields of a typed state that the fingerprint compares.
LEMMA FieldsCompared ==
  ASSUME NEW f, NEW g, Fingerprint(f) = Fingerprint(g)
  PROVE  f.view = g.view /\ f.board = g.board
BY DEF Fingerprint

LEMMA FieldsAsked ==
  ASSUME NEW f, NEW d, d = ToDict(StateOf(f))
  PROVE  /\ d.hole = f.view.hero /\ d.board = f.board /\ d.pot = f.view.pot
         /\ d.to_call = f.view.to_call /\ d.eff = f.view.eff /\ d.position = f.view.position
BY DEF ToDict, StateOf

LEMMA FieldsRead ==
  ASSUME NEW f, NEW r, r = StateOf(f)
  PROVE  /\ r.hero = f.view.hero /\ r.board = f.board /\ r.pot = f.view.pot
         /\ r.to_call = f.view.to_call /\ r.eff = f.view.eff /\ r.position = f.view.position
BY DEF StateOf

\* A stable answer is about the reading that brought it.
LEMMA StableFitsReading ==
  ASSUME QuorumBehindStable, NEW j \in DOMAIN log, StableAt(j), TypeOK
  PROVE  Fingerprint(log[j].frame) = Fingerprint(log[j].out.state)
<1>1. j \in Nat
  BY DEF TypeOK
<1>2. PICK i \in 1..j : \A k \in CountedIn(i, j) :
        Fingerprint(log[k].frame) = Fingerprint(log[j].out.state)
  BY DEF QuorumBehindStable
<1>3. j \in i..j
  BY <1>1
<1>4. log[j].out.reason # "board shrink"
  BY DEF StableAt
<1>5. j \in CountedIn(i, j)
  BY <1>3, <1>4 DEF CountedIn
<1> QED BY <1>2, <1>5

\* For every run of readings: the engine is asked about the cards, pot, call, effective
\* stack and seat of the reading just taken.
THEOREM AdviceFits == Spec => []AdviceFitsTheReading
<1>1. TypeOK /\ QuorumBehindStable => AdviceFitsTheReading
  <2> SUFFICES ASSUME TypeOK, QuorumBehindStable, NEW j \in DOMAIN log, AdvisedAt(j)
               PROVE  LET d == Asked(log[j].out)
                          r == ReadAt(j)
                      IN  <<d.hole, d.board, d.pot, d.to_call, d.eff, d.position>>
                            = <<r.hero, r.board, r.pot, r.to_call, r.eff, r.position>>
    BY DEF AdviceFitsTheReading
  <2>1. StableAt(j)
    BY DEF AdvisedAt, Advises, StableAt
  <2>2. Fingerprint(log[j].frame) = Fingerprint(log[j].out.state)
    BY <2>1, StableFitsReading
  <2>3. /\ log[j].frame.view = log[j].out.state.view
        /\ log[j].frame.board = log[j].out.state.board
    BY <2>2, FieldsCompared
  <2>4. Asked(log[j].out) = ToDict(StateOf(log[j].out.state))
    BY NothingInferred DEF AdvisedAt
  <2>5. ReadAt(j) = StateOf(log[j].frame)
    BY DEF ReadAt
  <2> DEFINE d == Asked(log[j].out)
             r == ReadAt(j)
  <2>6. /\ d.hole = r.hero /\ d.board = r.board /\ d.pot = r.pot
        /\ d.to_call = r.to_call /\ d.eff = r.eff /\ d.position = r.position
    <3>1. /\ d = ToDict(StateOf(log[j].out.state))
          /\ r = StateOf(log[j].frame)
      BY <2>4, <2>5
    <3> HIDE DEF d, r
    <3>2. /\ d.hole = log[j].out.state.view.hero /\ d.board = log[j].out.state.board
          /\ d.pot = log[j].out.state.view.pot /\ d.to_call = log[j].out.state.view.to_call
          /\ d.eff = log[j].out.state.view.eff /\ d.position = log[j].out.state.view.position
      BY <3>1, FieldsAsked
    <3>3. /\ r.hero = log[j].frame.view.hero /\ r.board = log[j].frame.board
          /\ r.pot = log[j].frame.view.pot /\ r.to_call = log[j].frame.view.to_call
          /\ r.eff = log[j].frame.view.eff /\ r.position = log[j].frame.view.position
      BY <3>1, FieldsRead
    <3> QED BY <2>3, <3>2, <3>3
  <2> HIDE DEF d, r
  <2>7. <<d.hole, d.board, d.pot, d.to_call, d.eff, d.position>>
          = <<r.hero, r.board, r.pot, r.to_call, r.eff, r.position>>
    BY <2>6
  <2> QED BY <2>7 DEF d, r
<1> QED BY <1>1, QuorumHolds, TypeCorrect, PTL

\* For every run of readings: an advice has a clean reading of the same table behind it,
\* at the start of its own unbroken streak.
THEOREM AdviceWitnessed == Spec => []AdviceHasCleanWitness
<1>1. TypeOK /\ QuorumsBehind /\ QuorumBehindStable => AdviceHasCleanWitness
  <2> SUFFICES ASSUME TypeOK, QuorumsBehind, QuorumBehindStable,
                      NEW j \in DOMAIN log, AdvisedAt(j)
               PROVE  \E i \in 1..j :
                        /\ Clean(ReadAt(i))
                        /\ \A k \in CountedIn(i, j) :
                             /\ Usable(log[k].frame)
                             /\ Fingerprint(log[k].frame) = Fingerprint(log[j].frame)
    BY DEF AdviceHasCleanWitness
  <2>1. StableAt(j)
    BY DEF AdvisedAt, Advises, StableAt
  <2>2. Fingerprint(log[j].frame) = Fingerprint(log[j].out.state)
    BY <2>1, StableFitsReading
  <2>3. PICK i : /\ Quorum(log, i, j, StableFrames, Fingerprint(log[j].out.state))
                 /\ Shows(log[i], log[j].out.state)
    BY <2>1 DEF QuorumsBehind
  <2>4. i \in 1..j
    BY <2>3 DEF Quorum
  <2>5. ReadAt(i) = StateOf(log[j].out.state)
    BY <2>3 DEF Shows, ReadAt
  <2>6. Asked(log[j].out) = ToDict(StateOf(log[j].out.state))
    BY NothingInferred DEF AdvisedAt
  <2>7. Clean(ReadAt(i))
    BY <2>5, <2>6 DEF Clean, AdvisedAt, Advises
  <2>8. CountedIn(i, j) = Counted(log, i, j)
    BY DEF CountedIn, Counted, Counts
  <2>9. \A k \in CountedIn(i, j) : Serves(log[k], Fingerprint(log[j].out.state))
    BY <2>3, <2>8 DEF Quorum
  <2> QED BY <2>2, <2>4, <2>7, <2>9 DEF Serves
<1> QED BY <1>1, QuorumsBehindHolds, QuorumHolds, TypeCorrect, PTL

-----------------------------------------------------------------------------
(* The typed state. *)

\* What from_raw_dict makes of the numbers: naturals, a blind, and a call that the stacks
\* known of can pay.
LEMMA NumbersTyped ==
  ASSUME NEW raw \in Raws, NEW s, s = FromRaw(raw)
  PROVE  /\ s.pot \in Nat /\ s.to_call \in Nat /\ s.stack \in Nat /\ s.eff \in Nat
         /\ s.bb \in Nat \ {0}
         /\ s.eff > 0 => s.to_call <= s.eff
         /\ s.stack > 0 => s.to_call <= s.stack
<1>1. \A v \in Int, default \in Nat : IntField(v, default) \in Nat
  BY DEF IntField
<1>2. /\ raw.pot \in Int /\ raw.to_call \in Int /\ raw.stack \in Int /\ raw.eff \in Int
      /\ raw.bb \in Int
  BY RawsAssumption
<1> DEFINE call == IntField(raw.to_call, 0)
           stack == IntField(raw.stack, 0)
           known == IF stack > 0 THEN stack ELSE 1000
           eff == IntField(raw.eff, known)
           bb == IntField(raw.bb, 2)
<1>3. call \in Nat /\ stack \in Nat /\ eff \in Nat /\ bb \in Nat /\ IntField(raw.pot, 0) \in Nat
  <2>1. stack \in Nat /\ call \in Nat /\ bb \in Nat /\ IntField(raw.pot, 0) \in Nat
    BY <1>1, <1>2, Zenon DEF stack, call, bb
  <2>2. known \in Nat
    <3> HIDE DEF stack
    <3> QED BY <2>1
  <2>3. eff \in Nat
    <3> HIDE DEF known
    <3> QED BY <1>1, <1>2, <2>2, Zenon DEF eff
  <2> QED BY <2>1, <2>3
<1>4. /\ s.pot = IntField(raw.pot, 0) /\ s.stack = stack /\ s.eff = eff
      /\ s.to_call = Affordable(call, stack, eff)
      /\ s.bb = IF bb = 0 THEN 2 ELSE bb
  BY DEF FromRaw
<1> HIDE DEF call, stack, known, eff, bb
<1>5. /\ Affordable(call, stack, eff) \in Nat
      /\ eff > 0 => Affordable(call, stack, eff) <= eff
      /\ stack > 0 => Affordable(call, stack, eff) <= stack
  BY <1>3 DEF Affordable
<1> QED BY <1>3, <1>4, <1>5

\* The cards that stay are in the deck, each once.
LEMMA CardsStay ==
  ASSUME NEW cards, cards \in Seq(Range(cards)), NEW valid, valid = ValidCards(cards)
  PROVE  valid \in Seq(Deck) /\ IsInjective(valid)
<1>1. CASE Range(cards) \subseteq Deck /\ IsInjective(cards)
  <2>1. valid = cards
    BY <1>1 DEF ValidCards
  <2>2. cards \in Seq(Deck)
    BY <1>1
  <2> QED BY <1>1, <2>1, <2>2
<1>2. CASE ~(Range(cards) \subseteq Deck /\ IsInjective(cards))
  <2>1. valid = <<>>
    BY <1>2 DEF ValidCards
  <2> QED BY <2>1 DEF IsInjective
<1> QED BY <1>1, <1>2

\* A valid state: its board is the board read, and no card of it is in the hand.
LEMMA ValidBoard ==
  ASSUME NEW raw \in Raws, NEW s, s = FromRaw(raw), s.errors = {}
  PROVE  /\ s.hero \in Seq(Deck) /\ IsInjective(s.hero)
         /\ s.board \in Seq(Deck) /\ IsInjective(s.board)
         /\ Range(s.hero) \cap Range(s.board) = {}
<1> DEFINE hero == ValidCards(raw.hole)
           read == ValidCards(raw.board)
<1>1. /\ s.hero = hero
      /\ s.board = IF Range(hero) \cap Range(read) = {} THEN read
                   ELSE Without(read, Range(hero))
      /\ s.errors = BlockingErrors(raw, hero, read)
  BY DEF FromRaw
<1>2. /\ hero \in Seq(Deck) /\ IsInjective(hero)
      /\ read \in Seq(Deck) /\ IsInjective(read)
  BY RawsAssumption, CardsStay
<1> HIDE DEF hero, read
<1>3. Range(hero) \cap Range(read) = {}
  BY <1>1 DEF BlockingErrors
<1> QED BY <1>1, <1>2, <1>3

\* Every logged reading is one that the extractor may return.
FramesRead == \A j \in DOMAIN log : log[j].frame \in Readings

LEMMA FramesReadHolds == Spec => []FramesRead
<1>1. Init => FramesRead
  BY DEF Init, FramesRead
<1>2. TypeOK /\ FramesRead /\ [Next]_vars => FramesRead'
  <2> SUFFICES ASSUME TypeOK, FramesRead, [Next]_vars PROVE FramesRead'
    OBVIOUS
  <2>1. CASE UNCHANGED vars
    BY <2>1 DEF vars, FramesRead
  <2>2. ASSUME NEW f \in Readings, Ingest(f) PROVE FramesRead'
    <3>1. PICK u : Return(f, u)
      BY <2>2, ReadingsAssumption, BoardLength, TypeShapes, IngestTracks
    <3>2. /\ DOMAIN log = 1..Len(log) /\ Len(log) \in Nat
          /\ DOMAIN log' = 1..(Len(log) + 1)
          /\ \A i \in DOMAIN log : log'[i] = log[i]
          /\ log'[Len(log) + 1] = [frame |-> f, out |-> u]
      BY <3>1, LogGrows DEF TypeOK
    <3>3. log'[Len(log) + 1].frame \in Readings
      BY <3>2
    <3> QED BY <3>2, <3>3 DEF FramesRead
  <2> QED BY <2>1, <2>2 DEF Next
<1> QED BY <1>1, <1>2, TypeCorrect, PTL DEF Spec

\* A typed state survives the way through the machine.
LEMMA StateSurvives ==
  ASSUME NEW raw, NEW s, s = FromRaw(raw)
  PROVE  StateOf(FrameOf(s)) = s
<1> DEFINE read == ValidCards(raw.board)
<1>1. s = [hero |-> s.hero, board |-> s.board, pot |-> s.pot, to_call |-> s.to_call,
           stack |-> s.stack, eff |-> s.eff, bb |-> s.bb, position |-> s.position,
           confidence |-> s.confidence, errors |-> s.errors,
           raw_confidence |-> s.raw_confidence, uncertain |-> s.uncertain,
           estimated |-> s.estimated]
  BY DEF FromRaw
<1> QED BY <1>1 DEF StateOf, FrameOf

\* Behind an advice there is a dict of the extractor, valid and without doubts, and the
\* engine is asked with its typed state.
LEMMA AskedTyped ==
  ASSUME TypeOK, FramesRead, QuorumsBehind, NEW j \in DOMAIN log, AdvisedAt(j)
  PROVE  \E raw \in Raws : IsValid(FromRaw(raw)) /\ Asked(log[j].out) = ToDict(FromRaw(raw))
<1>1. StableAt(j)
  BY DEF AdvisedAt, Advises, StableAt
<1>2. PICK i : /\ Quorum(log, i, j, StableFrames, Fingerprint(log[j].out.state))
               /\ Shows(log[i], log[j].out.state)
  BY <1>1 DEF QuorumsBehind
<1>3. i \in DOMAIN log /\ log[j].out.state = log[i].frame
  BY <1>2 DEF Quorum, Shows, TypeOK
<1>4. PICK raw \in Raws : log[i].frame = FrameOf(FromRaw(raw))
  BY <1>3, AdviceAssumption DEF FramesRead
<1>5. StateOf(log[j].out.state) = FromRaw(raw)
  BY <1>3, <1>4, StateSurvives
<1> QED BY <1>5, NothingInferred DEF AdvisedAt, Advises

\* Two lists without repetitions and with nothing in common make one without repetitions.
LEMMA JoinInjective ==
  ASSUME NEW S, NEW a \in Seq(S), NEW b \in Seq(S), IsInjective(a), IsInjective(b),
         Range(a) \cap Range(b) = {}
  PROVE  Range(a \o b) \subseteq S /\ IsInjective(a \o b)
<1>1. /\ a \o b \in Seq(S) /\ Len(a \o b) = Len(a) + Len(b)
      /\ Len(a) \in Nat /\ Len(b) \in Nat
      /\ DOMAIN a = 1..Len(a) /\ DOMAIN b = 1..Len(b) /\ DOMAIN (a \o b) = 1..(Len(a) + Len(b))
      /\ \A i \in 1..(Len(a) + Len(b)) :
           (a \o b)[i] = IF i <= Len(a) THEN a[i] ELSE b[i - Len(a)]
  BY ConcatProperties
<1> DEFINE c == a \o b
<1> HIDE DEF c
<1>2. Range(c) \subseteq S
  BY <1>1 DEF Range, c
<1>3. ASSUME NEW i \in DOMAIN c, NEW k \in DOMAIN c, c[i] = c[k] PROVE i = k
  <2>1. PICK m \in Nat, n \in Nat : m = Len(a) /\ n = Len(b)
    BY <1>1
  <2>2. i \in 1..(m + n) /\ k \in 1..(m + n)
    BY <1>1, <1>3, <2>1 DEF c
  <2>3. /\ c[i] = IF i <= m THEN a[i] ELSE b[i - m]
        /\ c[k] = IF k <= m THEN a[k] ELSE b[k - m]
    BY <1>1, <2>1, <2>2 DEF c
  <2>4. /\ i <= m => i \in DOMAIN a
        /\ k <= m => k \in DOMAIN a
        /\ ~(i <= m) => i - m \in DOMAIN b
        /\ ~(k <= m) => k - m \in DOMAIN b
    BY <1>1, <2>1, <2>2
  <2>5. CASE i <= m /\ k <= m
    BY <1>3, <2>3, <2>4, <2>5 DEF IsInjective
  <2>6. CASE ~(i <= m) /\ ~(k <= m)
    <3>1. i - m = k - m
      BY <1>3, <2>3, <2>4, <2>6 DEF IsInjective
    <3> QED BY <2>2, <3>1
  <2>7. CASE i <= m /\ ~(k <= m)
    BY <1>3, <2>3, <2>4, <2>7 DEF Range
  <2>8. CASE ~(i <= m) /\ k <= m
    BY <1>3, <2>3, <2>4, <2>8 DEF Range
  <2> QED BY SMTT(20), <2>5, <2>6, <2>7, <2>8
<1> QED BY <1>2, <1>3 DEF IsInjective, c

\* For every run of readings and whatever the extractor returned: the engine is asked
\* about two cards and a board without duplicates, a call that known stacks can pay,
\* and no inferred amount.
THEOREM AdviceSound == Spec => []AdviceIsSound
<1>1. TypeOK /\ FramesRead /\ QuorumsBehind => AdviceIsSound
  <2> SUFFICES ASSUME TypeOK, FramesRead, QuorumsBehind, NEW j \in DOMAIN log, AdvisedAt(j)
               PROVE  LET d == Asked(log[j].out)
                      IN  /\ Len(d.hole) = 2
                          /\ Range(d.hole \o d.board) \subseteq Deck
                          /\ IsInjective(d.hole \o d.board)
                          /\ d.eff > 0 => d.to_call <= d.eff
                          /\ d.stack > 0 => d.to_call <= d.stack
                          /\ ~CallUnread(ToDict(StateOf(log[j].out.state)))
    BY DEF AdviceIsSound
  <2>1. PICK raw \in Raws : /\ IsValid(FromRaw(raw))
                            /\ Asked(log[j].out) = ToDict(FromRaw(raw))
    BY AskedTyped
  <2> DEFINE s == FromRaw(raw)
             d == Asked(log[j].out)
  <2>2. /\ d.hole = s.hero /\ d.board = s.board /\ d.to_call = s.to_call
        /\ d.eff = s.eff /\ d.stack = s.stack
    <3> HIDE DEF s
    <3> QED BY <2>1 DEF ToDict, s
  <2>3. Len(s.hero) = 2 /\ s.errors = {}
    BY <2>1 DEF IsValid, HasHand
  <2>4. /\ s.eff > 0 => s.to_call <= s.eff
        /\ s.stack > 0 => s.to_call <= s.stack
    BY NumbersTyped
  <2>5. /\ s.hero \in Seq(Deck) /\ IsInjective(s.hero)
        /\ s.board \in Seq(Deck) /\ IsInjective(s.board)
        /\ Range(s.hero) \cap Range(s.board) = {}
    BY <2>3, ValidBoard
  <2> HIDE DEF s, d
  <2>6. Range(s.hero \o s.board) \subseteq Deck /\ IsInjective(s.hero \o s.board)
    BY <2>5, JoinInjective
  <2>7. ~CallUnread(ToDict(StateOf(log[j].out.state)))
    BY NothingInferred DEF AdvisedAt
  <2>8. /\ Len(d.hole) = 2
        /\ Range(d.hole \o d.board) \subseteq Deck
        /\ IsInjective(d.hole \o d.board)
        /\ d.eff > 0 => d.to_call <= d.eff
        /\ d.stack > 0 => d.to_call <= d.stack
    BY <2>2, <2>3, <2>4, <2>6
  <2> QED BY <2>7, <2>8 DEF d
<1> QED BY <1>1, FramesReadHolds, QuorumsBehindHolds, TypeCorrect, PTL

-----------------------------------------------------------------------------
(* What the engine may answer. *)

\* The numbers of a dict that the engine is asked with.
TypedDict(d) ==
  /\ d.pot \in Nat /\ d.to_call \in Nat /\ d.stack \in Nat /\ d.eff \in Nat
  /\ d.bb \in Nat \ {0}

\* The line that the tree is asked about.
LineWith(tail) == <<"hand", "hand", "/", "cards">> \o tail

\* What the tree offers after a line that does not end in a raised check.
LEMMA OffersByEnd ==
  ASSUME NEW h, ~Post!EndsWith(h, <<"k", "bMIN">>)
  PROVE  /\ Post!Last(h) = "bMAX" => Post!Actions(h) = {"f", "c"}
         /\ Post!Last(h) = "bMIN" => Post!Actions(h) = {"bMAX", "f", "c"}
         /\ Post!Last(h) \notin {"bMIN", "bMAX"} => Post!Actions(h) = {"k", "bMIN", "bMAX"}
BY Zenon DEF Post!Actions

\* A line that has no check in it does not end in a raised check.
LEMMA NoRaisedCheck ==
  ASSUME NEW T, NEW h \in Seq(T), "k" \notin T
  PROVE  ~Post!EndsWith(h, <<"k", "bMIN">>)
<1> DEFINE p == <<"k", "bMIN">>
<1>1. Len(p) = 2 /\ p[1] = "k"
  OBVIOUS
<1> HIDE DEF p
<1> SUFFICES ASSUME Post!EndsWith(h, p) PROVE FALSE
  BY DEF p
<1>2. PICK n \in Nat : n = Len(h)
  OBVIOUS
<1>3. n >= 2 /\ SubSeq(h, n - 1, n) = p
  BY <1>1, <1>2 DEF Post!EndsWith
<1>4. SubSeq(h, n - 1, n)[1] = h[n - 1] /\ h[n - 1] \in T
  BY <1>2, <1>3, SubSeqProperties
<1> QED BY <1>1, <1>3, <1>4

\* Such lines of four and of five tokens.
LEMMA LineOfFour ==
  /\ Post!Last(LineWith(<<>>)) = "cards"
  /\ ~Post!EndsWith(LineWith(<<>>), <<"k", "bMIN">>)
<1> DEFINE T == {"hand", "/", "cards"}
           h == <<"hand", "hand", "/", "cards">>
<1>1. h \in Seq(T) /\ Len(h) = 4 /\ h[4] = "cards" /\ "k" \notin T
  OBVIOUS
<1> HIDE DEF h, T
<1>2. LineWith(<<>>) = h
  BY <1>1, ConcatEmptySeq DEF LineWith, h
<1> QED BY <1>1, <1>2, NoRaisedCheck DEF Post!Last

LEMMA LineOfFive ==
  ASSUME NEW x \in {"bMIN", "bMAX"}
  PROVE  /\ Post!Last(LineWith(<<x>>)) = x
         /\ ~Post!EndsWith(LineWith(<<x>>), <<"k", "bMIN">>)
<1> DEFINE T == {"hand", "/", "cards", "bMIN", "bMAX"}
           h == <<"hand", "hand", "/", "cards">>
           t == <<x>>
<1>1. h \in Seq(T) /\ Len(h) = 4 /\ "k" \notin T
  OBVIOUS
<1>2. t \in Seq(T) /\ Len(t) = 1 /\ t[1] = x
  OBVIOUS
<1> HIDE DEF h, t, T
<1>3. h \o t \in Seq(T) /\ Len(h \o t) = 5 /\ (h \o t)[5] = x
  <2> DEFINE c == h \o t
  <2>1. /\ c \in Seq(T) /\ Len(c) = Len(h) + Len(t)
        /\ \A i \in 1..(Len(h) + Len(t)) : c[i] = IF i <= Len(h) THEN h[i] ELSE t[i - Len(h)]
    BY <1>1, <1>2, ConcatProperties
  <2> HIDE DEF c
  <2>2. Len(h) + Len(t) = 5 /\ 5 - Len(h) = 1 /\ ~(5 <= Len(h)) /\ 5 \in 1..5
    BY <1>1, <1>2
  <2>3. c[5] = t[1]
    BY <2>1, <2>2, Zenon
  <2> QED BY <1>2, <2>1, <2>2, <2>3 DEF c
<1>4. LineWith(<<x>>) = h \o t
  BY DEF LineWith, h, t
<1> QED BY <1>1, <1>3, <1>4, NoRaisedCheck DEF Post!Last

\* The tokens of the abstract tree: none of them checks a bet, and a large one is not
\* raised again.
LEMMA PostflopOffers ==
  ASSUME NEW d
  PROVE  PostflopTokens(d) = IF ~Facing(d) THEN {"k", "bMIN", "bMAX"}
                             ELSE IF d.to_call >= 2 * d.bb THEN {"f", "c"}
                             ELSE {"bMAX", "f", "c"}
<1> DEFINE Large == d.to_call >= 2 * d.bb
<1>1. Post!Actions(LineWith(<<>>)) = {"k", "bMIN", "bMAX"}
  BY LineOfFour, OffersByEnd
<1>2. Post!Actions(LineWith(<<"bMAX">>)) = {"f", "c"}
  BY LineOfFive, OffersByEnd
<1>3. Post!Actions(LineWith(<<"bMIN">>)) = {"bMAX", "f", "c"}
  BY LineOfFive, OffersByEnd
<1> HIDE DEF Large
<1>4. PostflopTokens(d) =
        Post!Actions(LineWith(IF ~Facing(d) THEN <<>>
                              ELSE IF Large THEN <<"bMAX">> ELSE <<"bMIN">>))
  BY Zenon DEF PostflopTokens, LineWith, Large
<1>5. PostflopTokens(d) = IF ~Facing(d) THEN {"k", "bMIN", "bMAX"}
                          ELSE IF Large THEN {"f", "c"} ELSE {"bMAX", "f", "c"}
  BY <1>1, <1>2, <1>3, <1>4, Zenon
<1> QED BY <1>5, Zenon DEF Large

\* What the tokens are translated to, before the flop and after it.
LEMMA PreflopSays ==
  ASSUME NEW d, NEW t \in PreflopTokens(d)
  PROVE  \/ PreflopAction(d, t) = Bet((5 * d.bb) \div 2)
         \/ Facing(d) /\ PreflopAction(d, t) = Bet(Smaller(3 * d.to_call, EffectiveStack(d)))
         \/ Facing(d) /\ PreflopAction(d, t) \in {Say("c"), Say("f")}
         \/ ~Facing(d) /\ PreflopAction(d, t) = Say("f")
<1>1. \/ t = "bMIN"
      \/ Facing(d) /\ t \in {"bMAX", "c", "f"}
      \/ ~Facing(d) /\ t = "f"
  BY Zenon DEF PreflopTokens
<1>2. PreflopAction(d, "bMIN") = Bet((5 * d.bb) \div 2)
  BY Zenon DEF PreflopAction
<1>3. PreflopAction(d, "bMAX") = Bet(Smaller(3 * d.to_call, EffectiveStack(d)))
  BY Zenon DEF PreflopAction
<1>4. PreflopAction(d, "c") = Say("c") /\ PreflopAction(d, "f") = Say("f")
  BY Zenon DEF PreflopAction
<1> QED BY <1>1, <1>2, <1>3, <1>4, Zenon

LEMMA PostflopSays ==
  ASSUME NEW d, TypedDict(d), NEW t \in PostflopTokens(d)
  PROVE  \/ ~Facing(d) /\ d.bb = 1 /\ PostflopAction(d, t) = Say("raises ZeroDivisionError")
         \/ ~Facing(d) /\ \E size \in Int : PostflopAction(d, t) = Bet(size)
         \/ ~Facing(d) /\ PostflopAction(d, t) = Say("k")
         \/ /\ Facing(d) /\ d.to_call < 2 * d.bb
            /\ PostflopAction(d, t) = Bet(Smaller(d.pot, d.stack))
         \/ Facing(d) /\ PostflopAction(d, t) \in {Say("c"), Say("f")}
<1> DEFINE unit == d.bb \div 2
           size == Larger(d.bb, (d.pot \div (3 * unit)) * unit)
<1>1. /\ d.bb \in Nat /\ d.bb > 0 /\ d.to_call \in Nat /\ d.pot \in Nat /\ d.stack \in Nat
  BY DEF TypedDict
<1>2. unit \in Nat /\ (unit = 0 => d.bb = 1)
  BY <1>1
<1> HIDE DEF unit
<1>3. CASE t = "bMIN"
  <2>1. ~Facing(d)
    BY <1>3, PostflopOffers, Zenon
  <2>2. CASE unit = 0
    <3>0. ~(unit > 0)
      BY <1>2, <2>2
    <3>1. PostflopAction(d, t) = Say("raises ZeroDivisionError")
      BY <1>3, <2>2, <3>0, Zenon DEF PostflopAction, unit
    <3> QED BY <1>2, <2>1, <2>2, <3>1
  <2>3. CASE unit > 0
    <3>1. unit # 0
      BY <1>2, <2>3
    <3>2. PostflopAction(d, t) = Bet(size)
      BY <1>3, <2>3, <3>1, Zenon DEF PostflopAction, unit
    <3>3. size \in Int
      <4>1. d.pot \div (3 * unit) \in Int
        BY <1>1, <1>2, <2>3
      <4>2. (d.pot \div (3 * unit)) * unit \in Int
        BY <1>2, <4>1
      <4> QED BY <1>1, <4>2 DEF Larger
    <3> HIDE DEF size
    <3> QED BY <2>1, <3>2, <3>3, Zenon
  <2>4. unit = 0 \/ unit > 0
    BY <1>2
  <2> HIDE DEF size
  <2> QED BY <2>2, <2>3, <2>4, Zenon
<1>4. CASE t = "bMAX"
  <2>1. PostflopAction(d, t) = Bet(Smaller(d.pot, d.stack))
    BY <1>4, Zenon DEF PostflopAction
  <2>2. Smaller(d.pot, d.stack) \in Int
    BY <1>1 DEF Smaller
  <2>3. ~Facing(d) \/ ~(d.to_call >= 2 * d.bb)
    BY <1>4, PostflopOffers, Zenon
  <2>4. ~Facing(d) \/ d.to_call < 2 * d.bb
    BY <1>1, <2>3
  <2> QED BY <2>1, <2>2, <2>4, Zenon
<1>5. CASE t \in {"k", "f", "c"}
  <2>1. PostflopAction(d, t) = Say(t)
    BY <1>5, Zenon DEF PostflopAction
  <2>2. \/ ~Facing(d) /\ t = "k"
        \/ Facing(d) /\ t \in {"f", "c"}
    BY <1>5, PostflopOffers, Zenon
  <2> QED BY <2>1, <2>2, Zenon
<1> QED BY <1>3, <1>4, <1>5, PostflopOffers, Zenon

\* The checks at the end leave bets, and calls and folds that answer a bet, what they are
\* or make them one another; a check without a bet and a failure stay.
LEMMA SettledSays ==
  ASSUME NEW d, NEW e, NEW r
  PROVE  /\ r.act = "b" => Settled(d, e, r) = r
         /\ (Facing(d) /\ r \in {Say("c"), Say("f")}) => Settled(d, e, r) \in {Say("c"), Say("f")}
         /\ (~Facing(d) /\ r.act \notin {"b", "c"}) => Settled(d, e, r) = r
BY DEF Settled, PotOdds, NoCheckFacing, Say

\* The value bet and the cap, by what they are given.
LEMMA BetsAreCapped ==
  ASSUME NEW d, TypedDict(d), NEW e, NEW needed, NEW r
  PROVE  LET v == Capped(d, ValueBet(d, e, needed, r))
         IN  /\ Facing(d) => v = Capped(d, r)
             /\ ~Facing(d) => \/ v = Capped(d, r)
                              \/ \E size \in Int : v = Capped(d, Bet(size))
             /\ r.act # "b" => Capped(d, r) = r
             /\ \A size : Capped(d, Bet(size)).act = "b"
<1> DEFINE size == Smaller(Larger(d.pot \div 2, 2 * d.bb), d.eff)
<1>1. size \in Int
  BY DEF TypedDict, Smaller, Larger
<1> HIDE DEF size
<1>2. ValueBet(d, e, needed, r) = r \/ (~Facing(d) /\ ValueBet(d, e, needed, r) = Bet(size))
  BY Zenon DEF ValueBet, size
<1>3. r.act # "b" => Capped(d, r) = r
  BY DEF Capped
<1>4. \A x : Bet(x).act = "b"
  BY DEF Bet
<1>5. \A x : Capped(d, Bet(x)).act = "b"
  <2> SUFFICES ASSUME NEW x PROVE Capped(d, Bet(x)).act = "b"
    OBVIOUS
  <2> DEFINE cap == Smaller(Bet(x).size, Larger((3 * d.eff) \div 10, 2 * d.bb))
  <2>1. Capped(d, Bet(x)) = Bet(cap) \/ Capped(d, Bet(x)) = Bet(x)
    BY Zenon DEF Capped
  <2> HIDE DEF cap
  <2> QED BY <1>4, <2>1, Zenon
<1> QED BY <1>1, <1>2, <1>3, <1>5, Zenon

\* Everything that may be said to a dict.
LEMMA Said ==
  ASSUME NEW d, TypedDict(d), NEW a \in Spoken(d)
  PROVE  \/ Facing(d) /\ a \in {Say("c"), Say("f")}
         \/ ~Facing(d) /\ a = Say("k")
         \/ d.bb = 1 /\ a = Say("raises ZeroDivisionError")
         \/ d.board = <<>> /\ a = Bet((5 * d.bb) \div 2)
         \/ d.board = <<>> /\ Facing(d) /\ a = Bet(Smaller(3 * d.to_call, EffectiveStack(d)))
         \/ /\ d.board # <<>> /\ ~Facing(d) /\ a.act = "b"
            /\ \E size \in Int : a = Capped(d, Bet(size))
         \/ /\ d.board # <<>> /\ Facing(d) /\ a.act = "b"
            /\ d.to_call < 2 * d.bb /\ a = Capped(d, Bet(Smaller(d.pot, d.stack)))
<1>1. PICK r \in Recommended(d) : a = IF ~Facing(d) /\ r.act = "f" THEN Say("k") ELSE r
  BY DEF Spoken
<1>2. Say("f").act = "f" /\ Say("k").act = "k" /\ Say("c").act = "c"
      /\ Say("raises ZeroDivisionError").act = "raises ZeroDivisionError"
      /\ \A x : Bet(x).act = "b"
  BY DEF Say, Bet
<1>3. CASE d.board = <<>>
  <2>1. PICK t \in PreflopTokens(d) : r = Settled(d, 50, PreflopAction(d, t))
    BY <1>3 DEF Recommended
  <2> DEFINE raw == PreflopAction(d, t)
             open == Bet((5 * d.bb) \div 2)
             raise == Bet(Smaller(3 * d.to_call, EffectiveStack(d)))
  <2>2. open.act = "b" /\ raise.act = "b"
    BY <1>2
  <2> HIDE DEF open, raise
  <2>3. \/ raw = open
        \/ Facing(d) /\ raw = raise
        \/ Facing(d) /\ raw \in {Say("c"), Say("f")}
        \/ ~Facing(d) /\ raw = Say("f")
    BY PreflopSays DEF open, raise
  <2> HIDE DEF raw
  <2>4. r = Settled(d, 50, raw)
    BY <2>1 DEF raw
  <2>5. \/ r = open
        \/ Facing(d) /\ r = raise
        \/ Facing(d) /\ r \in {Say("c"), Say("f")}
        \/ ~Facing(d) /\ r = Say("f")
    <3>1. /\ raw.act = "b" => r = raw
          /\ (Facing(d) /\ raw \in {Say("c"), Say("f")}) => r \in {Say("c"), Say("f")}
          /\ (~Facing(d) /\ raw.act \notin {"b", "c"}) => r = raw
      BY <2>4, SettledSays
    <3> QED BY <1>2, <2>2, <2>3, <3>1
  <2>6. \/ Facing(d) /\ a \in {Say("c"), Say("f")}
        \/ ~Facing(d) /\ a = Say("k")
        \/ a = open
        \/ Facing(d) /\ a = raise
    BY <1>1, <1>2, <2>2, <2>5
  <2> QED BY <1>3, <2>6 DEF open, raise
<1>4. CASE d.board # <<>>
  <2>1. PICK t \in PostflopTokens(d), e \in Equities, needed \in {72, 78, 85} :
          r = Settled(d, e, Capped(d, ValueBet(d, e, needed, PostflopAction(d, t))))
    BY <1>4 DEF Recommended
  <2> DEFINE raw == PostflopAction(d, t)
             v == Capped(d, ValueBet(d, e, needed, raw))
             fail == Say("raises ZeroDivisionError")
             raise == Capped(d, Bet(Smaller(d.pot, d.stack)))
             IsBet(x) == \E size \in Int : x = Capped(d, Bet(size))
             Small == d.to_call < 2 * d.bb
  <2> HIDE DEF Small
  <2>2. \/ ~Facing(d) /\ d.bb = 1 /\ raw = fail
        \/ ~Facing(d) /\ \E size \in Int : raw = Bet(size)
        \/ ~Facing(d) /\ raw = Say("k")
        \/ Facing(d) /\ Small /\ raw = Bet(Smaller(d.pot, d.stack))
        \/ Facing(d) /\ raw \in {Say("c"), Say("f")}
    BY PostflopSays, Zenon DEF Small
  <2>3. /\ Facing(d) => v = Capped(d, raw)
        /\ ~Facing(d) => v = Capped(d, raw) \/ IsBet(v)
        /\ raw.act # "b" => Capped(d, raw) = raw
        /\ \A size : Capped(d, Bet(size)).act = "b"
    BY BetsAreCapped
  <2>4. r = Settled(d, e, v)
    BY <2>1
  <2> HIDE DEF raw, v, fail, raise
  <2>5. /\ IsBet(v) => v.act = "b"
        /\ raise.act = "b"
    BY <2>3 DEF raise
  <2> HIDE DEF IsBet
  <2>6. \/ ~Facing(d) /\ d.bb = 1 /\ v = fail
        \/ ~Facing(d) /\ IsBet(v)
        \/ ~Facing(d) /\ v = Say("k")
        \/ Facing(d) /\ Small /\ v = raise
        \/ Facing(d) /\ v \in {Say("c"), Say("f")}
    <3>1. CASE ~Facing(d) /\ \E size \in Int : raw = Bet(size)
      <4>1. IsBet(Capped(d, raw))
        BY <3>1 DEF IsBet
      <4> QED BY <2>3, <3>1, <4>1
    <3>2. CASE ~Facing(d) /\ d.bb = 1 /\ raw = fail
      BY <1>2, <2>3, <3>2 DEF fail
    <3>3. CASE ~Facing(d) /\ raw = Say("k")
      BY <1>2, <2>3, <3>3
    <3>4. CASE Facing(d) /\ Small /\ raw = Bet(Smaller(d.pot, d.stack))
      BY <2>3, <3>4 DEF raise
    <3>5. CASE Facing(d) /\ raw \in {Say("c"), Say("f")}
      BY <1>2, <2>3, <3>5
    <3> QED BY <2>2, <3>1, <3>2, <3>3, <3>4, <3>5
  <2>7. \/ ~Facing(d) /\ d.bb = 1 /\ r = fail
        \/ ~Facing(d) /\ IsBet(r) /\ r.act = "b"
        \/ ~Facing(d) /\ r = Say("k")
        \/ Facing(d) /\ Small /\ r = raise
        \/ Facing(d) /\ r \in {Say("c"), Say("f")}
    <3>1. /\ v.act = "b" => r = v
          /\ (Facing(d) /\ v \in {Say("c"), Say("f")}) => r \in {Say("c"), Say("f")}
          /\ (~Facing(d) /\ v.act \notin {"b", "c"}) => r = v
      BY <2>4, SettledSays
    <3> QED BY <1>2, <2>5, <2>6, <3>1 DEF fail
  <2>8. \/ ~Facing(d) /\ d.bb = 1 /\ a = fail
        \/ ~Facing(d) /\ IsBet(a) /\ a.act = "b"
        \/ ~Facing(d) /\ a = Say("k")
        \/ Facing(d) /\ Small /\ a = raise
        \/ Facing(d) /\ a \in {Say("c"), Say("f")}
    BY <1>1, <1>2, <2>5, <2>7 DEF fail
  <2> QED BY <1>4, <2>5, <2>8, Zenon DEF IsBet, fail, raise, Small
<1> QED BY <1>3, <1>4

\* What is said was said to a typed dict.
LEMMA SaidToTyped ==
  ASSUME TypeOK, FramesRead, QuorumsBehind, NEW j \in DOMAIN log, NEW a \in SaidAt(j)
  PROVE  TypedDict(Asked(log[j].out)) /\ a \in Spoken(Asked(log[j].out))
<1>1. AdvisedAt(j) /\ a \in Spoken(Asked(log[j].out))
  BY DEF SaidAt
<1>2. PICK raw \in Raws : Asked(log[j].out) = ToDict(FromRaw(raw))
  BY <1>1, AskedTyped
<1> DEFINE s == FromRaw(raw)
           d == Asked(log[j].out)
<1>3. /\ s.pot \in Nat /\ s.to_call \in Nat /\ s.stack \in Nat /\ s.eff \in Nat
      /\ s.bb \in Nat \ {0}
  BY NumbersTyped
<1>4. d = ToDict(s)
  BY <1>2
<1> HIDE DEF s, d
<1>5. d.pot = s.pot /\ d.to_call = s.to_call /\ d.stack = s.stack /\ d.eff = s.eff /\ d.bb = s.bb
  BY <1>4 DEF ToDict
<1>6. TypedDict(d)
  BY <1>3, <1>5 DEF TypedDict
<1> QED BY <1>1, <1>6 DEF d

\* The fields of what is said.
LEMMA SayFields ==
  /\ \A act : Say(act).act = act
  /\ \A size : Bet(size).act = "b" /\ Bet(size).size = size
BY DEF Say, Bet

\* For every run of readings, every equity and whatever the charts and the strategy
\* answer: the action said is one that the table allows, or the big blind is 1.
THEOREM ActionAnswers == Spec => []ActionAnswersTheTable
<1>1. TypeOK /\ FramesRead /\ QuorumsBehind => ActionAnswersTheTable
  <2> SUFFICES ASSUME TypeOK, FramesRead, QuorumsBehind,
                      NEW j \in DOMAIN log, NEW a \in SaidAt(j)
               PROVE  LET d == Asked(log[j].out)
                      IN  \/ a.act = "b"
                          \/ a.act \in (IF Facing(d) THEN {"c", "f"} ELSE {"k"})
                          \/ a.act = "raises ZeroDivisionError" /\ d.bb = 1
    BY DEF ActionAnswersTheTable
  <2> DEFINE d == Asked(log[j].out)
  <2>1. TypedDict(d) /\ a \in Spoken(d)
    BY SaidToTyped
  <2> HIDE DEF d
  <2>2. \/ Facing(d) /\ a \in {Say("c"), Say("f")}
        \/ ~Facing(d) /\ a = Say("k")
        \/ d.bb = 1 /\ a = Say("raises ZeroDivisionError")
        \/ a.act = "b"
    BY <2>1, Said, SayFields
  <2>3. \/ a.act = "b"
        \/ a.act \in (IF Facing(d) THEN {"c", "f"} ELSE {"k"})
        \/ a.act = "raises ZeroDivisionError" /\ d.bb = 1
    BY <2>2, SayFields
  <2> QED BY <2>3 DEF d
<1> QED BY <1>1, FramesReadHolds, QuorumsBehindHolds, TypeCorrect, PTL

\* The bets among what may be said.
LEMMA BetsSaid ==
  ASSUME NEW d, TypedDict(d), NEW a \in Spoken(d), a.act = "b"
  PROVE  \/ d.board = <<>> /\ a = Bet((5 * d.bb) \div 2)
         \/ d.board = <<>> /\ Facing(d) /\ a = Bet(Smaller(3 * d.to_call, EffectiveStack(d)))
         \/ d.board # <<>> /\ ~Facing(d) /\ \E size \in Int : a = Capped(d, Bet(size))
         \/ /\ d.board # <<>> /\ Facing(d)
            /\ d.to_call < 2 * d.bb /\ a = Capped(d, Bet(Smaller(d.pot, d.stack)))
<1> DEFINE open == Bet((5 * d.bb) \div 2)
           raise == Bet(Smaller(3 * d.to_call, EffectiveStack(d)))
           Small == d.to_call < 2 * d.bb
           all == Capped(d, Bet(Smaller(d.pot, d.stack)))
           Sized == \E size \in Int : a = Capped(d, Bet(size))
           Fails == d.bb = 1 /\ a = Say("raises ZeroDivisionError")
<1>1. \/ Facing(d) /\ a \in {Say("c"), Say("f")}
      \/ ~Facing(d) /\ a = Say("k")
      \/ Fails
      \/ d.board = <<>> /\ a = open
      \/ d.board = <<>> /\ Facing(d) /\ a = raise
      \/ d.board # <<>> /\ ~Facing(d) /\ a.act = "b" /\ Sized
      \/ d.board # <<>> /\ Facing(d) /\ a.act = "b" /\ Small /\ a = all
  BY Said, Zenon
<1> HIDE DEF open, raise, Small, all, Sized
<1>2. a \notin {Say("c"), Say("f"), Say("k")} /\ ~Fails
  <2>1. \A act : a = Say(act) => act = "b"
    BY SayFields, Zenon
  <2>2. ~("c" = "b") /\ ~("f" = "b") /\ ~("k" = "b") /\ ~("raises ZeroDivisionError" = "b")
    OBVIOUS
  <2> QED BY <2>1, <2>2, Zenon
<1> HIDE DEF Fails
<1>3. \/ d.board = <<>> /\ a = open
      \/ d.board = <<>> /\ Facing(d) /\ a = raise
      \/ d.board # <<>> /\ ~Facing(d) /\ Sized
      \/ d.board # <<>> /\ Facing(d) /\ Small /\ a = all
  BY <1>1, <1>2, Zenon
<1> QED BY <1>3, Zenon DEF open, raise, Small, all, Sized

\* A capped bet is the bet, or the cap.
LEMMA CappedBet ==
  ASSUME NEW d, TypedDict(d), NEW x \in Int
  PROVE  /\ Capped(d, Bet(x)).size \in Int
         /\ \/ Capped(d, Bet(x)).size = x /\ (d.stack > 0 => x <= Larger((3 * d.eff) \div 10, 2 * d.bb))
            \/ d.stack > 0 /\ Capped(d, Bet(x)).size = Larger((3 * d.eff) \div 10, 2 * d.bb)
<1> DEFINE cap == Larger((3 * d.eff) \div 10, 2 * d.bb)
<1>1. cap \in Int /\ d.stack \in Nat
  BY DEF TypedDict, Larger
<1> HIDE DEF cap
<1>2. Bet(x).act = "b" /\ Bet(x).size = x
  BY SayFields
<1>3. Capped(d, Bet(x)) = IF d.stack > 0 THEN Bet(Smaller(x, cap)) ELSE Bet(x)
  BY <1>2, Zenon DEF Capped, cap
<1>4. Capped(d, Bet(x)).size = IF d.stack > 0 THEN Smaller(x, cap) ELSE x
  BY <1>3, SayFields
<1>5. /\ Capped(d, Bet(x)).size \in Int
      /\ \/ Capped(d, Bet(x)).size = x /\ (d.stack > 0 => x <= cap)
         \/ d.stack > 0 /\ Capped(d, Bet(x)).size = cap
  BY <1>1, <1>4 DEF Smaller
<1> QED BY <1>5, Zenon DEF cap

\* For every run of readings: a raise is more than the call it answers, when pot and
\* stacks are, unless a fold of the chart was promoted to the opening raise.
THEOREM RaiseBeats == Spec => []RaiseBeatsTheCall
<1>1. TypeOK /\ FramesRead /\ QuorumsBehind => RaiseBeatsTheCall
  <2> SUFFICES ASSUME TypeOK, FramesRead, QuorumsBehind,
                      NEW j \in DOMAIN log, NEW a \in SaidAt(j)
               PROVE  LET d == Asked(log[j].out)
                      IN  (/\ a.act = "b"
                           /\ Facing(d)
                           /\ \A x \in {d.pot, d.stack, d.eff} : x > d.to_call
                           /\ d.board = <<>> => a.size # (5 * d.bb) \div 2)
                            => a.size > d.to_call
    BY DEF RaiseBeatsTheCall
  <2> DEFINE d == Asked(log[j].out)
             open == (5 * d.bb) \div 2
  <2>1. TypedDict(d) /\ a \in Spoken(d)
    BY SaidToTyped
  <2> HIDE DEF d
  <2>2. SUFFICES ASSUME a.act = "b", Facing(d), \A x \in {d.pot, d.stack, d.eff} : x > d.to_call,
                        d.board = <<>> => a.size # open
                 PROVE  a.size > d.to_call
    BY Zenon DEF d
  <2>3. /\ d.pot \in Nat /\ d.to_call \in Nat /\ d.stack \in Nat /\ d.eff \in Nat /\ d.bb \in Nat
        /\ d.to_call > 0 /\ d.pot > d.to_call /\ d.stack > d.to_call /\ d.eff > d.to_call
    BY <2>1, <2>2 DEF TypedDict, Facing
  <2> HIDE DEF open
  <2>4. \/ d.board = <<>> /\ a = Bet(open)
        \/ d.board = <<>> /\ a = Bet(Smaller(3 * d.to_call, EffectiveStack(d)))
        \/ d.to_call < 2 * d.bb /\ a = Capped(d, Bet(Smaller(d.pot, d.stack)))
    BY <2>1, <2>2, BetsSaid, Zenon DEF open
  <2>5. CASE d.board = <<>> /\ a = Bet(Smaller(3 * d.to_call, EffectiveStack(d)))
    <3>1. a.size = Smaller(3 * d.to_call, EffectiveStack(d))
      BY <2>5, SayFields
    <3>2. EffectiveStack(d) = d.eff
      BY <2>3 DEF EffectiveStack
    <3> QED BY <2>3, <3>1, <3>2 DEF Smaller
  <2>6. CASE d.to_call < 2 * d.bb /\ a = Capped(d, Bet(Smaller(d.pot, d.stack)))
    <3> DEFINE x == Smaller(d.pot, d.stack)
               cap == Larger((3 * d.eff) \div 10, 2 * d.bb)
    <3>1. x \in Int /\ x > d.to_call
      BY <2>3 DEF Smaller
    <3>2. cap \in Int /\ cap > d.to_call
      BY <2>3, <2>6 DEF Larger
    <3> HIDE DEF x, cap
    <3>3. a.size = x \/ a.size = cap
      BY <2>1, <2>6, <3>1, CappedBet DEF x, cap
    <3> QED BY <3>1, <3>2, <3>3
  <2> QED BY <2>2, <2>4, <2>5, <2>6, SayFields
<1> QED BY <1>1, FramesReadHolds, QuorumsBehindHolds, TypeCorrect, PTL

\* For every run of readings: no bet is larger than the effective stack, but for the
\* opening raise and the two big blinds that the cap allows.
THEOREM BetFits == Spec => []BetFitsTheStack
<1>1. TypeOK /\ FramesRead /\ QuorumsBehind => BetFitsTheStack
  <2> SUFFICES ASSUME TypeOK, FramesRead, QuorumsBehind,
                      NEW j \in DOMAIN log, NEW a \in SaidAt(j)
               PROVE  LET d == Asked(log[j].out)
                      IN  (a.act = "b" /\ d.stack > 0 /\ a.size > EffectiveStack(d))
                            => a.size <= (IF d.board = <<>> THEN (5 * d.bb) \div 2 ELSE 2 * d.bb)
    BY DEF BetFitsTheStack
  <2> DEFINE d == Asked(log[j].out)
             open == (5 * d.bb) \div 2
  <2>1. TypedDict(d) /\ a \in Spoken(d)
    BY SaidToTyped
  <2> HIDE DEF d
  <2>2. SUFFICES ASSUME a.act = "b", d.stack > 0, a.size > EffectiveStack(d)
                 PROVE  a.size <= (IF d.board = <<>> THEN open ELSE 2 * d.bb)
    BY Zenon DEF d
  <2>3. /\ d.pot \in Nat /\ d.to_call \in Nat /\ d.stack \in Nat /\ d.eff \in Nat /\ d.bb \in Nat
        /\ open \in Int
    BY <2>1 DEF TypedDict
  <2> HIDE DEF open
  <2>4. \/ d.board = <<>> /\ a = Bet(open)
        \/ d.board = <<>> /\ a = Bet(Smaller(3 * d.to_call, EffectiveStack(d)))
        \/ d.board # <<>> /\ \E x \in Int : a = Capped(d, Bet(x))
    <3>1. Smaller(d.pot, d.stack) \in Int
      BY <2>3 DEF Smaller
    <3> QED BY <2>1, <2>2, <3>1, BetsSaid, Zenon DEF open
  <2>5. CASE d.board = <<>> /\ a = Bet(open)
    BY <2>3, <2>5, SayFields
  <2>6. CASE d.board = <<>> /\ a = Bet(Smaller(3 * d.to_call, EffectiveStack(d)))
    <3>1. EffectiveStack(d) \in Nat
      BY <2>3 DEF EffectiveStack
    <3>2. a.size <= EffectiveStack(d) /\ a.size \in Int
      BY <2>3, <2>6, <3>1, SayFields DEF Smaller
    <3> QED BY <2>2, <3>1, <3>2
  <2>7. CASE d.board # <<>> /\ \E x \in Int : a = Capped(d, Bet(x))
    <3>1. PICK x \in Int : a = Capped(d, Bet(x))
      BY <2>7
    <3> DEFINE cap == Larger((3 * d.eff) \div 10, 2 * d.bb)
    <3>2. cap \in Int /\ (cap <= d.eff \/ cap = 2 * d.bb)
      BY <2>3 DEF Larger
    <3>3. d.eff <= EffectiveStack(d) /\ EffectiveStack(d) \in Nat
      BY <2>3 DEF EffectiveStack
    <3> HIDE DEF cap
    <3>4. a.size \in Int /\ a.size <= cap
      <4>1. /\ a.size \in Int
            /\ (a.size = x /\ x <= cap) \/ a.size = cap
        BY <2>1, <2>2, <3>1, CappedBet DEF cap
      <4> QED BY <3>2, <4>1
    <3> QED BY <2>2, <2>3, <2>7, <3>2, <3>3, <3>4
  <2> QED BY <2>4, <2>5, <2>6, <2>7
<1> QED BY <1>1, FramesReadHolds, QuorumsBehindHolds, TypeCorrect, PTL

-----------------------------------------------------------------------------
(* The smoother: how its window is counted. *)

\* The elements that come no later than x.
UpTo(S, R, x) == {y \in S : <<y, x>> \in R}

\* In a finite total order every place is taken.
LEMMA EveryPlace ==
  ASSUME NEW S, IsFiniteSet(S), NEW R,
         \A x, y \in S : <<x, y>> \in R \/ <<y, x>> \in R,
         \A x, y \in S : <<x, y>> \in R /\ <<y, x>> \in R => x = y,
         \A x, y, z \in S : <<x, y>> \in R /\ <<y, z>> \in R => <<x, z>> \in R
  PROVE  \A n \in 1..Cardinality(S) :
           \E x \in S : Cardinality(UpTo(S, R, x)) = n
<1> DEFINE down(x) == UpTo(S, R, x)
           N == Cardinality(S)
           place == [x \in S |-> Cardinality(down(x))]
<1>1. \A x \in S : down(x) \in SUBSET S /\ x \in down(x)
  BY DEF UpTo
<1>2. \A x \in S : IsFiniteSet(down(x)) /\ Cardinality(down(x)) \in 1..N
  <2> SUFFICES ASSUME NEW x \in S PROVE IsFiniteSet(down(x)) /\ Cardinality(down(x)) \in 1..N
    OBVIOUS
  <2>1. down(x) \in SUBSET S /\ down(x) # {}
    BY <1>1
  <2> HIDE DEF down
  <2>2. IsFiniteSet(down(x)) /\ Cardinality(down(x)) <= N
    BY <2>1, FS_Subset
  <2>3. Cardinality(down(x)) \in Nat /\ N \in Nat /\ Cardinality(down(x)) # 0
    BY <2>1, <2>2, FS_CardinalityType, FS_EmptySet
  <2> QED BY <2>2, <2>3
<1>3. \A x, y \in S : x # y => down(x) # down(y)
  BY DEF UpTo
<1>4. \A x, y \in S : down(x) \subseteq down(y) \/ down(y) \subseteq down(x)
  BY DEF UpTo
<1> HIDE DEF down
<1>5. \A x, y \in S : Cardinality(down(x)) = Cardinality(down(y)) => x = y
  <2> SUFFICES ASSUME NEW x \in S, NEW y \in S, Cardinality(down(x)) = Cardinality(down(y)),
                      x # y, down(x) \subseteq down(y)
               PROVE  FALSE
    BY <1>4
  <2>1. down(x) = down(y)
    BY <1>2, FS_Subset
  <2> QED BY <1>3, <2>1
<1>6. place \in Injection(S, 1..N)
  BY <1>2, <1>5 DEF Injection, IsInjective
<1>7. N \in Nat /\ IsFiniteSet(1..N) /\ Cardinality(1..N) = N
  BY FS_CardinalityType, FS_Interval
<1>8. place \in Surjection(S, 1..N)
  BY <1>6, <1>7, FS_Injection
<1>9. \A n \in 1..N : \E x \in S : place[x] = n
  BY <1>8 DEF Surjection
<1> QED BY <1>9 DEF down

\* Leaving cards out adds none.
LEMMA WithoutAdds ==
  ASSUME NEW cards, cards \in Seq(Range(cards)), NEW out
  PROVE  /\ Range(Without(cards, out)) \subseteq Range(cards)
         /\ Len(Without(cards, out)) \in Nat
<1> DEFINE kept == {i \in DOMAIN cards : cards[i] \notin out}
           R == {p \in kept \X kept : p[1] <= p[2]}
           nth(n) == CHOOSE i \in kept : Cardinality({j \in kept : j <= i}) = n
<1>1. kept \subseteq 1..Len(cards) /\ Len(cards) \in Nat
  OBVIOUS
<1>2. IsFiniteSet(kept)
  BY <1>1, FS_Interval, FS_Subset
<1>3. \A i, j \in kept : <<i, j>> \in R <=> i <= j
  OBVIOUS
<1> HIDE DEF R
<1>4. \A n \in 1..Cardinality(kept) : \E i \in kept : Cardinality({j \in kept : j <= i}) = n
  <2>1. \A n \in 1..Cardinality(kept) :
          \E i \in kept : Cardinality(UpTo(kept, R, i)) = n
    <3>1. \A i \in kept : i \in Nat
      BY <1>1
    <3> HIDE DEF kept
    <3>2. /\ \A x, y \in kept : <<x, y>> \in R \/ <<y, x>> \in R
          /\ \A x, y \in kept : <<x, y>> \in R /\ <<y, x>> \in R => x = y
          /\ \A x, y, z \in kept : <<x, y>> \in R /\ <<y, z>> \in R => <<x, z>> \in R
      BY <1>3, <3>1
    <3> QED BY <1>2, <3>2, EveryPlace
  <2>2. \A i \in kept : UpTo(kept, R, i) = {j \in kept : j <= i}
    BY <1>3 DEF UpTo
  <2> HIDE DEF kept
  <2> QED BY <2>1, <2>2
<1>5. \A n \in 1..Cardinality(kept) : nth(n) \in kept
  BY <1>4
<1>6. Without(cards, out) = [n \in 1..Cardinality(kept) |-> cards[nth(n)]]
  BY DEF Without
<1> HIDE DEF nth
<1>7. kept \subseteq DOMAIN cards
  OBVIOUS
<1>8. Cardinality(kept) \in Nat
  BY <1>2, FS_CardinalityType
<1> HIDE DEF kept
<1>9. Range(Without(cards, out)) \subseteq Range(cards)
  BY <1>5, <1>6, <1>7 DEF Range
<1>10. Len(Without(cards, out)) \in Nat
  <2>1. \A n \in 1..Cardinality(kept) : cards[nth(n)] \in Range(cards)
    BY <1>5, <1>7 DEF Range
  <2>2. Without(cards, out) \in Seq(Range(cards))
    BY <1>6, <1>8, <2>1
  <2> QED BY <2>2
<1> QED BY <1>9, <1>10

\* Among bounded weights there is a first of the largest.
LEMMA FirstOfMost ==
  ASSUME NEW S \in SUBSET Nat, S # {}, NEW w \in [S -> Nat], NEW N \in Nat,
         \A k \in S : w[k] <= N
  PROVE  \E k \in S : \A j \in S : w[j] <= w[k] /\ (j < k => w[j] < w[k])
<1> DEFINE short == {N - w[k] : k \in S}
<1>1. short \in SUBSET Nat /\ short # {}
  <2>1. \A k \in S : N - w[k] \in Nat
    OBVIOUS
  <2> QED BY <2>1
<1>2. PICK d \in short : \A e \in short : d <= e
  BY <1>1, LeastNatural
<1>3. PICK m \in S : d = N - w[m]
  BY <1>2
<1>4. \A k \in S : w[k] <= w[m]
  BY <1>2, <1>3
<1> DEFINE tops == {k \in S : w[k] = w[m]}
<1>5. PICK t \in tops : \A u \in tops : t <= u
  BY <1>3, LeastNatural
<1> QED BY <1>3, <1>4, <1>5

\* The readings the window may hold, emptied ones included.
Lists == {<<>>} \cup {raw.hole : raw \in Raws} \cup {raw.board : raw \in Raws}

Dicts == [hole : Lists, board : Lists, pot : Int, to_call : Int, stack : Int, eff : Int,
          bb : Int, position : {raw.position : raw \in Raws}, confidence : RawConfidences,
          uncertain : BOOLEAN, estimated : BOOLEAN]

Entries == [dict : Dicts, shared : BOOLEAN]

Window == buffer \in Seq(Entries) /\ Len(buffer) <= WindowSize

LEMMA ListsOfCards == \A list \in Lists : list \in Seq(Range(list))
<1>1. \A raw \in Raws : raw.hole \in Seq(Range(raw.hole)) /\ raw.board \in Seq(Range(raw.board))
  BY RawsAssumption
<1>2. <<>> \in Seq(Range(<<>>))
  OBVIOUS
<1> QED BY <1>1, <1>2 DEF Lists

LEMMA RawsAreDicts == Raws \subseteq Dicts
<1> SUFFICES ASSUME NEW raw \in Raws PROVE raw \in Dicts
  OBVIOUS
<1>1. raw.hole \in Lists /\ raw.board \in Lists
      /\ raw.position \in {r.position : r \in Raws}
  BY DEF Lists
<1> QED BY <1>1, RawsAssumption DEF Dicts

LEMMA Emptying == \A entry \in Entries : Emptied(entry) \in Entries
BY DEF Emptied, Entries, Dicts, Lists

\* A push keeps the window.
LEMMA Pushing ==
  ASSUME NEW b \in Seq(Entries), Len(b) <= WindowSize, NEW entry \in Entries
  PROVE  /\ Push(b, entry) \in Seq(Entries)
         /\ Len(Push(b, entry)) \in 1..WindowSize
<1>1. WindowSize \in Nat /\ WindowSize > 0
  BY SmootherAssumption
<1>2. CASE Len(b) = WindowSize
  <2>1. Tail(b) \in Seq(Entries) /\ Len(Tail(b)) = Len(b) - 1
    BY <1>1, <1>2
  <2>2. Push(b, entry) = Append(Tail(b), entry)
    BY <1>2 DEF Push
  <2> QED BY <1>1, <1>2, <2>1, <2>2
<1>3. CASE Len(b) # WindowSize
  <2>1. Push(b, entry) = Append(b, entry)
    BY <1>3 DEF Push
  <2> QED BY <1>1, <1>3, <2>1
<1> QED BY <1>2, <1>3

\* Each of the three ways the extractor feeds the window.
LEMMA WindowMoves ==
  ASSUME Window,
         \/ \E raw \in Raws : UpdateFresh(raw)
         \/ UpdateRepeated
         \/ UpdateEmptied
  PROVE  Window' /\ buffer' # <<>>
<1>1. \E b \in Seq(Entries) : \E entry \in Entries :
        Len(b) = Len(buffer) /\ buffer' = Push(b, entry)
  <2>1. CASE \E raw \in Raws : UpdateFresh(raw)
    <3>1. PICK raw \in Raws : UpdateFresh(raw)
      BY <2>1
    <3> DEFINE b == [k \in Frames |-> [buffer[k] EXCEPT !.shared = FALSE]]
               entry == [dict |-> raw, shared |-> TRUE]
    <3>2. b \in Seq(Entries) /\ Len(b) = Len(buffer)
      <4>1. Frames = 1..Len(buffer) /\ Len(buffer) \in Nat
        BY DEF Window, Frames
      <4>2. \A k \in Frames : [buffer[k] EXCEPT !.shared = FALSE] \in Entries
        <5>1. \A e \in Entries : [e EXCEPT !.shared = FALSE] \in Entries
          BY DEF Entries
        <5> QED BY <5>1 DEF Window, Frames
      <4> QED BY <4>1, <4>2
    <3>3. entry \in Entries
      BY RawsAreDicts DEF Entries
    <3> QED BY <3>1, <3>2, <3>3 DEF UpdateFresh
  <2>2. CASE UpdateRepeated
    <3>1. buffer[Len(buffer)] \in Entries
      BY <2>2 DEF UpdateRepeated, Window
    <3> QED BY <2>2, <3>1 DEF UpdateRepeated, Window
  <2>3. CASE UpdateEmptied
    <3> DEFINE b == [k \in Frames |-> Emptied(buffer[k])]
               entry == Emptied(buffer[Len(buffer)])
    <3>1. b \in Seq(Entries) /\ Len(b) = Len(buffer)
      BY Emptying DEF Window, Frames
    <3>2. entry \in Entries
      BY <2>3, Emptying DEF UpdateEmptied, Window
    <3> QED BY <2>3, <3>1, <3>2 DEF UpdateEmptied
  <2> QED BY SMTT(20), <2>1, <2>2, <2>3
<1>2. PICK b \in Seq(Entries), entry \in Entries : Len(b) = Len(buffer) /\ buffer' = Push(b, entry)
  BY <1>1
<1>3. buffer' \in Seq(Entries) /\ Len(buffer') \in 1..WindowSize
  BY <1>2, Pushing DEF Window
<1>4. buffer' # <<>>
  BY <1>3
<1> QED BY <1>3, <1>4, SmootherAssumption DEF Window

\* More than half of a window, when that is required, shows the card.
Backed(card) ==
  \E X \in SUBSET Frames : /\ Cardinality(X) >= Required
                           /\ \A k \in X : InView(k, card)

CardsBacked(f) == \A card \in Range(f.view.hero) \cup Range(f.board) : Backed(card)

AmountsBacked(f) ==
  /\ f.view.to_call = 0 \/ \E k \in Numbers("to_call") : f.view.to_call <= Amount("to_call", k)
  /\ f.view.pot = 0 \/ \E k \in Numbers("pot") : f.view.pot <= Amount("pot", k)
  /\ Numbers("pot") = {} \/ \E k \in Numbers("pot") : f.view.pot >= Amount("pot", k)

\* The last reading in the log came out of the window that is there, and a stable answer
\* is about it.
LastRead ==
  /\ \E S : log \in Seq(S)
  /\ log # <<>> =>
       /\ enabled => CardsBacked(log[Len(log)].frame) /\ AmountsBacked(log[Len(log)].frame)
       /\ LastOut.reason = "stable" =>
            Fingerprint(LastOut.state) = Fingerprint(log[Len(log)].frame)

\* Whatever way ingest takes, what it answers as stable is about its reading.
LEMMA IngestFits ==
  ASSUME NEW f, Ingest(f)
  PROVE  \E u : /\ Return(f, u)
                /\ u.reason = "stable" => Fingerprint(u.state) = Fingerprint(f)
<1>1. CASE IngestStable(f)
  <2> DEFINE u == Answer(candidate', Differs(confirmed, f), "stable", hand_id')
  <2>1. Return(f, u) /\ Fingerprint(candidate') = Fingerprint(f)
    BY <1>1 DEF IngestStable, Accept, SameAsCandidate
  <2>2. u.state = candidate'
    BY DEF Answer
  <2> HIDE DEF u
  <2> QED BY <2>1, <2>2
<1>2. CASE ~IngestStable(f)
  <2>1. \E state, id : \/ Return(f, Answer(state, FALSE, "no hero cards", id))
                       \/ Return(f, Answer(state, FALSE, "low confidence", id))
                       \/ Return(f, Answer(state, FALSE, "board shrink", id))
                       \/ Return(f, Answer(state, FALSE, "stability", id))
    BY <1>2 DEF Ingest, IngestNoHand, IngestLowConfidence, IngestShrink, IngestPending
  <2>2. \A state, reason, id : Answer(state, FALSE, reason, id).reason = reason
    BY DEF Answer
  <2>3. PICK state, id :
          \/ Return(f, Answer(state, FALSE, "no hero cards", id))
          \/ Return(f, Answer(state, FALSE, "low confidence", id))
          \/ Return(f, Answer(state, FALSE, "board shrink", id))
          \/ Return(f, Answer(state, FALSE, "stability", id))
    BY <2>1
  <2>4. PICK reason \in {"no hero cards", "low confidence", "board shrink", "stability"} :
          Return(f, Answer(state, FALSE, reason, id))
    BY <2>3
  <2>5. Answer(state, FALSE, reason, id).reason # "stable"
    BY <2>2
  <2> QED BY <2>4, <2>5
<1> QED BY <1>1, <1>2

Fed == Window /\ buffer # <<>>

SmoothedIsBacked ==
  \A d : d = Smoothed =>
    CardsBacked(FrameOf(FromRaw(d))) /\ AmountsBacked(FrameOf(FromRaw(d)))

\* The cards that readings in the window show, and that are backed.
BackedCards ==
  {card \in UNION {Range(buffer[k].dict.hole) \cup Range(buffer[k].dict.board) : k \in Frames} :
     Backed(card)}

LEMMA Framed ==
  ASSUME Fed
  PROVE  /\ Frames = 1..Len(buffer) /\ Len(buffer) \in 1..WindowSize /\ IsFiniteSet(Frames)
         /\ Cardinality(Frames) = Len(buffer)
         /\ Latest \in Dicts
         /\ \A k \in Frames : buffer[k].dict \in Dicts
<1>1. Frames = 1..Len(buffer) /\ Len(buffer) \in 1..WindowSize
  BY SmootherAssumption DEF Fed, Window, Frames
<1>2. \A k \in Frames : buffer[k].dict \in Dicts
  <2>1. \A k \in Frames : buffer[k] \in Entries
    BY DEF Fed, Window, Frames
  <2>2. \A e \in Entries : e.dict \in Dicts
    BY DEF Entries
  <2> QED BY <2>1, <2>2
<1>3. Latest \in Dicts
  BY <1>1, <1>2 DEF Latest
<1>4. IsFiniteSet(Frames) /\ Cardinality(Frames) = Len(buffer)
  BY <1>1, FS_Interval
<1> QED BY <1>1, <1>2, <1>3, <1>4

\* A slot adds only cards that enough readings show.
LEMMA SlotBacked ==
  ASSUME Fed, NEW field \in {"hole", "board"}, NEW i \in Nat \ {0}
  PROVE  Slot(field, i) \in Seq(BackedCards)
<1>1. \A k \in Frames : buffer[k].dict[field] \in Seq(Range(buffer[k].dict[field]))
  <2>1. \A dict \in Dicts : dict[field] \in Lists
    BY DEF Dicts
  <2> QED BY <2>1, Framed, ListsOfCards
<1>2. CASE ~Agreed(field, i)
  BY <1>2 DEF Slot
<1>3. CASE Agreed(field, i)
  <2> DEFINE S == Filled(field, i)
             w == [k \in S |-> Cardinality(Backers(field, i, k))]
             Leads(k) == \A j \in S : /\ w[j] <= w[k]
                                      /\ j < k => w[j] < w[k]
             L == Leading(field, i)
             card == Card(field, i, L)
  <2>1. S \subseteq Frames /\ S # {}
    BY <1>3 DEF Agreed, Filled
  <2>2. S \in SUBSET Nat
    BY <2>1, Framed
  <2>3. \A k \in S : Backers(field, i, k) \subseteq Frames
    BY <2>1 DEF Backers
  <2>4. \A k \in S : w[k] \in Nat /\ w[k] <= Len(buffer)
    BY <2>3, Framed, FS_Subset, FS_CardinalityType
  <2>5. w \in [S -> Nat]
    BY <2>4
  <2> HIDE DEF w
  <2>6. \E k \in S : Leads(k)
    <3>1. Len(buffer) \in Nat
      BY Framed
    <3> QED BY <2>1, <2>2, <2>4, <2>5, <3>1, FirstOfMost
  <2>7. L = CHOOSE k \in S : Leads(k)
    <3>1. \A k \in S : w[k] = Cardinality(Backers(field, i, k))
      BY DEF w
    <3> QED BY Zenon DEF Leading, w
  <2>8. L \in S /\ Leads(L)
    BY <2>6, <2>7
  <2> HIDE DEF L
  <2>9. w[L] >= Required
    <3>1. PICK k \in S : w[k] >= Required
      BY <1>3 DEF Agreed, Enough, w
    <3>2. Required \in Nat
      BY SmootherAssumption
    <3> QED BY <2>4, <2>8, <3>1, <3>2
  <2>10. \A k \in Backers(field, i, L) : card \in Range(buffer[k].dict[field])
    <3> SUFFICES ASSUME NEW k \in Backers(field, i, L)
                 PROVE  card \in Range(buffer[k].dict[field])
      OBVIOUS
    <3>1. k \in Frames /\ i <= Len(buffer[k].dict[field]) /\ card = buffer[k].dict[field][i]
      BY DEF Backers, Filled, Card
    <3>2. buffer[k].dict[field] \in Seq(Range(buffer[k].dict[field]))
      BY <1>1, <3>1
    <3>3. i \in DOMAIN buffer[k].dict[field]
      BY <3>1, <3>2
    <3> QED BY <3>1, <3>3 DEF Range
  <2>11. \A k \in Backers(field, i, L) : InView(k, card)
    BY <2>10 DEF InView
  <2>12. L \in Backers(field, i, L)
    BY <2>8 DEF Backers
  <2> HIDE DEF card
  <2>13. Backed(card)
    BY <2>3, <2>8, <2>9, <2>11 DEF Backed, w
  <2>14. card \in BackedCards
    BY <2>1, <2>8, <2>11, <2>12, <2>13 DEF BackedCards, InView
  <2>15. Slot(field, i) = <<card>>
    BY <1>3 DEF Slot, card, L
  <2> QED BY <2>14, <2>15
<1> QED BY <1>2, <1>3

LEMMA SmoothedCards ==
  ASSUME Fed
  PROVE  SmoothHole \in Seq(BackedCards) /\ SmoothBoard \in Seq(BackedCards)
<1>1. \A a, b \in Seq(BackedCards) : a \o b \in Seq(BackedCards)
  OBVIOUS
<1>2. \A i \in 1..5 : Slot("hole", i) \in Seq(BackedCards) /\ Slot("board", i) \in Seq(BackedCards)
  BY SlotBacked
<1>3. SmoothHole \in Seq(BackedCards)
  BY <1>1, <1>2 DEF SmoothHole
<1>4. Slot("board", 1) \o Slot("board", 2) \in Seq(BackedCards)
  BY <1>1, <1>2
<1>5. Slot("board", 1) \o Slot("board", 2) \o Slot("board", 3) \in Seq(BackedCards)
  BY <1>1, <1>2, <1>4
<1>6. Slot("board", 1) \o Slot("board", 2) \o Slot("board", 3) \o Slot("board", 4)
        \in Seq(BackedCards)
  BY <1>1, <1>2, <1>5
<1> QED BY <1>1, <1>2, <1>3, <1>6 DEF SmoothBoard

LEMMA SmoothedFields ==
  ASSUME Fed
  PROVE  /\ Smoothed.hole = SmoothHole /\ Smoothed.board = SmoothBoard
         /\ Smoothed.pot = SmoothAmount("pot") /\ Smoothed.to_call = SmoothAmount("to_call")
         /\ Smoothed.stack = SmoothAmount("stack") /\ Smoothed.eff \in Int
BY Framed DEF Smoothed, Dicts

LEMMA CardsCome ==
  ASSUME Fed, NEW d, d = Smoothed
  PROVE  CardsBacked(FrameOf(FromRaw(d)))
<1> DEFINE f == FrameOf(FromRaw(d))
           hero == ValidCards(d.hole)
           read == ValidCards(d.board)
<1>1. d.hole \in Seq(BackedCards) /\ d.board \in Seq(BackedCards)
  BY SmoothedFields, SmoothedCards
<1>2. \A cards \in Seq(BackedCards) : ValidCards(cards) \in Seq(BackedCards)
  BY DEF ValidCards
<1>3. hero \in Seq(BackedCards) /\ read \in Seq(BackedCards)
  BY SMTT(20), <1>1, <1>2
<1>4. /\ f.view.hero = hero
      /\ f.board = IF Range(hero) \cap Range(read) = {} THEN read ELSE Without(read, Range(hero))
  BY DEF FrameOf, FromRaw
<1> HIDE DEF f, hero, read
<1>5. \A cards \in Seq(BackedCards) : Range(cards) \subseteq BackedCards
  BY DEF Range
<1>6. read \in Seq(Range(read))
  BY <1>3 DEF Range
<1>7. Range(f.view.hero) \subseteq BackedCards /\ Range(f.board) \subseteq BackedCards
  BY <1>3, <1>4, <1>5, <1>6, WithoutAdds
<1>8. CardsBacked(f)
  BY <1>7 DEF CardsBacked, BackedCards
<1> QED BY <1>8 DEF f

\* A median lies between two of the amounts read.
LEMMA MedianBetween ==
  ASSUME Fed, NEW field \in Amounts, Numbers(field) # {}
  PROVE  /\ Median(field) \in Int
         /\ \A k \in Numbers(field) : Amount(field, k) \in Int
         /\ \E k \in Numbers(field) : Median(field) <= Amount(field, k)
         /\ \E k \in Numbers(field) : Amount(field, k) <= Median(field)
<1> DEFINE S == Numbers(field)
           n == Cardinality(S)
           amount(k) == Amount(field, k)
           R == {p \in S \X S : \/ amount(p[1]) < amount(p[2])
                                \/ amount(p[1]) = amount(p[2]) /\ p[1] <= p[2]}
<1>1. S \subseteq Frames /\ \A k \in S : amount(k) \in Int /\ k \in Nat
  <2>1. S \subseteq Frames
    BY DEF Numbers
  <2>2. \A dict \in Dicts : dict[field] \in Int
    BY DEF Dicts, Amounts
  <2> QED BY <2>1, <2>2, Framed DEF Amount
<1>2. IsFiniteSet(S)
  BY <1>1, Framed, FS_Subset
<1>3. n \in Nat /\ n # 0
  BY <1>2, FS_CardinalityType, FS_EmptySet
<1>4. \A j, k \in S : <<j, k>> \in R <=> \/ amount(j) < amount(k)
                                         \/ amount(j) = amount(k) /\ j <= k
  OBVIOUS
<1>5. \A k \in S : Rank(field, k) = Cardinality(UpTo(S, R, k))
  <2> SUFFICES ASSUME NEW k \in S PROVE Rank(field, k) = Cardinality(UpTo(S, R, k))
    OBVIOUS
  <2> DEFINE before == {j \in Numbers(field) : \/ Amount(field, j) < Amount(field, k)
                                               \/ Amount(field, j) = Amount(field, k) /\ j <= k}
  <2>1. UpTo(S, R, k) = before
    BY <1>4 DEF UpTo
  <2>2. Rank(field, k) = Cardinality(before)
    BY Zenon DEF Rank
  <2> QED BY <2>1, <2>2
<1> HIDE DEF S, amount, R
<1>6. /\ \A x, y \in S : <<x, y>> \in R \/ <<y, x>> \in R
      /\ \A x, y \in S : <<x, y>> \in R /\ <<y, x>> \in R => x = y
      /\ \A x, y, z \in S : <<x, y>> \in R /\ <<y, z>> \in R => <<x, z>> \in R
  BY <1>1, <1>4
<1>7. \A r \in 1..n : \E k \in S : Cardinality(UpTo(S, R, k)) = r
  BY <1>2, <1>6, EveryPlace
<1>8. \A r \in 1..n : \E k \in S : AtRank(field, r) = amount(k)
  <2> SUFFICES ASSUME NEW r \in 1..n PROVE \E k \in S : AtRank(field, r) = amount(k)
    OBVIOUS
  <2> DEFINE k == CHOOSE k \in S : Rank(field, k) = r
  <2>1. \E j \in S : Rank(field, j) = r
    BY <1>5, <1>7
  <2>2. k \in S
    BY <2>1
  <2>3. AtRank(field, r) = amount(k)
    BY Zenon DEF AtRank, S, amount
  <2> HIDE DEF k
  <2> QED BY <2>2, <2>3
<1>9. (n + 1) \div 2 \in 1..n /\ n \div 2 + 1 \in 1..n
  <2> HIDE DEF n
  <2> QED BY <1>3
<1>10. PICK k, l \in S : AtRank(field, (n + 1) \div 2) = amount(k)
                         /\ AtRank(field, n \div 2 + 1) = amount(l)
  BY <1>8, <1>9
<1>11. Median(field) = (amount(k) + amount(l)) \div 2
  BY <1>10, Zenon DEF Median, n, S
<1>12. amount(k) \in Int /\ amount(l) \in Int
  BY <1>1
<1> HIDE DEF n
<1>13. /\ Median(field) \in Int
       /\ \E j \in S : Median(field) <= amount(j)
       /\ \E j \in S : amount(j) <= Median(field)
  <2>1. \A a, b \in Int : /\ (a + b) \div 2 \in Int
                          /\ (a + b) \div 2 <= a \/ (a + b) \div 2 <= b
                          /\ a <= (a + b) \div 2 \/ b <= (a + b) \div 2
    OBVIOUS
  <2> QED BY <1>11, <1>12, <2>1
<1> QED BY <1>1, <1>13 DEF S, amount

\* What from_raw_dict makes of a smoothed amount.
LEMMA AmountTyped ==
  ASSUME Fed, NEW field \in Amounts, NEW v, v = IntField(SmoothAmount(field), 0)
  PROVE  /\ v \in Nat
         /\ \A k \in Numbers(field) : Amount(field, k) \in Int
         /\ v = 0 \/ \E k \in Numbers(field) : v <= Amount(field, k)
         /\ Numbers(field) = {} \/ \E k \in Numbers(field) : v >= Amount(field, k)
<1>1. CASE Numbers(field) = {}
  <2>1. v = 0
    BY <1>1, NumbersAssumption DEF SmoothAmount, IntField
  <2> QED BY <1>1, <2>1
<1>2. CASE Numbers(field) # {}
  <2>1. v = IntField(Median(field), 0)
    BY <1>2 DEF SmoothAmount
  <2>2. /\ Median(field) \in Int
        /\ \A k \in Numbers(field) : Amount(field, k) \in Int
        /\ \E k \in Numbers(field) : Median(field) <= Amount(field, k)
        /\ \E k \in Numbers(field) : Amount(field, k) <= Median(field)
    BY <1>2, MedianBetween
  <2>3. /\ v \in Nat /\ v >= Median(field)
        /\ v = 0 \/ v = Median(field)
    BY SMTT(20), <2>1, <2>2 DEF IntField, Missing
  <2> QED BY <2>2, <2>3
<1> QED BY <1>1, <1>2

LEMMA AmountsCome ==
  ASSUME Fed, NEW d, d = Smoothed
  PROVE  AmountsBacked(FrameOf(FromRaw(d)))
<1> DEFINE f == FrameOf(FromRaw(d))
           call == IntField(SmoothAmount("to_call"), 0)
           pot == IntField(SmoothAmount("pot"), 0)
           stack == IntField(d.stack, 0)
           eff == IntField(d.eff, IF stack > 0 THEN stack ELSE 1000)
<1>1. f.view.pot = pot /\ f.view.to_call = Affordable(call, stack, eff)
  BY SmoothedFields DEF FrameOf, FromRaw
<1>2. /\ pot \in Nat
      /\ pot = 0 \/ \E k \in Numbers("pot") : pot <= Amount("pot", k)
      /\ Numbers("pot") = {} \/ \E k \in Numbers("pot") : pot >= Amount("pot", k)
  BY AmountTyped DEF Amounts
<1>3. /\ call \in Nat
      /\ \A k \in Numbers("to_call") : Amount("to_call", k) \in Int
      /\ call = 0 \/ \E k \in Numbers("to_call") : call <= Amount("to_call", k)
  BY AmountTyped DEF Amounts
<1>4. stack \in Int /\ eff \in Int
  <2>1. stack \in Nat
    BY SmoothedFields, AmountTyped DEF Amounts
  <2> HIDE DEF stack
  <2>2. d.eff \in Int
    BY SmoothedFields
  <2> QED BY <2>1, <2>2 DEF IntField
<1> HIDE DEF call, pot, stack, eff
<1>5. Affordable(call, stack, eff) \in Int /\ Affordable(call, stack, eff) <= call
      /\ Affordable(call, stack, eff) >= 0
  BY <1>3, <1>4 DEF Affordable
<1> HIDE DEF f
<1>6. f.view.to_call = 0 \/ \E k \in Numbers("to_call") : f.view.to_call <= Amount("to_call", k)
  BY <1>1, <1>3, <1>5
<1>7. AmountsBacked(f)
  BY <1>1, <1>2, <1>6 DEF AmountsBacked
<1> QED BY <1>7 DEF f

LEMMA SmoothedBacked == Fed => SmoothedIsBacked
BY CardsCome, AmountsCome DEF SmoothedIsBacked

LEMMA TickReads ==
  ASSUME Window, LastRead, Tick
  PROVE  Window' /\ LastRead'
<1>1. Window' /\ Fed'
  BY WindowMoves DEF Tick, Fed
<1>2. PICK d, f : d = Passed' /\ f = FrameOf(FromRaw(d)) /\ Ingest(f)
  BY DEF Tick
<1>3. PICK u : /\ Return(f, u)
               /\ u.reason = "stable" => Fingerprint(u.state) = Fingerprint(f)
  BY <1>2, IngestFits
<1> DEFINE e == [frame |-> f, out |-> u]
<1>4. log' = Append(log, e) /\ e.frame = f /\ e.out = u
  BY <1>3 DEF Return
<1>5. PICK S : log \in Seq(S)
  BY DEF LastRead
<1> HIDE DEF e
<1>6. /\ log' \in Seq(S \cup {e}) /\ Len(log') = Len(log) + 1
      /\ log'[Len(log')] = e
  BY <1>4, <1>5
<1>7. (LastOut)' = u /\ (log[Len(log)].frame)' = f
  BY <1>4, <1>6 DEF LastOut
<1>8. enabled' => (CardsBacked(f))' /\ (AmountsBacked(f))'
  <2>1. SmoothedIsBacked'
    BY <1>1, SmoothedBacked, PTL
  <2>2. enabled' => Passed' = Smoothed'
    BY DEF Passed
  <2> QED BY <1>2, <2>1, <2>2 DEF SmoothedIsBacked
<1> QED BY <1>1, <1>3, <1>6, <1>7, <1>8 DEF LastRead

LEMMA SmootherReads == SSpec => [](Window /\ LastRead)
<1>1. SInit => Window /\ LastRead
  <2> SUFFICES ASSUME SInit PROVE Window /\ LastRead
    OBVIOUS
  <2>1. buffer = <<>> /\ log = <<>>
    BY DEF SInit, Init
  <2>2. Window
    BY <2>1, SmootherAssumption DEF Window
  <2>3. log \in Seq({})
    BY <2>1
  <2> QED BY <2>1, <2>2, <2>3 DEF LastRead
<1>2. Window /\ LastRead /\ [SNext]_svars => Window' /\ LastRead'
  <2> SUFFICES ASSUME Window, LastRead, [SNext]_svars PROVE Window' /\ LastRead'
    OBVIOUS
  <2>1. CASE UNCHANGED svars
    <3>1. buffer' = buffer /\ log' = log /\ enabled' = enabled
      BY <2>1 DEF svars, vars
    <3>2. Window' = Window /\ (LastOut)' = LastOut
      BY <3>1 DEF Window, LastOut
    <3>3. \A card : (Backed(card))' = Backed(card)
      BY <3>1 DEF Backed, Frames, InView
    <3>4. \A f : (CardsBacked(f))' = CardsBacked(f)
      BY <3>3 DEF CardsBacked
    <3>5. \A field : (Numbers(field))' = Numbers(field)
      BY <3>1 DEF Numbers, Frames
    <3>6. \A field, k : (Amount(field, k))' = Amount(field, k)
      BY <3>1 DEF Amount
    <3>7. \A f : (AmountsBacked(f))' = AmountsBacked(f)
      BY <3>5, <3>6 DEF AmountsBacked
    <3> QED BY <3>1, <3>2, <3>4, <3>7 DEF LastRead
  <2>2. CASE SNext
    BY <2>2, TickReads DEF SNext
  <2> QED BY <2>1, <2>2
<1> QED BY <1>1, <1>2, PTL DEF SSpec

\* What is asked now, in the terms of the frame that the answer stands for.
LEMMA AskedOfLast ==
  ASSUME LastRead, AskedNow, NEW f, f = log[Len(log)].frame, NEW d, d = Asked(LastOut)
  PROVE  /\ d.hole = f.view.hero /\ d.board = f.board
         /\ d.pot = f.view.pot /\ d.to_call = f.view.to_call
<1>1. log # <<>> /\ LastOut.reason = "stable"
  BY DEF AskedNow, Advises
<1>2. Fingerprint(LastOut.state) = Fingerprint(f)
  BY <1>1 DEF LastRead
<1>3. LastOut.state.view = f.view /\ LastOut.state.board = f.board
  BY <1>2, FieldsCompared
<1>4. d = ToDict(StateOf(LastOut.state))
  BY NothingInferred DEF AskedNow
<1>5. PICK g : g = LastOut.state
  OBVIOUS
<1>6. /\ d.hole = g.view.hero /\ d.board = g.board
      /\ d.pot = g.view.pot /\ d.to_call = g.view.to_call
  BY <1>4, <1>5, FieldsAsked
<1> QED BY <1>3, <1>5, <1>6

\* For every window, every quorum and every run of readings, repeated and emptied ones
\* included: with more than half of the window required, any two cards advised on were
\* seen together in a reading that is still in the window.
THEOREM CardsShareAFrame == SSpec => []AdvisedCardsShareAFrame
<1>1. Window /\ LastRead => AdvisedCardsShareAFrame
  <2> SUFFICES ASSUME Window, LastRead, enabled, AskedNow, 2 * Required > WindowSize
               PROVE  LET d == Asked(LastOut)
                      IN  \A x, y \in Range(d.hole) \cup Range(d.board) :
                            \E k \in Frames : InView(k, x) /\ InView(k, y)
    BY DEF AdvisedCardsShareAFrame
  <2> DEFINE d == Asked(LastOut)
             f == log[Len(log)].frame
  <2>1. d.hole = f.view.hero /\ d.board = f.board
    BY AskedOfLast
  <2>2. CardsBacked(f)
    BY DEF LastRead, AskedNow
  <2> HIDE DEF d, f
  <2>3. ASSUME NEW x \in Range(d.hole) \cup Range(d.board),
               NEW y \in Range(d.hole) \cup Range(d.board)
        PROVE  \E k \in Frames : InView(k, x) /\ InView(k, y)
    <3>1. Backed(x) /\ Backed(y)
      BY <2>1, <2>2, <2>3 DEF CardsBacked
    <3>2. PICK X \in SUBSET Frames : Cardinality(X) >= Required /\ \A k \in X : InView(k, x)
      BY <3>1 DEF Backed
    <3>3. PICK Y \in SUBSET Frames : Cardinality(Y) >= Required /\ \A k \in Y : InView(k, y)
      BY <3>1 DEF Backed
    <3>4. /\ IsFiniteSet(Frames) /\ Cardinality(Frames) \in Nat
          /\ Cardinality(Frames) <= WindowSize
      <4>1. Frames = 1..Len(buffer) /\ Len(buffer) \in Nat
        BY DEF Window, Frames
      <4> QED BY <4>1, FS_Interval DEF Window
    <3>5. Cardinality(X) \in Nat /\ Cardinality(Y) \in Nat
      BY <3>4, FS_Subset, FS_CardinalityType
    <3>6. Cardinality(X) + Cardinality(Y) > Cardinality(Frames)
      BY <3>2, <3>3, <3>4, <3>5, SmootherAssumption
    <3>7. X \cap Y # {}
      BY <3>4, <3>6, FS_MajoritiesIntersect
    <3> QED BY <3>2, <3>3, <3>7
  <2> QED BY <2>3, Zenon DEF d
<1> QED BY <1>1, SmootherReads, PTL

\* For every window and every run of readings: the call advised on is no more than one
\* that is in the window, the pot neither more than one nor less than another.
THEOREM AmountsWereRead == SSpec => []AdvisedAmountsWereRead
<1>1. Window /\ LastRead => AdvisedAmountsWereRead
  <2> SUFFICES ASSUME LastRead, enabled, AskedNow PROVE AdvisedAmountsWereRead
    BY DEF AdvisedAmountsWereRead
  <2> DEFINE d == Asked(LastOut)
             f == log[Len(log)].frame
  <2>1. d.pot = f.view.pot /\ d.to_call = f.view.to_call
    BY AskedOfLast
  <2>2. AmountsBacked(f)
    BY DEF LastRead, AskedNow
  <2> HIDE DEF d, f
  <2>3. /\ d.to_call = 0 \/ \E k \in Numbers("to_call") : d.to_call <= Amount("to_call", k)
        /\ d.pot = 0 \/ \E k \in Numbers("pot") : d.pot <= Amount("pot", k)
        /\ Numbers("pot") = {} \/ \E k \in Numbers("pot") : d.pot >= Amount("pot", k)
    BY <2>1, <2>2, Zenon DEF AmountsBacked
  <2> QED BY <2>3, Zenon DEF AdvisedAmountsWereRead, d
<1> QED BY <1>1, SmootherReads, PTL

-----------------------------------------------------------------------------
(* A window of one reading. *)

\* Every frame of it shows the latest dict.
LEMMA Alike ==
  ASSUME Fed, WindowAgrees
  PROVE  /\ Frames = 1..WindowSize /\ 1 \in Frames /\ Cardinality(Frames) = WindowSize
         /\ IsFiniteSet(Frames) /\ Latest \in Dicts
         /\ \A k \in Frames : buffer[k].dict = Latest
         /\ WindowSize \in Nat /\ Required \in Nat /\ Required <= WindowSize /\ MinSamples \in Nat
<1>1. WindowSize \in Nat \ {0} /\ Required \in 0..WindowSize /\ MinSamples \in Nat
  BY SmootherAssumption
<1>2. 1 \in 1..WindowSize
  BY <1>1
<1> QED BY <1>1, <1>2, Framed DEF WindowAgrees

\* All of its frames vote for one card in each slot.
LEMMA SlotAgrees ==
  ASSUME Fed, WindowAgrees, MinSamples <= WindowSize,
         NEW field \in {"hole", "board"}, NEW i \in Nat \ {0}
  PROVE  /\ i <= Len(Latest[field]) => Agreed(field, i) /\ Slot(field, i) = <<Latest[field][i]>>
         /\ ~(i <= Len(Latest[field])) => Filled(field, i) = {} /\ Slot(field, i) = <<>>
<1> DEFINE n == Len(Latest[field])
           card == Latest[field][i]
<1>1. CASE i <= n
  <2>1. Filled(field, i) = Frames
    BY <1>1, Alike DEF Filled
  <2>2. \A k \in Frames : Card(field, i, k) = card
    BY Alike DEF Card
  <2>3. \A k \in Frames : Backers(field, i, k) = Frames
    BY <2>1, <2>2 DEF Backers
  <2>4. \A k \in Frames : Cardinality(Backers(field, i, k)) = WindowSize
    BY <2>3, Alike
  <2>5. Agreed(field, i)
    BY <2>1, <2>4, Alike DEF Agreed, Enough
  <2>6. Leading(field, i) \in Frames
    <3> DEFINE Leads(k) == \A j \in Filled(field, i) :
                 /\ Cardinality(Backers(field, i, j)) <= Cardinality(Backers(field, i, k))
                 /\ j < k => Cardinality(Backers(field, i, j)) < Cardinality(Backers(field, i, k))
    <3>1. Leads(1)
      <4>1. \A j \in Frames : ~(j < 1)
        BY Alike
      <4> QED BY <2>1, <2>4, <4>1, Alike
    <3>2. \E k \in Filled(field, i) : Leads(k)
      BY <2>1, <3>1, Alike
    <3> HIDE DEF Leads
    <3>3. (CHOOSE k \in Filled(field, i) : Leads(k)) \in Filled(field, i)
      BY <3>2
    <3>4. Leading(field, i) = CHOOSE k \in Filled(field, i) : Leads(k)
      BY Zenon DEF Leading, Leads
    <3> QED BY <2>1, <3>3, <3>4
  <2>7. Slot(field, i) = <<card>>
    BY <2>2, <2>5, <2>6 DEF Slot
  <2> QED BY <1>1, <2>5, <2>7
<1>2. CASE ~(i <= n)
  <2>1. Filled(field, i) = {}
    BY <1>2, Alike DEF Filled
  <2>2. ~Agreed(field, i)
    BY <2>1 DEF Agreed
  <2> QED BY <1>2, <2>1, <2>2 DEF Slot
<1> QED BY <1>1, <1>2

\* The first n elements, or all there are.
Start(q, n) == SubSeq(q, 1, IF n <= Len(q) THEN n ELSE Len(q))

\* Each slot continues the latest cards.
LEMMA SlotContinues ==
  ASSUME Fed, WindowAgrees, MinSamples <= WindowSize,
         NEW field \in {"hole", "board"}, NEW n \in Nat
  PROVE  Start(Latest[field], n) \o Slot(field, n + 1) = Start(Latest[field], n + 1)
<1>1. PICK q : q = Latest[field]
  OBVIOUS
<1>2. PICK S : q \in Seq(S)
  <2>1. q \in Lists
    BY <1>1, Alike DEF Dicts
  <2> QED BY <2>1, ListsOfCards
<1>3. PICK m \in Nat : m = Len(q)
  BY <1>2
<1>4. n + 1 \in Nat \ {0}
  OBVIOUS
<1>5. CASE n + 1 <= m
  <2>1. Slot(field, n + 1) = <<q[n + 1]>>
    BY <1>1, <1>3, <1>4, <1>5, SlotAgrees
  <2>2. Start(q, n) = SubSeq(q, 1, n) /\ Start(q, n + 1) = SubSeq(q, 1, n + 1)
    BY <1>3, <1>5 DEF Start
  <2>3. /\ SubSeq(q, 1, n) \in Seq(S) /\ Len(SubSeq(q, 1, n)) = n
        /\ \A i \in 1..n : SubSeq(q, 1, n)[i] = q[i]
    BY <1>2, <1>3, <1>5, SubSeqProperties
  <2>4. /\ SubSeq(q, 1, n + 1) \in Seq(S) /\ Len(SubSeq(q, 1, n + 1)) = n + 1
        /\ \A i \in 1..(n + 1) : SubSeq(q, 1, n + 1)[i] = q[i]
    BY <1>2, <1>3, <1>5, SubSeqProperties
  <2> DEFINE one == <<q[n + 1]>>
             a == SubSeq(q, 1, n)
             b == SubSeq(q, 1, n + 1)
  <2>5. one \in Seq(S) /\ Len(one) = 1 /\ one[1] = q[n + 1]
    BY <1>2, <1>3, <1>5, ElementOfSeq
  <2> HIDE DEF a, b, one
  <2>6. /\ a \o one \in Seq(S) /\ Len(a \o one) = n + 1
        /\ \A i \in 1..n : (a \o one)[i] = a[i]
        /\ (a \o one)[n + 1] = q[n + 1]
    BY SMTT(20), <2>3, <2>5, ConcatProperties DEF a
  <2>7. \A i \in 1..(n + 1) : (a \o one)[i] = b[i]
    <3>1. \A i \in 1..(n + 1) : i \in 1..n \/ i = n + 1
      OBVIOUS
    <3> QED BY <2>3, <2>4, <2>6, <3>1 DEF a, b
  <2>8. a \o one = b
    BY <2>4, <2>6, <2>7, SeqEqual DEF b
  <2> QED BY <1>1, <2>1, <2>2, <2>8 DEF a, b, one
<1>6. CASE ~(n + 1 <= m)
  <2>1. Slot(field, n + 1) = <<>>
    BY <1>1, <1>3, <1>4, <1>6, SlotAgrees
  <2>2. Start(q, n) = SubSeq(q, 1, m) /\ Start(q, n + 1) = SubSeq(q, 1, m)
    BY <1>3, <1>6 DEF Start
  <2>3. SubSeq(q, 1, m) \in Seq(S)
    BY <1>2, <1>3, SubSeqProperties
  <2>4. SubSeq(q, 1, m) \o <<>> = SubSeq(q, 1, m)
    BY <2>3, ConcatEmptySeq
  <2> QED BY <1>1, <2>1, <2>2, <2>4
<1> QED BY <1>3, <1>5, <1>6

\* The first elements of a sequence are none, and in the end all of them.
LEMMA StartEnds ==
  ASSUME NEW S, NEW q \in Seq(S), NEW n \in Nat
  PROVE  /\ Start(q, 0) = <<>>
         /\ Len(q) <= n => Start(q, n) = q
<1>1. PICK m \in Nat : m = Len(q)
  OBVIOUS
<1>2. SubSeq(q, 1, m) = q
  <2>1. /\ SubSeq(q, 1, m) \in Seq(S) /\ Len(SubSeq(q, 1, m)) = m
        /\ \A i \in 1..m : SubSeq(q, 1, m)[i] = q[i]
    BY <1>1, SubSeqProperties
  <2> QED BY <1>1, <2>1, SeqEqual
<1>3. m <= n => Start(q, n) = q
  <2>1. ASSUME m <= n PROVE (IF n <= m THEN n ELSE m) = m
    BY <2>1
  <2> QED BY <1>1, <1>2, <2>1 DEF Start
<1>4. Start(q, 0) = <<>>
  <2>1. Start(q, 0) = SubSeq(q, 1, 0)
    BY <1>1 DEF Start
  <2> QED BY <2>1
<1> QED BY <1>1, <1>3, <1>4

\* Its cards come out as they were read.
LEMMA CardsAgree ==
  ASSUME Fed, WindowAgrees, MinSamples <= WindowSize
  PROVE  SmoothHole = Latest.hole /\ SmoothBoard = Latest.board
<1>1. \A list \in Lists : Start(list, 0) = <<>>
                          /\ \A n \in Nat : Len(list) <= n => Start(list, n) = list
  BY ListsOfCards, StartEnds
<1>2. PICK q \in Lists : q = Latest.hole
  BY Alike DEF Dicts
<1>3. PICK r \in Lists : r = Latest.board
  BY Alike DEF Dicts
<1>4. Len(q) <= 2 /\ Len(r) <= 5
  <2>1. Len(q) = 2 /\ Len(r) \in {0, 3, 4, 5}
    BY <1>2, <1>3 DEF WindowAgrees, Complete, HoleSlots
  <2>2. Len(r) = 0 \/ Len(r) = 3 \/ Len(r) = 4 \/ Len(r) = 5
    BY <2>1
  <2>3. PICK m : m = Len(r)
    OBVIOUS
  <2>4. m <= 5
    BY <2>2, <2>3
  <2> QED BY <2>1, <2>3, <2>4
<1>5. \A n, m \in Nat : m = n + 1 => /\ Start(q, n) \o Slot("hole", m) = Start(q, m)
                                     /\ Start(r, n) \o Slot("board", m) = Start(r, m)
  BY <1>2, <1>3, SlotContinues
<1>6. <<>> \o Slot("hole", 1) = Slot("hole", 1) /\ <<>> \o Slot("board", 1) = Slot("board", 1)
  <2>1. Slot("hole", 1) \in Seq(BackedCards) /\ Slot("board", 1) \in Seq(BackedCards)
    BY SlotBacked
  <2> QED BY <2>1, ConcatEmptySeq
<1>7. /\ 0 \in Nat /\ 1 \in Nat /\ 2 \in Nat /\ 3 \in Nat /\ 4 \in Nat /\ 5 \in Nat
      /\ 1 = 0 + 1 /\ 2 = 1 + 1 /\ 3 = 2 + 1 /\ 4 = 3 + 1 /\ 5 = 4 + 1
  OBVIOUS
<1> DEFINE start(n) == Start(r, n)
           slot(n) == Slot("board", n)
<1>8. SmoothHole = Start(q, 2)
  <2>1. Start(q, 0) = <<>>
    BY <1>1
  <2>2. Start(q, 0) \o Slot("hole", 1) = Start(q, 1)
    BY Zenon, <1>5, <1>7
  <2>3. Start(q, 1) \o Slot("hole", 2) = Start(q, 2)
    BY Zenon, <1>5, <1>7
  <2>4. Slot("hole", 1) = Start(q, 1)
    BY Zenon, <1>6, <2>1, <2>2
  <2> QED BY Zenon, <2>3, <2>4 DEF SmoothHole
<1>9. SmoothBoard = Start(r, 5)
  <2>1. start(0) = <<>>
    BY <1>1
  <2>2. start(0) \o slot(1) = start(1)
    BY Zenon, <1>5, <1>7
  <2>3. start(1) \o slot(2) = start(2)
    BY Zenon, <1>5, <1>7
  <2>4. start(2) \o slot(3) = start(3)
    BY Zenon, <1>5, <1>7
  <2>5. start(3) \o slot(4) = start(4)
    BY Zenon, <1>5, <1>7
  <2>6. start(4) \o slot(5) = start(5)
    BY Zenon, <1>5, <1>7
  <2>7. <<>> \o slot(1) = slot(1)
    BY <1>6
  <2>8. SmoothBoard = slot(1) \o slot(2) \o slot(3) \o slot(4) \o slot(5)
    BY Zenon DEF SmoothBoard
  <2> HIDE DEF start, slot
  <2>9. SmoothBoard = start(5)
    BY Zenon, <2>1, <2>2, <2>3, <2>4, <2>5, <2>6, <2>7, <2>8
  <2> QED BY <2>9 DEF start
<1>10. Start(q, 2) = q
  <2>1. 2 \in Nat
    OBVIOUS
  <2> QED BY <1>1, <1>4, <2>1
<1>11. Start(r, 5) = r
  <2>1. 5 \in Nat
    OBVIOUS
  <2> QED BY <1>1, <1>4, <2>1
<1> QED BY <1>2, <1>3, <1>8, <1>9, <1>10, <1>11

\* Its amounts come out as they were read, and do not spread.
LEMMA AmountsAgree ==
  ASSUME Fed, WindowAgrees, NEW field \in Amounts
  PROVE  /\ Numbers(field) = Frames
         /\ SmoothAmount(field) = Latest[field]
         /\ Steady(field)
<1> DEFINE c == Latest[field]
<1>1. c \in Int /\ c # NoNumber
  BY Alike DEF WindowAgrees, Complete, Amounts, Dicts
<1>2. Numbers(field) = Frames /\ \A k \in Frames : Amount(field, k) = c
  BY <1>1, Alike DEF Numbers, Amount
<1>3. SmoothAmount(field) = c
  <2>1. Numbers(field) # {}
    BY <1>2, Alike
  <2>2. /\ Median(field) \in Int
        /\ \E k \in Numbers(field) : Median(field) <= Amount(field, k)
        /\ \E k \in Numbers(field) : Amount(field, k) <= Median(field)
    BY <2>1, MedianBetween
  <2>3. Median(field) = c
    <3>1. PICK m \in Int : m = Median(field)
      BY <2>2
    <3>2. m <= c /\ c <= m
      BY <1>2, <2>2, <3>1
    <3> QED BY <1>1, <3>1, <3>2
  <2> QED BY <2>1, <2>3 DEF SmoothAmount
<1>4. Steady(field)
  <2> DEFINE S == Frames
             Sum == MapThenSumSet(LAMBDA k : Amount(field, k), Numbers(field))
             Squares == MapThenSumSet(LAMBDA k : Amount(field, k) * Amount(field, k), Numbers(field))
  <2>1. ASSUME NEW e \in Int, NEW f, \A x \in S : f[x] = e, NEW g, Sums(g, S, f)
        PROVE  g[S] = WindowSize * e
    <3>1. g[S] = Cardinality(S) * e
      BY <2>1, Alike, SumOfEquals
    <3> QED BY <3>1, Alike
  <2>2. Sum = WindowSize * c
    <3> DEFINE Solves(g) == g = [s \in SUBSET S |->
                                   IF s = {} THEN 0
                                   ELSE Amount(field, AnyOf(s)) + g[s \ {AnyOf(s)}]]
               iter == CHOOSE g : Solves(g)
    <3>1. PICK f \in [S -> Int] : \A x \in S : f[x] = c
      <4>1. [x \in S |-> c] \in [S -> Int]
        BY <1>1
      <4> QED BY <4>1
    <3>2. \A s \in SUBSET S : s # {} => AnyOf(s) \in S
      BY DEF AnyOf
    <3>3. PICK g \in [SUBSET S -> Int] : Sums(g, S, f)
      BY Alike, SumExists
    <3>4. Solves(g)
      BY <1>2, <3>1, <3>2, <3>3 DEF Sums
    <3>5. Solves(iter)
      BY <3>4
    <3>6. Sum = iter[S]
      BY Zenon, <1>2 DEF MapThenSumSet, MapThenFoldSet, AnyOf
    <3> HIDE DEF iter
    <3>7. Sums(iter, S, f)
      BY <1>2, <3>1, <3>2, <3>5 DEF Sums
    <3>8. iter[S] = WindowSize * c
      BY Zenon, <1>1, <2>1, <3>1, <3>7
    <3> QED BY <3>6, <3>8
  <2>3. Squares = WindowSize * (c * c)
    <3> DEFINE Solves(g) == g = [s \in SUBSET S |->
                                   IF s = {} THEN 0
                                   ELSE Amount(field, AnyOf(s)) * Amount(field, AnyOf(s))
                                          + g[s \ {AnyOf(s)}]]
               iter == CHOOSE g : Solves(g)
    <3>1. PICK f \in [S -> Int] : \A x \in S : f[x] = c * c
      <4>1. c * c \in Int
        BY <1>1
      <4>2. [x \in S |-> c * c] \in [S -> Int]
        BY <4>1
      <4> QED BY <4>2
    <3>2. \A s \in SUBSET S : s # {} => AnyOf(s) \in S
      BY DEF AnyOf
    <3>3. PICK g \in [SUBSET S -> Int] : Sums(g, S, f)
      BY Alike, SumExists
    <3>4. Solves(g)
      BY <1>2, <3>1, <3>2, <3>3 DEF Sums
    <3>5. Solves(iter)
      BY <3>4
    <3>6. Squares = iter[S]
      BY Zenon, <1>2 DEF MapThenSumSet, MapThenFoldSet, AnyOf
    <3> HIDE DEF iter
    <3>7. Sums(iter, S, f)
      BY <1>2, <3>1, <3>2, <3>5 DEF Sums
    <3>8. iter[S] = WindowSize * (c * c)
      <4>1. PICK d \in Int : d = c * c
        BY <1>1
      <4>2. \A x \in S : f[x] = d
        BY <3>1, <4>1
      <4>3. iter[S] = WindowSize * d
        BY Zenon, <2>1, <3>7, <4>1, <4>2
      <4> QED BY <4>1, <4>3
    <3> QED BY <3>6, <3>8
  <2>4. \A n, a \in Int : 100 * (n * (n * (a * a)) - (n * a) * (n * a)) <= 9 * (n * a) * (n * a)
    <3> TAKE n, a \in Int
    <3>1. PICK p \in Int : p = n * a
      OBVIOUS
    <3>2. n * (n * (a * a)) = p * p /\ p * p >= 0
      BY <3>1
    <3>3. 9 * p * p = 9 * (p * p)
      OBVIOUS
    <3> QED BY <3>1, <3>2, <3>3
  <2>5. Cardinality(Numbers(field)) = WindowSize
    BY <1>2, Alike
  <2> HIDE DEF Sum, Squares
  <2>6. 100 * (WindowSize * Squares - Sum * Sum) <= 9 * Sum * Sum
    BY SMTT(20), <1>1, <2>2, <2>3, <2>4, Alike
  <2> QED BY Zenon, <2>5, <2>6 DEF Steady, Sum, Squares
<1> QED BY <1>2, <1>3, <1>4

\* Its seat comes out as it was read.
LEMMA SeatAgrees ==
  ASSUME Fed, WindowAgrees, MinSamples <= WindowSize
  PROVE  SeatsAgreed # {} /\ SmoothPosition = Latest.position
<1>1. Seated = Frames
  BY Alike DEF WindowAgrees, Complete, Seated
<1>2. \A k \in Frames : SeatBackers(k) = Frames
  BY <1>1, Alike DEF SeatBackers
<1>3. SeatsAgreed = Frames
  <2>1. \A j, k \in Frames : Cardinality(SeatBackers(j)) <= Cardinality(SeatBackers(k))
    BY <1>2, Alike
  <2>2. \A k \in Frames : Enough(Cardinality(SeatBackers(k)))
    BY <1>2, Alike DEF Enough
  <2> QED BY <1>1, <2>1, <2>2 DEF SeatsAgreed
<1>4. SeatsAgreed # {}
  BY <1>3, Alike
<1>5. PICK k \in Frames : k = CHOOSE i \in SeatsAgreed : \A j \in SeatsAgreed : i <= j
  <2> DEFINE First(i) == \A j \in SeatsAgreed : i <= j
  <2>1. 1 \in SeatsAgreed /\ First(1)
    BY <1>3, Alike
  <2> HIDE DEF First
  <2>2. (CHOOSE i \in SeatsAgreed : First(i)) \in SeatsAgreed
    BY <2>1
  <2> QED BY <1>3, <2>2 DEF First
<1>6. SmoothPosition = buffer[k].dict.position
  BY <1>4, <1>5 DEF SmoothPosition
<1> QED BY <1>4, <1>6, Alike

\* Nothing of it is in doubt.
LEMMA NoDoubt ==
  ASSUME Fed, WindowAgrees, MinSamples <= WindowSize
  PROVE  Doubts(Latest.hole, Latest.board) = {}
<1>1. \A field \in Amounts : AmountStable(field)
  <2> TAKE field \in Amounts
  <2>1. Numbers(field) = Frames /\ Steady(field)
    BY AmountsAgree
  <2> QED BY <2>1, Alike DEF AmountStable
<1>2. CardsStable("hole", HoleSlots) /\ CardsStable("board", BoardSlots)
  <2>1. ASSUME NEW field \in {"hole", "board"}, NEW i \in Nat \ {0}
        PROVE  Filled(field, i) = {} \/ Agreed(field, i)
    BY SlotAgrees
  <2>2. 1..HoleSlots \subseteq Nat \ {0} /\ 1..BoardSlots \subseteq Nat \ {0}
    BY DEF HoleSlots, BoardSlots
  <2> QED BY <2>1, <2>2 DEF CardsStable
<1>3. SeatsAgreed # {}
  BY SeatAgrees
<1>4. Len(Latest.hole) = 2 /\ Len(Latest.board) \in {0, 3, 4, 5}
  BY DEF WindowAgrees, Complete, HoleSlots
<1> QED BY <1>1, <1>2, <1>3, <1>4 DEF Doubts

LEMMA WindowReported ==
  ASSUME Fed, WindowAgrees, MinSamples <= WindowSize
  PROVE  Smoothed = [Latest EXCEPT !.confidence = Smoothed.confidence]
<1> DEFINE fields == [kind |-> "fields", value |-> 10]
           new == [Latest EXCEPT !.confidence = fields]
<1>1. SmoothHole = Latest.hole /\ SmoothBoard = Latest.board
  BY CardsAgree
<1>2. /\ SmoothAmount("pot") = Latest.pot /\ SmoothAmount("to_call") = Latest.to_call
      /\ SmoothAmount("stack") = Latest.stack
  BY AmountsAgree DEF Amounts
<1>3. SmoothPosition = Latest.position
  BY SeatAgrees
<1>4. Doubts(SmoothHole, SmoothBoard) = {}
  BY <1>1, NoDoubt
<1>5. Latest \in Dicts /\ Latest.uncertain = FALSE
  BY Alike DEF WindowAgrees, Complete, Dicts
<1>6. Smoothed = [Latest EXCEPT !.hole = Latest.hole, !.board = Latest.board,
                                !.pot = Latest.pot, !.to_call = Latest.to_call,
                                !.stack = Latest.stack, !.position = Latest.position,
                                !.confidence = fields, !.uncertain = FALSE]
  BY <1>1, <1>2, <1>3, <1>4, <1>5 DEF Smoothed
<1>7. Smoothed = new
  BY <1>5, <1>6 DEF Dicts
<1>8. new.confidence = fields
  BY <1>5 DEF Dicts
<1> QED BY <1>7, <1>8

\* Proves AgreementIsReported: when every reading of a full window is one and the same
\* complete dict, each slot has the whole window behind it, each median is the amount
\* itself and no amount spreads, whatever update has seen before.
THEOREM AgreementReported == SSpec => []AgreementIsReported
<1>1. Window => AgreementIsReported
  <2> SUFFICES ASSUME Window, WindowAgrees, MinSamples <= WindowSize
               PROVE  Smoothed = [Latest EXCEPT !.confidence = Smoothed.confidence]
    BY DEF AgreementIsReported
  <2>1. buffer # <<>>
    <3>1. Len(buffer) # 0
      BY SmootherAssumption DEF WindowAgrees
    <3> QED BY <3>1
  <2> QED BY <2>1, WindowReported DEF Fed
<1> QED BY <1>1, SmootherReads, PTL


-----------------------------------------------------------------------------
(* The hand machine behind the smoother: it need not know where its readings *)
(* come from, only that their boards have a length.                          *)

\* A board is typed as a list, whatever lists of cards the dict holds.
LEMMA BoardComes ==
  ASSUME NEW d, NEW S, d.board \in Seq(S)
  PROVE  Len(FrameOf(FromRaw(d)).board) \in Nat
<1> DEFINE hero == ValidCards(d.hole)
           read == ValidCards(d.board)
<1>1. FrameOf(FromRaw(d)).board
        = IF Range(hero) \cap Range(read) = {} THEN read ELSE Without(read, Range(hero))
  BY DEF FrameOf, FromRaw
<1>2. read \in Seq(S)
  BY DEF ValidCards
<1> HIDE DEF hero, read
<1>3. read \in Seq(Range(read))
  BY <1>2 DEF Range
<1> QED BY <1>1, <1>2, <1>3, WithoutAdds

\* The dict that reaches ingest has a board, smoothed or not.
LEMMA PassedBoard == Fed => \E S : Passed.board \in Seq(S)
<1> SUFFICES ASSUME Fed PROVE \E S : Passed.board \in Seq(S)
  OBVIOUS
<1>1. Smoothed.board \in Seq(BackedCards)
  BY SmoothedFields, SmoothedCards
<1>2. Latest.board \in Seq(Range(Latest.board))
  <2>1. Latest.board \in Lists
    BY Framed DEF Dicts
  <2> QED BY <2>1, ListsOfCards
<1> QED BY <1>1, <1>2 DEF Passed

\* A tick is a call of ingest whose reading has a board of some length.
LEMMA TickIngests ==
  ASSUME Window, Tick
  PROVE  \E f : Len(f.board) \in Nat /\ Ingest(f)
<1>1. Fed'
  BY WindowMoves DEF Tick, Fed
<1>2. PICK d, f : d = Passed' /\ f = FrameOf(FromRaw(d)) /\ Ingest(f)
  BY DEF Tick
<1>3. \E S : d.board \in Seq(S)
  <2>1. (\E S : Passed.board \in Seq(S))'
    BY <1>1, PassedBoard, PTL
  <2> QED BY <1>2, <2>1
<1>4. Len(f.board) \in Nat
  BY <1>2, <1>3, BoardComes
<1> QED BY <1>2, <1>4

LEMMA SmoothedShapes == SSpec => [](Window /\ Shaped)
<1>1. SInit => Shaped
  <2> SUFFICES ASSUME SInit PROVE Shaped
    OBVIOUS
  <2>1. log \in Seq({})
    BY DEF SInit, Init
  <2> QED BY <2>1 DEF SInit, Init, Shaped
<1>2. Window /\ Shaped /\ [SNext]_svars => Shaped'
  <2> SUFFICES ASSUME Window, Shaped, [SNext]_svars PROVE Shaped'
    OBVIOUS
  <2>1. CASE UNCHANGED svars
    BY <2>1 DEF svars, vars, Shaped
  <2>2. CASE SNext
    BY <2>2, TickIngests, ShapeStep DEF SNext
  <2> QED BY <2>1, <2>2
<1> QED BY <1>1, <1>2, SmootherReads, PTL DEF SSpec

\* Within a hand the boards reported as stable grow, also when they are votes over a
\* window that mixes hands, frames and emptied readings.
THEOREM SmoothedBoardsGrow == SSpec => []StableBoardsGrow
<1> DEFINE IInv == StableBelowBoard /\ StableBoardsGrow
<1>1. SInit => IInv
  BY DEF SInit, Init, StableBelowBoard, StableBoardsGrow
<1>2. Window /\ Shaped /\ IInv /\ [SNext]_svars => IInv'
  <2> SUFFICES ASSUME Window, Shaped, IInv, [SNext]_svars PROVE IInv'
    OBVIOUS
  <2>1. CASE UNCHANGED svars
    BY <2>1 DEF svars, vars, StableBelowBoard, StableBoardsGrow, StableAt
  <2>2. CASE SNext
    BY <2>2, TickIngests, GrowStep DEF SNext
  <2> QED BY <2>1, <2>2
<1> QED BY <1>1, <1>2, SmoothedShapes, PTL DEF SSpec

\* Behind the smoother too, hand_id is the number of usable readings whose ranks are not
\* those of the usable reading before.
THEOREM SmoothedHandIdCounts == SSpec => []HandIdCountsRankChanges
<1>1. SInit => CountsChanges
  BY CountsAtFirst DEF SInit
<1>2. Window /\ Shaped /\ CountsChanges /\ [SNext]_svars => CountsChanges'
  <2> SUFFICES ASSUME Window, Shaped, CountsChanges, [SNext]_svars PROVE CountsChanges'
    OBVIOUS
  <2>1. CASE UNCHANGED svars
    BY <2>1 DEF svars, vars, CountsChanges, TracksLastUsed
  <2>2. CASE SNext
    <3>1. PICK f : Len(f.board) \in Nat /\ Ingest(f)
      BY <2>2, TickIngests DEF SNext
    <3> QED BY <3>1, CountStep DEF CountsChanges
  <2> QED BY <2>1, <2>2
<1>3. Shaped /\ CountsChanges => HandIdCountsRankChanges
  BY ChangesCounted DEF CountsChanges
<1> QED BY <1>1, <1>2, <1>3, SmoothedShapes, PTL DEF SSpec

\* With a quorum of one the confirmed state is the tracked hand's on its longest board,
\* also when it is a consensus that no camera frame showed.
THEOREM SmoothedConfirmedCurrent == SSpec => []ConfirmedIsCurrent
<1>1. SInit => ConfirmedIsCurrent
  BY DEF SInit, Init, ConfirmedIsCurrent
<1>2. Window /\ Shaped /\ ConfirmedIsCurrent /\ [SNext]_svars => ConfirmedIsCurrent'
  <2> SUFFICES ASSUME Window, Shaped, ConfirmedIsCurrent, [SNext]_svars
               PROVE  ConfirmedIsCurrent'
    OBVIOUS
  <2>1. CASE UNCHANGED svars
    BY <2>1 DEF svars, vars, ConfirmedIsCurrent
  <2>2. CASE SNext
    BY <2>2, TickIngests, CurrentStep DEF SNext
  <2> QED BY <2>1, <2>2
<1> QED BY <1>1, <1>2, SmoothedShapes, PTL DEF SSpec
=============================================================================
