# A TLA+ development of POKER-AI

The repository holds a real-time poker assistant (`src/poker-assistant`): it
looks at a poker table through a screen reader, cleans up what it saw, decides
whether it may speak, asks a game-theoretic engine for an action and shows it in
an overlay window. It also holds the multi-street CFR trainer
(`src/poker-cfr-python`) and, beside these two, copies of other people's
projects (`src/external-poker-ai`, `src/repo-analysis/*`) that they were
developed from. This development models the two programs of the repository
itself; the copies are listed and left alone.

## 1. Inventory

### The pipeline of the assistant

    extractor --> temporal smoother --> hand FSM --> confidence gate --> engine --> overlay queue --> window
    (screen, LLM)  (optional)           (PokerState)  (uncertainty)      (charts, CFR, equity)

One worker thread runs the pipeline once per `interval` (`ui/controller.py`,
`_loop` and `_tick`). The window belongs to the Tk main thread, which polls a
queue every 100 ms (`ui/overlay.py`). In manual mode a command-line thread
replaces the screen reader and shares one field with the worker. A Jev audit (a
remote model that criticises the stated advice) runs in threads of its own.

| component | state it keeps | operations | what is hard |
|---|---|---|---|
| Hand state machine, `state/machine.py` | candidate reading and its count, confirmed state, hand id, hero ranks, street, longest board | `ingest` (five ways out) | which hand an answer belongs to after lost, unsure, shrinking or misread frames |
| Table state, `state/models.py` | none (a frozen dataclass) | `from_raw_dict`, `legal_actions`, `fingerprint`, `to_dict` | degradation of invalid fields: clamps, duplicates, overlaps, and what still counts as valid |
| Temporal smoother, `vision/temporal_smoother.py` | window of raw readings | `update` | slots voted one by one; readings shared by reference |
| Confidence gate, `ui/confidence_gate.py` | none | `confidence_block_reasons` | which uncertainty survives the conversions before it |
| Controller, `ui/controller.py` | running flag, worker thread, manual state, last state | `start`, `stop`, `_loop`, `_tick` | what the window shows after an exception, a lost frame, a stop |
| Overlay, `ui/overlay.py` | update queue, the five labels, root window | `update`, `_poll_updates`, `_do_update`, `close` | partial updates, dropped updates, the closing window |
| Jev auditor, `vision/jev_decisions.py` | running flag, last report, time of the last check, lock | `maybe_check_async`, the worker, `attach` | at most one worker, spacing of the checks, a report that outlives its hand |
| LLM extractor, `vision/llm_vision_extractor.py` | cached reading, consecutive skips, time of the last call, last hole key, position, button seat, suit votes | `extract`, `_should_skip`, `_position_from_button`, `_apply_hand_suit_memory`, `_post_with_retry` | caches keyed by ranks or by nothing, mutated in place, retries |
| Extractors, `vision/state_extractor.py` | hybrid: position cache and its time | `extract` of four sources | partial failure of one of two sources |
| Card detector, `vision/yolo_detector.py` | model, availability flag | `detect_cards`, `_predict` | lazy loading behind the flag that loading sets |
| Consistency, merging: `vision/consistency_checker.py`, `vision/confidence_merger.py` | none | `check`, `merge` | index alignment of lists of different lengths |
| Seat layout and local table: `vision/seat_layout.py`, `vision/local_table_state.py` | none | geometry and OCR of stacks | pure image work |
| Engine, `engine/assistant_engine.py` | loaded strategies | `recommend` and its abstractions of the betting history | a chain of overrides, each correct alone |
| Preflop charts, `engine/preflop_charts.py` | tables | `preflop_advice` | shorthand ranges, positions without an entry |
| Betting trees, `engine/preflop_holdem.py`, `engine/postflop_holdem.py` | history, cards | `is_terminal`, `actions`, `player`, `terminal_utility` | terminal utility read off the history by position |
| CFR core, `engine/base.py` | regrets, strategy sums | `vanilla_cfr`, regret matching, `solve` | counters at zero |
| Equity and outs: `engine/equity_service.py`, `engine/outs_calculator.py`, `engine/abstraction.py` | caches | Monte-Carlo equity, draw counting | sampling, card combinatorics |
| Multi-street CFR, `poker-cfr-python` | game state, regret nodes, preflop equity file | betting rules, `cfr`, best response, `play_game` | zero-sum payoffs, best response of the second player |

### What makes each component correct

* Hand FSM: a stable answer rests on a quorum and belongs to the hand whose id it
  carries; boards of one hand grow; hand ids advance exactly with the ranks; a
  table read correctly is eventually reported as it is.
* Table state: whatever the raw dict, the state is safe to act on (no duplicate
  card, no call larger than the stack), or it says that it is not valid.
* Controller and overlay: the action on the window is the one of the newest tick,
  or the window says WAIT; every decision shown passed the gate.
* Jev: at most one audit in flight, successful audits at least an interval apart,
  the flag is released on every path, a report is about the hand it is shown with.
* LLM extractor: a reading never mixes two hands (cards, position, button, suits).
* Engine: the advice is legal for the state it was computed from.
* Betting trees and CFR: every line ends, payoffs are zero-sum, the player to act
  alternates, a best response is at least as good as the strategy it answers.


## 2. Modules and how they compose

| module | role | extends / instantiates |
|---|---|---|
| `HandFsm` | the hand machine, one action per way out of `ingest` | |
| `TableTracking` | `HandFsm` behind a dealer and a camera that misreads | extends `HandFsm` |
| `PokerState` | operators: raw dict to typed state to dict | |
| `Advice` | one tick from the raw dict to "ask the engine" | extends `HandFsm`, `PokerState` |
| `Assistant` | worker, queue, window, stop | |
| `AuditSlot` | abstract specification of the auditor | |
| `JevAuditor` | the auditor's threads | instantiates `AuditSlot` |
| `Tally` | operators: a dict of vote counts in insertion order | |
| `VisionReader` | the memory of the LLM extractor | extends `Tally` |
| `TemporalSmoother` | the window of raw dicts and the consensus made of it | |
| `SmoothedAdvice` | the tick with the smoother before the hand machine | extends `Advice`, `TemporalSmoother` |
| `PreflopHoldem`, `PostflopHoldem`, `MultiStreetGame` | operators: the three betting trees, as functions of a history | |
| `BettingGame` | a line of one of the trees, walked to its end beside a dealer's count of the chips | instantiates the three trees |
| `BestResponse` | operators: the value of a strategy and of the best answer to it | extends `BettingGame` |
| `EngineChoice` | operators: what the engine may answer for a dict | instantiates `PostflopHoldem` |
| `AdvisedAction` | the tick to its end: what the window is told to say | extends `Advice`, `EngineChoice` |
| `HybridExtractor` | the hybrid extractor's cache and its two questions to the remote model | |
| `HandFsmProofs`, `AssistantProofs`, `JevAuditorProofs` | theorems | each extends the module it is named for |
| `TrackingProofs` | theorems about the machine at the table | extends `TableTracking`, `HandFsmProofs` |
| `AdviceProofs` | theorems about what is advised on and said, with the smoother and without | extends `AdvisedAction`, `SmoothedAdvice`, `HandFsmProofs`, `FoldProofs` |
| `ExtractorProofs` | theorems about the LLM and the hybrid extractor | extends `VisionReader`, `HybridExtractor`, `FoldProofs` |
| `BettingProofs` | theorems about the three betting trees and the best response | extends `BestResponse`, `FoldProofs` |
| `FoldProofs` | lemmas about folds, sums over sets, greatest and least numbers, recursion and induction on a rank | |
| `MC...` | small instances for TLC | each extends the module it is named for |

A definition marked "Faulty variant" or "Mutant" stands before the definition it
would replace. It is never used by a specification; `PROJECT.json` ("mutants")
says which property each of them breaks.

### How state and actions correspond to the code

**HandFsm.** The variables are the fields of `HandStateMachine` under their own
names (`candidate` and `count` for `_candidate_state` and `_candidate_count`; the
candidate's fingerprint is a function of the candidate, so it has no variable).
`Ingest(f)` is one call of `ingest`; its five disjuncts are the method's five
ways out, in the order of its tests: `IngestNoHand`, `IngestLowConfidence`,
`IngestShrink`, `IngestPending`, `IngestStable`. The effect of a new hand, a reset
of candidate and board length in the middle of the method, is folded into
`BoardFloor`, `HandIdOf` and `SameAsCandidate`; it takes effect only on the paths
that go on to accept, because an empty floor refuses nothing. A reading is a
record of what the machine compares: ranks, board, confidence test, one `view` for
the other fields of the fingerprint and one `marks` for the fields outside it. A
history variable `log` pairs every reading with its answer.

**TableTracking.** The dealer (`NextStreet`, `NextHand`) and the camera
(`ReadTruly`, `ReadDisturbed`) are the environment; each reading is one `Ingest`.
Disturbances are the five that the machine's docstring and guards are about: cards
lost, confidence lost, a board read too short, other ranks, a board read too long.
Before the next hand the table was read truly at least once.

**PokerState, Advice.** `FromRaw` is `from_raw_dict` in full: cards that do not
parse or repeat void their list, board cards in hand are dropped, numbers default
and clamp in the code's order, and blocking errors are kept. `ToDict` is `to_dict`,
with the overall confidence written over the confidence per field, as the code
does. `Advises` is the chain of early returns in `_tick`: the answer's reason,
validity, the small-blind fallback and the gate. A tick is one step of `HandFsm`,
and what it shows is a function of that step's answer, so `Advice` has no variable
of its own; `FrameOf` and `StateOf` convert between a typed state and a frame.

**Assistant.** Two threads and an outsider. The worker: `Fetch` (the `while
self._running` test and the fetching of the state), `NoState`, `Conclude`, `Fail`
(an exception in the tuple `_loop` catches), `Die` (one outside it), `Wake`. The
main thread, as `_poll_updates` is written: drain with `get_nowait` until empty,
read `qsize`, discard above the limit, put the last payload back; each access to
the queue is one step, because the worker runs between any two of them. Stop and
close: `StopRequested`, `StopCloses`, `Destroy`, `UserCloses`. The join in `stop` is
not among them, because it is never reached: only the command line calls `stop`, and in
manual mode `main.py` starts the loop in a thread of its own, so `_thread` is None. A
payload whose action is `None` is a failed tick's and moves only the status label, which
then shows an error (`failed`). `concluded` is history: what the last tick that did not
fail put on its way to the window.

**JevAuditor.** The two `with self._lock` blocks are one step each (`Skip`/`Claim`
and `Release`); the clock is read before the lock is taken (`Enter`); the worker's
writes outside the lock are steps of their own (`Publish`, `RecordTime`).
`check[w].begun` and `.timed` are history: the clock when the check was decided on,
and the time it recorded. The assistant calls from its one loop thread, so what runs
concurrently in the program is that thread and the workers; the instance's second
caller is more general than the program.

**VisionReader.** `Skip`, `CallFails` and `CallAnswers` are the three ways out of
`extract` that change anything; an answer repeated within the cooldown is a
stuttering step. `CallAnswers` does all the call does: normalise the reading, cast
its votes (`Remember`), put the winners in place unless a card would appear twice
(`Merges`), choose the seat (`SeatFor`, `PositionFromButton`), replace the cache.
The hole is a set of two cards (the code sorts it), the board a sequence, a vote
count a `Tally`: a Python dict whose order decides ties in `max`. What the remote
model and the local image work read is external: any one suit misread or
unreadable in the hole and one in the board, no hole at all, any seat or none.

**TemporalSmoother, SmoothedAdvice.** `buffer` is `_buffer`, oldest first. An entry
is a dict and whether it is the one object that the extractor keeps handing out:
`UpdateFresh` appends a new dict, `UpdateRepeated` the same one again (the frame did
not change within the cooldown), and `UpdateEmptied` the same one after the
extractor emptied it in place, which empties every entry that is it. `Smoothed` is
the dict `update` returns: one vote per card slot with the code's preference for the
leading card (`Agreed`), a median per amount (`Median`, of two readings the mean,
truncated as the typing does), the seat, and the doubts it adds. Left out are three
branches that no extractor reaches: a dict without the key `stack` or `position`
(`temporal_smoother.py:69`, `:242`), and a confidence that is a number, which `dict()`
would refuse (line 81; `ConfidenceAssumption`). `Tick` is one call
of the controller: smoother if `enabled`, typing, hand machine, gate.

**BettingGame, BestResponse.** A tree is a set of operators on a history, because
that is all the code keeps. `Act` appends an action of the player to act, `Deal`
appends what chance gives or goes to the next street. Beside the history the module
counts chips as a dealer would (`chips`, `matched`), and notes who folded and who has
acted since cards came; the properties compare the two. `ValueOfStrategy` and
`ValueOfResponse` follow `exploitability.py` recursion by recursion, for one hand
whose winner is fixed: recursive functions on `Positions`, a history and the street
being played, which is what the code's recursions are called with. The code's values
are floating point; here a weight is a number of parts of `One` and a chip is worth
`Scale`, which keeps the values whole.

**EngineChoice, AdvisedAction.** `Recommended` is the chain of `recommend`: the
chart or the trained strategy (any of their tokens), the translation into amounts,
the value bet, the cap, the pot odds, no check facing a bet. `Spoken` adds the
controller's last word. What depends on the particular cards is left open, so that
the result is the set of actions that may be said for a dict; the equity is any of
`Equities`. An exception is an answer of its own.

**HybridExtractor.** `Extract` is one call of `extract`: a local reading, the
question for the seat if it is missing and due, the consistency check with the seat
in force, the question for the whole table if the check fails and the time to live
has passed, and the merge. Either question may fail. `ExtractRaises` is a call that ends
in an exception it does not catch and returns nothing, possibly after a seat was
learned. `SetPosition` is the seat set by hand, `Wait` the clock. `cached_at`, `answers` and the fields of `out` that
say what was asked are history.

## 3. What the runs check

| run | instance | properties |
|---|---|---|
| `tracking` | quorum 2, 3 hands, 5 readings, all five disturbances | `TracksTheTable`, `HandIdFollowsTable`, `QuorumBehindStable`, `ChangedMarksNews` |
| `assistant_backlog` | backlog limit 1, queue of 3, 2 versions, every outcome, stop and close anywhere, fairness | `TypeOK`, `StopEnds` |
| `assistant_live` | the code's limit of 10, queue of 3, 2 versions, every outcome, fairness | `DrawnIsNewest`, `ActionOutlivesOnlyFailures`, `ShownNeverGoesBack`, `TableReachesWindow` |
| `auditor` | 2 callers, 2 checks, interval 2, `Thread.start` may raise, fairness | `TypeOK`, `OneCheckAtATime`, `SuccessesAreSpaced`, `ReportsSeenAdvance`, `ImplementsSlot`, `FlagIsReleased` |
| `advice` | quorum 1 and confidence 0.3 (the controller's), sequences of 4 out of 19 kinds of raw dicts, four equities | `AdviceIsSound`, `AdviceFitsTheReading`, `AdviceHasCleanWitness`, `ActionAnswersTheTable`, `RaiseBeatsTheCall`, `BetFitsTheStack` |
| `smoothing` | smoother on or off, window of 3, 2 frames required, quorum 1 (the controller's), 5 ticks over 8 raw dicts, one of them without a call, repeated or emptied | the hand machine's `TypeOK`, `StableBoardsGrow`, `HandIdCountsRankChanges`, `ConfirmedIsCurrent`; `AdvisedCardsShareAFrame`, `AdvisedAmountsWereRead`, `AgreementIsReported` |
| `vision_reader` | 3 hands, 2 suits, preflop and flop, 2 seats, 3 votes per hand, skip limit 1 | `VotesAreOfOneHand`, `MajorityIsReported`, `PositionOfFirstSighting` |
| `hybrid` | three seats, time to live 2, nine ticks, every local reading, every answer, failure and exception | `AnswersAreSpaced`, `OldSeatsHaveAnExcuse`, `SeatDoesNotFlap` |
| `betting` | every line of the three trees (the multi-street game with 2 streets), every strategy of two weights, fairness | `SettlesInChips`, `BetsAreMatched`, `EverybodyActs`, `ResponseIsBest`, `EveryLineEnds` |
| `assistant_overtaken`, `advice_unreadable`, `best_response` | refutations, see below | `ShownNeverGoesBack`, `UnreadableIsNotAdvised`, `DeviatingNeverCosts` |

What they say together: a stable answer of the machine stands on a quorum of equal
readings of one hand, its boards grow, its id counts the hands, and, unless the
board was once read too long, enough true readings bring the true table back. With
the smoother on, no advice joins cards of two frames, no amount is advised on that
lies outside those read (but for a call of nothing and an empty pot, when the window
has no number), and a window that agrees is reported as it is. The engine
is asked only about a sound state that is the state just read, and only when a clean
reading of it stands in the same streak; whatever charts, strategy and equity say,
the action said is one the table allows, a raise is more than the call and a bet
fits the stack, with the exceptions the properties name. While the queue stays short
the window never goes back in time, loses nothing, shows each table that is not
overtaken, and keeps an older table's action only beside an error; a stop ends worker
and window, whatever the queue holds. One audit runs at a time. The LLM extractor's suits are those most often read in this hand, and its
position stands for the hand; the remote model answers the hybrid extractor at most once
in a time to live (failed questions are not spaced), its seat does not flap, and an old
seat has an excuse. The three betting trees end, close no street on an open bet or over a
player's head, and settle in the chips the players put in, folds before the flop
excepted; a best response is best for the first player.

### Bounds, and why they are enough

* `MaxFrames` (5 in `tracking` and `smoothing`, 4 in `advice`). The machine forgets
  everything but one candidate, one count and one confirmed state. A quorum (2), a
  disturbance, and a quorum again take 5 readings; with a quorum of one, two hands with
  a refused reading between take fewer. `advice` and `smoothing` take the quorum of one
  that the controller builds the machine with, `tracking` the machine's default of two.
* Boards: one per length that changes a street, with a second flop so that equal
  lengths with other cards occur. `Ranks`: two, so that a hand can come back.
* `BacklogLimit`: 10 in the code. `assistant_backlog` takes 1, so that the
  discarding and the putting back happen with a queue of 3. `assistant_live` keeps 10
  with a queue of at most 3: it checks the ordinary case, which its theorems state as
  `MaxQueue <= BacklogLimit`. `assistant_overtaken` takes 10 and a queue of 12, to
  see the backlog itself.
* `MaxVersions` 2: an old and a new table are what the window's properties compare.
* `Workers` 2, `MaxTime` = `Interval`: one check after another, decided early,
  late or at the very end of the interval.
* `SkipLimit` 1 for 20, `MaxReads` 3 votes: two votes decide, the third is the
  misreading. The theorems about the extractor hold for all of these constants.
* `Seats` are model values that are only compared, hence the symmetry set; that
  run checks invariants only.
* `WindowSize` 3, `Required` 2, `MinSamples` 2: the values of the shipped configuration
  (`config.yaml:45`; half of three frames is reached by two of them).
  `AdvisedCardsShareAFrame` says in its premise that it needs more than half.
* `Ttl` 2, `MaxTime` 9: three times to live, so that a seat is learned, kept,
  outlived, asked for in vain and learned again. The theorems have no such bound.
* `Streets` 2 of the 4 in the code: a street that is followed and one that is the
  last. `MaxLength` 20 is longer than every line and never reached; `EveryLineEnds`
  would fail if it were. `Weights` {0, 1}, so that a strategy is either mixed half
  and half or never takes the first action; `best_response` takes all three
  weights on one street. `One` is 2 parts; `Scale`, 64 and 8, is divided by `One` once
  per decision and stays whole, with three decisions a street. `BestAnswer` is proved
  for all of them.
* `Equities` {20, 50, 75, 90}: too low for a call, enough for one, between the
  thresholds of a value bet, and above all of them.

Deadlock checking is off everywhere: the number of readings, versions, deals and
ticks of the clock is bounded, and a stopped program rests.

### Fairness

`Assistant` assumes weak fairness of the worker and of the poller (both are loops
driven by a timer: `time.sleep(interval)` and `root.after(100, ...)`), of
`StopCloses` (between clearing the flag and scheduling the destruction the stopping
thread waits for nothing, see the join above) and strong fairness of `Destroy`: the destruction is scheduled with `after(0)` and
Tk serves it between two polls, so it is enabled again and again rather than
always. Nothing makes the table change, anyone stop, or an uncaught exception
happen. `JevAuditor` assumes weak fairness of each worker once started (requests
have a timeout) and of a caller that has entered. Not of entering. `BettingGame`
assumes weak fairness of its next step: a trainer recurses until the line ends.

### Where code and text disagree

Each of these is a run that TLC refutes, with the text it refutes quoted in
`PROJECT.json` under "findings".

* `assistant_overtaken`: the payload kept from a discarded backlog is put back
  behind whatever arrived since, and drawn after it.
* `advice_unreadable`: errors are outside the fingerprint and the first reading of
  a streak is the one answered, so a board that cannot be read, degraded to none,
  confirms the preflop state and preflop advice is given.
* `best_response`: the second player's best response is searched with the first
  player's values, so that his reported gain is never positive and the total
  exploitability cancels.

Seen while modelling, and left in prose:

* A new hand with the ranks of the last one looks like the old hand with a shrinking
  board, and is refused although it is read truly; the constructor's
  `allow_board_shrink_on_new_hand` (`machine.py:42`) is never read.
* A tick that raises writes the status label only (`controller.py:117`); the advice
  beside it is an older tick's for as long as ticks fail. `ActionOutlivesOnlyFailures`
  says that this is the only way for it to be old. With a backlog there is another: only
  its last payload is kept (`overlay.py:118`), and if that is an error, the conclusions
  discarded before it never reach the window, which keeps an action from before them.
* Confidences per field are replaced by one overall value before the gate that was
  written to look at them (`models.py:182` and `:297` against
  `test_confidence_gate.py:35`).
* One board read too long freezes the hand: every true, shorter board is refused
  until the ranks change. `TracksTheTable` names this exception
  (`seen["long board"] < hands`).
* A board of 1 or 2 cards passes the machine as preflop.
* A failed audit does not record a time, so the next state asks again at once
  (`jev_decisions.py:216`); if `Thread.start` raises, `_running` stays set and no
  audit ever runs again. Hence `FlagIsReleased` speaks of a live worker.
* The suit votes are dropped when the *ranks* change; a hand with the ranks of the
  one that voted before it starts with that hand's suits. `MajorityIsReported`
  leaves these hands out by name (`inherited`). The docstring calls the reset
  complete, and the vote a majority: it is a plurality with at least two votes.
* A hand whose first reading has no button gets the previous hand's position.
* `position_override` is written by `_normalize_state` ("Config override takes
  precedence") and overwritten by `extract` with the button's.
* The hash that decides whether a frame changed covers the first row of a 32x32
  image (`llm_vision_extractor.py:656`).
* Smoother: a frame repeated within the cooldown is the same dict again and counts as
  one more frame, so one misread can make a consensus by itself, against the
  docstring (`temporal_smoother.py:3`). A changed call is outvoted by two frames of the
  old one, and marked only if the amounts spread. The first consensus of a streak keeps its mark
  of uncertainty until the fingerprint changes, so a streak that began unsure is
  refused for as long as it lasts. A median of two may be an amount nobody read. An
  upstream mark without reasons is cleared. A call that no frame shows is no error, so
  a call of nothing, confirmed earlier, is still advised on after a whole window in
  which no call was read.
* Hybrid extractor: a local seat does not refresh the cached one; a failed question
  is asked again in the next frame, twice per frame if both fail; the merged state is
  not checked again, and its hole and board may come from two readings.
* Engine: with a big blind of 1 (the command line accepts `bb=1`) half of it is 0 and
  the pot is divided by it (`assistant_engine.py:605`); `ZeroDivisionError` is not in
  the tuple `_loop` catches, so the worker dies (`Die` in `Assistant`).
  `ActionAnswersTheTable` names this answer. A raise may be at most the call when pot
  or stacks are not read or all is in; a fold promoted in late position (only without
  the equity data set) becomes an opening raise even facing a raise; short stacks are
  told 2 or 2.5 big blinds.
* Charts: `_expand` knows `77+` and `A9s+` but no dashes; `"22-TT"` or `"K2s-KJs"`
  stays one string that no hand equals, so that most of the calling ranges of CO, BTN,
  SB and BB (`preflop_charts.py:81` to `:93`) are empty and 99 folds to a raise there.
* Preflop tree: the branch of `terminal_utility` that would add the bet a fold answers
  (`preflop_holdem.py:172`) is dead, since two tokens follow the fold.

## 4. What is proved

All theorems hold for every value of the constants that satisfies the named
assumptions (`ConstantsAssumption`, `ReadingsAssumption`, `TableAssumption`,
`AssistantAssumption`, `AuditorAssumption`, `ReaderAssumption`, `AdviceAssumption`,
`RawsAssumption`, `SmootherAssumption`, `NumbersAssumption`, `ConfidenceAssumption`, `HybridAssumption`,
`GamesAssumption`, `ValuesAssumption`, `DealsAssumption`), which TLC evaluates on every instance.

**FoldProofs.** The code adds up with `sum`, `max` and loops, the model with the folds of
the community modules, which are recursive functions on the subsets of a set or on the
lengths of a sequence. tlapm cannot instantiate an induction theorem; a set of numbers
without a least element says the same as a statement about sets, and with that the module
proves that such a function exists (`FoldExists`, `RunExists`), that two that take the same
steps agree, what one more element adds (`RunGrows`, `SumShifts`), and what the sum of
equal numbers is (`SumOfEquals`). The other modules unfold an operator such as
`FoldLeft` once and cite these. The same argument on a bounded rank gives the recursions
over the tree of histories: a recursion whose steps ask for lower ranks only is defined
(`RecursionExists`), and what holds of a place whenever it holds of all lower ones holds of
all (`RankInduction`).

**HandFsmProofs.** `TypeCorrect`. `BoardsGrow`: `StableBoardsGrow` compares two entries
of the log, which says nothing about the next one; it is inductive together with
`StableBelowBoard`, that the id of no stable answer exceeds `hand_id` and the boards
answered under the current id are no longer than `board_len`. `ConfirmedCurrent`:
inductive with type correctness, since with a quorum of one every accepted reading is
confirmed in the same call. `ChangedNews`: the link between the log and the machine is
`ConfirmedIsLastStable`, that the confirmed state is the last stable answer.
`QuorumHolds`: `QuorumBehindStable` speaks of readings that the machine has forgotten;
the link is `Standing`, that `count` readings of the log, all with its fingerprint,
stand behind the candidate, and that it is the first of them. `HandIdCounts`: the id is
the number of log entries at which the ranks changed, together with `TracksLastUsed`,
that the machine's ranks are those of the last reading it took. The steps of `BoardsGrow`,
`ConfirmedCurrent` and `HandIdCounts` are lemmas that ask of a reading only that its board
has a length, and of the state only its `Shaped` part, so that they serve wherever a
reading comes from.

**TrackingProofs.** `TableDrivesMachine`, `TSpec => Spec`: at a table, too, the machine is
the machine of all readings, so that `QuorumBehindStable` and `ChangedMarksNews` carry over
(`TableQuorum`, `TableNews`). `TableTracked` and `HandsCounted` join the dealer's state to
the machine's. Beside the shape of the table their invariant has four parts: once the hand was read truly the machine
has its ranks (`Followed`); its board is then no longer than the table's unless one was
read too long in this hand (`Floor`); the candidate has counted the true readings of this
table that came in a row (`Streak`); and, as long as no ranks were misread, hand ids lag
behind the dealer by at most the hand not yet read (`Lag`). Both theorems have the hypothesis `~RepeatRanks`, that hands which
follow each other differ in their ranks: otherwise the board length of the old hand stays in
force, true readings are refused as a shrinking board, and neither property holds.

**AdviceProofs.** `AdviceFits` and `AdviceWitnessed` follow from the quorum theorem: what
is advised on is the candidate of a streak, all of whose readings have its
fingerprint, hence its cards and amounts. The second needs `NothingInferred`: a call
that was inferred rather than read is marked, and the gate stops it. `AdviceSound` goes
back to that reading, the typed state of some dict (`FramesRead`, `AskedTyped`), which the
way through the machine does not change (`StateSurvives`); a valid typed state has no card
twice, because its board is then the board read (`ValidBoard`).
`ActionAnswers`, `RaiseBeats` and `BetFits` rest on one lemma, `Said`, which follows the chain
of overrides of `recommend` from the chart or strategy to the controller's last word and
lists what can come out, with the amounts; dicts are typed, and no chart, strategy or
equity is assumed beyond its alphabet.

With the smoother: the window holds dicts that were read or emptied (`Window`), and the
last reading of the log is the consensus of the window as it is now; a stable answer
shows the cards and amounts of that reading, whatever the quorum (`LastRead`). `CardsShareAFrame`: each advised card has `Required` frames
behind it, and two majorities of one window share a frame. `AmountsWereRead`: a median
lies between two amounts of the window; that the ranks the code sorts by exist at all
is `EveryPlace`, that a finite total order has an element at every place.
`AgreementReported`: if the whole window is one complete dict, every slot has the window
behind it, the medians are the amounts, and the sums in the coefficient of variation are
n c and n c c, so that nothing spreads and nothing is doubted. `SmoothedBoardsGrow`,
`SmoothedHandIdCounts` and `SmoothedConfirmedCurrent` state the hand machine's own
properties behind the smoother, whose consensus need not be any dict that was read: a tick
is a call of ingest with some board of some length (`TickIngests`), and the step lemmas of
HandFsmProofs need no more.

**AssistantProofs.** `TypeCorrect`. `WindowNeverGoesBack`, `NothingIsLost` and
`StaleActionIsMarked` assume `MaxQueue <= BacklogLimit` and rest on `InOrder`: what the
window shows, the payloads in the queue from head to tail, the version being worked on
and the table form an ascending chain (`Ordered`), between two ticks the chain has no
gap (`Newest`), and the poller never discards (`NoBacklog`). `StaleActionIsMarked` adds
`LastWord`: the last conclusion is drawn already or waits in the queue, with only errors
behind it (`Drawn`, `Queued`), and a reading that led to none has left an error as the
last in line (`ErrorLast`). Without the assumption the first is false
(`assistant_overtaken`), and so is the third, for the backlog that ends in an error.

**JevAuditorProofs.** `TypeCorrect`; `OneCheck` from `Held`, which adds to the
property that a caller about to start its thread also holds the flag; `Refinement`,
`Spec => Slot!Spec`, from `InStep`: a check in flight, or about to start, is about
no older table than the report (`Fresh`), which needs that a caller whose state is
older than the report is not due, since it read the clock before the report's time
was recorded (`Overtaken`). Each step of the auditor is a step of `AuditSlot` or a
stutter. `SeenAdvance` from the same invariant and `Behind` (no caller saw a report that the
auditor does not have yet). `Spaced`: successes are at least an interval apart because
the time last recorded is the latest (`Ages`) and whoever is starting or asking
was decided at least an interval after it (`Apart`); `Held` keeps others from
recording meanwhile.

**ExtractorProofs.** For the LLM extractor, lemmas about a dict of votes: casting adds one
to one key and keeps the rest, the leader exists, was voted for and has the most
votes (`LeaderLeads`, by the least natural number with the property), and a key
strictly ahead of all others is the leader. On these rest `VotesOfOneHand`,
`TrueMajority` and `PositionStands`, from one invariant of six parts: the shape of
the table and the memory, `ThisDeal` (the memory's votes are those counted since
the deal, unless the hand inherited its ranks) and `Place` (the seat in force is the
one first seen with the hole in force).

For the hybrid extractor, `Spaced`: `asked` bounds the time of every answer, a question is put
only when that is more than a time to live ago, and the first answer of a frame moves it
to now, so that one frame records at most one. `Excused` looks at one frame: if the seat
it reports is too old, it was not learned in this frame, so either the question was put
and failed, or it was not due, because an answer that taught no seat had moved `asked`.
`Steady`: without a seat of its own and without an answer, a frame reports the cached
seat (`ReportsCache`), which only answers and the user change.

**BettingProofs.** `Matched` and `BothAct` hold for any number of streets and lines of
any length. The properties speak only of the ends of streets; the invariant `BInv` says what
the chips and the players are at every point: for the multi-street game, by the seven
lines a street can have without a fold; before the flop, that chips are level unless a
raise is the last word and both have acted from the second action on; after it, that
whoever spoke last has acted, which needs that turns alternate within a street
(`TurnsPass`), since the code derives the player from the distance to the last "/".
`Settles` adds `Counted`, that what the code reads off the history runs along with the
dealer's chips at every point of a line: in the multi-street game the investments are the
chips (`Costs`); before the flop the fold's stage and bet are the pot and the open bet;
after it the pot is what went in on the streets closed and on this one, and after a fold the
bet found three actions back is the one that was not paid. At the end of a line the
payoffs follow by arithmetic, for each of the ways a line can end.

`BestAnswer` is about the two recursions of `exploitability.py`, for any number of streets,
any winner, any strategy and any weights. The rank of a position is its `Distance` from the
end of the hand, and both recursions ask only for positions nearer to it (`Moves`), so their
values exist and are numbers (`StrategyValued`, `ResponseAnswered`). By induction on the
rank the response is worth no less than any plan that follows the strategy at the other
player's turns (`ResponseBounds`, since a mixture of two values moves with them), and on the
last street one plan reaches it (`LastAttained`): the one that does at each key what the
response finds best there, which is one plan because on the last street the key determines
the position. Every line that is played is one the recursions go through (`OnTree`).

## 5. What is only model-checked

* Liveness: `TableReachesWindow`, `StopEnds`, `FlagIsReleased`, `EveryLineEnds`. TLAPS
  does not prove liveness under fairness.
* `TypeOK` in the run `smoothing`. It is a theorem of the machine for readings from the set
  `Readings`; behind the smoother it would need constants closed under voting and medians.
  Proved there is the part that the other theorems use (`SmoothedShapes`).
* That the properties of `runs` marked as violations fail: a counterexample is TLC's.

## 6. What is not modelled

`PROJECT.json` lists every component with its reason. In short: image processing, OCR,
neural networks and geometry compute a reading from a picture and keep nothing; equity,
outs and card abstraction are sampling and combinatorics over 52 cards; regret matching
is floating point; calibration and training scripts are run by hand; `external-poker-ai`
and `repo-analysis` are copies of other projects, about 100000 of the repository's
119000 lines of implementation; nothing in the two programs imports them, and they stay
out whatever their size. Seat layout, local table reading and card detector are image
geometry; the choice of a chart for a hand and the keys of trained strategies are data.
In the modelled components these are left out: wording and colours of labels, numbers
shown beside the action, wall-clock durations (the cooldown, the pauses between
attempts, the latency of a tick), the parsing of the typed command line, and in the
extractor the numbers and the unused position thread.

## 7. What is left

The modules planned at the beginning are all there. What would add most next:

1. Zero-sum payoffs of the preflop tree at folds, which the code approximates.
2. The pure merge of two detectors' confidences (`vision/confidence_merger.py`), which
   only the YOLO extractor uses.
