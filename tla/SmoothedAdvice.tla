--------------------------- MODULE SmoothedAdvice ---------------------------
(***************************************************************************)
(* The controller's tick with the optional smoother in place: extractor,   *)
(* TemporalSmoother, hand machine, gate.  "enabled" is the switch of the   *)
(* configuration, read once when the controller is built; when it is off   *)
(* the dict of the extractor goes to the hand machine as it is.            *)
(***************************************************************************)
EXTENDS Advice, TemporalSmoother

\* The smoother and from_raw_dict agree on what is no number.
ASSUME NumbersAssumption == NoNumber = Missing

\* update copies the confidence with dict(), which a number would not survive; no
\* extractor gives one.
ASSUME ConfidenceAssumption == \A raw \in Raws : raw.confidence.kind # "number"

VARIABLE enabled  \* vision.temporal.enabled

svars == <<vars, buffer, enabled>>

SInit == Init /\ buffer = <<>> /\ enabled \in BOOLEAN

\* The dict that reaches ingest.
Passed == IF enabled THEN Smoothed ELSE Latest

Tick ==
  /\ Len(log) < MaxFrames
  /\ UNCHANGED enabled
  /\ \/ \E raw \in Raws : UpdateFresh(raw)
     \/ UpdateRepeated
     \/ UpdateEmptied
  /\ \E d \in {Passed'} : \E f \in {FrameOf(FromRaw(d))} : Ingest(f)

SNext == Tick

SSpec == SInit /\ [][SNext]_svars

-----------------------------------------------------------------------------
LastOut == log[Len(log)].out

\* The engine is being asked, with this dict.
AskedNow == log # <<>> /\ Advises(LastOut)

InView(k, card) == card \in Range(buffer[k].dict.hole) \cup Range(buffer[k].dict.board)

\* Slots are voted one by one, and the machine answers with an earlier consensus; still,
\* with more than half of the window required, any two cards that are advised on were
\* seen together in one of the readings still in the window: no advice joins the hole
\* cards of one hand to the board of another.
AdvisedCardsShareAFrame ==
  (enabled /\ AskedNow /\ 2 * Required > WindowSize) =>
    LET d == Asked(LastOut)
    IN  \A x, y \in Range(d.hole) \cup Range(d.board) :
          \E k \in Frames : InView(k, x) /\ InView(k, y)

\* A median of two readings may be an amount that no reading showed; what is advised
\* on is still no more than one of the readings in the window, and the pot no less.
\* Only a call of nothing, and an empty pot, are advised on when the window has no number.
AdvisedAmountsWereRead ==
  (enabled /\ AskedNow) =>
    LET d == Asked(LastOut)
    IN  /\ d.to_call = 0 \/ \E k \in Numbers("to_call") : d.to_call <= Amount("to_call", k)
        /\ d.pot = 0 \/ \E k \in Numbers("pot") : d.pot <= Amount("pot", k)
        /\ Numbers("pot") = {} \/ \E k \in Numbers("pot") : d.pot >= Amount("pot", k)

\* A reading that shows two cards, a possible board, all numbers, a seat, and no mark.
Complete(r) ==
  /\ Len(r.hole) = HoleSlots
  /\ Len(r.board) \in {0, 3, 4, 5}
  /\ \A f \in Amounts : r[f] # NoNumber
  /\ r.position # NoPosition
  /\ ~r.uncertain

WindowAgrees ==
  /\ Len(buffer) = WindowSize
  /\ \A k \in Frames : buffer[k].dict = Latest
  /\ Complete(Latest)

\* A whole window of one complete reading is reported as it is, without a doubt,
\* whatever the window held before.
AgreementIsReported ==
  (enabled /\ WindowAgrees /\ MinSamples <= WindowSize) =>
    Smoothed = [Latest EXCEPT !.confidence = Smoothed.confidence]
=============================================================================
