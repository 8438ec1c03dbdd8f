--------------------------- MODULE HybridExtractor ---------------------------
(***************************************************************************)
(* HybridStateExtractor (poker-assistant/vision/state_extractor.py): every *)
(* frame is read locally, the seat included if the dealer button is found; *)
(* the remote model is asked for the seat when it is not, and for the      *)
(* whole table when the local reading contradicts itself, but not more     *)
(* than once in the time to live of its answers.                           *)
(*                                                                         *)
(* Of a local reading is kept what decides: the seat, whether the button   *)
(* was found, where hole cards and board come from, whether it passes the  *)
(* consistency checks that do not look at the seat ("sound"), and whether  *)
(* it is preflop with a pot and nothing to call ("free"), which only the   *)
(* blinds may be.                                                          *)
(***************************************************************************)
EXTENDS Integers, Sequences

CONSTANTS
  Positions,  \* the valid seats
  NoPosition, \* any other value of the field
  Configured, \* vision.position: the seat of a reading without the button
  Ttl,        \* position_ttl
  MaxTime     \* bound on the clock

ASSUME HybridAssumption ==
  /\ {"SB", "BB", "BTN"} \subseteq Positions
  /\ Positions \cap {NoPosition, "unasked", "failed"} = {}
  /\ Configured \in Positions \union {NoPosition}
  /\ Ttl \in Nat \ {0}
  /\ MaxTime \in Nat

VARIABLES
  now,       \* time.time()
  cache,     \* _position_cache
  asked,     \* _last_position_time
  out,       \* what the last call returned and how it came about; <<>> if it returned nothing
  cached_at, \* when the cached seat was learned; 0 for the seat assumed at the start
  answers    \* when the remote model answered

hvars == <<now, cache, asked, out, cached_at, answers>>

Sources == {"none", "local", "remote"}

\* What the local extractor may return: the configured seat unless the button was found
\* and the layout gave the seat.
LocalReadings ==
  {r \in [position : Positions \union {NoPosition}, button : BOOLEAN, hole : {"none", "local"},
          board : {"none", "local"}, sound : BOOLEAN, free : BOOLEAN] :
     /\ r.position # Configured => r.button /\ r.position \in Positions
     /\ r.hole = "none" => ~r.sound}

RemoteReadings ==
  [kind : {"answered"}, position : Positions \union {NoPosition}, hole : {"none", "remote"},
   board : {"none", "remote"}]

\* Nothing was asked, or nothing came back: no key, an exception, an empty answer.
Silent(kind) == [kind |-> kind, position |-> NoPosition, hole |-> "none", board |-> "none"]

HInit ==
  /\ now = Ttl + 1
  /\ cache = "BTN"
  /\ asked = 0
  /\ out = <<>>
  /\ cached_at = 0
  /\ answers = <<>>

-----------------------------------------------------------------------------
Due(last) == now - last > Ttl

\* Faulty variant: a seat that does not come out of the layout is not missed.
NoButton(r) == ~r.button

\* use_llm
SeatMissing(r) == ~r.button \/ r.position \notin Positions

\* needs_llm_fallback, for a reading in this seat.
Inconsistent(r, position) == ~r.sound \/ (r.free /\ position \notin {"BB", "SB"})

\* What may come back when the seat is asked for, and when the whole table is.
SeatAnswers(r) ==
  IF SeatMissing(r) /\ Due(asked) THEN Positions \union {"failed"} ELSE {"unasked"}

\* Faulty variant: the seat just learned does not count as an answer.
AskedTwice(r, position, last) ==
  IF Inconsistent(r, position) /\ Due(asked)
  THEN RemoteReadings \union {Silent("failed")}
  ELSE {Silent("unasked")}

TableAnswers(r, position, last) ==
  IF Inconsistent(r, position) /\ Due(last)
  THEN RemoteReadings \union {Silent("failed")}
  ELSE {Silent("unasked")}

\* The full answer gives the seat only if the button was not found.
GivesSeat(r, table) == ~r.button /\ table.position # NoPosition

\* Faulty variant: the seat of the full answer is returned and forgotten.
Forget(r, table, before) == before

\* The cache after the full answer.
Learn(r, table, before) == IF GivesSeat(r, table) THEN table.position ELSE before

Filled(mine, theirs) == IF mine = "none" /\ theirs # "none" THEN theirs ELSE mine

\* extract, for a local reading and the two answers.
Merge(r, seat, table) ==
  LET learned == IF seat \in Positions THEN seat ELSE cache
      last == IF seat \in Positions THEN now ELSE asked
      position == IF r.position \in Positions THEN r.position ELSE learned
  IN  /\ table \in TableAnswers(r, position, last)
      /\ cache' = Learn(r, table, learned)
      /\ asked' = IF table.kind = "answered" THEN now ELSE last
      /\ cached_at' = IF seat \in Positions \/ GivesSeat(r, table) THEN now ELSE cached_at
      /\ answers' = answers \o (IF seat \in Positions THEN <<now>> ELSE <<>>)
                            \o (IF table.kind = "answered" THEN <<now>> ELSE <<>>)
      /\ out' = [at |-> now, button |-> r.button, local |-> r.position,
                 position |-> IF GivesSeat(r, table) THEN table.position ELSE position,
                 hole |-> Filled(r.hole, table.hole), board |-> Filled(r.board, table.board),
                 seat |-> seat, answered |-> seat \in Positions \/ table.kind = "answered"]

Extract ==
  \E r \in LocalReadings : \E seat \in SeatAnswers(r) :
    /\ \E table \in RemoteReadings \union {Silent("failed"), Silent("unasked")} : Merge(r, seat, table)
    /\ UNCHANGED now

\* An exception outside the tuples that extract catches: from the local reading, from
\* either question, or from the checks between them, after a seat may have been learned.
ExtractRaises ==
  \E r \in LocalReadings : \E seat \in SeatAnswers(r) :
    /\ IF seat \in Positions
       THEN /\ cache' = seat /\ asked' = now /\ cached_at' = now
            /\ answers' = Append(answers, now)
       ELSE UNCHANGED <<cache, asked, cached_at, answers>>
    /\ out' = <<>>
    /\ UNCHANGED now

\* set_position
SetPosition ==
  /\ cache' \in Positions
  /\ asked' = now
  /\ cached_at' = now
  /\ out' = <<>>
  /\ UNCHANGED <<now, answers>>

Wait ==
  /\ now < MaxTime
  /\ now' = now + 1
  /\ UNCHANGED <<cache, asked, out, cached_at, answers>>

HNext == Extract \/ ExtractRaises \/ SetPosition \/ Wait

HSpec == HInit /\ [][HNext]_hvars

-----------------------------------------------------------------------------
\* The remote model answers at most once in the time to live, whichever of the two
\* questions it answers, and however often it fails in between.  Only answers are
\* spaced: a question that failed is put, and may be paid for, again in the next frame.
AnswersAreSpaced ==
  \A i, j \in DOMAIN answers : i < j => answers[j] - answers[i] > Ttl

\* A seat from the cache is older than its time to live only if the model was asked for
\* the seat in this very frame and failed, or if a full answer that taught no seat has
\* put the question off.
OldSeatsHaveAnExcuse ==
  (out # <<>> /\ out.local \notin Positions /\ out.at - cached_at > Ttl) =>
    \/ out.seat = "failed"
    \/ asked > cached_at /\ out.at - asked <= Ttl

\* The seat does not flap: from one frame without a seat of its own to the next, it only
\* changes when the model has answered.
SeatDoesNotFlap ==
  [][(/\ out # <<>> /\ out' # <<>>
      /\ ~out.button /\ ~out'.button
      /\ out.local \notin Positions /\ out'.local \notin Positions
      /\ ~out'.answered)
       => out'.position = out.position]_out
=============================================================================
