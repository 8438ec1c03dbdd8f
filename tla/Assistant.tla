------------------------------ MODULE Assistant ------------------------------
(***************************************************************************)
(* The threads of the running assistant: the worker that ticks             *)
(* (AssistantController._loop and _tick), the Tk main thread that polls    *)
(* the overlay's queue (PokerOverlay), and whoever supplies the table: the *)
(* command line in manual mode, the real table otherwise.                  *)
(*                                                                         *)
(* The content of the table is abstracted to a version number: every typed *)
(* state, every visible change of the table, is a new version.  What a     *)
(* tick concludes is one of four outcomes: an advice, a refusal (WAIT and  *)
(* "--", which fill every label), an exception that _loop catches (which   *)
(* writes the status label only), or one that it does not catch.           *)
(***************************************************************************)
EXTENDS Naturals, Sequences

CONSTANTS
  Manual,        \* manual mode: no state until one is typed
  Outcomes,      \* the outcomes a tick may have
  BacklogLimit,  \* the 10 of _poll_updates
  MaxVersions,   \* bound on the number of table versions
  MaxQueue       \* bound on the queue, which has none in the code

ASSUME AssistantAssumption ==
  /\ Manual \in BOOLEAN
  /\ Outcomes \subseteq {"advice", "refusal", "error", "fatal"}
  /\ BacklogLimit \in Nat
  /\ MaxVersions \in Nat \ {0}
  /\ MaxQueue \in Nat \ {0}

VARIABLES
  world,    \* version of the table, 0 while _manual_state is unset
  worker,   \* program counter of _loop
  reading,  \* the version that the current tick works on
  updates,  \* _updates: the payloads on their way to the window
  poller,   \* program counter of _poll_updates
  last,     \* its local variable: the last payload of a discarded backlog
  labels,   \* what the window shows, and about which version
  running,  \* _running
  window,   \* open, closing (destroy is scheduled) or closed
  stopper,  \* program counter of the thread that calls stop
  concluded \* history: what the last tick that did not fail has concluded

tick == <<worker, reading>>
main == <<poller, last, labels>>
life == <<running, window, stopper>>
vars == <<world, tick, updates, main, life, concluded>>

Versions == 0..MaxVersions

\* An update: its action, and the version it is about.  Hand, board, equity and
\* sizing travel with the action; "none" leaves every label but the status alone.
Payload == [action : {"none", "advice", "refusal"}, of : Versions]

NoPayload == [action |-> "none", of |-> 0]

\* The labels, the version each is about, and whether the status is an error.
Labels == [action : {"--", "advice", "refusal"}, action_of : Versions,
           hand_of : Versions, status_of : Versions, failed : BOOLEAN]

Conclusion == [action : {"--", "advice", "refusal"}, of : Versions]

TypeOK ==
  /\ world \in Versions
  /\ worker \in {"guard", "deciding", "sleeping", "ended", "dead"}
  /\ reading \in Versions
  /\ updates \in Seq(Payload)
  /\ poller \in {"idle", "draining", "sizing", "discarding", "restoring"}
  /\ last \in Payload
  /\ labels \in Labels
  /\ running \in BOOLEAN
  /\ window \in {"open", "closing", "closed"}
  /\ stopper \in {"away", "closing", "done"}
  /\ concluded \in Conclusion

Init ==
  /\ world = IF Manual THEN 0 ELSE 1
  /\ worker = "guard"
  /\ reading = 0
  /\ updates = <<>>
  /\ poller = "idle"
  /\ last = NoPayload
  /\ labels = [action |-> "--", action_of |-> 0, hand_of |-> 0, status_of |-> 0,
               failed |-> FALSE]
  /\ running = TRUE
  /\ window = "open"
  /\ stopper = "away"
  /\ concluded = [action |-> "--", of |-> 0]

-----------------------------------------------------------------------------
(* The table changes: set_manual_state, or the dealer.                       *)

TableChanges ==
  /\ world < MaxVersions
  /\ stopper = "away"
  /\ world' = world + 1
  /\ UNCHANGED <<tick, updates, main, life, concluded>>

-----------------------------------------------------------------------------
(* The worker.                                                               *)

\* Faulty variant: while True.
FetchForever ==
  /\ worker = "guard"
  /\ worker' = "deciding" /\ reading' = world
  /\ UNCHANGED <<world, updates, main, life, concluded>>

\* while self._running; then the tick fetches the state of the table.
Fetch ==
  /\ worker = "guard"
  /\ IF running
     THEN worker' = "deciding" /\ reading' = world
     ELSE worker' = "ended" /\ UNCHANGED reading
  /\ UNCHANGED <<world, updates, main, life, concluded>>

\* Once the window is closed nobody reads the queue, and what is put there is
\* left out of the model.
Put(p) ==
  IF window = "closed"
  THEN UNCHANGED updates
  ELSE /\ Len(updates) < MaxQueue
       /\ updates' = Append(updates, p)

\* _tick returns early: there is no state yet, and nothing is shown.
NoState ==
  /\ worker = "deciding" /\ reading = 0
  /\ worker' = "sleeping"
  /\ UNCHANGED <<world, reading, updates, main, life, concluded>>

\* Faulty variant: a refusal that leaves the action label out of its update.
ConcludeQuietly(outcome) ==
  /\ worker = "deciding" /\ reading > 0
  /\ outcome \in Outcomes
  /\ Put([action |-> IF outcome = "refusal" THEN "none" ELSE outcome, of |-> reading])
  /\ concluded' = [action |-> outcome, of |-> reading]
  /\ worker' = "sleeping"
  /\ UNCHANGED <<world, reading, main, life>>

\* _tick ends in an update that fills every label.
Conclude(outcome) ==
  /\ worker = "deciding" /\ reading > 0
  /\ outcome \in Outcomes
  /\ Put([action |-> outcome, of |-> reading])
  /\ concluded' = [action |-> outcome, of |-> reading]
  /\ worker' = "sleeping"
  /\ UNCHANGED <<world, reading, main, life>>

\* An exception that _loop catches: only the status is updated.
Fail ==
  /\ worker = "deciding" /\ reading > 0
  /\ "error" \in Outcomes
  /\ Put([action |-> "none", of |-> reading])
  /\ worker' = "sleeping"
  /\ UNCHANGED <<world, reading, main, life, concluded>>

\* An exception outside the tuple that _loop catches ends the thread.
Die ==
  /\ worker = "deciding" /\ reading > 0
  /\ "fatal" \in Outcomes
  /\ worker' = "dead"
  /\ UNCHANGED <<world, reading, updates, main, life, concluded>>

Wake ==
  /\ worker = "sleeping"
  /\ worker' = "guard"
  /\ UNCHANGED <<world, reading, updates, main, life, concluded>>

Worker ==
  \/ Fetch
  \/ NoState
  \/ \E outcome \in {"advice", "refusal"} : Conclude(outcome)
  \/ Fail
  \/ Wake

-----------------------------------------------------------------------------
(* The main thread.                                                          *)

\* An update that fills every field replaces every label.
AppliedFully(p) ==
  [action |-> p.action, action_of |-> p.of, hand_of |-> p.of, status_of |-> p.of,
   failed |-> FALSE]

\* _do_update: a field that is None leaves its label as it is, and only the status
\* of a failed tick comes alone.
Applied(p) ==
  IF p.action = "none"
  THEN [labels EXCEPT !.status_of = p.of, !.failed = TRUE]
  ELSE AppliedFully(p)

PollStarts ==
  /\ poller = "idle" /\ window # "closed"
  /\ poller' = "draining"
  /\ UNCHANGED <<world, tick, updates, last, labels, life, concluded>>

\* Faulty variant: the newest update first.
DrainNewest ==
  /\ poller = "draining" /\ updates # <<>>
  /\ labels' = Applied(updates[Len(updates)])
  /\ updates' = SubSeq(updates, 1, Len(updates) - 1)
  /\ UNCHANGED <<world, tick, poller, last, life, concluded>>

\* Faulty variant: after a burst the rest of the queue is dropped.
DrainOnly ==
  /\ poller = "draining" /\ updates # <<>>
  /\ labels' = Applied(Head(updates))
  /\ updates' = <<>>
  /\ UNCHANGED <<world, tick, poller, last, life, concluded>>

DrainOne ==
  /\ poller = "draining" /\ updates # <<>>
  /\ labels' = Applied(Head(updates))
  /\ updates' = Tail(updates)
  /\ UNCHANGED <<world, tick, poller, last, life, concluded>>

DrainEmpty ==
  /\ poller = "draining" /\ updates = <<>>
  /\ poller' = "sizing"
  /\ UNCHANGED <<world, tick, updates, last, labels, life, concluded>>

\* Faulty variant: the poll is only scheduled again after a backlog.
SizeOnce ==
  /\ poller = "sizing"
  /\ poller' = IF Len(updates) > BacklogLimit THEN "discarding" ELSE "sizing"
  /\ UNCHANGED <<world, tick, updates, last, labels, life, concluded>>

\* qsize() is read after the drain, with the worker still running.
Size ==
  /\ poller = "sizing"
  /\ poller' = IF Len(updates) > BacklogLimit THEN "discarding" ELSE "idle"
  /\ UNCHANGED <<world, tick, updates, last, labels, life, concluded>>

DiscardOne ==
  /\ poller = "discarding" /\ updates # <<>>
  /\ last' = Head(updates)
  /\ updates' = Tail(updates)
  /\ UNCHANGED <<world, tick, poller, labels, life, concluded>>

\* The queue was seen empty; the worker may put before the payload is put back.
DiscardEmpty ==
  /\ poller = "discarding" /\ updates = <<>>
  /\ poller' = "restoring"
  /\ UNCHANGED <<world, tick, updates, last, labels, life, concluded>>

Restore ==
  /\ poller = "restoring"
  /\ updates' = Append(updates, last)
  /\ last' = NoPayload
  /\ poller' = "idle"
  /\ UNCHANGED <<world, tick, labels, life, concluded>>

Poller ==
  \/ PollStarts \/ DrainOne \/ DrainEmpty \/ Size
  \/ DiscardOne \/ DiscardEmpty \/ Restore

-----------------------------------------------------------------------------
(* Stopping: quit on the command line (nothing else calls stop), or the        *)
(* window's close button.  A closed window ends the process, which cuts the    *)
(* daemon threads anywhere; letting them run on only adds behaviours.          *)
(* The join of stop is not reached: the command line exists in manual mode     *)
(* only, where main starts the loop in a thread of its own and _thread stays   *)
(* None.  So a tick in progress goes on while its window is closed.            *)

StopRequested ==
  /\ Manual
  /\ stopper = "away"
  /\ running' = FALSE
  /\ stopper' = "closing"
  /\ UNCHANGED <<world, tick, updates, main, window, concluded>>

\* The destruction of the window is scheduled on the main thread.
StopCloses ==
  /\ stopper = "closing"
  /\ window' = IF window = "open" THEN "closing" ELSE window
  /\ stopper' = "done"
  /\ UNCHANGED <<world, tick, updates, main, running, concluded>>

Destroy ==
  /\ window = "closing" /\ poller = "idle"
  /\ window' = "closed"
  /\ UNCHANGED <<world, tick, updates, main, running, stopper, concluded>>

UserCloses ==
  /\ window = "open" /\ poller = "idle"
  /\ window' = "closed"
  /\ UNCHANGED <<world, tick, updates, main, running, stopper, concluded>>

Next ==
  \/ TableChanges \/ Worker \/ Die \/ Poller
  \/ StopRequested \/ StopCloses \/ Destroy \/ UserCloses

Spec == Init /\ [][Next]_vars

\* Both loops are driven by timers that always fire again; a stop that has begun
\* is carried through, and the main loop serves the scheduled destruction between
\* two polls.  Nothing obliges the table to change, anyone to stop
\* or a tick to raise what the loop does not catch.
Fairness ==
  /\ WF_vars(Worker)
  /\ WF_vars(Poller)
  /\ WF_vars(StopCloses)
  /\ SF_vars(Destroy)

FairSpec == Spec /\ Fairness

-----------------------------------------------------------------------------
\* A failing tick writes the status alone, and the action of an earlier table stays.
\* So when an open window has drawn every update and the worker sleeps, the window
\* shows the action and the hand of the last tick that did not fail, and an action
\* for another table than the one just read stands beside an error, never beside a
\* status of its own.
ActionOutlivesOnlyFailures ==
  (updates = <<>> /\ window # "closed" /\ poller \in {"idle", "draining", "sizing"}
     /\ worker = "sleeping")
    => /\ labels.action = concluded.action
       /\ labels.action_of = concluded.of /\ labels.hand_of = concluded.of
       /\ labels.action_of # reading => labels.failed

\* The version a label is about never decreases: an update that was overtaken by
\* a newer one is never drawn after it.
ShownNeverGoesBack ==
  [][/\ labels'.status_of >= labels.status_of
     /\ labels'.action_of >= labels.action_of]_labels

\* When an open window has drawn every update and the worker sleeps, its status
\* is that of the last tick: nothing between the tick and the window loses it.
DrawnIsNewest ==
  (updates = <<>> /\ window # "closed" /\ poller \in {"idle", "draining", "sizing"}
     /\ worker = "sleeping")
    => labels.status_of = reading

\* Every version of the table that is not overtaken by another reaches the window:
\* a tick reports on it, unless the program is stopped, closed or its worker died.
TableReachesWindow ==
  \A v \in 1..MaxVersions :
    (world = v) ~> (labels.status_of >= v \/ worker = "dead" \/ ~running \/ window = "closed")

\* A stop ends the worker (unless an exception already did) and closes the window,
\* wherever it finds a tick, a drain or a discarded backlog.
StopEnds == (stopper # "away") ~> (worker \in {"ended", "dead"} /\ window = "closed")

=============================================================================
