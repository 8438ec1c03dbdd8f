----------------------------- MODULE JevAuditor -----------------------------
(***************************************************************************)
(* The background audit of the extracted state (JevAuditor and the client  *)
(* it asks): callers hand in states, at most one worker thread asks the    *)
(* remote model, and its last report is attached to later states.          *)
(*                                                                         *)
(* A state is abstracted to the version of the table it shows, a report to *)
(* the version it is about (0: no report yet).  The two `with` blocks are  *)
(* one step each, since the lock keeps others out of them; the worker's    *)
(* writes outside the lock are steps of their own.                         *)
(***************************************************************************)
EXTENDS Integers

CONSTANTS
  Callers,       \* threads that run extract (the assistant has one)
  Workers,       \* identities of the worker threads, one for each check
  Interval,      \* check_interval
  StartMayFail,  \* may Thread.start raise?
  MaxTime,       \* bound on the clock
  MaxVersions    \* bound on the versions of the table

ASSUME AuditorAssumption ==
  /\ Interval \in Nat \ {0}
  /\ StartMayFail \in BOOLEAN
  /\ MaxTime \in Nat
  /\ MaxVersions \in Nat

VARIABLES
  clock,            \* time.time(), counted from Interval
  world,            \* version of the table
  running,          \* _running
  last_report,      \* last_report
  last_check_time,  \* last_check_time
  caller,           \* what each calling thread does
  check,            \* what each worker thread does
  attached          \* the report that each caller attached last

vars == <<clock, world, running, last_report, last_check_time, caller, check, attached>>

Versions == 0..MaxVersions
Times == 0..(Interval + MaxTime)

Caller == [at : {"away", "entered", "starting", "attaching"}, of : Versions, now : Times]

\* begun is the time the check was decided on, timed the one it recorded (0: none).
Check == [at : {"unborn", "asking", "publishing", "timing", "releasing", "gone"},
          of : Versions, begun : Times, timed : Times]

TypeOK ==
  /\ clock \in Times
  /\ world \in Versions
  /\ running \in BOOLEAN
  /\ last_report \in Versions
  /\ last_check_time \in Times
  /\ caller \in [Callers -> Caller]
  /\ check \in [Workers -> Check]
  /\ attached \in [Callers -> Versions]

\* last_check_time is 0, long ago: the first check is due at once.
Init ==
  /\ clock = Interval
  /\ world = 0
  /\ running = FALSE
  /\ last_report = 0
  /\ last_check_time = 0
  /\ caller = [c \in Callers |-> [at |-> "away", of |-> 0, now |-> 0]]
  /\ check = [w \in Workers |-> [at |-> "unborn", of |-> 0, begun |-> 0, timed |-> 0]]
  /\ attached = [c \in Callers |-> 0]

TimePasses ==
  /\ clock < Interval + MaxTime
  /\ clock' = clock + 1
  /\ UNCHANGED <<world, running, last_report, last_check_time, caller, check, attached>>

TableChanges ==
  /\ world < MaxVersions
  /\ world' = world + 1
  /\ UNCHANGED <<clock, running, last_report, last_check_time, caller, check, attached>>

-----------------------------------------------------------------------------
(* maybe_check_async and attach, as extract calls them.                      *)

\* A state is handed in and the clock is read, before the lock is taken.
Enter(c) ==
  /\ caller[c].at = "away"
  /\ world > 0
  /\ caller' = [caller EXCEPT ![c] = [at |-> "entered", of |-> world, now |-> clock]]
  /\ UNCHANGED <<clock, world, running, last_report, last_check_time, check, attached>>

\* Faulty variants: the flag is not tested; the clock is read under the lock.
DueWhileRunning(c) == caller[c].now - last_check_time >= Interval
DueByClock(c) == ~running /\ clock - last_check_time >= Interval

Due(c) == ~running /\ caller[c].now - last_check_time >= Interval

\* The two early returns.
Skip(c) ==
  /\ caller[c].at = "entered" /\ ~Due(c)
  /\ caller' = [caller EXCEPT ![c].at = "attaching"]
  /\ UNCHANGED <<clock, world, running, last_report, last_check_time, check, attached>>

\* The number of checks is bounded here: a claim needs a worker that is left.
Claim(c) ==
  /\ caller[c].at = "entered" /\ Due(c)
  /\ \E w \in Workers : check[w].at = "unborn"
  /\ running' = TRUE
  /\ caller' = [caller EXCEPT ![c].at = "starting"]
  /\ UNCHANGED <<clock, world, last_report, last_check_time, check, attached>>

\* The snapshot goes to a new thread.
Start(c, w) ==
  /\ caller[c].at = "starting"
  /\ check[w].at = "unborn"
  /\ check' = [check EXCEPT ![w] =
       [at |-> "asking", of |-> caller[c].of, begun |-> caller[c].now, timed |-> 0]]
  /\ caller' = [caller EXCEPT ![c].at = "attaching"]
  /\ UNCHANGED <<clock, world, running, last_report, last_check_time, attached>>

\* Thread.start raises: the exception leaves extract, and the flag stays set.
StartFails(c) ==
  /\ StartMayFail
  /\ caller[c].at = "starting"
  /\ caller' = [caller EXCEPT ![c].at = "away"]
  /\ UNCHANGED <<clock, world, running, last_report, last_check_time, check, attached>>

Attach(c) ==
  /\ caller[c].at = "attaching"
  /\ attached' = [attached EXCEPT ![c] = last_report]
  /\ caller' = [caller EXCEPT ![c].at = "away"]
  /\ UNCHANGED <<clock, world, running, last_report, last_check_time, check>>

-----------------------------------------------------------------------------
(* The worker thread.                                                        *)

\* Faulty variant: without the finally.
AnsweredUnsafely(w, answer) ==
  /\ check[w].at = "asking"
  /\ check' = [check EXCEPT ![w].at = IF answer = "report" THEN "publishing" ELSE "gone"]
  /\ UNCHANGED <<clock, world, running, last_report, last_check_time, caller, attached>>

\* consistency_check returns answers, returns None (no key, a request that fails or
\* times out, an HTTP error, a body without answers) or raises.
Answered(w, answer) ==
  /\ check[w].at = "asking"
  /\ check' = [check EXCEPT ![w].at =
       IF answer = "report" THEN "publishing" ELSE "releasing"]
  /\ UNCHANGED <<clock, world, running, last_report, last_check_time, caller, attached>>

\* Faulty variant: the flag is released together with the report.
PublishReleases(w) ==
  /\ check[w].at = "publishing"
  /\ last_report' = check[w].of
  /\ running' = FALSE
  /\ check' = [check EXCEPT ![w].at = "timing"]
  /\ UNCHANGED <<clock, world, last_check_time, caller, attached>>

Publish(w) ==
  /\ check[w].at = "publishing"
  /\ last_report' = check[w].of
  /\ check' = [check EXCEPT ![w].at = "timing"]
  /\ UNCHANGED <<clock, world, running, last_check_time, caller, attached>>

\* Faulty variants: the time of the decision, or of the next check, is recorded.
RecordBegun(w) ==
  /\ check[w].at = "timing"
  /\ last_check_time' = check[w].begun
  /\ check' = [check EXCEPT ![w].at = "releasing", ![w].timed = clock]
  /\ UNCHANGED <<clock, world, running, last_report, caller, attached>>

RecordDue(w) ==
  /\ check[w].at = "timing"
  /\ last_check_time' = clock + Interval
  /\ check' = [check EXCEPT ![w].at = "releasing", ![w].timed = clock]
  /\ UNCHANGED <<clock, world, running, last_report, caller, attached>>

RecordTime(w) ==
  /\ check[w].at = "timing"
  /\ last_check_time' = clock
  /\ check' = [check EXCEPT ![w].at = "releasing", ![w].timed = clock]
  /\ UNCHANGED <<clock, world, running, last_report, caller, attached>>

Release(w) ==
  /\ check[w].at = "releasing"
  /\ running' = FALSE
  /\ check' = [check EXCEPT ![w].at = "gone"]
  /\ UNCHANGED <<clock, world, last_report, last_check_time, caller, attached>>

-----------------------------------------------------------------------------
CallerStep(c) ==
  \/ Enter(c) \/ Skip(c) \/ Claim(c)
  \/ \E w \in Workers : Start(c, w)
  \/ StartFails(c)
  \/ Attach(c)

WorkerStep(w) ==
  \/ \E answer \in {"report", "nothing", "raise"} : Answered(w, answer)
  \/ Publish(w) \/ RecordTime(w) \/ Release(w)

Next ==
  \/ TimePasses \/ TableChanges
  \/ \E c \in Callers : CallerStep(c)
  \/ \E w \in Workers : WorkerStep(w)

Spec == Init /\ [][Next]_vars

\* The request has a timeout and the lock is held for a moment only, so that a
\* thread once started goes on to its end; a call once entered is carried through.
Fairness ==
  /\ \A w \in Workers : WF_vars(WorkerStep(w))
  /\ \A c \in Callers :
       WF_vars(Skip(c) \/ Claim(c) \/ (\E w \in Workers : Start(c, w)) \/ StartFails(c) \/ Attach(c))

FairSpec == Spec /\ Fairness

-----------------------------------------------------------------------------
Alive(w) == check[w].at \notin {"unborn", "gone"}

\* At most one check is in flight or about to be started, and the flag says so.
OneCheckAtATime ==
  /\ \A v, w \in Workers : Alive(v) /\ Alive(w) => v = w
  /\ \A c, d \in Callers : caller[c].at = "starting" /\ caller[d].at = "starting" => c = d
  /\ \A w \in Workers, c \in Callers : ~(Alive(w) /\ caller[c].at = "starting")
  /\ (\E w \in Workers : Alive(w)) => running

\* Of two checks that succeeded, one was decided on an interval after the other had
\* recorded its time, whoever asked for them.
SuccessesAreSpaced ==
  \A v, w \in Workers :
    (v # w /\ check[v].timed > 0 /\ check[w].timed > 0)
      => \/ check[w].begun - check[v].timed >= Interval
         \/ check[v].begun - check[w].timed >= Interval

\* No caller is ever given a report about an older table than the one before.
ReportsSeenAdvance == [][\A c \in Callers : attached'[c] >= attached[c]]_attached

\* The auditor implements the slot.
Slot == INSTANCE AuditSlot WITH taken <- running, report <- last_report
ImplementsSlot == Slot!Spec

\* Once its worker runs the flag is always released again, whatever the remote model
\* does.  (A thread that does not start leaves the flag set for good.)
FlagIsReleased == (\E w \in Workers : Alive(w)) ~> ~running

=============================================================================
