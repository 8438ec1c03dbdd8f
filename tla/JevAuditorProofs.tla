-------------------------- MODULE JevAuditorProofs --------------------------
(***************************************************************************)
(* Proofs about JevAuditor for any number of callers and checks: types, at *)
(* most one check at a time, and that the auditor implements AuditSlot.    *)
(*                                                                         *)
(* Held adds to OneCheckAtATime that a claim keeps the flag set.  Fresh is *)
(* why a report never goes back although the clock is read before the lock *)
(* is taken: a caller that has been overtaken by a newer report holds a    *)
(* time that is not later than last_check_time, and so is not due.         *)
(***************************************************************************)
EXTENDS JevAuditor, TLAPS

USE AuditorAssumption

-----------------------------------------------------------------------------
(* Type correctness.                                                        *)

LEMMA TypeInit == Init => TypeOK
<1> SUFFICES ASSUME Init PROVE TypeOK
  OBVIOUS
<1>1. 0 \in Versions /\ 0 \in Times /\ Interval \in Times
  BY DEF Versions, Times
<1>2. [at |-> "away", of |-> 0, now |-> 0] \in Caller
  BY <1>1 DEF Caller
<1>3. [at |-> "unborn", of |-> 0, begun |-> 0, timed |-> 0] \in Check
  BY <1>1 DEF Check
<1> QED BY <1>1, <1>2, <1>3 DEF Init, TypeOK

LEMMA TypeCaller ==
  ASSUME TypeOK, NEW c \in Callers, CallerStep(c)
  PROVE  TypeOK'
<1> USE DEF TypeOK
<1>1. CASE Enter(c)
  BY <1>1 DEF Enter, Caller
<1>2. CASE Skip(c)
  BY <1>2 DEF Skip, Caller
<1>3. CASE Claim(c)
  BY <1>3 DEF Claim, Caller
<1>4. ASSUME NEW w \in Workers, Start(c, w) PROVE TypeOK'
  <2>1. caller' \in [Callers -> Caller]
    BY <1>4 DEF Start, Caller
  <2>2. check' \in [Workers -> Check]
    BY <1>4 DEF Start, Caller, Check, Times
  <2> QED BY <1>4, <2>1, <2>2 DEF Start
<1>5. CASE StartFails(c)
  BY <1>5 DEF StartFails, Caller
<1>6. CASE Attach(c)
  BY <1>6 DEF Attach, Caller
<1> QED BY <1>1, <1>2, <1>3, <1>4, <1>5, <1>6 DEF CallerStep

LEMMA TypeWorker ==
  ASSUME TypeOK, NEW w \in Workers, WorkerStep(w)
  PROVE  TypeOK'
<1> USE DEF TypeOK
<1>1. ASSUME NEW answer \in {"report", "nothing", "raise"}, Answered(w, answer) PROVE TypeOK'
  BY <1>1 DEF Answered, Check
<1>2. CASE Publish(w)
  BY <1>2 DEF Publish, Check
<1>3. CASE RecordTime(w)
  BY <1>3 DEF RecordTime, Check
<1>4. CASE Release(w)
  BY <1>4 DEF Release, Check
<1> QED BY <1>1, <1>2, <1>3, <1>4 DEF WorkerStep

LEMMA TypeStep == TypeOK /\ [Next]_vars => TypeOK'
<1> SUFFICES ASSUME TypeOK, [Next]_vars PROVE TypeOK'
  OBVIOUS
<1>1. CASE TimePasses
  BY <1>1 DEF TimePasses, TypeOK, Times
<1>2. CASE TableChanges
  BY <1>2 DEF TableChanges, TypeOK, Versions
<1>3. CASE UNCHANGED vars
  BY <1>3 DEF vars, TypeOK
<1> QED BY <1>1, <1>2, <1>3, TypeCaller, TypeWorker DEF Next

\* Every reachable state of the auditor is well typed.
THEOREM TypeCorrect == Spec => []TypeOK
<1>1. TypeOK /\ [Next]_vars => TypeOK'
  BY TypeStep
<1> QED BY <1>1, TypeInit, PTL DEF Spec

-----------------------------------------------------------------------------
(* At most one check at a time.                                             *)

Held ==
  /\ OneCheckAtATime
  /\ \A c \in Callers : caller[c].at = "starting" => running

LEMMA HeldInit == Init => Held
BY DEF Init, Held, OneCheckAtATime, Alive

LEMMA HeldCaller ==
  ASSUME TypeOK, Held, NEW c \in Callers, CallerStep(c)
  PROVE  Held'
<1> USE DEF TypeOK, Held, OneCheckAtATime, Alive, Caller, Check
<1>1. CASE Enter(c)
  BY <1>1 DEF Enter
<1>2. CASE Skip(c)
  BY <1>2 DEF Skip
<1>3. CASE Claim(c)
  BY <1>3 DEF Claim, Due
<1>4. ASSUME NEW w \in Workers, Start(c, w) PROVE Held'
  <2>1. \A v \in Workers : ~Alive(v)
    BY <1>4 DEF Start
  <2>2. \A v \in Workers : Alive(v)' => v = w
    BY <1>4, <2>1 DEF Start
  <2>3. \A d \in Callers : caller'[d].at # "starting"
    BY <1>4 DEF Start
  <2> QED BY <1>4, <2>2, <2>3 DEF Start
<1>5. CASE StartFails(c)
  BY <1>5 DEF StartFails
<1>6. CASE Attach(c)
  BY <1>6 DEF Attach
<1> QED BY <1>1, <1>2, <1>3, <1>4, <1>5, <1>6 DEF CallerStep

LEMMA HeldWorker ==
  ASSUME TypeOK, Held, NEW w \in Workers, WorkerStep(w)
  PROVE  Held'
<1> USE DEF TypeOK, Held, OneCheckAtATime, Alive, Caller, Check
<1>1. ASSUME NEW answer \in {"report", "nothing", "raise"}, Answered(w, answer) PROVE Held'
  BY <1>1 DEF Answered
<1>2. CASE Publish(w)
  BY <1>2 DEF Publish
<1>3. CASE RecordTime(w)
  BY <1>3 DEF RecordTime
<1>4. CASE Release(w)
  BY <1>4 DEF Release
<1> QED BY <1>1, <1>2, <1>3, <1>4 DEF WorkerStep

LEMMA HeldStep == TypeOK /\ Held /\ [Next]_vars => Held'
<1> SUFFICES ASSUME TypeOK, Held, [Next]_vars PROVE Held'
  OBVIOUS
<1>1. CASE TimePasses
  BY <1>1 DEF TimePasses, Held, OneCheckAtATime, Alive
<1>2. CASE TableChanges
  BY <1>2 DEF TableChanges, Held, OneCheckAtATime, Alive
<1>3. CASE UNCHANGED vars
  BY <1>3 DEF vars, Held, OneCheckAtATime, Alive
<1> QED BY <1>1, <1>2, <1>3, HeldCaller, HeldWorker DEF Next

\* At most one check is in flight or about to start, for any number of callers, with
\* requests that fail and threads that do not start.
THEOREM OneCheck == Spec => []OneCheckAtATime
<1>1. TypeOK /\ Held /\ [Next]_vars => Held'
  BY HeldStep
<1>2. Held => OneCheckAtATime
  BY DEF Held
<1> QED BY <1>1, <1>2, HeldInit, TypeCorrect, PTL DEF Spec

-----------------------------------------------------------------------------
(* Reports never go back.                                                   *)

Known ==
  /\ last_report <= world /\ last_check_time <= clock
  /\ \A c \in Callers : caller[c].of <= world /\ caller[c].now <= clock
  /\ \A w \in Workers : check[w].of <= world

\* A caller whose state is older than the report cannot be due.
Overtaken ==
  \A c \in Callers : caller[c].at = "entered" =>
    \/ last_report <= caller[c].of
    \/ caller[c].now <= last_check_time
    \/ \E w \in Workers : check[w].at = "timing"

Fresh ==
  /\ \A c \in Callers : caller[c].at = "starting" => last_report <= caller[c].of
  /\ \A w \in Workers : check[w].at \in {"asking", "publishing"} => last_report <= check[w].of

InStep == TypeOK /\ Held /\ Known /\ Overtaken /\ Fresh

LEMMA Numbers ==
  ASSUME TypeOK
  PROVE  /\ world \in Nat /\ clock \in Nat /\ last_report \in Nat /\ last_check_time \in Nat
         /\ \A c \in Callers : caller[c] \in Caller /\ caller[c].of \in Nat /\ caller[c].now \in Nat
         /\ \A w \in Workers : check[w] \in Check /\ check[w].of \in Nat
BY DEF TypeOK, Versions, Times, Caller, Check

LEMMA InStepInit == Init => Known /\ Overtaken /\ Fresh
BY DEF Init, Known, Overtaken, Fresh

LEMMA KnownStep ==
  ASSUME TypeOK, Known, [Next]_vars
  PROVE  Known'
<1> USE Numbers DEF Known, TypeOK
<1>1. CASE TimePasses
  BY <1>1 DEF TimePasses
<1>2. CASE TableChanges
  BY <1>2 DEF TableChanges
<1>3. ASSUME NEW c \in Callers, CallerStep(c) PROVE Known'
  <2>1. CASE Enter(c)
    BY <2>1 DEF Enter
  <2>2. CASE Skip(c) \/ Claim(c) \/ StartFails(c) \/ Attach(c)
    BY <2>2 DEF Skip, Claim, StartFails, Attach, Caller
  <2>3. ASSUME NEW w \in Workers, Start(c, w) PROVE Known'
    BY <2>3 DEF Start, Caller, Check
  <2> QED BY <1>3, <2>1, <2>2, <2>3 DEF CallerStep
<1>4. ASSUME NEW w \in Workers, WorkerStep(w) PROVE Known'
  <2>1. CASE Publish(w)
    BY <2>1 DEF Publish, Check
  <2>2. CASE RecordTime(w)
    BY <2>2 DEF RecordTime, Check
  <2>3. CASE Release(w)
    BY <2>3 DEF Release, Check
  <2>4. ASSUME NEW answer \in {"report", "nothing", "raise"}, Answered(w, answer) PROVE Known'
    BY <2>4 DEF Answered, Check
  <2> QED BY <1>4, <2>1, <2>2, <2>3, <2>4 DEF WorkerStep
<1>5. CASE UNCHANGED vars
  BY <1>5 DEF vars
<1> QED BY <1>1, <1>2, <1>3, <1>4, <1>5 DEF Next

LEMMA FreshCaller ==
  ASSUME InStep, NEW c \in Callers, CallerStep(c)
  PROVE  Overtaken' /\ Fresh'
<1> USE Numbers DEF InStep, TypeOK, Overtaken, Fresh
<1>1. CASE Enter(c)
  <2>1. last_report <= caller'[c].of
    BY <1>1 DEF Enter, Known
  <2> QED BY <1>1, <2>1 DEF Enter
<1>2. CASE Skip(c)
  BY <1>2 DEF Skip, Caller
<1>3. CASE Claim(c)
  <2>1. \A w \in Workers : check[w].at # "timing"
    BY <1>3 DEF Claim, Due, Held, OneCheckAtATime, Alive
  <2>2. caller[c].now > last_check_time
    BY <1>3 DEF Claim, Due
  <2>3. last_report <= caller[c].of
    BY <1>3, <2>1, <2>2 DEF Claim
  <2> QED BY <1>3, <2>3 DEF Claim, Caller
<1>4. ASSUME NEW w \in Workers, Start(c, w) PROVE Overtaken' /\ Fresh'
  <2>1. check[w].at # "timing" /\ UNCHANGED <<last_report, last_check_time>>
    BY <1>4 DEF Start
  <2>2. last_report <= caller[c].of
    BY <1>4 DEF Start
  <2>3. /\ \A d \in Callers : caller'[d].at \in {"entered", "starting"} => caller'[d] = caller[d]
        /\ \A v \in Workers : v # w => check'[v] = check[v]
        /\ check'[w].of = caller[c].of
    BY <1>4 DEF Start, Caller
  <2>4. Overtaken'
    BY <2>1, <2>3
  <2>5. Fresh'
    BY <2>1, <2>2, <2>3
  <2> QED BY <2>4, <2>5
<1>5. CASE StartFails(c) \/ Attach(c)
  BY SMTT(20), <1>5 DEF StartFails, Attach, Caller
<1> QED BY <1>1, <1>2, <1>3, <1>4, <1>5 DEF CallerStep

LEMMA FreshWorker ==
  ASSUME InStep, NEW w \in Workers, WorkerStep(w)
  PROVE  Overtaken' /\ Fresh'
<1> USE Numbers DEF InStep, TypeOK, Overtaken, Fresh
<1>1. ASSUME NEW answer \in {"report", "nothing", "raise"}, Answered(w, answer)
      PROVE  Overtaken' /\ Fresh'
  BY <1>1 DEF Answered, Check
<1>2. CASE Publish(w)
  <2>1. /\ \A v \in Workers : v # w => check[v].at \notin {"asking", "publishing"}
        /\ \A c \in Callers : caller[c].at # "starting"
    BY <1>2 DEF Publish, Held, OneCheckAtATime, Alive
  <2>2. check'[w].at = "timing" /\ \A v \in Workers : v # w => check'[v] = check[v]
    BY <1>2 DEF Publish, Check
  <2> QED BY <1>2, <2>1, <2>2 DEF Publish
<1>3. CASE RecordTime(w)
  <2>1. \A c \in Callers : caller[c].now <= last_check_time'
    BY <1>3 DEF RecordTime, Known
  <2>2. \A v \in Workers : check'[v].at \in {"asking", "publishing"} => check'[v] = check[v]
    BY <1>3 DEF RecordTime, Check
  <2> QED BY <1>3, <2>1, <2>2 DEF RecordTime
<1>4. CASE Release(w)
  BY <1>4 DEF Release, Check
<1> QED BY <1>1, <1>2, <1>3, <1>4 DEF WorkerStep

LEMMA InStepStep == InStep /\ [Next]_vars => InStep'
<1> SUFFICES ASSUME InStep, [Next]_vars PROVE InStep'
  OBVIOUS
<1>1. TypeOK' /\ Held' /\ Known'
  BY TypeStep, HeldStep, KnownStep DEF InStep
<1>2. Overtaken' /\ Fresh'
  <2>1. CASE TimePasses \/ TableChanges
    BY <2>1 DEF InStep, TimePasses, TableChanges, Overtaken, Fresh
  <2>2. CASE UNCHANGED vars
    BY <2>2 DEF InStep, vars, Overtaken, Fresh
  <2> QED BY <2>1, <2>2, FreshCaller, FreshWorker DEF Next
<1> QED BY <1>1, <1>2 DEF InStep

LEMMA SlotStep == InStep /\ [Next]_vars => [Slot!Next]_(Slot!slot)
<1> SUFFICES ASSUME InStep, [Next]_vars PROVE Slot!Next \/ UNCHANGED Slot!slot
  OBVIOUS
<1> USE DEF Slot!slot
<1>1. CASE TimePasses \/ TableChanges \/ UNCHANGED vars
  BY <1>1 DEF TimePasses, TableChanges, vars
<1>2. ASSUME NEW c \in Callers, CallerStep(c) PROVE Slot!Next \/ UNCHANGED Slot!slot
  <2>1. CASE Claim(c)
    BY <2>1 DEF Claim, Due, InStep, TypeOK, Slot!Next, Slot!Take
  <2>2. CASE Enter(c) \/ Skip(c) \/ (\E w \in Workers : Start(c, w)) \/ StartFails(c) \/ Attach(c)
    BY <2>2 DEF Enter, Skip, Start, StartFails, Attach
  <2> QED BY <1>2, <2>1, <2>2 DEF CallerStep
<1>3. ASSUME NEW w \in Workers, WorkerStep(w) PROVE Slot!Next \/ UNCHANGED Slot!slot
  <2>1. CASE Publish(w)
    <3>1. running
      BY <2>1 DEF Publish, InStep, Held, OneCheckAtATime, Alive
    <3>2. last_report <= check[w].of /\ check[w].of \in Versions /\ last_report \in Versions
      BY <2>1 DEF Publish, InStep, Fresh, TypeOK, Check
    <3>3. last_report' \in last_report..MaxVersions
      BY <2>1, <3>2 DEF Publish, Versions
    <3> QED BY <2>1, <3>1, <3>3 DEF Publish, Slot!Next, Slot!Replace
  <2>2. CASE Release(w)
    <3>1. running
      BY <2>2 DEF Release, InStep, Held, OneCheckAtATime, Alive
    <3> QED BY <2>2, <3>1 DEF Release, Slot!Next, Slot!Free
  <2>3. CASE RecordTime(w) \/ \E answer \in {"report", "nothing", "raise"} : Answered(w, answer)
    BY <2>3 DEF RecordTime, Answered
  <2> QED BY <1>3, <2>1, <2>2, <2>3 DEF WorkerStep
<1> QED BY <1>1, <1>2, <1>3 DEF Next

\* The auditor implements the slot: only a taken slot's report is replaced, and never
\* by a report about an older table.
THEOREM Refinement == Spec => ImplementsSlot
<1>1. Init => InStep
  BY TypeInit, HeldInit, InStepInit DEF InStep
<1>2. Init => Slot!Init
  BY DEF Init, Slot!Init
<1>3. InStep /\ [Next]_vars => InStep'
  BY InStepStep
<1>4. InStep /\ [Next]_vars => [Slot!Next]_(Slot!slot)
  BY SlotStep
<1> QED BY <1>1, <1>2, <1>3, <1>4, PTL DEF Spec, ImplementsSlot, Slot!Spec


-----------------------------------------------------------------------------
(* What the callers see.                                                    *)

Behind == \A c \in Callers : attached[c] <= last_report

LEMMA ReportGrows ==
  ASSUME InStep, [Next]_vars
  PROVE  last_report' >= last_report
<1>1. CASE UNCHANGED Slot!slot
  BY <1>1, Numbers DEF Slot!slot, InStep
<1>2. CASE Slot!Next
  BY <1>2, Numbers DEF Slot!Next, Slot!Take, Slot!Replace, Slot!Free, InStep, TypeOK, Versions
<1> QED BY <1>1, <1>2, SlotStep

LEMMA AttachedMoves ==
  ASSUME TypeOK, [Next]_vars
  PROVE  \/ UNCHANGED attached
         \/ /\ UNCHANGED last_report
            /\ \A c \in Callers : attached'[c] \in {attached[c], last_report}
<1>1. CASE \E c \in Callers : Attach(c)
  BY <1>1 DEF Attach, TypeOK
<1>2. CASE ~\E c \in Callers : Attach(c)
  BY <1>2 DEF Next, TimePasses, TableChanges, CallerStep, Enter, Skip, Claim, Start, StartFails,
     WorkerStep, Answered, Publish, RecordTime, Release, vars
<1> QED BY <1>1, <1>2

LEMMA BehindStep ==
  ASSUME InStep, Behind, [Next]_vars
  PROVE  Behind' /\ \A c \in Callers : attached'[c] >= attached[c]
<1>1. \A c \in Callers : attached[c] \in Nat
  BY DEF InStep, TypeOK, Versions
<1>2. last_report \in Nat /\ last_report' \in Nat
  BY TypeStep, Numbers DEF InStep, TypeOK, Versions
<1>3. CASE UNCHANGED attached
  BY <1>1, <1>2, <1>3, ReportGrows DEF Behind
<1>4. CASE UNCHANGED last_report /\ \A c \in Callers : attached'[c] \in {attached[c], last_report}
  BY <1>1, <1>2, <1>4 DEF Behind
<1> QED BY <1>3, <1>4, AttachedMoves DEF InStep

\* No caller is handed an older report than the one before, whatever the interleaving.
THEOREM SeenAdvance == Spec => ReportsSeenAdvance
<1>1. Init => InStep /\ Behind
  BY TypeInit, HeldInit, InStepInit DEF InStep, Init, Behind
<1>2. InStep /\ Behind /\ [Next]_vars => InStep' /\ Behind'
  BY InStepStep, BehindStep
<1>3. InStep /\ Behind /\ [Next]_vars
        => [\A c \in Callers : attached'[c] >= attached[c]]_attached
  BY BehindStep
<1> QED BY <1>1, <1>2, <1>3, PTL DEF Spec, ReportsSeenAdvance


-----------------------------------------------------------------------------
(* Successes are an interval apart.                                         *)

\* The last time recorded is the latest; who is about to ask, or asks, was decided on an
\* interval after it, and nobody else can record a time meanwhile (Held).
Ages ==
  /\ \A w \in Workers : check[w].timed <= last_check_time
  /\ \A w \in Workers : check[w].at \notin {"releasing", "gone"} => check[w].timed = 0
  /\ \A c \in Callers :
       caller[c].at = "starting" => caller[c].now - last_check_time >= Interval
  /\ \A w \in Workers : check[w].at \in {"asking", "publishing", "timing"} =>
       check[w].begun - last_check_time >= Interval

Apart == TypeOK /\ Held /\ Known /\ Ages /\ SuccessesAreSpaced

LEMMA CheckNumbers ==
  ASSUME TypeOK
  PROVE  /\ \A w \in Workers : check[w].begun \in Nat /\ check[w].timed \in Nat
         /\ Interval \in Nat
BY AuditorAssumption DEF TypeOK, Times, Check

LEMMA ApartCaller ==
  ASSUME Apart, NEW c \in Callers, CallerStep(c)
  PROVE  Ages' /\ SuccessesAreSpaced'
<1> USE Numbers, CheckNumbers DEF Apart, TypeOK, Ages, SuccessesAreSpaced
<1>1. CASE Enter(c)
  BY <1>1 DEF Enter
<1>2. CASE Skip(c) \/ StartFails(c) \/ Attach(c)
  BY <1>2 DEF Skip, StartFails, Attach, Caller
<1>3. CASE Claim(c)
  BY <1>3 DEF Claim, Due, Caller
<1>4. ASSUME NEW w \in Workers, Start(c, w) PROVE Ages' /\ SuccessesAreSpaced'
  <2>1. /\ check'[w].begun = caller[c].now /\ check'[w].timed = 0
        /\ caller[c].now - last_check_time >= Interval
        /\ UNCHANGED last_check_time
    BY <1>4 DEF Start
  <2>2. \A v \in Workers : v # w => check'[v] = check[v]
    BY <1>4 DEF Start
  <2>3. \A d \in Callers : caller'[d].at = "starting" => caller'[d] = caller[d]
    BY <1>4 DEF Start, Caller
  <2>4. Ages'
    BY <2>1, <2>2, <2>3
  <2>5. SuccessesAreSpaced'
    BY <2>1, <2>2
  <2> QED BY <2>4, <2>5
<1> QED BY <1>1, <1>2, <1>3, <1>4 DEF CallerStep

LEMMA ApartWorker ==
  ASSUME Apart, NEW w \in Workers, WorkerStep(w)
  PROVE  Ages' /\ SuccessesAreSpaced'
<1> USE Numbers, CheckNumbers DEF Apart, TypeOK, Ages, SuccessesAreSpaced
<1>1. ASSUME NEW answer \in {"report", "nothing", "raise"}, Answered(w, answer)
      PROVE  Ages' /\ SuccessesAreSpaced'
  BY <1>1 DEF Answered, Check
<1>2. ASSUME Publish(w) \/ Release(w) PROVE Ages' /\ SuccessesAreSpaced'
  <2>1. /\ check[w] \in Check
        /\ \/ check[w].at = "publishing" /\ check' = [check EXCEPT ![w].at = "timing"]
           \/ check[w].at = "releasing" /\ check' = [check EXCEPT ![w].at = "gone"]
        /\ UNCHANGED <<caller, last_check_time>>
    BY <1>2 DEF Publish, Release
  <2>2. \A v \in Workers :
          /\ check'[v].begun = check[v].begun /\ check'[v].timed = check[v].timed
          /\ check'[v].at \in {"asking", "publishing", "timing"}
               => check[v].at \in {"asking", "publishing", "timing"}
          /\ check'[v].at \notin {"releasing", "gone"} => check[v].at \notin {"releasing", "gone"}
    BY <2>1 DEF Check
  <2> QED BY <2>1, <2>2
<1>3. CASE RecordTime(w)
  <2>1. /\ check'[w].at = "releasing" /\ check'[w].timed = clock
        /\ check'[w].begun = check[w].begun
        /\ last_check_time' = clock /\ last_check_time <= clock
        /\ UNCHANGED caller
    BY <1>3 DEF RecordTime, Check, Known
  <2>2. \A v \in Workers : v # w => check'[v] = check[v]
    BY <1>3 DEF RecordTime
  <2>3. /\ \A v \in Workers : v # w => check[v].at \notin {"asking", "publishing", "timing"}
        /\ \A c \in Callers : caller[c].at # "starting"
    BY <1>3 DEF RecordTime, Held, OneCheckAtATime, Alive
  <2>4. Ages'
    BY <2>1, <2>2, <2>3
  <2>5. \A v \in Workers : check[w].begun - check[v].timed >= Interval
    BY <1>3 DEF RecordTime
  <2>6. SuccessesAreSpaced'
    BY <2>1, <2>2, <2>5
  <2> QED BY <2>4, <2>6
<1> QED BY <1>1, <1>2, <1>3 DEF WorkerStep

LEMMA ApartStep == Apart /\ [Next]_vars => Apart'
<1> SUFFICES ASSUME Apart, [Next]_vars PROVE Apart'
  OBVIOUS
<1>1. TypeOK' /\ Held' /\ Known'
  BY TypeStep, HeldStep, KnownStep DEF Apart
<1>2. Ages' /\ SuccessesAreSpaced'
  <2>1. CASE TimePasses \/ TableChanges
    BY <2>1 DEF Apart, TimePasses, TableChanges, Ages, SuccessesAreSpaced
  <2>2. CASE UNCHANGED vars
    BY <2>2 DEF Apart, vars, Ages, SuccessesAreSpaced
  <2> QED BY <2>1, <2>2, ApartCaller, ApartWorker DEF Next
<1> QED BY <1>1, <1>2 DEF Apart

\* For any number of callers and checks, with a clock that is read before the lock is
\* taken: of two checks that succeeded one was decided on check_interval after the
\* other had recorded its time.
THEOREM Spaced == Spec => []SuccessesAreSpaced
<1>1. Init => Apart
  <2>1. Init => Ages /\ SuccessesAreSpaced
    BY AuditorAssumption DEF Init, Ages, SuccessesAreSpaced
  <2> QED BY <2>1, TypeInit, HeldInit, InStepInit DEF Apart
<1>2. Apart => SuccessesAreSpaced
  BY DEF Apart
<1> QED BY <1>1, <1>2, ApartStep, PTL DEF Spec
=============================================================================
