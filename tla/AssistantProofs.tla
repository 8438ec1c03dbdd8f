--------------------------- MODULE AssistantProofs ---------------------------
(***************************************************************************)
(* What holds of the worker, the queue and the window for every number of  *)
(* versions, outcomes and every bound of the queue.                        *)
(*                                                                         *)
(* That the window never goes back and never misses the last tick needs    *)
(* the queue to stay within the backlog limit; then the invariant Ordered  *)
(* says that versions ascend from the labels through the queue to the      *)
(* worker, and Newest that the worker's last tick is the last one in line. *)
(* LastWord follows what the last tick that did not fail has concluded: it *)
(* is on the window or on its way, with nothing but errors behind it.      *)
(***************************************************************************)
EXTENDS Assistant, TLAPS

USE AssistantAssumption

-----------------------------------------------------------------------------
(* Type correctness.                                                        *)

LEMMA AppliedType ==
  ASSUME labels \in Labels, NEW p \in Payload
  PROVE  Applied(p) \in Labels
<1>1. CASE p.action = "none"
  BY <1>1 DEF Applied, Labels, Payload
<1>2. CASE p.action # "none"
  <2>1. p.action \in {"--", "advice", "refusal"}
    BY <1>2 DEF Payload
  <2> QED BY <1>2, <2>1 DEF Applied, AppliedFully, Labels, Payload
<1> QED BY <1>1, <1>2

LEMMA PutType ==
  ASSUME updates \in Seq(Payload), NEW p \in Payload, Put(p)
  PROVE  updates' \in Seq(Payload)
BY DEF Put

LEMMA TypeInit == Init => TypeOK
<1> SUFFICES ASSUME Init PROVE TypeOK
  OBVIOUS
<1>1. 0 \in Versions /\ 1 \in Versions
  BY DEF Versions
<1>2. labels \in Labels /\ last \in Payload
  BY <1>1 DEF Init, Labels, NoPayload, Payload
<1>3. updates \in Seq(Payload)
  BY DEF Init
<1>4. concluded \in Conclusion
  BY <1>1 DEF Init, Conclusion
<1> QED BY <1>1, <1>2, <1>3, <1>4 DEF Init, TypeOK

LEMMA TypeStep == TypeOK /\ [Next]_vars => TypeOK'
<1> SUFFICES ASSUME TypeOK, [Next]_vars PROVE TypeOK'
  OBVIOUS
<1> USE DEF TypeOK, tick, main, life
<1>1. CASE TableChanges
  BY <1>1 DEF TableChanges, Versions
<1>2. CASE Worker
  <2>1. CASE Fetch
    BY <2>1 DEF Fetch
  <2>2. CASE NoState
    BY <2>2 DEF NoState
  <2>3. ASSUME NEW outcome \in {"advice", "refusal"}, Conclude(outcome) PROVE TypeOK'
    <3>1. [action |-> outcome, of |-> reading] \in Payload
      BY DEF Payload
    <3>2. updates' \in Seq(Payload)
      BY <2>3, <3>1, PutType DEF Conclude
    <3>3. concluded' \in Conclusion
      BY <2>3 DEF Conclude, Conclusion
    <3> QED BY <2>3, <3>2, <3>3 DEF Conclude
  <2>4. CASE Fail
    <3>1. [action |-> "none", of |-> reading] \in Payload
      BY DEF Payload
    <3>2. updates' \in Seq(Payload)
      BY <2>4, <3>1, PutType DEF Fail
    <3> QED BY <2>4, <3>2 DEF Fail
  <2>5. CASE Wake
    BY <2>5 DEF Wake
  <2> QED BY <1>2, <2>1, <2>2, <2>3, <2>4, <2>5 DEF Worker
<1>3. CASE Die
  BY <1>3 DEF Die
<1>4. CASE Poller
  <2>1. CASE PollStarts
    BY <2>1 DEF PollStarts
  <2>2. CASE DrainOne
    <3>1. Head(updates) \in Payload /\ Tail(updates) \in Seq(Payload)
      BY <2>2 DEF DrainOne
    <3>2. labels' \in Labels
      BY <2>2, <3>1, AppliedType DEF DrainOne
    <3> QED BY <2>2, <3>1, <3>2 DEF DrainOne
  <2>3. CASE DrainEmpty
    BY <2>3 DEF DrainEmpty
  <2>4. CASE Size
    BY <2>4 DEF Size
  <2>5. CASE DiscardOne
    <3>1. Head(updates) \in Payload /\ Tail(updates) \in Seq(Payload)
      BY <2>5 DEF DiscardOne
    <3> QED BY <2>5, <3>1 DEF DiscardOne
  <2>6. CASE DiscardEmpty
    BY <2>6 DEF DiscardEmpty
  <2>7. CASE Restore
    <3>1. Append(updates, last) \in Seq(Payload)
      OBVIOUS
    <3>2. NoPayload \in Payload
      BY DEF NoPayload, Payload, Versions
    <3> QED BY <2>7, <3>1, <3>2 DEF Restore
  <2> QED BY <1>4, <2>1, <2>2, <2>3, <2>4, <2>5, <2>6, <2>7 DEF Poller
<1>5. CASE StopRequested
  BY <1>5 DEF StopRequested
<1>6. CASE StopCloses
  BY <1>6 DEF StopCloses
<1>7. CASE Destroy \/ UserCloses
  BY <1>7 DEF Destroy, UserCloses
<1>8. CASE UNCHANGED vars
  BY <1>8 DEF vars
<1> QED BY <1>1, <1>2, <1>3, <1>4, <1>5, <1>6, <1>7, <1>8 DEF Next

\* Every reachable state is well typed, whatever the bounds.
THEOREM TypeCorrect == Spec => []TypeOK
<1>1. Init => TypeOK
  BY TypeInit
<1>2. TypeOK /\ [Next]_vars => TypeOK'
  BY TypeStep
<1> QED BY <1>1, <1>2, PTL DEF Spec

-----------------------------------------------------------------------------
(* Only a drawn update changes the labels.                                  *)

LEMMA LabelsMove ==
  ASSUME TypeOK, [Next]_vars
  PROVE  \/ UNCHANGED labels
         \/ /\ DrainOne
            /\ updates # <<>>
            /\ updates[1] \in Payload
            /\ labels' = Applied(updates[1])
<1>1. CASE DrainOne
  BY <1>1 DEF DrainOne, TypeOK
<1>2. CASE ~DrainOne
  BY <1>2 DEF Next, TableChanges, Worker, Fetch, NoState, Conclude, Fail, Wake, Die, Poller,
     PollStarts, DrainEmpty, Size, DiscardOne, DiscardEmpty, Restore, StopRequested,
     StopCloses, Destroy, UserCloses, vars, main
<1> QED BY <1>1, <1>2

-----------------------------------------------------------------------------
(* The order of what is drawn, while the queue stays within the backlog.     *)

\* Versions ascend from the labels through the queue to the worker and the table.
Ordered ==
  /\ labels.action_of <= labels.status_of
  /\ labels.status_of <= reading
  /\ reading <= world
  /\ \A i \in 1..Len(updates) :
       labels.status_of <= updates[i].of /\ updates[i].of <= reading
  /\ \A i, j \in 1..Len(updates) : i <= j => updates[i].of <= updates[j].of

\* Nothing is discarded, so nothing is put back.
NoBacklog ==
  /\ Len(updates) <= MaxQueue
  /\ poller \in {"idle", "draining", "sizing"}

\* Between two ticks the last one in line, queue first, is about the last reading.
Newest ==
  window # "closed" /\ worker \in {"guard", "sleeping"} =>
    reading = IF updates = <<>> THEN labels.status_of ELSE updates[Len(updates)].of

InOrder == TypeOK /\ NoBacklog /\ Ordered /\ Newest

LEMMA Bounds ==
  ASSUME TypeOK
  PROVE  /\ world \in Nat /\ reading \in Nat /\ Len(updates) \in Nat
         /\ labels.status_of \in Nat /\ labels.action_of \in Nat
         /\ \A i \in 1..Len(updates) : updates[i] \in Payload /\ updates[i].of \in Nat
<1>1. \A p \in Payload : p.of \in Nat
  BY DEF Payload, Versions
<1>2. \A i \in 1..Len(updates) : updates[i] \in Payload
  BY DEF TypeOK
<1> QED BY <1>1, <1>2 DEF TypeOK, Labels, Versions

LEMMA InOrderInit == Init => InOrder
<1> SUFFICES ASSUME Init PROVE InOrder
  OBVIOUS
<1>1. TypeOK
  BY TypeInit
<1>2. NoBacklog /\ Ordered /\ Newest
  BY DEF Init, NoBacklog, Ordered, Newest
<1> QED BY <1>1, <1>2 DEF InOrder

\* An update about the version that the worker reads keeps the queue in order.
LEMMA PutInOrder ==
  ASSUME InOrder, NEW p \in Payload, p.of = reading, Put(p), worker' = "sleeping",
         UNCHANGED <<world, reading, labels, poller, window>>
  PROVE  NoBacklog' /\ Ordered' /\ Newest'
<1>1. CASE window = "closed"
  BY <1>1 DEF Put, InOrder, NoBacklog, Ordered, Newest
<1>2. CASE window # "closed"
  <2>1. /\ Len(updates) < MaxQueue
        /\ updates' = Append(updates, p)
    BY <1>2 DEF Put
  <2>2. /\ Len(updates') = Len(updates) + 1
        /\ \A i \in 1..Len(updates) : updates'[i] = updates[i]
        /\ updates'[Len(updates) + 1] = p
    BY <2>1 DEF InOrder, TypeOK
  <2>3. NoBacklog'
    BY <2>1, <2>2, Bounds DEF InOrder, NoBacklog
  <2>4. \A i \in 1..Len(updates') :
          labels'.status_of <= updates'[i].of /\ updates'[i].of <= reading'
    BY <2>2, Bounds DEF InOrder, Ordered
  <2>5. \A i, j \in 1..Len(updates') : i <= j => updates'[i].of <= updates'[j].of
    <3> SUFFICES ASSUME NEW i \in 1..Len(updates'), NEW j \in 1..Len(updates'), i <= j
                 PROVE  updates'[i].of <= updates'[j].of
      OBVIOUS
    <3>1. CASE j = Len(updates) + 1
      BY <3>1, <2>2, <2>4
    <3>2. CASE j # Len(updates) + 1
      BY <3>2, <2>2, Bounds DEF InOrder, Ordered
    <3> QED BY <3>1, <3>2
  <2>6. Newest'
    BY <2>1, <2>2, Bounds DEF InOrder, Newest
  <2> QED BY <2>3, <2>4, <2>5, <2>6 DEF InOrder, Ordered
<1> QED BY <1>1, <1>2

\* Drawing the head of the queue keeps the rest in order.
LEMMA DrainInOrder ==
  ASSUME InOrder, DrainOne
  PROVE  NoBacklog' /\ Ordered' /\ Newest'
<1>1. /\ updates' = Tail(updates) /\ Len(updates) > 0
      /\ labels' = Applied(updates[1])
      /\ UNCHANGED <<world, worker, reading, poller, window>>
  BY DEF DrainOne, InOrder, TypeOK, tick, life
<1>2. /\ Len(updates') = Len(updates) - 1
      /\ \A i \in 1..Len(updates') : updates'[i] = updates[i + 1]
  BY <1>1 DEF InOrder, TypeOK
<1>3. updates[1] \in Payload /\ updates[1].of \in Nat /\ labels \in Labels
  BY <1>1, Bounds DEF InOrder, TypeOK
<1>4. labels'.status_of = updates[1].of
  BY <1>1, <1>3 DEF Applied, AppliedFully, Labels
<1>5. labels'.action_of \in {labels.action_of, updates[1].of}
  BY <1>1, <1>3 DEF Applied, AppliedFully, Labels
<1>6. labels.action_of <= updates[1].of /\ updates[1].of <= reading
  BY <1>1, <1>3, Bounds DEF InOrder, Ordered
<1>7. NoBacklog'
  BY <1>1, <1>2, Bounds DEF InOrder, NoBacklog
<1>8. \A i \in 1..Len(updates') : updates[1].of <= updates[i + 1].of /\ updates[i + 1].of <= reading
  BY <1>1, <1>2, Bounds DEF InOrder, Ordered
<1>9. \A i, j \in 1..Len(updates') : i <= j => updates[i + 1].of <= updates[j + 1].of
  BY <1>2, Bounds DEF InOrder, Ordered
<1>10. Ordered'
  <2>1. labels'.action_of <= labels'.status_of
    BY <1>3, <1>4, <1>5, <1>6
  <2> QED BY <2>1, <1>1, <1>2, <1>4, <1>6, <1>8, <1>9 DEF InOrder, Ordered
<1>11. Newest'
  <2>1. CASE Len(updates) = 1
    <3>1. updates' = <<>>
      BY <2>1, <1>1, <1>2 DEF InOrder, TypeOK
    <3> QED BY <2>1, <3>1, <1>1, <1>4 DEF InOrder, Newest
  <2>2. CASE Len(updates) # 1
    <3>1. Len(updates) \in Nat
      BY Bounds DEF InOrder
    <3>2. \A n \in Nat : n # 1 /\ n > 0 => n > 1
      OBVIOUS
    <3>3. Len(updates) > 1
      BY <2>2, <1>1, <3>1, <3>2
    <3>4. Len(updates') = Len(updates) - 1
      BY <1>2
    <3>5. Len(updates') \in 1..Len(updates') /\ Len(updates') + 1 = Len(updates)
      BY <3>1, <3>3, <3>4
    <3>6. updates'[Len(updates')] = updates[Len(updates)]
      BY <3>5, <1>2
    <3>7. updates' # <<>>
      BY <3>5
    <3> QED BY <3>6, <3>7, <1>1 DEF InOrder, Newest
  <2> QED BY <2>1, <2>2
<1> QED BY <1>7, <1>10, <1>11

LEMMA InOrderStep ==
  ASSUME MaxQueue <= BacklogLimit, InOrder, [Next]_vars
  PROVE  InOrder'
<1>0. TypeOK'
  BY TypeStep DEF InOrder
<1> SUFFICES NoBacklog' /\ Ordered' /\ Newest'
  BY <1>0 DEF InOrder
<1> USE DEF tick, main, life
<1>1. CASE TableChanges
  <2>1. reading <= world'
    BY <1>1, Bounds DEF TableChanges, InOrder, Ordered
  <2> QED BY <2>1, <1>1 DEF TableChanges, InOrder, NoBacklog, Ordered, Newest
<1>2. CASE Fetch
  <2>1. CASE running
    <3>1. /\ reading' = world /\ worker' = "deciding"
          /\ UNCHANGED <<world, updates, labels, poller>>
      BY <2>1, <1>2 DEF Fetch
    <3>2. NoBacklog' /\ Newest'
      BY <3>1 DEF InOrder, NoBacklog, Newest
    <3>3. reading <= reading'
      BY <3>1 DEF InOrder, Ordered
    <3>4. \A n \in Nat : n <= reading => n <= reading'
      BY <3>3, <1>0, Bounds DEF InOrder, TypeOK, Versions
    <3>5. \A i \in 1..Len(updates) : updates[i].of <= reading'
      BY <3>4, Bounds DEF InOrder, Ordered
    <3>6. labels.status_of <= reading'
      BY <3>4, Bounds DEF InOrder, Ordered
    <3>7. reading' <= world'
      BY <3>1, Bounds DEF InOrder
    <3>8. Ordered'
      BY <3>1, <3>5, <3>6, <3>7 DEF InOrder, Ordered
    <3> QED BY <3>2, <3>8
  <2>2. CASE ~running
    BY <2>2, <1>2 DEF Fetch, InOrder, NoBacklog, Ordered, Newest
  <2> QED BY <2>1, <2>2
<1>3. CASE NoState
  <2>1. NoBacklog' /\ Ordered'
    BY <1>3 DEF NoState, InOrder, NoBacklog, Ordered
  <2>2. /\ reading = 0
        /\ UNCHANGED <<updates, labels, reading>>
    BY <1>3 DEF NoState
  <2>3. labels.status_of = 0
    BY <2>2, Bounds DEF InOrder, Ordered
  <2>4. updates # <<>> => updates[Len(updates)].of = 0
    <3> SUFFICES ASSUME updates # <<>> PROVE updates[Len(updates)].of = 0
      OBVIOUS
    <3>1. Len(updates) \in 1..Len(updates)
      BY Bounds DEF InOrder, TypeOK
    <3> QED BY <3>1, <2>2, Bounds DEF InOrder, Ordered
  <2> QED BY <2>1, <2>2, <2>3, <2>4 DEF Newest
<1>4. ASSUME NEW outcome \in {"advice", "refusal"}, Conclude(outcome)
      PROVE  NoBacklog' /\ Ordered' /\ Newest'
  <2> DEFINE p == [action |-> outcome, of |-> reading]
  <2>1. p \in Payload /\ p.of = reading
    BY DEF Payload, InOrder, TypeOK
  <2>2. Put(p) /\ worker' = "sleeping" /\ UNCHANGED <<world, reading, labels, poller, window>>
    BY <1>4 DEF Conclude
  <2> QED BY <2>1, <2>2, PutInOrder
<1>5. CASE Fail
  <2> DEFINE p == [action |-> "none", of |-> reading]
  <2>1. p \in Payload /\ p.of = reading
    BY DEF Payload, InOrder, TypeOK
  <2>2. Put(p) /\ worker' = "sleeping" /\ UNCHANGED <<world, reading, labels, poller, window>>
    BY <1>5 DEF Fail
  <2> QED BY <2>1, <2>2, PutInOrder
<1>6. CASE Wake \/ Die
  BY <1>6 DEF Wake, Die, InOrder, NoBacklog, Ordered, Newest
<1>7. CASE DrainOne
  BY <1>7, DrainInOrder
<1>8. CASE PollStarts \/ DrainEmpty
  BY <1>8 DEF PollStarts, DrainEmpty, InOrder, NoBacklog, Ordered, Newest
<1>9. CASE Size
  <2>1. poller' = "idle"
    BY <1>9, Bounds DEF Size, InOrder, NoBacklog
  <2> QED BY <2>1, <1>9 DEF Size, InOrder, NoBacklog, Ordered, Newest
<1>10. CASE DiscardOne \/ DiscardEmpty \/ Restore
  BY <1>10 DEF DiscardOne, DiscardEmpty, Restore, InOrder, NoBacklog
<1>11. CASE StopRequested \/ StopCloses \/ Destroy \/ UserCloses
  BY <1>11 DEF StopRequested, StopCloses, Destroy, UserCloses, InOrder, NoBacklog, Ordered, Newest
<1>12. CASE UNCHANGED vars
  BY <1>12 DEF vars, InOrder, NoBacklog, Ordered, Newest
<1> QED
  BY <1>1, <1>2, <1>3, <1>4, <1>5, <1>6, <1>7, <1>8, <1>9, <1>10, <1>11, <1>12
  DEF Next, Worker, Poller

\* While the queue never exceeds the backlog limit, no update is drawn after a newer
\* one.  Without that hypothesis it is false: the run assistant_overtaken.
THEOREM WindowNeverGoesBack ==
  ASSUME MaxQueue <= BacklogLimit
  PROVE  Spec => ShownNeverGoesBack
<1>1. Init => InOrder
  BY InOrderInit
<1>2. InOrder /\ [Next]_vars => InOrder'
  BY InOrderStep
<1>3. InOrder /\ [Next]_vars
        => [/\ labels'.status_of >= labels.status_of
            /\ labels'.action_of >= labels.action_of]_labels
  <2> SUFFICES ASSUME InOrder, [Next]_vars, labels' # labels
               PROVE  labels'.status_of >= labels.status_of /\ labels'.action_of >= labels.action_of
    OBVIOUS
  <2>1. updates # <<>> /\ updates[1] \in Payload /\ labels' = Applied(updates[1])
    BY LabelsMove DEF InOrder
  <2>2. 1 \in 1..Len(updates)
    BY <2>1, Bounds DEF InOrder, TypeOK
  <2>3. labels.action_of <= updates[1].of /\ labels.status_of <= updates[1].of
    BY <2>2, Bounds DEF InOrder, Ordered
  <2>4. labels'.status_of = updates[1].of /\ labels'.action_of \in {labels.action_of, updates[1].of}
    BY <2>1 DEF InOrder, TypeOK, Applied, AppliedFully, Labels
  <2> QED BY <2>2, <2>3, <2>4, Bounds DEF InOrder
<1> QED BY <1>1, <1>2, <1>3, PTL DEF Spec, ShownNeverGoesBack

\* Under the same hypothesis a window with nothing left to draw shows the last tick.
THEOREM NothingIsLost ==
  ASSUME MaxQueue <= BacklogLimit
  PROVE  Spec => []DrawnIsNewest
<1>1. Init => InOrder
  BY InOrderInit
<1>2. InOrder /\ [Next]_vars => InOrder'
  BY InOrderStep
<1>3. InOrder => DrawnIsNewest
  BY DEF InOrder, Newest, DrawnIsNewest
<1> QED BY <1>1, <1>2, <1>3, PTL DEF Spec

-----------------------------------------------------------------------------
(* What a failing tick leaves on the window.                                 *)

\* The labels a failed tick does not write.
Kept == <<labels.action, labels.action_of, labels.hand_of>>

\* The last conclusion is drawn and only errors are on their way.
Drawn ==
  /\ \A i \in 1..Len(updates) : updates[i].action = "none"
  /\ Kept = <<concluded.action, concluded.of, concluded.of>>

\* The last conclusion is in the queue, with only errors behind it.
Queued ==
  /\ concluded.action # "none"
  /\ \E i \in 1..Len(updates) :
       /\ updates[i].action = concluded.action /\ updates[i].of = concluded.of
       /\ \A j \in 1..Len(updates) : j > i => updates[j].action = "none"

\* A table that was read and not concluded about has left an error, queue first.
ErrorLast ==
  IF updates = <<>> THEN labels.failed ELSE updates[Len(updates)].action = "none"

LastWord ==
  /\ concluded.of <= reading
  /\ window # "closed" => Drawn \/ Queued
  /\ window # "closed" /\ worker \in {"guard", "sleeping"} /\ concluded.of # reading
       => ErrorLast

LEMMA ConcludedType ==
  ASSUME TypeOK
  PROVE  concluded.of \in Nat /\ concluded.action \in {"--", "advice", "refusal"}
BY DEF TypeOK, Conclusion, Versions

LEMMA LastWordInit == Init => LastWord
BY DEF Init, LastWord, Drawn, Kept

\* An update that is drawn leaves the last conclusion where LastWord finds it.
LEMMA DrainLastWord ==
  ASSUME TypeOK, LastWord, DrainOne
  PROVE  LastWord'
<1>1. /\ updates' = Tail(updates) /\ Len(updates) > 0
      /\ labels' = Applied(updates[1])
      /\ UNCHANGED <<worker, reading, window, concluded>>
  BY DEF DrainOne, TypeOK, tick, life
<1>2. /\ Len(updates') = Len(updates) - 1
      /\ \A i \in 1..Len(updates') : updates'[i] = updates[i + 1]
  BY <1>1 DEF TypeOK
<1>3. updates[1] \in Payload /\ labels \in Labels
  BY <1>1, Bounds DEF TypeOK
<1>4. updates[1].action = "none" => Kept' = Kept /\ labels'.failed
  BY <1>1, <1>3 DEF Applied, Labels, Kept
<1>5. updates[1].action # "none"
        => Kept' = <<updates[1].action, updates[1].of, updates[1].of>>
  BY <1>1, <1>3 DEF Applied, AppliedFully, Kept
<1>6. window # "closed" => Drawn' \/ Queued'
  <2> SUFFICES ASSUME window # "closed" PROVE Drawn' \/ Queued'
    OBVIOUS
  <2>1. CASE Drawn
    <3>1. updates[1].action = "none"
      BY <2>1, <1>1, Bounds DEF Drawn
    <3>2. \A i \in 1..Len(updates') : updates'[i].action = "none"
      BY <2>1, <1>2, Bounds DEF Drawn
    <3> QED BY <3>1, <3>2, <2>1, <1>1, <1>4 DEF Drawn
  <2>2. CASE Queued
    <3>1. PICK i \in 1..Len(updates) :
            /\ updates[i].action = concluded.action /\ updates[i].of = concluded.of
            /\ \A j \in 1..Len(updates) : j > i => updates[j].action = "none"
      BY <2>2 DEF Queued
    <3>2. CASE i = 1
      <4>1. \A k \in 1..Len(updates') : updates'[k].action = "none"
        BY <3>1, <3>2, <1>2, Bounds
      <4>2. Kept' = <<concluded.action, concluded.of, concluded.of>>
        BY <3>1, <3>2, <1>5, <2>2 DEF Queued
      <4> QED BY <4>1, <4>2, <1>1 DEF Drawn
    <3>3. CASE i # 1
      <4>1. i - 1 \in 1..Len(updates')
        BY <3>3, <1>2, Bounds
      <4>2. updates'[i - 1].action = concluded.action /\ updates'[i - 1].of = concluded.of
        BY <4>1, <3>1, <1>2
      <4>3. \A j \in 1..Len(updates') : j > i - 1 => updates'[j].action = "none"
        BY <3>1, <1>2, Bounds
      <4> QED BY <4>1, <4>2, <4>3, <2>2, <1>1 DEF Queued
    <3> QED BY <3>2, <3>3
  <2> QED BY <2>1, <2>2 DEF LastWord
<1>7. ErrorLast => ErrorLast'
  <2> SUFFICES ASSUME ErrorLast PROVE ErrorLast'
    OBVIOUS
  <2>1. updates # <<>> /\ updates[Len(updates)].action = "none"
    BY <1>1 DEF ErrorLast, TypeOK
  <2>2. CASE Len(updates) = 1
    <3>1. updates' = <<>>
      BY <2>2, <1>1, <1>2 DEF TypeOK
    <3> QED BY <3>1, <2>1, <2>2, <1>4 DEF ErrorLast
  <2>3. CASE Len(updates) # 1
    <3>1. \A n \in Nat : n # 1 /\ n > 0 => n - 1 \in 1..(n - 1) /\ (n - 1) + 1 = n
      OBVIOUS
    <3>2. Len(updates') \in 1..Len(updates') /\ Len(updates') + 1 = Len(updates)
      BY <2>3, <1>1, <1>2, <3>1, Bounds
    <3>3. updates'[Len(updates')] = updates[Len(updates)] /\ updates' # <<>>
      BY <3>2, <1>2
    <3> QED BY <3>3, <2>1 DEF ErrorLast
  <2> QED BY <2>2, <2>3
<1> QED BY <1>1, <1>6, <1>7 DEF LastWord

\* While nothing is discarded, every step keeps LastWord.
LEMMA LastWordStep ==
  ASSUME MaxQueue <= BacklogLimit, InOrder, LastWord, [Next]_vars
  PROVE  LastWord'
<1>0. TypeOK
  BY DEF InOrder
<1> USE DEF tick, main, life
<1>1. CASE Fetch
  <2>1. CASE running
    <3>1. reading' = world /\ worker' = "deciding" /\ UNCHANGED <<updates, labels, window, concluded>>
      BY <2>1, <1>1 DEF Fetch
    <3>2. reading <= world /\ reading \in Nat /\ world \in Nat
      BY Bounds DEF InOrder, Ordered
    <3>3. concluded.of <= reading'
      BY <3>1, <3>2, <1>0, ConcludedType DEF LastWord
    <3> QED BY <3>1, <3>3 DEF LastWord, Drawn, Queued, Kept
  <2>2. CASE ~running
    BY <2>2, <1>1 DEF Fetch, LastWord, Drawn, Queued, Kept
  <2> QED BY <2>1, <2>2
<1>2. CASE NoState
  <2>1. /\ reading = 0 /\ reading' = 0
        /\ UNCHANGED <<updates, labels, window, concluded>>
    BY <1>2 DEF NoState
  <2>2. concluded.of = reading
    BY <2>1, <1>0, ConcludedType DEF LastWord
  <2> QED BY <2>1, <2>2 DEF LastWord, Drawn, Queued, Kept
<1>3. ASSUME NEW outcome \in {"advice", "refusal"}, Conclude(outcome)
      PROVE  LastWord'
  <2> DEFINE p == [action |-> outcome, of |-> reading]
  <2>1. /\ Put(p) /\ concluded' = p
        /\ UNCHANGED <<reading, labels, window>>
    BY <1>3 DEF Conclude
  <2>2. concluded'.of = reading' /\ concluded'.of <= reading'
    BY <2>1, <1>0, Bounds
  <2>3. CASE window = "closed"
    BY <2>1, <2>2, <2>3 DEF LastWord
  <2>4. CASE window # "closed"
    <3>1. updates' = Append(updates, p)
      BY <2>1, <2>4 DEF Put
    <3>2. /\ Len(updates') = Len(updates) + 1
          /\ updates'[Len(updates) + 1] = p
          /\ Len(updates) + 1 \in 1..Len(updates')
      BY <3>1, <1>0, Bounds DEF TypeOK
    <3>3. \A j \in 1..Len(updates') : ~(j > Len(updates) + 1)
      BY <3>2, <1>0, Bounds
    <3>4. concluded'.action # "none"
      BY <2>1
    <3>5. updates'[Len(updates) + 1] = concluded'
      BY <3>2, <2>1
    <3>6. Queued'
      BY <3>2, <3>3, <3>4, <3>5 DEF Queued
    <3> QED BY <3>6, <2>2 DEF LastWord
  <2> QED BY <2>3, <2>4
<1>4. CASE Fail
  <2> DEFINE p == [action |-> "none", of |-> reading]
  <2>1. Put(p) /\ UNCHANGED <<reading, labels, window, concluded>>
    BY <1>4 DEF Fail
  <2>2. CASE window = "closed"
    BY <2>1, <2>2 DEF LastWord
  <2>3. CASE window # "closed"
    <3>1. updates' = Append(updates, p)
      BY <2>1, <2>3 DEF Put
    <3>2. /\ Len(updates') = Len(updates) + 1 /\ updates' # <<>>
          /\ \A i \in 1..Len(updates) : updates'[i] = updates[i]
          /\ updates'[Len(updates) + 1].action = "none"
      BY <3>1, <1>0, Bounds DEF TypeOK
    <3>3. Drawn => Drawn'
      BY <3>2, <2>1, <1>0, Bounds DEF Drawn, Kept
    <3>4. Queued => Queued'
      <4> SUFFICES ASSUME Queued PROVE Queued'
        OBVIOUS
      <4>1. PICK i \in 1..Len(updates) :
              /\ updates[i].action = concluded.action /\ updates[i].of = concluded.of
              /\ \A j \in 1..Len(updates) : j > i => updates[j].action = "none"
        BY DEF Queued
      <4>2. i \in 1..Len(updates') /\ updates'[i] = updates[i]
        BY <3>2, <1>0, Bounds
      <4>3. \A j \in 1..Len(updates) : j > i => updates'[j].action = "none"
        BY <4>1, <3>2
      <4>4. \A j \in 1..Len(updates') : j \in 1..Len(updates) \/ j = Len(updates) + 1
        BY <3>2, <1>0, Bounds
      <4>5. \A j \in 1..Len(updates') : j > i => updates'[j].action = "none"
        BY <4>3, <4>4, <3>2
      <4> QED BY <4>1, <4>2, <4>5, <2>1 DEF Queued
    <3>5. ErrorLast'
      BY <3>2 DEF ErrorLast
    <3> QED BY <3>3, <3>4, <3>5, <2>1, <2>3 DEF LastWord
  <2> QED BY <2>2, <2>3
<1>5. CASE Wake \/ Die
  BY <1>5 DEF Wake, Die, LastWord, Drawn, Queued, ErrorLast, Kept
<1>6. CASE DrainOne
  BY <1>6, <1>0, DrainLastWord
<1>7. CASE TableChanges \/ PollStarts \/ DrainEmpty \/ Size
  BY <1>7 DEF TableChanges, PollStarts, DrainEmpty, Size, LastWord, Drawn, Queued, ErrorLast, Kept
<1>8. CASE DiscardOne \/ DiscardEmpty \/ Restore
  BY <1>8 DEF DiscardOne, DiscardEmpty, Restore, InOrder, NoBacklog
<1>9. CASE StopRequested \/ StopCloses \/ Destroy \/ UserCloses
  BY <1>9 DEF StopRequested, StopCloses, Destroy, UserCloses, LastWord, Drawn, Queued, ErrorLast, Kept
<1>10. CASE UNCHANGED vars
  BY <1>10 DEF vars, LastWord, Drawn, Queued, ErrorLast, Kept
<1> QED
  BY <1>1, <1>2, <1>3, <1>4, <1>5, <1>6, <1>7, <1>8, <1>9, <1>10 DEF Next, Worker, Poller

\* While the queue never exceeds the backlog limit, a drained window shows the action
\* of the last tick that did not fail, and an action for an older table only beside
\* an error.  Without that hypothesis the conclusion may be discarded with a backlog
\* that ends in an error.
THEOREM StaleActionIsMarked ==
  ASSUME MaxQueue <= BacklogLimit
  PROVE  Spec => []ActionOutlivesOnlyFailures
<1>1. Init => InOrder /\ LastWord
  BY InOrderInit, LastWordInit
<1>2. InOrder /\ LastWord /\ [Next]_vars => InOrder' /\ LastWord'
  BY InOrderStep, LastWordStep
<1>3. InOrder /\ LastWord => ActionOutlivesOnlyFailures
  <2> SUFFICES ASSUME InOrder, LastWord, updates = <<>>, window # "closed", worker = "sleeping"
               PROVE  /\ labels.action = concluded.action
                      /\ labels.action_of = concluded.of /\ labels.hand_of = concluded.of
                      /\ labels.action_of # reading => labels.failed
    BY DEF ActionOutlivesOnlyFailures
  <2>1. ~Queued
    BY DEF Queued
  <2>2. Kept = <<concluded.action, concluded.of, concluded.of>>
    BY <2>1 DEF LastWord, Drawn
  <2>3. concluded.of # reading => labels.failed
    BY DEF LastWord, ErrorLast
  <2> QED BY <2>2, <2>3 DEF Kept
<1> QED BY <1>1, <1>2, <1>3, PTL DEF Spec

=============================================================================
