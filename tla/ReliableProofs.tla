--------------------------- MODULE ReliableProofs ---------------------------
(***************************************************************************)
(* Proofs about Reliable, for any set of packets, any size of the table and *)
(* any number of retries, and for answers and echoes that come at any time  *)
(* (RelSpec): the table, its timer, its verdicts and its air time.          *)
(***************************************************************************)
EXTENDS Reliable, FiniteSetTheorems, TLAPS

\* The types and the inclusions that hold together; the size of the table is apart.
Shape ==
    /\ accepted \subseteq Sends /\ tracked \subseteq Sends /\ failed \subseteq Sends
    /\ late \subseteq tracked /\ due \subseteq late
    /\ left \in [Sends -> 0..RETRIES]
    /\ armed \in BOOLEAN /\ worker \in {"off", "entered", "telling"}
    /\ submits \in [Sends -> Nat]
    /\ verdicts \in [Sends -> Nat]
    /\ retransmits \in [Sends -> Nat]

\* A budget is never more than the schedule's reliable_retries.
LEMMA BudgetBound == \A s \in Sends : Budget(s) \in 0..RETRIES
  BY ReliableAssumption DEF Budget, BROADCAST_RETRIES

\* Every step keeps the types.
LEMMA ShapeStep == Shape /\ [RelNext]_relVars => Shape'
<1> SUFFICES ASSUME Shape, [RelNext]_relVars PROVE Shape'
  OBVIOUS
<1> USE ReliableAssumption, BudgetBound
<1>1. ASSUME NEW s \in Sends, Submit(s) PROVE Shape'
  BY <1>1 DEF Shape, Submit, table, work
<1>2. ASSUME NEW s \in Sends, Track(s) PROVE Shape'
  <2>1. CASE UNCHANGED <<table, armed, due>>
    BY <1>2, <2>1 DEF Shape, Track, table, counts
  <2>2. CASE /\ \E e \in Evicted : /\ tracked' = (tracked \ e) \cup {s}
                                   /\ late' = late \ e /\ due' = due \ e
             /\ left' = [left EXCEPT ![s] = Budget(s)]
             /\ Reschedule(tracked')
    <3>1. left' \in [Sends -> 0..RETRIES]
      BY <2>2 DEF Shape
    <3>2. /\ tracked' \subseteq Sends
          /\ late' \subseteq tracked' /\ due' \subseteq late'
      BY <2>2 DEF Shape
    <3>3. armed' \in BOOLEAN
      BY <2>2 DEF Reschedule
    <3> QED BY <1>2, <3>1, <3>2, <3>3 DEF Shape, Track, counts
  <2> QED BY <1>2, <2>1, <2>2 DEF Track
<1>3. ASSUME NEW s \in Sends, Elapse(s) PROVE Shape'
  BY <1>3 DEF Shape, Elapse, work, counts
<1>4. ASSUME NEW s \in Sends, Notify(s) PROVE Shape'
  BY <1>4 DEF Shape, Notify, table
<1>5. ASSUME NEW s \in Sends, Resolve(s) PROVE Shape'
  <2>1. CASE s \in tracked
    <3>1. Drop(s) /\ verdicts' = [verdicts EXCEPT ![s] = @ + 1]
      BY <1>5, <2>1 DEF Resolve, relVars, table
    <3>2. UNCHANGED <<accepted, left, worker, failed, submits, retransmits>>
      BY <1>5, <2>1 DEF Resolve
    <3>3. /\ tracked' \subseteq Sends
          /\ late' \subseteq tracked' /\ due' \subseteq late'
      BY <3>1 DEF Drop, Shape
    <3>4. armed' \in BOOLEAN
      BY <3>1 DEF Drop, Reschedule
    <3>5. verdicts' \in [Sends -> Nat]
      BY <3>1 DEF Shape
    <3> QED BY <3>2, <3>3, <3>4, <3>5 DEF Shape
  <2>2. CASE s \notin tracked
    BY <1>5, <2>2 DEF Shape, Resolve, relVars, table, work, counts
  <2> QED BY <2>1, <2>2
<1>6. CASE WorkerEnter
  BY <1>6 DEF Shape, WorkerEnter, table, counts
<1>7. CASE WorkerScan
  <2>1. left' \in [Sends -> 0..RETRIES]
    BY <1>7 DEF Shape, WorkerScan, Exhausted
  <2>2. retransmits' \in [Sends -> Nat]
    BY <1>7 DEF Shape, WorkerScan
  <2> QED BY <1>7, <2>1, <2>2 DEF Shape, WorkerScan, Exhausted, Reschedule
<1>8. CASE UNCHANGED relVars
  BY <1>8 DEF Shape, relVars, table, work, counts
<1> QED BY <1>1, <1>2, <1>3, <1>4, <1>5, <1>6, <1>7, <1>8 DEF RelNext

\* RelInit and the steps of RelNext give the types at all times.
LEMMA ShapeAlways == RelSpec => []Shape
<1>1. RelInit => Shape
  <2> SUFFICES ASSUME RelInit PROVE Shape
    OBVIOUS
  <2>1. left \in [Sends -> 0..RETRIES]
    BY ReliableAssumption DEF RelInit
  <2>2. /\ submits \in [Sends -> Nat] /\ verdicts \in [Sends -> Nat]
        /\ retransmits \in [Sends -> Nat]
    BY DEF RelInit
  <2>3. armed \in BOOLEAN
    BY DEF RelInit
  <2> QED BY <2>1, <2>2, <2>3 DEF RelInit, Shape
<1> QED BY <1>1, ShapeStep, PTL DEF RelSpec

\* The table as a finite set that fits its array.
Fits == IsFiniteSet(tracked) /\ Cardinality(tracked) <= PEND_MAX

\* A new packet takes a free slot, or the slot of the one it evicts.
LEMMA EvictedShape ==
  ASSUME Shape, Fits, NEW e \in Evicted, NEW s, s \notin tracked
  PROVE  /\ IsFiniteSet((tracked \ e) \cup {s})
         /\ Cardinality((tracked \ e) \cup {s}) <= PEND_MAX
<1> USE ReliableAssumption
<1>1. IsFiniteSet(tracked) /\ Cardinality(tracked) \in Nat
  BY FS_CardinalityType DEF Fits
<1>2. CASE Cardinality(tracked) < PEND_MAX
  <2>1. e = {} BY <1>2 DEF Evicted
  <2>2. (tracked \ e) \cup {s} = tracked \cup {s} BY <2>1
  <2>3. IsFiniteSet(tracked \cup {s}) /\ Cardinality(tracked \cup {s}) = Cardinality(tracked) + 1
    BY <1>1, FS_AddElement
  <2>4. Cardinality(tracked) + 1 <= PEND_MAX
    BY <1>1, <1>2
  <2> QED BY <2>2, <2>3, <2>4
<1>3. CASE ~(Cardinality(tracked) < PEND_MAX)
  <2>1. tracked # {}
    BY <1>1, <1>3, FS_EmptySet
  <2>2. PICK x \in (IF late # {} THEN late ELSE tracked) : e = {x}
    BY <1>3 DEF Evicted
  <2>3. x \in tracked
    BY <2>2 DEF Shape
  <2>4. IsFiniteSet(tracked \ {x}) /\ Cardinality(tracked \ {x}) = Cardinality(tracked) - 1
    BY <1>1, <2>3, FS_RemoveElement
  <2>5. s \notin tracked \ {x}
    OBVIOUS
  <2>6. /\ IsFiniteSet((tracked \ {x}) \cup {s})
        /\ Cardinality((tracked \ {x}) \cup {s}) = Cardinality(tracked \ {x}) + 1
    BY <2>4, <2>5, FS_AddElement
  <2>7. Cardinality(tracked) <= PEND_MAX
    BY DEF Fits
  <2> QED BY <1>1, <2>2, <2>4, <2>6, <2>7
<1> QED BY <1>2, <1>3

\* Only on_tx adds to the table.
LEMMA FitsStep == Shape /\ Fits /\ [RelNext]_relVars => Fits'
<1> SUFFICES ASSUME Shape, Fits, [RelNext]_relVars PROVE Fits'
  OBVIOUS
<1>1. CASE tracked' \subseteq tracked
  <2>1. IsFiniteSet(tracked') /\ Cardinality(tracked') <= Cardinality(tracked)
    BY <1>1, FS_Subset DEF Fits
  <2>2. Cardinality(tracked) \in Nat /\ Cardinality(tracked') \in Nat
    BY <2>1, FS_CardinalityType DEF Fits
  <2> QED BY <2>1, <2>2, ReliableAssumption DEF Fits
<1>2. ASSUME NEW s \in Sends, Track(s) PROVE Fits'
  <2>1. CASE UNCHANGED <<table, armed, due>>
    BY <2>1, <1>1 DEF table
  <2>2. CASE s \notin tracked /\ \E e \in Evicted : tracked' = (tracked \ e) \cup {s}
    BY <2>2, EvictedShape DEF Fits
  <2> QED BY <1>2, <2>1, <2>2 DEF Track
<1>3. ASSUME NEW s \in Sends, Submit(s) \/ Elapse(s) \/ Notify(s) \/ Resolve(s)
      PROVE  tracked' \subseteq tracked
  BY <1>3 DEF Submit, Elapse, Notify, Resolve, Drop, relVars, table
<1>4. WorkerEnter \/ WorkerScan => tracked' \subseteq tracked
  BY DEF WorkerEnter, WorkerScan, table
<1>5. UNCHANGED relVars => tracked' \subseteq tracked
  BY DEF relVars, table
<1> QED BY <1>1, <1>2, <1>3, <1>4, <1>5 DEF RelNext

\* "Types; the table fits its array": no path writes past pend[PEND_MAX], for any number
\* of packets and any order of sends, answers and retransmissions.
THEOREM TableFits == RelSpec => []RelTypeOK
<1>1. RelInit => Fits
  BY FS_EmptySet, ReliableAssumption DEF RelInit, Fits
<1>2. Shape /\ Fits => RelTypeOK
  BY DEF Shape, Fits, RelTypeOK
<1> QED BY <1>1, <1>2, ShapeAlways, FitsStep, PTL DEF RelSpec

-----------------------------------------------------------------------------
\* TimerCoversTable is inductive with the types: every path that adds to the table or
\* takes from it ends in reschedule_locked, and the worker stops the timer only to scan.
THEOREM NothingStranded == RelSpec => []TimerCoversTable
<1>1. RelInit => TimerCoversTable
  BY DEF RelInit, TimerCoversTable
<1>2. Shape /\ TimerCoversTable /\ [RelNext]_relVars => TimerCoversTable'
  <2> SUFFICES ASSUME Shape, TimerCoversTable, [RelNext]_relVars PROVE TimerCoversTable'
    OBVIOUS
  <2>1. ASSUME NEW s \in Sends, Submit(s) PROVE TimerCoversTable'
    BY <2>1 DEF TimerCoversTable, Submit, table, work
  <2>2. ASSUME NEW s \in Sends, Track(s) PROVE TimerCoversTable'
    <3>1. CASE UNCHANGED <<table, armed, due>>
      BY <2>2, <3>1 DEF TimerCoversTable, Track, table
    <3>2. CASE Reschedule(tracked')
      BY <3>2 DEF TimerCoversTable, Reschedule
    <3> QED BY <2>2, <3>1, <3>2 DEF Track
  <2>3. ASSUME NEW s \in Sends, Elapse(s) PROVE TimerCoversTable'
    BY <2>3 DEF TimerCoversTable, Elapse, work
  <2>4. ASSUME NEW s \in Sends, Notify(s) PROVE TimerCoversTable'
    BY <2>4 DEF TimerCoversTable, Notify, table
  <2>5. ASSUME NEW s \in Sends, Resolve(s) PROVE TimerCoversTable'
    <3>1. CASE s \in tracked /\ Drop(s)
      BY <3>1 DEF TimerCoversTable, Drop, Reschedule
    <3>2. CASE UNCHANGED relVars
      BY <3>2 DEF TimerCoversTable, relVars, table, work
    <3> QED BY <2>5, <3>1, <3>2 DEF Resolve
  <2>6. CASE WorkerEnter
    BY <2>6 DEF TimerCoversTable, WorkerEnter
  <2>7. CASE WorkerScan
    BY <2>7 DEF TimerCoversTable, WorkerScan, Reschedule
  <2>8. CASE UNCHANGED relVars
    BY <2>8 DEF TimerCoversTable, relVars, table, work
  <2> QED BY <2>1, <2>2, <2>3, <2>4, <2>5, <2>6, <2>7, <2>8 DEF RelNext
<1> QED BY <1>1, <1>2, ShapeAlways, PTL DEF RelSpec

-----------------------------------------------------------------------------
\* The account of one packet: its verdicts, and what may still become one.
Account(s) == verdicts[s] + Holds(s, failed) + Holds(s, tracked) + Holds(s, accepted)

\* Reports are outstanding only while the worker is telling them: a scan never overwrites
\* the list of the one before.
Told == failed # {} => worker = "telling"

\* retx_work_fn is one work item: it does not run again before it has reported.
LEMMA ToldStep == Shape /\ Told /\ [RelNext]_relVars => Told'
<1> SUFFICES ASSUME Shape, Told, [RelNext]_relVars PROVE Told'
  OBVIOUS
<1>1. ASSUME NEW s \in Sends, Submit(s) \/ Elapse(s) PROVE Told'
  BY <1>1 DEF Told, Submit, Elapse, work
<1>2. ASSUME NEW s \in Sends, Track(s) PROVE Told'
  BY <1>2 DEF Told, Track
<1>3. ASSUME NEW s \in Sends, Notify(s) PROVE Told'
  BY <1>3 DEF Told, Notify
<1>4. ASSUME NEW s \in Sends, Resolve(s) PROVE Told'
  BY <1>4 DEF Told, Resolve, relVars, work
<1>5. CASE WorkerEnter
  BY <1>5 DEF Told, WorkerEnter
<1>6. CASE WorkerScan
  BY <1>6 DEF Told, WorkerScan
<1>7. CASE UNCHANGED relVars
  BY <1>7 DEF Told, relVars, work
<1> QED BY <1>1, <1>2, <1>3, <1>4, <1>5, <1>6, <1>7 DEF RelNext

\* Only a submission opens the account, and no step draws more from it than it holds.
LEMMA AccountStep ==
  ASSUME Shape, Told, [RelNext]_relVars, NEW s \in Sends
  PROVE  Account(s)' - submits'[s] <= Account(s) - submits[s]
<1> USE DEF Account, Holds, Shape
<1>1. ASSUME NEW x \in Sends, Submit(x)
      PROVE  Account(s)' - submits'[s] <= Account(s) - submits[s]
  BY <1>1 DEF Submit, table, work
<1>2. ASSUME NEW x \in Sends, Track(x)
      PROVE  Account(s)' - submits'[s] <= Account(s) - submits[s]
  <2>1. /\ x \in accepted /\ accepted' = accepted \ {x} /\ failed' = failed
        /\ verdicts' = verdicts /\ submits' = submits
    BY <1>2 DEF Track, counts
  <2>2. tracked' \subseteq tracked \cup {x}
    <3>1. CASE UNCHANGED <<table, armed, due>> BY <3>1 DEF table
    <3>2. CASE \E e \in Evicted : tracked' = (tracked \ e) \cup {x} BY <3>2
    <3> QED BY <1>2, <3>1, <3>2 DEF Track
  <2> QED BY <2>1, <2>2
<1>3. ASSUME NEW x \in Sends, Elapse(x)
      PROVE  Account(s)' - submits'[s] <= Account(s) - submits[s]
  BY <1>3 DEF Elapse, work, counts
<1>4. ASSUME NEW x \in Sends, Notify(x)
      PROVE  Account(s)' - submits'[s] <= Account(s) - submits[s]
  BY <1>4 DEF Notify, table
<1>5. ASSUME NEW x \in Sends, Resolve(x)
      PROVE  Account(s)' - submits'[s] <= Account(s) - submits[s]
  <2>1. CASE x \in tracked
    BY <1>5, <2>1 DEF Resolve, Drop
  <2>2. CASE UNCHANGED relVars
    BY <2>2 DEF relVars, table, work, counts
  <2> QED BY <1>5, <2>1, <2>2 DEF Resolve
<1>6. CASE WorkerEnter
  BY <1>6 DEF WorkerEnter, table, counts
<1>7. CASE WorkerScan
  <2>1. failed = {}
    BY <1>7 DEF Told, WorkerScan
  <2>2. Exhausted \subseteq tracked
    BY DEF Exhausted
  <2>3. /\ tracked' = tracked \ Exhausted /\ failed' = Exhausted /\ accepted' = accepted
        /\ verdicts' = verdicts /\ submits' = submits
    BY <1>7 DEF WorkerScan
  <2> QED BY <2>1, <2>2, <2>3
<1>8. CASE UNCHANGED relVars
  BY <1>8 DEF relVars, table, work, counts
<1> QED BY <1>1, <1>2, <1>3, <1>4, <1>5, <1>6, <1>7, <1>8 DEF RelNext

\* A submission has at most one outcome (on_implicit_ack: "Tell the app, once"), however
\* answers, echoes, evictions, retries and failure reports interleave.
THEOREM VerdictIsUnique == RelSpec => []OneVerdict
<1>1. RelInit => Told /\ OneVerdict
  BY DEF RelInit, Told, OneVerdict, Holds
<1>2. ASSUME Shape, Told, OneVerdict, [RelNext]_relVars PROVE OneVerdict'
  <2> SUFFICES ASSUME NEW s \in Sends PROVE Account(s)' <= submits'[s]
    BY DEF OneVerdict, Account
  <2>1. Account(s) <= submits[s]
    BY <1>2 DEF OneVerdict, Account
  <2>2. Account(s)' - submits'[s] <= Account(s) - submits[s]
    BY <1>2, AccountStep
  <2>3. Shape'
    BY <1>2, ShapeStep
  <2>4. /\ Account(s) \in Nat /\ submits[s] \in Nat
        /\ Account(s)' \in Nat /\ submits'[s] \in Nat
    BY <1>2, <2>3 DEF Shape, Account, Holds
  <2> QED BY <2>1, <2>2, <2>4
<1> QED BY <1>1, <1>2, ShapeAlways, ToldStep, PTL DEF RelSpec

-----------------------------------------------------------------------------
\* Retransmissions made, and those a tracked or an accepted packet may still make.
Outlay(s) ==
    retransmits[s] + (IF s \in tracked THEN left[s] ELSE 0)
                   + (IF s \in accepted THEN Budget(s) ELSE 0)

\* WithinBudget with the packets that on_tx has still to enter.
Affordable == \A s \in Sends : Outlay(s) <= Budget(s) * submits[s]

\* A submission adds its budget; no other step adds anything.
LEMMA OutlayStep ==
  ASSUME Shape, [RelNext]_relVars, NEW s \in Sends
  PROVE  \/ Outlay(s)' <= Outlay(s) /\ submits'[s] = submits[s]
         \/ Outlay(s)' = Outlay(s) + Budget(s) /\ submits'[s] = submits[s] + 1
<1> DEFINE Goal == \/ Outlay(s)' <= Outlay(s) /\ submits'[s] = submits[s]
                   \/ Outlay(s)' = Outlay(s) + Budget(s) /\ submits'[s] = submits[s] + 1
<1>0. Budget(s) \in Nat
  BY BudgetBound, ReliableAssumption
<1>a. Budget(s)' = Budget(s)
  BY DEF Budget
<1> USE <1>0, <1>a, ReliableAssumption DEF Outlay, Shape
<1>1. ASSUME NEW x \in Sends, Submit(x) PROVE Goal
  BY <1>1 DEF Submit, table, work
<1>2. ASSUME NEW x \in Sends, Track(x) PROVE Goal
  <2>1. /\ x \in accepted /\ accepted' = accepted \ {x}
        /\ retransmits' = retransmits /\ submits' = submits
    BY <1>2 DEF Track, counts
  <2>2. CASE UNCHANGED <<table, armed, due>>
    BY <2>1, <2>2 DEF table
  <2>3. CASE /\ x \notin tracked
             /\ \E e \in Evicted : tracked' = (tracked \ e) \cup {x}
             /\ left' = [left EXCEPT ![x] = Budget(x)]
    BY <2>1, <2>3
  <2> QED BY <1>2, <2>2, <2>3 DEF Track
<1>3. ASSUME NEW x \in Sends, Elapse(x) PROVE Goal
  BY <1>3 DEF Elapse, work, counts
<1>4. ASSUME NEW x \in Sends, Notify(x) PROVE Goal
  BY <1>4 DEF Notify, table
<1>5. ASSUME NEW x \in Sends, Resolve(x) PROVE Goal
  <2>1. CASE x \in tracked
    BY <1>5, <2>1 DEF Resolve, Drop
  <2>2. CASE UNCHANGED relVars
    BY <2>2 DEF relVars, table, work, counts
  <2> QED BY <1>5, <2>1, <2>2 DEF Resolve
<1>6. CASE WorkerEnter
  BY <1>6 DEF WorkerEnter, table, counts
<1>7. CASE WorkerScan
  BY <1>7 DEF WorkerScan, Exhausted
<1>8. CASE UNCHANGED relVars
  BY <1>8 DEF relVars, table, work, counts
<1> QED BY <1>1, <1>2, <1>3, <1>4, <1>5, <1>6, <1>7, <1>8 DEF RelNext

\* retries_left bounds the air time of every submission, broadcasts included, across
\* evictions, resubmissions of a tracked id and retries that race an answer.
THEOREM AirTimeBounded == RelSpec => []WithinBudget
<1>1. RelInit => Affordable
  BY BudgetBound, ReliableAssumption DEF RelInit, Affordable, Outlay
<1>2. ASSUME Shape, Affordable, [RelNext]_relVars PROVE Affordable'
  <2> SUFFICES ASSUME NEW s \in Sends PROVE Outlay(s)' <= Budget(s) * submits'[s]
    BY DEF Affordable, Budget
  <2>1. Outlay(s) <= Budget(s) * submits[s]
    BY <1>2 DEF Affordable
  <2>2. Budget(s) \in Nat /\ submits[s] \in Nat
    BY <1>2, BudgetBound, ReliableAssumption DEF Shape
  <2>3. Budget(s) * (submits[s] + 1) = Budget(s) * submits[s] + Budget(s)
    BY <2>2
  <2>4. Shape'
    BY <1>2, ShapeStep
  <2>5. Outlay(s) \in Nat /\ Outlay(s)' \in Nat
    BY <1>2, <2>2, <2>4, ReliableAssumption DEF Shape, Outlay, Budget
  <2>6. Budget(s) * submits[s] \in Nat
    BY <2>2
  <2> QED BY <1>2, <2>1, <2>2, <2>3, <2>5, <2>6, OutlayStep
<1>3. Shape /\ Affordable => WithinBudget
  BY BudgetBound, ReliableAssumption DEF Shape, Affordable, WithinBudget, Outlay
<1> QED BY <1>1, <1>2, <1>3, ShapeAlways, PTL DEF RelSpec
=============================================================================
