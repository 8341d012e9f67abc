------------------------------ MODULE Reliable ------------------------------
(***************************************************************************)
(* Sender-side reliable delivery (src/src/meshtastic_reliable.c): the table *)
(* of want_ack packets this node originated, the work item that retransmits *)
(* them, and the three ways a packet leaves the table before its time: an   *)
(* implicit ACK, a ROUTING answer, an eviction by a newer packet.           *)
(*                                                                          *)
(* A packet enters the table by meshtastic_reliable_on_tx, which its sender *)
(* calls after the radio has taken the frame: the answer may be faster.     *)
(* retx_work_fn reads the clock, waits for pend_lock, works through the     *)
(* table, and reports the exhausted packets after it has given up the lock. *)
(***************************************************************************)
EXTENDS Naturals, FiniteSets

CONSTANTS
    Sends,          \* ids of the want_ack packets the application sends
    Broadcasts,     \* those sent to everybody
    PEND_MAX,       \* CONFIG_MESHTASTIC_RELIABLE_MAX_PENDING
    RETRIES,        \* reliable_retries of the schedule; 0 disables the feature
    MAX_SUBMITS     \* bound: how often the application submits each id

BROADCAST_RETRIES == 2

ASSUME ReliableAssumption ==
    /\ Broadcasts \subseteq Sends
    /\ PEND_MAX \in Nat \ {0} /\ RETRIES \in Nat /\ MAX_SUBMITS \in [Sends -> Nat]

VARIABLES
    accepted,       \* taken by the radio; meshtastic_reliable_on_tx still to run
    tracked,        \* ids of the active slots of pend[]
    left,           \* retries_left
    late,           \* tracked ids whose next_due has passed
    armed,          \* retx_work is scheduled (or queued)
    worker,         \* "off", "entered" (clock read) or "telling" (after the unlock)
    due,            \* the ids the worker's reading of the clock finds due
    failed,         \* the worker's failed[]
    submits,        \* history: submissions of each id
    verdicts,       \* history: delivery reports, failures and answers taken of each id
    retransmits     \* history: retransmissions of each id

table == <<tracked, left, late>>
work == <<armed, worker, due, failed>>
counts == <<submits, verdicts, retransmits>>
relVars == <<accepted, table, work, counts>>

RelInit ==
    /\ accepted = {}
    /\ tracked = {} /\ late = {} /\ left = [s \in Sends |-> 0]
    /\ armed = FALSE /\ worker = "off" /\ due = {} /\ failed = {}
    /\ submits = [s \in Sends |-> 0]
    /\ verdicts = [s \in Sends |-> 0]
    /\ retransmits = [s \in Sends |-> 0]

\* reliable_retries, at most two of them for a broadcast.
Budget(s) ==
    IF s \in Broadcasts /\ RETRIES > BROADCAST_RETRIES THEN BROADCAST_RETRIES ELSE RETRIES

-----------------------------------------------------------------------------
\* Mutant of Reschedule: the timer is stopped when the table is empty, and never started.
RescheduleKeeps(t) == armed' = (armed /\ t # {})

\* reschedule_locked: the timer follows the soonest due packet of table t.
Reschedule(t) == armed' = (t # {})

\* Packet s leaves the table, in on_routing or on_implicit_ack.
Drop(s) ==
    /\ tracked' = tracked \ {s} /\ late' = late \ {s} /\ due' = due \ {s}
    /\ Reschedule(tracked')

\* send_wire_tail: the radio took the frame (the caller goes on to on_tx).
Submit(s) ==
    /\ s \notin accepted /\ submits[s] < MAX_SUBMITS[s]
    /\ accepted' = accepted \cup {s}
    /\ submits' = [submits EXCEPT ![s] = @ + 1]
    /\ UNCHANGED <<table, work, verdicts, retransmits>>

\* The packet that makes room in a full table: the soonest due, so a late one if any is.
Evicted ==
    IF Cardinality(tracked) < PEND_MAX THEN {{}}
    ELSE {{e} : e \in IF late # {} THEN late ELSE tracked}

\* meshtastic_reliable_on_tx: ignored when disabled or already tracked.
Track(s) ==
    /\ s \in accepted
    /\ accepted' = accepted \ {s}
    /\ \/ /\ RETRIES = 0 \/ s \in tracked
          /\ UNCHANGED <<table, armed, due>>
       \/ /\ RETRIES # 0 /\ s \notin tracked
          /\ \E e \in Evicted :
                /\ tracked' = (tracked \ e) \cup {s}
                /\ late' = late \ e /\ due' = due \ e
          /\ left' = [left EXCEPT ![s] = Budget(s)]
          /\ Reschedule(tracked')
    /\ UNCHANGED <<worker, failed, counts>>

\* The clock passes next_due of s.
Elapse(s) ==
    /\ s \in tracked \ late
    /\ late' = late \cup {s}
    /\ UNCHANGED <<accepted, tracked, left, work, counts>>

\* retx_work_fn up to k_mutex_lock: now = k_uptime_get().  (A run that was queued before
\* the table changed may come early; it finds nothing due and sets the timer again.)
WorkerEnter ==
    /\ armed /\ worker = "off" /\ late # {}
    /\ armed' = FALSE /\ worker' = "entered" /\ due' = late
    /\ UNCHANGED <<accepted, table, failed, counts>>

Exhausted == {s \in due : left[s] = 0}

\* Mutant of WorkerScan: one retry too many.
WorkerScanOnceMore ==
    /\ worker = "entered"
    /\ LET over == {s \in Exhausted : retransmits[s] > Budget(s)}
       IN /\ tracked' = tracked \ over
          /\ failed' = over
          /\ left' = [s \in Sends |-> IF s \in due \ over /\ left[s] > 0 THEN left[s] - 1
                                                                       ELSE left[s]]
          /\ retransmits' = [s \in Sends |-> IF s \in due \ over THEN retransmits[s] + 1
                                                                 ELSE retransmits[s]]
          /\ worker' = IF over = {} THEN "off" ELSE "telling"
    /\ late' = late \ due /\ due' = {}
    /\ Reschedule(tracked')
    /\ UNCHANGED <<accepted, submits, verdicts>>

\* retx_work_fn under pend_lock: a due packet is retransmitted, or given up.
WorkerScan ==
    /\ worker = "entered"
    /\ tracked' = tracked \ Exhausted
    /\ failed' = Exhausted
    /\ left' = [s \in Sends |-> IF s \in due \ Exhausted THEN left[s] - 1 ELSE left[s]]
    /\ retransmits' = [s \in Sends |-> IF s \in due \ Exhausted THEN retransmits[s] + 1
                                                                ELSE retransmits[s]]
    /\ worker' = IF Exhausted = {} THEN "off" ELSE "telling"
    /\ late' = late \ due /\ due' = {}
    /\ Reschedule(tracked')
    /\ UNCHANGED <<accepted, submits, verdicts>>

\* Mutant of Notify: a packet that has been reported before is skipped, and left over.
NotifyOnce(s) ==
    /\ worker = "telling" /\ s \in failed /\ verdicts[s] = 0
    /\ failed' = failed \ {s}
    /\ verdicts' = [verdicts EXCEPT ![s] = @ + 1]
    /\ worker' = IF failed' = {} THEN "off" ELSE "telling"
    /\ UNCHANGED <<accepted, table, armed, due, submits, retransmits>>

\* notify_failure, without pend_lock.
Notify(s) ==
    /\ worker = "telling" /\ s \in failed
    /\ failed' = failed \ {s}
    /\ verdicts' = [verdicts EXCEPT ![s] = @ + 1]
    /\ worker' = IF failed' = {} THEN "off" ELSE "telling"
    /\ UNCHANGED <<accepted, table, armed, due, submits, retransmits>>

\* Mutant of Resolve: every echo is reported.
ResolveAlways(s) ==
    /\ verdicts' = [verdicts EXCEPT ![s] = @ + 1]
    /\ Drop(s)
    /\ UNCHANGED <<accepted, left, worker, failed, submits, retransmits>>

\* on_implicit_ack and on_routing (ACK or NAK alike): the first word on a tracked packet
\* is its verdict, a later one finds nothing pending.
Resolve(s) ==
    \/ /\ s \in tracked
       /\ verdicts' = [verdicts EXCEPT ![s] = @ + 1]
       /\ Drop(s)
       /\ UNCHANGED <<accepted, left, worker, failed, submits, retransmits>>
    \/ /\ s \notin tracked
       /\ UNCHANGED relVars

RelNext ==
    \/ \E s \in Sends : Submit(s) \/ Track(s) \/ Elapse(s) \/ Notify(s) \/ Resolve(s)
    \/ WorkerEnter \/ WorkerScan

\* The table under any answers at all.
RelSpec == RelInit /\ [][RelNext]_relVars

-----------------------------------------------------------------------------
\* Types; the table fits its array.
RelTypeOK ==
    /\ accepted \subseteq Sends
    /\ tracked \subseteq Sends /\ Cardinality(tracked) <= PEND_MAX
    /\ late \subseteq tracked /\ due \subseteq late
    /\ left \in [Sends -> 0..RETRIES]
    /\ armed \in BOOLEAN /\ worker \in {"off", "entered", "telling"}
    /\ failed \subseteq Sends
    /\ {submits, verdicts, retransmits} \subseteq [Sends -> Nat]

\* No packet is stranded in the table: while one is tracked the timer is set, or the
\* worker is on its way to set it (reschedule_locked in every path that changes the table).
TimerCoversTable == tracked # {} => armed \/ worker = "entered"

Holds(s, set) == IF s \in set THEN 1 ELSE 0

\* "Tell the app, once" (on_implicit_ack): a submission has at most one outcome, be it a
\* delivery report, an answer or a failure, whatever echoes and answers come in.
OneVerdict ==
    \A s \in Sends :
        verdicts[s] + Holds(s, failed) + Holds(s, tracked) + Holds(s, accepted) <= submits[s]

\* retries_left bounds what a submission may cost in air time, and it takes the whole
\* budget before a packet is given up.
WithinBudget ==
    \A s \in Sends : retransmits[s] + (IF s \in tracked THEN left[s] ELSE 0)
                         <= Budget(s) * submits[s]
=============================================================================
