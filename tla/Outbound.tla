------------------------------ MODULE Outbound ------------------------------
(***************************************************************************)
(* The outbound transmit queue (src/src/meshtastic_outbound.c): callers    *)
(* put frames into a bounded priority queue, one worker thread takes them  *)
(* out and keys the radio.  A critical section under ob_lock is one        *)
(* action; what a thread does after it has released the lock (giving a     *)
(* semaphore, waiting on one, transmitting) is an action of its own.       *)
(*                                                                         *)
(* Time is abstracted to the fact that a deferred frame comes due: an item *)
(* is "eligible" or not, and Elapse makes it so.  A frame is submitted     *)
(* once, and is its own (src,id).  Of what a transmit returns only DEFER   *)
(* matters to the queue; sent, failed and stale (PresetHop has the preset  *)
(* generation) all complete the frame.                                     *)
(***************************************************************************)
EXTENDS Integers, Sequences, FiniteSets

CONSTANTS
    Frames,         \* the frames (and, with each, the thread that submits it)
    Requests,       \* what a caller may ask: [tier, blocking, delayed, head]
    Policies,       \* the scheduler policies: [order, overflow, depth]
    OB_MAX,         \* CONFIG_MESHTASTIC_OUTBOUND_QUEUE_MAX
    TX_DEFER_MAX    \* CONFIG_MESHTASTIC_TX_DEFER_MAX

Tiers == 0..3
AnyRequest == [tier : Tiers, blocking : BOOLEAN, delayed : BOOLEAN, head : BOOLEAN]
AnyPolicy == [order : {"FIFO", "PRIORITY"}, overflow : {"DROP_NEWEST", "DROP_LOWEST"},
              depth : 1..OB_MAX]

ASSUME OutboundAssumption ==
    /\ OB_MAX \in Nat /\ OB_MAX >= 2
    /\ TX_DEFER_MAX \in Nat \ {0}
    /\ Requests \subseteq AnyRequest
    /\ Policies \subseteq AnyPolicy /\ Policies # {}

VARIABLES
    items,      \* ob_items[0..ob_count-1], oldest first
    ob_inflight,
    ob_avail,   \* semaphore: wakes the worker
    ob_space,   \* semaphore: wakes blocked enqueuers
    wpc,        \* the worker: "pick", "tx", "complete" or "sleep"
    cur,        \* the worker's frame, as a sequence of at most one item
    ret,        \* what the transmit returned
    forever,    \* the sleeping worker waits with K_FOREVER
    worder,     \* the worker's policy snapshot (tx_order)
    caller,     \* where the thread of each frame is
    req,        \* what it asked for
    fate,       \* history: what became of the frame
    owed,       \* ob_space gives a canceller has still to do
    policy      \* meshtastic_sched: the live policy

queue == <<items, ob_inflight, cur>>
sems == <<ob_avail, ob_space, owed>>
worker == <<wpc, ret, forever, worder>>
env == <<req, policy>>
vars == <<items, ob_inflight, ob_avail, ob_space, wpc, cur, ret, forever, worder,
          caller, req, fate, owed, policy>>

Item == [id : Frames, tier : Tiers, eligible : BOOLEAN, late : BOOLEAN,
         defers : 0..TX_DEFER_MAX, head : BOOLEAN, done : BOOLEAN]

Fates == {"new", "queued", "rejected", "evicted", "cancelled",
          "completed", "busy", "nobufs"}

\* The fates the worker reports through *result and done.
Completed == {"completed", "busy", "nobufs"}

\* k_sem_give and k_sem_take(K_NO_WAIT) on a semaphore of limit OB_MAX.
Give(sem) == IF sem < OB_MAX THEN sem + 1 ELSE sem
TakeNoWait(sem) == IF sem > 0 THEN sem - 1 ELSE sem

\* Mutant of Remove: the shift starts one slot late.
RemoveLate(s, i) == [j \in 1..(Len(s) - 1) |-> IF j <= i THEN s[j] ELSE s[j + 1]]

\* remove_index_locked: close the gap at i.
Remove(s, i) == [j \in 1..(Len(s) - 1) |-> IF j < i THEN s[j] ELSE s[j + 1]]

\* ob_items[ob_count++] = x.  (Append, written as the array store it is.)
Push(s, x) == [j \in 1..(Len(s) + 1) |-> IF j <= Len(s) THEN s[j] ELSE x]

\* pick_next_locked: the indices it may return (none when nothing is eligible).
IsNext(i, order) ==
    /\ items[i].eligible
    /\ \A j \in DOMAIN items : items[j].eligible =>
          IF order = "FIFO"
          THEN i <= j
          ELSE \/ items[j].tier < items[i].tier
               \/ items[j].tier = items[i].tier /\ i <= j

\* evict_victim_locked: lowest tier, newest within it, never a blocking caller's.
IsVictim(i) ==
    /\ ~items[i].done
    /\ \A j \in DOMAIN items : ~items[j].done =>
          \/ items[i].tier < items[j].tier
          \/ items[i].tier = items[j].tier /\ j <= i

\* Mutant of Evictable: an equal tier is enough.
EvictableEqual(tier) ==
    {i \in DOMAIN items : IsVictim(i) /\ items[i].tier <= tier}

Evictable(tier) ==
    {i \in DOMAIN items : IsVictim(i) /\ items[i].tier < tier}

\* The frame a caller stores: outbound_enqueue after it has found room.
NewItem(f) ==
    [id |-> f, tier |-> req[f].tier, eligible |-> ~req[f].delayed, late |-> FALSE,
     defers |-> 0, head |-> req[f].head, done |-> req[f].blocking]

-----------------------------------------------------------------------------
Init ==
    /\ items = <<>> /\ ob_inflight = FALSE
    /\ ob_avail = 0 /\ ob_space = 0 /\ owed = 0
    /\ wpc = "pick" /\ cur = <<>> /\ ret = "none" /\ forever = FALSE
    /\ policy \in Policies /\ worder = policy.order
    /\ caller = [f \in Frames |-> "idle"]
    /\ req \in [Frames -> Requests]
    /\ fate = [f \in Frames |-> "new"]

-----------------------------------------------------------------------------
(* outbound_enqueue.  A caller at "idle" (first pass) or "retry" (it took  *)
(* an ob_space token) enters the critical section.                         *)

AtLoop(f) == caller[f] \in {"idle", "retry"}

\* Mutant of Insert: <= for <.
InsertOneMore(f) ==
    /\ AtLoop(f)
    /\ Len(items) <= policy.depth
    /\ items' = Push(items, NewItem(f))
    /\ caller' = [caller EXCEPT ![f] = "post"]
    /\ fate' = [fate EXCEPT ![f] = "queued"]
    /\ UNCHANGED <<ob_inflight, cur, sems, worker, env>>

\* Mutant of Insert: the soft depth is not looked at.
InsertUnbounded(f) ==
    /\ AtLoop(f)
    /\ items' = Push(items, NewItem(f))
    /\ caller' = [caller EXCEPT ![f] = "post"]
    /\ fate' = [fate EXCEPT ![f] = "queued"]
    /\ UNCHANGED <<ob_inflight, cur, sems, worker, env>>

\* ob_count < soft: insert at the end.
Insert(f) ==
    /\ AtLoop(f)
    /\ Len(items) < policy.depth
    /\ items' = Push(items, NewItem(f))
    /\ caller' = [caller EXCEPT ![f] = "post"]
    /\ fate' = [fate EXCEPT ![f] = "queued"]
    /\ UNCHANGED <<ob_inflight, cur, sems, worker, env>>

\* Full, fire-and-forget, drop-lowest: the victim makes room.
InsertEvicting(f) ==
    /\ AtLoop(f)
    /\ Len(items) >= policy.depth /\ ~req[f].blocking
    /\ policy.order = "PRIORITY" /\ policy.overflow = "DROP_LOWEST"
    /\ \E v \in Evictable(req[f].tier) :
          /\ items' = Push(Remove(items, v), NewItem(f))
          /\ fate' = [fate EXCEPT ![items[v].id] = "evicted", ![f] = "queued"]
    /\ ob_avail' = TakeNoWait(ob_avail)
    /\ caller' = [caller EXCEPT ![f] = "post"]
    /\ UNCHANGED <<ob_inflight, cur, ob_space, owed, worker, env>>

\* Full, fire-and-forget, and nothing to evict: -ENOMSG.
Reject(f) ==
    /\ AtLoop(f)
    /\ Len(items) >= policy.depth /\ ~req[f].blocking
    /\ ~ /\ policy.order = "PRIORITY" /\ policy.overflow = "DROP_LOWEST"
         /\ Evictable(req[f].tier) # {}
    /\ caller' = [caller EXCEPT ![f] = "returned"]
    /\ fate' = [fate EXCEPT ![f] = "rejected"]
    /\ UNCHANGED <<queue, sems, worker, env>>

\* Full, and the caller blocks: it leaves the lock to wait for ob_space.
FindFull(f) ==
    /\ AtLoop(f)
    /\ Len(items) >= policy.depth /\ req[f].blocking
    /\ caller' = [caller EXCEPT ![f] = "full"]
    /\ UNCHANGED <<queue, sems, worker, env, fate>>

\* -EHOSTUNREACH (the head is not ready) or -ECANCELED (the duty gate), before
\* the queue is looked at.
Refuse(f) ==
    /\ caller[f] = "idle"
    /\ caller' = [caller EXCEPT ![f] = "returned"]
    /\ fate' = [fate EXCEPT ![f] = "rejected"]
    /\ UNCHANGED <<queue, sems, worker, env>>

TakeSpace(f) ==
    /\ caller[f] = "full" /\ ob_space > 0
    /\ ob_space' = ob_space - 1
    /\ caller' = [caller EXCEPT ![f] = "retry"]
    /\ UNCHANGED <<queue, ob_avail, owed, worker, env, fate>>

\* k_sem_give(&ob_avail) after the unlock; a blocking caller then waits for done.
Post(f) ==
    /\ caller[f] = "post"
    /\ ob_avail' = Give(ob_avail)
    /\ caller' = [caller EXCEPT ![f] = IF req[f].blocking THEN "wait" ELSE "returned"]
    /\ UNCHANGED <<queue, ob_space, owed, worker, env, fate>>

\* k_sem_take(&done): the worker has completed the frame.
Return(f) ==
    /\ caller[f] = "wait" /\ fate[f] \in Completed
    /\ caller' = [caller EXCEPT ![f] = "returned"]
    /\ UNCHANGED <<queue, sems, worker, env, fate>>

-----------------------------------------------------------------------------
(* mt_outbound_thread_fn.                                                  *)

\* Mutant of WorkerPick: ob_inflight is left to the transmit.
WorkerPickUnflagged ==
    /\ wpc = "pick"
    /\ \E i \in DOMAIN items :
          /\ IsNext(i, worder)
          /\ cur' = <<items[i]>>
          /\ items' = Remove(items, i)
    /\ wpc' = "tx"
    /\ UNCHANGED <<ob_inflight, sems, ret, forever, worder, caller, env, fate>>

\* Dequeue: removal and ob_inflight in one critical section.
WorkerPick ==
    /\ wpc = "pick"
    /\ \E i \in DOMAIN items :
          /\ IsNext(i, worder)
          /\ cur' = <<items[i]>>
          /\ items' = Remove(items, i)
    /\ ob_inflight' = TRUE
    /\ wpc' = "tx"
    /\ UNCHANGED <<sems, ret, forever, worder, caller, env, fate>>

\* Mutant of WorkerIdle: always K_FOREVER, trusting ob_avail to count the work.
WorkerIdleForever ==
    /\ wpc = "pick"
    /\ \A i \in DOMAIN items : ~items[i].eligible
    /\ wpc' = "sleep"
    /\ forever' = TRUE
    /\ UNCHANGED <<queue, sems, ret, worder, caller, env, fate>>

\* Nothing eligible: sleep, for ever if the queue is empty.
WorkerIdle ==
    /\ wpc = "pick"
    /\ \A i \in DOMAIN items : ~items[i].eligible
    /\ wpc' = "sleep"
    /\ forever' = (items = <<>>)
    /\ UNCHANGED <<queue, sems, ret, worder, caller, env, fate>>

\* A head, the BLE peer or the preset generation settle the frame at once; only our
\* own radio answers DEFER.
TxAnswers(it) == IF it.head THEN {"final"} ELSE {"final", "defer"}

\* Mutant of WorkerTx: the freed slot is not announced.
WorkerTxSilent ==
    /\ wpc = "tx"
    /\ ret' \in TxAnswers(cur[1])
    /\ wpc' = "complete"
    /\ UNCHANGED <<queue, sems, forever, worder, caller, env, fate>>

WorkerTx ==
    /\ wpc = "tx"
    /\ ob_space' = Give(ob_space)
    /\ ret' \in TxAnswers(cur[1])
    /\ wpc' = "complete"
    /\ UNCHANGED <<queue, ob_avail, owed, forever, worder, caller, env, fate>>

\* The transmit is over: ob_inflight is cleared, and a deferred frame goes back
\* to the queue in the same critical section (requeue_deferred_locked).
CanRequeue(it) == it.defers < TX_DEFER_MAX /\ Len(items) < OB_MAX

WorkerRequeue ==
    /\ wpc = "complete" /\ ret = "defer" /\ CanRequeue(cur[1])
    /\ items' = Push(items, [cur[1] EXCEPT !.defers = @ + 1, !.eligible = FALSE])
    /\ ob_space' = TakeNoWait(ob_space)
    /\ ob_avail' = Give(ob_avail)
    /\ ob_inflight' = FALSE /\ cur' = <<>> /\ ret' = "none"
    /\ wpc' = "pick" /\ worder' = policy.order
    /\ UNCHANGED <<owed, forever, caller, env, fate>>

\* Otherwise the frame is finished: *result is written and done given.
FinalFate(it) ==
    IF ret = "final" THEN "completed"
    ELSE IF it.defers >= TX_DEFER_MAX THEN "busy" ELSE "nobufs"

WorkerComplete ==
    /\ wpc = "complete"
    /\ ~(ret = "defer" /\ CanRequeue(cur[1]))
    /\ fate' = [fate EXCEPT ![cur[1].id] = FinalFate(cur[1])]
    /\ ob_inflight' = FALSE /\ cur' = <<>> /\ ret' = "none"
    /\ wpc' = "pick" /\ worder' = policy.order
    /\ UNCHANGED <<items, sems, forever, caller, env>>

\* ob_avail was given, or (not K_FOREVER) the timeout ran out.
WorkerWake ==
    /\ wpc = "sleep"
    /\ ob_avail > 0 \/ ~forever
    /\ ob_avail' = TakeNoWait(ob_avail)
    /\ wpc' = "pick" /\ worder' = policy.order
    /\ UNCHANGED <<queue, ob_space, owed, ret, forever, caller, env, fate>>

Worker == WorkerPick \/ WorkerIdle \/ WorkerTx \/ WorkerRequeue \/ WorkerComplete
          \/ WorkerWake

-----------------------------------------------------------------------------
(* The router's operations on frames already queued.                       *)

\* Mutants of Cancel: a frame somebody waits on goes too; the slot is not given back.
CancelWaited(f) ==
    /\ \E i \in DOMAIN items : items[i].id = f /\ items' = Remove(items, i)
    /\ fate' = [fate EXCEPT ![f] = "cancelled"]
    /\ owed' = owed + 1
    /\ UNCHANGED <<ob_inflight, cur, ob_avail, ob_space, worker, caller, env>>

CancelSilent(f) ==
    /\ \E i \in DOMAIN items :
          /\ items[i].id = f /\ ~items[i].done
          /\ items' = Remove(items, i)
    /\ fate' = [fate EXCEPT ![f] = "cancelled"]
    /\ UNCHANGED <<ob_inflight, cur, sems, worker, caller, env>>

\* meshtastic_outbound_cancel: drop the matching frames nobody waits for.
Cancel(f) ==
    /\ \E i \in DOMAIN items :
          /\ items[i].id = f /\ ~items[i].done
          /\ items' = Remove(items, i)
    /\ fate' = [fate EXCEPT ![f] = "cancelled"]
    /\ owed' = owed + 1
    /\ UNCHANGED <<ob_inflight, cur, ob_avail, ob_space, worker, caller, env>>

\* The canceller gives the freed slot back after the unlock.
GiveOwed ==
    /\ owed > 0
    /\ owed' = owed - 1
    /\ ob_space' = Give(ob_space)
    /\ UNCHANGED <<queue, ob_avail, worker, caller, env, fate>>

\* Mutant of MayDeferLate: every copy heard pushes again.
MayDeferAgain(it) == ~it.done

\* meshtastic_outbound_defer_late: one push into the late window.
MayDeferLate(it) == ~it.late /\ ~it.done

DeferLate(f) ==
    /\ \E i \in DOMAIN items :
          /\ items[i].id = f /\ MayDeferLate(items[i])
          /\ items' = [items EXCEPT ![i] = [@ EXCEPT !.eligible = FALSE, !.late = TRUE]]
    /\ UNCHANGED <<ob_inflight, cur, sems, worker, caller, env, fate>>

(* The environment: the clock, and the scheduler's shell.                  *)

\* A deferred frame's send_after passes.
Elapse(f) ==
    /\ \E i \in DOMAIN items :
          /\ items[i].id = f /\ ~items[i].eligible
          /\ items' = [items EXCEPT ![i] = [@ EXCEPT !.eligible = TRUE]]
    /\ UNCHANGED <<ob_inflight, cur, sems, worker, caller, env, fate>>

SetPolicy ==
    /\ policy' \in Policies \ {policy}
    /\ UNCHANGED <<queue, sems, worker, caller, req, fate>>

Caller(f) == Insert(f) \/ InsertEvicting(f) \/ Reject(f) \/ FindFull(f) \/ Refuse(f)
             \/ TakeSpace(f) \/ Post(f) \/ Return(f)

Next ==
    \/ \E f \in Frames : Caller(f) \/ Cancel(f) \/ DeferLate(f) \/ Elapse(f)
    \/ Worker \/ GiveOwed \/ SetPolicy

Spec == Init /\ [][Next]_vars

\* The scheduler runs every ready thread, and the uptime clock advances.  Nobody
\* has to submit, cancel, defer a relay, change the policy or hop.
Fairness ==
    /\ WF_vars(Worker)
    /\ WF_vars(GiveOwed)
    /\ \A f \in Frames :
          /\ WF_vars(Elapse(f))
          /\ WF_vars(Post(f)) /\ WF_vars(Return(f))
          /\ SF_vars(TakeSpace(f))
          /\ WF_vars(caller[f] = "retry" /\ Caller(f))

FairSpec == Spec /\ Fairness

-----------------------------------------------------------------------------
Ids(s) == {s[i].id : i \in DOMAIN s}
Distinct(s) == \A i, j \in DOMAIN s : s[i].id = s[j].id => i = j
Queued == Ids(items)
InHand == Ids(cur)

\* meshtastic_outbound_pending: what the preset hop reads.
Pending == Len(items) + (IF ob_inflight THEN 1 ELSE 0)

\* The types of the queue, the semaphores and the threads (the arrays and
\* counters of meshtastic_outbound.c); the queue never outgrows ob_items[OB_MAX].
TypeOK ==
    /\ items \in Seq(Item) /\ Len(items) <= OB_MAX
    /\ cur \in Seq(Item) /\ Len(cur) <= 1
    /\ ob_inflight \in BOOLEAN /\ forever \in BOOLEAN
    /\ ob_avail \in 0..OB_MAX /\ ob_space \in 0..OB_MAX /\ owed \in Nat
    /\ wpc \in {"pick", "tx", "complete", "sleep"}
    /\ ret \in {"none", "final", "defer"}
    /\ worder \in {"FIFO", "PRIORITY"}
    /\ caller \in [Frames -> {"idle", "full", "retry", "post", "wait", "returned"}]
    /\ req \in [Frames -> Requests]
    /\ fate \in [Frames -> Fates]
    /\ policy \in Policies

\* A frame the queue has accepted and not yet disposed of is in exactly one place,
\* the queue or the worker's hand, and only once: no path (eviction, cancel, defer,
\* requeue, completion) loses or doubles a frame.
FrameInOnePlace ==
    /\ \A f \in Frames : fate[f] = "queued" <=> f \in Queued \cup InHand
    /\ Queued \cap InHand = {}
    /\ Distinct(items)

\* A blocking caller's frame only ever ends by the worker completing it: neither the
\* overflow policy nor a relay cancel takes it away, which would leave the caller
\* waiting on a `done` nobody gives.
BlockingNeverLost ==
    \A f \in Frames : caller[f] = "wait" => fate[f] \in Completed \cup {"queued"}

\* The drain interlock of the preset hop: meshtastic_outbound_pending never reads
\* zero while an accepted frame has not been disposed of.
PendingSeesEveryFrame ==
    (\E f \in Frames : fate[f] = "queued") => Pending > 0

\* No lost wakeup: a worker asleep for ever with frames queued has a wakeup coming,
\* although an eviction takes an ob_avail count back.
NoLostWakeup ==
    wpc = "sleep" /\ forever /\ items # <<>> =>
        ob_avail > 0 \/ \E f \in Frames : caller[f] = "post"

\* No stranded enqueuer: while a caller waits for ob_space, a token is there, is owed,
\* or a frame is still in the queue or on its way out of it to produce one, although
\* a requeue takes a token back.
NoStrandedEnqueuer ==
    (\E f \in Frames : caller[f] = "full") =>
        \/ ob_space > 0 \/ owed > 0 \/ items # <<>> \/ wpc = "tx"
        \/ \E f \in Frames : caller[f] = "retry"

\* While the soft depth stays below the array size, a deferred frame always finds room
\* when it comes back: only one frame is out at a time, so the -ENOBUFS drop of
\* requeue_deferred_locked cannot happen.
RequeueFindsRoom ==
    (\A p \in Policies : p.depth < OB_MAX) =>
        /\ wpc = "complete" => Len(items) < OB_MAX
        /\ \A f \in Frames : fate[f] # "nobufs"

\* A frame is only dropped for another one if that one has a strictly higher tier and
\* enters the queue in the same step (the drop-lowest overflow policy).
EvictionIsForHigherTier ==
    [][\A f \in Frames : fate'[f] = "evicted" /\ fate[f] # "evicted" =>
          \E g \in Frames : /\ fate[g] # "queued" /\ fate'[g] = "queued"
                            /\ req[g].tier > req[f].tier]_vars

\* Every caller that blocks returns: no wait for space or for completion is for ever.
BlockedCallersReturn ==
    \A f \in Frames : caller[f] \in {"full", "retry", "wait"} ~> caller[f] = "returned"

\* Every accepted frame is disposed of, however often a relay is heard again (the late
\* flag) and however busy the channel is (the defer cap).
EveryFrameEnds ==
    \A f \in Frames : fate[f] = "queued" ~> fate[f] # "queued"
=============================================================================
