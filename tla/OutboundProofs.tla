--------------------------- MODULE OutboundProofs ---------------------------
(* Proofs about Outbound, for every set of frames, requests and policies and   *)
(* every queue size.                                                           *)
EXTENDS Outbound, TLAPS

\* Taking an element out of the array keeps the others, in order.
LEMMA RemoveFacts ==
    ASSUME NEW s \in Seq(Item), NEW i \in DOMAIN s
    PROVE  /\ Remove(s, i) \in Seq(Item)
           /\ Len(Remove(s, i)) = Len(s) - 1
           /\ DOMAIN Remove(s, i) = 1..(Len(s) - 1)
           /\ \A j \in 1..(Len(s) - 1) :
                 Remove(s, i)[j] = IF j < i THEN s[j] ELSE s[j + 1]
<1>1. DOMAIN s = 1..Len(s) /\ Len(s) \in Nat
  OBVIOUS
<1>2. Len(s) - 1 \in Nat
  BY <1>1
<1>3. \A j \in 1..(Len(s) - 1) : (IF j < i THEN s[j] ELSE s[j + 1]) \in Item
  BY <1>1
<1>4. Remove(s, i) \in [1..(Len(s) - 1) -> Item]
  BY <1>3 DEF Remove
<1> QED
  BY <1>2, <1>3, <1>4 DEF Remove

\* Storing behind the last element keeps the others.
LEMMA PushFacts ==
    ASSUME NEW s \in Seq(Item), NEW x \in Item
    PROVE  /\ Push(s, x) \in Seq(Item)
           /\ Len(Push(s, x)) = Len(s) + 1
           /\ DOMAIN Push(s, x) = 1..(Len(s) + 1)
           /\ \A j \in 1..(Len(s) + 1) :
                 Push(s, x)[j] = IF j <= Len(s) THEN s[j] ELSE x
<1>1. DOMAIN s = 1..Len(s) /\ Len(s) \in Nat
  OBVIOUS
<1>2. Len(s) + 1 \in Nat
  BY <1>1
<1>3. \A j \in 1..(Len(s) + 1) : (IF j <= Len(s) THEN s[j] ELSE x) \in Item
  BY <1>1
<1>4. Push(s, x) \in [1..(Len(s) + 1) -> Item]
  BY <1>3 DEF Push
<1> QED
  BY <1>2, <1>3, <1>4 DEF Push

\* The frames of the array after a removal and after a store.
LEMMA RemoveIds ==
    ASSUME NEW s \in Seq(Item), NEW i \in DOMAIN s, Distinct(s)
    PROVE  /\ Ids(Remove(s, i)) = Ids(s) \ {s[i].id}
           /\ Distinct(Remove(s, i))
<1> DEFINE r == Remove(s, i)
<1>1. /\ DOMAIN r = 1..(Len(s) - 1)
      /\ \A j \in 1..(Len(s) - 1) : r[j] = IF j < i THEN s[j] ELSE s[j + 1]
  BY RemoveFacts
<1>2. DOMAIN s = 1..Len(s) /\ Len(s) \in Nat
  OBVIOUS
<1> HIDE DEF r
<1>3. \A j \in DOMAIN r : \E k \in DOMAIN s : k # i /\ r[j] = s[k]
  BY <1>1, <1>2
<1>4. \A k \in DOMAIN s : k # i => \E j \in DOMAIN r : r[j] = s[k]
  <2> TAKE k \in DOMAIN s
  <2>1. CASE k < i
    BY <2>1, <1>1, <1>2
  <2>2. CASE k > i
    <3>1. k - 1 \in DOMAIN r /\ r[k - 1] = s[k]
      BY <2>2, <1>1, <1>2
    <3> QED  BY <3>1
  <2> QED  BY <2>1, <2>2, <1>2
<1>5. Ids(r) = Ids(s) \ {s[i].id}
  BY <1>3, <1>4 DEF Ids, Distinct
<1>6. Distinct(r)
  <2> SUFFICES ASSUME NEW j \in DOMAIN r, NEW k \in DOMAIN r, r[j].id = r[k].id
               PROVE  j = k
    BY DEF Distinct
  <2> DEFINE m(n) == IF n < i THEN n ELSE n + 1
  <2>1. /\ m(j) \in DOMAIN s /\ r[j] = s[m(j)]
        /\ m(k) \in DOMAIN s /\ r[k] = s[m(k)]
    BY <1>1, <1>2
  <2>2. m(j) = m(k)
    BY <2>1 DEF Distinct
  <2> QED
    BY <2>2, <1>1, <1>2
<1> QED
  BY <1>5, <1>6 DEF r

LEMMA PushIds ==
    ASSUME NEW s \in Seq(Item), NEW x \in Item
    PROVE  /\ Ids(Push(s, x)) = Ids(s) \cup {x.id}
           /\ Distinct(s) /\ x.id \notin Ids(s) => Distinct(Push(s, x))
<1> DEFINE r == Push(s, x)
<1>1. /\ DOMAIN r = 1..(Len(s) + 1)
      /\ \A j \in 1..(Len(s) + 1) : r[j] = IF j <= Len(s) THEN s[j] ELSE x
  BY PushFacts
<1>2. DOMAIN s = 1..Len(s) /\ Len(s) \in Nat
  OBVIOUS
<1> HIDE DEF r
<1>3. \A j \in DOMAIN s : j \in DOMAIN r /\ r[j] = s[j]
  BY <1>1, <1>2
<1>4. Len(s) + 1 \in DOMAIN r /\ r[Len(s) + 1] = x
  BY <1>1, <1>2
<1>5. \A j \in DOMAIN r : r[j] = x \/ (j \in DOMAIN s /\ r[j] = s[j])
  BY <1>1, <1>2
<1>6. Ids(r) = Ids(s) \cup {x.id}
  BY <1>3, <1>4, <1>5 DEF Ids
<1>7. ASSUME Distinct(s), x.id \notin Ids(s) PROVE Distinct(r)
  BY <1>1, <1>2, <1>7 DEF Distinct, Ids
<1> QED
  BY <1>6, <1>7 DEF r

-----------------------------------------------------------------------------
(* Types.  The worker's frame is there exactly while it transmits, and the    *)
(* in-flight flag says so.                                                    *)

HandOK ==
    /\ wpc \in {"tx", "complete"} => Len(cur) = 1
    /\ wpc \in {"pick", "sleep"} => cur = <<>>
    /\ ob_inflight <=> wpc \in {"tx", "complete"}
    /\ wpc = "complete" => ret \in {"final", "defer"}

TypeInv == TypeOK /\ HandOK

LEMMA NewItemType ==
    ASSUME TypeOK, NEW f \in Frames
    PROVE  NewItem(f) \in Item
<1>1. req[f] \in AnyRequest
  BY OutboundAssumption DEF TypeOK
<1>2. req[f].tier \in Tiers /\ req[f].blocking \in BOOLEAN /\ req[f].head \in BOOLEAN
  BY <1>1 DEF AnyRequest
<1>3. 0 \in 0..TX_DEFER_MAX
  BY OutboundAssumption
<1> QED
  BY <1>2, <1>3, Zenon DEF NewItem, Item

LEMMA SemFacts ==
    ASSUME NEW n \in 0..OB_MAX
    PROVE  Give(n) \in 1..OB_MAX /\ TakeNoWait(n) \in 0..OB_MAX
BY OutboundAssumption DEF Give, TakeNoWait

LEMMA EmptyFacts == <<>> \in Seq(Item) /\ Len(<<>>) = 0
OBVIOUS

LEMMA StoreFacts ==
    ASSUME NEW s \in Seq(Item), NEW i \in DOMAIN s, NEW x \in Item
    PROVE  /\ [s EXCEPT ![i] = x] \in Seq(Item)
           /\ Len([s EXCEPT ![i] = x]) = Len(s)
OBVIOUS

LEMMA HandFacts ==
    ASSUME TypeInv, wpc \in {"tx", "complete"}
    PROVE  cur = <<cur[1]>> /\ cur[1] \in Item
BY DEF TypeInv, TypeOK, HandOK

LEMMA TypeStep ==
    ASSUME TypeInv, [Next]_vars
    PROVE  TypeInv'
<1> USE DEF TypeInv
<1>1. ASSUME NEW f \in Frames, Insert(f) PROVE TypeInv'
  <2>1. items \in Seq(Item) /\ NewItem(f) \in Item
    BY NewItemType DEF TypeOK
  <2>2. Len(items) < OB_MAX
    BY <1>1, OutboundAssumption DEF Insert, TypeOK, AnyPolicy
  <2>3. items' \in Seq(Item) /\ Len(items') <= OB_MAX
    BY <1>1, <2>1, <2>2, PushFacts, OutboundAssumption DEF Insert
  <2> QED
    BY <1>1, <2>3 DEF Insert, TypeOK, HandOK, sems, worker, env, Fates
<1>2. ASSUME NEW f \in Frames, InsertEvicting(f) PROVE TypeInv'
  <2>1. PICK v \in DOMAIN items :
           /\ items' = Push(Remove(items, v), NewItem(f))
           /\ fate' = [fate EXCEPT ![items[v].id] = "evicted", ![f] = "queued"]
    BY <1>2 DEF InsertEvicting, Evictable
  <2>2. items \in Seq(Item) /\ NewItem(f) \in Item
    BY NewItemType DEF TypeOK
  <2>3. Remove(items, v) \in Seq(Item) /\ Len(Remove(items, v)) = Len(items) - 1
    BY <2>2, RemoveFacts
  <2>4. items' \in Seq(Item) /\ Len(items') = Len(items)
    <3>1. items' \in Seq(Item) /\ Len(items') = Len(Remove(items, v)) + 1
      BY <2>1, <2>2, <2>3, PushFacts
    <3> QED
      BY <2>2, <2>3, <3>1
  <2>5. ob_avail' \in 0..OB_MAX
    BY <1>2, SemFacts DEF InsertEvicting, TypeOK
  <2> QED
    BY <1>2, <2>1, <2>4, <2>5 DEF InsertEvicting, TypeOK, HandOK, worker, env, Fates
<1>3. ASSUME NEW f \in Frames, Reject(f) \/ FindFull(f) \/ Refuse(f) \/ Return(f)
      PROVE  TypeInv'
  BY <1>3 DEF Reject, FindFull, Refuse, Return, TypeOK, HandOK, queue, sems, worker, env, Fates
<1>4. ASSUME NEW f \in Frames, TakeSpace(f) PROVE TypeInv'
  <2>1. ob_space' \in 0..OB_MAX
    BY <1>4, OutboundAssumption DEF TakeSpace, TypeOK
  <2> QED
    BY <1>4, <2>1 DEF TakeSpace, TypeOK, HandOK, queue, worker, env
<1>5. ASSUME NEW f \in Frames, Post(f) PROVE TypeInv'
  <2>1. ob_avail' \in 0..OB_MAX
    BY <1>5, SemFacts DEF Post, TypeOK
  <2> QED
    BY <1>5, <2>1 DEF Post, TypeOK, HandOK, queue, worker, env
<1>6. CASE WorkerPick
  <2>1. PICK i \in DOMAIN items : cur' = <<items[i]>> /\ items' = Remove(items, i)
    BY <1>6 DEF WorkerPick
  <2>2. items' \in Seq(Item) /\ Len(items') = Len(items) - 1
    BY <2>1, RemoveFacts DEF TypeOK
  <2>3. cur' \in Seq(Item) /\ Len(cur') = 1
    BY <2>1 DEF TypeOK
  <2>4. Len(items') <= OB_MAX
    BY <2>2, OutboundAssumption DEF TypeOK
  <2> QED
    BY <1>6, <2>2, <2>3, <2>4 DEF WorkerPick, TypeOK, HandOK, sems, env
<1>7. CASE WorkerIdle
  BY <1>7 DEF WorkerIdle, TypeOK, HandOK, queue, sems, env
<1>8. CASE WorkerTx
  <2>1. ob_space' \in 0..OB_MAX
    BY <1>8, SemFacts DEF WorkerTx, TypeOK
  <2> QED
    BY <1>8, <2>1 DEF WorkerTx, TypeOK, HandOK, TxAnswers, queue, env
<1>9. CASE WorkerRequeue
  <2>1. cur[1] \in Item /\ cur[1].defers < TX_DEFER_MAX /\ Len(items) < OB_MAX
    BY <1>9, HandFacts DEF WorkerRequeue, CanRequeue
  <2> DEFINE it == [cur[1] EXCEPT !.defers = @ + 1, !.eligible = FALSE]
  <2>2. it \in Item
    <3>1. cur[1].defers + 1 \in 0..TX_DEFER_MAX
      BY <2>1, OutboundAssumption DEF Item
    <3> QED
      BY <2>1, <3>1 DEF Item
  <2>3. items' \in Seq(Item) /\ Len(items') = Len(items) + 1
    BY <1>9, <2>2, PushFacts DEF WorkerRequeue, TypeOK
  <2>4. ob_space' \in 0..OB_MAX /\ ob_avail' \in 0..OB_MAX
    BY <1>9, SemFacts DEF WorkerRequeue, TypeOK
  <2>5. worder' \in {"FIFO", "PRIORITY"}
    BY <1>9, OutboundAssumption DEF WorkerRequeue, TypeOK, AnyPolicy
  <2>6. Len(items') <= OB_MAX
    BY <2>1, <2>3, OutboundAssumption DEF TypeOK
  <2> QED
    <3>1. cur' \in Seq(Item) /\ Len(cur') <= 1
      BY <1>9, EmptyFacts DEF WorkerRequeue
    <3>2. TypeOK'
      BY <1>9, <2>3, <2>4, <2>5, <2>6, <3>1 DEF WorkerRequeue, TypeOK, env
    <3>3. HandOK'
      BY <1>9 DEF WorkerRequeue, HandOK
    <3> QED
      BY <3>2, <3>3
<1>10. CASE WorkerComplete
  <2>1. worder' \in {"FIFO", "PRIORITY"}
    BY <1>10, OutboundAssumption DEF WorkerComplete, TypeOK, AnyPolicy
  <2>2. fate' \in [Frames -> Fates]
    BY <1>10 DEF WorkerComplete, TypeOK, FinalFate, Fates
  <2> QED
    <3>1. cur' \in Seq(Item) /\ Len(cur') <= 1
      BY <1>10, EmptyFacts DEF WorkerComplete
    <3>2. TypeOK'
      BY <1>10, <2>1, <2>2, <3>1 DEF WorkerComplete, TypeOK, sems, env
    <3>3. HandOK'
      BY <1>10 DEF WorkerComplete, HandOK
    <3> QED
      BY <3>2, <3>3
<1>11. CASE WorkerWake
  <2>1. ob_avail' \in 0..OB_MAX
    BY <1>11, SemFacts DEF WorkerWake, TypeOK
  <2>2. worder' \in {"FIFO", "PRIORITY"}
    BY <1>11, OutboundAssumption DEF WorkerWake, TypeOK, AnyPolicy
  <2> QED
    BY <1>11, <2>1, <2>2 DEF WorkerWake, TypeOK, HandOK, queue, env
<1>12. ASSUME NEW f \in Frames, Cancel(f) PROVE TypeInv'
  <2>1. PICK i \in DOMAIN items : items' = Remove(items, i)
    BY <1>12 DEF Cancel
  <2>2. items' \in Seq(Item) /\ Len(items') = Len(items) - 1
    BY <2>1, RemoveFacts DEF TypeOK
  <2>3. Len(items') <= OB_MAX
    BY <2>2, OutboundAssumption DEF TypeOK
  <2> QED
    BY <1>12, <2>2, <2>3 DEF Cancel, TypeOK, HandOK, worker, env, Fates
<1>13. CASE GiveOwed
  <2>1. ob_space' \in 0..OB_MAX
    BY <1>13, SemFacts DEF GiveOwed, TypeOK
  <2> QED
    BY <1>13, <2>1 DEF GiveOwed, TypeOK, HandOK, queue, worker, env
<1>14. ASSUME NEW f \in Frames, DeferLate(f) \/ Elapse(f) PROVE TypeInv'
  <2>1. PICK i \in DOMAIN items :
           \/ items' = [items EXCEPT ![i] = [@ EXCEPT !.eligible = FALSE, !.late = TRUE]]
           \/ items' = [items EXCEPT ![i] = [@ EXCEPT !.eligible = TRUE]]
    BY <1>14 DEF DeferLate, Elapse
  <2>2. items[i] \in Item
    BY DEF TypeOK
  <2>3. /\ [items[i] EXCEPT !.eligible = FALSE, !.late = TRUE] \in Item
        /\ [items[i] EXCEPT !.eligible = TRUE] \in Item
    BY <2>2 DEF Item
  <2>4. items' \in Seq(Item) /\ Len(items') = Len(items)
    <3>1. ASSUME NEW x \in Item, items' = [items EXCEPT ![i] = x]
          PROVE  items' \in Seq(Item) /\ Len(items') = Len(items)
      BY <3>1, StoreFacts DEF TypeOK
    <3> QED
      BY <2>1, <2>3, <3>1
  <2> QED
    <3>1. UNCHANGED <<ob_inflight, cur, sems, worker, caller, env, fate>>
      BY <1>14 DEF DeferLate, Elapse
    <3> QED
      BY <2>4, <3>1 DEF TypeOK, HandOK, sems, worker, env
<1>15. CASE SetPolicy
  BY <1>15 DEF SetPolicy, TypeOK, HandOK, queue, sems, worker
<1>16. CASE UNCHANGED vars
  BY <1>16 DEF vars, TypeOK, HandOK
<1> QED
  BY <1>1, <1>2, <1>3, <1>4, <1>5, <1>6, <1>7, <1>8, <1>9, <1>10, <1>11, <1>12, <1>13,
     <1>14, <1>15, <1>16 DEF Next, Caller, Worker

LEMMA TypeInvHolds == Spec => []TypeInv
<1>1. Init => TypeInv
  <2> SUFFICES ASSUME Init PROVE TypeInv
    OBVIOUS
  <2>1. worder \in {"FIFO", "PRIORITY"}
    BY OutboundAssumption DEF Init, AnyPolicy
  <2>2. items \in Seq(Item) /\ Len(items) <= OB_MAX /\ cur \in Seq(Item) /\ Len(cur) <= 1
    BY EmptyFacts, OutboundAssumption DEF Init
  <2>3. TypeOK
    <3>1. /\ caller \in [Frames -> {"idle", "full", "retry", "post", "wait", "returned"}]
          /\ fate \in [Frames -> Fates]
      BY DEF Init, Fates
    <3>2. ob_avail \in 0..OB_MAX /\ ob_space \in 0..OB_MAX /\ owed \in Nat
      BY OutboundAssumption DEF Init
    <3> QED
      BY <2>1, <2>2, <3>1, <3>2 DEF Init, TypeOK
  <2>4. HandOK
    BY DEF Init, HandOK
  <2> QED
    BY <2>3, <2>4 DEF TypeInv
<1>2. TypeInv /\ [Next]_vars => TypeInv'
  BY TypeStep
<1> QED
  BY <1>1, <1>2, PTL DEF Spec

\* Types, for every instance: the queue never outgrows ob_items[OB_MAX], the semaphores
\* stay within their limits, and the in-flight flag is raised exactly while the worker
\* holds a frame.
THEOREM TypeCorrect == Spec => []TypeOK
<1>1. TypeInv => TypeOK
  BY DEF TypeInv
<1> QED
  BY <1>1, TypeInvHolds, PTL

-----------------------------------------------------------------------------
(* Frames.  An item keeps the tier and the waiter of the request it came from, *)
(* and the caller's place bounds what can have become of its frame.            *)

Matches(s) ==
    \A i \in DOMAIN s : /\ s[i].tier = req[s[i].id].tier
                        /\ s[i].done <=> req[s[i].id].blocking

CallersOK ==
    \A f \in Frames :
        /\ caller[f] \in {"idle", "full", "retry"} => fate[f] = "new"
        /\ caller[f] \in {"full", "retry", "wait"} => req[f].blocking
        /\ caller[f] \in {"post", "wait"} /\ req[f].blocking =>
               fate[f] \in Completed \cup {"queued"}

FrameInv == TypeInv /\ FrameInOnePlace /\ Matches(items) /\ Matches(cur) /\ CallersOK

\* Elements of the array after a removal and after a store.
LEMMA RemoveElems ==
    ASSUME NEW s \in Seq(Item), NEW i \in DOMAIN s
    PROVE  \A j \in DOMAIN Remove(s, i) : \E k \in DOMAIN s : Remove(s, i)[j] = s[k]
<1>1. /\ DOMAIN Remove(s, i) = 1..(Len(s) - 1)
      /\ \A j \in 1..(Len(s) - 1) : Remove(s, i)[j] = IF j < i THEN s[j] ELSE s[j + 1]
  BY RemoveFacts
<1>2. DOMAIN s = 1..Len(s) /\ Len(s) \in Nat
  OBVIOUS
<1> QED
  BY <1>1, <1>2

LEMMA PushElems ==
    ASSUME NEW s \in Seq(Item), NEW x \in Item
    PROVE  \A j \in DOMAIN Push(s, x) :
              Push(s, x)[j] = x \/ \E k \in DOMAIN s : Push(s, x)[j] = s[k]
<1>1. /\ DOMAIN Push(s, x) = 1..(Len(s) + 1)
      /\ \A j \in 1..(Len(s) + 1) : Push(s, x)[j] = IF j <= Len(s) THEN s[j] ELSE x
  BY PushFacts
<1>2. DOMAIN s = 1..Len(s) /\ Len(s) \in Nat
  OBVIOUS
<1> QED
  BY <1>1, <1>2

LEMMA NewItemFacts ==
    ASSUME TypeInv, NEW f \in Frames
    PROVE  /\ NewItem(f) \in Item
           /\ NewItem(f).id = f
           /\ NewItem(f).tier = req[f].tier
           /\ NewItem(f).done = req[f].blocking
BY NewItemType DEF NewItem, TypeInv

LEMMA HandIds ==
    ASSUME NEW x PROVE Ids(<<x>>) = {x.id} /\ Ids(<<>>) = {}
BY DEF Ids

LEMMA FrameStep ==
    ASSUME FrameInv, [Next]_vars
    PROVE  FrameInv'
<1> USE DEF FrameInv
<1>t. TypeInv'
  BY TypeStep
<1>s. items \in Seq(Item) /\ cur \in Seq(Item)
  BY DEF TypeInv, TypeOK
<1>1. ASSUME NEW f \in Frames, Insert(f) PROVE FrameInv'
  <2> DEFINE x == NewItem(f)
  <2>1. x \in Item /\ x.id = f /\ x.tier = req[f].tier /\ x.done = req[f].blocking
    BY NewItemFacts
  <2>2. fate[f] = "new" /\ f \notin Queued \cup InHand
    BY <1>1 DEF Insert, AtLoop, CallersOK, FrameInOnePlace
  <2>3. Ids(items') = Ids(items) \cup {f} /\ Distinct(items')
    BY <1>1, <1>s, <2>1, <2>2, PushIds DEF Insert, FrameInOnePlace, Queued
  <2>4. cur' = cur /\ req' = req
    BY <1>1 DEF Insert, env
  <2>5. FrameInOnePlace'
    BY <1>1, <2>2, <2>3, <2>4 DEF Insert, FrameInOnePlace, Queued, InHand, TypeInv, TypeOK
  <2>6. Matches(items)'
    <3>1. \A j \in DOMAIN items' : items'[j] = x \/ \E k \in DOMAIN items : items'[j] = items[k]
      BY <1>1, <1>s, <2>1, PushElems DEF Insert
    <3> QED
      BY <2>1, <2>4, <3>1 DEF Matches
  <2>7. Matches(cur)'
    BY <2>4 DEF Matches
  <2>8. CallersOK'
    BY <1>1, <2>4 DEF Insert, AtLoop, CallersOK, TypeInv, TypeOK
  <2> QED
    BY <1>t, <2>5, <2>6, <2>7, <2>8
<1>2. ASSUME NEW f \in Frames, InsertEvicting(f) PROVE FrameInv'
  <2> DEFINE x == NewItem(f)
  <2>1. x \in Item /\ x.id = f /\ x.tier = req[f].tier /\ x.done = req[f].blocking
    BY NewItemFacts
  <2>2. fate[f] = "new" /\ f \notin Queued \cup InHand
    BY <1>2 DEF InsertEvicting, AtLoop, CallersOK, FrameInOnePlace
  <2>3. PICK v \in DOMAIN items :
           /\ ~items[v].done
           /\ items' = Push(Remove(items, v), x)
           /\ fate' = [fate EXCEPT ![items[v].id] = "evicted", ![f] = "queued"]
    BY <1>2 DEF InsertEvicting, Evictable, IsVictim
  <2> DEFINE g == items[v].id
             r == Remove(items, v)
  <2>4. g \in Frames /\ g \in Queued /\ g # f /\ fate[g] = "queued" /\ ~req[g].blocking
    <3>1. g \in Queued /\ g \in Frames
      <4>1. items[v] \in Item
        BY <1>s
      <4> QED
        BY <4>1 DEF Queued, Ids, Item
    <3> QED
      BY <2>2, <2>3, <3>1 DEF FrameInOnePlace, Matches
  <2>5. r \in Seq(Item) /\ Ids(r) = Ids(items) \ {g} /\ Distinct(r)
    BY <1>s, RemoveFacts, RemoveIds DEF FrameInOnePlace
  <2>6. Ids(items') = (Ids(items) \ {g}) \cup {f} /\ Distinct(items')
    BY <2>1, <2>2, <2>3, <2>5, PushIds DEF Queued
  <2>7. cur' = cur /\ req' = req
    BY <1>2 DEF InsertEvicting, env
  <2>8. FrameInOnePlace'
    BY <2>2, <2>3, <2>4, <2>6, <2>7
    DEF FrameInOnePlace, Queued, InHand, TypeInv, TypeOK
  <2>9. Matches(items)'
    <3>1. \A j \in DOMAIN items' : items'[j] = x \/ \E k \in DOMAIN r : items'[j] = r[k]
      BY <2>1, <2>3, <2>5, PushElems
    <3>2. \A k \in DOMAIN r : \E l \in DOMAIN items : r[k] = items[l]
      BY <1>s, RemoveElems
    <3> HIDE DEF r
    <3> QED
      BY <2>1, <2>7, <3>1, <3>2 DEF Matches
  <2>10. Matches(cur)'
    BY <2>7 DEF Matches
  <2>11. CallersOK'
    BY <1>2, <2>2, <2>3, <2>4, <2>7
    DEF InsertEvicting, AtLoop, CallersOK, TypeInv, TypeOK
  <2> QED
    BY <1>t, <2>8, <2>9, <2>10, <2>11
<1>3. ASSUME NEW f \in Frames,
             Reject(f) \/ FindFull(f) \/ Refuse(f) \/ TakeSpace(f) \/ Post(f) \/ Return(f)
      PROVE  FrameInv'
  <2>1. items' = items /\ cur' = cur /\ req' = req
    BY <1>3 DEF Reject, FindFull, Refuse, TakeSpace, Post, Return, queue, env
  <2>2. \/ fate' = fate
        \/ fate[f] = "new" /\ fate' = [fate EXCEPT ![f] = "rejected"]
    BY <1>3 DEF Reject, FindFull, Refuse, TakeSpace, Post, Return, AtLoop, CallersOK
  <2>3. FrameInOnePlace'
    BY <2>1, <2>2 DEF FrameInOnePlace, Queued, InHand, TypeInv, TypeOK
  <2>4. Matches(items)' /\ Matches(cur)'
    BY <2>1 DEF Matches
  <2>5. CallersOK'
    BY <1>3, <2>1
    DEF Reject, FindFull, Refuse, TakeSpace, Post, Return, AtLoop, CallersOK, TypeInv, TypeOK
  <2> QED
    BY <1>t, <2>3, <2>4, <2>5
<1>4. CASE WorkerPick
  <2>1. PICK i \in DOMAIN items : cur' = <<items[i]>> /\ items' = Remove(items, i)
    BY <1>4 DEF WorkerPick
  <2>2. cur = <<>> /\ req' = req /\ fate' = fate /\ caller' = caller
    BY <1>4 DEF WorkerPick, env, TypeInv, HandOK
  <2>3. Ids(items') = Ids(items) \ {items[i].id} /\ Distinct(items')
    BY <1>s, <2>1, RemoveIds DEF FrameInOnePlace
  <2>4. Ids(cur) = {} /\ Ids(cur') = {items[i].id} /\ items[i].id \in Ids(items)
    BY <2>1, <2>2, HandIds DEF Ids
  <2>5. FrameInOnePlace'
    BY <2>2, <2>3, <2>4 DEF FrameInOnePlace, Queued, InHand
  <2>6. Matches(items)'
    BY <1>s, <2>1, <2>2, RemoveElems DEF Matches
  <2>7. Matches(cur)'
    BY <2>1, <2>2 DEF Matches
  <2>8. CallersOK'
    BY <2>2 DEF CallersOK
  <2> QED
    BY <1>t, <2>5, <2>6, <2>7, <2>8
<1>5. CASE WorkerIdle \/ WorkerTx \/ WorkerWake \/ GiveOwed \/ SetPolicy \/ UNCHANGED vars
  <2>1. UNCHANGED <<items, cur, req, fate, caller>>
    BY <1>5 DEF WorkerIdle, WorkerTx, WorkerWake, GiveOwed, SetPolicy, vars, queue, env
  <2> QED
    BY <1>t, <2>1 DEF FrameInOnePlace, Queued, InHand, Matches, CallersOK, Ids, Distinct
<1>6. CASE WorkerRequeue
  <2> DEFINE it == [cur[1] EXCEPT !.defers = @ + 1, !.eligible = FALSE]
  <2>1. cur = <<cur[1]>> /\ cur[1] \in Item
    BY <1>6, HandFacts DEF WorkerRequeue
  <2>2. it \in Item
    <3>1. cur[1].defers + 1 \in 0..TX_DEFER_MAX
      BY <1>6, <2>1, OutboundAssumption DEF Item, WorkerRequeue, CanRequeue
    <3> QED
      BY <2>1, <3>1 DEF Item
  <2>3. it.id = cur[1].id /\ it.tier = cur[1].tier /\ it.done = cur[1].done
    BY <2>1 DEF Item
  <2>4. items' = Push(items, it) /\ cur' = <<>>
    BY <1>6 DEF WorkerRequeue
  <2>5. req' = req /\ fate' = fate /\ caller' = caller
    BY <1>6 DEF WorkerRequeue, env
  <2> HIDE DEF it
  <2>6. Ids(cur) = {it.id} /\ Ids(cur') = {}
    BY <2>1, <2>3, <2>4, HandIds
  <2>7. Ids(items') = Ids(items) \cup {it.id} /\ Distinct(items')
    BY <1>s, <2>2, <2>4, <2>6, PushIds DEF FrameInOnePlace, Queued, InHand
  <2>8. FrameInOnePlace'
    BY <2>5, <2>6, <2>7 DEF FrameInOnePlace, Queued, InHand
  <2>9. Matches(<<it>>)
    BY <2>1, <2>3 DEF Matches
  <2>10. Matches(items)'
    <3>1. \A j \in DOMAIN items' : items'[j] = it \/ \E k \in DOMAIN items : items'[j] = items[k]
      BY <1>s, <2>2, <2>4, PushElems
    <3> QED
      BY <2>5, <2>9, <3>1 DEF Matches
  <2>11. Matches(cur)'
    BY <2>4 DEF Matches
  <2>12. CallersOK'
    BY <2>5 DEF CallersOK
  <2> QED
    BY <1>t, <2>8, <2>10, <2>11, <2>12
<1>7. CASE WorkerComplete
  <2>1. cur = <<cur[1]>> /\ cur[1] \in Item
    BY <1>7, HandFacts DEF WorkerComplete
  <2>2. Ids(cur) = {cur[1].id} /\ Ids(cur') = {} /\ cur[1].id \in Frames
    BY <1>7, <2>1, HandIds DEF WorkerComplete, Item
  <2>3. FinalFate(cur[1]) \in Completed
    BY DEF FinalFate, Completed
  <2>4. items' = items /\ req' = req /\ caller' = caller
    BY <1>7 DEF WorkerComplete, env
  <2>5. fate' = [fate EXCEPT ![cur[1].id] = FinalFate(cur[1])]
    BY <1>7 DEF WorkerComplete
  <2>6. FrameInOnePlace'
    <3>1. FinalFate(cur[1]) # "queued"
      BY <2>3 DEF Completed
    <3> QED
      BY <2>2, <2>4, <2>5, <3>1 DEF FrameInOnePlace, Queued, InHand, TypeInv, TypeOK
  <2>7. Matches(items)' /\ Matches(cur)'
    BY <1>7, <2>4 DEF Matches, WorkerComplete
  <2>8. CallersOK'
    <3>1. fate[cur[1].id] = "queued"
      BY <2>2 DEF FrameInOnePlace, Queued, InHand
    <3> QED
      BY <2>2, <2>3, <2>4, <2>5, <3>1 DEF CallersOK, TypeInv, TypeOK
  <2> QED
    BY <1>t, <2>6, <2>7, <2>8
<1>8. ASSUME NEW f \in Frames, Cancel(f) PROVE FrameInv'
  <2>1. PICK i \in DOMAIN items :
           items[i].id = f /\ ~items[i].done /\ items' = Remove(items, i)
    BY <1>8 DEF Cancel
  <2>2. cur' = cur /\ req' = req /\ caller' = caller /\ fate' = [fate EXCEPT ![f] = "cancelled"]
    BY <1>8 DEF Cancel, env
  <2>3. Ids(items') = Ids(items) \ {f} /\ Distinct(items') /\ f \in Ids(items)
    <3>1. f \in Ids(items)
      BY <2>1 DEF Ids
    <3> QED
      BY <1>s, <2>1, <3>1, RemoveIds DEF FrameInOnePlace
  <2>4. FrameInOnePlace'
    BY <2>2, <2>3 DEF FrameInOnePlace, Queued, InHand, TypeInv, TypeOK
  <2>5. Matches(items)' /\ Matches(cur)'
    BY <1>s, <2>1, <2>2, RemoveElems DEF Matches
  <2>6. CallersOK'
    <3>1. fate[f] = "queued" /\ ~req[f].blocking
      BY <2>1, <2>3 DEF FrameInOnePlace, Queued, Matches
    <3> QED
      BY <2>2, <3>1 DEF CallersOK, TypeInv, TypeOK
  <2> QED
    BY <1>t, <2>4, <2>5, <2>6
<1>9. ASSUME NEW f \in Frames, DeferLate(f) \/ Elapse(f) PROVE FrameInv'
  <2>1. PICK i \in DOMAIN items :
           \/ items' = [items EXCEPT ![i] = [@ EXCEPT !.eligible = FALSE, !.late = TRUE]]
           \/ items' = [items EXCEPT ![i] = [@ EXCEPT !.eligible = TRUE]]
    BY <1>9 DEF DeferLate, Elapse
  <2>2. UNCHANGED <<cur, req, caller, fate>>
    BY <1>9 DEF DeferLate, Elapse, env
  <2>3. /\ DOMAIN items' = DOMAIN items
        /\ \A j \in DOMAIN items : /\ items'[j].id = items[j].id
                                   /\ items'[j].tier = items[j].tier
                                   /\ items'[j].done = items[j].done
    <3>1. items[i] \in Item
      BY <1>s
    <3>2. PICK x : /\ items' = [items EXCEPT ![i] = x]
                   /\ x.id = items[i].id /\ x.tier = items[i].tier /\ x.done = items[i].done
      BY <2>1, <3>1 DEF Item
    <3> QED
      BY <1>s, <3>2
  <2>4. Ids(items') = Ids(items) /\ Distinct(items') /\ Matches(items)'
    BY <2>2, <2>3 DEF Ids, Distinct, Matches, FrameInOnePlace
  <2>5. FrameInOnePlace' /\ Matches(cur)' /\ CallersOK'
    BY <2>2, <2>4 DEF FrameInOnePlace, Queued, InHand, Matches, CallersOK
  <2> QED
    BY <1>t, <2>4, <2>5
<1> QED
  BY <1>1, <1>2, <1>3, <1>4, <1>5, <1>6, <1>7, <1>8, <1>9 DEF Next, Caller, Worker

LEMMA FrameInvHolds == Spec => []FrameInv
<1>1. Init /\ TypeInv => FrameInv
  BY DEF Init, FrameInv, FrameInOnePlace, Queued, InHand, Ids, Distinct, Matches, CallersOK
<1>2. FrameInv /\ [Next]_vars => FrameInv'
  BY FrameStep
<1> QED
  BY <1>1, <1>2, TypeInvHolds, PTL DEF Spec

\* No path through meshtastic_outbound.c loses or doubles a frame: an accepted frame that
\* has not been disposed of is in the queue or in the worker's hand, once.
THEOREM FramesConserved == Spec => []FrameInOnePlace
<1>1. FrameInv => FrameInOnePlace
  BY DEF FrameInv
<1> QED
  BY <1>1, FrameInvHolds, PTL

\* A frame somebody waits on is only ever ended by the worker: eviction and cancel pass it
\* over.
THEOREM BlockingSafe == Spec => []BlockingNeverLost
<1>1. FrameInv => BlockingNeverLost
  BY DEF FrameInv, CallersOK, BlockingNeverLost
<1> QED
  BY <1>1, FrameInvHolds, PTL

\* The drain interlock: meshtastic_outbound_pending is positive while any accepted frame
\* is alive, for every interleaving of enqueue, dequeue, requeue and completion.
THEOREM PendingSound == Spec => []PendingSeesEveryFrame
<1>1. FrameInv => PendingSeesEveryFrame
  <2> SUFFICES ASSUME FrameInv, NEW f \in Frames, fate[f] = "queued" PROVE Pending > 0
    BY DEF PendingSeesEveryFrame
  <2>1. f \in Ids(items) \/ f \in Ids(cur)
    BY DEF FrameInv, FrameInOnePlace, Queued, InHand
  <2>2. items \in Seq(Item) /\ Len(items) \in Nat
    BY DEF FrameInv, TypeInv, TypeOK
  <2>3. CASE f \in Ids(items)
    <3>1. Len(items) > 0
      BY <2>2, <2>3 DEF Ids
    <3> QED
      BY <2>2, <3>1 DEF Pending
  <2>4. CASE f \in Ids(cur)
    <3>1. cur # <<>>
      BY <2>4 DEF Ids
    <3>2. ob_inflight
      BY <3>1 DEF FrameInv, TypeInv, TypeOK, HandOK
    <3> QED
      BY <2>2, <3>2 DEF Pending
  <2> QED
    BY <2>1, <2>3, <2>4
<1> QED
  BY <1>1, FrameInvHolds, PTL

\* A frame only gives way to one of a strictly higher tier that enters in the same step.
THEOREM EvictionRespectsTiers == Spec => EvictionIsForHigherTier
<1> DEFINE A == \A f \in Frames : fate'[f] = "evicted" /\ fate[f] # "evicted" =>
                  \E g \in Frames : /\ fate[g] # "queued" /\ fate'[g] = "queued"
                                    /\ req[g].tier > req[f].tier
<1>1. FrameInv /\ [Next]_vars => [A]_vars
  <2> SUFFICES ASSUME FrameInv, Next, NEW f \in Frames,
                      fate'[f] = "evicted", fate[f] # "evicted"
               PROVE  \E g \in Frames : /\ fate[g] # "queued" /\ fate'[g] = "queued"
                                         /\ req[g].tier > req[f].tier
    OBVIOUS
  <2>1. fate \in [Frames -> Fates]
    BY DEF FrameInv, TypeInv, TypeOK
  <2>2. \E g \in Frames : InsertEvicting(g)
    <3>1. ASSUME NEW g \in Frames, Caller(g), ~InsertEvicting(g) PROVE FALSE
      BY <2>1, <3>1 DEF Caller, Insert, Reject, FindFull, Refuse, TakeSpace, Post, Return
    <3>2. ASSUME NEW g \in Frames, Cancel(g) \/ DeferLate(g) \/ Elapse(g) PROVE FALSE
      BY <2>1, <3>2 DEF Cancel, DeferLate, Elapse
    <3>3. ASSUME Worker \/ GiveOwed \/ SetPolicy PROVE FALSE
      BY <2>1, <3>3 DEF Worker, WorkerPick, WorkerIdle, WorkerTx, WorkerRequeue,
                        WorkerComplete, WorkerWake, GiveOwed, SetPolicy, FinalFate
    <3> QED
      BY <3>1, <3>2, <3>3 DEF Next
  <2>3. PICK g \in Frames : InsertEvicting(g)
    BY <2>2
  <2>4. fate[g] = "new"
    BY <2>3 DEF InsertEvicting, AtLoop, FrameInv, CallersOK
  <2>5. PICK v \in DOMAIN items :
           /\ items[v].tier < req[g].tier
           /\ fate' = [fate EXCEPT ![items[v].id] = "evicted", ![g] = "queued"]
    BY <2>3 DEF InsertEvicting, Evictable
  <2>6. items[v].id = f /\ fate'[g] = "queued"
    BY <2>1, <2>5
  <2>7. items[v].tier = req[f].tier
    BY <2>6 DEF FrameInv, Matches
  <2>8. req[g].tier \in Int /\ req[f].tier \in Int
    BY OutboundAssumption DEF FrameInv, TypeInv, TypeOK, AnyRequest, Tiers
  <2> QED
    BY <2>4, <2>5, <2>6, <2>7, <2>8
<1> QED
  BY <1>1, FrameInvHolds, PTL DEF Spec, EvictionIsForHigherTier

-----------------------------------------------------------------------------
(* Wakeups.  Both invariants are inductive given the types and the callers.    *)

\* The array after a removal, a store and an update in place, as far as emptiness goes.
LEMMA ItemsGrow ==
    ASSUME TypeInv, NEW f \in Frames, Insert(f) \/ InsertEvicting(f)
    PROVE  items' # <<>> /\ caller'[f] = "post"
<1>1. NewItem(f) \in Item /\ items \in Seq(Item)
  BY NewItemFacts DEF TypeInv, TypeOK
<1>2. PICK s \in Seq(Item) : items' = Push(s, NewItem(f))
  BY <1>1, RemoveFacts DEF Insert, InsertEvicting, Evictable
<1>3. Len(items') = Len(s) + 1 /\ items' \in Seq(Item)
  BY <1>1, <1>2, PushFacts
<1>4. items' # <<>>
  BY <1>3, EmptyFacts
<1>5. caller'[f] = "post"
  BY DEF Insert, InsertEvicting, TypeInv, TypeOK
<1> QED
  BY <1>4, <1>5

\* The worker never sleeps for ever on a non-empty queue without a wakeup on its way,
\* although an eviction takes one ob_avail count back.
THEOREM WakeupsKept == Spec => []NoLostWakeup
<1>1. Init => NoLostWakeup
  BY DEF Init, NoLostWakeup
<1>2. FrameInv /\ NoLostWakeup /\ [Next]_vars => NoLostWakeup'
  <2> SUFFICES ASSUME FrameInv, NoLostWakeup, [Next]_vars PROVE NoLostWakeup'
    OBVIOUS
  <2> USE DEF FrameInv
  <2>1. ASSUME NEW f \in Frames, Insert(f) \/ InsertEvicting(f) PROVE NoLostWakeup'
    BY <2>1, ItemsGrow DEF NoLostWakeup
  <2>2. ASSUME NEW f \in Frames,
               Reject(f) \/ FindFull(f) \/ Refuse(f) \/ TakeSpace(f) \/ Return(f)
        PROVE  NoLostWakeup'
    <3>1. UNCHANGED <<wpc, forever, items, ob_avail>>
      BY <2>2 DEF Reject, FindFull, Refuse, TakeSpace, Return, queue, sems, worker
    <3>2. \A g \in Frames : caller[g] = "post" => caller'[g] = "post"
      BY <2>2 DEF Reject, FindFull, Refuse, TakeSpace, Return, AtLoop, TypeInv, TypeOK
    <3> QED
      BY <3>1, <3>2 DEF NoLostWakeup
  <2>3. ASSUME NEW f \in Frames, Post(f) PROVE NoLostWakeup'
    <3>1. ob_avail' > 0
      <4>1. ob_avail \in 0..OB_MAX
        BY DEF TypeInv, TypeOK
      <4>2. ob_avail' = Give(ob_avail)
        BY <2>3 DEF Post
      <4>3. Give(ob_avail) \in 1..OB_MAX
        BY <4>1, SemFacts
      <4> QED
        BY <4>2, <4>3, OutboundAssumption
    <3> QED
      BY <3>1 DEF NoLostWakeup
  <2>4. CASE WorkerPick \/ WorkerTx \/ WorkerRequeue \/ WorkerComplete \/ WorkerWake
    BY <2>4 DEF WorkerPick, WorkerTx, WorkerRequeue, WorkerComplete, WorkerWake, NoLostWakeup
  <2>5. CASE WorkerIdle
    BY <2>5 DEF WorkerIdle, NoLostWakeup, queue
  <2>6. ASSUME NEW f \in Frames, Cancel(f) \/ DeferLate(f) \/ Elapse(f) PROVE NoLostWakeup'
    <3>1. UNCHANGED <<wpc, forever, ob_avail, caller>>
      BY <2>6 DEF Cancel, DeferLate, Elapse, sems, worker
    <3>2. PICK i \in DOMAIN items : items[i].id = f
      BY <2>6 DEF Cancel, DeferLate, Elapse
    <3>3. items # <<>>
      BY <3>2
    <3> QED
      BY <3>1, <3>3 DEF NoLostWakeup
  <2>7. CASE GiveOwed \/ SetPolicy \/ UNCHANGED vars
    BY <2>7 DEF GiveOwed, SetPolicy, vars, NoLostWakeup, queue, sems, worker
  <2> QED
    BY <2>1, <2>2, <2>3, <2>4, <2>5, <2>6, <2>7 DEF Next, Caller, Worker
<1> QED
  BY <1>1, <1>2, FrameInvHolds, PTL DEF Spec

\* A caller waiting for ob_space always has a token, or something that will give one,
\* although a requeue takes a token back.
THEOREM EnqueuersNotStranded == Spec => []NoStrandedEnqueuer
<1>1. Init => NoStrandedEnqueuer
  BY DEF Init, NoStrandedEnqueuer
<1>2. FrameInv /\ NoStrandedEnqueuer /\ [Next]_vars => NoStrandedEnqueuer'
  <2> SUFFICES ASSUME FrameInv, NoStrandedEnqueuer, [Next]_vars PROVE NoStrandedEnqueuer'
    OBVIOUS
  <2> USE DEF FrameInv
  <2>1. ASSUME NEW f \in Frames, Insert(f) \/ InsertEvicting(f) PROVE NoStrandedEnqueuer'
    BY <2>1, ItemsGrow DEF NoStrandedEnqueuer
  <2>2. ASSUME NEW f \in Frames, Reject(f) \/ Refuse(f) \/ Return(f) PROVE NoStrandedEnqueuer'
    <3>1. UNCHANGED <<wpc, items, ob_space, owed>>
      BY <2>2 DEF Reject, Refuse, Return, queue, sems, worker
    <3>2. \A g \in Frames : /\ caller'[g] = "full" => caller[g] = "full"
                            /\ caller[g] = "retry" => caller'[g] = "retry"
      BY <2>2 DEF Reject, Refuse, Return, AtLoop, CallersOK, TypeInv, TypeOK
    <3> QED
      BY <3>1, <3>2 DEF NoStrandedEnqueuer
  <2>3. ASSUME NEW f \in Frames, FindFull(f) PROVE NoStrandedEnqueuer'
    <3>1. policy.depth \in Nat /\ policy.depth >= 1
      BY OutboundAssumption DEF TypeInv, TypeOK, AnyPolicy
    <3>2. items # <<>>
      BY <2>3, <3>1, EmptyFacts DEF FindFull
    <3> QED
      BY <2>3, <3>2 DEF FindFull, NoStrandedEnqueuer, queue
  <2>4. ASSUME NEW f \in Frames, TakeSpace(f) PROVE NoStrandedEnqueuer'
    BY <2>4 DEF TakeSpace, NoStrandedEnqueuer, TypeInv, TypeOK
  <2>5. ASSUME NEW f \in Frames, Post(f) PROVE NoStrandedEnqueuer'
    <3>1. UNCHANGED <<wpc, items, ob_space, owed>>
      BY <2>5 DEF Post, queue, worker
    <3>2. \A g \in Frames : /\ caller'[g] = "full" => caller[g] = "full"
                            /\ caller[g] = "retry" => caller'[g] = "retry"
      BY <2>5 DEF Post, TypeInv, TypeOK
    <3> QED
      BY <3>1, <3>2 DEF NoStrandedEnqueuer
  <2>6. CASE WorkerPick
    BY <2>6 DEF WorkerPick, NoStrandedEnqueuer
  <2>7. CASE WorkerTx \/ GiveOwed
    <3>1. ob_space' > 0
      <4>1. ob_space \in 0..OB_MAX
        BY DEF TypeInv, TypeOK
      <4>2. ob_space' = Give(ob_space)
        BY <2>7 DEF WorkerTx, GiveOwed
      <4>3. Give(ob_space) \in 1..OB_MAX
        BY <4>1, SemFacts
      <4> QED
        BY <4>2, <4>3, OutboundAssumption
    <3> QED
      BY <3>1 DEF NoStrandedEnqueuer
  <2>8. CASE WorkerRequeue
    <3>1. cur[1] \in Item
      BY <2>8, HandFacts DEF WorkerRequeue
    <3>2. [cur[1] EXCEPT !.defers = @ + 1, !.eligible = FALSE] \in Item
      <4>1. cur[1].defers + 1 \in 0..TX_DEFER_MAX
        BY <2>8, <3>1, OutboundAssumption DEF Item, WorkerRequeue, CanRequeue
      <4> QED
        BY <3>1, <4>1 DEF Item
    <3>3. items \in Seq(Item) /\ Len(items') = Len(items) + 1
      BY <2>8, <3>2, PushFacts DEF WorkerRequeue, TypeInv, TypeOK
    <3>4. items' # <<>>
      BY <3>3, EmptyFacts
    <3> QED
      BY <3>4 DEF NoStrandedEnqueuer
  <2>9. CASE WorkerIdle \/ WorkerComplete \/ WorkerWake \/ SetPolicy \/ UNCHANGED vars
    BY <2>9 DEF WorkerIdle, WorkerComplete, WorkerWake, SetPolicy, vars, NoStrandedEnqueuer,
                queue, sems, worker
  <2>10. ASSUME NEW f \in Frames, Cancel(f) PROVE NoStrandedEnqueuer'
    BY <2>10 DEF Cancel, NoStrandedEnqueuer, TypeInv, TypeOK
  <2>11. ASSUME NEW f \in Frames, DeferLate(f) \/ Elapse(f) PROVE NoStrandedEnqueuer'
    <3>1. PICK i \in DOMAIN items : \E x : items' = [items EXCEPT ![i] = x]
      BY <2>11 DEF DeferLate, Elapse
    <3>2. DOMAIN items' = DOMAIN items /\ i \in DOMAIN items
      BY <3>1
    <3>3. items' # <<>>
      BY <3>2
    <3> QED
      BY <3>3 DEF NoStrandedEnqueuer
  <2> QED
    BY <2>1, <2>2, <2>3, <2>4, <2>5, <2>6, <2>7, <2>8, <2>9, <2>10, <2>11
    DEF Next, Caller, Worker
<1> QED
  BY <1>1, <1>2, FrameInvHolds, PTL DEF Spec

-----------------------------------------------------------------------------
(* Room for a deferred frame.  With every soft depth below the array size, the *)
(* one frame that is out always leaves a slot free.                            *)

BelowMax == \A p \in Policies : p.depth < OB_MAX

RoomInv ==
    BelowMax => /\ wpc \in {"tx", "complete"} => Len(items) < OB_MAX
                /\ \A f \in Frames : fate[f] # "nobufs"

LEMMA RoomStep ==
    ASSUME FrameInv, RoomInv, [Next]_vars
    PROVE  RoomInv'
<1> SUFFICES ASSUME BelowMax
             PROVE  /\ wpc' \in {"tx", "complete"} => Len(items') < OB_MAX
                    /\ \A f \in Frames : fate'[f] # "nobufs"
  BY DEF RoomInv, BelowMax
<1>a. wpc \in {"tx", "complete"} => Len(items) < OB_MAX
  BY DEF RoomInv
<1>b. \A f \in Frames : fate[f] # "nobufs"
  BY DEF RoomInv
<1>c. fate \in [Frames -> Fates] /\ items \in Seq(Item) /\ Len(items) <= OB_MAX
  BY DEF FrameInv, TypeInv, TypeOK
<1>d. policy.depth \in Int /\ policy.depth < OB_MAX /\ OB_MAX \in Int
  BY OutboundAssumption DEF BelowMax, FrameInv, TypeInv, TypeOK, AnyPolicy
<1>1. ASSUME NEW f \in Frames, Insert(f)
      PROVE  Len(items') < OB_MAX /\ \A g \in Frames : fate'[g] # "nobufs"
  <2>1. NewItem(f) \in Item
    BY NewItemFacts DEF FrameInv
  <2>2. Len(items') = Len(items) + 1
    BY <1>1, <1>c, <2>1, PushFacts DEF Insert
  <2>3. Len(items') < OB_MAX
    BY <1>1, <1>c, <1>d, <2>2 DEF Insert
  <2> QED
    BY <1>1, <1>b, <1>c, <2>3 DEF Insert
<1>2. ASSUME NEW f \in Frames, InsertEvicting(f)
      PROVE  /\ Len(items') = Len(items) /\ wpc' = wpc
             /\ \A g \in Frames : fate'[g] # "nobufs"
  <2>1. PICK v \in DOMAIN items :
           /\ items' = Push(Remove(items, v), NewItem(f))
           /\ fate' = [fate EXCEPT ![items[v].id] = "evicted", ![f] = "queued"]
    BY <1>2 DEF InsertEvicting, Evictable
  <2>2. NewItem(f) \in Item
    BY NewItemFacts DEF FrameInv
  <2>3. Remove(items, v) \in Seq(Item) /\ Len(Remove(items, v)) = Len(items) - 1
    BY <1>c, RemoveFacts
  <2>4. Len(items') = Len(Remove(items, v)) + 1
    BY <2>1, <2>2, <2>3, PushFacts
  <2>5. Len(items') = Len(items)
    BY <1>c, <2>3, <2>4
  <2> QED
    BY <1>2, <1>b, <1>c, <2>1, <2>5 DEF InsertEvicting, worker
<1>3. ASSUME NEW f \in Frames,
             Reject(f) \/ FindFull(f) \/ Refuse(f) \/ TakeSpace(f) \/ Post(f) \/ Return(f)
      PROVE  items' = items /\ wpc' = wpc /\ \A g \in Frames : fate'[g] # "nobufs"
  BY <1>3, <1>b, <1>c DEF Reject, FindFull, Refuse, TakeSpace, Post, Return, queue, worker
<1>4. ASSUME WorkerPick
      PROVE  Len(items') < OB_MAX /\ \A g \in Frames : fate'[g] # "nobufs"
  <2>1. PICK i \in DOMAIN items : items' = Remove(items, i)
    BY <1>4 DEF WorkerPick
  <2>2. Len(items') = Len(items) - 1
    BY <1>c, <2>1, RemoveFacts
  <2> QED
    BY <1>4, <1>b, <1>c, <1>d, <2>2 DEF WorkerPick
<1>5. ASSUME WorkerComplete
      PROVE  wpc' = "pick" /\ \A g \in Frames : fate'[g] # "nobufs"
  <2>1. cur[1] \in Item
    BY <1>5, HandFacts DEF WorkerComplete, FrameInv
  <2>2. cur[1].defers \in Int /\ TX_DEFER_MAX \in Int
    BY <2>1, OutboundAssumption DEF Item
  <2>3. FinalFate(cur[1]) # "nobufs"
    BY <1>5, <1>a, <2>2 DEF WorkerComplete, CanRequeue, FinalFate, FrameInv, TypeInv, TypeOK, HandOK
  <2> QED
    BY <1>5, <1>b, <1>c, <2>3 DEF WorkerComplete
<1>6. ASSUME WorkerIdle \/ WorkerTx \/ WorkerWake \/ GiveOwed \/ SetPolicy \/ UNCHANGED vars
      PROVE  /\ items' = items /\ fate' = fate
             /\ wpc' = wpc \/ wpc' \in {"sleep", "pick"} \/ wpc = "tx"
  BY <1>6 DEF WorkerIdle, WorkerTx, WorkerWake, GiveOwed, SetPolicy, vars, queue, worker
<1>7. ASSUME WorkerRequeue PROVE wpc' = "pick" /\ fate' = fate
  BY <1>7 DEF WorkerRequeue
<1>8. ASSUME NEW f \in Frames, Cancel(f)
      PROVE  /\ Len(items') <= Len(items) /\ wpc' = wpc
             /\ \A g \in Frames : fate'[g] # "nobufs"
  <2>1. PICK i \in DOMAIN items : items' = Remove(items, i)
    BY <1>8 DEF Cancel
  <2>2. Len(items') = Len(items) - 1
    BY <1>c, <2>1, RemoveFacts
  <2> QED
    BY <1>8, <1>b, <1>c, <2>2 DEF Cancel, worker
<1>9. ASSUME NEW f \in Frames, DeferLate(f) \/ Elapse(f)
      PROVE  Len(items') = Len(items) /\ wpc' = wpc /\ fate' = fate
  <2>1. PICK i \in DOMAIN items : \E x : items' = [items EXCEPT ![i] = x]
    BY <1>9 DEF DeferLate, Elapse
  <2>2. items' \in Seq(Item)
    BY TypeStep DEF FrameInv, TypeInv, TypeOK
  <2>3. Len(items') = Len(items)
    BY <1>c, <2>1, <2>2
  <2> QED
    BY <1>9, <2>3 DEF DeferLate, Elapse, worker
<1>e. Len(items') \in Int
  BY TypeStep DEF FrameInv, TypeInv, TypeOK
<1> QED
  BY <1>a, <1>b, <1>c, <1>d, <1>e, <1>1, <1>2, <1>3, <1>4, <1>5, <1>6, <1>7, <1>8, <1>9
  DEF Next, Caller, Worker

\* While the soft depth is kept below the array size, as it ships, requeue_deferred_locked
\* always finds room, and no frame is ever dropped with -ENOBUFS.
THEOREM DeferredFramesFindRoom == Spec => []RequeueFindsRoom
<1>1. Init => RoomInv
  BY DEF Init, RoomInv
<1>2. FrameInv /\ RoomInv /\ [Next]_vars => RoomInv'
  BY RoomStep
<1>3. RoomInv => RequeueFindsRoom
  BY DEF RoomInv, RequeueFindsRoom, BelowMax
<1> QED
  BY <1>1, <1>2, <1>3, FrameInvHolds, PTL DEF Spec
=============================================================================
