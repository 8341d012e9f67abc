------------------------------ MODULE HlcProofs ------------------------------
(* What the hybrid logical clock promises the document and the store, for    *)
(* every width of the counter and every drift allowance.                     *)
EXTENDS Hlc, TLAPS

\* What last-writer-wins keeps of two versions (meshtastic_cluster_doc_accept_signed,
\* meshtastic_config_store_merge_config): the one held, unless the other is newer.
Keep(held, other) == IF Newer(other, held) THEN other ELSE held

\* A bumped counter stays in its width and the clock moves on (bump_counter).
LEMMA BumpMovesOn ==
    ASSUME NEW p \in Nat, NEW c \in 0..CounterMax
    PROVE  /\ Bump(p, c) \in Clock
           /\ Bump(p, c).p >= p /\ Bump(p, c).p <= p + 1
           /\ Bump(p, c).p > p \/ Bump(p, c).c > c
BY HlcConstants DEF Bump, Clock

\* The same of an observation's bump, which may also leave the counter as it is.
LEMMA SeenKeeps ==
    ASSUME NEW p \in Nat, NEW c \in 0..CounterMax
    PROVE  /\ Seen(p, c) \in Clock
           /\ Seen(p, c).p >= p /\ Seen(p, c).p <= p + 1
           /\ Seen(p, c).p > p \/ Seen(p, c).c >= c
BY BumpMovesOn, HlcConstants DEF Seen, Clock

\* meshtastic_hlc_compare is a strict total order on stamps: no two different stamps
\* tie, so members that see the same versions agree on the newest.
THEOREM NewerIsTotalOrder ==
    ASSUME NEW a \in Stamp, NEW b \in Stamp, NEW d \in Stamp
    PROVE  /\ ~(Newer(a, b) /\ Newer(b, a))
           /\ Newer(a, b) /\ Newer(b, d) => Newer(a, d)
           /\ a = b \/ Newer(a, b) \/ Newer(b, a)
<1>1. ~(Newer(a, b) /\ Newer(b, a))
  BY DEF Newer, Stamp
<1>2. Newer(a, b) /\ Newer(b, d) => Newer(a, d)
  BY DEF Newer, Stamp
<1>3. a = b \/ Newer(a, b) \/ Newer(b, a)
  BY DEF Newer, Stamp
<1> QED BY <1>1, <1>2, <1>3

\* Versions may come in any order, any grouping and any number of times: the version a
\* member ends with is the same (the merge of on_entry and of the config store).
THEOREM KeepIsConfluent ==
    ASSUME NEW a \in Stamp, NEW b \in Stamp, NEW d \in Stamp
    PROVE  /\ Keep(a, a) = a
           /\ Keep(a, b) = Keep(b, a)
           /\ Keep(Keep(a, b), d) = Keep(a, Keep(b, d))
<1>1. Keep(a, a) = a
  BY DEF Keep
<1>2. Keep(a, b) = Keep(b, a)
  BY NewerIsTotalOrder DEF Keep
<1>3. Keep(Keep(a, b), d) = Keep(a, Keep(b, d))
  BY NewerIsTotalOrder DEF Keep
<1> QED BY <1>1, <1>2, <1>3

\* meshtastic_hlc_local_at never repeats itself: whatever the wall clock says (unset, stuck or
\* set back) and with the counter at its limit, a node's next stamp is newer than its last.
THEOREM LocalIsNewer ==
    ASSUME NEW h \in Clock, NEW now \in Nat, NEW n \in Nat, NEW m \in Nat
    PROVE  Local(h, now) \in Clock /\ Newer(Mint(Local(h, now), n), Mint(h, m))
<1>1. h.p \in Nat /\ h.c \in 0..CounterMax
  BY DEF Clock
<1>2. CASE now > h.p
  BY <1>1, <1>2, HlcConstants DEF Local, Newer, Mint, Clock
<1>3. CASE ~(now > h.p)
  <2>1. Local(h, now) = Bump(h.p, h.c)
    BY <1>3 DEF Local
  <2>2. /\ Bump(h.p, h.c) \in Clock
        /\ Bump(h.p, h.c).p >= h.p
        /\ Bump(h.p, h.c).p > h.p \/ Bump(h.p, h.c).c > h.c
    BY <1>1, BumpMovesOn
  <2> DEFINE b == Bump(h.p, h.c)
  <2>3. b.p \in Nat /\ b.c \in 0..CounterMax
    BY <2>2 DEF Clock
  <2> HIDE DEF b
  <2> QED BY <1>1, <2>1, <2>2, <2>3 DEF Newer, Mint, b
<1> QED BY <1>2, <1>3

\* An observation by cases, with the bounds its counter and its time stay in
\* (meshtastic_hlc_observe_at): never back, past a stamp it was not clamped from, and
\* a millisecond beyond the drift allowance at most.
LEMMA ObserveBounds ==
    ASSUME NEW h \in Clock, NEW s \in Stamp, NEW now \in Nat
    PROVE  /\ Observe(h, s, now) \in Clock
           /\ \/ Observe(h, s, now).p > h.p
              \/ Observe(h, s, now).p = h.p /\ Observe(h, s, now).c >= h.c
           /\ \/ Clamped(s, now)
              \/ Observe(h, s, now).p > s.p
              \/ Observe(h, s, now).p = s.p /\ Observe(h, s, now).c >= s.c
           /\ now > 0 => \/ Observe(h, s, now).p <= h.p + 1
                         \/ Observe(h, s, now).p <= now + MaxDrift + 1
<1> DEFINE r == IF Clamped(s, now) THEN now ELSE s.p
           l == Later(h.p, Later(r, now))
<1>1. h.p \in Nat /\ h.c \in 0..CounterMax /\ s.p \in Nat /\ s.c \in 0..CounterMax
  BY DEF Clock, Stamp
<1>2. /\ r \in Nat /\ l \in Nat /\ l >= h.p /\ l >= r
      /\ Clamped(s, now) \/ r = s.p
      /\ now > 0 => l <= h.p \/ l <= now + MaxDrift
  BY <1>1, HlcConstants DEF Later, Clamped
<1>3. Later(h.c, s.c) \in 0..CounterMax /\ Later(h.c, s.c) >= h.c /\ Later(h.c, s.c) >= s.c
  BY <1>1 DEF Later
<1>4. Observe(h, s, now) =
        CASE l = h.p /\ l = r -> Seen(l, Later(h.c, s.c))
          [] l = h.p /\ l # r -> Seen(l, h.c)
          [] l # h.p /\ l = r -> Seen(l, s.c)
          [] OTHER -> [p |-> l, c |-> 0]
  BY DEF Observe
<1> HIDE DEF r, l
<1> DEFINE Within(o, c) == /\ o \in Clock /\ o.p \in Nat /\ o.c \in Nat
                           /\ o.p >= l /\ o.p <= l + 1
                           /\ o.p > l \/ o.c >= c
<1>5. \A c \in 0..CounterMax : Within(Seen(l, c), c)
  BY <1>2, SeenKeeps DEF Clock
<1>6. CASE l = h.p /\ l = r
  <2>1. Within(Observe(h, s, now), Later(h.c, s.c)) BY <1>3, <1>4, <1>5, <1>6
  <2> QED BY <2>1, <1>1, <1>2, <1>3, <1>6, HlcConstants
<1>7. CASE l = h.p /\ l # r
  <2>1. Within(Observe(h, s, now), h.c) BY <1>1, <1>4, <1>5, <1>7
  <2> QED BY <2>1, <1>1, <1>2, <1>7, HlcConstants
<1>8. CASE l # h.p /\ l = r
  <2>1. Within(Observe(h, s, now), s.c) BY <1>1, <1>4, <1>5, <1>8
  <2> QED BY <2>1, <1>1, <1>2, <1>8, HlcConstants
<1>9. CASE l # h.p /\ l # r
  <2>1. Observe(h, s, now) = [p |-> l, c |-> 0] BY <1>4, <1>9
  <2>2. Within(Observe(h, s, now), 0) BY <2>1, <1>2, HlcConstants DEF Clock
  <2> QED BY <2>2, <1>1, <1>2, <1>9, HlcConstants
<1> QED BY <1>6, <1>7, <1>8, <1>9

\* A stamp that was seen, and was not out of the drift allowance, is older than whatever this
\* node writes next: a local write answers the version it was made in sight of
\* (doc_write_local observes the store's stamp, then mints).
THEOREM SeenThenWritten ==
    ASSUME NEW h \in Clock, NEW s \in Stamp, NEW now \in Nat, NEW later \in Nat, NEW n \in Nat,
           ~Clamped(s, now)
    PROVE  Newer(Mint(Local(Observe(h, s, now), later), n), s)
<1> DEFINE o == Observe(h, s, now)
           w == Mint(Local(o, later), n)
<1>1. o \in Clock /\ (o.p > s.p \/ (o.p = s.p /\ o.c >= s.c))
  BY ObserveBounds
<1>2. Local(o, later) \in Clock /\ Newer(Mint(Local(o, later), n), Mint(o, n))
  BY <1>1, LocalIsNewer
<1>3. o.p \in Nat /\ o.c \in Nat /\ s.p \in Nat /\ s.c \in Nat
  BY <1>1 DEF Clock, Stamp
<1>4. w.p \in Nat /\ w.c \in Nat
  BY <1>2 DEF Mint, Clock
<1>5. w.p > o.p \/ (w.p = o.p /\ w.c > o.c)
  BY <1>2, <1>3, <1>4 DEF Newer, Mint
<1> HIDE DEF o, w
<1>6. w.p > s.p \/ (w.p = s.p /\ w.c > s.c)
  BY <1>1, <1>3, <1>4, <1>5
<1> QED BY <1>6 DEF Newer, o, w

\* A node whose wall clock is set is not carried off by a stamp from the future: no
\* observation takes its clock further than the drift allowance and a millisecond, but
\* for the millisecond a full counter costs.
THEOREM DriftIsBounded ==
    ASSUME NEW h \in Clock, NEW s \in Stamp, NEW now \in Nat, now > 0
    PROVE  \/ Observe(h, s, now).p <= h.p + 1
           \/ Observe(h, s, now).p <= now + MaxDrift + 1
BY ObserveBounds
=============================================================================
